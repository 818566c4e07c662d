-------------------------- MODULE KnowledgeLifecycle --------------------------
(***************************************************************************)
(* What the dashboard promises about a knowledge source, seen from the     *)
(* status column alone: it is created, committed, put on the queue once,   *)
(* settled as READY or FAILED only after that, possibly settled again when *)
(* its job is redelivered, and removed for good.                           *)
(***************************************************************************)
EXTENDS Naturals

CONSTANT Sources

VARIABLES
    phase,     \* KnowledgeSource.status
    queued     \* how many jobs the source was given

lifecycleVars == <<phase, queued>>

Init ==
    /\ phase = [s \in Sources |-> "ABSENT"]
    /\ queued = [s \in Sources |-> 0]

Create(s) ==
    /\ phase[s] = "ABSENT"
    /\ \E p \in {"PENDING", "PROCESSING"} : phase' = [phase EXCEPT ![s] = p]
    /\ UNCHANGED queued

Commit(s) ==
    /\ phase[s] = "PENDING"
    /\ phase' = [phase EXCEPT ![s] = "PROCESSING"]
    /\ UNCHANGED queued

\* The row may be removed between its commit and queue.add.
Queue(s) ==
    /\ phase[s] \in {"PROCESSING", "DELETED"}
    /\ queued[s] = 0
    /\ queued' = [queued EXCEPT ![s] = 1]
    /\ UNCHANGED phase

Settle(s) ==
    /\ queued[s] = 1
    /\ phase[s] \in {"PROCESSING", "READY", "FAILED"}
    /\ \E p \in {"READY", "FAILED"} : phase' = [phase EXCEPT ![s] = p]
    /\ UNCHANGED queued

Delete(s) ==
    /\ phase[s] \notin {"ABSENT", "DELETED"}
    /\ phase' = [phase EXCEPT ![s] = "DELETED"]
    /\ UNCHANGED queued

Next ==
    \E s \in Sources : Create(s) \/ Commit(s) \/ Queue(s) \/ Settle(s) \/ Delete(s)

Spec == Init /\ [][Next]_lifecycleVars

=============================================================================
