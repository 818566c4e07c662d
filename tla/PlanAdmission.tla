----------------------------- MODULE PlanAdmission -----------------------------
(***************************************************************************)
(* What PlanLimitsService promises about one counted resource (agents,     *)
(* knowledge sources, seats, chat messages of a month): a request counts,  *)
(* compares with the plan's limit and adds its unit in separate steps, so  *)
(* every request that has passed the check may still add one.              *)
(***************************************************************************)
EXTENDS Naturals, FiniteSets

CONSTANTS
    Requests,    \* handlers that may be in flight at the same time
    Limit        \* the entry of PLAN_LIMITS

VARIABLES
    used,        \* units the database counts
    passed       \* requests past assertCan...() that have not added their unit

admissionVars == <<used, passed>>

Init == used = 0 /\ passed = {}

Check(r) ==
    /\ r \notin passed
    /\ used < Limit
    /\ passed' = passed \cup {r}
    /\ UNCHANGED used

Take(r) ==
    /\ r \in passed
    /\ used' = used + 1
    /\ passed' = passed \ {r}

\* A later check refuses one of them, or the server dies with all of them.
Abandon ==
    /\ passed' \in SUBSET passed
    /\ UNCHANGED used

\* Deletions, or a new month in which nothing is used yet.
Release ==
    /\ used' \in 0 .. used
    /\ UNCHANGED passed

Next == (\E r \in Requests : Check(r) \/ Take(r)) \/ Abandon \/ Release

Spec == Init /\ [][Next]_admissionVars

\* The limit is exceeded by at most the requests that overlap the last one
\* admitted: with one request at a time, never.
Overshoot == used + Cardinality(passed) <= Limit + Cardinality(Requests) - 1

=============================================================================
