----------------------- MODULE KnowledgeIngestionProofs -----------------------
(***************************************************************************)
(* For every set of sources, requests and workers, and every maxStalled:   *)
(* the types, one job per source, no job before its upload, what a source  *)
(* shows of how its job went and how many copies of its chunks there are,  *)
(* and the implementation of KnowledgeLifecycle.                           *)
(***************************************************************************)
EXTENDS KnowledgeIngestion, FiniteSetTheorems, TLAPS

USE KindAssumption, NoSourceAssumption, NoWorkerAssumption, MaxStalledAssumption

LEMMA TypeInit == Init => TypeOK
  BY DEF Init, TypeOK, IdleRequest, IdleRun, Statuses, Jobs, RequestPcs, RunPcs

-----------------------------------------------------------------------------
(* Type correctness, one lemma per group of actions.                         *)

LEMMA CreateKinds ==
    \A r \in Requests, s \in Sources :
        CreateWebsite(r, s) \/ CreateTextSnippet(r, s)
            => CreateRow(r, s, KindOf[s]) /\ KindOf[s] # "DOCUMENT"
  BY DEF CreateWebsite, CreateTextSnippet, CreateRow

LEMMA TypeApi ==
    ASSUME TypeOK,
           NEW r \in Requests, NEW s \in Sources,
           \/ CreateRow(r, s, KindOf[s]) \/ CompleteRead(r, s) \/ Remove(r, s)
           \/ Api(r) \/ AbortRequest(r)
    PROVE  TypeOK'
<1> USE DEF TypeOK, rowVars, bucketVars, queueVars, IdleRequest, RequestPcs,
            Statuses, Jobs
<1>2. CASE CreateRow(r, s, KindOf[s])  BY <1>2 DEF CreateRow
<1>3. CASE CompleteRead(r, s)  BY <1>3 DEF CompleteRead
<1>4. CASE Remove(r, s)  BY <1>4 DEF Remove
<1>6. CASE AbortRequest(r)  BY <1>6 DEF AbortRequest
<1>8. CASE CompleteCheckObject(r)  BY <1>8 DEF CompleteCheckObject
<1>9. CASE CompleteCommit(r)  BY <1>9 DEF CompleteCommit
<1>10. CASE Enqueue(r)  BY <1>10 DEF Enqueue
<1>11. CASE RemoveObject(r)  BY <1>11 DEF RemoveObject
<1>12. CASE CompleteConflict(r)  BY <1>12 DEF CompleteConflict
<1> QED
  BY <1>2, <1>3, <1>4, <1>6, <1>8, <1>9, <1>10, <1>11, <1>12 DEF Api

LEMMA TypeQueue ==
    ASSUME TypeOK,
           NEW w \in Workers, NEW s \in Sources,
           Pick(w, s) \/ WorkerCrash(w) \/ Finish(w)
    PROVE  TypeOK'
<1> USE DEF TypeOK, rowVars, bucketVars, queueVars, IdleRun, RunPcs, Jobs
<1>1. CASE Pick(w, s)  BY <1>1 DEF Pick
<1>4. CASE WorkerCrash(w)  BY <1>4 DEF WorkerCrash
<1>5. CASE Finish(w)
  <2>1. run[w].src \in Sources  BY <1>5 DEF Finish
  <2>2. job' \in [Sources -> Jobs] /\ lock' \in [Sources -> Workers \cup {NoWorker}]
    <3>1. CASE lock[run[w].src] = w
      <4>1. PICK j \in {"COMPLETED", "FAILED", "UNWRITTEN"} :
                job' = [job EXCEPT ![run[w].src] = j]
        BY <1>5, <3>1 DEF Finish, JobAfter
      <4>2. lock' = [lock EXCEPT ![run[w].src] = NoWorker]
        BY <1>5, <3>1 DEF Finish
      <4> QED  BY <2>1, <4>1, <4>2
    <3>2. CASE lock[run[w].src] # w  BY <1>5, <3>2 DEF Finish
    <3> QED  BY <3>1, <3>2
  <2>3. run' = [run EXCEPT ![w] = IdleRun]
        /\ UNCHANGED <<rowVars, bucketVars, added, stalls, req>>
    BY <1>5 DEF Finish
  <2> QED  BY <2>2, <2>3
<1> QED  BY <1>1, <1>4, <1>5

\* A run that moves on stays a run of its source.
LEMMA GoToType ==
    ASSUME TypeOK, NEW w \in Workers, run[w].pc # "idle",
           \E pc \in RunPcs \ {"idle"} : GoTo(w, pc)
    PROVE  /\ run' \in [Workers -> [pc : RunPcs, src : Sources \cup {NoSource},
                                    chunks : BOOLEAN]]
           /\ \A v \in Workers : run'[v].pc = "idle" <=> run'[v].src = NoSource
  BY DEF TypeOK, GoTo

LEMMA TypeProcess ==
    ASSUME TypeOK, NEW w \in Workers, Process(w)
    PROVE  TypeOK'
<1> DEFINE s == run[w].src
<1> USE DEF TypeOK, rowVars, bucketVars, queueVars, RunPcs, Statuses, GoTo,
            RowUpdate, WriteFailed
<1>1. CASE Load(w)
  <2>1. /\ run[w].pc # "idle" /\ s \in Sources
        /\ \E pc \in RunPcs \ {"idle"} : GoTo(w, pc)
    BY <1>1 DEF Load, AfterLoad
  <2>2. /\ run' \in [Workers -> [pc : RunPcs, src : Sources \cup {NoSource},
                                 chunks : BOOLEAN]]
        /\ \A v \in Workers : run'[v].pc = "idle" <=> run'[v].src = NoSource
    BY <2>1, GoToType
  <2> QED  BY <1>1, <2>1, <2>2 DEF Load
<1>2. CASE Fetch(w)
  <2>1. s \in Sources  BY <1>2 DEF Fetch
  <2>2. PICK pc \in {"extract", "site", "catchStatus"} : GoTo(w, pc)
    BY <1>2 DEF Fetch, AfterFetch
  <2> QED  BY <1>2, <2>1, <2>2 DEF Fetch
<1>3. CASE Extract(w)  BY <1>3 DEF Extract
<1>4. CASE UnsupportedType(w)  BY <1>4 DEF UnsupportedType
<1>5. CASE ClearErrorNote(w)
  <2>1. /\ run[w].pc # "idle" /\ s \in Sources
        /\ \E pc \in RunPcs \ {"idle"} : GoTo(w, pc)
    BY <1>5 DEF ClearErrorNote
  <2>2. /\ run' \in [Workers -> [pc : RunPcs, src : Sources \cup {NoSource},
                                 chunks : BOOLEAN]]
        /\ \A v \in Workers : run'[v].pc = "idle" <=> run'[v].src = NoSource
    BY <2>1, GoToType
  <2> QED  BY <1>5, <2>1, <2>2 DEF ClearErrorNote
<1>6. CASE WriteMetadata(w)
  <2>1. /\ run[w].pc # "idle" /\ s \in Sources
        /\ \E pc \in RunPcs \ {"idle"} : GoTo(w, pc)
    BY <1>6 DEF WriteMetadata, AfterMeta
  <2>2. /\ run' \in [Workers -> [pc : RunPcs, src : Sources \cup {NoSource},
                                 chunks : BOOLEAN]]
        /\ \A v \in Workers : run'[v].pc = "idle" <=> run'[v].src = NoSource
    BY <2>1, GoToType
  <2> QED  BY <1>6, <2>1, <2>2 DEF WriteMetadata
<1>7. CASE ClearChunks(w)
  <2>1. /\ run[w].pc # "idle" /\ s \in Sources
        /\ \E pc \in RunPcs \ {"idle"} : GoTo(w, pc)
    BY <1>7 DEF ClearChunks
  <2>2. /\ run' \in [Workers -> [pc : RunPcs, src : Sources \cup {NoSource},
                                 chunks : BOOLEAN]]
        /\ \A v \in Workers : run'[v].pc = "idle" <=> run'[v].src = NoSource
    BY <2>1, GoToType
  <2> QED  BY <1>7, <2>1, <2>2 DEF ClearChunks
<1>8. CASE Embed(w)
  <2>1. s \in Sources  BY <1>8 DEF Embed
  <2>2. CASE GoTo(w, "catchStatus")  BY <1>8, <2>1, <2>2 DEF Embed
  <2>3. ASSUME NEW some \in BOOLEAN,
               run' = [run EXCEPT ![w] = [pc |-> "store", src |-> s,
                                          chunks |-> some]]
        PROVE  TypeOK'
    BY <1>8, <2>1, <2>3 DEF Embed
  <2> QED  BY <1>8, <2>2, <2>3 DEF Embed
<1>9. CASE Store(w)
  <2>1. s \in Sources /\ copies' \in [Sources -> Nat]  BY <1>9 DEF Store
  <2>2. PICK pc \in {"note", "ready", "catchStatus"} : GoTo(w, pc)
    BY <1>9 DEF Store, AfterStore
  <2>3. UNCHANGED <<status, upload, errorNote, bucketVars, queueVars, req>>
    BY <1>9 DEF Store
  <2>4. s # NoSource  BY <2>1
  <2>5. run' = [run EXCEPT ![w].pc = pc] /\ run[w].src = s  BY <2>2
  <2> HIDE DEF s, GoTo, RowUpdate, WriteFailed
  <2> QED  BY <2>1, <2>3, <2>4, <2>5
<1>10. CASE MarkReady(w)
  <2>1. /\ run[w].pc # "idle" /\ s \in Sources
        /\ \E pc \in RunPcs \ {"idle"} : GoTo(w, pc)
    BY <1>10 DEF MarkReady
  <2>2. /\ run' \in [Workers -> [pc : RunPcs, src : Sources \cup {NoSource},
                                 chunks : BOOLEAN]]
        /\ \A v \in Workers : run'[v].pc = "idle" <=> run'[v].src = NoSource
    BY <2>1, GoToType
  <2> QED  BY <1>10, <2>1, <2>2 DEF MarkReady
<1>11. CASE CatchStatus(w)
  <2>1. /\ run[w].pc # "idle" /\ s \in Sources
        /\ \E pc \in RunPcs \ {"idle"} : GoTo(w, pc)
    BY <1>11 DEF CatchStatus
  <2>2. /\ run' \in [Workers -> [pc : RunPcs, src : Sources \cup {NoSource},
                                 chunks : BOOLEAN]]
        /\ \A v \in Workers : run'[v].pc = "idle" <=> run'[v].src = NoSource
    BY <2>1, GoToType
  <2> QED  BY <1>11, <2>1, <2>2 DEF CatchStatus
<1>12. CASE CatchNote(w)  BY <1>12 DEF CatchNote, Live
<1>13. CASE Refused(w)
  <2>1. /\ run[w].pc # "idle" /\ s \in Sources
        /\ \E pc \in RunPcs \ {"idle"} : GoTo(w, pc)
    BY <1>13 DEF Refused
  <2>2. /\ run' \in [Workers -> [pc : RunPcs, src : Sources \cup {NoSource},
                                 chunks : BOOLEAN]]
        /\ \A v \in Workers : run'[v].pc = "idle" <=> run'[v].src = NoSource
    BY <2>1, GoToType
  <2> QED  BY <1>13, <2>1, <2>2 DEF Refused
<1> QED
  BY <1>1, <1>2, <1>3, <1>4, <1>5, <1>6, <1>7, <1>8, <1>9, <1>10, <1>11, <1>12, <1>13
  DEF Process

LEMMA TypeNext == TypeOK /\ [Next]_vars => TypeOK'
<1> SUFFICES ASSUME TypeOK, [Next]_vars PROVE TypeOK'  OBVIOUS
<1>1. CASE UNCHANGED vars
  BY <1>1 DEF TypeOK, vars, rowVars, bucketVars, queueVars
<1>2. CASE Next
  \* Every action of the API mentions a request, the single-source ones aside.
  <2>1. ASSUME NEW s \in Sources, UploadUrl(s) PROVE TypeOK'
    BY <2>1 DEF TypeOK, UploadUrl, queueVars, Statuses
  <2>2. ASSUME NEW s \in Sources, ExpireUrl(s) PROVE TypeOK'
    BY <2>2 DEF TypeOK, ExpireUrl, queueVars, rowVars
  <2>3. ASSUME NEW s \in Sources, NEW content \in {"GOOD", "BAD"},
               PutObject(s, content)
        PROVE  TypeOK'
    BY <2>3 DEF TypeOK, PutObject, queueVars, rowVars
  <2>4. ASSUME NEW s \in Sources, LoseLock(s) \/ StalledCheck(s) PROVE TypeOK'
    <3>1. CASE LoseLock(s)  BY <3>1 DEF TypeOK, LoseLock, rowVars, bucketVars
    <3>2. CASE StalledCheck(s)
      <4>1. job' \in [Sources -> Jobs] /\ stalls' \in [Sources -> Nat]
        BY <3>2 DEF TypeOK, StalledCheck, Jobs
      <4> QED  BY <3>2, <4>1 DEF TypeOK, StalledCheck, rowVars, bucketVars
    <3> QED  BY <2>4, <3>1, <3>2
  <2>5. ASSUME NEW r \in Requests, NEW s \in Sources,
               CreateRow(r, s, KindOf[s]) \/ CompleteRead(r, s) \/ Remove(r, s)
        PROVE  TypeOK'
    BY <2>5, TypeApi
  <2>6. ASSUME NEW r \in Requests, Api(r) \/ AbortRequest(r) PROVE TypeOK'
    <3>1. req[r].src \in Sources
      BY <2>6 DEF TypeOK, Api, AbortRequest, CompleteCheckObject, CompleteCommit,
                  CompleteConflict, Enqueue, RemoveObject
    <3> QED  BY <2>6, <3>1, TypeApi
  <2>7. ASSUME NEW w \in Workers, NEW s \in Sources, Pick(w, s) PROVE TypeOK'
    BY <2>7, TypeQueue
  <2>8. ASSUME NEW w \in Workers, Finish(w) \/ WorkerCrash(w) PROVE TypeOK'
    <3>1. run[w].src \in Sources  BY <2>8 DEF TypeOK, Finish, WorkerCrash
    <3> QED  BY <2>8, <3>1, TypeQueue
  <2>9. ASSUME NEW w \in Workers, Process(w) PROVE TypeOK'
    BY <2>9, TypeProcess
  <2> QED
    BY <1>2, <2>1, <2>2, <2>3, <2>4, <2>5, <2>6, <2>7, <2>8, <2>9, CreateKinds DEF Next
<1> QED  BY <1>1, <1>2

\* Every reachable state is well typed.
THEOREM TypeCorrect == Spec => []TypeOK
  BY TypeInit, TypeNext, PTL DEF Spec

-----------------------------------------------------------------------------
(* One job per source.                                                       *)

\* What a step of process() can do to the variables the argument is about: it
\* keeps working for the same source, and may write an outcome in a live row.
LEMMA ProcessEffect ==
    ASSUME TypeOK, NEW w \in Workers, Process(w)
    PROVE  /\ UNCHANGED <<upload, added, job, stalls, req>>
           /\ run[w].src \in Sources
           /\ run[w].pc # "idle"
           /\ \A v \in Workers : run'[v].src = run[v].src /\ (v # w => run'[v] = run[v])
           /\ \/ UNCHANGED status
              \/ /\ Live(run[w].src)
                 /\ \E p \in {"READY", "FAILED"} :
                        status' = [status EXCEPT ![run[w].src] = p]
<1> DEFINE s == run[w].src
<1> USE DEF TypeOK, rowVars, bucketVars, queueVars, GoTo, RowUpdate, WriteFailed
<1>1. CASE Load(w)  BY <1>1 DEF Load
<1>2. CASE Fetch(w)
  <2>1. \E pc \in RunPcs : GoTo(w, pc)  BY <1>2 DEF Fetch, AfterFetch, RunPcs
  <2> QED  BY <1>2, <2>1 DEF Fetch
<1>3. CASE Extract(w)  BY <1>3 DEF Extract
<1>4. CASE UnsupportedType(w)  BY <1>4 DEF UnsupportedType
<1>5. CASE ClearErrorNote(w)  BY <1>5 DEF ClearErrorNote
<1>6. CASE WriteMetadata(w)  BY <1>6 DEF WriteMetadata
<1>7. CASE ClearChunks(w)  BY <1>7 DEF ClearChunks
<1>8. CASE Embed(w)  BY <1>8 DEF Embed
<1>9. CASE Store(w)
  <2>1. \E pc \in RunPcs : GoTo(w, pc)  BY <1>9 DEF Store, AfterStore, RunPcs
  <2> QED  BY <1>9, <2>1 DEF Store
<1>10. CASE MarkReady(w)  BY <1>10 DEF MarkReady
<1>11. CASE CatchStatus(w)  BY <1>11 DEF CatchStatus
<1>12. CASE CatchNote(w)  BY <1>12 DEF CatchNote
<1>13. CASE Refused(w)  BY <1>13 DEF Refused
<1> QED
  BY <1>1, <1>2, <1>3, <1>4, <1>5, <1>6, <1>7, <1>8, <1>9, <1>10, <1>11, <1>12, <1>13
  DEF Process

LEMMA OneJobInit == Init => OneJobInv
  BY DEF Init, OneJobInv, IdleRequest, IdleRun, Live

LEMMA OneJobNext == TypeOK /\ OneJobInv /\ [Next]_vars => OneJobInv'
<1> SUFFICES ASSUME TypeOK, OneJobInv, [Next]_vars PROVE OneJobInv'  OBVIOUS
<1> USE DEF OneJobInv, TypeOK, Live
<1>1. CASE UNCHANGED vars
  BY <1>1 DEF vars, rowVars, bucketVars, queueVars
<1>2. ASSUME NEW s \in Sources, UploadUrl(s) PROVE OneJobInv'
  BY <1>2 DEF UploadUrl, queueVars
<1>3. ASSUME NEW s \in Sources,
             ExpireUrl(s) \/ \E content \in {"GOOD", "BAD"} : PutObject(s, content)
      PROVE  OneJobInv'
  BY <1>3 DEF ExpireUrl, PutObject, queueVars, rowVars
<1>4. ASSUME NEW s \in Sources, LoseLock(s) PROVE OneJobInv'
  BY <1>4 DEF LoseLock, rowVars, bucketVars
<1>5. ASSUME NEW s \in Sources, StalledCheck(s) PROVE OneJobInv'
  BY <1>5 DEF StalledCheck, rowVars, bucketVars
<1>6. ASSUME NEW r \in Requests, NEW s \in Sources, CreateRow(r, s, KindOf[s]),
             KindOf[s] # "DOCUMENT"
      PROVE  OneJobInv'
  BY <1>6 DEF CreateRow, bucketVars, queueVars
<1>7. ASSUME NEW r \in Requests, NEW s \in Sources, CompleteRead(r, s)
      PROVE  OneJobInv'
  BY <1>7 DEF CompleteRead, rowVars, bucketVars, queueVars
<1>8. ASSUME NEW r \in Requests, NEW s \in Sources, Remove(r, s)
      PROVE  OneJobInv'
  BY <1>8 DEF Remove, bucketVars, queueVars, IdleRequest
<1>9. ASSUME NEW r \in Requests,
             CompleteCheckObject(r) \/ CompleteConflict(r) \/ RemoveObject(r)
               \/ AbortRequest(r)
      PROVE  OneJobInv'
  <2>1. /\ UNCHANGED <<status, upload, added, job, run>>
        /\ \A q \in Requests : req'[q].pc = "enqueue" => req'[q] = req[q]
    BY <1>9 DEF CompleteCheckObject, CompleteConflict, RemoveObject, AbortRequest,
                rowVars, bucketVars, queueVars, IdleRequest
  <2> QED  BY <2>1
<1>10. ASSUME NEW r \in Requests, CompleteCommit(r) PROVE OneJobInv'
  <2>1. /\ req[r].src \in Sources
        /\ status[req[r].src] = "PENDING"
        /\ added[req[r].src] = 0
        /\ \A q \in Requests :
              req[q].pc = "enqueue" => req[q].src # req[r].src
    BY <1>10 DEF CompleteCommit, CommitSucceeds
  <2> QED  BY <1>10, <2>1 DEF CompleteCommit, bucketVars, queueVars
<1>11. ASSUME NEW r \in Requests, Enqueue(r) PROVE OneJobInv'
  <2>1. req[r].src \in Sources  BY <1>11 DEF Enqueue
  <2> QED  BY <1>11, <2>1 DEF Enqueue, rowVars, bucketVars, IdleRequest
<1>12. ASSUME NEW w \in Workers, NEW s \in Sources, Pick(w, s) PROVE OneJobInv'
  BY <1>12 DEF Pick, rowVars, bucketVars
<1>13. ASSUME NEW w \in Workers, Finish(w) PROVE OneJobInv'
  <2>1. run[w].src \in Sources  BY <1>13 DEF Finish
  <2> QED  BY <1>13, <2>1 DEF Finish, JobAfter, rowVars, bucketVars, IdleRun
<1>14. ASSUME NEW w \in Workers, WorkerCrash(w) PROVE OneJobInv'
  BY <1>14 DEF WorkerCrash, rowVars, bucketVars, IdleRun
<1>15. ASSUME NEW w \in Workers, Process(w) PROVE OneJobInv'
  <2>1. TypeOK'  BY <1>15, TypeProcess
  <2>2. \A v \in Workers : run'[v].pc # "idle" => run[v].pc # "idle"
    BY <1>15, <2>1, ProcessEffect
  <2> QED  BY <1>15, <2>2, ProcessEffect
<1>16. ASSUME NEW r \in Requests, Api(r) \/ AbortRequest(r) PROVE OneJobInv'
  BY <1>9, <1>10, <1>11, <1>16 DEF Api
<1> HIDE DEF OneJobInv, TypeOK, Live
<1> QED
  BY <1>1, <1>2, <1>3, <1>4, <1>5, <1>6, <1>7, <1>8, <1>12, <1>13, <1>14, <1>15,
     <1>16, CreateKinds DEF Next

LEMMA OneJobCorrect == Spec => []OneJobInv
  BY OneJobInit, OneJobNext, TypeCorrect, PTL DEF Spec

\* However many complete() calls overlap, a source gets one job.
THEOREM SpecEnqueuedOnce == Spec => []EnqueuedOnce
<1>1. OneJobInv => EnqueuedOnce
  <2>1. SUFFICES ASSUME OneJobInv, NEW s \in Sources PROVE added[s] <= 1
    BY DEF EnqueuedOnce
  <2>2. added[s] = 0 \/ added[s] = 1  BY <2>1, Zenon DEF OneJobInv
  <2> QED  BY <2>2
<1> QED  BY <1>1, OneJobCorrect, PTL

\* A document with a job has completed its upload.
THEOREM SpecJobAfterUpload == Spec => []JobAfterUpload
<1>1. OneJobInv => JobAfterUpload  BY DEF OneJobInv, JobAfterUpload, Live
<1> QED  BY <1>1, OneJobCorrect, PTL

-----------------------------------------------------------------------------
(* The steps, as far as rows, jobs and runs are concerned.                   *)

\* A row appears, or its upload is committed: nothing was queued for it yet.
Birth(s) ==
    /\ added[s] = 0
    /\ status[s] \in {"ABSENT", "PENDING"}
    /\ \E p \in {"PENDING", "PROCESSING"} : status' = [status EXCEPT ![s] = p]
    /\ UNCHANGED <<copies, errorNote, added, job, stalls, run>>

LEMMA StepKinds ==
    ASSUME TypeOK, OneJobInv, [Next]_vars
    PROVE  \/ \E s \in Sources : Birth(s) \/ StalledCheck(s)
           \/ \E r \in Requests : Enqueue(r)
           \/ \E r \in Requests, s \in Sources : Remove(r, s)
           \/ \E w \in Workers, s \in Sources : Pick(w, s)
           \/ \E w \in Workers : Process(w) \/ Finish(w) \/ WorkerCrash(w)
           \/ UNCHANGED <<status, copies, errorNote, added, job, stalls, run>>
<1> USE DEF TypeOK, OneJobInv, rowVars, bucketVars, queueVars
<1>1. ASSUME NEW s \in Sources, UploadUrl(s) PROVE Birth(s)
  BY <1>1 DEF UploadUrl, Birth
<1>2. ASSUME NEW r \in Requests, NEW s \in Sources, CreateRow(r, s, KindOf[s])
      PROVE  Birth(s)
  BY <1>2 DEF CreateRow, Birth
<1>3. ASSUME NEW r \in Requests, CompleteCommit(r)
      PROVE  req[r].src \in Sources /\ Birth(req[r].src)
  BY <1>3 DEF CompleteCommit, CommitSucceeds, Birth
<1>4. ASSUME NEW s \in Sources,
             \/ ExpireUrl(s) \/ LoseLock(s)
             \/ \E content \in {"GOOD", "BAD"} : PutObject(s, content)
             \/ \E r \in Requests : CompleteRead(r, s)
      PROVE  UNCHANGED <<status, copies, errorNote, added, job, stalls, run>>
  BY <1>4 DEF ExpireUrl, LoseLock, PutObject, CompleteRead
<1>5. ASSUME NEW r \in Requests,
             CompleteCheckObject(r) \/ CompleteConflict(r) \/ RemoveObject(r)
               \/ AbortRequest(r)
      PROVE  UNCHANGED <<status, copies, errorNote, added, job, stalls, run>>
  BY <1>5 DEF CompleteCheckObject, CompleteConflict, RemoveObject, AbortRequest
<1>6. CASE UNCHANGED vars  BY <1>6 DEF vars
<1> HIDE DEF TypeOK, OneJobInv, rowVars, bucketVars, queueVars
<1> QED  BY <1>1, <1>2, <1>3, <1>4, <1>5, <1>6, CreateKinds DEF Next, Api

\* What the six variables are after the steps around the runs.
LEMMA AroundRuns ==
    ASSUME TypeOK, OneJobInv
    PROVE  /\ \A s \in Sources : StalledCheck(s) =>
                 /\ UNCHANGED <<status, copies, errorNote, added, run>>
                 /\ job[s] = "ACTIVE"
                 /\ \/ job' = [job EXCEPT ![s] = "WAITING"]
                       /\ stalls' = [stalls EXCEPT ![s] = @ + 1]
                    \/ job' = [job EXCEPT ![s] = "DROPPED"] /\ UNCHANGED stalls
           /\ \A r \in Requests : Enqueue(r) =>
                 /\ req[r].src \in Sources
                 /\ added[req[r].src] = 0
                 /\ job' = [job EXCEPT ![req[r].src] = "WAITING"]
                 /\ added' = [added EXCEPT ![req[r].src] = 1]
                 /\ UNCHANGED <<status, copies, errorNote, stalls, run>>
           /\ \A w \in Workers, s \in Sources : Pick(w, s) =>
                 /\ UNCHANGED <<status, copies, errorNote, added, stalls>>
                 /\ job[s] = "WAITING" /\ job' = [job EXCEPT ![s] = "ACTIVE"]
                 /\ run[w].pc = "idle"
                 /\ run' = [run EXCEPT ![w] = [pc |-> "load", src |-> s, chunks |-> FALSE]]
           /\ \A w \in Workers : WorkerCrash(w) =>
                 /\ UNCHANGED <<status, copies, errorNote, added, job, stalls>>
                 /\ run' = [run EXCEPT ![w] = IdleRun]
           /\ \A w \in Workers : Finish(w) =>
                 /\ UNCHANGED <<status, copies, errorNote, added, stalls>>
                 /\ run[w].pc \in {"done", "threw", "unwritten"}
                 /\ run[w].src \in Sources
                 /\ run' = [run EXCEPT ![w] = IdleRun]
                 /\ \/ job' = job
                    \/ job' = [job EXCEPT ![run[w].src] =
                                  JobAfter(run[w].pc)]
<1> USE DEF TypeOK, OneJobInv, rowVars, bucketVars, queueVars
<1>1. ASSUME NEW r \in Requests, Enqueue(r)
      PROVE  /\ req[r].src \in Sources
             /\ added[req[r].src] = 0
             /\ added' = [added EXCEPT ![req[r].src] = 1]
  <2>1. req[r].src \in Sources  BY <1>1 DEF Enqueue
  <2>2. added[req[r].src] = 0  BY <1>1 DEF Enqueue
  <2>3. added' = [added EXCEPT ![req[r].src] = added[req[r].src] + 1]
    BY <1>1 DEF Enqueue
  <2> QED  BY <2>1, <2>2, <2>3
<1>2. ASSUME NEW s \in Sources, StalledCheck(s)
      PROVE  /\ UNCHANGED <<status, copies, errorNote, added, run>>
             /\ job[s] = "ACTIVE"
             /\ \/ job' = [job EXCEPT ![s] = "WAITING"]
                   /\ stalls' = [stalls EXCEPT ![s] = @ + 1]
                \/ job' = [job EXCEPT ![s] = "DROPPED"] /\ UNCHANGED stalls
  BY <1>2 DEF StalledCheck
<1>3. ASSUME NEW r \in Requests, Enqueue(r)
      PROVE  /\ job' = [job EXCEPT ![req[r].src] = "WAITING"]
             /\ UNCHANGED <<status, copies, errorNote, stalls, run>>
  BY <1>3 DEF Enqueue
<1>4. ASSUME NEW w \in Workers, NEW s \in Sources, Pick(w, s)
      PROVE  /\ UNCHANGED <<status, copies, errorNote, added, stalls>>
             /\ job[s] = "WAITING" /\ job' = [job EXCEPT ![s] = "ACTIVE"]
             /\ run[w].pc = "idle"
             /\ run' = [run EXCEPT ![w] = [pc |-> "load", src |-> s, chunks |-> FALSE]]
  BY <1>4 DEF Pick
<1>5. ASSUME NEW w \in Workers, WorkerCrash(w)
      PROVE  /\ UNCHANGED <<status, copies, errorNote, added, job, stalls>>
             /\ run' = [run EXCEPT ![w] = IdleRun]
  BY <1>5 DEF WorkerCrash
<1>6. ASSUME NEW w \in Workers, Finish(w)
      PROVE  /\ UNCHANGED <<status, copies, errorNote, added, stalls>>
             /\ run[w].pc \in {"done", "threw", "unwritten"}
             /\ run[w].src \in Sources
             /\ run' = [run EXCEPT ![w] = IdleRun]
             /\ \/ job' = job
                \/ job' = [job EXCEPT ![run[w].src] =
                              JobAfter(run[w].pc)]
  BY <1>6 DEF Finish
<1> HIDE DEF TypeOK, OneJobInv, rowVars, bucketVars, queueVars
<1> QED  BY <1>1, <1>2, <1>3, <1>4, <1>5, <1>6

-----------------------------------------------------------------------------
(* Nothing stays PROCESSING.                                                 *)

Settled == {"READY", "FAILED", "DELETED"}

\* The inductive strengthening of NeverStuckProcessing: a run that is over, or about
\* to write its note, has written an outcome, and so has the run of an ended job.
SettledInv ==
    /\ \A s \in Sources : job[s] \in {"COMPLETED", "FAILED"} => status[s] \in Settled
    /\ \A w \in Workers :
          run[w].pc \in {"done", "threw", "catchNote"} => status[run[w].src] \in Settled

LEMMA SettledInit == Init => SettledInv
  BY DEF Init, SettledInv, IdleRun

\* What was queued and settled stays settled: only runs and remove() write it.
LEMMA StaysSettled ==
    ASSUME TypeOK, OneJobInv, [Next]_vars, NEW s \in Sources,
           added[s] = 1, status[s] \in Settled
    PROVE  status'[s] \in Settled
<1> USE DEF TypeOK, Settled
<1>1. ASSUME NEW x \in Sources, Birth(x) PROVE status'[s] \in Settled
  BY <1>1 DEF Birth
<1>2. ASSUME NEW r \in Requests, NEW x \in Sources, Remove(r, x)
      PROVE  status'[s] \in Settled
  BY <1>2 DEF Remove
<1>3. ASSUME NEW w \in Workers, Process(w) PROVE status'[s] \in Settled
  BY <1>3, ProcessEffect
<1> QED  BY <1>1, <1>2, <1>3, StepKinds, AroundRuns

\* A step of process() that ends a run, or reaches its note, leaves an outcome.
LEMMA ProcessSettles ==
    ASSUME TypeOK, OneJobInv, SettledInv, NEW w \in Workers, Process(w),
           run'[w].pc \in {"done", "threw", "catchNote"}
    PROVE  status'[run[w].src] \in Settled
<1> DEFINE s == run[w].src
<1> USE DEF TypeOK, OneJobInv, SettledInv, Settled, Live, GoTo, RowUpdate, WriteFailed,
            Statuses, rowVars
<1>0. s \in Sources /\ status[s] \in {"PROCESSING", "READY", "FAILED", "DELETED"}
  BY ProcessEffect
<1>1. CASE Load(w)  BY <1>0, <1>1 DEF Load, AfterLoad
<1>2. CASE Fetch(w)  BY <1>0, <1>2 DEF Fetch, AfterFetch
<1>3. CASE Extract(w)  BY <1>3 DEF Extract
<1>4. CASE UnsupportedType(w)  BY <1>4 DEF UnsupportedType
<1>5. CASE ClearErrorNote(w)  BY <1>5 DEF ClearErrorNote
<1>6. CASE WriteMetadata(w)  BY <1>0, <1>6 DEF WriteMetadata, AfterMeta
<1>7. CASE ClearChunks(w)  BY <1>7 DEF ClearChunks
<1>8. CASE Embed(w)  BY <1>8 DEF Embed
<1>9. CASE Store(w)  BY <1>0, <1>9 DEF Store, AfterStore
<1>10. CASE MarkReady(w)  BY <1>0, <1>10 DEF MarkReady
<1>11. CASE CatchStatus(w)  BY <1>0, <1>11 DEF CatchStatus
<1>12. CASE CatchNote(w)  BY <1>0, <1>12 DEF CatchNote
<1>13. CASE Refused(w)  BY <1>0, <1>13 DEF Refused
<1> QED
  BY <1>1, <1>2, <1>3, <1>4, <1>5, <1>6, <1>7, <1>8, <1>9, <1>10, <1>11, <1>12, <1>13
  DEF Process

LEMMA SettledNext == TypeOK /\ OneJobInv /\ SettledInv /\ [Next]_vars => SettledInv'
<1> SUFFICES ASSUME TypeOK, OneJobInv, SettledInv, [Next]_vars PROVE SettledInv'
  OBVIOUS
<1>1. \A s \in Sources : added[s] = 1 /\ status[s] \in Settled => status'[s] \in Settled
  BY StaysSettled
<1>2. \A s \in Sources :
         job'[s] \in {"COMPLETED", "FAILED"} => added[s] = 1 /\ status[s] \in Settled
  <2>1. \A s \in Sources : job[s] \in {"COMPLETED", "FAILED"} =>
                              added[s] = 1 /\ status[s] \in Settled
    BY DEF SettledInv, OneJobInv
  <2>2. CASE UNCHANGED job  BY <2>1, <2>2
  <2>3. ASSUME NEW w \in Workers, Finish(w)
        PROVE  \A s \in Sources : job'[s] \in {"COMPLETED", "FAILED"} =>
                                     added[s] = 1 /\ status[s] \in Settled
    <3>1. job'[run[w].src] \in {"COMPLETED", "FAILED"} =>
             added[run[w].src] = 1 /\ status[run[w].src] \in Settled
      <4>1. CASE job' = job
        <5>1. run[w].src \in Sources  BY <2>3, AroundRuns
        <5> QED  BY <2>1, <4>1, <5>1
      <4>2. CASE run[w].pc \in {"done", "threw"}
        BY <2>3, <4>2, AroundRuns DEF SettledInv, OneJobInv
      <4>3. CASE job' # job /\ run[w].pc = "unwritten"
        <5>1. job'[run[w].src] = "UNWRITTEN"
          BY <2>3, <4>3, AroundRuns DEF JobAfter, TypeOK
        <5> QED  BY <5>1
      <4> QED  BY <2>3, <4>1, <4>2, <4>3, AroundRuns
    <3>2. \A s \in Sources : s # run[w].src => job'[s] = job[s]
      BY <2>3, AroundRuns DEF TypeOK
    <3> QED  BY <2>1, <3>1, <3>2
  <2>4. ASSUME NEW s \in Sources, NEW j \in {"WAITING", "ACTIVE", "DROPPED"},
               job' = [job EXCEPT ![s] = j]
        PROVE  \A x \in Sources : job'[x] \in {"COMPLETED", "FAILED"} => job'[x] = job[x]
    BY <2>4 DEF TypeOK
  <2>5. \A r \in Requests, s \in Sources : Remove(r, s) => UNCHANGED job
    BY DEF Remove, queueVars
  <2> QED
    BY <2>1, <2>2, <2>3, <2>4, <2>5, StepKinds, AroundRuns, ProcessEffect DEF Birth
<1>3. ASSUME NEW w \in Workers, run'[w].pc \in {"done", "threw", "catchNote"}
      PROVE  /\ run'[w].src = run[w].src /\ run[w].src \in Sources
             /\ status'[run[w].src] \in Settled
  <2>1. CASE Process(w)  BY <1>3, <2>1, ProcessSettles, ProcessEffect
  <2>2. CASE UNCHANGED run[w]
    <3>1. run[w].src \in Sources /\ added[run[w].src] = 1
      BY <1>3, <2>2 DEF TypeOK, OneJobInv
    <3>2. status[run[w].src] \in Settled  BY <1>3, <2>2 DEF SettledInv
    <3> QED  BY <1>1, <2>2, <3>1, <3>2
  <2>3. \A v \in Workers : v # w /\ Process(v) => run'[w] = run[w]
    BY ProcessEffect
  <2>4. \A r \in Requests, s \in Sources : Remove(r, s) => UNCHANGED run
    BY DEF Remove
  <2> QED
    BY <1>3, <2>1, <2>2, <2>3, <2>4, StepKinds, AroundRuns DEF Birth, IdleRun, TypeOK
<1> QED  BY <1>1, <1>2, <1>3 DEF SettledInv

LEMMA SettledCorrect == Spec => []SettledInv
  BY SettledInit, SettledNext, TypeCorrect, OneJobCorrect, PTL DEF Spec

\* A source that stays PROCESSING was cut off before its job, or lost it.
THEOREM SpecNeverStuckProcessing == Spec => []NeverStuckProcessing
<1>1. TypeOK /\ OneJobInv /\ SettledInv => NeverStuckProcessing
  BY DEF TypeOK, OneJobInv, SettledInv, Settled, NeverStuckProcessing, Jobs
<1> QED  BY <1>1, TypeCorrect, OneJobCorrect, SettledCorrect, PTL

-----------------------------------------------------------------------------
(* What removal leaves, and how often chunks are stored.                     *)

\* The run of a delivery that may still store chunks, and has not yet.
StoringPcs == {"load", "fetch", "extract", "site", "meta", "clear", "embed", "store"}
Storing(s) == {w \in Workers : run[w].src = s /\ run[w].pc \in StoringPcs}

\* A step of process() writes only in its own source: it clears the chunks, or stores
\* one set of them in a live row and stores none after that; and it sets the note of a
\* live row only.
LEMMA ProcessWrites ==
    ASSUME TypeOK, NEW w \in Workers, Process(w)
    PROVE  LET s == run[w].src IN
           /\ \A x \in Sources : x # s => copies'[x] = copies[x] /\ errorNote'[x] = errorNote[x]
           /\ \/ /\ copies'[s] \in {copies[s], 0}
                 /\ run'[w].pc \in StoringPcs => run[w].pc \in StoringPcs
              \/ /\ copies'[s] = copies[s] + 1
                 /\ Live(s)
                 /\ run[w].pc \in StoringPcs /\ run'[w].pc \notin StoringPcs
           /\ errorNote'[s] => errorNote[s] \/ Live(s)
<1> DEFINE s == run[w].src
<1>0. s \in Sources /\ run[w].pc # "idle"  BY ProcessEffect
<1> USE <1>0 DEF TypeOK, GoTo, RowUpdate, StoringPcs, rowVars
<1>1. CASE Load(w)  BY <1>1 DEF Load, AfterLoad
<1>2. CASE Fetch(w)  BY <1>2 DEF Fetch, AfterFetch
<1>3. CASE Extract(w)  BY <1>3 DEF Extract
<1>4. CASE UnsupportedType(w)  BY <1>4 DEF UnsupportedType
<1>5. CASE ClearErrorNote(w)  BY <1>5 DEF ClearErrorNote
<1>6. CASE WriteMetadata(w)  BY <1>6 DEF WriteMetadata, AfterMeta
<1>7. CASE ClearChunks(w)  BY <1>7 DEF ClearChunks
<1>8. CASE Embed(w)  BY <1>8 DEF Embed
<1>9. CASE Store(w)
  <2>1. run[w].pc = "store" /\ run'[w].pc \in {"note", "ready", "catchStatus"}
    BY <1>9 DEF Store, AfterStore
  <2>2. \/ copies' = copies
        \/ Live(s) /\ copies' = [copies EXCEPT ![s] = copies[s] + 1]
    BY <1>9 DEF Store
  <2>3. UNCHANGED errorNote  BY <1>9 DEF Store
  <2> QED  BY <2>1, <2>2, <2>3
<1>10. CASE MarkReady(w)  BY <1>10 DEF MarkReady
<1>11. CASE CatchStatus(w)  BY <1>11 DEF CatchStatus
<1>12. CASE CatchNote(w)  BY <1>12 DEF CatchNote
<1>13. CASE Refused(w)  BY <1>13 DEF Refused
<1> QED
  BY <1>1, <1>2, <1>3, <1>4, <1>5, <1>6, <1>7, <1>8, <1>9, <1>10, <1>11, <1>12, <1>13
  DEF Process

LEMMA RemovedNext ==
    TypeOK /\ OneJobInv /\ RemovedLeavesNoChunks /\ [Next]_vars => RemovedLeavesNoChunks'
<1> SUFFICES ASSUME TypeOK, OneJobInv, RemovedLeavesNoChunks, [Next]_vars
             PROVE  RemovedLeavesNoChunks'
  OBVIOUS
<1> USE DEF RemovedLeavesNoChunks, Live, TypeOK
<1>1. ASSUME NEW s \in Sources, Birth(s) PROVE RemovedLeavesNoChunks'
  BY <1>1 DEF Birth
<1>2. ASSUME NEW r \in Requests, NEW s \in Sources, Remove(r, s)
      PROVE  RemovedLeavesNoChunks'
  BY <1>2 DEF Remove
<1>3. ASSUME NEW w \in Workers, Process(w) PROVE RemovedLeavesNoChunks'
  <2>1. \A x \in Sources : Live(x)' = Live(x)  BY <1>3, ProcessEffect
  <2>2. \A x \in Sources : ~ Live(x) => copies'[x] = 0 /\ ~ errorNote'[x]
    BY <1>3, ProcessWrites, ProcessEffect
  <2> QED  BY <2>1, <2>2
<1>4. UNCHANGED <<status, copies, errorNote>> => RemovedLeavesNoChunks'
  OBVIOUS
<1> HIDE DEF RemovedLeavesNoChunks, Live, TypeOK
<1> QED  BY <1>1, <1>2, <1>3, <1>4, StepKinds, AroundRuns

\* The cascade and the foreign key leave nothing behind a removed source.
THEOREM SpecRemovedLeavesNoChunks == Spec => []RemovedLeavesNoChunks
<1>1. Init => RemovedLeavesNoChunks  BY DEF Init, RemovedLeavesNoChunks
<1> QED  BY <1>1, RemovedNext, TypeCorrect, OneJobCorrect, PTL DEF Spec

\* The inductive strengthening of CopiesBounded: every delivery, whether it waits in
\* the queue or is being processed, is counted before it stores anything.
CopiesInv ==
    \A s \in Sources :
        copies[s] + Cardinality(Storing(s)) + (IF job[s] = "WAITING" THEN 1 ELSE 0)
            <= stalls[s] + added[s]

\* Workers are finitely many, so how many are storing can be counted.
LEMMA StoringCount ==
    ASSUME NEW S \in SUBSET Workers, NEW T \in SUBSET Workers, NEW w \in Workers
    PROVE  /\ Cardinality(S) \in Nat
           /\ S \subseteq T => Cardinality(S) <= Cardinality(T)
           /\ S \subseteq T \cup {w} => Cardinality(S) <= Cardinality(T) + 1
           /\ (w \in T /\ S \subseteq T \ {w}) => Cardinality(S) + 1 <= Cardinality(T)
<1>1. IsFiniteSet(S) /\ IsFiniteSet(T)  BY WorkersAssumption, FS_Subset
<1>2. Cardinality(S) \in Nat /\ Cardinality(T) \in Nat  BY <1>1, FS_CardinalityType
<1>3. ASSUME S \subseteq T PROVE Cardinality(S) <= Cardinality(T)
  BY <1>1, <1>3, FS_Subset
<1>4. ASSUME S \subseteq T \cup {w} PROVE Cardinality(S) <= Cardinality(T) + 1
  <2>1. /\ IsFiniteSet(T \cup {w})
        /\ Cardinality(T \cup {w}) \in {Cardinality(T), Cardinality(T) + 1}
    BY <1>1, FS_AddElement
  <2>2. Cardinality(S) <= Cardinality(T \cup {w})  BY <1>4, <2>1, FS_Subset
  <2> QED  BY <1>2, <2>1, <2>2
<1>5. ASSUME w \in T, S \subseteq T \ {w} PROVE Cardinality(S) + 1 <= Cardinality(T)
  <2>1. /\ IsFiniteSet(T \ {w})
        /\ Cardinality(T \ {w}) = Cardinality(T) - 1
    BY <1>1, <1>5, FS_RemoveElement
  <2>2. Cardinality(S) <= Cardinality(T \ {w})  BY <1>5, <2>1, FS_Subset
  <2> QED  BY <1>2, <2>1, <2>2
<1> QED  BY <1>2, <1>3, <1>4, <1>5

LEMMA CopiesNext == TypeOK /\ OneJobInv /\ CopiesInv /\ [Next]_vars => CopiesInv'
<1> SUFFICES ASSUME TypeOK, OneJobInv, CopiesInv, [Next]_vars, NEW s \in Sources
             PROVE  copies'[s] + Cardinality(Storing(s)')
                       + (IF job'[s] = "WAITING" THEN 1 ELSE 0) <= stalls'[s] + added'[s]
  BY DEF CopiesInv
<1> DEFINE N == Cardinality(Storing(s))
           M == Cardinality(Storing(s)')
           before == copies[s] + N + (IF job[s] = "WAITING" THEN 1 ELSE 0)
                        <= stalls[s] + added[s]
           after == copies'[s] + M + (IF job'[s] = "WAITING" THEN 1 ELSE 0)
                        <= stalls'[s] + added'[s]
<1>0. before /\ copies[s] \in Nat /\ stalls[s] \in Nat /\ added[s] \in {0, 1}
  BY DEF CopiesInv, TypeOK, OneJobInv
<1>1. /\ N \in Nat /\ M \in Nat
      /\ Storing(s)' \subseteq Storing(s) => M <= N
      /\ \A w \in Workers :
            /\ Storing(s)' \subseteq Storing(s) \cup {w} => M <= N + 1
            /\ (w \in Storing(s) /\ Storing(s)' \subseteq Storing(s) \ {w}) => M + 1 <= N
  <2>1. Storing(s) \in SUBSET Workers /\ Storing(s)' \in SUBSET Workers  BY DEF Storing
  <2>2. Workers = {} => Storing(s) = {} /\ Storing(s)' = {}  BY <2>1
  <2>3. Cardinality({}) = 0  BY FS_EmptySet
  <2> HIDE DEF N, M
  <2>4. CASE Workers = {}  BY <2>2, <2>3, <2>4 DEF N, M
  <2>5. CASE Workers # {}  BY <2>1, <2>5, StoringCount DEF N, M
  <2> QED  BY <2>4, <2>5
<1> HIDE DEF N, M
<1>2. run' = run => M = N  BY DEF Storing, N, M
<1>3. ASSUME NEW x \in Sources, Birth(x) PROVE after
  BY <1>0, <1>1, <1>2, <1>3 DEF Birth
<1>4. ASSUME NEW x \in Sources, StalledCheck(x) PROVE after
  <2>1. /\ UNCHANGED <<copies, added>> /\ M = N
        /\ \/ UNCHANGED <<job, stalls>> /\ s # x
           \/ job[s] = "ACTIVE" /\ job'[s] = "WAITING" /\ stalls'[s] = stalls[s] + 1
           \/ job'[s] # "WAITING" /\ stalls'[s] = stalls[s]
           \/ job'[s] = job[s] /\ stalls'[s] = stalls[s]
    BY <1>2, <1>4, AroundRuns DEF TypeOK
  <2> QED  BY <1>0, <1>1, <2>1
<1>5. ASSUME NEW r \in Requests, Enqueue(r) PROVE after
  <2>1. /\ UNCHANGED <<copies, stalls>> /\ M = N
        /\ \/ job'[s] = job[s] /\ added'[s] = added[s]
           \/ job[s] = "NONE" /\ added[s] = 0 /\ added'[s] = 1
    BY <1>2, <1>5, AroundRuns DEF TypeOK, OneJobInv
  <2> QED  BY <1>0, <1>1, <2>1
<1>6. ASSUME NEW r \in Requests, NEW x \in Sources, Remove(r, x) PROVE after
  <2>1. /\ UNCHANGED <<job, stalls, added>> /\ M = N
        /\ copies'[s] \in {0, copies[s]}
    BY <1>2, <1>6 DEF Remove, queueVars, TypeOK
  <2> QED  BY <1>0, <1>1, <2>1
<1>7. ASSUME NEW w \in Workers, NEW x \in Sources, Pick(w, x) PROVE after
  <2>1. UNCHANGED <<copies, stalls, added>>  BY <1>7, AroundRuns
  <2>2. CASE x = s
    <3>1. job[s] = "WAITING" /\ job'[s] = "ACTIVE"
      BY <1>7, <2>2, AroundRuns DEF TypeOK
    <3>2. Storing(s)' \subseteq Storing(s) \cup {w}
      BY <1>7, AroundRuns DEF TypeOK, Storing
    <3>3. M <= N + 1  BY <1>1, <3>2
    <3> QED  BY <1>0, <1>1, <2>1, <3>1, <3>3
  <2>3. CASE x # s
    <3>1. job'[s] = job[s]  BY <1>7, <2>3, AroundRuns DEF TypeOK
    <3>2. Storing(s)' \subseteq Storing(s)
      BY <1>7, <2>3, AroundRuns DEF TypeOK, Storing
    <3> QED  BY <1>0, <1>1, <2>1, <3>1, <3>2
  <2> QED  BY <2>2, <2>3
<1>8. ASSUME NEW w \in Workers, Process(w) PROVE after
  <2>1. /\ UNCHANGED <<job, stalls, added>>
        /\ \A v \in Workers : run'[v].src = run[v].src /\ (v # w => run'[v] = run[v])
    BY <1>8, ProcessEffect
  <2>2. CASE /\ copies'[s] \in {copies[s], 0}
             /\ run[w].src = s =>
                  (run'[w].pc \in StoringPcs => run[w].pc \in StoringPcs)
    <3>1. Storing(s)' \subseteq Storing(s)  BY <2>1, <2>2 DEF Storing
    <3> QED  BY <1>0, <1>1, <2>1, <2>2, <3>1
  <2>3. CASE /\ copies'[s] = copies[s] + 1 /\ run[w].src = s
             /\ run[w].pc \in StoringPcs /\ run'[w].pc \notin StoringPcs
    <3>1. w \in Storing(s) /\ Storing(s)' \subseteq Storing(s) \ {w}
      BY <2>1, <2>3 DEF Storing
    <3>2. M + 1 <= N  BY <1>1, <3>1
    <3> QED  BY <1>0, <1>1, <2>1, <2>3, <3>2
  <2> QED  BY <1>8, <2>2, <2>3, ProcessWrites
<1>9. ASSUME NEW w \in Workers, Finish(w) \/ WorkerCrash(w) PROVE after
  <2>1. /\ UNCHANGED <<copies, stalls, added>>
        /\ job'[s] = job[s] \/ job'[s] # "WAITING"
    BY <1>9, AroundRuns DEF TypeOK, JobAfter
  <2>2. run' = [run EXCEPT ![w] = IdleRun]  BY <1>9, AroundRuns
  <2>3. Storing(s)' \subseteq Storing(s)
    BY <2>2 DEF Storing, StoringPcs, IdleRun, TypeOK
  <2> QED  BY <1>0, <1>1, <2>1, <2>3
<1>10. ASSUME UNCHANGED <<status, copies, errorNote, added, job, stalls, run>>
       PROVE  after
  BY <1>0, <1>1, <1>2, <1>10
<1> HIDE DEF before, after
<1> QED
  BY <1>3, <1>4, <1>5, <1>6, <1>7, <1>8, <1>9, <1>10, StepKinds DEF after, M

LEMMA CopiesInit == Init => CopiesInv
<1> SUFFICES ASSUME Init, NEW s \in Sources
             PROVE  copies[s] + Cardinality(Storing(s))
                       + (IF job[s] = "WAITING" THEN 1 ELSE 0) <= stalls[s] + added[s]
  BY DEF CopiesInv
<1>1. Storing(s) = {}  BY DEF Init, Storing, StoringPcs, IdleRun
<1>2. Cardinality(Storing(s)) = 0  BY <1>1, FS_EmptySet
<1> QED  BY <1>2 DEF Init

LEMMA CopiesCorrect == Spec => []CopiesInv
  BY CopiesInit, CopiesNext, TypeCorrect, OneJobCorrect, PTL DEF Spec

\* Only redelivery duplicates chunks.
THEOREM SpecCopiesBounded == Spec => []CopiesBounded
<1>1. TypeOK /\ OneJobInv /\ CopiesInv => CopiesBounded
  <2> SUFFICES ASSUME TypeOK, OneJobInv, CopiesInv, NEW s \in Sources
               PROVE  copies[s] <= stalls[s] + added[s]
    BY DEF CopiesBounded
  <2>1. Cardinality(Storing(s)) \in Nat
    <3>1. Storing(s) \in SUBSET Workers  BY DEF Storing
    <3>2. IsFiniteSet(Storing(s))  BY <3>1, WorkersAssumption, FS_Subset
    <3> QED  BY <3>2, FS_CardinalityType
  <2> QED  BY <2>1 DEF CopiesInv, TypeOK
<1> QED  BY <1>1, TypeCorrect, OneJobCorrect, CopiesCorrect, PTL

-----------------------------------------------------------------------------
(* A job that is delivered once.                                             *)

\* What a run says of the chunks of its source, when no other run works for it.
RunSettles(w) ==
    LET s == run[w].src IN
    /\ status[s] = "READY" => run[w].pc \in {"done", "catchStatus", "unwritten"}
    /\ KindOf[s] = "TEXT_SNIPPET" =>
          /\ run[w].pc = "store" => run[w].chunks
          /\ (run[w].pc \in {"note", "ready", "done"} /\ Live(s)) => copies[s] > 0

\* The inductive strengthening of ReadyHasItsChunks: while a job never stalled, one run
\* at most works for it, none before it was picked, and only that run writes READY.
DeliveredOnce(s) ==
    /\ job[s] \in {"NONE", "WAITING"} => ~ Working(s) /\ status[s] # "READY"
    /\ \A v, w \in Workers : run[v].src = s /\ run[w].src = s => v = w
    /\ \A w \in Workers : run[w].src = s => RunSettles(w)
    /\ (status[s] = "READY" /\ KindOf[s] = "TEXT_SNIPPET") => copies[s] > 0

DeliveredOnceInv == \A s \in Sources : stalls[s] = 0 => DeliveredOnce(s)

LEMMA ProcessDelivered ==
    ASSUME TypeOK, NEW w \in Workers, Process(w), DeliveredOnce(run[w].src)
    PROVE  LET s == run[w].src IN
           /\ RunSettles(w)'
           /\ (status'[s] = "READY" /\ KindOf[s] = "TEXT_SNIPPET") => copies'[s] > 0
<1> DEFINE s == run[w].src
<1>0. /\ s \in Sources /\ run[w].pc # "idle" /\ RunSettles(w)
      /\ run'[w].src = s
      /\ (status[s] = "READY" /\ KindOf[s] = "TEXT_SNIPPET") => copies[s] > 0
  BY ProcessEffect DEF DeliveredOnce
<1> USE <1>0 DEF TypeOK, RunSettles, Live, GoTo, RowUpdate, WriteFailed, Statuses, rowVars
<1>1. CASE Load(w)  BY <1>1 DEF Load, AfterLoad
<1>2. CASE Fetch(w)  BY <1>2 DEF Fetch, AfterFetch
<1>3. CASE Extract(w)  BY <1>3 DEF Extract
<1>4. CASE UnsupportedType(w)  BY <1>4 DEF UnsupportedType
<1>5. CASE ClearErrorNote(w)  BY <1>5 DEF ClearErrorNote
<1>6. CASE WriteMetadata(w)  BY <1>6 DEF WriteMetadata, AfterMeta
<1>7. CASE ClearChunks(w)  BY <1>7 DEF ClearChunks
<1>8. CASE Embed(w)  BY <1>8 DEF Embed
<1>9. CASE Store(w)
  <2>1. /\ run[w].pc = "store" /\ run'[w].pc \in {"note", "ready", "catchStatus"}
        /\ status[s] # "READY" /\ UNCHANGED status
    BY <1>9 DEF Store, AfterStore
  <2>2. (KindOf[s] = "TEXT_SNIPPET" /\ Live(s)) => copies'[s] = copies[s] + 1
    BY <1>9 DEF Store
  <2> QED  BY <2>1, <2>2
<1>10. CASE MarkReady(w)  BY <1>10 DEF MarkReady
<1>11. CASE CatchStatus(w)  BY <1>11 DEF CatchStatus
<1>12. CASE CatchNote(w)  BY <1>12 DEF CatchNote
<1>13. CASE Refused(w)  BY <1>13 DEF Refused
<1> QED
  BY <1>1, <1>2, <1>3, <1>4, <1>5, <1>6, <1>7, <1>8, <1>9, <1>10, <1>11, <1>12, <1>13
  DEF Process

LEMMA DeliveredNext ==
    TypeOK /\ OneJobInv /\ DeliveredOnceInv /\ [Next]_vars => DeliveredOnceInv'
<1> SUFFICES ASSUME TypeOK, OneJobInv, DeliveredOnceInv, [Next]_vars,
                    NEW s \in Sources, stalls'[s] = 0
             PROVE  DeliveredOnce(s)'
  BY DEF DeliveredOnceInv
<1>0. stalls[s] = 0
  <2>1. stalls[s] \in Nat  BY DEF TypeOK
  <2>2. ASSUME NEW x \in Sources, StalledCheck(x) PROVE stalls[s] = 0
    BY <2>1, <2>2, AroundRuns DEF TypeOK
  <2>3. \A r \in Requests, x \in Sources : Remove(r, x) => UNCHANGED stalls
    BY DEF Remove, queueVars
  <2>4. \A w \in Workers : Process(w) => UNCHANGED stalls  BY ProcessEffect
  <2> QED  BY <2>1, <2>2, <2>3, <2>4, StepKinds, AroundRuns DEF Birth
<1>1. DeliveredOnce(s)  BY <1>0 DEF DeliveredOnceInv
<1>2. ASSUME NEW x \in Sources, Birth(x) PROVE DeliveredOnce(s)'
  <2>1. UNCHANGED <<copies, job, run>>  BY <1>2 DEF Birth
  <2>2. CASE x # s
    <3>1. status'[s] = status[s]  BY <1>2, <2>2 DEF Birth, TypeOK
    <3> QED  BY <1>1, <2>1, <3>1 DEF DeliveredOnce, RunSettles, Working, Live
  <2>3. CASE x = s
    <3>1. status'[s] # "READY"  BY <1>2, <2>3 DEF Birth, TypeOK
    <3>2. \A w \in Workers : run[w].src # s
      BY <1>2, <2>3, NoSourceAssumption DEF Birth, OneJobInv, TypeOK
    <3> QED  BY <1>1, <2>1, <3>1, <3>2 DEF DeliveredOnce, Working
  <2> QED  BY <2>2, <2>3
<1>3. ASSUME UNCHANGED <<status, copies, run>>,
             job'[s] \in {"NONE", "WAITING"} => job[s] \in {"NONE", "WAITING"}
      PROVE  DeliveredOnce(s)'
  BY <1>1, <1>3 DEF DeliveredOnce, RunSettles, Working, Live
<1>4. ASSUME NEW x \in Sources, StalledCheck(x) PROVE DeliveredOnce(s)'
  <2>1. job'[s] = job[s] \/ job'[s] = "DROPPED"
    BY <1>0, <1>4, AroundRuns DEF TypeOK
  <2> QED  BY <1>3, <1>4, <2>1, AroundRuns
<1>5. ASSUME NEW r \in Requests, Enqueue(r) PROVE DeliveredOnce(s)'
  <2>1. job'[s] = job[s] \/ job[s] = "NONE"
    BY <1>5, AroundRuns DEF TypeOK, OneJobInv
  <2> QED  BY <1>3, <1>5, <2>1, AroundRuns
<1>6. ASSUME NEW r \in Requests, NEW x \in Sources, Remove(r, x)
      PROVE  DeliveredOnce(s)'
  <2>1. UNCHANGED <<job, run>>  BY <1>6 DEF Remove, queueVars
  <2>2. CASE x = s
    <3>1. status'[s] = "DELETED"  BY <1>6, <2>2 DEF Remove, TypeOK
    <3> QED  BY <1>1, <2>1, <3>1 DEF DeliveredOnce, RunSettles, Working, Live
  <2>3. CASE x # s
    <3>1. status'[s] = status[s] /\ copies'[s] = copies[s]
      BY <1>6, <2>3 DEF Remove, TypeOK
    <3> QED  BY <1>1, <2>1, <3>1 DEF DeliveredOnce, RunSettles, Working, Live
  <2> QED  BY <2>2, <2>3
<1>7. ASSUME NEW w \in Workers, NEW x \in Sources, Pick(w, x) PROVE DeliveredOnce(s)'
  <2>1. /\ UNCHANGED <<status, copies>>
        /\ \A v \in Workers : v # w => run'[v] = run[v]
        /\ run'[w] = [pc |-> "load", src |-> x, chunks |-> FALSE]
    <3>1. /\ UNCHANGED <<status, copies>>
          /\ run' = [run EXCEPT ![w] = [pc |-> "load", src |-> x, chunks |-> FALSE]]
      BY <1>7, AroundRuns
    <3>2. run \in [Workers -> [pc : RunPcs, src : Sources \cup {NoSource},
                               chunks : BOOLEAN]]
      BY DEF TypeOK
    <3> QED  BY <3>1, <3>2
  <2>2. CASE x = s
    <3>1. job[s] = "WAITING" /\ job'[s] = "ACTIVE"
      BY <1>7, <2>2, AroundRuns DEF TypeOK
    <3>2. (\A v \in Workers : run[v].src # s) /\ status[s] # "READY"
      BY <1>1, <3>1 DEF DeliveredOnce, Working
    <3> QED  BY <1>1, <2>1, <2>2, <3>1, <3>2 DEF DeliveredOnce, RunSettles
  <2>3. CASE x # s
    <3>1. job'[s] = job[s]  BY <1>7, <2>3, AroundRuns DEF TypeOK
    <3> QED  BY <1>1, <2>1, <2>3, <3>1 DEF DeliveredOnce, RunSettles, Working, Live
  <2> QED  BY <2>2, <2>3
<1>8. ASSUME NEW w \in Workers, Process(w) PROVE DeliveredOnce(s)'
  <2>1. /\ UNCHANGED job
        /\ \A v \in Workers : run'[v].src = run[v].src /\ (v # w => run'[v] = run[v])
    BY <1>8, ProcessEffect
  <2>2. CASE run[w].src = s
    <3>1. job'[s] \notin {"NONE", "WAITING"}
      BY <1>1, <2>1, <2>2 DEF DeliveredOnce, Working
    <3>2. \A v \in Workers : run'[v].src = s => v = w
      BY <1>1, <2>1, <2>2 DEF DeliveredOnce
    <3>3. /\ RunSettles(w)'
          /\ (status'[s] = "READY" /\ KindOf[s] = "TEXT_SNIPPET") => copies'[s] > 0
      BY <1>1, <1>8, <2>2, ProcessDelivered
    <3> QED  BY <3>1, <3>2, <3>3 DEF DeliveredOnce
  <2>3. CASE run[w].src # s
    <3>1. status'[s] = status[s] /\ copies'[s] = copies[s]
      BY <1>8, <2>3, ProcessEffect, ProcessWrites DEF TypeOK
    <3> QED  BY <1>1, <2>1, <2>3, <3>1 DEF DeliveredOnce, RunSettles, Working, Live
  <2> QED  BY <2>2, <2>3
<1>9. ASSUME NEW w \in Workers, Finish(w) \/ WorkerCrash(w) PROVE DeliveredOnce(s)'
  <2>1. /\ UNCHANGED <<status, copies>>
        /\ job'[s] = job[s] \/ job'[s] \in {"COMPLETED", "FAILED", "UNWRITTEN"}
    BY <1>9, AroundRuns DEF TypeOK, JobAfter
  <2>2. \A v \in Workers : run'[v].src = s => run'[v] = run[v]
    BY <1>9, AroundRuns, NoSourceAssumption DEF TypeOK, IdleRun
  <2> QED  BY <1>1, <2>1, <2>2 DEF DeliveredOnce, RunSettles, Working, Live
<1>10. ASSUME UNCHANGED <<status, copies, errorNote, added, job, stalls, run>>
       PROVE  DeliveredOnce(s)'
  BY <1>3, <1>10
<1> QED
  BY <1>2, <1>4, <1>5, <1>6, <1>7, <1>8, <1>9, <1>10, StepKinds

LEMMA DeliveredCorrect == Spec => []DeliveredOnceInv
<1>1. Init => DeliveredOnceInv
  BY NoSourceAssumption
  DEF Init, DeliveredOnceInv, DeliveredOnce, RunSettles, Working, IdleRun
<1> QED  BY <1>1, DeliveredNext, TypeCorrect, OneJobCorrect, PTL DEF Spec

\* A source that is READY after one delivery answers from one set of chunks.
THEOREM SpecReadyHasItsChunks == Spec => []ReadyHasItsChunks
<1>1. TypeOK /\ OneJobInv /\ CopiesBounded /\ DeliveredOnceInv => ReadyHasItsChunks
  <2> SUFFICES ASSUME TypeOK, OneJobInv, CopiesBounded, DeliveredOnceInv,
                      NEW s \in Sources, status[s] = "READY", stalls[s] = 0
               PROVE  /\ copies[s] <= 1
                      /\ KindOf[s] = "TEXT_SNIPPET" => copies[s] = 1
    BY DEF ReadyHasItsChunks
  <2>1. copies[s] \in Nat /\ copies[s] <= 1
    BY DEF TypeOK, OneJobInv, CopiesBounded
  <2>2. KindOf[s] = "TEXT_SNIPPET" => copies[s] > 0
    BY DEF DeliveredOnceInv, DeliveredOnce
  <2> QED  BY <2>1, <2>2
<1> QED
  BY <1>1, TypeCorrect, OneJobCorrect, SpecCopiesBounded, DeliveredCorrect, PTL

-----------------------------------------------------------------------------
(* What a source shows once its job has ended.                               *)

\* No two runs work for one source at a time.  One processor per queue is enough for
\* that (docker-compose.yml starts one worker, and its queues have the default
\* concurrency of one); two processors break it when a lock lapses.
OneRunPerSource ==
    \A v, w \in Workers : (run[v].src = run[w].src /\ run[v].src # NoSource) => v = w

\* Past these points a run has reset the errorMessage of its source.
ClearedPcs(kind) ==
    IF kind = "WEBSITE" THEN {"meta", "clear", "embed", "store", "ready", "done"}
    ELSE {"ready", "done"}

\* What a run has made true of its source, as far as it has come.
RunCoherent(w) ==
    LET s == run[w].src IN
    (Live(s) /\ KindOf[s] # "DOCUMENT") =>
        /\ run[w].pc \notin {"extract", "unsupported"}
        /\ run[w].pc \in ClearedPcs(KindOf[s]) => ~ errorNote[s]
        /\ run[w].pc = "done" => status[s] = "READY"
        /\ run[w].pc \in {"catchNote", "threw"} => status[s] = "FAILED"
        /\ run[w].pc = "threw" => errorNote[s]
        /\ run[w].pc \in {"embed", "store"} => copies[s] = 0
        /\ run[w].pc \in {"note", "ready", "done"} => copies[s] <= 1
        /\ KindOf[s] = "TEXT_SNIPPET" =>
              /\ run[w].pc = "store" => run[w].chunks
              /\ run[w].pc \in {"note", "ready", "done"} => copies[s] = 1

\* What a source shows once its job has ended and no run of it is left.
Shows(s) ==
    (Live(s) /\ KindOf[s] # "DOCUMENT" /\ ~ Working(s)) =>
        /\ job[s] = "COMPLETED" =>
              /\ status[s] = "READY"
              /\ ~ errorNote[s]
              /\ copies[s] <= 1
              /\ KindOf[s] = "TEXT_SNIPPET" => copies[s] = 1
        /\ job[s] = "FAILED" => status[s] = "FAILED" /\ errorNote[s]

\* The inductive strengthening of OutcomeCoherent: the run of a source, while it goes
\* on, has established the part of the outcome it has come to; an ended job has none.
OutcomeOf(s) ==
    /\ job[s] \in {"COMPLETED", "FAILED", "UNWRITTEN"} => ~ Working(s)
    /\ \A w \in Workers : run[w].src = s => RunCoherent(w)
    /\ Shows(s)

OutcomeInv == \A s \in Sources : OutcomeOf(s)

LEMMA ProcessCoherent ==
    ASSUME TypeOK, NEW w \in Workers, Process(w), RunCoherent(w)
    PROVE  RunCoherent(w)'
<1> DEFINE s == run[w].src
<1>0. /\ s \in Sources /\ run[w].pc # "idle" /\ run'[w].src = s
      /\ Live(s)' = Live(s)
  BY ProcessEffect DEF Live, TypeOK
<1>1. SUFFICES ASSUME Live(s), KindOf[s] # "DOCUMENT"
               PROVE  RunCoherent(w)'
  BY <1>0 DEF RunCoherent
<1>2. KindOf[s] \in {"WEBSITE", "TEXT_SNIPPET"}
  BY <1>0, <1>1, KindAssumption DEF Kinds
<1> USE <1>0, <1>1, <1>2 DEF TypeOK, RunCoherent, ClearedPcs, GoTo, RowUpdate,
        WriteFailed, Statuses, rowVars
<1>3. CASE Load(w)  BY <1>3 DEF Load, AfterLoad
<1>4. CASE Fetch(w)
  <2>1. /\ UNCHANGED <<status, copies, errorNote>>
        /\ \E pc \in {"site", "catchStatus"} : GoTo(w, pc)
    BY <1>4 DEF Fetch, AfterFetch
  <2> QED  BY <2>1
<1>5. CASE Extract(w)  BY <1>5 DEF Extract
<1>6. CASE UnsupportedType(w)  BY <1>6 DEF UnsupportedType
<1>7. CASE ClearErrorNote(w)
  <2>1. UNCHANGED <<status, copies>> /\ ~ errorNote'[s]
    BY <1>7 DEF ClearErrorNote
  <2>2. \/ run[w].pc = "site" /\ (GoTo(w, "meta") \/ GoTo(w, "catchStatus"))
        \/ run[w].pc = "note" /\ (GoTo(w, "ready") \/ GoTo(w, "catchStatus"))
    BY <1>7, Zenon DEF ClearErrorNote, RowUpdate
  <2>3. \/ run[w].pc = "site" /\ run'[w].pc \in {"meta", "catchStatus"}
        \/ run[w].pc = "note" /\ run'[w].pc \in {"ready", "catchStatus"}
    BY <2>2
  <2> QED  BY <2>1, <2>3
<1>8. CASE WriteMetadata(w)  BY <1>8 DEF WriteMetadata, AfterMeta
<1>9. CASE ClearChunks(w)  BY <1>9 DEF ClearChunks
<1>10. CASE Embed(w)  BY <1>10 DEF Embed
<1>11. CASE Store(w)  BY <1>11 DEF Store, AfterStore
<1>12. CASE MarkReady(w)  BY <1>12 DEF MarkReady
<1>13. CASE CatchStatus(w)
  <2>1. /\ UNCHANGED <<copies, errorNote>> /\ status'[s] = "FAILED"
        /\ run'[w].pc \in {"catchNote", "unwritten"}
    BY <1>13 DEF CatchStatus
  <2> QED  BY <2>1
<1>14. CASE CatchNote(w)  BY <1>14 DEF CatchNote
<1>15. CASE Refused(w)
  <2>1. /\ UNCHANGED <<status, copies, errorNote>>
        /\ run'[w].pc \in {"catchStatus", "unwritten"}
    BY <1>15 DEF Refused
  <2> QED  BY <2>1
<1> QED
  BY <1>3, <1>4, <1>5, <1>6, <1>7, <1>8, <1>9, <1>10, <1>11, <1>12, <1>13, <1>14, <1>15
  DEF Process

LEMMA OutcomeNext ==
    TypeOK /\ OneJobInv /\ OneRunPerSource /\ OutcomeInv /\ [Next]_vars => OutcomeInv'
<1> SUFFICES ASSUME TypeOK, OneJobInv, OneRunPerSource, OutcomeInv, [Next]_vars,
                    NEW s \in Sources
             PROVE  OutcomeOf(s)'
  BY DEF OutcomeInv
<1>1. OutcomeOf(s)  BY DEF OutcomeInv
<1>2. ASSUME status'[s] = status[s], copies'[s] = copies[s],
             errorNote'[s] = errorNote[s],
             job'[s] = job[s] \/ job'[s] \notin {"COMPLETED", "FAILED", "UNWRITTEN"},
             \A w \in Workers : run'[w].src = s <=> run[w].src = s,
             \A w \in Workers : run[w].src = s => run'[w] = run[w]
      PROVE  OutcomeOf(s)'
  BY <1>1, <1>2 DEF OutcomeOf, RunCoherent, Shows, Working, Live
<1>3. ASSUME NEW x \in Sources, Birth(x) PROVE OutcomeOf(s)'
  <2>1. UNCHANGED <<copies, errorNote, job, run>>  BY <1>3 DEF Birth
  <2>2. CASE x # s
    <3>1. status'[s] = status[s]  BY <1>3, <2>2 DEF Birth, TypeOK
    <3> QED  BY <1>2, <2>1, <3>1
  <2>3. CASE x = s
    <3>1. job[s] = "NONE" /\ \A w \in Workers : run[w].src # s
      BY <1>3, <2>3, NoSourceAssumption DEF Birth, OneJobInv, TypeOK
    <3> QED  BY <2>1, <3>1 DEF OutcomeOf, Shows
  <2> QED  BY <2>2, <2>3
<1>4. ASSUME NEW x \in Sources, StalledCheck(x) PROVE OutcomeOf(s)'
  <2>1. job'[s] = job[s] \/ job'[s] \notin {"COMPLETED", "FAILED", "UNWRITTEN"}
    BY <1>4, AroundRuns DEF TypeOK
  <2> QED  BY <1>2, <1>4, <2>1, AroundRuns
<1>5. ASSUME NEW r \in Requests, Enqueue(r) PROVE OutcomeOf(s)'
  <2>1. job'[s] = job[s] \/ job'[s] \notin {"COMPLETED", "FAILED", "UNWRITTEN"}
    BY <1>5, AroundRuns DEF TypeOK
  <2> QED  BY <1>2, <1>5, <2>1, AroundRuns
<1>6. ASSUME NEW r \in Requests, NEW x \in Sources, Remove(r, x) PROVE OutcomeOf(s)'
  <2>1. UNCHANGED <<job, run>>  BY <1>6 DEF Remove, queueVars
  <2>2. CASE x = s
    <3>1. status'[s] = "DELETED"  BY <1>6, <2>2 DEF Remove, TypeOK
    <3> QED  BY <1>1, <2>1, <3>1 DEF OutcomeOf, RunCoherent, Shows, Working, Live
  <2>3. CASE x # s
    <3>1. /\ status'[s] = status[s] /\ copies'[s] = copies[s]
          /\ errorNote'[s] = errorNote[s]
      BY <1>6, <2>3 DEF Remove, TypeOK
    <3> QED  BY <1>2, <2>1, <3>1
  <2> QED  BY <2>2, <2>3
<1>7. ASSUME NEW w \in Workers, NEW x \in Sources, Pick(w, x) PROVE OutcomeOf(s)'
  <2>1. /\ UNCHANGED <<status, copies, errorNote>> /\ run[w].pc = "idle"
        /\ job[x] = "WAITING" /\ job' = [job EXCEPT ![x] = "ACTIVE"]
        /\ run' = [run EXCEPT ![w] = [pc |-> "load", src |-> x, chunks |-> FALSE]]
    BY <1>7, AroundRuns
  <2>2. /\ run[w].src # s
        /\ \A v \in Workers : v # w => run'[v] = run[v]
        /\ run'[w] = [pc |-> "load", src |-> x, chunks |-> FALSE]
        /\ job'[s] = job[s] \/ job'[s] = "ACTIVE"
        /\ x = s => job'[s] = "ACTIVE"
    <3>1. run[w].src = NoSource  BY <2>1 DEF TypeOK
    <3>2. run \in [Workers -> [pc : RunPcs, src : Sources \cup {NoSource},
                               chunks : BOOLEAN]]
      BY DEF TypeOK
    <3>3. job \in [Sources -> Jobs]  BY DEF TypeOK
    <3> QED  BY <2>1, <3>1, <3>2, <3>3, NoSourceAssumption
  <2>3. CASE x # s  BY <1>2, <2>1, <2>2, <2>3
  <2>4. CASE x = s
    <3>1. \A v \in Workers : run'[v].src = s => RunCoherent(v)'
      <4>1. RunCoherent(w)'  BY <2>2 DEF RunCoherent, ClearedPcs
      <4>2. ASSUME NEW v \in Workers, v # w, run'[v].src = s PROVE RunCoherent(v)'
        BY <1>1, <2>1, <2>2, <4>2 DEF OutcomeOf, RunCoherent, Live
      <4> QED  BY <4>1, <4>2
    <3> QED  BY <2>2, <2>4, <3>1 DEF OutcomeOf, Shows
  <2> QED  BY <2>3, <2>4
<1>8. ASSUME NEW w \in Workers, Process(w) PROVE OutcomeOf(s)'
  <2>1. /\ UNCHANGED job /\ run[w].src \in Sources
        /\ \A v \in Workers : run'[v].src = run[v].src /\ (v # w => run'[v] = run[v])
    BY <1>8, ProcessEffect
  <2>2. CASE run[w].src = s
    <3>1. \A v \in Workers : run[v].src = s => v = w
      BY <2>2, NoSourceAssumption DEF OneRunPerSource
    <3>2. RunCoherent(w)'  BY <1>1, <1>8, <2>2, ProcessCoherent DEF OutcomeOf
    <3>3. Working(s) /\ Working(s)'  BY <2>1, <2>2 DEF Working
    <3> QED  BY <1>1, <2>1, <3>1, <3>2, <3>3 DEF OutcomeOf, Shows
  <2>3. CASE run[w].src # s
    <3>1. /\ status'[s] = status[s] /\ copies'[s] = copies[s]
          /\ errorNote'[s] = errorNote[s]
      BY <1>8, <2>3, ProcessEffect, ProcessWrites DEF TypeOK
    <3> QED  BY <1>2, <2>1, <2>3, <3>1
  <2> QED  BY <2>2, <2>3
<1>9. ASSUME NEW w \in Workers, Finish(w) \/ WorkerCrash(w) PROVE OutcomeOf(s)'
  <2>1. /\ UNCHANGED <<status, copies, errorNote>>
        /\ run' = [run EXCEPT ![w] = IdleRun]
        /\ \/ UNCHANGED job
           \/ /\ run[w].pc \in {"done", "threw", "unwritten"} /\ run[w].src \in Sources
              /\ job' = [job EXCEPT ![run[w].src] =
                            JobAfter(run[w].pc)]
    BY <1>9, AroundRuns
  <2>2. /\ \A v \in Workers : v # w => run'[v] = run[v]
        /\ run'[w].src # s
    BY <2>1, NoSourceAssumption DEF TypeOK, IdleRun
  <2>3. CASE run[w].src # s
    <3>1. job'[s] = job[s]  BY <2>1, <2>3 DEF TypeOK
    <3> QED  BY <1>2, <2>1, <2>2, <2>3, <3>1
  <2>4. CASE run[w].src = s
    <3>1. \A v \in Workers : run'[v].src # s
      BY <2>2, <2>4, NoSourceAssumption DEF OneRunPerSource
    <3>2. Working(s) /\ ~ Working(s)'  BY <2>4, <3>1 DEF Working
    <3>3. CASE UNCHANGED job
      BY <1>1, <3>1, <3>2, <3>3 DEF OutcomeOf, Shows
    <3>4. CASE /\ run[w].pc \in {"done", "threw", "unwritten"}
               /\ job'[s] = JobAfter(run[w].pc)
      <4>1. RunCoherent(w)  BY <1>1, <2>4 DEF OutcomeOf
      <4>2. Shows(s)'
        <5>1. UNCHANGED <<status, copies, errorNote>>  BY <2>1
        <5>2. CASE run[w].pc = "done"
          BY <2>4, <3>2, <3>4, <4>1, <5>1, <5>2
          DEF RunCoherent, Shows, ClearedPcs, Live, JobAfter
        <5>3. CASE run[w].pc = "threw"
          BY <2>4, <3>2, <3>4, <4>1, <5>1, <5>3
          DEF RunCoherent, Shows, ClearedPcs, Live, JobAfter
        <5>4. CASE run[w].pc = "unwritten"
          BY <3>4, <5>4 DEF Shows, JobAfter
        <5> QED  BY <3>4, <5>2, <5>3, <5>4
      <4> QED  BY <3>1, <3>2, <4>2 DEF OutcomeOf
    <3> QED  BY <2>1, <2>4, <3>3, <3>4 DEF TypeOK
  <2> QED  BY <2>3, <2>4
<1>10. ASSUME UNCHANGED <<status, copies, errorNote, added, job, stalls, run>>
       PROVE  OutcomeOf(s)'
  BY <1>2, <1>10
<1> QED
  BY <1>3, <1>4, <1>5, <1>6, <1>7, <1>8, <1>9, <1>10, StepKinds

\* Reprocessing restores a coherent source however often a job is redelivered and
\* wherever a run was cut off, as long as runs of one source do not overlap.
THEOREM SpecOutcomeCoherent == Spec /\ []OneRunPerSource => []OutcomeCoherent
<1>1. Init => OutcomeInv
  BY NoSourceAssumption DEF Init, OutcomeInv, OutcomeOf, Shows, Working, IdleRun
<1>2. OutcomeInv => OutcomeCoherent
  BY DEF OutcomeInv, OutcomeOf, Shows, OutcomeCoherent
<1> QED
  BY <1>1, <1>2, OutcomeNext, TypeCorrect, OneJobCorrect, PTL DEF Spec

\* One processor cannot overlap with itself.
THEOREM OneWorkerOutcomeCoherent ==
    ASSUME \A v, w \in Workers : v = w
    PROVE  Spec => []OutcomeCoherent
<1>1. OneRunPerSource  BY DEF OneRunPerSource
<1>2. []OneRunPerSource  BY <1>1, PTL
<1> QED  BY <1>2, SpecOutcomeCoherent, PTL

-----------------------------------------------------------------------------
(* The implementation of KnowledgeLifecycle.                                 *)

LEMMA LifecycleStep ==
    ASSUME TypeOK, OneJobInv, [Next]_vars
    PROVE  [Lifecycle!Next]_(Lifecycle!lifecycleVars)
<1> USE DEF TypeOK, OneJobInv, Live, Lifecycle!lifecycleVars
<1>1. CASE UNCHANGED vars
  BY <1>1 DEF vars, rowVars, bucketVars, queueVars
<1>2. ASSUME NEW s \in Sources, UploadUrl(s) PROVE Lifecycle!Create(s)
  BY <1>2 DEF UploadUrl, Lifecycle!Create, queueVars
<1>3. ASSUME NEW r \in Requests, NEW s \in Sources, CreateRow(r, s, KindOf[s])
      PROVE  Lifecycle!Create(s)
  BY <1>3 DEF CreateRow, Lifecycle!Create, queueVars
<1>4. ASSUME NEW r \in Requests, CompleteCommit(r)
      PROVE  Lifecycle!Commit(req[r].src)
  BY <1>4 DEF CompleteCommit, CommitSucceeds, Lifecycle!Commit, queueVars
<1>5. ASSUME NEW r \in Requests, Enqueue(r)
      PROVE  /\ req[r].src \in Sources
             /\ Lifecycle!Queue(req[r].src)
  <2>1. /\ req[r].src \in Sources
        /\ added[req[r].src] = 0
        /\ status[req[r].src] \in {"PROCESSING", "DELETED"}
    BY <1>5 DEF Enqueue, Statuses
  <2>2. added' = [added EXCEPT ![req[r].src] = 1]
    BY <1>5, <2>1 DEF Enqueue
  <2>3. UNCHANGED status  BY <1>5 DEF Enqueue, rowVars
  <2> QED  BY <2>1, <2>2, <2>3 DEF Lifecycle!Queue
<1>6. ASSUME NEW r \in Requests, NEW s \in Sources, Remove(r, s)
      PROVE  Lifecycle!Delete(s)
  BY <1>6 DEF Remove, Lifecycle!Delete, queueVars
<1>7. ASSUME NEW w \in Workers, Process(w)
      PROVE  \/ UNCHANGED <<status, added>>
             \/ Lifecycle!Settle(run[w].src)
  BY <1>7, ProcessEffect DEF Lifecycle!Settle, Statuses
<1>8. ASSUME NEW s \in Sources,
             \/ ExpireUrl(s) \/ LoseLock(s) \/ StalledCheck(s)
             \/ \E content \in {"GOOD", "BAD"} : PutObject(s, content)
             \/ \E r \in Requests : CompleteRead(r, s)
             \/ \E w \in Workers : Pick(w, s)
      PROVE  UNCHANGED <<status, added>>
  BY <1>8 DEF ExpireUrl, LoseLock, StalledCheck, PutObject, CompleteRead, Pick,
              rowVars, queueVars
<1>9. ASSUME NEW r \in Requests,
             CompleteCheckObject(r) \/ CompleteConflict(r) \/ RemoveObject(r)
               \/ AbortRequest(r)
      PROVE  UNCHANGED <<status, added>>
  BY <1>9 DEF CompleteCheckObject, CompleteConflict, RemoveObject, AbortRequest,
              rowVars, queueVars
<1>10. ASSUME NEW w \in Workers, Finish(w) \/ WorkerCrash(w)
       PROVE  UNCHANGED <<status, added>>
  BY <1>10 DEF Finish, WorkerCrash, rowVars
<1>11. \A r \in Requests : CompleteCommit(r) => req[r].src \in Sources
  BY DEF CompleteCommit
<1>12. \A w \in Workers : Process(w) => run[w].src \in Sources
  BY ProcessEffect
<1> QED
  BY <1>1, <1>2, <1>3, <1>4, <1>5, <1>6, <1>7, <1>8, <1>9, <1>10, <1>11, <1>12,
     CreateKinds DEF Next, Api, Lifecycle!Next

\* The components together implement the lifecycle the status column shows.
THEOREM SpecImplementsLifecycle == Spec => ImplementsLifecycle
<1>1. Init => Lifecycle!Init  BY DEF Init, Lifecycle!Init
<1>2. TypeOK /\ OneJobInv /\ [Next]_vars
        => [Lifecycle!Next]_(Lifecycle!lifecycleVars)
  BY LifecycleStep
<1> QED
  BY <1>1, <1>2, TypeCorrect, OneJobCorrect, PTL
  DEF Spec, ImplementsLifecycle, Lifecycle!Spec

=============================================================================
