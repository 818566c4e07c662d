-------------------------- MODULE KnowledgeIngestion --------------------------
(***************************************************************************)
(* The path of a knowledge source from its creation by the API to the      *)
(* moment its chunks can be retrieved.  The API writes rows in Postgres,   *)
(* objects live in an S3 bucket, jobs wait in BullMQ (Redis) and a worker  *)
(* turns each job into chunks.  No transaction spans two of these stores,  *)
(* so every await of the TypeScript code is a separate action here.        *)
(*                                                                         *)
(* apps/api/src/documents, apps/api/src/knowledge-sources and              *)
(* apps/worker/src are modelled line by line; BullMQ and the object store  *)
(* are modelled from how that code uses them.                              *)
(***************************************************************************)
EXTENDS Naturals, FiniteSets

CONSTANTS
    Sources,       \* identities a knowledge source can be created with
    KindOf,        \* the KnowledgeSourceType of each of them
    Requests,      \* API handlers that may be in flight at the same time
    Workers,       \* job processors (one per worker process and queue)
    NoSource,      \* an idle request or worker holds no source
    NoWorker,      \* nobody holds the lock of a job
    MaxStalled     \* BullMQ's maxStalledCount: redeliveries before a job fails

Kinds == {"DOCUMENT", "WEBSITE", "TEXT_SNIPPET"}

ASSUME KindAssumption == KindOf \in [Sources -> Kinds]
ASSUME NoSourceAssumption == NoSource \notin Sources
ASSUME NoWorkerAssumption == NoWorker \notin Workers
ASSUME MaxStalledAssumption == MaxStalled \in Nat
ASSUME WorkersAssumption == IsFiniteSet(Workers)

VARIABLES
    status,     \* KnowledgeSource.status, ABSENT before and DELETED after the row
    upload,     \* Document.uploadStatus
    url,        \* is the presigned PUT URL still valid?
    object,     \* what the bucket holds under the document's objectKey
    copies,     \* how many full sets of chunks the source has in "Chunk"
    errorNote,  \* is Website / TextSnippet .errorMessage set?
    added,      \* how many times queue.add ran for the source
    job,        \* the job of the source in BullMQ
    lock,       \* the worker whose token locks that job
    stalls,     \* the job's stalled counter
    req,        \* the API handlers in flight
    run         \* the job each worker is processing

rowVars == <<status, upload, copies, errorNote>>
bucketVars == <<url, object>>
queueVars == <<added, job, lock, stalls>>
vars == <<rowVars, bucketVars, queueVars, req, run>>

Statuses == {"ABSENT", "PENDING", "PROCESSING", "READY", "FAILED", "DELETED"}
\* An UNWRITTEN job has failed in BullMQ like a FAILED one; it is told apart because
\* its last run threw without having written FAILED in the source's row.
Jobs == {"NONE", "WAITING", "ACTIVE", "COMPLETED", "FAILED", "UNWRITTEN", "DROPPED"}
RequestPcs == {"idle", "check", "commit", "enqueue", "deleteObject"}
RunPcs == {"idle", "load", "fetch", "extract", "unsupported", "site", "meta",
           "clear", "embed", "store", "note", "ready", "done",
           "catchStatus", "catchNote", "threw", "unwritten"}

IdleRequest == [pc |-> "idle", src |-> NoSource]
IdleRun == [pc |-> "idle", src |-> NoSource, chunks |-> FALSE]

\* A row exists: Prisma finds it, updates of it succeed, chunks may refer to it.
Live(s) == status[s] \notin {"ABSENT", "DELETED"}

Init ==
    /\ status = [s \in Sources |-> "ABSENT"]
    /\ upload = [s \in Sources |-> "NONE"]
    /\ url = [s \in Sources |-> FALSE]
    /\ object = [s \in Sources |-> "NONE"]
    /\ copies = [s \in Sources |-> 0]
    /\ errorNote = [s \in Sources |-> FALSE]
    /\ added = [s \in Sources |-> 0]
    /\ job = [s \in Sources |-> "NONE"]
    /\ lock = [s \in Sources |-> NoWorker]
    /\ stalls = [s \in Sources |-> 0]
    /\ req = [r \in Requests |-> IdleRequest]
    /\ run = [w \in Workers |-> IdleRun]

-----------------------------------------------------------------------------
(* The API: POST documents/upload-url, POST documents/:id/complete,          *)
(* POST websites, POST text-snippets, DELETE knowledge-sources/:id.          *)

\* The row is created with its document in one Prisma call.
UploadUrl(s) ==
    /\ KindOf[s] = "DOCUMENT"
    /\ status[s] = "ABSENT"
    /\ status' = [status EXCEPT ![s] = "PENDING"]
    /\ upload' = [upload EXCEPT ![s] = "UPLOADING"]
    /\ url' = [url EXCEPT ![s] = TRUE]
    /\ UNCHANGED <<object, copies, errorNote, queueVars, req, run>>

\* The browser PUTs a file of the announced size, or of another size, for as
\* long as the URL is valid: also again, and also after complete or removal.
PutObject(s, content) ==
    /\ url[s]
    /\ object' = [object EXCEPT ![s] = content]
    /\ UNCHANGED <<rowVars, url, queueVars, req, run>>

ExpireUrl(s) ==
    /\ url[s]
    /\ url' = [url EXCEPT ![s] = FALSE]
    /\ UNCHANGED <<rowVars, object, queueVars, req, run>>

\* Website and snippet rows are born PROCESSING; the job follows separately.
CreateRow(r, s, kind) ==
    /\ req[r].pc = "idle"
    /\ KindOf[s] = kind
    /\ status[s] = "ABSENT"
    /\ status' = [status EXCEPT ![s] = "PROCESSING"]
    /\ req' = [req EXCEPT ![r] = [pc |-> "enqueue", src |-> s]]
    /\ UNCHANGED <<upload, copies, errorNote, bucketVars, queueVars, run>>

CreateWebsite(r, s) == CreateRow(r, s, "WEBSITE")
CreateTextSnippet(r, s) == CreateRow(r, s, "TEXT_SNIPPET")

\* complete(): the row is read and must still be UPLOADING.
CompleteRead(r, s) ==
    /\ req[r].pc = "idle"
    /\ KindOf[s] = "DOCUMENT"
    /\ Live(s)
    /\ upload[s] = "UPLOADING"
    /\ req' = [req EXCEPT ![r] = [pc |-> "check", src |-> s]]
    /\ UNCHANGED <<rowVars, bucketVars, queueVars, run>>

CompleteCheckObject(r) ==
    LET s == req[r].src IN
    /\ req[r].pc = "check"
    /\ req' = [req EXCEPT ![r] = IF object[s] # "NONE"
                                 THEN [pc |-> "commit", src |-> s]
                                 ELSE IdleRequest]
    /\ UNCHANGED <<rowVars, bucketVars, queueVars, run>>

\* Mutant: the nested update without its WHERE uploadStatus = UPLOADING.
CommitWithoutRecheck(s) == Live(s)

\* The nested update re-checks UPLOADING: Prisma updates the parent row, which
\* locks it, then the document WHERE uploadStatus = UPLOADING, in one
\* transaction that is rolled back (P2025) when no document matches.
CommitSucceeds(s) == Live(s) /\ upload[s] = "UPLOADING"

\* Mutant: only the parent row is updated, the document stays UPLOADING.
CommitParentOnly(r) ==
    LET s == req[r].src IN
    /\ req[r].pc = "commit"
    /\ CommitSucceeds(s)
    /\ status' = [status EXCEPT ![s] = "PROCESSING"]
    /\ req' = [req EXCEPT ![r].pc = "enqueue"]
    /\ UNCHANGED <<upload, copies, errorNote, bucketVars, queueVars, run>>

CompleteCommit(r) ==
    LET s == req[r].src IN
    /\ req[r].pc = "commit"
    /\ CommitSucceeds(s)
    /\ status' = [status EXCEPT ![s] = "PROCESSING"]
    /\ upload' = [upload EXCEPT ![s] = "COMPLETED"]
    /\ req' = [req EXCEPT ![r].pc = "enqueue"]
    /\ UNCHANGED <<copies, errorNote, bucketVars, queueVars, run>>

CompleteConflict(r) ==
    /\ req[r].pc = "commit"
    /\ ~ CommitSucceeds(req[r].src)
    /\ req' = [req EXCEPT ![r] = IdleRequest]
    /\ UNCHANGED <<rowVars, bucketVars, queueVars, run>>

\* queue.add: the last step of create() and of complete().
Enqueue(r) ==
    LET s == req[r].src IN
    /\ req[r].pc = "enqueue"
    /\ job' = [job EXCEPT ![s] = "WAITING"]
    /\ added' = [added EXCEPT ![s] = @ + 1]
    /\ req' = [req EXCEPT ![r] = IdleRequest]
    /\ UNCHANGED <<rowVars, bucketVars, lock, stalls, run>>

\* remove(): the row goes with everything that cascades from it (the document,
\* website or snippet, its chunks); the object is deleted afterwards.
Remove(r, s) ==
    /\ req[r].pc = "idle"
    /\ Live(s)
    /\ status' = [status EXCEPT ![s] = "DELETED"]
    /\ upload' = [upload EXCEPT ![s] = "NONE"]
    /\ copies' = [copies EXCEPT ![s] = 0]
    /\ errorNote' = [errorNote EXCEPT ![s] = FALSE]
    /\ req' = [req EXCEPT ![r] = IF KindOf[s] = "DOCUMENT"
                                 THEN [pc |-> "deleteObject", src |-> s]
                                 ELSE IdleRequest]
    /\ UNCHANGED <<bucketVars, queueVars, run>>

RemoveObject(r) ==
    LET s == req[r].src IN
    /\ req[r].pc = "deleteObject"
    /\ object' = [object EXCEPT ![s] = "NONE"]
    /\ req' = [req EXCEPT ![r] = IdleRequest]
    /\ UNCHANGED <<rowVars, url, queueVars, run>>

\* A handler ends before its next call: the process dies, or Redis or the
\* bucket refuses the call.  What it wrote so far stays written.
AbortRequest(r) ==
    /\ req[r].pc # "idle"
    /\ req' = [req EXCEPT ![r] = IdleRequest]
    /\ UNCHANGED <<rowVars, bucketVars, queueVars, run>>

-----------------------------------------------------------------------------
(* BullMQ, as the processors use it: one attempt per job, a lock renewed     *)
(* while the handler runs, redelivery of a job whose lock has lapsed.        *)

Pick(w, s) ==
    /\ run[w].pc = "idle"
    /\ job[s] = "WAITING"
    /\ job' = [job EXCEPT ![s] = "ACTIVE"]
    /\ lock' = [lock EXCEPT ![s] = w]
    /\ run' = [run EXCEPT ![w] = [pc |-> "load", src |-> s, chunks |-> FALSE]]
    /\ UNCHANGED <<rowVars, bucketVars, added, stalls, req>>

\* The lock is not renewed in time although the handler is still running.
LoseLock(s) ==
    /\ lock[s] # NoWorker
    /\ lock' = [lock EXCEPT ![s] = NoWorker]
    /\ UNCHANGED <<rowVars, bucketVars, added, job, stalls, req, run>>

\* The worker process dies; its lock lapses.
WorkerCrash(w) ==
    LET s == run[w].src IN
    /\ run[w].pc # "idle"
    /\ run' = [run EXCEPT ![w] = IdleRun]
    /\ lock' = IF lock[s] = w THEN [lock EXCEPT ![s] = NoWorker] ELSE lock
    /\ UNCHANGED <<rowVars, bucketVars, added, job, stalls, req>>

\* The stalled check: put the job back, or fail it without calling process().
StalledCheck(s) ==
    /\ job[s] = "ACTIVE"
    /\ lock[s] = NoWorker
    /\ \/ /\ stalls[s] < MaxStalled
          /\ job' = [job EXCEPT ![s] = "WAITING"]
          /\ stalls' = [stalls EXCEPT ![s] = @ + 1]
       \/ /\ stalls[s] >= MaxStalled
          /\ job' = [job EXCEPT ![s] = "DROPPED"]
          /\ UNCHANGED stalls
    /\ UNCHANGED <<rowVars, bucketVars, added, lock, req, run>>

\* process() returned or threw: only the holder of the lock moves the job.
JobAfter(pc) ==
    IF pc = "done" THEN "COMPLETED" ELSE IF pc = "threw" THEN "FAILED" ELSE "UNWRITTEN"

Finish(w) ==
    LET s == run[w].src IN
    /\ run[w].pc \in {"done", "threw", "unwritten"}
    /\ run' = [run EXCEPT ![w] = IdleRun]
    /\ \/ /\ lock[s] = w
          /\ job' = [job EXCEPT ![s] = JobAfter(run[w].pc)]
          /\ lock' = [lock EXCEPT ![s] = NoWorker]
       \/ /\ lock[s] # w
          /\ UNCHANGED <<job, lock>>
    /\ UNCHANGED <<rowVars, bucketVars, added, stalls, req>>

-----------------------------------------------------------------------------
(* process(): one action per await of the three services in apps/worker.     *)

\* Where the services differ: a snippet has nothing to fetch, a document keeps
\* its previous chunks and has no errorMessage.
AfterLoad(kind) == IF kind = "TEXT_SNIPPET" THEN "meta" ELSE "fetch"
AfterFetch(kind) == IF kind = "DOCUMENT" THEN "extract" ELSE "site"
\* Mutant: no service clears the previous chunks.
AfterMetaNoClear(kind) == "embed"

AfterMeta(kind) == IF kind = "DOCUMENT" THEN "embed" ELSE "clear"
AfterStore(kind) == IF kind = "TEXT_SNIPPET" THEN "note" ELSE "ready"

GoTo(w, pc) == run' = [run EXCEPT ![w].pc = pc]

\* A Prisma update of the row, or of a row that cascades from it, throws P2025
\* once the row is gone; or Postgres has done it and the answer is lost.  The run
\* continues at pc, or in the catch block.
RowUpdate(w, s, pc) == (Live(s) /\ GoTo(w, pc)) \/ GoTo(w, "catchStatus")

\* findUnique; when it rejects, or there is no row, the handler throws before it
\* knows the source id, so that its catch block writes nothing.
Load(w) ==
    LET s == run[w].src IN
    /\ run[w].pc = "load"
    /\ \/ GoTo(w, IF Live(s) THEN AfterLoad(KindOf[s]) ELSE "threw")
       \/ GoTo(w, "unwritten")
    /\ UNCHANGED <<rowVars, bucketVars, queueVars, req>>

\* Download with its size check, or crawl with at least one page; may fail.
Fetch(w) ==
    LET s == run[w].src IN
    /\ run[w].pc = "fetch"
    /\ \/ /\ KindOf[s] = "DOCUMENT" => object[s] = "GOOD"
          /\ GoTo(w, AfterFetch(KindOf[s]))
       \/ GoTo(w, "catchStatus")
    /\ UNCHANGED <<rowVars, bucketVars, queueVars, req>>

\* PDF text extraction; other MIME types take the default branch.
Extract(w) ==
    /\ run[w].pc = "extract"
    /\ \E pc \in {"meta", "catchStatus", "unsupported"} : GoTo(w, pc)
    /\ UNCHANGED <<rowVars, bucketVars, queueVars, req>>

\* Mutant: an upsert instead of an update.
WriteFailedUpsert(s) == status' = [status EXCEPT ![s] = "FAILED"]

\* Both the unsupported branch and the catch block write FAILED.
WriteFailed(s) ==
    status' = IF Live(s) THEN [status EXCEPT ![s] = "FAILED"] ELSE status

UnsupportedType(w) ==
    /\ run[w].pc = "unsupported"
    /\ WriteFailed(run[w].src)
    /\ GoTo(w, "catchStatus")
    /\ UNCHANGED <<upload, copies, errorNote, bucketVars, queueVars, req>>

\* website.update after the crawl and textSnippet.update after the store reset
\* errorMessage to null.
ClearErrorNote(w) ==
    LET s == run[w].src IN
    /\ run[w].pc \in {"site", "note"}
    /\ RowUpdate(w, s, IF run[w].pc = "site" THEN "meta" ELSE "ready")
    /\ errorNote' = [errorNote EXCEPT ![s] = @ /\ ~ Live(s)]
    /\ UNCHANGED <<status, upload, copies, bucketVars, queueVars, req>>

WriteMetadata(w) ==
    LET s == run[w].src IN
    /\ run[w].pc = "meta"
    /\ RowUpdate(w, s, AfterMeta(KindOf[s]))
    /\ UNCHANGED <<rowVars, bucketVars, queueVars, req>>

\* chunk.deleteMany: matching no chunk is not an error.
ClearChunks(w) ==
    /\ run[w].pc = "clear"
    /\ copies' = [copies EXCEPT ![run[w].src] = 0]
    /\ GoTo(w, "embed") \/ GoTo(w, "catchStatus")
    /\ UNCHANGED <<status, upload, errorNote, bucketVars, queueVars, req>>

\* Mutant: the snippet service does not refuse an empty list of chunks.
EmbedNothing(w) ==
    LET s == run[w].src IN
    /\ run[w].pc = "embed"
    /\ \/ \E some \in BOOLEAN :
             run' = [run EXCEPT ![w] = [pc |-> "store", src |-> s, chunks |-> some]]
       \/ GoTo(w, "catchStatus")
    /\ UNCHANGED <<rowVars, bucketVars, queueVars, req>>

\* Chunking and the embedding service; only the snippet service refuses to
\* continue with no chunks at all.
Embed(w) ==
    LET s == run[w].src IN
    /\ run[w].pc = "embed"
    /\ \/ \E some \in BOOLEAN :
             /\ KindOf[s] = "TEXT_SNIPPET" => some
             /\ run' = [run EXCEPT ![w] = [pc |-> "store", src |-> s,
                                           chunks |-> some]]
       \/ GoTo(w, "catchStatus")
    /\ UNCHANGED <<rowVars, bucketVars, queueVars, req>>

\* Mutant: no foreign key on Chunk.knowledgeSourceId.
StoreWithoutRow(w) ==
    LET s == run[w].src IN
    /\ run[w].pc = "store"
    /\ copies' = [copies EXCEPT ![s] = IF run[w].chunks THEN @ + 1 ELSE @]
    /\ GoTo(w, AfterStore(KindOf[s]))
    /\ UNCHANGED <<status, upload, errorNote, bucketVars, queueVars, req>>

\* Mutant: the INSERT is repeated when its answer is lost.
StoreRetried(w) ==
    LET s == run[w].src IN
    /\ run[w].pc = "store"
    /\ copies[s] < 4
    /\ copies' = [copies EXCEPT ![s] = IF run[w].chunks /\ Live(s) THEN @ + 1 ELSE @]
    /\ \/ RowUpdate(w, s, AfterStore(KindOf[s]))
       \/ run[w].chunks /\ UNCHANGED run
    /\ UNCHANGED <<status, upload, errorNote, bucketVars, queueVars, req>>

\* One INSERT of all chunks; the foreign key rejects it without the row.  No
\* statement is sent for an empty list.
Store(w) ==
    LET s == run[w].src IN
    /\ run[w].pc = "store"
    /\ \/ /\ run[w].chunks
          /\ copies' = [copies EXCEPT ![s] = IF Live(s) THEN @ + 1 ELSE @]
          /\ RowUpdate(w, s, AfterStore(KindOf[s]))
       \/ /\ ~ run[w].chunks
          /\ GoTo(w, AfterStore(KindOf[s]))
          /\ UNCHANGED copies
    /\ UNCHANGED <<status, upload, errorNote, bucketVars, queueVars, req>>

MarkReady(w) ==
    LET s == run[w].src IN
    /\ run[w].pc = "ready"
    /\ status' = IF Live(s) THEN [status EXCEPT ![s] = "READY"] ELSE status
    /\ RowUpdate(w, s, "done")
    /\ UNCHANGED <<upload, copies, errorNote, bucketVars, queueVars, req>>

\* Mutant: the catch block only logs and rethrows.
CatchLogsOnly(w) ==
    /\ run[w].pc = "catchStatus"
    /\ GoTo(w, "threw")
    /\ UNCHANGED <<rowVars, bucketVars, queueVars, req>>

\* The catch block: FAILED, then errorMessage for websites and snippets.  When
\* the row is gone, or the answer is lost, the first update throws out of it.
CatchStatus(w) ==
    LET s == run[w].src IN
    /\ run[w].pc = "catchStatus"
    /\ WriteFailed(s)
    /\ \/ GoTo(w, IF Live(s) /\ KindOf[s] # "DOCUMENT" THEN "catchNote" ELSE "threw")
       \/ GoTo(w, "unwritten")
    /\ UNCHANGED <<upload, copies, errorNote, bucketVars, queueVars, req>>

CatchNote(w) ==
    LET s == run[w].src IN
    /\ run[w].pc = "catchNote"
    /\ errorNote' = [errorNote EXCEPT ![s] = Live(s)]
    /\ GoTo(w, "threw")
    /\ UNCHANGED <<status, upload, copies, bucketVars, queueVars, req>>

\* Postgres refuses a statement of the run, which changes nothing: the try block ends
\* in the catch block (as it does for a snippet of white space, before its metadata),
\* and the catch block ends without having written everything.
Refused(w) ==
    /\ \/ /\ run[w].pc \in {"site", "meta", "clear", "store", "note", "ready", "unsupported"}
          /\ GoTo(w, "catchStatus")
       \/ /\ run[w].pc \in {"catchStatus", "catchNote"}
          /\ GoTo(w, "unwritten")
    /\ UNCHANGED <<rowVars, bucketVars, queueVars, req>>

-----------------------------------------------------------------------------

Api(r) ==
    \/ CompleteCheckObject(r)
    \/ CompleteCommit(r)
    \/ CompleteConflict(r)
    \/ Enqueue(r)
    \/ RemoveObject(r)

Process(w) ==
    \/ Load(w)
    \/ Fetch(w)
    \/ Extract(w)
    \/ UnsupportedType(w)
    \/ ClearErrorNote(w)
    \/ WriteMetadata(w)
    \/ ClearChunks(w)
    \/ Embed(w)
    \/ Store(w)
    \/ MarkReady(w)
    \/ CatchStatus(w)
    \/ CatchNote(w)
    \/ Refused(w)

Next ==
    \/ \E s \in Sources :
          \/ UploadUrl(s)
          \/ \E content \in {"GOOD", "BAD"} : PutObject(s, content)
          \/ ExpireUrl(s)
          \/ LoseLock(s)
          \/ StalledCheck(s)
    \/ \E r \in Requests, s \in Sources :
          \/ CreateWebsite(r, s)
          \/ CreateTextSnippet(r, s)
          \/ CompleteRead(r, s)
          \/ Remove(r, s)
    \/ \E r \in Requests : Api(r) \/ AbortRequest(r)
    \/ \E w \in Workers, s \in Sources : Pick(w, s)
    \/ \E w \in Workers : Process(w) \/ Finish(w) \/ WorkerCrash(w)

Spec == Init /\ [][Next]_vars

\* Node runs the continuation of every settled await, and BullMQ keeps polling
\* its queue and its stalled set.  Crashes, lost locks, clients and removals
\* are not forced to happen; a crashed worker is restarted (docker-compose).
Fairness ==
    /\ \A r \in Requests : WF_vars(Api(r))
    /\ \A w \in Workers : WF_vars(Process(w)) /\ WF_vars(Finish(w))
    /\ \A w \in Workers, s \in Sources : SF_vars(Pick(w, s))
    /\ \A s \in Sources : WF_vars(StalledCheck(s))

FairSpec == Spec /\ Fairness

-----------------------------------------------------------------------------
(* Properties.                                                               *)

TypeOK ==
    /\ status \in [Sources -> Statuses]
    /\ upload \in [Sources -> {"NONE", "UPLOADING", "COMPLETED"}]
    /\ url \in [Sources -> BOOLEAN]
    /\ object \in [Sources -> {"NONE", "GOOD", "BAD"}]
    /\ copies \in [Sources -> Nat]
    /\ errorNote \in [Sources -> BOOLEAN]
    /\ added \in [Sources -> Nat]
    /\ job \in [Sources -> Jobs]
    /\ lock \in [Sources -> Workers \cup {NoWorker}]
    /\ stalls \in [Sources -> Nat]
    /\ req \in [Requests -> [pc : RequestPcs, src : Sources \cup {NoSource}]]
    /\ run \in [Workers -> [pc : RunPcs, src : Sources \cup {NoSource},
                            chunks : BOOLEAN]]
    /\ \A r \in Requests : req[r].pc = "idle" <=> req[r].src = NoSource
    /\ \A w \in Workers : run[w].pc = "idle" <=> run[w].src = NoSource

\* However many complete() calls overlap, and whatever is removed or aborted
\* meanwhile, a source is put on the queue at most once in its life
\* (documents.service.ts: the nested update WHERE uploadStatus = UPLOADING).
EnqueuedOnce == \A s \in Sources : added[s] <= 1

\* Why: the inductive strengthening.  Between its commit and its queue.add a
\* source belongs to one handler and has no job; before the commit it has
\* neither; and UPLOADING, the condition of the commit, says PENDING.
OneJobInv ==
    /\ \A s \in Sources :
          /\ added[s] \in {0, 1}
          /\ job[s] = "NONE" <=> added[s] = 0
          /\ status[s] \in {"ABSENT", "PENDING"} => added[s] = 0
          /\ status[s] \in {"READY", "FAILED"} => added[s] = 1
          /\ upload[s] = "UPLOADING" <=> status[s] = "PENDING"
          /\ (KindOf[s] = "DOCUMENT" /\ Live(s) /\ status[s] # "PENDING")
                => upload[s] = "COMPLETED"
    /\ \A r \in Requests :
          req[r].pc = "enqueue" =>
              /\ added[req[r].src] = 0
              /\ status[req[r].src] \notin {"ABSENT", "PENDING"}
    /\ \A r, q \in Requests :
          (req[r].pc = "enqueue" /\ req[q].pc = "enqueue"
              /\ req[r].src = req[q].src) => r = q
    /\ \A w \in Workers : run[w].pc # "idle" => added[run[w].src] = 1

\* A document is processed only once its upload was committed and never while
\* it is still UPLOADING.
JobAfterUpload ==
    \A s \in Sources :
        (job[s] # "NONE" /\ KindOf[s] = "DOCUMENT" /\ Live(s))
            => upload[s] = "COMPLETED" /\ status[s] # "PENDING"

\* A READY source whose job was delivered once answers from exactly one set of
\* chunks: never two (a second job), and for a snippet never none (READY
\* written although the store was skipped).
ReadyHasItsChunks ==
    \A s \in Sources :
        (status[s] = "READY" /\ stalls[s] = 0)
            => /\ copies[s] <= 1
               /\ KindOf[s] = "TEXT_SNIPPET" => copies[s] = 1

\* Redelivery is the only source of duplicate chunks: never more sets of
\* chunks than deliveries of the one job.
CopiesBounded == \A s \in Sources : copies[s] <= stalls[s] + added[s]

\* No chunk survives, or is stored after, the removal of its source, although a
\* run that started earlier goes on (cascade, foreign key).
RemovedLeavesNoChunks ==
    \A s \in Sources : ~ Live(s) => copies[s] = 0 /\ ~ errorNote[s]

\* A PROCESSING source that nothing will ever touch again is one whose handler
\* was cut off before queue.add, whose job stalled too often, or whose last run threw
\* because Postgres did not answer: its findUnique, before the catch block knows which
\* row to write, or the catch block's own update.  Every other path writes READY or
\* FAILED.
Working(s) == \E w \in Workers : run[w].src = s
InRequest(s) == \E r \in Requests : req[r].pc = "enqueue" /\ req[r].src = s
NeverStuckProcessing ==
    \A s \in Sources :
        (status[s] = "PROCESSING" /\ ~ Working(s) /\ ~ InRequest(s))
            => \/ added[s] = 0
               \/ job[s] \in {"WAITING", "ACTIVE", "UNWRITTEN", "DROPPED"}

\* When the job has ended and no run of it is left, everything the run wrote
\* agrees with how it ended: READY, one set of chunks and no error message, or
\* FAILED with an error message, unless Postgres refused the catch block its writes.
\* This is what reprocessing must restore after a redelivery ("Clear any previous
\* chunks (reprocess-safe)").
OutcomeCoherent ==
    \A s \in Sources :
        (Live(s) /\ KindOf[s] # "DOCUMENT" /\ ~ Working(s)) =>
            /\ job[s] = "COMPLETED" =>
                  /\ status[s] = "READY"
                  /\ ~ errorNote[s]
                  /\ copies[s] <= 1
                  /\ KindOf[s] = "TEXT_SNIPPET" => copies[s] = 1
            /\ job[s] = "FAILED" => status[s] = "FAILED" /\ errorNote[s]

\* The handlers, the queue and the worker together implement the lifecycle that
\* the status column shows: in particular one job per source, and READY or
\* FAILED only for a source that was put on the queue.
Lifecycle == INSTANCE KnowledgeLifecycle WITH phase <- status, queued <- added
ImplementsLifecycle == Lifecycle!Spec

\* Every source that reaches the queue gets an outcome, unless it is removed, BullMQ
\* gives its job up after MaxStalled redeliveries, or the run that ended the job could
\* neither read the row nor write FAILED in it.
QueuedIsSettled ==
    \A s \in Sources :
        job[s] = "WAITING" ~>
            (status[s] \in {"READY", "FAILED", "DELETED"} \/ job[s] \in {"DROPPED", "UNWRITTEN"})

=============================================================================
