------------------------------ MODULE SourcesPage ------------------------------
(***************************************************************************)
(* The dashboard's two pages of data sources: the workspace's library and  *)
(* the sources of one agent, with the sheets that add, preview and attach  *)
(* them.  Both pages show cached lists; the workers behind the API change  *)
(* a source's status while they are open.                                  *)
(***************************************************************************)
EXTENDS Naturals, FiniteSets, QueryCache

CONSTANTS
    Sources,     \* rows that can be created
    Agents,
    Agent,       \* the one whose page is open
    MaxChanges   \* bound: sheets and dialogs submitted

VARIABLES
    status,   \* KnowledgeSource.status; "none": no row, "settled": READY or FAILED
    queued,   \* the rows that a worker was told of
    links,    \* the AgentKnowledgeSource rows
    library,  \* the query of useKnowledgeSources
    agent,    \* the query of useAgent(Agent)
    sheet,    \* the sheet or the dialog that is open
    preview,  \* SourcePreviewSheet and its reads of a download URL
    changes,
    failed    \* history: a call of a sheet or a read of a list failed (one is lost at most)

server == <<status, queued, links>>
queries == <<library, agent>>
sources == <<server, queries, sheet, preview, changes, failed>>

NoSource == "none"
Busy == {"PENDING", "PROCESSING"}
\* What knowledgeApi.list() and agentsApi.get(Agent) return.
Rows == [status |-> status, links |-> links]
AgentRows ==
    LET mine == {l \in links : l[1] = Agent} IN
    [status |-> [s \in Sources |-> IF <<Agent, s>> \in mine THEN status[s] ELSE NoSource], links |-> mine]
Closed == [kind |-> "none", pc |-> "edit", source |-> NoSource, todo |-> {}]
NoPreview == [source |-> NoSource, url |-> NoSource, asked |-> {}]

Attached(rows) == {s \in Sources : <<Agent, s>> \in rows.links}
Listed(rows) == {s \in Sources : rows.status[s] # NoSource}

\* The sources of an earlier visit are settled, and the pages show them.
SourcesInit ==
    /\ \E old \in SUBSET Sources :
          status = [s \in Sources |-> IF s \in old THEN "settled" ELSE NoSource]
    /\ queued = {} /\ links = {}
    /\ library = Query(Rows) /\ agent = Query(AgentRows)
    /\ sheet = Closed /\ preview = NoPreview
    /\ changes = 0 /\ failed = FALSE

-----------------------------------------------------------------------------
(* The queries and the worker.                                               *)

\* invalidateKnowledgeAndAgents.
InvalidateKnowledgeAndAgents ==
    library' = Invalidated(library) /\ agent' = Invalidated(agent)

Answer ==
    /\ \/ library.fetch = "sent" /\ library' = Answered(library, Rows) /\ UNCHANGED agent
       \/ agent.fetch = "sent" /\ agent' = Answered(agent, AgentRows) /\ UNCHANGED library
    /\ UNCHANGED <<server, sheet, preview, changes, failed>>

Render ==
    /\ \/ library.fetch = "answered" /\ library' = Rendered(library) /\ UNCHANGED agent
       \/ agent.fetch = "answered" /\ agent' = Rendered(agent) /\ UNCHANGED library
    /\ UNCHANGED <<server, sheet, preview, changes, failed>>

\* refetchInterval: five seconds after the last answer, while a listed source is busy.
Poll ==
    /\ \/ /\ library.fetch = "none"
          /\ \E s \in Sources : library.shown.status[s] \in Busy
          /\ library' = Invalidated(library) /\ UNCHANGED agent
       \/ /\ agent.fetch = "none"
          /\ \E s \in Attached(agent.shown) : agent.shown.status[s] \in Busy
          /\ agent' = Invalidated(agent) /\ UNCHANGED library
    /\ UNCHANGED <<server, sheet, preview, changes, failed>>

\* The worker claims a queued source, and settles it.
Work(s) ==
    /\ \/ s \in queued /\ status[s] = "PENDING" /\ status' = [status EXCEPT ![s] = "PROCESSING"]
       \/ status[s] = "PROCESSING" /\ status' = [status EXCEPT ![s] = "settled"]
    /\ UNCHANGED <<queued, links, queries, sheet, preview, changes, failed>>

-----------------------------------------------------------------------------
(* The mutations of the sheets and the dialogs, one at a time.               *)

Submit(kind, s, todo) ==
    /\ sheet = Closed /\ preview.source = NoSource
    /\ changes < MaxChanges
    /\ changes' = changes + 1
    /\ sheet' = [kind |-> kind, pc |-> "sent", source |-> s, todo |-> todo]
    /\ UNCHANGED <<server, queries, preview, failed>>

\* AddFileSheet, AddWebsiteSheet and AddTextSnippetSheet, opened on the library's page
\* or on the agent's, where the new source is attached as well.
Add ==
    \E s \in Sources, kind \in {"file", "add"}, todo \in {{}, {Agent}} :
        status[s] = NoSource /\ Submit(kind, s, todo \X {s})

\* A document's row exists from the upload URL on; the others are queued at once.
Create ==
    /\ sheet.pc = "sent" /\ sheet.kind \in {"file", "add"}
    /\ status' = [status EXCEPT ![sheet.source] = "PENDING"]
    /\ IF sheet.kind = "file"
       THEN sheet' = [sheet EXCEPT !.pc = "put"] /\ UNCHANGED queued
       ELSE sheet' = [sheet EXCEPT !.pc = "link"] /\ queued' = queued \cup {sheet.source}
    /\ UNCHANGED <<links, queries, preview, changes, failed>>

\* The PUT to the object store, then complete().
Complete ==
    /\ sheet.pc = "put"
    /\ queued' = queued \cup {sheet.source}
    /\ sheet' = [sheet EXCEPT !.pc = "link"]
    /\ UNCHANGED <<status, links, queries, preview, changes, failed>>

\* attachKnowledgeSource of the agent whose page the sheet is on.
LinkCreated ==
    /\ sheet.pc = "link"
    /\ links' = links \cup sheet.todo
    /\ sheet' = [sheet EXCEPT !.pc = "done"]
    /\ UNCHANGED <<status, queued, queries, preview, changes, failed>>

\* The library's Delete, of a row that is listed.
DeleteListed == \E s \in Listed(library.shown) : Submit("delete", s, {})

\* The agent page's Detach.
DetachListed == \E s \in Attached(agent.shown) : Submit("detach", s, {})

\* AttachSourcesSheet: sources of the library that the agent's page does not list.
AttachSources ==
    \E ss \in SUBSET (Listed(library.shown) \ Attached(agent.shown)) :
        ss # {} /\ Submit("attach", NoSource, {Agent} \X ss)

\* AttachToAgentsSheet: agents that the library does not show for the source.
AttachToAgents ==
    \E s \in Listed(library.shown), as \in SUBSET Agents :
        /\ as # {} /\ \A a \in as : <<a, s>> \notin library.shown.links
        /\ Submit("attachAll", s, as \X {s})

\* An attach call refuses a source that is gone and a link that exists.
Attachable(l) == status[l[2]] # NoSource /\ l \notin links

\* onSubmit attaches one source after the other, and each success reads both lists again.
AttachNext ==
    /\ sheet.kind = "attach"
    /\ \E l \in sheet.todo :
          IF Attachable(l)
          THEN /\ links' = links \cup {l}
               /\ InvalidateKnowledgeAndAgents
               /\ sheet' = IF sheet.todo = {l} THEN Closed
                           ELSE [sheet EXCEPT !.todo = @ \ {l}]
          ELSE /\ sheet' = Closed
               /\ UNCHANGED <<links, queries>>
    /\ UNCHANGED <<status, queued, preview, changes, failed>>

\* Promise.all sends every call; the mutation fails when one of them does.
AttachEach ==
    /\ sheet.kind = "attachAll" /\ sheet.pc = "sent"
    /\ LET fine == {l \in sheet.todo : Attachable(l)} IN
       /\ links' = links \cup fine
       /\ sheet' = IF fine = sheet.todo THEN [sheet EXCEPT !.pc = "done"] ELSE Closed
       /\ failed' = (failed \/ fine # sheet.todo)
    /\ UNCHANGED <<status, queued, queries, preview, changes>>

Remove ==
    /\ sheet.kind = "delete" /\ sheet.pc = "sent"
    /\ IF status[sheet.source] # NoSource
       THEN /\ status' = [status EXCEPT ![sheet.source] = NoSource]
            /\ queued' = queued \ {sheet.source}
            /\ links' = {l \in links : l[2] # sheet.source}
            /\ sheet' = [sheet EXCEPT !.pc = "done"]
       ELSE sheet' = Closed /\ UNCHANGED server
    /\ UNCHANGED <<queries, preview, changes, failed>>

Detach ==
    /\ sheet.kind = "detach" /\ sheet.pc = "sent"
    /\ IF <<Agent, sheet.source>> \in links
       THEN /\ links' = links \ {<<Agent, sheet.source>>}
            /\ sheet' = [sheet EXCEPT !.pc = "done"]
       ELSE sheet' = Closed /\ UNCHANGED links
    /\ UNCHANGED <<status, queued, queries, preview, changes, failed>>

\* onSuccess: both lists are read again and the sheet closes.
FinishUnseen ==
    /\ sheet.pc = "done"
    /\ library' = Invalidated(library) /\ UNCHANGED agent
    /\ sheet' = Closed
    /\ UNCHANGED <<server, preview, changes, failed>>

Finish ==
    /\ sheet.pc = "done"
    /\ InvalidateKnowledgeAndAgents
    /\ sheet' = Closed
    /\ UNCHANGED <<server, preview, changes, failed>>

\* A call of a sheet fails, or its answer is lost: a toast, no invalidation, and the
\* user gives up.  A failed read of a list keeps what it shows.
FailCall ==
    /\ ~ failed
    /\ failed' = TRUE
    /\ \/ sheet # Closed /\ sheet' = Closed /\ UNCHANGED queries
       \/ library.fetch # "none" /\ library' = Failed(library) /\ UNCHANGED <<agent, sheet>>
       \/ agent.fetch # "none" /\ agent' = Failed(agent) /\ UNCHANGED <<library, sheet>>
    /\ UNCHANGED <<server, preview, changes>>

-----------------------------------------------------------------------------
(* SourcePreviewSheet: a read of a URL for the document that is shown, which *)
(* may be answered when the sheet shows another one: the effect's cleanup    *)
(* makes it void.  Bound: one read of a document at a time.                  *)

Preview(s) ==
    /\ s \in Listed(library.shown)
    /\ sheet = Closed /\ preview.source = NoSource
    /\ s \notin preview.asked
    /\ preview' = [source |-> s, url |-> NoSource, asked |-> preview.asked \cup {s}]
    /\ UNCHANGED <<server, queries, sheet, changes, failed>>

ClosePreview ==
    /\ preview.source # NoSource
    /\ preview' = [preview EXCEPT !.source = NoSource, !.url = NoSource]
    /\ UNCHANGED <<server, queries, sheet, changes, failed>>

\* getDownloadUrl answers for s.
UrlAnswered(s) ==
    /\ s \in preview.asked
    /\ preview' = [preview EXCEPT !.asked = @ \ {s},
                                  !.url = IF preview.source = s THEN s ELSE @]
    /\ UNCHANGED <<server, queries, sheet, changes, failed>>

SourcesNext ==
    \/ Answer \/ Render \/ Poll
    \/ \E s \in Sources : Work(s) \/ Preview(s) \/ UrlAnswered(s)
    \/ Add \/ Create \/ Complete \/ LinkCreated
    \/ DeleteListed \/ DetachListed \/ AttachSources \/ AttachToAgents
    \/ AttachNext \/ AttachEach \/ Remove \/ Detach \/ Finish \/ FailCall \/ ClosePreview

SourcesSpec == SourcesInit /\ [][SourcesNext]_sources

-----------------------------------------------------------------------------

\* What a page shows wrongly while nothing of it is in flight is a row whose status it
\* polls: links and rows are right, and a status that is behind is shown as busy.  And
\* the document that the preview shows is the one it was opened for, however late the
\* reads of those before it are answered.
UpToDate(q, s) ==
    \/ q.shown.status[s] = status[s]
    \/ q.shown.status[s] \in Busy /\ status[s] # NoSource
PagesCatchUp ==
    /\ sheet = Closed /\ ~ failed =>
          /\ library.fetch = "none" =>
                library.shown.links = links /\ \A s \in Sources : UpToDate(library, s)
          /\ agent.fetch = "none" =>
                /\ agent.shown.links = AgentRows.links
                /\ \A s \in Attached(Rows) : UpToDate(agent, s)
    /\ preview.url # NoSource => preview.url = preview.source
=============================================================================
