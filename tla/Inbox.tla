--------------------------------- MODULE Inbox ---------------------------------
(***************************************************************************)
(* The dashboard's page of conversations of one agent (ConversationsView): *)
(* a cached list, the thread in the detail panel, the rows selected for    *)
(* deletion, and the dialog that confirms it.  Visitors go on starting     *)
(* conversations while it is open.                                         *)
(***************************************************************************)
EXTENDS FiniteSets, QueryCache

CONSTANTS
    Threads,   \* conversations that can be started
    NoThread

VARIABLES
    threads,   \* the conversation rows of the agent
    started,   \* those that were ever created
    list,      \* the query of useConversations
    active,    \* activeId
    selecting, \* selectionMode
    selected,  \* selectedIds
    dialog,    \* the confirmation: the ids in its closure, and how far it is
    details,   \* the queries of useConversation: "none", "sent", "loaded" or "error"
    failed     \* history: a call failed (one at most)

rowsOf == <<threads, started>>
view == <<active, selecting, selected>>
inbox == <<rowsOf, list, view, dialog, details, failed>>

NoDialog == [ids |-> {}, active |-> NoThread, pc |-> "closed"]
Listed == list.shown

InboxInit ==
    /\ threads \in SUBSET Threads /\ started = threads
    /\ list = Invalidated(Query({}))
    /\ active = NoThread /\ selecting = FALSE /\ selected = {}
    /\ dialog = NoDialog
    /\ details = [t \in Threads |-> "none"]
    /\ failed = FALSE

-----------------------------------------------------------------------------
(* What runs at every render.                                                *)

\* The first effect: a listed thread stays active, else one of the list becomes it.
\* (The order of the list is left open.)
StillActive(listed, a) == IF a \in listed THEN {a} ELSE IF listed = {} THEN {NoThread} ELSE listed

\* useConversation(activeId) reads a thread that it has no data of.
Opened(ds, a) == IF a = NoThread \/ ds[a] = "loaded" THEN ds ELSE [ds EXCEPT ![a] = "sent"]

Show(listed, a) ==
    \E b \in StillActive(listed, a) :
        active' = b /\ details' = IF b = active THEN details ELSE Opened(details, b)

-----------------------------------------------------------------------------
(* The server and the queries.                                               *)

\* A visitor, or the playground, starts a conversation (ChatTurn).
Chat(t) ==
    /\ t \notin started
    /\ threads' = threads \cup {t} /\ started' = started \cup {t}
    /\ UNCHANGED <<list, view, dialog, details, failed>>

AnswerList ==
    /\ list.fetch = "sent"
    /\ list' = Answered(list, threads)
    /\ UNCHANGED <<rowsOf, view, dialog, details, failed>>

\* The second effect drops what is not listed from the selection.
RenderList ==
    /\ list.fetch = "answered"
    /\ list' = Rendered(list)
    /\ Show(list.got, active)
    /\ selected' = selected \cap list.got
    /\ UNCHANGED <<rowsOf, selecting, dialog, failed>>

AnswerDetail(t) ==
    /\ details[t] = "sent"
    /\ details' = [details EXCEPT ![t] = IF t \in threads THEN "loaded" ELSE "error"]
    /\ UNCHANGED <<rowsOf, list, view, dialog, failed>>

\* The refresh button, while nothing is fetched; or the list is stale and read again.
Refresh ==
    /\ list.fetch = "none"
    /\ list' = Invalidated(list)
    /\ UNCHANGED <<rowsOf, view, dialog, details, failed>>

-----------------------------------------------------------------------------
(* Rows and selection; the dialog covers them while it is open.              *)

OpenRow(t) ==
    /\ dialog = NoDialog /\ ~ selecting
    /\ t \in Listed
    /\ active' = t
    /\ details' = IF t = active THEN details ELSE Opened(details, t)
    /\ UNCHANGED <<rowsOf, list, selecting, selected, dialog, failed>>

ToggleSelectionMode ==
    /\ dialog = NoDialog
    /\ selecting \/ Listed # {}
    /\ selecting' = ~ selecting /\ selected' = {}
    /\ UNCHANGED <<rowsOf, list, active, dialog, details, failed>>

\* toggleSelected, or toggleSelectAll.
Select ==
    /\ dialog = NoDialog /\ selecting
    /\ \/ \E t \in Listed : selected' = IF t \in selected THEN selected \ {t} ELSE selected \cup {t}
       \/ Listed # {} /\ selected' = IF Listed \subseteq selected THEN {} ELSE Listed
    /\ UNCHANGED <<rowsOf, list, active, selecting, dialog, details, failed>>

\* handleDeleteSelected: its closure keeps this render's selection and active thread.
AskDelete ==
    /\ dialog = NoDialog
    /\ selected # {}
    /\ dialog' = [ids |-> selected, active |-> active, pc |-> "asked"]
    /\ UNCHANGED <<rowsOf, list, view, details, failed>>

CancelDelete ==
    /\ dialog.pc = "asked"
    /\ dialog' = NoDialog
    /\ UNCHANGED <<rowsOf, list, view, details, failed>>

ConfirmDelete ==
    /\ dialog.pc = "asked"
    /\ dialog' = [dialog EXCEPT !.pc = "sent"]
    /\ UNCHANGED <<rowsOf, list, view, details, failed>>

\* ConversationService.removeMany: ids that are gone are skipped.
RemoveMany ==
    /\ dialog.pc = "sent"
    /\ threads' = threads \ dialog.ids
    /\ dialog' = [dialog EXCEPT !.pc = "done"]
    /\ UNCHANGED <<started, list, view, details, failed>>

\* onSuccess, and the rest of handleDeleteSelected: the list that the effect picks
\* another thread from is still the one before the deletion.
AfterDelete(again) ==
    /\ dialog.pc = "done"
    /\ list' = again
    /\ LET kept == [t \in Threads |-> IF t \in dialog.ids THEN "none" ELSE details[t]]
           a == IF dialog.active \in dialog.ids THEN NoThread ELSE active IN
       \E b \in StillActive(Listed, a) : active' = b /\ details' = Opened(kept, b)
    /\ selecting' = FALSE /\ selected' = {}
    /\ dialog' = NoDialog
    /\ UNCHANGED <<rowsOf, failed>>

\* A read that is in flight is left to answer.
DeletedJoining == AfterDelete(IF list.fetch = "none" THEN Invalidated(list) ELSE list)
Deleted == AfterDelete(Invalidated(list))

\* A call fails, or its answer is lost: the dialog stays open, a list keeps its rows.
FailCall ==
    /\ ~ failed
    /\ failed' = TRUE
    /\ \/ /\ dialog.pc \in {"sent", "done"}
          /\ dialog' = [dialog EXCEPT !.pc = "asked"] /\ UNCHANGED <<list, details>>
       \/ list.fetch # "none" /\ list' = Failed(list) /\ UNCHANGED <<dialog, details>>
       \/ \E t \in Threads : /\ details[t] = "sent"
                             /\ details' = [details EXCEPT ![t] = "error"]
                             /\ UNCHANGED <<dialog, list>>
    /\ UNCHANGED <<rowsOf, view>>

InboxNext ==
    \/ \E t \in Threads : Chat(t) \/ AnswerDetail(t) \/ OpenRow(t)
    \/ AnswerList \/ RenderList \/ Refresh \/ ToggleSelectionMode \/ Select
    \/ AskDelete \/ CancelDelete \/ ConfirmDelete \/ RemoveMany \/ Deleted \/ FailCall

InboxSpec == InboxInit /\ [][InboxNext]_inbox

-----------------------------------------------------------------------------

\* After a deletion the panel may pick a thread that is gone, from the list as it was.
\* Once nothing is in flight (and nothing failed) it shows one that exists, without an
\* error, and every listed or selected row is one that exists.
PanelShowsAnExistingThread ==
    dialog = NoDialog /\ list.fetch = "none" /\ ~ failed =>
        /\ Listed \subseteq threads /\ selected \subseteq Listed
        /\ active # NoThread => active \in threads /\ details[active] # "error"
=============================================================================
