------------------------------- MODULE ChatClient -------------------------------
(***************************************************************************)
(* The chat clients a website embeds: the React panel (useChat, ChatPanel, *)
(* ChatBubble) and the script widget (mountWidget).  Surfaces of the same  *)
(* agent, in tabs of one browser, share the conversations kept in          *)
(* localStorage; the events of a reply arrive one by one while the user    *)
(* switches, deletes, closes and reloads.                                  *)
(***************************************************************************)
EXTENDS Naturals, Sequences, FiniteSets

CONSTANTS
    Surfaces,       \* panels and widgets of one browser
    Conversations,  \* ids the server may give
    NoConversation, \* null
    MaxTurns        \* bound: messages sent

\* null is no id, and a browser has finitely many panels and widgets.
ASSUME NullAssumption == NoConversation \notin Conversations
ASSUME SurfacesAssumption == IsFiniteSet(Surfaces)

VARIABLES
    kind,    \* what each surface is
    store,   \* localStorage: the active conversation and the threads
    ui,      \* what each surface shows
    turn,    \* the reply each surface is waiting for
    known,   \* conversations the server has created
    sentTo,  \* history: the conversation of each message sent
    gone     \* history: the threads a surface deleted and did not open again

vars == <<kind, store, ui, turn, known, sentTo, gone>>

Turns == 1 .. MaxTurns

\* A question and its reply: no reply kept, an empty bubble, part of it, all of it,
\* or the note that it failed.
Replies == {"none", "empty", "partial", "full", "failed"}
\* list: the conversations offered in the history.
Blank == [ready |-> FALSE, conv |-> NoConversation, shown |-> <<>>,
          list |-> {}, history |-> FALSE]
NoTurn == [phase |-> "none", no |-> 1, conv |-> NoConversation]

EmptyStore == [active |-> NoConversation, threads |-> <<>>]

\* What a client of an earlier version left: the id of one conversation.
Migrated(c) == [active |-> c, threads |-> [d \in {c} |-> <<>>]]

Init ==
    /\ kind \in [Surfaces -> {"panel", "widget", "unused"}]
    /\ \/ store = EmptyStore /\ known = {}
       \/ \E c \in Conversations : store = Migrated(c) /\ known = {c}
    /\ ui = [s \in Surfaces |-> Blank]
    /\ turn = [s \in Surfaces |-> NoTurn]
    /\ sentTo = <<>>
    /\ gone = [s \in Surfaces |-> {}]

Panel(s) == kind[s] = "panel" /\ ui[s].ready
Widget(s) == kind[s] = "widget"

\* chat() has not returned: the fetch, or the loop over its events, is under way.
Receiving(s) == turn[s].phase # "none"

-----------------------------------------------------------------------------
(* localStorage.                                                             *)

Stored(c) == c \in DOMAIN store.threads

\* upsertConversation: the thread replaces the stored one and becomes the active one.
Upsert(c, entries) ==
    [active |-> c, threads |-> [d \in DOMAIN store.threads \cup {c} |->
                                   IF d = c THEN entries ELSE store.threads[d]]]

\* toStored of the panel drops a reply that is still empty; the widget keeps the bubble.
PanelStored(shown) ==
    [i \in DOMAIN shown |->
        IF shown[i].reply = "empty" THEN [shown[i] EXCEPT !.reply = "none"] ELSE shown[i]]

\* persistActive; without an id there is nothing to write.
PanelPersist(c, shown) ==
    store' = IF c = NoConversation THEN store ELSE Upsert(c, PanelStored(shown))
WidgetPersist(c, shown) ==
    store' = IF c = NoConversation THEN store ELSE Upsert(c, shown)

Without(c) ==
    [active |-> IF store.active = c THEN NoConversation ELSE store.active,
     threads |-> [d \in DOMAIN store.threads \ {c} |-> store.threads[d]]]

\* The summaries of the panel, after its own write.
Summaries(c) == DOMAIN store.threads \cup ({c} \ {NoConversation})

-----------------------------------------------------------------------------
(* Mounting.                                                                 *)

\* getActiveConversation and what a surface makes of it.
ActiveConversation == IF Stored(store.active) THEN store.active ELSE NoConversation
LoadActive(s) ==
    [ui[s] EXCEPT !.ready = TRUE,
                  !.conv = ActiveConversation,
                  !.shown = IF ActiveConversation = NoConversation THEN <<>>
                            ELSE store.threads[ActiveConversation]]

\* The panel appears, in a page or in an opened bubble: its effect loads the thread.
PanelMount(s) ==
    /\ kind[s] = "panel" /\ ~ ui[s].ready
    /\ ui' = [ui EXCEPT ![s] = [LoadActive(s) EXCEPT !.list = DOMAIN store.threads]]
    /\ UNCHANGED <<kind, store, turn, known, sentTo, gone>>

\* Closing the bubble unmounts the panel: its state goes, and no update of the reply
\* under way is run any more.
BubbleClose(s) ==
    /\ Panel(s)
    /\ ui' = [ui EXCEPT ![s] = Blank]
    /\ turn' = [turn EXCEPT ![s] = NoTurn]
    /\ gone' = [gone EXCEPT ![s] = {}]
    /\ UNCHANGED <<kind, store, known, sentTo>>

\* bootstrap() of the widget, once the agent is fetched or could not be: the user may
\* have sent a message meanwhile.
Bootstrap(s) ==
    /\ Widget(s) /\ ~ ui[s].ready
    /\ ui' = [ui EXCEPT ![s] = LoadActive(s)]
    /\ UNCHANGED <<kind, store, turn, known, sentTo, gone>>

\* init() again, or a reload of the page: the previous widget aborts its reply.
Remount(s) ==
    /\ Widget(s) /\ (ui[s].ready \/ Receiving(s))
    /\ ui' = [ui EXCEPT ![s] = Blank]
    /\ turn' = [turn EXCEPT ![s] = NoTurn]
    /\ gone' = [gone EXCEPT ![s] = {}]
    /\ UNCHANGED <<kind, store, known, sentTo>>

-----------------------------------------------------------------------------
(* The history: the list a surface has rendered, which another one may have   *)
(* outdated, and the abort that comes with a change of conversation.          *)

Abort(s) == turn' = [turn EXCEPT ![s] = NoTurn]

PanelHistory(s) ==
    /\ Panel(s)
    /\ ui' = [ui EXCEPT ![s].history = ~ @]
    /\ UNCHANGED <<kind, store, turn, known, sentTo, gone>>

WidgetHistory(s) ==
    /\ Widget(s)
    /\ ui' = [ui EXCEPT ![s].history = ~ @,
                        ![s].list = IF ui[s].history THEN @ ELSE DOMAIN store.threads]
    /\ UNCHANGED <<kind, store, turn, known, sentTo, gone>>

PanelRow(s, c) == Panel(s) /\ ui[s].history /\ c \in ui[s].list
WidgetRow(s, c) == Widget(s) /\ ui[s].history /\ c \in ui[s].list

\* A fresh thread; an aborted reply is not stored.
PanelNew(s) ==
    /\ Panel(s)
    /\ Abort(s)
    /\ store' = [store EXCEPT !.active = NoConversation]
    /\ ui' = [ui EXCEPT ![s].conv = NoConversation, ![s].shown = <<>>,
                        ![s].list = DOMAIN store.threads, ![s].history = FALSE]
    /\ UNCHANGED <<kind, known, sentTo, gone>>

WidgetFresh(s) ==
    /\ Abort(s)
    /\ ui' = [ui EXCEPT ![s].conv = NoConversation, ![s].shown = <<>>, ![s].history = FALSE]

WidgetNew(s) ==
    /\ Widget(s)
    /\ WidgetFresh(s)
    /\ store' = [store EXCEPT !.active = NoConversation]
    /\ UNCHANGED <<kind, known, sentTo, gone>>

\* The surface shows a stored thread.
Show(s, c) ==
    /\ store' = [store EXCEPT !.active = c]
    /\ ui' = [ui EXCEPT ![s].conv = c, ![s].shown = store.threads[c], ![s].history = FALSE,
                        ![s].list = IF Panel(s) THEN DOMAIN store.threads ELSE @]
    /\ gone' = [gone EXCEPT ![s] = @ \ {c}]

SelectWhileReceiving(s, c) ==
    /\ PanelRow(s, c)
    /\ Stored(c)
    /\ Show(s, c)
    /\ UNCHANGED <<kind, turn, known, sentTo>>

SelectWithoutMessages(s, c) ==
    /\ PanelRow(s, c)
    /\ Stored(c)
    /\ Abort(s)
    /\ store' = [store EXCEPT !.active = c]
    /\ ui' = [ui EXCEPT ![s].conv = c, ![s].shown = <<>>, ![s].history = FALSE]
    /\ UNCHANGED <<kind, known, sentTo, gone>>

\* The panel aborts before it looks for the thread, and closes the history anyway.
PanelSelect(s, c) ==
    /\ PanelRow(s, c)
    /\ Abort(s)
    /\ IF Stored(c) THEN Show(s, c)
       ELSE /\ ui' = [ui EXCEPT ![s].history = FALSE]
            /\ UNCHANGED <<store, gone>>
    /\ UNCHANGED <<kind, known, sentTo>>

WidgetSelect(s, c) ==
    /\ WidgetRow(s, c)
    /\ Stored(c)
    /\ Abort(s)
    /\ Show(s, c)
    /\ UNCHANGED <<kind, known, sentTo>>

\* The panel clears what it shows and lets the reply go on.
PanelDelete(s, c) ==
    /\ PanelRow(s, c)
    /\ store' = Without(c)
    /\ ui' = [ui EXCEPT ![s].list = DOMAIN store.threads \ {c},
                        ![s].conv = IF @ = c THEN NoConversation ELSE @,
                        ![s].shown = IF ui[s].conv = c THEN <<>> ELSE @]
    /\ gone' = [gone EXCEPT ![s] = @ \cup {c}]
    /\ UNCHANGED <<kind, turn, known, sentTo>>

DeleteWithoutAbort(s, c) ==
    /\ WidgetRow(s, c)
    /\ store' = Without(c)
    /\ ui' = [ui EXCEPT ![s].list = DOMAIN store.threads \ {c},
                        ![s].conv = IF @ = c THEN NoConversation ELSE @,
                        ![s].shown = IF ui[s].conv = c THEN <<>> ELSE @]
    /\ gone' = [gone EXCEPT ![s] = @ \cup {c}]
    /\ UNCHANGED <<kind, turn, known, sentTo>>

\* The widget starts afresh, and so aborts, when the thread is the one shown: no thread is
\* then the active one, another surface's either.
WidgetDelete(s, c) ==
    /\ WidgetRow(s, c)
    /\ IF ui[s].conv = c
       THEN WidgetFresh(s) /\ store' = [Without(c) EXCEPT !.active = NoConversation]
       ELSE /\ store' = Without(c)
            /\ ui' = [ui EXCEPT ![s].list = DOMAIN store.threads \ {c}]
            /\ UNCHANGED turn
    /\ gone' = [gone EXCEPT ![s] = @ \cup {c}]
    /\ UNCHANGED <<kind, known, sentTo>>

-----------------------------------------------------------------------------
(* A turn.                                                                   *)

\* The history covers the composer, which does nothing while a reply is under way.
PanelComposer(s) == Panel(s) /\ ~ ui[s].history /\ ~ Receiving(s)
WidgetComposer(s) == Widget(s) /\ ~ ui[s].history /\ ~ Receiving(s)

Send(s) ==
    LET no == Len(sentTo) + 1 IN
    /\ no \in Turns
    /\ ui' = [ui EXCEPT ![s].shown = Append(@, [turn |-> no, reply |-> "empty"])]
    /\ turn' = [turn EXCEPT ![s] = [phase |-> "sent", no |-> no, conv |-> ui[s].conv]]
    /\ sentTo' = Append(sentTo, ui[s].conv)
    /\ UNCHANGED <<kind, store, known, gone>>

PanelSend(s) == PanelComposer(s) /\ Send(s)
WidgetSend(s) == WidgetComposer(s) /\ Send(s)

\* The server keeps the conversation it was given, or creates one.
Named(s) == IF turn[s].conv = NoConversation THEN Conversations \ known ELSE {turn[s].conv}

\* meta: the id of the conversation, which the surface shows from now on.
Meta(s) ==
    /\ turn[s].phase = "sent"
    /\ \E c \in Named(s) :
          /\ known' = known \cup {c}
          /\ sentTo' = [sentTo EXCEPT ![turn[s].no] = c]
          /\ turn' = [turn EXCEPT ![s].phase = "named", ![s].conv = c]
          /\ ui' = [ui EXCEPT ![s].conv = c]
    /\ UNCHANGED <<kind, store, gone>>

\* The bubble of the reply, if the surface still shows it.
Bubbles(s) == {i \in DOMAIN ui[s].shown : ui[s].shown[i].turn = turn[s].no}
WithReply(s, reply) ==
    [i \in DOMAIN ui[s].shown |->
        IF i \in Bubbles(s) THEN [ui[s].shown[i] EXCEPT !.reply = reply] ELSE ui[s].shown[i]]
Failed(s) ==
    IF \E i \in Bubbles(s) : ui[s].shown[i].reply = "empty" THEN WithReply(s, "failed")
    ELSE ui[s].shown

Token(s) ==
    /\ turn[s].phase = "named"
    /\ \E i \in Bubbles(s) : ui[s].shown[i].reply # "partial"
    /\ ui' = [ui EXCEPT ![s].shown = WithReply(s, "partial")]
    /\ UNCHANGED <<kind, store, turn, known, sentTo, gone>>

\* done: the reply is complete, and the panel stores the thread already here.
PanelDone(s) ==
    /\ Panel(s) /\ turn[s].phase = "named"
    /\ turn' = [turn EXCEPT ![s].phase = "answered"]
    /\ PanelPersist(turn[s].conv, WithReply(s, "full"))
    /\ ui' = [ui EXCEPT ![s].shown = WithReply(s, "full"), ![s].list = Summaries(turn[s].conv)]
    /\ UNCHANGED <<kind, known, sentTo, gone>>

WidgetDone(s) ==
    /\ Widget(s) /\ turn[s].phase = "named"
    /\ turn' = [turn EXCEPT ![s].phase = "answered"]
    /\ ui' = [ui EXCEPT ![s].shown = WithReply(s, "full")]
    /\ UNCHANGED <<kind, store, known, sentTo, gone>>

\* The stream ended or failed: the thread is stored under the id of the turn.
PanelSettle(s, shown) ==
    /\ PanelPersist(turn[s].conv, shown)
    /\ ui' = [ui EXCEPT ![s].shown = shown, ![s].list = Summaries(turn[s].conv)]
    /\ turn' = [turn EXCEPT ![s] = NoTurn]
    /\ UNCHANGED <<kind, known, sentTo, gone>>

\* The widget also shows the conversation of the turn again.
WidgetSettle(s, shown) ==
    /\ WidgetPersist(turn[s].conv, shown)
    /\ ui' = [ui EXCEPT ![s].shown = shown,
                        ![s].conv = IF turn[s].conv = NoConversation THEN @ ELSE turn[s].conv]
    /\ turn' = [turn EXCEPT ![s] = NoTurn]
    /\ UNCHANGED <<kind, known, sentTo, gone>>

\* The stream may end without a done event.
PanelEnd(s) == Panel(s) /\ Receiving(s) /\ PanelSettle(s, ui[s].shown)
WidgetEnd(s) == Widget(s) /\ Receiving(s) /\ WidgetSettle(s, ui[s].shown)

\* A refusal, an error event, or a lost connection.
PanelFail(s) == Panel(s) /\ Receiving(s) /\ PanelSettle(s, Failed(s))
WidgetFail(s) == Widget(s) /\ Receiving(s) /\ WidgetSettle(s, Failed(s))

-----------------------------------------------------------------------------

Mounting(s) == PanelMount(s) \/ BubbleClose(s) \/ Bootstrap(s) \/ Remount(s)
History(s) ==
    \/ PanelHistory(s) \/ WidgetHistory(s) \/ PanelNew(s) \/ WidgetNew(s)
    \/ \E c \in Conversations : \/ PanelSelect(s, c) \/ WidgetSelect(s, c)
                                \/ PanelDelete(s, c) \/ WidgetDelete(s, c)
Turn(s) ==
    \/ PanelSend(s) \/ WidgetSend(s) \/ Meta(s) \/ Token(s)
    \/ PanelDone(s) \/ WidgetDone(s)
    \/ PanelEnd(s) \/ WidgetEnd(s) \/ PanelFail(s) \/ WidgetFail(s)

Next == \E s \in Surfaces : Mounting(s) \/ History(s) \/ Turn(s)

Spec == Init /\ [][Next]_vars

-----------------------------------------------------------------------------

\* Every entry of a thread was sent to its conversation, or before one was known.
Unmixed == \A c \in DOMAIN store.threads : \A i \in DOMAIN store.threads[c] :
               sentTo[store.threads[c][i].turn] \in {c, NoConversation}

\* While only panels are used no stored thread holds a message of another
\* conversation, in whatever order replies, switches, deletions and tabs interleave.
PanelsDoNotMixThreads == (\A s \in Surfaces : kind[s] # "widget") => Unmixed

Alone == Cardinality({s \in Surfaces : kind[s] # "unused"}) = 1

\* The reply a widget waits for is never of a thread it has deleted: with no other
\* surface around, deleting a thread is not undone by the rest of its reply.
DeletedIsAborted ==
    Alone => \A s \in Surfaces : kind[s] = "widget" /\ Receiving(s) => turn[s].conv \notin gone[s]

\* One surface alone never shortens a stored thread and never un-answers a question:
\* a thread only grows until it is deleted.
Grows(old, new) ==
    /\ Len(new) >= Len(old)
    /\ \A i \in DOMAIN old : new[i].turn = old[i].turn /\ (old[i].reply = "full" => new[i] = old[i])
ThreadsOnlyGrow ==
    [][Alone => \A c \in DOMAIN store.threads \cap DOMAIN store'.threads :
                   Grows(store.threads[c], store'.threads[c])]_vars
=============================================================================
