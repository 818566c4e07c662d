---------------------------- MODULE ChatClientProofs ----------------------------
(***************************************************************************)
(* The invariants of the chat clients, for any surfaces in any number of   *)
(* tabs, and the one action property of a surface that is alone.           *)
(***************************************************************************)
EXTENDS ChatClient, SequenceTheorems, FiniteSetTheorems, TLAPS

Ids == Conversations \cup {NoConversation}
Entries == [turn : Nat \ {0}, reply : Replies]
Threads == Seq(Entries)
ThreadMaps == UNION {[D -> Threads] : D \in SUBSET Conversations}
Stores == [active : Ids, threads : ThreadMaps]
Uis == [ready : BOOLEAN, conv : Ids, shown : Threads, list : SUBSET Conversations, history : BOOLEAN]
TurnRecords == [phase : {"none", "sent", "named", "answered"}, no : Nat \ {0}, conv : Ids]

ClientTypes ==
    /\ kind \in [Surfaces -> {"panel", "widget", "unused"}]
    /\ store \in Stores
    /\ ui \in [Surfaces -> Uis]
    /\ turn \in [Surfaces -> TurnRecords]
    /\ known \in SUBSET Conversations
    /\ sentTo \in Seq(Ids)
    /\ gone \in [Surfaces -> SUBSET Conversations]

\* Whatever a surface keeps of a conversation is of one that the server created.
KnownOnly ==
    /\ DOMAIN store.threads \subseteq known
    /\ \A s \in Surfaces :
          /\ ui[s].conv \in known \cup {NoConversation} /\ turn[s].conv \in known \cup {NoConversation}
          /\ ui[s].list \subseteq known /\ gone[s] \subseteq known

\* Entries are of messages that were sent.
Numbered(shown) == \A i \in DOMAIN shown : shown[i].turn \in DOMAIN sentTo
AllNumbered ==
    /\ \A c \in DOMAIN store.threads : Numbered(store.threads[c])
    /\ \A s \in Surfaces : Numbered(ui[s].shown) /\ (Receiving(s) => turn[s].no \in DOMAIN sentTo)

\* A reply is awaited by a widget, or by a panel that is mounted; and the panel shows its
\* conversation, unless that was deleted.
Awaited ==
    \A s \in Surfaces : Receiving(s) =>
        \/ kind[s] = "widget"
        \/ /\ Panel(s)
           /\ \/ ui[s].conv = turn[s].conv
              \/ ui[s].conv = NoConversation /\ ui[s].shown = <<>>

\* A turn that its surface has not stored is nowhere else.
Holds(shown, no) == \E i \in DOMAIN shown : shown[i].turn = no
Pending(s) == Receiving(s) /\ (turn[s].phase # "answered" \/ kind[s] = "widget")
PendingIsPrivate ==
    \A s \in Surfaces : Pending(s) =>
        /\ \A c \in DOMAIN store.threads : ~ Holds(store.threads[c], turn[s].no)
        /\ \A u \in Surfaces \ {s} : ~ Holds(ui[u].shown, turn[s].no)

AnsweredIsFull ==
    \A s \in Surfaces : turn[s].phase = "answered" =>
        \A i \in DOMAIN ui[s].shown : ui[s].shown[i].turn = turn[s].no => ui[s].shown[i].reply = "full"

BaseInv ==
    ClientTypes /\ KnownOnly /\ AllNumbered /\ Awaited /\ PendingIsPrivate /\ AnsweredIsFull

-----------------------------------------------------------------------------
(* The shapes of the steps.                                                  *)

\* Threads are forgotten and none changes.
Forgets ==
    /\ store' \in Stores
    /\ DOMAIN store'.threads \subseteq DOMAIN store.threads
    /\ \A c \in DOMAIN store'.threads : store'.threads[c] = store.threads[c]

OnlyOf(s) ==
    /\ kind' = kind
    /\ ui' \in [Surfaces -> Uis] /\ turn' \in [Surfaces -> TurnRecords]
    /\ gone' \in [Surfaces -> SUBSET Conversations]
    /\ \A u \in Surfaces \ {s} : ui'[u] = ui[u] /\ turn'[u] = turn[u] /\ gone'[u] = gone[u]

\* A surface mounts, unmounts, or goes to another thread: it shows none, the same, or one
\* that is stored, and goes on with its reply or aborts it.
Shows(s, conv, shown) == ui'[s].conv = conv /\ ui'[s].shown = shown
Switches(s) ==
    /\ kind[s] # "unused" /\ OnlyOf(s) /\ Forgets /\ UNCHANGED <<known, sentTo>>
    /\ ui'[s].list \subseteq known /\ gone'[s] \subseteq known
    /\ turn'[s] = turn[s] \/ turn'[s] = NoTurn
    /\ \/ Shows(s, NoConversation, <<>>)
       \/ Shows(s, ui[s].conv, ui[s].shown)
       \/ \E c \in DOMAIN store.threads :
             Shows(s, c, store.threads[c]) /\ (kind[s] = "widget" \/ ~ Receiving(s)')
    /\ Receiving(s)' /\ kind[s] = "panel" =>
          /\ ui'[s].ready = ui[s].ready
          /\ \/ Shows(s, ui[s].conv, ui[s].shown)
             \/ /\ Shows(s, NoConversation, <<>>)
                /\ Receiving(s) => turn[s].conv \notin DOMAIN store'.threads
    /\ Receiving(s)' /\ kind[s] = "widget" =>
          \/ Shows(s, ui[s].conv, ui[s].shown)
          \/ store' = store /\ Shows(s, NoConversation, <<>>) /\ ~ Stored(store.active)
          \/ store' = store /\ Stored(store.active) /\ Shows(s, store.active, store.threads[store.active])

\* An event of the reply, or its end: entries of the turn change, and the thread that is
\* shown may be stored as the turn's.
SameTurns(a, b) == DOMAIN a = DOMAIN b /\ \A i \in DOMAIN a : a[i].turn = b[i].turn
Keeps(s, shown) ==
    \E stored \in Threads :
        /\ turn[s].conv # NoConversation
        /\ SameTurns(stored, shown)
        /\ \A i \in DOMAIN shown :
              shown[i].reply = "full" \/ stored[i].reply = "full" => stored[i] = shown[i]
        /\ store' = Upsert(turn[s].conv, stored)
Answers(s) ==
    /\ kind[s] # "unused" /\ Receiving(s) /\ OnlyOf(s) /\ UNCHANGED <<known, sentTo, gone>>
    /\ ui'[s].list \subseteq known /\ ui'[s].ready = ui[s].ready
    /\ SameTurns(ui'[s].shown, ui[s].shown)
    /\ \A i \in DOMAIN ui[s].shown :
          \/ ui'[s].shown[i] = ui[s].shown[i]
          \/ ui[s].shown[i].turn = turn[s].no /\ turn[s].phase \in {"sent", "named"}
    /\ \/ turn'[s] = NoTurn
       \/ turn'[s] = turn[s] /\ turn[s].phase = "named"
       \/ /\ turn'[s] = [turn[s] EXCEPT !.phase = "answered"]
          /\ \A i \in DOMAIN ui'[s].shown :
                ui'[s].shown[i].turn = turn[s].no => ui'[s].shown[i].reply = "full"
    /\ kind[s] = "widget" => ui'[s].list = ui[s].list
    /\ \/ /\ store' = store /\ ui'[s].conv = ui[s].conv
          /\ kind[s] = "widget" /\ turn'[s] = NoTurn => turn[s].conv = NoConversation
       \/ /\ kind[s] = "panel" /\ ui'[s].conv = ui[s].conv
          /\ turn'[s].phase # "named" /\ Keeps(s, ui'[s].shown)
       \/ /\ kind[s] = "widget" /\ ui'[s].conv = turn[s].conv
          /\ turn'[s] = NoTurn /\ Keeps(s, ui'[s].shown)

-----------------------------------------------------------------------------
(* Threads.                                                                  *)

\* A store maps conversations to threads.
LEMMA MapFacts ==
    /\ \A f \in ThreadMaps : /\ f = [c \in DOMAIN f |-> f[c]] /\ DOMAIN f \subseteq Conversations
                             /\ \A c \in DOMAIN f : f[c] \in Threads
    /\ \A D \in SUBSET Conversations : \A f \in [D -> Threads] : f \in ThreadMaps
<1>1. ASSUME NEW f \in ThreadMaps
      PROVE  /\ f = [c \in DOMAIN f |-> f[c]] /\ DOMAIN f \subseteq Conversations
             /\ \A c \in DOMAIN f : f[c] \in Threads
  <2>1. PICK D \in SUBSET Conversations : f \in [D -> Threads]
    BY DEF ThreadMaps
  <2> QED
    BY <2>1
<1>2. ASSUME NEW D \in SUBSET Conversations, NEW f \in [D -> Threads] PROVE f \in ThreadMaps
  BY DEF ThreadMaps
<1> QED
  BY <1>1, <1>2

\* A thread whose entries are replaced one by one is a thread.
LEMMA ThreadFacts ==
    ASSUME NEW shown \in Threads
    PROVE  /\ DOMAIN shown = 1 .. Len(shown) /\ Len(shown) \in Nat
           /\ \A i \in DOMAIN shown : shown[i] \in Entries
           /\ \A other : other = [i \in DOMAIN shown |-> other[i]] /\ (\A i \in DOMAIN shown : other[i] \in Entries)
                 => other \in Threads /\ Len(other) = Len(shown)
<1>1. DOMAIN shown = 1 .. Len(shown) /\ Len(shown) \in Nat /\ \A i \in DOMAIN shown : shown[i] \in Entries
  BY DEF Threads
<1>2. ASSUME NEW other, other = [i \in DOMAIN shown |-> other[i]], \A i \in DOMAIN shown : other[i] \in Entries
      PROVE  other \in Threads /\ Len(other) = Len(shown)
  <2>1. other \in [1 .. Len(shown) -> Entries]
    BY <1>1, <1>2
  <2> QED
    BY <1>1, <2>1 DEF Threads
<1> QED
  BY <1>1, <1>2

\* What the panel stores has the entries it shows; only empty replies are left out.
LEMMA PanelStoredFacts ==
    ASSUME NEW shown \in Threads
    PROVE  /\ PanelStored(shown) \in Threads /\ SameTurns(PanelStored(shown), shown)
           /\ \A i \in DOMAIN shown : shown[i].reply = "full" \/ PanelStored(shown)[i].reply = "full"
                 => PanelStored(shown)[i] = shown[i]
<1> DEFINE p == PanelStored(shown)
<1>1. p = [i \in DOMAIN shown |-> p[i]]
  BY DEF PanelStored
<1>2. \A i \in DOMAIN shown :
         p[i] = IF shown[i].reply = "empty" THEN [shown[i] EXCEPT !.reply = "none"] ELSE shown[i]
  BY DEF PanelStored
<1>3. \A i \in DOMAIN shown : shown[i] \in Entries
  BY ThreadFacts
<1> HIDE DEF p
<1>4. \A i \in DOMAIN shown : p[i] \in Entries /\ p[i].turn = shown[i].turn
  BY <1>2, <1>3 DEF Entries, Replies
<1>5. p \in Threads
  BY <1>1, <1>4, ThreadFacts
<1>6. \A i \in DOMAIN shown : shown[i].reply = "full" \/ p[i].reply = "full" => p[i] = shown[i]
  BY <1>2, <1>3 DEF Entries
<1>7. DOMAIN p = DOMAIN shown
  BY <1>1
<1> QED
  BY <1>4, <1>5, <1>6, <1>7 DEF SameTurns, p

\* The reply so far goes to the entries of the turn and to no other.
LEMMA WithReplyFacts ==
    ASSUME ClientTypes, NEW s \in Surfaces, NEW reply \in Replies
    PROVE  /\ WithReply(s, reply) \in Threads /\ SameTurns(WithReply(s, reply), ui[s].shown)
           /\ \A i \in DOMAIN ui[s].shown :
                 IF ui[s].shown[i].turn = turn[s].no THEN WithReply(s, reply)[i].reply = reply
                 ELSE WithReply(s, reply)[i] = ui[s].shown[i]
<1> DEFINE p == WithReply(s, reply)
           shown == ui[s].shown
<1>1. p = [i \in DOMAIN shown |-> p[i]]
  BY DEF WithReply
<1>2. \A i \in DOMAIN shown : p[i] = IF shown[i].turn = turn[s].no THEN [shown[i] EXCEPT !.reply = reply] ELSE shown[i]
  BY DEF WithReply, Bubbles
<1>3. shown \in Threads
  BY DEF ClientTypes, Uis
<1>4. \A i \in DOMAIN shown : shown[i] \in Entries
  BY <1>3, ThreadFacts
<1> HIDE DEF p, shown
<1>5. \A i \in DOMAIN shown : /\ p[i] \in Entries /\ p[i].turn = shown[i].turn
                              /\ shown[i].turn = turn[s].no => p[i].reply = reply
  BY <1>2, <1>4 DEF Entries
<1>6. p \in Threads
  BY <1>1, <1>3, <1>5, ThreadFacts
<1>7. DOMAIN p = DOMAIN shown
  BY <1>1
<1> QED
  BY <1>2, <1>5, <1>6, <1>7 DEF SameTurns, p, shown

-----------------------------------------------------------------------------
(* Which step has which shape.                                               *)

\* What the types say of a store and of a surface.
LEMMA TypeFacts ==
    ASSUME ClientTypes
    PROVE  /\ store = [active |-> store.active, threads |-> store.threads]
           /\ store.active \in Ids /\ store.threads \in ThreadMaps
           /\ DOMAIN store.threads \subseteq Conversations
           /\ \A c \in DOMAIN store.threads : store.threads[c] \in Threads
           /\ NoConversation \notin DOMAIN store.threads
           /\ \A s \in Surfaces : ui[s] \in Uis /\ turn[s] \in TurnRecords
BY MapFacts, NullAssumption DEF ClientTypes, Stores

\* Another conversation becomes the active one.
LEMMA SelectedStore ==
    ASSUME ClientTypes, NEW c \in Ids, store' = [store EXCEPT !.active = c]
    PROVE  Forgets /\ store'.threads = store.threads /\ store'.active = c
<1>1. store' = [active |-> c, threads |-> store.threads]
  BY TypeFacts
<1> QED
  BY <1>1, TypeFacts DEF Forgets, Stores

\* A conversation is deleted, and which one is active is forgotten or not.
LEMMA WithoutStore ==
    ASSUME ClientTypes, NEW c \in Conversations,
           store' = Without(c) \/ store' = [Without(c) EXCEPT !.active = NoConversation]
    PROVE  /\ Forgets /\ DOMAIN store'.threads = DOMAIN store.threads \ {c}
           /\ store' = Without(c) =>
                 store'.active = IF store.active = c THEN NoConversation ELSE store.active
<1> DEFINE rest == [d \in DOMAIN store.threads \ {c} |-> store.threads[d]]
<1>0. Without(c) = [active |-> IF store.active = c THEN NoConversation ELSE store.active, threads |-> rest]
  BY DEF Without
<1>1. store' = [active |-> store'.active, threads |-> rest]
      /\ store'.active \in {NoConversation, store.active}
      /\ (store' = Without(c) =>
             store'.active = IF store.active = c THEN NoConversation ELSE store.active)
  BY <1>0
<1>2. DOMAIN rest = DOMAIN store.threads \ {c} /\ \A d \in DOMAIN rest : rest[d] = store.threads[d]
  OBVIOUS
<1>3. rest \in [DOMAIN store.threads \ {c} -> Threads]
  BY TypeFacts
<1>4. DOMAIN store.threads \ {c} \in SUBSET Conversations
  BY TypeFacts
<1>5. rest \in ThreadMaps
  BY <1>3, <1>4, MapFacts
<1> HIDE DEF rest
<1>6. store'.active \in Ids
  BY <1>1, TypeFacts DEF Ids
<1> QED
  BY <1>1, <1>2, <1>5, <1>6 DEF Forgets, Stores

\* A thread is stored and becomes the active one.
LEMMA UpsertStore ==
    ASSUME ClientTypes, NEW c \in Conversations, NEW shown \in Threads, store' = Upsert(c, shown)
    PROVE  /\ store' \in Stores /\ store'.active = c
           /\ DOMAIN store'.threads = DOMAIN store.threads \cup {c}
           /\ store'.threads[c] = shown
           /\ \A d \in DOMAIN store.threads \ {c} : store'.threads[d] = store.threads[d]
<1> DEFINE all == [d \in DOMAIN store.threads \cup {c} |-> IF d = c THEN shown ELSE store.threads[d]]
<1>1. store' = [active |-> c, threads |-> all]
  BY DEF Upsert
<1>2. /\ DOMAIN all = DOMAIN store.threads \cup {c} /\ all[c] = shown
      /\ \A d \in DOMAIN store.threads \ {c} : all[d] = store.threads[d]
  OBVIOUS
<1>3. all \in [DOMAIN store.threads \cup {c} -> Threads]
  BY TypeFacts
<1>4. DOMAIN store.threads \cup {c} \in SUBSET Conversations
  BY TypeFacts
<1>5. all \in ThreadMaps
  BY <1>3, <1>4, MapFacts
<1> HIDE DEF all
<1> QED
  BY <1>1, <1>2, <1>5 DEF Stores, Ids

\* A surface that starts shows nothing and waits for nothing.
LEMMA BlankFacts ==
    /\ Blank \in Uis /\ Blank.conv = NoConversation /\ Blank.shown = <<>> /\ Blank.list = {}
    /\ NoTurn \in TurnRecords /\ NoTurn.phase = "none" /\ NoTurn.conv = NoConversation
BY DEF Blank, Uis, Ids, Threads, NoTurn, TurnRecords

\* A step of one surface that gives it a record for what it shows, one for its turn, and
\* a set of the threads it deleted.
LEMMA OneSurface ==
    ASSUME ClientTypes, NEW s \in Surfaces, NEW v \in Uis, NEW t \in TurnRecords,
           NEW g \in SUBSET Conversations, kind' = kind,
           ui' = [ui EXCEPT ![s] = v] \/ (v = ui[s] /\ ui' = ui),
           turn' = [turn EXCEPT ![s] = t] \/ (t = turn[s] /\ turn' = turn),
           gone' = [gone EXCEPT ![s] = g] \/ (g = gone[s] /\ gone' = gone)
    PROVE  OnlyOf(s) /\ ui'[s] = v /\ turn'[s] = t /\ gone'[s] = g
BY DEF ClientTypes, OnlyOf

\* What a surface loads: the active thread, or none.
LEMMA LoadedFacts ==
    ASSUME ClientTypes, NEW s \in Surfaces
    PROVE  LET v == LoadActive(s) IN
           /\ v \in Uis /\ v.list = ui[s].list
           /\ \/ ~ Stored(store.active) /\ v.conv = NoConversation /\ v.shown = <<>>
              \/ /\ Stored(store.active) /\ v.conv = store.active
                 /\ v.shown = store.threads[store.active]
<1>1. CASE Stored(store.active)
  <2>1. store.active # NoConversation /\ store.threads[store.active] \in Threads /\ store.active \in Ids
    BY <1>1, TypeFacts DEF Stored
  <2>2. ActiveConversation = store.active
    BY <1>1 DEF ActiveConversation
  <2>3. LoadActive(s) = [ui[s] EXCEPT !.ready = TRUE, !.conv = store.active,
                                      !.shown = store.threads[store.active]]
    BY <2>1, <2>2 DEF LoadActive
  <2>4. ui[s] \in Uis
    BY TypeFacts
  <2> DEFINE v == LoadActive(s)
             thread == store.threads[store.active]
  <2>5. v.conv = store.active /\ v.shown = thread /\ v.list = ui[s].list
    BY <2>3, <2>4 DEF Uis
  <2>6. [ui[s] EXCEPT !.ready = TRUE, !.conv = store.active, !.shown = thread] \in Uis
    <3> HIDE DEF thread
    <3> QED
      BY <2>1, <2>4 DEF Uis, thread
  <2>7. v \in Uis
    BY <2>3, <2>6
  <2> HIDE DEF v
  <2> QED
    BY <1>1, <2>5, <2>7 DEF v
<1>2. CASE ~ Stored(store.active)
  <2>1. ActiveConversation = NoConversation
    BY <1>2 DEF ActiveConversation
  <2>2. LoadActive(s) = [ui[s] EXCEPT !.ready = TRUE, !.conv = NoConversation, !.shown = <<>>]
    BY <2>1 DEF LoadActive
  <2>3. ui[s] \in Uis /\ <<>> \in Threads
    BY TypeFacts DEF Threads
  <2> QED
    BY <1>2, <2>2, <2>3 DEF Uis, Ids
<1> QED
  BY <1>1, <1>2

\* Mounting, closing and loading switch the surface.
LEMMA MountingSwitches ==
    ASSUME BaseInv, NEW s \in Surfaces, Mounting(s)
    PROVE  Switches(s)
<1> USE DEF BaseInv
<1>1. store' = store /\ UNCHANGED <<kind, known, sentTo>>
  BY DEF Mounting, PanelMount, BubbleClose, Bootstrap, Remount
<1>2. Forgets
  BY <1>1 DEF Forgets, ClientTypes
<1>3. gone[s] \in SUBSET Conversations /\ gone[s] \subseteq known /\ ui[s].list \subseteq known
  BY DEF ClientTypes, KnownOnly
<1>4. CASE PanelMount(s)
  <2> DEFINE v == [LoadActive(s) EXCEPT !.list = DOMAIN store.threads]
  <2>1. /\ v \in Uis /\ v.list = DOMAIN store.threads /\ v.conv = LoadActive(s).conv
        /\ v.shown = LoadActive(s).shown
    BY LoadedFacts, TypeFacts DEF Uis
  <2>2. ui' = [ui EXCEPT ![s] = v] /\ UNCHANGED <<turn, gone>> /\ kind[s] = "panel" /\ ~ ui[s].ready
    BY <1>4 DEF PanelMount
  <2>3. turn[s].phase = "none"
    BY <2>2 DEF Awaited, Receiving, Panel
  <2> HIDE DEF v
  <2>4. OnlyOf(s) /\ ui'[s] = v /\ turn'[s] = turn[s] /\ gone'[s] = gone[s]
    BY <1>1, <1>3, <2>1, <2>2, TypeFacts, OneSurface, ZenonT(30)
  <2> QED
    BY <1>1, <1>2, <1>3, <2>1, <2>2, <2>3, <2>4, LoadedFacts DEF Switches, Shows, KnownOnly, Stored, Receiving
<1>5. CASE BubbleClose(s) \/ Remount(s)
  <2>1. /\ ui' = [ui EXCEPT ![s] = Blank] /\ turn' = [turn EXCEPT ![s] = NoTurn]
        /\ gone' = [gone EXCEPT ![s] = {}] /\ kind[s] # "unused"
    BY <1>5 DEF BubbleClose, Remount, Panel, Widget
  <2>2. OnlyOf(s) /\ ui'[s] = Blank /\ turn'[s] = NoTurn /\ gone'[s] = {}
    BY <1>1, <2>1, BlankFacts DEF ClientTypes, OnlyOf
  <2> QED
    BY <1>1, <1>2, <2>1, <2>2, BlankFacts DEF Switches, Shows, Receiving
<1>6. CASE Bootstrap(s)
  <2>1. ui' = [ui EXCEPT ![s] = LoadActive(s)] /\ UNCHANGED <<turn, gone>> /\ kind[s] = "widget"
    BY <1>6 DEF Bootstrap, Widget
  <2>2. OnlyOf(s) /\ ui'[s] = LoadActive(s) /\ turn'[s] = turn[s] /\ gone'[s] = gone[s]
    BY <1>1, <1>3, <2>1, TypeFacts, LoadedFacts, OneSurface, ZenonT(30)
  <2> QED
    BY <1>1, <1>2, <1>3, <2>1, <2>2, LoadedFacts DEF Switches, Shows, Stored
<1> QED
  BY <1>4, <1>5, <1>6 DEF Mounting

\* Opening or closing the history leaves what is shown.
LEMMA HistoryMoves ==
    ASSUME BaseInv, NEW s \in Surfaces, PanelHistory(s) \/ WidgetHistory(s)
    PROVE  Switches(s)
<1> USE DEF BaseInv
<1> DEFINE v == [ui[s] EXCEPT !.history = ~ ui[s].history,
                              !.list = IF ui'[s].list = ui[s].list THEN ui[s].list ELSE DOMAIN store.threads]
<1>1. UNCHANGED <<kind, store, turn, known, sentTo, gone>> /\ kind[s] # "unused"
  BY DEF PanelHistory, WidgetHistory, Panel, Widget
<1>2. ui[s] \in Uis /\ gone[s] \in SUBSET Conversations /\ gone[s] \subseteq known
  BY DEF ClientTypes, KnownOnly
<1>3. v \in Uis /\ v.conv = ui[s].conv /\ v.shown = ui[s].shown /\ v.ready = ui[s].ready /\ v.list \subseteq known
  BY <1>2, TypeFacts DEF Uis, KnownOnly
<1>4. ui' = [ui EXCEPT ![s] = v]
  <2>1. CASE PanelHistory(s)
    <3>1. ui' = [ui EXCEPT ![s] = [ui[s] EXCEPT !.history = ~ ui[s].history]]
      BY <2>1 DEF PanelHistory
    <3>2. ui'[s].list = ui[s].list
      BY <1>2, <3>1 DEF ClientTypes, Uis
    <3>3. v = [ui[s] EXCEPT !.history = ~ ui[s].history]
      BY <1>2, <3>2 DEF Uis
    <3> QED
      BY <3>1, <3>3
  <2>2. CASE WidgetHistory(s)
    <3> DEFINE l == IF ui[s].history THEN ui[s].list ELSE DOMAIN store.threads
    <3>1. ui' = [ui EXCEPT ![s] = [ui[s] EXCEPT !.history = ~ ui[s].history, !.list = l]]
      BY <2>2 DEF WidgetHistory, ClientTypes
    <3>2. ui'[s].list = l
      BY <1>2, <3>1 DEF ClientTypes, Uis
    <3>3. v = [ui[s] EXCEPT !.history = ~ ui[s].history, !.list = l]
      BY <3>2
    <3> QED
      BY <3>1, <3>3
  <2> QED
    BY <2>1, <2>2
<1> HIDE DEF v
<1>5. OnlyOf(s) /\ ui'[s] = v /\ turn'[s] = turn[s] /\ gone'[s] = gone[s]
  BY <1>1, <1>2, <1>3, <1>4, TypeFacts, OneSurface, ZenonT(30)
<1>6. Forgets
  BY <1>1 DEF Forgets, ClientTypes
<1> QED
  BY <1>1, <1>2, <1>3, <1>5, <1>6 DEF Switches, Shows

\* A surface that starts afresh.
LEMMA NewSwitches ==
    ASSUME BaseInv, NEW s \in Surfaces, PanelNew(s) \/ WidgetNew(s)
    PROVE  Switches(s) /\ store'.threads = store.threads
<1> USE DEF BaseInv
<1> DEFINE l == IF Panel(s) THEN DOMAIN store.threads ELSE ui[s].list
           v == [ui[s] EXCEPT !.conv = NoConversation, !.shown = <<>>, !.list = l, !.history = FALSE]
<1>1. UNCHANGED <<kind, known, sentTo, gone>> /\ kind[s] # "unused" /\ turn' = [turn EXCEPT ![s] = NoTurn]
  BY DEF PanelNew, WidgetNew, WidgetFresh, Abort, Panel, Widget
<1>2. store' = [store EXCEPT !.active = NoConversation]
  BY DEF PanelNew, WidgetNew
<1>3. Forgets /\ store'.threads = store.threads
  BY <1>2, SelectedStore DEF Ids
<1>4. ui[s] \in Uis /\ gone[s] \in SUBSET Conversations /\ gone[s] \subseteq known /\ l \in SUBSET Conversations
      /\ l \subseteq known
  BY TypeFacts DEF ClientTypes, KnownOnly, Uis
<1>5. ui' = [ui EXCEPT ![s] = v]
  <2>1. CASE PanelNew(s)
    BY <2>1, <1>4 DEF PanelNew, ClientTypes, Uis
  <2>2. CASE WidgetNew(s)
    <3>1. l = ui[s].list
      BY <2>2 DEF WidgetNew, Widget, Panel
    <3> QED
      BY <2>2, <1>4, <3>1 DEF WidgetNew, WidgetFresh, ClientTypes, Uis
  <2> QED
    BY <2>1, <2>2
<1> HIDE DEF l
<1>6. v \in Uis /\ v.conv = NoConversation /\ v.shown = <<>> /\ v.list = l
  <2>1. <<>> \in Threads
    BY DEF Threads
  <2> QED
    BY <1>4, <2>1 DEF Uis, Ids
<1> HIDE DEF v
<1>7. OnlyOf(s) /\ ui'[s] = v /\ turn'[s] = NoTurn /\ gone'[s] = gone[s]
  BY <1>1, <1>4, <1>5, <1>6, BlankFacts, OneSurface, ZenonT(30)
<1> QED
  BY <1>1, <1>3, <1>4, <1>6, <1>7, BlankFacts DEF Switches, Shows, Receiving

\* A surface that shows a stored thread.
LEMMA ShowSwitches ==
    ASSUME BaseInv, NEW s \in Surfaces, NEW c \in Conversations, Stored(c), kind[s] # "unused",
           Abort(s), Show(s, c), UNCHANGED <<kind, known, sentTo>>
    PROVE  Switches(s) /\ Shows(s, c, store.threads[c]) /\ store'.active = c /\ store'.threads = store.threads
           /\ gone'[s] = gone[s] \ {c} /\ turn'[s] = NoTurn
<1> USE DEF BaseInv
<1> DEFINE l == IF Panel(s) THEN DOMAIN store.threads ELSE ui[s].list
           thread == store.threads[c]
           g == gone[s] \ {c}
           v == [ui[s] EXCEPT !.conv = c, !.shown = thread, !.history = FALSE, !.list = l]
<1>1. turn' = [turn EXCEPT ![s] = NoTurn] /\ gone' = [gone EXCEPT ![s] = g]
  BY DEF Abort, Show
<1>2. Forgets /\ store'.threads = store.threads /\ store'.active = c
  BY SelectedStore DEF Ids, Show
<1>3. /\ ui[s] \in Uis /\ g \in SUBSET Conversations /\ g \subseteq known
      /\ l \in SUBSET Conversations /\ l \subseteq known /\ thread \in Threads /\ c \in DOMAIN store.threads
  BY TypeFacts DEF ClientTypes, KnownOnly, Uis, Stored
<1>4. ui' = [ui EXCEPT ![s] = v]
  BY <1>3 DEF Show, ClientTypes, Uis
<1> HIDE DEF l, thread, g
<1>5. v \in Uis /\ v.conv = c /\ v.shown = thread /\ v.list = l
  BY <1>3 DEF Uis, Ids
<1> HIDE DEF v
<1>6. OnlyOf(s) /\ ui'[s] = v /\ turn'[s] = NoTurn /\ gone'[s] = g
  BY <1>1, <1>3, <1>4, <1>5, BlankFacts, OneSurface, ZenonT(30)
<1> QED
  BY <1>2, <1>3, <1>5, <1>6, BlankFacts DEF Switches, Shows, Receiving, thread, g

\* A row of the history is selected, whether or not its thread is still there.
LEMMA SelectSwitches ==
    ASSUME BaseInv, NEW s \in Surfaces, NEW c \in Conversations, PanelSelect(s, c) \/ WidgetSelect(s, c)
    PROVE  Switches(s) /\ store'.threads = store.threads
<1> USE DEF BaseInv
<1>1. Abort(s) /\ UNCHANGED <<kind, known, sentTo>> /\ kind[s] # "unused"
  BY DEF PanelSelect, WidgetSelect, PanelRow, WidgetRow, Panel, Widget
<1>2. CASE Stored(c)
  <2>1. Show(s, c)
    BY <1>2 DEF PanelSelect, WidgetSelect
  <2> QED
    BY <1>1, <1>2, <2>1, ShowSwitches
<1>3. CASE ~ Stored(c)
  <2> DEFINE v == [ui[s] EXCEPT !.history = FALSE]
  <2>1. ui' = [ui EXCEPT ![s] = v] /\ UNCHANGED <<store, gone>>
    BY <1>3 DEF PanelSelect, WidgetSelect
  <2>2. turn' = [turn EXCEPT ![s] = NoTurn]
    BY <1>1 DEF Abort
  <2>3. ui[s] \in Uis /\ gone[s] \in SUBSET Conversations /\ gone[s] \subseteq known /\ ui[s].list \subseteq known
    BY DEF ClientTypes, KnownOnly
  <2>4. v \in Uis /\ v.conv = ui[s].conv /\ v.shown = ui[s].shown /\ v.list = ui[s].list
    BY <2>3 DEF Uis
  <2> HIDE DEF v
  <2>5. OnlyOf(s) /\ ui'[s] = v /\ turn'[s] = NoTurn /\ gone'[s] = gone[s]
    BY <1>1, <2>1, <2>2, <2>3, <2>4, BlankFacts, OneSurface, ZenonT(30)
  <2>6. Forgets
    BY <2>1 DEF Forgets, ClientTypes
  <2> QED
    BY <1>1, <2>1, <2>3, <2>4, <2>5, <2>6, BlankFacts DEF Switches, Shows, Receiving
<1> QED
  BY <1>2, <1>3

\* A row of the history is deleted, shown or not.
LEMMA DeleteSwitches ==
    ASSUME BaseInv, NEW s \in Surfaces, NEW c \in Conversations, PanelDelete(s, c) \/ WidgetDelete(s, c)
    PROVE  /\ Switches(s) /\ DOMAIN store'.threads = DOMAIN store.threads \ {c}
           /\ gone'[s] = gone[s] \cup {c}
<1> USE DEF BaseInv
<1> DEFINE l == DOMAIN store.threads \ {c}
           g == gone[s] \cup {c}
<1>1. UNCHANGED <<kind, known, sentTo>> /\ gone' = [gone EXCEPT ![s] = g] /\ kind[s] # "unused"
  BY DEF PanelDelete, WidgetDelete, PanelRow, WidgetRow, Panel, Widget
<1>2. Forgets /\ DOMAIN store'.threads = l
  BY WithoutStore DEF PanelDelete, WidgetDelete
<1>3. /\ ui[s] \in Uis /\ g \in SUBSET Conversations /\ <<>> \in Threads /\ c \in known
      /\ l \in SUBSET Conversations /\ l \subseteq known /\ ui[s].list \subseteq known
  BY TypeFacts DEF ClientTypes, KnownOnly, Threads, PanelDelete, WidgetDelete, PanelRow, WidgetRow
<1>4. g \subseteq known
  BY <1>3 DEF KnownOnly
<1> HIDE DEF l, g
<1>5. CASE ui[s].conv = c /\ PanelDelete(s, c)
  <2> DEFINE v == [ui[s] EXCEPT !.list = l, !.conv = NoConversation, !.shown = <<>>]
  <2>1. ui' = [ui EXCEPT ![s] = v] /\ turn' = turn /\ Panel(s)
    BY <1>5, <1>3 DEF PanelDelete, PanelRow, ClientTypes, Uis, l
  <2>2. v \in Uis /\ v.conv = NoConversation /\ v.shown = <<>> /\ v.list = l /\ v.ready = ui[s].ready
    BY <1>3 DEF Uis, Ids
  <2> HIDE DEF v
  <2>3. OnlyOf(s) /\ ui'[s] = v /\ turn'[s] = turn[s] /\ gone'[s] = g
    BY <1>1, <1>3, <2>1, <2>2, TypeFacts, OneSurface, ZenonT(30)
  <2>4. Receiving(s) => turn[s].conv = c
    BY <1>5, <2>1, NullAssumption DEF Awaited, Panel
  <2>5. Receiving(s) => turn[s].conv \notin DOMAIN store'.threads
    BY <1>2, <2>4 DEF l
  <2> QED
    BY <1>1, <1>2, <1>3, <1>4, <2>1, <2>2, <2>3, <2>5 DEF Switches, Shows, Panel, g, l
<1>6. CASE ui[s].conv # c /\ PanelDelete(s, c)
  <2> DEFINE v == [ui[s] EXCEPT !.list = l]
  <2>1. ui' = [ui EXCEPT ![s] = v] /\ turn' = turn /\ Panel(s)
    <3>1. ui' = [ui EXCEPT ![s] = [ui[s] EXCEPT !.list = l, !.conv = ui[s].conv, !.shown = ui[s].shown]]
      BY <1>6, <1>3 DEF PanelDelete, ClientTypes, Uis, l
    <3>2. v = [ui[s] EXCEPT !.list = l, !.conv = ui[s].conv, !.shown = ui[s].shown]
      BY <1>3 DEF Uis
    <3> QED
      BY <1>6, <3>1, <3>2 DEF PanelDelete, PanelRow
  <2>2. /\ v \in Uis /\ v.conv = ui[s].conv /\ v.shown = ui[s].shown /\ v.list = l
        /\ v.ready = ui[s].ready
    BY <1>3 DEF Uis
  <2> HIDE DEF v
  <2>3. OnlyOf(s) /\ ui'[s] = v /\ turn'[s] = turn[s] /\ gone'[s] = g
    BY <1>1, <1>3, <2>1, <2>2, TypeFacts, OneSurface, ZenonT(30)
  <2> QED
    BY <1>1, <1>2, <1>3, <1>4, <2>1, <2>2, <2>3 DEF Switches, Shows, Panel, g, l
<1>7. CASE ui[s].conv = c /\ WidgetDelete(s, c)
  <2> DEFINE v == [ui[s] EXCEPT !.conv = NoConversation, !.shown = <<>>, !.history = FALSE]
  <2>1. ui' = [ui EXCEPT ![s] = v] /\ turn' = [turn EXCEPT ![s] = NoTurn]
    BY <1>7, <1>3 DEF WidgetDelete, WidgetFresh, Abort, ClientTypes, Uis
  <2>2. v \in Uis /\ v.conv = NoConversation /\ v.shown = <<>> /\ v.list = ui[s].list
    BY <1>3 DEF Uis, Ids
  <2> HIDE DEF v
  <2>3. OnlyOf(s) /\ ui'[s] = v /\ turn'[s] = NoTurn /\ gone'[s] = g
    BY <1>1, <1>3, <2>1, <2>2, BlankFacts, OneSurface, ZenonT(30)
  <2> QED
    BY <1>1, <1>2, <1>3, <1>4, <2>2, <2>3, BlankFacts DEF Switches, Shows, Receiving, g, l
<1>8. CASE ui[s].conv # c /\ WidgetDelete(s, c)
  <2> DEFINE v == [ui[s] EXCEPT !.list = l]
  <2>1. ui' = [ui EXCEPT ![s] = v] /\ turn' = turn /\ Widget(s)
    BY <1>8, <1>3 DEF WidgetDelete, WidgetRow, ClientTypes, Uis, l
  <2>2. v \in Uis /\ v.conv = ui[s].conv /\ v.shown = ui[s].shown /\ v.list = l
    BY <1>3 DEF Uis
  <2> HIDE DEF v
  <2>3. OnlyOf(s) /\ ui'[s] = v /\ turn'[s] = turn[s] /\ gone'[s] = g
    BY <1>1, <1>3, <2>1, <2>2, TypeFacts, OneSurface, ZenonT(30)
  <2> QED
    BY <1>1, <1>2, <1>3, <1>4, <2>1, <2>2, <2>3 DEF Switches, Shows, Widget, g, l
<1> QED
  BY <1>5, <1>6, <1>7, <1>8

\* Every action of the history switches the surface.
LEMMA HistorySwitches ==
    ASSUME BaseInv, NEW s \in Surfaces, History(s)
    PROVE  Switches(s)
BY HistoryMoves, NewSwitches, SelectSwitches, DeleteSwitches DEF History

\* What a surface stores under the id of its turn.
LEMMA PersistKeeps ==
    ASSUME ClientTypes, NEW s \in Surfaces, NEW shown \in Threads,
           PanelPersist(turn[s].conv, shown) \/ WidgetPersist(turn[s].conv, shown)
    PROVE  (turn[s].conv = NoConversation /\ store' = store) \/ Keeps(s, shown)
<1>1. CASE turn[s].conv = NoConversation
  BY <1>1 DEF PanelPersist, WidgetPersist
<1>2. CASE turn[s].conv # NoConversation /\ PanelPersist(turn[s].conv, shown)
  <2>1. store' = Upsert(turn[s].conv, PanelStored(shown))
    BY <1>2 DEF PanelPersist
  <2> QED
    BY <1>2, <2>1, PanelStoredFacts DEF Keeps
<1>3. CASE turn[s].conv # NoConversation /\ WidgetPersist(turn[s].conv, shown)
  <2>1. store' = Upsert(turn[s].conv, shown)
    BY <1>3 DEF WidgetPersist
  <2>2. SameTurns(shown, shown)
    BY DEF SameTurns
  <2> QED
    BY <1>3, <2>1, <2>2 DEF Keeps
<1> QED
  BY <1>1, <1>2, <1>3

\* Summaries: the conversations that the store has after the write.
LEMMA SummariesKnown ==
    ASSUME BaseInv, NEW s \in Surfaces
    PROVE  Summaries(turn[s].conv) \in SUBSET Conversations /\ Summaries(turn[s].conv) \subseteq known
BY TypeFacts DEF BaseInv, ClientTypes, KnownOnly, Summaries

\* Entries of the pending turn change, and no other.
Changed(s, shown) ==
    /\ shown \in Threads /\ SameTurns(shown, ui[s].shown)
    /\ \A i \in DOMAIN ui[s].shown :
          \/ shown[i] = ui[s].shown[i]
          \/ ui[s].shown[i].turn = turn[s].no /\ turn[s].phase \in {"sent", "named"}

\* The end of a reply answers its turn, with the thread that is then shown.
LEMMA SettleAnswers ==
    ASSUME BaseInv, NEW s \in Surfaces, NEW shown, Changed(s, shown), Receiving(s),
           (Panel(s) /\ PanelSettle(s, shown)) \/ (Widget(s) /\ WidgetSettle(s, shown))
    PROVE  Answers(s)
<1> USE DEF BaseInv
<1>1. UNCHANGED <<kind, known, sentTo, gone>> /\ turn' = [turn EXCEPT ![s] = NoTurn] /\ kind[s] # "unused"
  BY DEF PanelSettle, WidgetSettle, Panel, Widget
<1>2. ui[s] \in Uis /\ turn[s].conv \in Ids /\ ui[s].list \subseteq known /\ shown \in Threads
      /\ gone[s] \in SUBSET Conversations
  BY TypeFacts DEF KnownOnly, TurnRecords, Changed, ClientTypes
<1>3. CASE Panel(s) /\ PanelSettle(s, shown)
  <2> DEFINE l == Summaries(turn[s].conv)
             v == [ui[s] EXCEPT !.shown = shown, !.list = l]
  <2>1. ui' = [ui EXCEPT ![s] = v]
    BY <1>2, <1>3 DEF PanelSettle, ClientTypes, Uis
  <2>2. l \in SUBSET Conversations /\ l \subseteq known
    BY SummariesKnown
  <2> HIDE DEF l
  <2>3. v \in Uis /\ v.shown = shown /\ v.list = l /\ v.conv = ui[s].conv /\ v.ready = ui[s].ready
    BY <1>2, <2>2 DEF Uis
  <2> HIDE DEF v
  <2>4. OnlyOf(s) /\ ui'[s] = v /\ turn'[s] = NoTurn
    BY <1>1, <1>2, <2>1, <2>3, BlankFacts, OneSurface, ZenonT(30)
  <2>5. store' = store \/ Keeps(s, shown)
    BY <1>2, <1>3, PersistKeeps DEF PanelSettle
  <2> QED
    BY <1>1, <1>3, <2>2, <2>3, <2>4, <2>5, BlankFacts DEF Answers, Changed, Panel
<1>4. CASE Widget(s) /\ WidgetSettle(s, shown)
  <2> DEFINE c == IF turn[s].conv = NoConversation THEN ui[s].conv ELSE turn[s].conv
             v == [ui[s] EXCEPT !.shown = shown, !.conv = c]
  <2>1. ui' = [ui EXCEPT ![s] = v]
    BY <1>2, <1>4 DEF WidgetSettle, ClientTypes, Uis
  <2>2. c \in Ids
    BY <1>2 DEF Uis
  <2> HIDE DEF c
  <2>3. v \in Uis /\ v.shown = shown /\ v.list = ui[s].list /\ v.conv = c /\ v.ready = ui[s].ready
    BY <1>2, <2>2 DEF Uis
  <2> HIDE DEF v
  <2>4. OnlyOf(s) /\ ui'[s] = v /\ turn'[s] = NoTurn
    BY <1>1, <1>2, <2>1, <2>3, BlankFacts, OneSurface, ZenonT(30)
  <2>5. (turn[s].conv = NoConversation /\ store' = store) \/ Keeps(s, shown)
    BY <1>2, <1>4, PersistKeeps DEF WidgetSettle
  <2>6. Keeps(s, shown) => turn[s].conv # NoConversation
    BY DEF Keeps
  <2> QED
    BY <1>1, <1>2, <1>4, <2>3, <2>4, <2>5, <2>6, BlankFacts DEF Answers, Changed, Widget, c
<1> QED
  BY <1>3, <1>4

\* A reply that failed, or ended, changed entries of its turn only.
LEMMA FailedChanges ==
    ASSUME BaseInv, NEW s \in Surfaces, Receiving(s)
    PROVE  Changed(s, ui[s].shown) /\ Changed(s, Failed(s))
<1> USE DEF BaseInv
<1>1. ui[s].shown \in Threads /\ turn[s] \in TurnRecords
  BY TypeFacts DEF Uis
<1>2. Changed(s, ui[s].shown)
  BY <1>1 DEF Changed, SameTurns
<1>3. CASE \E i \in Bubbles(s) : ui[s].shown[i].reply = "empty"
  <2>1. Failed(s) = WithReply(s, "failed")
    BY <1>3 DEF Failed
  <2>2. turn[s].phase # "answered"
    BY <1>3 DEF AnsweredIsFull, Bubbles
  <2>3. turn[s].phase \in {"sent", "named"}
    BY <1>1, <2>2 DEF TurnRecords, Receiving
  <2>4. "failed" \in Replies
    BY DEF Replies
  <2>5. /\ WithReply(s, "failed") \in Threads /\ SameTurns(WithReply(s, "failed"), ui[s].shown)
        /\ \A i \in DOMAIN ui[s].shown :
              IF ui[s].shown[i].turn = turn[s].no THEN WithReply(s, "failed")[i].reply = "failed"
              ELSE WithReply(s, "failed")[i] = ui[s].shown[i]
    BY <2>4, WithReplyFacts
  <2> QED
    BY <1>2, <2>1, <2>3, <2>5 DEF Changed
<1>4. CASE ~ \E i \in Bubbles(s) : ui[s].shown[i].reply = "empty"
  <2>1. Failed(s) = ui[s].shown
    BY <1>4 DEF Failed
  <2> QED
    BY <1>2, <2>1
<1> QED
  BY <1>3, <1>4

\* A reply goes on: the entries of its turn get the reply so far.
LEMMA ReplyAnswers ==
    ASSUME BaseInv, NEW s \in Surfaces, Token(s) \/ PanelDone(s) \/ WidgetDone(s)
    PROVE  Answers(s)
<1> USE DEF BaseInv
<1> DEFINE reply == IF Token(s) THEN "partial" ELSE "full"
           shown == WithReply(s, reply)
           l == IF PanelDone(s) THEN Summaries(turn[s].conv) ELSE ui[s].list
           v == [ui[s] EXCEPT !.shown = shown, !.list = l]
           t == IF Token(s) THEN turn[s] ELSE [turn[s] EXCEPT !.phase = "answered"]
<1>0. ui[s] \in Uis /\ turn[s] \in TurnRecords /\ turn[s].phase = "named" /\ Receiving(s)
      /\ gone[s] \in SUBSET Conversations
  BY TypeFacts DEF Token, PanelDone, WidgetDone, Receiving, ClientTypes
<1>1. UNCHANGED <<kind, known, sentTo, gone>> /\ kind[s] # "unused"
  BY <1>0 DEF Token, PanelDone, WidgetDone, Awaited, Panel
<1>2. ui' = [ui EXCEPT ![s] = v] /\ turn' = [turn EXCEPT ![s] = t]
  <2>1. CASE Token(s)
    <3>1. ~ PanelDone(s)
      BY <2>1, <1>0 DEF Token, PanelDone, ClientTypes, TurnRecords
    <3> QED
      BY <2>1, <3>1, <1>0 DEF Token, ClientTypes, Uis
  <2>2. CASE PanelDone(s) /\ ~ Token(s)
    BY <2>2, <1>0 DEF PanelDone, ClientTypes, Uis
  <2>3. CASE WidgetDone(s) /\ ~ PanelDone(s) /\ ~ Token(s)
    BY <2>3, <1>0 DEF WidgetDone, ClientTypes, Uis
  <2> QED
    BY <2>1, <2>2, <2>3
<1>3. reply \in Replies
  BY DEF Replies
<1> HIDE DEF reply
<1>4. /\ shown \in Threads /\ SameTurns(shown, ui[s].shown)
      /\ \A i \in DOMAIN ui[s].shown : IF ui[s].shown[i].turn = turn[s].no THEN shown[i].reply = reply
                                       ELSE shown[i] = ui[s].shown[i]
  BY <1>3, WithReplyFacts
<1>5. l \in SUBSET Conversations /\ l \subseteq known
  BY <1>0, SummariesKnown DEF KnownOnly, Uis
<1>6. t \in TurnRecords
  BY <1>0 DEF TurnRecords
<1>7. store' = store \/ (kind[s] = "panel" /\ ~ Token(s) /\ Keeps(s, shown))
  <2>1. CASE Token(s) \/ WidgetDone(s)
    BY <2>1 DEF Token, WidgetDone
  <2>2. CASE PanelDone(s) /\ ~ Token(s)
    <3>1. PanelPersist(turn[s].conv, shown) /\ kind[s] = "panel"
      BY <2>2 DEF PanelDone, Panel, reply
    <3> QED
      BY <2>2, <3>1, <1>4, PersistKeeps
  <2> QED
    BY <2>1, <2>2
<1> HIDE DEF shown, l
<1>8. v \in Uis /\ v.shown = shown /\ v.list = l /\ v.conv = ui[s].conv /\ v.ready = ui[s].ready
  BY <1>0, <1>4, <1>5 DEF Uis
<1> HIDE DEF v, t
<1>9. OnlyOf(s) /\ ui'[s] = v /\ turn'[s] = t
  BY <1>0, <1>1, <1>2, <1>6, <1>8, OneSurface, ZenonT(30)
<1>10. kind[s] = "widget" => l = ui[s].list
  BY DEF l, PanelDone, Panel
<1>11. t # NoTurn
  BY <1>0, BlankFacts DEF t, TurnRecords
<1>12. \/ t = turn[s] /\ turn[s].phase = "named"
       \/ /\ t = [turn[s] EXCEPT !.phase = "answered"] /\ reply = "full"
  BY <1>0 DEF t, reply
<1>13. Token(s) \/ t.phase # "named"
  BY <1>0 DEF t, TurnRecords
<1>14. DOMAIN shown = DOMAIN ui[s].shown /\ \A i \in DOMAIN shown : shown[i].turn = ui[s].shown[i].turn
  BY <1>4 DEF SameTurns
<1> QED
  BY <1>0, <1>1, <1>4, <1>5, <1>7, <1>8, <1>9, <1>12, <1>13, <1>14, <1>10, <1>11 DEF Answers

-----------------------------------------------------------------------------
(* Every shape keeps the invariant.                                          *)

\* A switch keeps the invariant: what it shows was shown or stored before.
LEMMA SwitchesKeepBase ==
    ASSUME BaseInv, NEW s \in Surfaces, Switches(s)
    PROVE  BaseInv'
<1> USE DEF BaseInv
<1>0. /\ kind' = kind /\ known' = known /\ sentTo' = sentTo
      /\ \A u \in Surfaces \ {s} : ui'[u] = ui[u] /\ turn'[u] = turn[u] /\ gone'[u] = gone[u]
      /\ DOMAIN store'.threads \subseteq DOMAIN store.threads
      /\ \A c \in DOMAIN store'.threads : store'.threads[c] = store.threads[c]
  BY DEF Switches, OnlyOf, Forgets
<1>1. ClientTypes'
  BY DEF ClientTypes, Switches, OnlyOf, Forgets
<1>2. turn'[s] = turn[s] \/ (turn'[s].phase = "none" /\ turn'[s].conv = NoConversation)
  BY BlankFacts DEF Switches
<1>3. \/ ui'[s].shown = <<>> /\ ui'[s].conv = NoConversation
      \/ ui'[s].shown = ui[s].shown /\ ui'[s].conv = ui[s].conv
      \/ \E c \in DOMAIN store.threads : /\ ui'[s].shown = store.threads[c] /\ ui'[s].conv = c
                                         /\ kind[s] = "widget" \/ ~ Receiving(s)'
  BY DEF Switches, Shows
<1>4. KnownOnly'
  <2>1. ui'[s].conv \in known \cup {NoConversation}
    BY <1>3 DEF KnownOnly
  <2>2. ui'[s].list \subseteq known /\ gone'[s] \subseteq known
    BY DEF Switches
  <2> QED
    BY <1>0, <1>2, <2>1, <2>2 DEF KnownOnly
<1>5. AllNumbered'
  <2>1. \A shown : Numbered(shown)' <=> Numbered(shown)
    BY <1>0 DEF Numbered
  <2>2. Numbered(ui'[s].shown)
    BY <1>3 DEF AllNumbered, Numbered
  <2>3. \A c \in DOMAIN store'.threads : Numbered(store'.threads[c])
    BY <1>0 DEF AllNumbered
  <2>4. \A u \in Surfaces : Numbered(ui'[u].shown)
    BY <1>0, <2>2 DEF AllNumbered
  <2>5. \A u \in Surfaces : turn'[u].phase # "none" => turn'[u].no \in DOMAIN sentTo
    BY <1>0, <1>2 DEF AllNumbered, Receiving
  <2> QED
    BY <1>0, <2>1, <2>3, <2>4, <2>5 DEF AllNumbered, Receiving, Numbered
<1>6. Awaited'
  <2>1. ASSUME NEW u \in Surfaces \ {s}, Receiving(u)'
        PROVE  kind[u] = "widget" \/ (Panel(u) /\ (ui[u].conv = turn[u].conv
                                                   \/ (ui[u].conv = NoConversation /\ ui[u].shown = <<>>)))
    BY <1>0, <2>1 DEF Awaited, Receiving
  <2>2. ASSUME Receiving(s)', kind[s] # "widget"
        PROVE  /\ kind[s] = "panel" /\ ui'[s].ready
               /\ ui'[s].conv = turn'[s].conv \/ (ui'[s].conv = NoConversation /\ ui'[s].shown = <<>>)
    <3>1. kind[s] = "panel"
      BY <2>2 DEF Switches, ClientTypes
    <3>2. turn'[s] = turn[s] /\ Receiving(s)
      BY <1>2, <2>2 DEF Receiving
    <3>3. /\ ui[s].ready
          /\ ui[s].conv = turn[s].conv \/ (ui[s].conv = NoConversation /\ ui[s].shown = <<>>)
      BY <2>2, <3>2 DEF Awaited, Panel
    <3>4. /\ ui'[s].ready = ui[s].ready
          /\ \/ ui'[s].conv = ui[s].conv /\ ui'[s].shown = ui[s].shown
             \/ ui'[s].conv = NoConversation /\ ui'[s].shown = <<>>
      BY <2>2, <3>1 DEF Switches, Shows
    <3> QED
      BY <3>1, <3>2, <3>3, <3>4
  <2> QED
    BY <1>0, <2>1, <2>2 DEF Awaited, Receiving, Panel
<1>7. PendingIsPrivate'
  <2>1. ASSUME NEW u \in Surfaces, Pending(u)' PROVE Pending(u) /\ turn'[u] = turn[u]
    BY <1>0, <1>2, <2>1 DEF Pending, Receiving
  <2>2. ASSUME NEW u \in Surfaces, Pending(u), NEW c \in DOMAIN store'.threads
        PROVE  ~ Holds(store'.threads[c], turn[u].no)
    BY <1>0, <2>2 DEF PendingIsPrivate
  <2>3. ASSUME NEW u \in Surfaces, Pending(u), NEW o \in Surfaces \ {u}
        PROVE  ~ Holds(ui'[o].shown, turn[u].no)
    <3>1. ~ Holds(ui[o].shown, turn[u].no) /\ \A c \in DOMAIN store.threads : ~ Holds(store.threads[c], turn[u].no)
      BY <2>3 DEF PendingIsPrivate
    <3>2. CASE o = s
      BY <1>3, <3>1, <3>2 DEF Holds
    <3>3. CASE o # s
      BY <1>0, <3>1, <3>3
    <3> QED
      BY <3>2, <3>3
  <2> QED
    BY <2>1, <2>2, <2>3 DEF PendingIsPrivate
<1>8. AnsweredIsFull'
  <2>1. ASSUME turn'[s].phase = "answered", NEW i \in DOMAIN ui'[s].shown,
               ui'[s].shown[i].turn = turn'[s].no
        PROVE  ui'[s].shown[i].reply = "full"
    <3>1. turn'[s] = turn[s] /\ Receiving(s)'
      BY <1>2, <2>1 DEF Receiving
    <3>2. CASE ui'[s].shown = ui[s].shown
      BY <2>1, <3>1, <3>2 DEF AnsweredIsFull
    <3>3. CASE ui'[s].shown = <<>>
      BY <2>1, <3>3
    <3>4. ASSUME NEW c \in DOMAIN store.threads, ui'[s].shown = store.threads[c], kind[s] = "widget" PROVE FALSE
      <4>1. Pending(s)
        BY <2>1, <3>1, <3>4 DEF Pending, Receiving
      <4>2. ~ Holds(store.threads[c], turn[s].no)
        BY <4>1 DEF PendingIsPrivate
      <4> QED
        BY <2>1, <3>1, <3>4, <4>2 DEF Holds
    <3> QED
      BY <1>3, <3>1, <3>2, <3>3, <3>4
  <2> QED
    BY <1>0, <2>1 DEF AnsweredIsFull
<1> QED
  BY <1>1, <1>4, <1>5, <1>6, <1>7, <1>8

\* What Keeps leaves in the store.
LEMMA KeepsFacts ==
    ASSUME ClientTypes, NEW s \in Surfaces, NEW shown, Keeps(s, shown)
    PROVE  LET c == turn[s].conv IN
           /\ c \in Conversations /\ store' \in Stores /\ store'.active = c
           /\ DOMAIN store'.threads = DOMAIN store.threads \cup {c}
           /\ SameTurns(store'.threads[c], shown)
           /\ \A i \in DOMAIN shown : shown[i].reply = "full" \/ store'.threads[c][i].reply = "full"
                 => store'.threads[c][i] = shown[i]
           /\ \A d \in DOMAIN store.threads \ {c} : store'.threads[d] = store.threads[d]
<1>1. PICK stored \in Threads :
        /\ turn[s].conv # NoConversation
        /\ SameTurns(stored, shown)
        /\ \A i \in DOMAIN shown :
              shown[i].reply = "full" \/ stored[i].reply = "full" => stored[i] = shown[i]
        /\ store' = Upsert(turn[s].conv, stored)
  BY DEF Keeps
<1>2. turn[s].conv \in Conversations
  BY <1>1, TypeFacts DEF TurnRecords, Ids
<1> QED
  BY <1>1, <1>2, UpsertStore

\* Threads of the same turns hold the same turns.
LEMMA SameTurnsFacts ==
    ASSUME NEW a, NEW b, SameTurns(a, b)
    PROVE  /\ Numbered(a) <=> Numbered(b)
           /\ \A no : Holds(a, no) <=> Holds(b, no)
           /\ SameTurns(b, a)
BY DEF SameTurns, Numbered, Holds

\* A thread with the turns of the empty one is empty.
LEMMA EmptyFacts ==
    ASSUME NEW shown \in Threads, SameTurns(shown, <<>>)
    PROVE  shown = <<>>
<1>1. DOMAIN shown = 1 .. Len(shown) /\ Len(shown) \in Nat
  BY ThreadFacts
<1>2. DOMAIN shown = {}
  BY DEF SameTurns
<1>3. Len(shown) = 0
  BY <1>1, <1>2
<1> QED
  BY <1>3, EmptySeq DEF Threads

\* An event of a reply keeps the invariant: it touches its own turn, which is nowhere else.
LEMMA AnswersKeepBase ==
    ASSUME BaseInv, NEW s \in Surfaces, Answers(s)
    PROVE  BaseInv'
<1> USE DEF BaseInv
<1>0. /\ kind' = kind /\ known' = known /\ sentTo' = sentTo /\ gone' = gone
      /\ \A u \in Surfaces \ {s} : ui'[u] = ui[u] /\ turn'[u] = turn[u] /\ gone'[u] = gone[u]
      /\ kind[s] # "unused" /\ Receiving(s)
      /\ ui'[s].list \subseteq known /\ ui'[s].ready = ui[s].ready
      /\ SameTurns(ui'[s].shown, ui[s].shown)
  BY DEF Answers, OnlyOf
<1>1. /\ ui[s] \in Uis /\ turn[s] \in TurnRecords /\ ui'[s] \in Uis /\ turn'[s] \in TurnRecords
      /\ kind[s] \in {"panel", "widget"}
  BY <1>0, TypeFacts DEF Answers, OnlyOf, ClientTypes
\* The turn goes on, or it is over.
<1>2. \/ turn'[s].phase = "none" /\ turn'[s].conv = NoConversation
      \/ turn'[s] = turn[s] /\ turn[s].phase = "named"
      \/ /\ turn'[s].phase = "answered" /\ turn'[s].no = turn[s].no /\ turn'[s].conv = turn[s].conv
         /\ \A i \in DOMAIN ui'[s].shown :
                ui'[s].shown[i].turn = turn[s].no => ui'[s].shown[i].reply = "full"
  <2>1. CASE turn'[s] = NoTurn
    BY <2>1, BlankFacts
  <2>2. CASE turn'[s] = turn[s] /\ turn[s].phase = "named"
    BY <2>2
  <2>3. CASE /\ turn'[s] = [turn[s] EXCEPT !.phase = "answered"]
             /\ \A i \in DOMAIN ui'[s].shown :
                   ui'[s].shown[i].turn = turn[s].no => ui'[s].shown[i].reply = "full"
    BY <2>3, <1>1 DEF TurnRecords
  <2> QED
    BY <2>1, <2>2, <2>3 DEF Answers
\* The store is as it was, or has the thread that is shown.
<1>3. \/ store' = store /\ ui'[s].conv = ui[s].conv
      \/ /\ kind[s] = "panel" /\ ui'[s].conv = ui[s].conv
         /\ turn'[s].phase # "named" /\ Keeps(s, ui'[s].shown)
      \/ /\ kind[s] = "widget" /\ ui'[s].conv = turn[s].conv
         /\ turn'[s].phase = "none" /\ Keeps(s, ui'[s].shown)
  BY BlankFacts DEF Answers
<1>4. ASSUME store' # store
      PROVE  /\ turn[s].conv \in known /\ store' \in Stores
             /\ DOMAIN store'.threads = DOMAIN store.threads \cup {turn[s].conv}
             /\ SameTurns(store'.threads[turn[s].conv], ui'[s].shown)
             /\ \A d \in DOMAIN store.threads \ {turn[s].conv} : store'.threads[d] = store.threads[d]
  <2>1. Keeps(s, ui'[s].shown)
    BY <1>3, <1>4
  <2>2. turn[s].conv \in Conversations
    BY <2>1, KeepsFacts
  <2>3. turn[s].conv \in known
    BY <2>2, NullAssumption DEF KnownOnly
  <2> QED
    BY <2>1, <2>3, KeepsFacts
<1>5. store' \in Stores
  BY <1>4 DEF ClientTypes
\* Every thread is one that was stored, or has the entries that are shown.
<1>6. ASSUME NEW c \in DOMAIN store'.threads
      PROVE  \/ c \in DOMAIN store.threads /\ store'.threads[c] = store.threads[c]
             \/ store' # store /\ SameTurns(store'.threads[c], ui'[s].shown)
  BY <1>4
<1>7. ClientTypes'
  BY <1>5 DEF ClientTypes, Answers, OnlyOf
<1>8. KnownOnly'
  <2>1. DOMAIN store'.threads \subseteq known
    <3>1. CASE store' = store
      BY <3>1 DEF KnownOnly
    <3>2. CASE store' # store
      BY <3>2, <1>4 DEF KnownOnly
    <3> QED
      BY <3>1, <3>2
  <2>2. ui'[s].conv \in known \cup {NoConversation} /\ turn'[s].conv \in known \cup {NoConversation}
    <3>1. ui[s].conv \in known \cup {NoConversation} /\ turn[s].conv \in known \cup {NoConversation}
      BY DEF KnownOnly
    <3>2. ui'[s].conv \in {ui[s].conv, turn[s].conv}
      BY <1>3
    <3>3. turn'[s].conv \in {turn[s].conv, NoConversation}
      BY <1>2
    <3> QED
      BY <3>1, <3>2, <3>3
  <2> QED
    BY <1>0, <2>1, <2>2 DEF KnownOnly
<1>9. AllNumbered'
  <2>1. \A shown : Numbered(shown)' <=> Numbered(shown)
    BY <1>0 DEF Numbered
  <2>2. Numbered(ui'[s].shown)
    BY <1>0, SameTurnsFacts DEF AllNumbered
  <2>3. \A c \in DOMAIN store'.threads : Numbered(store'.threads[c])
    BY <1>6, <2>2, SameTurnsFacts DEF AllNumbered
  <2>4. \A u \in Surfaces : Numbered(ui'[u].shown)
    BY <1>0, <2>2 DEF AllNumbered
  <2>5. \A u \in Surfaces : turn'[u].phase # "none" => turn'[u].no \in DOMAIN sentTo
    BY <1>0, <1>2 DEF AllNumbered, Receiving
  <2> QED
    BY <1>0, <2>1, <2>3, <2>4, <2>5 DEF AllNumbered, Receiving, Numbered
<1>10. Awaited'
  <2>1. ASSUME NEW u \in Surfaces \ {s}, Receiving(u)'
        PROVE  kind[u] = "widget" \/ (Panel(u) /\ (ui[u].conv = turn[u].conv
                                                   \/ (ui[u].conv = NoConversation /\ ui[u].shown = <<>>)))
    BY <1>0, <2>1 DEF Awaited, Receiving
  <2>2. ASSUME Receiving(s)', kind[s] # "widget"
        PROVE  /\ kind[s] = "panel" /\ ui'[s].ready
               /\ ui'[s].conv = turn'[s].conv \/ (ui'[s].conv = NoConversation /\ ui'[s].shown = <<>>)
    <3>1. turn'[s].conv = turn[s].conv
      BY <1>2, <2>2 DEF Receiving
    <3>2. ui'[s].conv = ui[s].conv
      BY <1>3, <2>2
    <3>3. /\ ui[s].ready /\ kind[s] = "panel"
          /\ ui[s].conv = turn[s].conv \/ (ui[s].conv = NoConversation /\ ui[s].shown = <<>>)
      BY <1>0, <2>2 DEF Awaited, Panel
    <3>4. ui'[s].shown \in Threads
      BY <1>1 DEF Uis
    <3>5. ui[s].shown = <<>> => ui'[s].shown = <<>>
      BY <1>0, <3>4, EmptyFacts
    <3> QED
      BY <1>0, <3>1, <3>2, <3>3, <3>5
  <2> QED
    BY <1>0, <2>1, <2>2 DEF Awaited, Receiving, Panel
<1>11. PendingIsPrivate'
  <2>1. ASSUME NEW u \in Surfaces, Pending(u)'
        PROVE  Pending(u) /\ turn'[u].no = turn[u].no /\ (u = s => store' = store)
    <3>1. CASE u # s
      BY <1>0, <2>1, <3>1 DEF Pending, Receiving
    <3>2. CASE u = s
      BY <1>0, <1>2, <1>3, <2>1, <3>2 DEF Pending, Receiving
    <3> QED
      BY <3>1, <3>2
  <2>2. ASSUME NEW u \in Surfaces, NEW o \in Surfaces \ {u}, Pending(u)
        PROVE  ~ Holds(ui'[o].shown, turn[u].no)
    <3>1. ~ Holds(ui[o].shown, turn[u].no)
      BY <2>2 DEF PendingIsPrivate
    <3>2. CASE o = s
      BY <1>0, <3>1, <3>2, SameTurnsFacts
    <3>3. CASE o # s
      BY <1>0, <3>1, <3>3
    <3> QED
      BY <3>2, <3>3
  <2>3. ASSUME NEW u \in Surfaces, Pending(u)', NEW c \in DOMAIN store'.threads
        PROVE  ~ Holds(store'.threads[c], turn[u].no)
    <3>1. CASE c \in DOMAIN store.threads /\ store'.threads[c] = store.threads[c]
      BY <2>1, <2>3, <3>1 DEF PendingIsPrivate
    <3>2. CASE store' # store /\ SameTurns(store'.threads[c], ui'[s].shown)
      <4>1. u # s /\ Pending(u)
        BY <2>1, <2>3, <3>2
      <4>2. ~ Holds(ui'[s].shown, turn[u].no)
        BY <2>2, <4>1
      <4> QED
        BY <3>2, <4>2, SameTurnsFacts
    <3> QED
      BY <1>6, <2>3, <3>1, <3>2
  <2> QED
    BY <2>1, <2>2, <2>3 DEF PendingIsPrivate
<1>12. AnsweredIsFull'
  <2>1. ASSUME turn'[s].phase = "answered"
        PROVE  \A i \in DOMAIN ui'[s].shown :
                  ui'[s].shown[i].turn = turn'[s].no => ui'[s].shown[i].reply = "full"
    BY <1>2, <2>1
  <2> QED
    BY <1>0, <2>1 DEF AnsweredIsFull
<1> QED
  BY <1>7, <1>8, <1>9, <1>10, <1>11, <1>12

\* What a surface that sends a message leaves: a number no entry has, and an empty bubble.
LEMMA SendFacts ==
    ASSUME BaseInv, NEW s \in Surfaces, PanelSend(s) \/ WidgetSend(s)
    PROVE  LET no == Len(sentTo) + 1 IN
           /\ UNCHANGED <<kind, store, known, gone>> /\ OnlyOf(s) /\ ~ Receiving(s)
           /\ no \in Nat \ {0} /\ no \notin DOMAIN sentTo
           /\ sentTo' \in Seq(Ids) /\ DOMAIN sentTo' = DOMAIN sentTo \cup {no} /\ sentTo'[no] = ui[s].conv
           /\ \A i \in DOMAIN sentTo : sentTo'[i] = sentTo[i]
           /\ ui'[s].conv = ui[s].conv /\ ui'[s].list = ui[s].list /\ ui'[s].ready = ui[s].ready
           /\ turn'[s] = [phase |-> "sent", no |-> no, conv |-> ui[s].conv]
           /\ Len(ui'[s].shown) = Len(ui[s].shown) + 1
           /\ DOMAIN ui'[s].shown = DOMAIN ui[s].shown \cup {Len(ui[s].shown) + 1}
           /\ ui'[s].shown[Len(ui[s].shown) + 1] = [turn |-> no, reply |-> "empty"]
           /\ \A i \in DOMAIN ui[s].shown : ui'[s].shown[i] = ui[s].shown[i]
<1> USE DEF BaseInv
<1> DEFINE no == Len(sentTo) + 1
           entry == [turn |-> no, reply |-> "empty"]
           v == [ui[s] EXCEPT !.shown = Append(ui[s].shown, entry)]
           t == [phase |-> "sent", no |-> no, conv |-> ui[s].conv]
<1>1. Send(s) /\ ~ Receiving(s) /\ UNCHANGED <<kind, store, known, gone>>
  BY DEF PanelSend, WidgetSend, PanelComposer, WidgetComposer, Send
<1>2. /\ ui[s] \in Uis /\ ui[s].shown \in Threads /\ ui[s].conv \in Ids /\ sentTo \in Seq(Ids)
      /\ gone[s] \in SUBSET Conversations
  BY TypeFacts DEF ClientTypes, Uis
<1>3. no \in Nat \ {0} /\ no \notin DOMAIN sentTo
  BY <1>2
<1>4. sentTo' = Append(sentTo, ui[s].conv)
  BY <1>1 DEF Send
<1>5. /\ sentTo' \in Seq(Ids) /\ DOMAIN sentTo' = DOMAIN sentTo \cup {no} /\ sentTo'[no] = ui[s].conv
      /\ \A i \in DOMAIN sentTo : sentTo'[i] = sentTo[i]
  BY <1>2, <1>4
<1>6. entry \in Entries
  BY <1>3 DEF Entries, Replies
<1>7. ui' = [ui EXCEPT ![s] = v] /\ turn' = [turn EXCEPT ![s] = t]
  BY <1>1, <1>2 DEF Send, ClientTypes, Uis
<1> HIDE DEF no
<1>8. /\ Append(ui[s].shown, entry) \in Threads
      /\ Len(Append(ui[s].shown, entry)) = Len(ui[s].shown) + 1
      /\ DOMAIN Append(ui[s].shown, entry) = DOMAIN ui[s].shown \cup {Len(ui[s].shown) + 1}
      /\ Append(ui[s].shown, entry)[Len(ui[s].shown) + 1] = entry
      /\ \A i \in DOMAIN ui[s].shown : Append(ui[s].shown, entry)[i] = ui[s].shown[i]
  <2> HIDE DEF entry
  <2> QED
    BY <1>2, <1>6 DEF Threads
<1>9. /\ v \in Uis /\ v.conv = ui[s].conv /\ v.list = ui[s].list /\ v.ready = ui[s].ready
      /\ v.shown = Append(ui[s].shown, entry)
  <2> HIDE DEF entry
  <2> QED
    BY <1>2, <1>8 DEF Uis
<1>10. t \in TurnRecords
  BY <1>2, <1>3 DEF TurnRecords
<1>12. t = [phase |-> "sent", no |-> no, conv |-> ui[s].conv]
  OBVIOUS
<1>13. entry = [turn |-> no, reply |-> "empty"]
  OBVIOUS
<1> HIDE DEF v, t, entry
<1>14. OnlyOf(s) /\ ui'[s] = v /\ turn'[s] = t
  BY <1>1, <1>2, <1>7, <1>9, <1>10, OneSurface, ZenonT(30)
<1> QED
  BY <1>1, <1>3, <1>5, <1>8, <1>9, <1>12, <1>13, <1>14 DEF no

\* A message that is sent keeps the invariant: its turn is new.
LEMMA SendKeepsBase ==
    ASSUME BaseInv, NEW s \in Surfaces, PanelSend(s) \/ WidgetSend(s)
    PROVE  BaseInv'
<1> USE DEF BaseInv
<1> DEFINE no == Len(sentTo) + 1
<1>0. /\ UNCHANGED <<kind, store, known, gone>> /\ OnlyOf(s) /\ ~ Receiving(s)
      /\ no \notin DOMAIN sentTo /\ sentTo' \in Seq(Ids) /\ DOMAIN sentTo' = DOMAIN sentTo \cup {no}
      /\ ui'[s].conv = ui[s].conv /\ ui'[s].list = ui[s].list /\ ui'[s].ready = ui[s].ready
      /\ turn'[s] = [phase |-> "sent", no |-> no, conv |-> ui[s].conv]
      /\ DOMAIN ui'[s].shown = DOMAIN ui[s].shown \cup {Len(ui[s].shown) + 1}
      /\ ui'[s].shown[Len(ui[s].shown) + 1] = [turn |-> no, reply |-> "empty"]
      /\ \A i \in DOMAIN ui[s].shown : ui'[s].shown[i] = ui[s].shown[i]
  BY SendFacts
<1>a. /\ turn'[s].phase = "sent" /\ turn'[s].no = no /\ turn'[s].conv = ui[s].conv
       /\ ui'[s].shown[Len(ui[s].shown) + 1].turn = no
  BY <1>0
<1>1. \A u \in Surfaces \ {s} : ui'[u] = ui[u] /\ turn'[u] = turn[u]
  BY <1>0 DEF OnlyOf
<1> HIDE DEF no
<1>2. ClientTypes'
  BY <1>0, <1>a DEF ClientTypes, OnlyOf
<1>3. KnownOnly'
  BY <1>0, <1>a, <1>1 DEF KnownOnly
<1>4. \A shown : Numbered(shown) => Numbered(shown)'
  BY <1>0, <1>a DEF Numbered
<1>5. AllNumbered'
  <2>1. Numbered(ui[s].shown)
    BY DEF AllNumbered
  <2>2. \A i \in DOMAIN ui'[s].shown : ui'[s].shown[i].turn \in DOMAIN sentTo'
    BY <1>0, <1>a, <2>1 DEF Numbered
  <2>3. \A u \in Surfaces \ {s} : Numbered(ui[u].shown)'
    BY <1>0, <1>a, <1>1 DEF AllNumbered, Numbered
  <2>4. \A c \in DOMAIN store'.threads : Numbered(store.threads[c])'
    BY <1>0, <1>a DEF AllNumbered, Numbered
  <2>5. \A u \in Surfaces : turn'[u].phase # "none" => turn'[u].no \in DOMAIN sentTo'
    BY <1>0, <1>a, <1>1 DEF AllNumbered, Receiving
  <2> QED
    BY <1>0, <1>a, <2>2, <2>3, <2>4, <2>5 DEF AllNumbered, Receiving, Numbered
<1>6. Awaited'
  <2>1. kind[s] = "widget" \/ Panel(s)
    BY DEF PanelSend, WidgetSend, PanelComposer, WidgetComposer, Widget
  <2> QED
    BY <1>0, <1>a, <1>1, <2>1 DEF Awaited, Receiving, Panel
<1>7. PendingIsPrivate'
  <2>1. ASSUME NEW u \in Surfaces \ {s}, Pending(u)' PROVE Pending(u) /\ turn'[u] = turn[u] /\ turn[u].no \in DOMAIN sentTo
    BY <1>0, <1>a, <1>1, <2>1 DEF Pending, Receiving, AllNumbered
  <2>2. \A c \in DOMAIN store.threads : ~ Holds(store.threads[c], no)
    BY <1>0, <1>a DEF AllNumbered, Numbered, Holds
  <2>3. \A u \in Surfaces : ~ Holds(ui[u].shown, no)
    BY <1>0, <1>a DEF AllNumbered, Numbered, Holds
  <2>4. \A i \in Nat : i \in DOMAIN sentTo /\ ~ Holds(ui[s].shown, i) => ~ Holds(ui'[s].shown, i)
    BY <1>0, <1>a DEF Holds
  <2>5. ASSUME NEW u \in Surfaces \ {s}, Pending(u)'
        PROVE  /\ \A c \in DOMAIN store'.threads : ~ Holds(store'.threads[c], turn'[u].no)
               /\ \A o \in Surfaces \ {u} : ~ Holds(ui'[o].shown, turn'[u].no)
    <3>1. /\ \A c \in DOMAIN store.threads : ~ Holds(store.threads[c], turn[u].no)
          /\ \A o \in Surfaces \ {u} : ~ Holds(ui[o].shown, turn[u].no)
      BY <2>1, <2>5 DEF PendingIsPrivate
    <3>2. turn[u].no \in Nat
      BY TypeFacts DEF TurnRecords
    <3>3. ~ Holds(ui'[s].shown, turn[u].no)
      BY <2>1, <2>4, <2>5, <3>1, <3>2
    <3> QED
      BY <1>0, <1>a, <1>1, <2>1, <2>5, <3>1, <3>3
  <2> QED
    BY <1>0, <1>a, <1>1, <2>2, <2>3, <2>5 DEF PendingIsPrivate
<1>8. AnsweredIsFull'
  BY <1>0, <1>a, <1>1 DEF AnsweredIsFull
<1> QED
  BY <1>2, <1>3, <1>5, <1>6, <1>7, <1>8

\* The server names the conversation of a turn: the one it was given, or a new one.
LEMMA MetaFacts ==
    ASSUME BaseInv, NEW s \in Surfaces, Meta(s)
    PROVE  \E c \in Conversations :
              /\ UNCHANGED <<kind, store, gone>> /\ OnlyOf(s) /\ turn[s].phase = "sent"
              /\ IF turn[s].conv = NoConversation THEN c \notin known ELSE c = turn[s].conv
              /\ known' = known \cup {c} /\ sentTo' = [sentTo EXCEPT ![turn[s].no] = c]
              /\ turn[s].no \in DOMAIN sentTo /\ sentTo' \in Seq(Ids)
              /\ ui'[s].conv = c /\ ui'[s].shown = ui[s].shown /\ ui'[s].list = ui[s].list
              /\ ui'[s].ready = ui[s].ready
              /\ turn'[s] = [turn[s] EXCEPT !.phase = "named", !.conv = c]
              /\ turn'[s].phase = "named" /\ turn'[s].conv = c /\ turn'[s].no = turn[s].no
<1>0. ClientTypes /\ AllNumbered
  BY DEF BaseInv
<1>1. PICK c \in Named(s) :
          /\ known' = known \cup {c}
          /\ sentTo' = [sentTo EXCEPT ![turn[s].no] = c]
          /\ turn' = [turn EXCEPT ![s].phase = "named", ![s].conv = c]
          /\ ui' = [ui EXCEPT ![s].conv = c]
  BY DEF Meta
<1>2. turn[s].phase = "sent" /\ UNCHANGED <<kind, store, gone>>
  BY DEF Meta
<1>3. ui[s] \in Uis /\ turn[s] \in TurnRecords /\ sentTo \in Seq(Ids) /\ gone[s] \in SUBSET Conversations
  BY <1>0, TypeFacts DEF ClientTypes
<1>4. c \in Conversations /\ IF turn[s].conv = NoConversation THEN c \notin known ELSE c = turn[s].conv
  BY <1>1, <1>3 DEF Named, TurnRecords, Ids
<1>5. turn[s].no \in DOMAIN sentTo
  BY <1>0, <1>2 DEF AllNumbered, Receiving
<1>6. sentTo' \in Seq(Ids)
  BY <1>1, <1>3, <1>4, <1>5 DEF Ids
<1> DEFINE v == [ui[s] EXCEPT !.conv = c]
           t == [turn[s] EXCEPT !.phase = "named", !.conv = c]
<1>7. ui' = [ui EXCEPT ![s] = v] /\ turn' = [turn EXCEPT ![s] = t]
  BY <1>0, <1>1, <1>3 DEF ClientTypes, Uis, TurnRecords
<1>8. /\ v \in Uis /\ v.conv = c /\ v.shown = ui[s].shown /\ v.list = ui[s].list
      /\ v.ready = ui[s].ready
  BY <1>3, <1>4 DEF Uis, Ids
<1>9. t \in TurnRecords /\ t.phase = "named" /\ t.conv = c /\ t.no = turn[s].no
  BY <1>3, <1>4 DEF TurnRecords, Ids
<1>10. t = [turn[s] EXCEPT !.phase = "named", !.conv = c]
  OBVIOUS
<1> HIDE DEF v, t
<1>11. OnlyOf(s) /\ ui'[s] = v /\ turn'[s] = t
  <2>1. v \in Uis /\ t \in TurnRecords /\ kind' = kind /\ gone' = gone
    BY <1>2, <1>8, <1>9
  <2> QED
    BY <1>0, <1>3, <1>7, <2>1, OneSurface, ZenonT(30)
<1>12. ui'[s].conv = c /\ ui'[s].shown = ui[s].shown /\ ui'[s].list = ui[s].list /\ ui'[s].ready = ui[s].ready
  BY <1>8, <1>11
<1>13. /\ turn'[s] = [turn[s] EXCEPT !.phase = "named", !.conv = c]
       /\ turn'[s].phase = "named" /\ turn'[s].conv = c /\ turn'[s].no = turn[s].no
  BY <1>9, <1>10, <1>11
<1> QED
  BY <1>1, <1>2, <1>4, <1>5, <1>6, <1>11, <1>12, <1>13

\* The name of a conversation keeps the invariant: the server created it.
LEMMA MetaKeepsBase ==
    ASSUME BaseInv, NEW s \in Surfaces, Meta(s)
    PROVE  BaseInv'
<1> USE DEF BaseInv
<1>1. PICK c \in Conversations :
              /\ UNCHANGED <<kind, store, gone>> /\ OnlyOf(s) /\ turn[s].phase = "sent"
              /\ known' = known \cup {c} /\ sentTo' = [sentTo EXCEPT ![turn[s].no] = c]
              /\ sentTo' \in Seq(Ids)
              /\ ui'[s].conv = c /\ ui'[s].shown = ui[s].shown /\ ui'[s].list = ui[s].list
              /\ ui'[s].ready = ui[s].ready
              /\ turn'[s].phase = "named" /\ turn'[s].conv = c /\ turn'[s].no = turn[s].no
  BY MetaFacts
<1>2. \A u \in Surfaces \ {s} : ui'[u] = ui[u] /\ turn'[u] = turn[u] /\ gone'[u] = gone[u]
  BY <1>1 DEF OnlyOf
<1>3. DOMAIN sentTo' = DOMAIN sentTo
  BY <1>1
<1>4. ClientTypes'
  BY <1>1 DEF ClientTypes, OnlyOf
<1>5. KnownOnly'
  BY <1>1, <1>2 DEF KnownOnly
<1>6. \A u \in Surfaces : ui'[u].shown = ui[u].shown /\ turn'[u].no = turn[u].no
  BY <1>1, <1>2
<1>7. \A u \in Surfaces : Receiving(u)' <=> Receiving(u)
  BY <1>1, <1>2 DEF Receiving
<1>8. AllNumbered'
  BY <1>1, <1>3, <1>6, <1>7 DEF AllNumbered, Numbered
<1>9. Awaited'
  <2>1. kind[s] = "widget" \/ Panel(s)
    BY <1>1 DEF Awaited, Receiving
  <2>2. \A u \in Surfaces \ {s} : Panel(u)' <=> Panel(u)
    BY <1>1, <1>2 DEF Panel
  <2>3. Panel(s)' <=> Panel(s)
    BY <1>1 DEF Panel
  <2> QED
    BY <1>1, <1>2, <1>7, <2>1, <2>2, <2>3 DEF Awaited
<1>10. PendingIsPrivate'
  <2>1. \A u \in Surfaces : Pending(u)' => Pending(u)
    BY <1>1, <1>2, <1>7 DEF Pending, Receiving
  <2> QED
    BY <1>1, <1>6, <2>1 DEF PendingIsPrivate
<1>11. AnsweredIsFull'
  BY <1>1, <1>2 DEF AnsweredIsFull
<1> QED
  BY <1>4, <1>5, <1>8, <1>9, <1>10, <1>11

\* At the start no thread has an entry and no surface shows one.
LEMMA EmptyStart ==
    ASSUME Init
    PROVE  /\ store \in Stores /\ DOMAIN store.threads \subseteq known
           /\ \A c \in DOMAIN store.threads : store.threads[c] = <<>>
           /\ \A s \in Surfaces :
                 /\ ui[s].conv = NoConversation /\ ui[s].shown = <<>> /\ ui[s].list = {} /\ gone[s] = {}
                 /\ turn[s].phase = "none" /\ turn[s].conv = NoConversation
<1>1. store \in Stores /\ DOMAIN store.threads \subseteq known
      /\ \A c \in DOMAIN store.threads : store.threads[c] = <<>>
  <2>1. <<>> \in Threads
    BY DEF Threads
  <2>2. CASE store = EmptyStore
    <3>1. <<>> \in [{} -> Threads] /\ DOMAIN <<>> = {}
      OBVIOUS
    <3>2. <<>> \in ThreadMaps
      BY <3>1, MapFacts
    <3> QED
      BY <2>2, <3>1, <3>2 DEF EmptyStore, Stores, Ids
  <2>3. ASSUME NEW c \in Conversations, store = Migrated(c), known = {c} 
        PROVE  /\ store \in Stores /\ DOMAIN store.threads \subseteq known
               /\ \A d \in DOMAIN store.threads : store.threads[d] = <<>>
    <3> DEFINE f == [d \in {c} |-> <<>>]
    <3>1. store = [active |-> c, threads |-> f]
      BY <2>3 DEF Migrated
    <3>2. f \in [{c} -> Threads] /\ DOMAIN f = {c} /\ \A d \in DOMAIN f : f[d] = <<>>
      BY <2>1
    <3>3. f \in ThreadMaps
      BY <3>2, MapFacts
    <3> HIDE DEF f
    <3>4. store \in Stores
      BY <3>1, <3>3 DEF Stores, Ids
    <3> QED
      BY <2>3, <3>1, <3>2, <3>4
  <2> QED
    BY <2>2, <2>3 DEF Init
<1>3. \A s \in Surfaces :
         /\ ui[s].conv = NoConversation /\ ui[s].shown = <<>> /\ ui[s].list = {} /\ gone[s] = {}
         /\ turn[s].phase = "none" /\ turn[s].conv = NoConversation
  BY BlankFacts DEF Init
<1> QED
  BY <1>1, <1>3

\* The invariant holds at the start.
LEMMA BaseStart ==
    ASSUME Init
    PROVE  BaseInv
<1>1. /\ store \in Stores /\ DOMAIN store.threads \subseteq known
      /\ \A c \in DOMAIN store.threads : store.threads[c] = <<>>
  BY EmptyStart
<1>2. known \in SUBSET Conversations
  BY DEF Init
<1>3. \A s \in Surfaces :
         /\ ui[s].conv = NoConversation /\ ui[s].shown = <<>> /\ ui[s].list = {} /\ gone[s] = {}
         /\ turn[s].phase = "none" /\ turn[s].conv = NoConversation
  BY EmptyStart
<1>4. ClientTypes
  <2>1. ui \in [Surfaces -> Uis] /\ turn \in [Surfaces -> TurnRecords]
    BY BlankFacts DEF Init
  <2>2. gone \in [Surfaces -> SUBSET Conversations] /\ sentTo \in Seq(Ids)
    BY DEF Init
  <2> QED
    BY <1>1, <1>2, <2>1, <2>2 DEF ClientTypes, Init
<1>5. KnownOnly
  BY <1>1, <1>3 DEF KnownOnly
<1>6. AllNumbered /\ Awaited /\ PendingIsPrivate /\ AnsweredIsFull
  BY <1>1, <1>3 DEF AllNumbered, Numbered, Awaited, PendingIsPrivate, Pending, Receiving, AnsweredIsFull
<1> QED
  BY <1>4, <1>5, <1>6 DEF BaseInv

\* A surface sends a message.
Sends(s) == PanelSend(s) \/ WidgetSend(s)

\* Every step has one of the shapes, or sends a message, or names its conversation.
LEMMA StepShapes ==
    ASSUME BaseInv, Next
    PROVE  \E s \in Surfaces : \/ Switches(s) /\ (Mounting(s) \/ History(s))
                          \/ Answers(s) \/ Sends(s) \/ Meta(s)
<1>1. PICK s \in Surfaces : Mounting(s) \/ History(s) \/ Turn(s)
  BY DEF Next
<1>2. CASE Mounting(s) \/ History(s)
  BY <1>2, MountingSwitches, HistorySwitches
<1>3. CASE Sends(s) \/ Meta(s)
  BY <1>3
<1>4. CASE Token(s) \/ PanelDone(s) \/ WidgetDone(s)
  BY <1>4, ReplyAnswers
<1>5. CASE PanelEnd(s) \/ WidgetEnd(s) \/ PanelFail(s) \/ WidgetFail(s)
  <2>1. PICK shown \in {ui[s].shown, Failed(s)} :
           /\ Receiving(s)
           /\ (Panel(s) /\ PanelSettle(s, shown)) \/ (Widget(s) /\ WidgetSettle(s, shown))
    BY <1>5 DEF PanelEnd, WidgetEnd, PanelFail, WidgetFail
  <2>2. Changed(s, shown)
    BY <2>1, FailedChanges
  <2> QED
    BY <2>1, <2>2, SettleAnswers
<1> QED
  BY <1>1, <1>2, <1>3, <1>4, <1>5 DEF Turn, Sends

\* The surface of a step is in use, and the kinds stay.
LEMMA StepSurface ==
    ASSUME BaseInv, Next
    PROVE  /\ kind' = kind
           /\ \E s \in Surfaces : /\ kind[s] # "unused"
                                  /\ \/ Switches(s) /\ (Mounting(s) \/ History(s))
                                     \/ Answers(s) \/ Sends(s) \/ Meta(s)
<1>1. PICK s \in Surfaces : \/ Switches(s) /\ (Mounting(s) \/ History(s))
                            \/ Answers(s) \/ Sends(s) \/ Meta(s)
  BY StepShapes
<1>2. kind' = kind
  BY <1>1, SendFacts, MetaFacts DEF Switches, Answers, OnlyOf, Sends
<1>3. Sends(s) => kind[s] # "unused"
  BY DEF Sends, PanelSend, WidgetSend, PanelComposer, WidgetComposer, Panel, Widget
<1>4. Meta(s) => kind[s] # "unused"
  BY DEF Meta, BaseInv, Awaited, Receiving, Panel
<1> QED
  BY <1>1, <1>2, <1>3, <1>4 DEF Switches, Answers

\* Every step keeps the invariant.
LEMMA BaseStep ==
    ASSUME BaseInv, [Next]_vars
    PROVE  BaseInv'
<1>1. CASE Next
  BY <1>1, StepShapes, SwitchesKeepBase, AnswersKeepBase, SendKeepsBase, MetaKeepsBase DEF Sends
<1>2. CASE UNCHANGED vars
  BY <1>2 DEF vars, BaseInv, ClientTypes, KnownOnly, AllNumbered, Numbered, Awaited, Panel,
              PendingIsPrivate, Pending, Receiving, Holds, AnsweredIsFull
<1> QED
  BY <1>1, <1>2

-----------------------------------------------------------------------------
(* Threads are not mixed.                                                    *)

\* With panels only, what a surface shows is of its conversation too: an event of a reply
\* that arrives after a switch has nothing to write to.
PanelsOnly == \A s \in Surfaces : kind[s] # "widget"
ShownIsUnmixed ==
    \A s \in Surfaces : \A i \in DOMAIN ui[s].shown :
        sentTo[ui[s].shown[i].turn] \in {ui[s].conv, NoConversation}
MixInv == PanelsOnly => Unmixed /\ ShownIsUnmixed

\* Every step keeps threads unmixed: the conversation of a turn is renamed only where the
\* turn is pending, and a thread is stored under it only while it is the one shown.
LEMMA MixStep ==
    ASSUME BaseInv, MixInv, [Next]_vars
    PROVE  MixInv'
<1> SUFFICES ASSUME PanelsOnly' PROVE Unmixed' /\ ShownIsUnmixed'
  BY DEF MixInv
<1>1. CASE UNCHANGED vars
  BY <1>1 DEF vars, MixInv, PanelsOnly, Unmixed, ShownIsUnmixed
<1>2. ASSUME Next PROVE PanelsOnly
  BY <1>2, StepSurface DEF PanelsOnly
<1>3. ASSUME NEW s \in Surfaces, Switches(s), PanelsOnly PROVE Unmixed' /\ ShownIsUnmixed'
  <2>1. /\ sentTo' = sentTo /\ DOMAIN store'.threads \subseteq DOMAIN store.threads
        /\ \A c \in DOMAIN store'.threads : store'.threads[c] = store.threads[c]
        /\ \A u \in Surfaces \ {s} : ui'[u] = ui[u]
        /\ \/ ui'[s].shown = <<>>
           \/ ui'[s].shown = ui[s].shown /\ ui'[s].conv = ui[s].conv
           \/ \E c \in DOMAIN store.threads : ui'[s].shown = store.threads[c] /\ ui'[s].conv = c
    BY <1>3 DEF Switches, OnlyOf, Forgets, Shows
  <2>2. Unmixed /\ ShownIsUnmixed
    BY <1>3 DEF MixInv
  <2>3. \A i \in DOMAIN ui'[s].shown : sentTo[ui'[s].shown[i].turn] \in {ui'[s].conv, NoConversation}
    BY <2>1, <2>2 DEF Unmixed, ShownIsUnmixed
  <2> QED
    BY <2>1, <2>2, <2>3 DEF Unmixed, ShownIsUnmixed
<1>4. ASSUME NEW s \in Surfaces, Answers(s), PanelsOnly PROVE Unmixed' /\ ShownIsUnmixed'
  <2>1. /\ sentTo' = sentTo /\ \A u \in Surfaces \ {s} : ui'[u] = ui[u]
        /\ SameTurns(ui'[s].shown, ui[s].shown)
        /\ kind[s] # "widget" /\ Receiving(s)
        /\ ui'[s].conv = ui[s].conv /\ (store' = store \/ Keeps(s, ui'[s].shown))
    BY <1>4 DEF Answers, OnlyOf, PanelsOnly
  <2>2. Unmixed /\ ShownIsUnmixed
    BY <1>4 DEF MixInv
  <2>3. \A i \in DOMAIN ui'[s].shown : sentTo[ui'[s].shown[i].turn] \in {ui[s].conv, NoConversation}
    BY <2>1, <2>2 DEF ShownIsUnmixed, SameTurns
  <2>4. ui[s].conv = turn[s].conv \/ DOMAIN ui'[s].shown = {}
    BY <2>1 DEF BaseInv, Awaited, SameTurns
  <2>5. ASSUME Keeps(s, ui'[s].shown)
        PROVE  /\ DOMAIN store'.threads = DOMAIN store.threads \cup {turn[s].conv}
               /\ SameTurns(store'.threads[turn[s].conv], ui'[s].shown)
               /\ \A d \in DOMAIN store.threads \ {turn[s].conv} : store'.threads[d] = store.threads[d]
    BY <2>5, KeepsFacts DEF BaseInv
  <2>6. ASSUME Keeps(s, ui'[s].shown), NEW i \in DOMAIN store'.threads[turn[s].conv]
        PROVE  sentTo[store'.threads[turn[s].conv][i].turn] \in {turn[s].conv, NoConversation}
    BY <2>3, <2>4, <2>5, <2>6 DEF SameTurns
  <2>7. Unmixed'
    BY <2>1, <2>2, <2>5, <2>6 DEF Unmixed
  <2>8. ShownIsUnmixed'
    BY <2>1, <2>2, <2>3 DEF ShownIsUnmixed
  <2> QED
    BY <2>7, <2>8
<1>5. ASSUME NEW s \in Surfaces, Sends(s), PanelsOnly PROVE Unmixed' /\ ShownIsUnmixed'
  <2> DEFINE no == Len(sentTo) + 1
  <2>1. /\ store' = store /\ \A u \in Surfaces \ {s} : ui'[u] = ui[u]
        /\ sentTo'[no] = ui[s].conv /\ \A i \in DOMAIN sentTo : sentTo'[i] = sentTo[i]
        /\ ui'[s].conv = ui[s].conv
        /\ DOMAIN ui'[s].shown = DOMAIN ui[s].shown \cup {Len(ui[s].shown) + 1}
        /\ ui'[s].shown[Len(ui[s].shown) + 1] = [turn |-> no, reply |-> "empty"]
        /\ \A i \in DOMAIN ui[s].shown : ui'[s].shown[i] = ui[s].shown[i]
    BY <1>5, SendFacts DEF Sends, OnlyOf
  <2> HIDE DEF no
  <2>2. Unmixed /\ ShownIsUnmixed
    BY <1>5 DEF MixInv
  <2>3. Unmixed'
    BY <2>1, <2>2 DEF Unmixed, BaseInv, AllNumbered, Numbered
  <2>4. \A u \in Surfaces : \A i \in DOMAIN ui[u].shown :
           sentTo'[ui[u].shown[i].turn] \in {ui[u].conv, NoConversation}
    BY <2>1, <2>2 DEF ShownIsUnmixed, BaseInv, AllNumbered, Numbered
  <2>5. ui'[s].shown[Len(ui[s].shown) + 1].turn = no
    BY <2>1
  <2>6. ShownIsUnmixed'
    BY <2>1, <2>4, <2>5 DEF ShownIsUnmixed
  <2> QED
    BY <2>3, <2>6
<1>6. ASSUME NEW s \in Surfaces, Meta(s), PanelsOnly PROVE Unmixed' /\ ShownIsUnmixed'
  <2>1. PICK c \in Conversations :
              /\ UNCHANGED <<kind, store, gone>> /\ OnlyOf(s) /\ turn[s].phase = "sent"
              /\ turn[s].conv \in {c, NoConversation}
              /\ sentTo' = [sentTo EXCEPT ![turn[s].no] = c]
              /\ turn[s].no \in DOMAIN sentTo
              /\ ui'[s].conv = c /\ ui'[s].shown = ui[s].shown
    BY <1>6, MetaFacts
  <2>2. Unmixed /\ ShownIsUnmixed
    BY <1>6 DEF MixInv
  <2>3. sentTo'[turn[s].no] = c /\ \A i \in DOMAIN sentTo : i # turn[s].no => sentTo'[i] = sentTo[i]
    BY <2>1 DEF BaseInv, ClientTypes
  <2>4. Pending(s) /\ Receiving(s)
    BY <2>1 DEF Pending, Receiving
  <2>5. Unmixed'
    <3>1. \A d \in DOMAIN store.threads : ~ Holds(store.threads[d], turn[s].no) /\ Numbered(store.threads[d])
      BY <2>4 DEF BaseInv, PendingIsPrivate, AllNumbered
    <3> QED
      BY <2>1, <2>2, <2>3, <3>1 DEF Unmixed, Holds, Numbered
  <2>6. ASSUME NEW u \in Surfaces \ {s}, NEW i \in DOMAIN ui'[u].shown
        PROVE  sentTo'[ui'[u].shown[i].turn] \in {ui'[u].conv, NoConversation}
    <3>1. ~ Holds(ui[u].shown, turn[s].no) /\ Numbered(ui[u].shown) /\ ui'[u] = ui[u]
      BY <2>1, <2>4 DEF BaseInv, PendingIsPrivate, AllNumbered, OnlyOf
    <3> QED
      BY <2>2, <2>3, <2>6, <3>1 DEF ShownIsUnmixed, Holds, Numbered
  <2>7. ASSUME NEW i \in DOMAIN ui'[s].shown
        PROVE  sentTo'[ui'[s].shown[i].turn] \in {ui'[s].conv, NoConversation}
    <3>1. ui[s].conv = turn[s].conv
      BY <2>1, <2>4, <2>7, <1>6 DEF BaseInv, Awaited, PanelsOnly
    <3>2. Numbered(ui[s].shown)
      BY DEF BaseInv, AllNumbered
    <3>3. sentTo[ui[s].shown[i].turn] \in {ui[s].conv, NoConversation}
      BY <2>1, <2>2, <2>7 DEF ShownIsUnmixed
    <3> QED
      BY <2>1, <2>3, <2>7, <3>1, <3>2, <3>3 DEF Numbered
  <2>8. ShownIsUnmixed'
    BY <2>6, <2>7 DEF ShownIsUnmixed
  <2> QED
    BY <2>5, <2>8
<1> QED
  BY <1>1, <1>2, <1>3, <1>4, <1>5, <1>6, StepShapes

\* With panels only, no stored thread holds a message of another conversation, however
\* many panels there are and in whatever order their steps and the events come.
THEOREM SpecPanelsDoNotMixThreads == Spec => []PanelsDoNotMixThreads
<1>1. Init => BaseInv
  BY BaseStart
<1>2. Init => MixInv
  BY EmptyStart DEF MixInv, Unmixed, ShownIsUnmixed
<1>3. BaseInv /\ [Next]_vars => BaseInv'
  BY BaseStep
<1>4. BaseInv /\ MixInv /\ [Next]_vars => MixInv'
  BY MixStep
<1>5. MixInv => PanelsDoNotMixThreads
  BY DEF MixInv, PanelsOnly, PanelsDoNotMixThreads
<1> QED
  BY <1>1, <1>2, <1>3, <1>4, <1>5, PTL DEF Spec

-----------------------------------------------------------------------------
(* A surface that is alone.                                                  *)

\* The thread a surface shows, and that of its reply, go on from what is stored of them.
ShownGoesOn(s) ==
    /\ Stored(ui[s].conv) => Grows(store.threads[ui[s].conv], ui[s].shown)
    /\ Receiving(s) /\ Stored(turn[s].conv) => Grows(store.threads[turn[s].conv], ui[s].shown)

\* A widget has no thread that it deleted, nor a reply of one; it shows the active thread,
\* or that of its reply; and the thread of its reply is the active one, or is not in its
\* history and so cannot be deleted.
WidgetIsCurrent(s) ==
    /\ gone[s] \cap DOMAIN store.threads = {}
    /\ Receiving(s) => turn[s].conv \notin gone[s]
    /\ \/ ui[s].conv = NoConversation
       \/ ui[s].conv = store.active /\ Stored(store.active)
       \/ Receiving(s) /\ ui[s].conv = turn[s].conv
    /\ Receiving(s) /\ turn[s].conv # NoConversation =>
          IF Stored(turn[s].conv) THEN ui[s].conv = turn[s].conv /\ store.active = turn[s].conv
          ELSE turn[s].conv \notin ui[s].list

LoneInv ==
    Alone => \A s \in Surfaces : kind[s] # "unused" =>
                ShownGoesOn(s) /\ (kind[s] = "widget" => WidgetIsCurrent(s))

\* A surface that is alone is the only one in use.
LEMMA OnlyOne ==
    ASSUME Alone, NEW s \in Surfaces, NEW u \in Surfaces, kind[s] # "unused", kind[u] # "unused"
    PROVE  u = s
<1> DEFINE used == {v \in Surfaces : kind[v] # "unused"}
<1>1. IsFiniteSet(used)
  BY SurfacesAssumption, FS_Subset
<1>2. \E x : used = {x}
  BY <1>1, FS_Singleton DEF Alone
<1> QED
  BY <1>2

\* A thread goes on from itself, and from one with the same turns whose answers it keeps.
LEMMA GrowsFacts ==
    ASSUME NEW a \in Threads
    PROVE  /\ Grows(a, a)
           /\ \A b \in Threads : SameTurns(b, a) /\ (\A i \in DOMAIN a : a[i].reply = "full" => b[i] = a[i])
                 => Grows(a, b)
<1>1. Grows(a, a)
  BY DEF Grows, Threads
<1>2. ASSUME NEW b \in Threads, SameTurns(b, a), \A i \in DOMAIN a : a[i].reply = "full" => b[i] = a[i]
      PROVE  Grows(a, b)
  <2>1. DOMAIN a = 1 .. Len(a) /\ DOMAIN b = 1 .. Len(b) /\ Len(a) \in Nat /\ Len(b) \in Nat
    BY ThreadFacts
  <2>2. Len(b) = Len(a)
    BY <1>2, <2>1 DEF SameTurns
  <2> QED
    BY <1>2, <2>1, <2>2 DEF Grows, SameTurns
<1> QED
  BY <1>1, <1>2

\* Going on is transitive.
LEMMA GrowsOn ==
    ASSUME NEW a \in Threads, NEW b \in Threads, NEW c \in Threads, Grows(a, b), Grows(b, c)
    PROVE  Grows(a, c)
<1>1. /\ DOMAIN a = 1 .. Len(a) /\ DOMAIN b = 1 .. Len(b) /\ DOMAIN c = 1 .. Len(c)
      /\ Len(a) \in Nat /\ Len(b) \in Nat /\ Len(c) \in Nat
  BY ThreadFacts
<1>2. DOMAIN a \subseteq DOMAIN b
  BY <1>1 DEF Grows
<1> QED
  BY <1>1, <1>2 DEF Grows

\* What an event of a reply leaves shown goes on from a stored thread if what was shown
\* did, since a turn that is not stored has no entry there.
LEMMA AnswerGoesOn ==
    ASSUME BaseInv, NEW s \in Surfaces, Answers(s), NEW c \in DOMAIN store.threads,
           Grows(store.threads[c], ui[s].shown)
    PROVE  Grows(store.threads[c], ui'[s].shown)
<1> DEFINE old == store.threads[c]
<1>1. old \in Threads /\ ui[s].shown \in Threads /\ ui'[s].shown \in Threads
  BY TypeFacts DEF BaseInv, Uis, Answers, OnlyOf
<1>2. SameTurns(ui'[s].shown, ui[s].shown)
  BY DEF Answers
<1>3. /\ DOMAIN old = 1 .. Len(old) /\ DOMAIN ui[s].shown = 1 .. Len(ui[s].shown)
      /\ DOMAIN ui'[s].shown = 1 .. Len(ui'[s].shown)
      /\ Len(old) \in Nat /\ Len(ui[s].shown) \in Nat /\ Len(ui'[s].shown) \in Nat
  BY <1>1, ThreadFacts
<1>4. Len(ui'[s].shown) = Len(ui[s].shown)
  BY <1>2, <1>3 DEF SameTurns
<1> HIDE DEF old
<1>5. Len(ui'[s].shown) >= Len(old) /\ DOMAIN old \subseteq DOMAIN ui[s].shown
  BY <1>3, <1>4 DEF Grows, old
<1>6. ASSUME NEW i \in DOMAIN old
      PROVE  ui'[s].shown[i].turn = old[i].turn /\ (old[i].reply = "full" => ui'[s].shown[i] = old[i])
  <2>1. ui[s].shown[i].turn = old[i].turn /\ (old[i].reply = "full" => ui[s].shown[i] = old[i])
    BY <1>6 DEF Grows, old
  <2>2. i \in DOMAIN ui[s].shown
    BY <1>5, <1>6
  <2>3. ui'[s].shown[i].turn = ui[s].shown[i].turn
    BY <1>2, <2>2 DEF SameTurns
  <2>4. CASE ui'[s].shown[i] = ui[s].shown[i]
    BY <2>1, <2>4
  <2>5. CASE ui[s].shown[i].turn = turn[s].no /\ turn[s].phase \in {"sent", "named"}
    <3>1. Pending(s)
      BY <2>5 DEF Pending, Receiving
    <3>2. ~ Holds(old, turn[s].no)
      BY <3>1 DEF BaseInv, PendingIsPrivate, old
    <3> QED
      BY <1>6, <2>1, <2>5, <3>2 DEF Holds
  <2> QED
    BY <2>2, <2>4, <2>5 DEF Answers
<1> QED
  BY <1>5, <1>6 DEF Grows, old

\* The thread that a reply stores goes on from what was stored, and what is shown from it.
LEMMA KeptGoesOn ==
    ASSUME BaseInv, NEW s \in Surfaces, Answers(s), ShownGoesOn(s), Keeps(s, ui'[s].shown)
    PROVE  LET c == turn[s].conv IN
           /\ Grows(store'.threads[c], ui'[s].shown)
           /\ Stored(c) => Grows(store.threads[c], store'.threads[c])
<1> DEFINE c == turn[s].conv
           new == store'.threads[c]
<1>1. /\ store' \in Stores /\ DOMAIN store'.threads = DOMAIN store.threads \cup {c}
      /\ SameTurns(new, ui'[s].shown)
      /\ \A i \in DOMAIN ui'[s].shown : ui'[s].shown[i].reply = "full" \/ new[i].reply = "full"
            => new[i] = ui'[s].shown[i]
  BY KeepsFacts DEF BaseInv
<1>2. ui'[s].shown \in Threads
  BY DEF Answers, OnlyOf, Uis
<1>3. new \in Threads
  BY <1>1, MapFacts DEF Stores
<1> HIDE DEF new
<1>4. Grows(new, ui'[s].shown)
  <2>1. SameTurns(ui'[s].shown, new) /\ \A i \in DOMAIN new : new[i].reply = "full" => ui'[s].shown[i] = new[i]
    BY <1>1 DEF SameTurns
  <2> QED
    BY <1>2, <1>3, <2>1, GrowsFacts
<1>5. ASSUME Stored(c) PROVE Grows(store.threads[c], new)
  <2>1. Grows(store.threads[c], ui'[s].shown)
    BY <1>5, AnswerGoesOn DEF ShownGoesOn, Stored, Answers
  <2>2. Grows(ui'[s].shown, new)
    BY <1>1, <1>2, <1>3, GrowsFacts
  <2>3. store.threads[c] \in Threads
    BY <1>5, TypeFacts DEF BaseInv, Stored
  <2> QED
    BY <1>2, <1>3, <2>1, <2>2, <2>3, GrowsOn
<1> QED
  BY <1>4, <1>5 DEF new

\* A switch shows what goes on from the store.
LEMMA SwitchGoesOn ==
    ASSUME BaseInv, NEW s \in Surfaces, Switches(s), ShownGoesOn(s),
           kind[s] = "widget" => WidgetIsCurrent(s)
    PROVE  ShownGoesOn(s)'
<1>1. /\ DOMAIN store'.threads \subseteq DOMAIN store.threads
      /\ \A c \in DOMAIN store'.threads : store'.threads[c] = store.threads[c]
      /\ \A c \in DOMAIN store.threads : store.threads[c] \in Threads /\ Grows(store.threads[c], store.threads[c])
      /\ NoConversation \notin DOMAIN store.threads
  BY TypeFacts, GrowsFacts DEF BaseInv, Switches, Forgets
<1>2. ui'[s].conv \in DOMAIN store'.threads => Grows(store'.threads[ui'[s].conv], ui'[s].shown)
  BY <1>1 DEF Switches, Shows, ShownGoesOn, Stored
<1>3. ASSUME Receiving(s)', turn'[s].conv \in DOMAIN store'.threads
      PROVE  Grows(store'.threads[turn'[s].conv], ui'[s].shown)
  <2>1. turn'[s] = turn[s] /\ Receiving(s) /\ Stored(turn[s].conv) /\ turn[s].conv # NoConversation
        /\ store'.threads[turn[s].conv] = store.threads[turn[s].conv]
    BY <1>1, <1>3, BlankFacts DEF Switches, Receiving, Stored
  <2>2. Grows(store.threads[turn[s].conv], ui[s].shown)
    BY <2>1 DEF ShownGoesOn
  <2>3. CASE ui'[s].shown = ui[s].shown
    BY <2>1, <2>2, <2>3
  <2>4. CASE kind[s] = "panel" /\ ui'[s].shown # ui[s].shown
    BY <1>3, <2>1, <2>4 DEF Switches, Shows, Stored
  <2>5. CASE kind[s] = "widget" /\ ui'[s].shown # ui[s].shown
    <3>1. store.active = turn[s].conv /\ Stored(store.active)
      BY <2>1, <2>5 DEF WidgetIsCurrent
    <3>2. ui'[s].shown = store.threads[store.active]
      BY <1>3, <2>5, <3>1 DEF Switches, Shows
    <3> QED
      BY <1>1, <2>1, <3>1, <3>2 DEF Stored
  <2> QED
    BY <2>3, <2>4, <2>5 DEF Switches, BaseInv, ClientTypes
<1> QED
  BY <1>2, <1>3 DEF ShownGoesOn, Stored

\* An event of a reply shows what goes on from the store.
LEMMA AnswerKeepsShown ==
    ASSUME BaseInv, NEW s \in Surfaces, Answers(s), ShownGoesOn(s)
    PROVE  ShownGoesOn(s)'
<1>1. Receiving(s)' => turn'[s].conv = turn[s].conv
  BY TypeFacts, BlankFacts DEF Answers, Receiving, BaseInv, TurnRecords
<1>2. Receiving(s)
  BY DEF Answers
<1>3. \A c \in DOMAIN store.threads :
         Grows(store.threads[c], ui[s].shown) => Grows(store.threads[c], ui'[s].shown)
  BY AnswerGoesOn
<1>4. CASE store' = store /\ ui'[s].conv = ui[s].conv
  BY <1>1, <1>2, <1>3, <1>4 DEF ShownGoesOn, Stored
<1>5. CASE Keeps(s, ui'[s].shown) /\ ui'[s].conv \in {ui[s].conv, turn[s].conv}
  <2>1. Grows(store'.threads[turn[s].conv], ui'[s].shown)
    BY <1>5, KeptGoesOn
  <2>2. /\ DOMAIN store'.threads = DOMAIN store.threads \cup {turn[s].conv}
        /\ \A d \in DOMAIN store.threads \ {turn[s].conv} : store'.threads[d] = store.threads[d]
    BY <1>5, KeepsFacts DEF BaseInv
  <2>3. ASSUME ui'[s].conv \in DOMAIN store'.threads PROVE Grows(store'.threads[ui'[s].conv], ui'[s].shown)
    <3>1. CASE ui'[s].conv = turn[s].conv
      BY <2>1, <3>1
    <3>2. CASE ui'[s].conv # turn[s].conv
      BY <1>3, <1>5, <2>2, <2>3, <3>2 DEF ShownGoesOn, Stored
    <3> QED
      BY <3>1, <3>2
  <2> QED
    BY <1>1, <2>1, <2>3 DEF ShownGoesOn, Stored
<1> QED
  BY <1>4, <1>5 DEF Answers

\* A message that is sent goes on from the store.
LEMMA SendGoesOn ==
    ASSUME BaseInv, NEW s \in Surfaces, Sends(s), ShownGoesOn(s)
    PROVE  ShownGoesOn(s)'
<1>1. /\ store' = store /\ ui'[s].conv = ui[s].conv
      /\ turn'[s] = [phase |-> "sent", no |-> Len(sentTo) + 1, conv |-> ui[s].conv]
      /\ Len(ui'[s].shown) = Len(ui[s].shown) + 1
      /\ \A i \in DOMAIN ui[s].shown : ui'[s].shown[i] = ui[s].shown[i]
  BY SendFacts DEF Sends
<1>2. turn'[s].conv = ui[s].conv
  BY <1>1
<1>3. ASSUME Stored(ui[s].conv) PROVE Grows(store.threads[ui[s].conv], ui'[s].shown)
  <2> DEFINE old == store.threads[ui[s].conv]
  <2>1. old \in Threads /\ ui[s].shown \in Threads
    BY <1>3, TypeFacts DEF BaseInv, Stored, Uis
  <2>2. /\ DOMAIN old = 1 .. Len(old) /\ DOMAIN ui[s].shown = 1 .. Len(ui[s].shown)
        /\ Len(old) \in Nat /\ Len(ui[s].shown) \in Nat
    BY <2>1, ThreadFacts
  <2>3. Grows(old, ui[s].shown)
    BY <1>3 DEF ShownGoesOn
  <2> HIDE DEF old
  <2>4. DOMAIN old \subseteq DOMAIN ui[s].shown /\ Len(ui'[s].shown) >= Len(old)
    BY <1>1, <2>2, <2>3 DEF Grows
  <2>5. Grows(old, ui'[s].shown)
    BY <1>1, <2>3, <2>4 DEF Grows
  <2> QED
    BY <2>5 DEF old
<1> QED
  BY <1>1, <1>2, <1>3 DEF ShownGoesOn, Stored

\* A conversation that is named is that of the reply, or is not stored.
LEMMA MetaGoesOn ==
    ASSUME BaseInv, NEW s \in Surfaces, Meta(s), ShownGoesOn(s)
    PROVE  ShownGoesOn(s)'
<1>1. PICK c \in Conversations :
              /\ store' = store /\ turn[s].phase = "sent"
              /\ IF turn[s].conv = NoConversation THEN c \notin known ELSE c = turn[s].conv
              /\ ui'[s].conv = c /\ ui'[s].shown = ui[s].shown /\ turn'[s].conv = c
  BY MetaFacts
<1>2. Receiving(s)
  BY <1>1 DEF Receiving
<1>3. Stored(c) => c = turn[s].conv
  BY <1>1 DEF BaseInv, KnownOnly, Stored
<1> QED
  BY <1>1, <1>2, <1>3 DEF ShownGoesOn, Stored

-----------------------------------------------------------------------------
(* A widget.                                                                 *)

\* A widget that loads, closes or leaves its thread.
LEMMA WidgetMoves ==
    ASSUME BaseInv, NEW s \in Surfaces, WidgetIsCurrent(s),
           Bootstrap(s) \/ Remount(s) \/ WidgetHistory(s) \/ WidgetNew(s)
    PROVE  WidgetIsCurrent(s)'
<1> USE DEF BaseInv
<1>0. ui[s] \in Uis
  BY TypeFacts
<1>1. CASE Bootstrap(s)
  <2>1. UNCHANGED <<store, turn, gone>> /\ ui'[s] = LoadActive(s)
    BY <1>1 DEF Bootstrap, ClientTypes
  <2>2. /\ ui'[s].list = ui[s].list
        /\ \/ ~ Stored(store.active) /\ ui'[s].conv = NoConversation
           \/ Stored(store.active) /\ ui'[s].conv = store.active
    BY <2>1, LoadedFacts
  <2> QED
    BY <2>1, <2>2 DEF WidgetIsCurrent, Receiving, Stored
<1>2. CASE Remount(s)
  <2>1. store' = store /\ ui'[s] = Blank /\ turn'[s] = NoTurn /\ gone'[s] = {}
    BY <1>2 DEF Remount, ClientTypes
  <2> QED
    BY <2>1, BlankFacts DEF WidgetIsCurrent, Receiving, Stored
<1>3. CASE WidgetHistory(s)
  <2>1. UNCHANGED <<store, turn, gone>> /\ ui'[s].conv = ui[s].conv
        /\ ui'[s].list \in {ui[s].list, DOMAIN store.threads}
    BY <1>0, <1>3 DEF WidgetHistory, ClientTypes, Uis
  <2> QED
    BY <2>1 DEF WidgetIsCurrent, Receiving, Stored
<1>4. CASE WidgetNew(s)
  <2>1. store'.threads = store.threads
    BY <1>4, NewSwitches
  <2>2. gone' = gone /\ turn'[s] = NoTurn /\ ui'[s].conv = NoConversation
    BY <1>0, <1>4 DEF WidgetNew, WidgetFresh, Abort, ClientTypes, Uis
  <2> QED
    BY <2>1, <2>2, BlankFacts DEF WidgetIsCurrent, Receiving
<1> QED
  BY <1>1, <1>2, <1>3, <1>4

\* A widget that opens a thread no longer counts it as deleted.
LEMMA WidgetSelects ==
    ASSUME BaseInv, NEW s \in Surfaces, NEW c \in Conversations, WidgetIsCurrent(s), WidgetSelect(s, c)
    PROVE  WidgetIsCurrent(s)'
<1>1. /\ Stored(c) /\ Abort(s) /\ Show(s, c) /\ UNCHANGED <<kind, known, sentTo>> /\ kind[s] # "unused"
  BY DEF WidgetSelect, WidgetRow, Widget
<1>2. /\ Shows(s, c, store.threads[c]) /\ store'.active = c /\ store'.threads = store.threads
      /\ gone'[s] = gone[s] \ {c} /\ turn'[s] = NoTurn
  BY <1>1, ShowSwitches
<1> QED
  BY <1>1, <1>2, BlankFacts DEF WidgetIsCurrent, Receiving, Stored, Shows

\* A widget deletes a thread: the reply under way is not of it, or is aborted.
LEMMA WidgetDeletes ==
    ASSUME BaseInv, NEW s \in Surfaces, NEW c \in Conversations, WidgetIsCurrent(s), WidgetDelete(s, c)
    PROVE  WidgetIsCurrent(s)'
<1> USE DEF BaseInv
<1>1. ui[s] \in Uis /\ c \in ui[s].list /\ c # NoConversation
  BY TypeFacts, NullAssumption DEF WidgetDelete, WidgetRow
<1>2. /\ DOMAIN store'.threads = DOMAIN store.threads \ {c} /\ gone'[s] = gone[s] \cup {c}
  BY DeleteSwitches
<1>3. ui[s].conv # c => store'.active = IF store.active = c THEN NoConversation ELSE store.active
  BY WithoutStore DEF WidgetDelete
<1>4. gone'[s] \cap DOMAIN store'.threads = {}
  BY <1>2 DEF WidgetIsCurrent
<1>5. CASE ui[s].conv = c
  <2>1. turn'[s] = NoTurn /\ ui'[s].conv = NoConversation
    BY <1>1, <1>5 DEF WidgetDelete, WidgetFresh, Abort, ClientTypes, Uis
  <2> QED
    BY <1>4, <2>1, BlankFacts DEF WidgetIsCurrent, Receiving
<1>6. CASE ui[s].conv # c
  <2>1. turn' = turn /\ ui'[s].conv = ui[s].conv /\ ui'[s].list = DOMAIN store.threads \ {c}
    BY <1>1, <1>6 DEF WidgetDelete, ClientTypes, Uis
  <2>2. Receiving(s) => turn[s].conv # c
    BY <1>1, <1>6 DEF WidgetIsCurrent
  <2> QED
    BY <1>2, <1>3, <1>4, <1>6, <2>1, <2>2 DEF WidgetIsCurrent, Receiving, Stored
<1> QED
  BY <1>5, <1>6

\* A switch of the widget keeps it current.
LEMMA WidgetSwitches ==
    ASSUME BaseInv, NEW s \in Surfaces, kind[s] = "widget", WidgetIsCurrent(s), Mounting(s) \/ History(s)
    PROVE  WidgetIsCurrent(s)'
<1>1. ~ Panel(s)
  BY DEF Panel
<1>2. \/ Bootstrap(s) \/ Remount(s) \/ WidgetHistory(s) \/ WidgetNew(s)
      \/ \E c \in Conversations : WidgetSelect(s, c) \/ WidgetDelete(s, c)
  BY <1>1 DEF Mounting, History, PanelMount, BubbleClose, PanelHistory, PanelNew, PanelSelect,
              PanelDelete, PanelRow
<1> QED
  BY <1>2, WidgetMoves, WidgetSelects, WidgetDeletes

\* A turn of the widget keeps it current.
LEMMA WidgetTurns ==
    ASSUME BaseInv, NEW s \in Surfaces, kind[s] = "widget", WidgetIsCurrent(s),
           Answers(s) \/ Sends(s) \/ Meta(s)
    PROVE  WidgetIsCurrent(s)'
<1> USE DEF BaseInv
<1>1. CASE Answers(s)
  <2>1. /\ gone' = gone /\ ui'[s].list = ui[s].list /\ Receiving(s)
        /\ Receiving(s)' => turn'[s].conv = turn[s].conv
    BY <1>1, TypeFacts, BlankFacts DEF Answers, Receiving, TurnRecords
  <2>2. CASE store' = store /\ ui'[s].conv = ui[s].conv /\ (turn'[s] = NoTurn => turn[s].conv = NoConversation)
    <3>1. Receiving(s)' \/ turn[s].conv = NoConversation
      BY <1>1, <2>2, TypeFacts DEF Answers, Receiving, TurnRecords
    <3> QED
      BY <2>1, <2>2, <3>1 DEF WidgetIsCurrent, Stored
  <2>3. CASE ui'[s].conv = turn[s].conv /\ turn'[s] = NoTurn /\ Keeps(s, ui'[s].shown)
    <3>1. DOMAIN store'.threads = DOMAIN store.threads \cup {turn[s].conv} /\ store'.active = turn[s].conv
      BY <2>3, KeepsFacts
    <3> QED
      BY <2>1, <2>3, <3>1, BlankFacts DEF WidgetIsCurrent, Stored, Receiving
  <2> QED
    BY <1>1, <2>2, <2>3 DEF Answers
<1>2. CASE Sends(s)
  <2>1. /\ UNCHANGED <<store, gone>> /\ ~ Receiving(s)
        /\ ui'[s].conv = ui[s].conv /\ ui'[s].list = ui[s].list
        /\ turn'[s] = [phase |-> "sent", no |-> Len(sentTo) + 1, conv |-> ui[s].conv]
    BY <1>2, SendFacts DEF Sends
  <2>2. turn'[s].phase = "sent" /\ turn'[s].conv = ui[s].conv
    BY <2>1
  <2>3. NoConversation \notin gone[s]
    BY NullAssumption DEF ClientTypes
  <2> QED
    BY <2>1, <2>2, <2>3 DEF WidgetIsCurrent, Receiving, Stored
<1>3. CASE Meta(s)
  <2>1. PICK c \in Conversations :
              /\ UNCHANGED <<store, gone>> /\ turn[s].phase = "sent"
              /\ IF turn[s].conv = NoConversation THEN c \notin known ELSE c = turn[s].conv
              /\ ui'[s].conv = c /\ ui'[s].list = ui[s].list
              /\ turn'[s].phase = "named" /\ turn'[s].conv = c
    BY <1>3, MetaFacts
  <2>2. c \in known \/ (c \notin gone[s] /\ ~ Stored(c) /\ c \notin ui[s].list)
    BY DEF KnownOnly, Stored
  <2>3. CASE turn[s].conv = NoConversation
    BY <2>1, <2>2, <2>3 DEF WidgetIsCurrent, Receiving, Stored
  <2>4. CASE turn[s].conv # NoConversation
    BY <2>1, <2>4 DEF WidgetIsCurrent, Receiving, Stored
  <2> QED
    BY <2>3, <2>4
<1> QED
  BY <1>1, <1>2, <1>3

-----------------------------------------------------------------------------
(* A surface that is alone, in every step.                                   *)

\* Every step of a surface that is alone keeps what it shows current.
LEMMA LoneStep ==
    ASSUME BaseInv, LoneInv, [Next]_vars
    PROVE  LoneInv'
<1>1. CASE UNCHANGED vars
  BY <1>1 DEF vars, LoneInv, Alone, ShownGoesOn, WidgetIsCurrent, Stored, Receiving
<1>2. CASE Next
  <2>1. PICK s \in Surfaces : /\ kind[s] # "unused"
                              /\ \/ Switches(s) /\ (Mounting(s) \/ History(s))
                                 \/ Answers(s) \/ Sends(s) \/ Meta(s)
    BY <1>2, StepSurface
  <2>2. kind' = kind
    BY <1>2, StepSurface
  <2> SUFFICES ASSUME Alone', NEW u \in Surfaces, kind[u] # "unused"
               PROVE  ShownGoesOn(u)' /\ (kind[u] = "widget" => WidgetIsCurrent(u)')
    BY <2>2 DEF LoneInv
  <2>3. Alone
    BY <2>2 DEF Alone
  <2>4. u = s
    BY <2>1, <2>3, OnlyOne
  <2>5. ShownGoesOn(s) /\ (kind[s] = "widget" => WidgetIsCurrent(s))
    BY <2>1, <2>3 DEF LoneInv
  <2>6. ShownGoesOn(s)'
    BY <2>1, <2>5, SwitchGoesOn, AnswerKeepsShown, SendGoesOn, MetaGoesOn
  <2>7. kind[s] = "widget" => WidgetIsCurrent(s)'
    BY <2>1, <2>5, WidgetSwitches, WidgetTurns
  <2> QED
    BY <2>4, <2>6, <2>7
<1> QED
  BY <1>1, <1>2

\* At the start there is nothing to go on from.
LEMMA LoneStart ==
    ASSUME Init
    PROVE  LoneInv
<1>1. /\ DOMAIN store.threads \subseteq Conversations
      /\ \A s \in Surfaces : /\ ui[s].conv = NoConversation /\ gone[s] = {}
                             /\ turn[s].phase = "none" /\ turn[s].conv = NoConversation
  BY EmptyStart, BaseStart, TypeFacts DEF BaseInv
<1> QED
  BY <1>1, NullAssumption DEF LoneInv, ShownGoesOn, WidgetIsCurrent, Stored, Receiving

\* Which stored threads a step changes: the one of an answered turn, which grows.
LEMMA ThreadsGrow ==
    ASSUME BaseInv, LoneInv, [Next]_vars, Alone, NEW c \in DOMAIN store.threads \cap DOMAIN store'.threads
    PROVE  Grows(store.threads[c], store'.threads[c])
<1>1. store.threads[c] \in Threads /\ Grows(store.threads[c], store.threads[c])
  BY TypeFacts, GrowsFacts DEF BaseInv
<1>2. CASE UNCHANGED vars
  BY <1>1, <1>2 DEF vars
<1>3. CASE Next
  <2>1. PICK s \in Surfaces : /\ kind[s] # "unused"
                              /\ \/ Switches(s) \/ Answers(s) \/ Sends(s) \/ Meta(s)
    BY <1>3, StepSurface
  <2>2. ShownGoesOn(s)
    BY <2>1 DEF LoneInv
  <2>3. CASE store'.threads[c] = store.threads[c]
    BY <1>1, <2>3
  <2>4. CASE Answers(s) /\ Keeps(s, ui'[s].shown)
    <3>1. c = turn[s].conv \/ store'.threads[c] = store.threads[c]
      BY <2>4, KeepsFacts DEF BaseInv
    <3> QED
      BY <1>1, <2>2, <2>4, <3>1, KeptGoesOn DEF Stored
  <2>5. Answers(s) /\ ~ Keeps(s, ui'[s].shown) => store'.threads[c] = store.threads[c]
    BY DEF Answers
  <2>6. Switches(s) \/ Sends(s) \/ Meta(s) => store'.threads[c] = store.threads[c]
    BY SendFacts, MetaFacts DEF Switches, Forgets, Sends
  <2> QED
    BY <2>1, <2>3, <2>4, <2>5, <2>6
<1> QED
  BY <1>2, <1>3

\* A widget that is alone awaits no reply of a thread it has deleted, so what is deleted is
\* not stored again: for any conversations and any number of messages.
THEOREM SpecDeletedIsAborted == Spec => []DeletedIsAborted
<1>1. Init => BaseInv /\ LoneInv
  BY BaseStart, LoneStart
<1>2. BaseInv /\ LoneInv /\ [Next]_vars => BaseInv' /\ LoneInv'
  BY BaseStep, LoneStep
<1>3. LoneInv => DeletedIsAborted
  BY DEF LoneInv, DeletedIsAborted, WidgetIsCurrent
<1> QED
  BY <1>1, <1>2, <1>3, PTL DEF Spec

\* A surface that is alone, panel or widget, never shortens a stored thread and never takes
\* an answer back.
THEOREM SpecThreadsOnlyGrow == Spec => ThreadsOnlyGrow
<1>1. Init => BaseInv /\ LoneInv
  BY BaseStart, LoneStart
<1>2. BaseInv /\ LoneInv /\ [Next]_vars => BaseInv' /\ LoneInv'
  BY BaseStep, LoneStep
<1>3. BaseInv /\ LoneInv /\ [Next]_vars
      => [Alone => \A c \in DOMAIN store.threads \cap DOMAIN store'.threads :
                      Grows(store.threads[c], store'.threads[c])]_vars
  BY ThreadsGrow
<1> QED
  BY <1>1, <1>2, <1>3, PTL DEF Spec, ThreadsOnlyGrow
=============================================================================
