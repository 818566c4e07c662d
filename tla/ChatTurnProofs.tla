----------------------------- MODULE ChatTurnProofs -----------------------------
(***************************************************************************)
(* For every set of turns and conversations and every quota: the types,    *)
(* that the chat endpoint implements PlanAdmission, from which the bound   *)
(* on the quota's overshoot follows, that a response is well formed, and   *)
(* that no reply is without its counted question.                          *)
(***************************************************************************)
EXTENDS ChatTurn, FiniteSetTheorems, TLAPS

USE TurnsAssumption, LimitAssumption, NoConversationAssumption

LEMMA ChatTypeInit == Init => TypeOK
  BY DEF Init, TypeOK, NoTurn, Pcs

-----------------------------------------------------------------------------
(* Type correctness.                                                         *)

LEMMA ServeType ==
    ASSUME TypeOK, NEW t \in Turns, Serve(t)
    PROVE  TypeOK'
<1> USE DEF TypeOK, Pcs, rows, usage
<1>1. CASE AssertQuota(t)  BY <1>1 DEF AssertQuota, GoTo, Throw
<1>2. CASE AssertAgent(t)  BY <1>2 DEF AssertAgent, GoTo, Throw
<1>3. CASE AssertSources(t)  BY <1>3 DEF AssertSources, Throw
<1>4. CASE LoadAgent(t)  BY <1>4 DEF LoadAgent, GoTo, Throw
<1>5. CASE CreateConversation(t)  BY <1>5 DEF CreateConversation, Throw
<1>6. CASE FindConversation(t)  BY <1>6 DEF FindConversation, GoTo, Throw
<1>7. CASE SaveQuestion(t)  BY <1>7 DEF SaveQuestion, GoTo, Throw
<1>8. CASE IncrementUsage(t)  BY <1>8 DEF IncrementUsage, GoTo
<1>9. CASE LoadHistory(t)  BY <1>9 DEF LoadHistory, GoTo
<1>10. CASE Retrieve(t)  BY <1>10 DEF Retrieve, GoTo, Throw
<1>11. CASE Generate(t)  BY <1>11 DEF Generate, GoTo, FailWithEvent
<1>12. CASE SaveReply(t)  BY <1>12 DEF SaveReply, FailWithEvent
<1> QED
  BY <1>1, <1>2, <1>3, <1>4, <1>5, <1>6, <1>7, <1>8, <1>9, <1>10, <1>11, <1>12
  DEF Serve

LEMMA DropType ==
    ASSUME TypeOK, NEW cs \in SUBSET Conversations, Drop(cs)
    PROVE  /\ conv' \in [Conversations -> {"none", "open", "deleted"}]
           /\ questions' \in [Conversations -> Nat]
           /\ replies' \in [Conversations -> Nat]
<1>1. \A c \in Conversations : conv[c] \in {"none", "open", "deleted"}
  BY DEF TypeOK
<1>2. conv' \in [Conversations -> {"none", "open", "deleted"}]
  BY <1>1 DEF Drop
<1> QED  BY <1>2 DEF Drop, TypeOK

LEMMA ChatTypeNext == TypeOK /\ [Next]_vars => TypeOK'
<1> SUFFICES ASSUME TypeOK, [Next]_vars
             PROVE  TypeOK'
  OBVIOUS
<1> USE DEF TypeOK, Pcs, rows, usage
<1>1. ASSUME NEW t \in Turns, NEW public \in BOOLEAN,
             NEW c \in Conversations \cup {NoConversation}, Send(t, public, c)
      PROVE  TypeOK'
  <2> DEFINE asked == [pc |-> "quota", public |-> public, conv |-> c,
                       http |-> 0, terminal |-> "none"]
  <2>1. turn' = [turn EXCEPT ![t] = asked]
        /\ UNCHANGED <<month, used, agent, ready, conv, questions, replies>>
    BY <1>1 DEF Send
  <2>2. asked \in [pc : Pcs, public : BOOLEAN, conv : Conversations \cup {NoConversation},
                   http : {0, 200, 400, 403, 404, 500},
                   terminal : {"none", "done", "error"}]
    OBVIOUS
  <2> HIDE DEF asked
  <2> QED  BY <2>1, <2>2
<1>2. ASSUME NEW t \in Turns, Serve(t)
      PROVE  TypeOK'
  BY <1>2, ServeType
<1>3. ASSUME NEW t \in Turns, Close(t)
      PROVE  TypeOK'
  BY <1>3 DEF Close, NoTurn
<1>4. CASE Crash  BY <1>4 DEF Crash, NoTurn
<1>5. CASE NewMonth  BY <1>5 DEF NewMonth
<1>6. ASSUME NEW cs \in SUBSET Conversations, RemoveMany(cs)
      PROVE  TypeOK'
  BY <1>6, DropType DEF RemoveMany
<1>7. CASE SetActive  BY <1>7 DEF SetActive
<1>8. CASE DeleteAgent
  <2>1. Drop(Conversations) /\ agent' = "deleted" /\ ready' = FALSE
        /\ UNCHANGED <<month, used, turn>>
    BY <1>8 DEF DeleteAgent
  <2>2. /\ conv' \in [Conversations -> {"none", "open", "deleted"}]
        /\ questions' \in [Conversations -> Nat]
        /\ replies' \in [Conversations -> Nat]
    BY <2>1, DropType
  <2> QED  BY <2>1, <2>2
<1>9. CASE SourcesChange  BY <1>9 DEF SourcesChange
<1>10. CASE UNCHANGED vars  BY <1>10 DEF vars
<1> QED
  BY <1>1, <1>2, <1>3, <1>4, <1>5, <1>6, <1>7, <1>8, <1>9, <1>10 DEF Next

\* Every reachable state has the types of TypeOK.
THEOREM ChatTypeCorrect == Spec => []TypeOK
<1> QED  BY ChatTypeInit, ChatTypeNext, PTL DEF Spec

-----------------------------------------------------------------------------
(* The turns implement PlanAdmission.                                        *)

\* Past the check only IncrementUsage counts; every other step keeps the set of
\* admitted turns or shrinks it.
LEMMA ServeQuota ==
    ASSUME TypeOK, NEW t \in Turns, Serve(t)
    PROVE  \/ Quota!Check(t)
           \/ Quota!Take(t)
           \/ Quota!Abandon
<1> USE DEF TypeOK, rows, usage, Admitted
<1>1. CASE AssertQuota(t)
  <2>1. CASE used < Limit /\ GoTo(t, "quota", "agent")
    BY <1>1, <2>1 DEF AssertQuota, GoTo, Quota!Check
  <2>2. CASE Throw(t, "quota", 403)
    BY <1>1, <2>2 DEF AssertQuota, Throw, Quota!Abandon
  <2> QED  BY <1>1, <2>1, <2>2 DEF AssertQuota
<1>2. CASE AssertAgent(t)  BY <1>2 DEF AssertAgent, GoTo, Throw, Quota!Abandon
<1>3. CASE AssertSources(t)
  <2>1. PICK pc \in {"closed", "load"} :
           turn[t].pc = "sources" /\ \A u \in Turns :
              turn'[u].pc = IF u = t THEN pc ELSE turn[u].pc
    BY <1>3 DEF AssertSources, Throw
  <2>2. Admitted' \subseteq Admitted  BY <2>1
  <2> QED  BY <1>3, <2>2 DEF AssertSources, Quota!Abandon
<1>4. CASE LoadAgent(t)  BY <1>4 DEF LoadAgent, GoTo, Throw, Quota!Abandon
<1>5. CASE CreateConversation(t)
  BY <1>5 DEF CreateConversation, Throw, Quota!Abandon
<1>6. CASE FindConversation(t)
  BY <1>6 DEF FindConversation, GoTo, Throw, Quota!Abandon
<1>7. CASE SaveQuestion(t)  BY <1>7 DEF SaveQuestion, GoTo, Throw, Quota!Abandon
<1>8. CASE IncrementUsage(t)  BY <1>8 DEF IncrementUsage, GoTo, Quota!Take
<1>9. CASE LoadHistory(t)  BY <1>9 DEF LoadHistory, GoTo, Quota!Abandon
<1>10. CASE Retrieve(t)  BY <1>10 DEF Retrieve, GoTo, Throw, Quota!Abandon
<1>11. CASE Generate(t)  BY <1>11 DEF Generate, GoTo, FailWithEvent, Quota!Abandon
<1>12. CASE SaveReply(t)  BY <1>12 DEF SaveReply, FailWithEvent, Quota!Abandon
<1> QED
  BY <1>1, <1>2, <1>3, <1>4, <1>5, <1>6, <1>7, <1>8, <1>9, <1>10, <1>11, <1>12
  DEF Serve

LEMMA QuotaStep ==
    TypeOK /\ [Next]_vars => [Quota!Next]_(Quota!admissionVars)
<1> SUFFICES ASSUME TypeOK, [Next]_vars
             PROVE  Quota!Next \/ UNCHANGED Quota!admissionVars
  BY DEF Quota!admissionVars
<1> USE DEF TypeOK, rows, usage, Admitted, Quota!admissionVars
<1>1. ASSUME NEW t \in Turns, NEW public \in BOOLEAN,
             NEW c \in Conversations \cup {NoConversation}, Send(t, public, c)
      PROVE  Quota!Abandon
  BY <1>1 DEF Send, NoTurn, Quota!Abandon
<1>2. ASSUME NEW t \in Turns, Serve(t)
      PROVE  Quota!Check(t) \/ Quota!Take(t) \/ Quota!Abandon
  BY <1>2, ServeQuota
<1>3. ASSUME NEW t \in Turns, Close(t)
      PROVE  Quota!Abandon
  BY <1>3 DEF Close, NoTurn, Quota!Abandon
<1>4. ASSUME Crash
      PROVE  Quota!Abandon
  <2>1. \A t \in Turns : turn'[t].pc = "idle"  BY <1>4 DEF Crash, NoTurn
  <2>2. Admitted' = {} /\ used' = used  BY <1>4, <2>1 DEF Crash
  <2> QED  BY <2>2 DEF Quota!Abandon
<1>5. ASSUME NewMonth
      PROVE  Quota!Release
  BY <1>5 DEF NewMonth, Quota!Release
<1>6. ASSUME \/ \E cs \in SUBSET Conversations : RemoveMany(cs)
             \/ SetActive \/ DeleteAgent \/ SourcesChange
      PROVE  UNCHANGED <<used, turn>>
  BY <1>6 DEF RemoveMany, SetActive, DeleteAgent, SourcesChange
<1>7. CASE UNCHANGED vars  BY <1>7 DEF vars
<1> QED
  BY <1>1, <1>2, <1>3, <1>4, <1>5, <1>6, <1>7 DEF Next, Quota!Next

\* The quota of the chat endpoint is PlanAdmission's, whatever else the turns do.
THEOREM SpecImplementsQuota == Spec => ImplementsQuota
<1>1. Init => Quota!Init  BY DEF Init, NoTurn, Admitted, Quota!Init
<1>2. TypeOK /\ [Next]_vars => [Quota!Next]_(Quota!admissionVars)
  BY QuotaStep
<1> QED
  BY <1>1, <1>2, ChatTypeCorrect, PTL DEF Spec, ImplementsQuota, Quota!Spec

-----------------------------------------------------------------------------
(* The overshoot: what is used and what is admitted grow together only when  *)
(* a turn passes the check, which is under the limit.                        *)

\* The abstract specification counts a set of turns as the chat endpoint does.
LEMMA AdmittedCounted ==
    ASSUME NEW P \in SUBSET Turns
    PROVE  /\ IsFiniteSet(P) /\ Cardinality(P) \in Nat /\ Quota!Cardinality(P) = Cardinality(P)
           /\ Cardinality(P) <= Cardinality(Turns) /\ Cardinality(Turns) \in Nat
<1>1. Quota!Cardinality(P) = Cardinality(P)  BY Zenon DEF Quota!Cardinality, Cardinality
<1> QED  BY <1>1, FS_Subset, FS_CardinalityType

\* What is used and what is admitted stay together within the overshoot.
LEMMA OvershootStep ==
    ASSUME TypeOK, TypeOK', QuotaOvershootBounded, [Quota!Next]_(Quota!admissionVars)
    PROVE  QuotaOvershootBounded'
<1> DEFINE n == Cardinality(Admitted)
           m == Cardinality(Admitted')
           N == Cardinality(Turns)
<1>1. Admitted \in SUBSET Turns /\ Admitted' \in SUBSET Turns  BY DEF Admitted
<1>2. /\ n \in Nat /\ m \in Nat /\ n <= N /\ m <= N /\ N \in Nat /\ used \in Nat /\ used' \in Nat
      /\ Limit \in Nat
  BY <1>1, AdmittedCounted DEF TypeOK
<1>3. QuotaOvershootBounded <=> used + n <= Limit + N - 1
  BY <1>1, AdmittedCounted DEF QuotaOvershootBounded, Quota!Overshoot
<1>4. QuotaOvershootBounded' <=> used' + m <= Limit + N - 1
  BY <1>1, AdmittedCounted DEF QuotaOvershootBounded, Quota!Overshoot
<1> SUFFICES used' + m <= Limit + N - 1  BY <1>4
\* The limit was not reached, so even everybody's unit stays within the bound.
<1>5. ASSUME NEW t \in Turns, Quota!Check(t) PROVE used' + m <= Limit + N - 1
  <2>1. used' = used /\ used < Limit  BY <1>5 DEF Quota!Check
  <2> HIDE DEF n, m, N
  <2> QED  BY <1>2, <2>1
\* A unit moves from the admitted turns to the count.
<1>6. ASSUME NEW t \in Turns, Quota!Take(t) PROVE used' + m <= Limit + N - 1
  <2>1. t \in Admitted /\ used' = used + 1 /\ Admitted' = Admitted \ {t}
    BY <1>6 DEF Quota!Take
  <2>2. m = n - 1  BY <1>1, <2>1, AdmittedCounted, FS_RemoveElement
  <2> HIDE DEF n, m, N
  <2> QED  BY <1>2, <1>3, <2>1, <2>2
<1>7. ASSUME Quota!Abandon \/ UNCHANGED Quota!admissionVars PROVE used' + m <= Limit + N - 1
  <2>1. used' = used /\ Admitted' \subseteq Admitted
    BY <1>7 DEF Quota!Abandon, Quota!admissionVars
  <2>2. m <= n  BY <1>1, <2>1, AdmittedCounted, FS_Subset
  <2> HIDE DEF n, m, N
  <2> QED  BY <1>2, <1>3, <2>1, <2>2
<1>8. ASSUME Quota!Release PROVE used' + m <= Limit + N - 1
  <2>1. used' \in 0 .. used /\ Admitted' = Admitted  BY <1>8 DEF Quota!Release
  <2>2. m = n  BY <2>1
  <2>3. used' <= used  BY <1>2, <2>1
  <2>4. used + n <= Limit + N - 1  BY <1>3
  <2>5. \A x, y, z \in Nat : x <= y /\ y + z <= Limit + N - 1 => x + z <= Limit + N - 1
    BY <1>2
  <2>6. used \in Nat /\ used' \in Nat /\ n \in Nat  BY <1>2
  <2>7. used' + n <= Limit + N - 1  BY ONLY <2>3, <2>4, <2>5, <2>6
  <2> QED  BY ONLY <2>2, <2>7
<1> QED  BY <1>5, <1>6, <1>7, <1>8 DEF Quota!Next

\* A month never counts more than the quota and the turns in flight but one.
THEOREM SpecQuotaOvershootBounded == Spec => []QuotaOvershootBounded
<1>1. Init => QuotaOvershootBounded
  <2> SUFFICES ASSUME Init PROVE QuotaOvershootBounded  OBVIOUS
  <2>1. used = 0 /\ Admitted = {}  BY DEF Init, NoTurn, Admitted
  <2>2. Cardinality(Turns) # 0 /\ Cardinality(Turns) \in Nat  BY FS_EmptySet, FS_CardinalityType
  <2>3. Quota!Cardinality(Turns) = Cardinality(Turns) /\ Quota!Cardinality({}) = 0
    BY AdmittedCounted, FS_EmptySet
  <2> QED  BY <2>1, <2>2, <2>3 DEF QuotaOvershootBounded, Quota!Overshoot
<1>2. TypeOK /\ TypeOK' /\ QuotaOvershootBounded /\ [Next]_vars => QuotaOvershootBounded'
  BY QuotaStep, OvershootStep
<1> QED  BY <1>1, <1>2, ChatTypeCorrect, PTL DEF Spec

-----------------------------------------------------------------------------
(* How a response is written.                                                *)

\* The inductive strengthening of ResponseWellFormed: a stream is open exactly from
\* the third check on, and only the last step of a turn writes a terminal event.
ResponseInv ==
    \A t \in Turns :
        /\ turn[t].pc = "closed" =>
              \/ turn[t].http >= 400 /\ turn[t].terminal = "none"
              \/ turn[t].http = 200 /\ turn[t].terminal # "none"
        /\ turn[t].pc # "closed" => turn[t].terminal = "none"
        /\ turn[t].pc \in {"quota", "agent", "sources"} => turn[t].http = 0
        /\ turn[t].pc \notin {"idle", "quota", "agent", "sources", "closed"} =>
              turn[t].http = 200

\* Every step of a turn leaves its record well formed and the others alone.
LEMMA ServeResponse ==
    ASSUME TypeOK, ResponseInv, NEW t \in Turns, Serve(t)
    PROVE  ResponseInv'
<1> USE DEF TypeOK, Pcs, ResponseInv
<1>1. CASE AssertQuota(t)  BY <1>1 DEF AssertQuota, GoTo, Throw
<1>2. CASE AssertAgent(t)  BY <1>2 DEF AssertAgent, GoTo, Throw
<1>3. CASE AssertSources(t)  BY <1>3 DEF AssertSources, Throw
<1>4. CASE LoadAgent(t)  BY <1>4 DEF LoadAgent, GoTo, Throw
<1>5. CASE CreateConversation(t)  BY <1>5 DEF CreateConversation, Throw
<1>6. CASE FindConversation(t)  BY <1>6 DEF FindConversation, GoTo, Throw
<1>7. CASE SaveQuestion(t)  BY <1>7 DEF SaveQuestion, GoTo, Throw
<1>8. CASE IncrementUsage(t)  BY <1>8 DEF IncrementUsage, GoTo
<1>9. CASE LoadHistory(t)  BY <1>9 DEF LoadHistory, GoTo
<1>10. CASE Retrieve(t)  BY <1>10 DEF Retrieve, GoTo, Throw
<1>11. CASE Generate(t)  BY <1>11 DEF Generate, GoTo, FailWithEvent
<1>12. CASE SaveReply(t)  BY <1>12 DEF SaveReply, FailWithEvent
<1> QED
  BY <1>1, <1>2, <1>3, <1>4, <1>5, <1>6, <1>7, <1>8, <1>9, <1>10, <1>11, <1>12
  DEF Serve

\* The steps that are not taken by a turn, as far as turns are concerned.
LEMMA AroundTurns ==
    ASSUME [Next]_vars
    PROVE  \/ \E t \in Turns, public \in BOOLEAN, c \in Conversations \cup {NoConversation} :
                 Send(t, public, c)
           \/ \E t \in Turns : Serve(t) \/ Close(t)
           \/ Crash
           \/ UNCHANGED turn
<1>1. ASSUME \/ NewMonth \/ \E cs \in SUBSET Conversations : RemoveMany(cs)
             \/ SetActive \/ DeleteAgent \/ SourcesChange
      PROVE  UNCHANGED turn
  BY <1>1 DEF NewMonth, RemoveMany, SetActive, DeleteAgent, SourcesChange
<1>2. CASE UNCHANGED vars  BY <1>2 DEF vars
<1> QED  BY <1>1, <1>2 DEF Next

LEMMA ResponseNext == TypeOK /\ ResponseInv /\ [Next]_vars => ResponseInv'
<1> SUFFICES ASSUME TypeOK, ResponseInv, [Next]_vars PROVE ResponseInv'  OBVIOUS
<1>1. ASSUME NEW t \in Turns, NEW public \in BOOLEAN,
             NEW c \in Conversations \cup {NoConversation}, Send(t, public, c)
      PROVE  ResponseInv'
  BY <1>1 DEF Send, TypeOK, ResponseInv
<1>2. ASSUME NEW t \in Turns, Close(t) PROVE ResponseInv'
  BY <1>2 DEF Close, NoTurn, TypeOK, ResponseInv
<1>3. CASE Crash  BY <1>3 DEF Crash, NoTurn, ResponseInv
<1>4. CASE UNCHANGED turn  BY <1>4 DEF ResponseInv
<1> QED  BY <1>1, <1>2, <1>3, <1>4, ServeResponse, AroundTurns

\* A response is one JSON error, or one stream that opened after the checks and
\* ended once.
THEOREM SpecResponseWellFormed == Spec => []ResponseWellFormed
<1>1. Init => ResponseInv  BY DEF Init, NoTurn, ResponseInv
<1>2. TypeOK /\ ResponseInv => ResponseWellFormed
  BY DEF TypeOK, Pcs, ResponseInv, ResponseWellFormed
<1> QED  BY <1>1, <1>2, ResponseNext, ChatTypeCorrect, PTL DEF Spec

-----------------------------------------------------------------------------
(* Replies and questions.                                                    *)

\* The turns that have saved a question and may still save its reply.
AnswerPcs == {"count", "history", "retrieve", "generate", "reply"}

\* What a step of a turn does to the conversation rows and their messages: nothing;
\* or it creates a row, saves a question and owes the reply, or saves what it owes.
LEMMA ServeMessages ==
    ASSUME TypeOK, NEW t \in Turns, Serve(t)
    PROVE  /\ \A u \in Turns : u # t => turn'[u] = turn[u]
           /\ \/ /\ UNCHANGED <<conv, questions, replies>>
                 /\ turn'[t].conv = turn[t].conv
                 /\ turn'[t].pc \in AnswerPcs => turn[t].pc \in AnswerPcs
              \/ \E c \in Conversations :
                    /\ conv[c] = "none" /\ conv' = [conv EXCEPT ![c] = "open"]
                    /\ UNCHANGED <<questions, replies>>
                    /\ turn'[t].conv = c /\ turn'[t].pc = "question"
                    /\ turn[t].conv = NoConversation
              \/ /\ UNCHANGED <<conv, replies>>
                 /\ turn'[t].conv = turn[t].conv
                 /\ turn[t].pc \notin AnswerPcs
                 /\ questions' = [questions EXCEPT ![turn[t].conv] = @ + 1]
              \/ /\ UNCHANGED <<conv, questions>>
                 /\ turn'[t].conv = turn[t].conv
                 /\ turn[t].pc \in AnswerPcs /\ turn'[t].pc \notin AnswerPcs
                 /\ replies' = [replies EXCEPT ![turn[t].conv] = @ + 1]
<1> USE DEF TypeOK, AnswerPcs, rows
<1>1. CASE AssertQuota(t)  BY <1>1 DEF AssertQuota, GoTo, Throw
<1>2. CASE AssertAgent(t)  BY <1>2 DEF AssertAgent, GoTo, Throw
<1>3. CASE AssertSources(t)  BY <1>3 DEF AssertSources, Throw
<1>4. CASE LoadAgent(t)  BY <1>4 DEF LoadAgent, GoTo, Throw
<1>5. CASE CreateConversation(t)  BY <1>5 DEF CreateConversation, Throw
<1>6. CASE FindConversation(t)  BY <1>6 DEF FindConversation, GoTo, Throw
<1>7. CASE SaveQuestion(t)
  <2>1. /\ \A u \in Turns : u # t => turn'[u] = turn[u]
        /\ UNCHANGED <<conv, replies>>
        /\ turn[t].pc = "question" /\ turn'[t].conv = turn[t].conv
    BY <1>7 DEF SaveQuestion, GoTo, Throw
  <2>2. \/ UNCHANGED questions /\ turn'[t].pc = "closed"
        \/ questions' = [questions EXCEPT ![turn[t].conv] = @ + 1]
    BY <1>7 DEF SaveQuestion, Throw
  <2> QED  BY <2>1, <2>2
<1>8. CASE IncrementUsage(t)  BY <1>8 DEF IncrementUsage, GoTo
<1>9. CASE LoadHistory(t)  BY <1>9 DEF LoadHistory, GoTo
<1>10. CASE Retrieve(t)  BY <1>10 DEF Retrieve, GoTo, Throw
<1>11. CASE Generate(t)  BY <1>11 DEF Generate, GoTo, FailWithEvent
<1>12. CASE SaveReply(t)
  <2>1. /\ \A u \in Turns : u # t => turn'[u] = turn[u]
        /\ UNCHANGED <<conv, questions>>
        /\ turn[t].pc = "reply" /\ turn'[t].pc = "closed"
        /\ turn'[t].conv = turn[t].conv
    BY <1>12 DEF SaveReply, FailWithEvent
  <2>2. UNCHANGED replies \/ replies' = [replies EXCEPT ![turn[t].conv] = @ + 1]
    BY <1>12 DEF SaveReply
  <2> QED  BY <2>1, <2>2
<1> QED
  BY <1>1, <1>2, <1>3, <1>4, <1>5, <1>6, <1>7, <1>8, <1>9, <1>10, <1>11, <1>12
  DEF Serve

\* Turns are finitely many, so those that owe a reply can be counted.
LEMMA TurnCount ==
    ASSUME NEW S \in SUBSET Turns, NEW T \in SUBSET Turns, NEW t \in Turns
    PROVE  /\ Cardinality(S) \in Nat
           /\ S \subseteq T => Cardinality(S) <= Cardinality(T)
           /\ S \subseteq T \cup {t} => Cardinality(S) <= Cardinality(T) + 1
           /\ (t \in T /\ S \subseteq T \ {t}) => Cardinality(S) + 1 <= Cardinality(T)
<1>1. IsFiniteSet(S) /\ IsFiniteSet(T)  BY TurnsAssumption, FS_Subset
<1>2. Cardinality(S) \in Nat /\ Cardinality(T) \in Nat  BY <1>1, FS_CardinalityType
<1>3. ASSUME S \subseteq T PROVE Cardinality(S) <= Cardinality(T)
  BY <1>1, <1>3, FS_Subset
<1>4. ASSUME S \subseteq T \cup {t} PROVE Cardinality(S) <= Cardinality(T) + 1
  <2>1. /\ IsFiniteSet(T \cup {t})
        /\ Cardinality(T \cup {t}) \in {Cardinality(T), Cardinality(T) + 1}
    BY <1>1, FS_AddElement
  <2>2. Cardinality(S) <= Cardinality(T \cup {t})  BY <1>4, <2>1, FS_Subset
  <2> QED  BY <1>2, <2>1, <2>2
<1>5. ASSUME t \in T, S \subseteq T \ {t} PROVE Cardinality(S) + 1 <= Cardinality(T)
  <2>1. /\ IsFiniteSet(T \ {t})
        /\ Cardinality(T \ {t}) = Cardinality(T) - 1
    BY <1>1, <1>5, FS_RemoveElement
  <2>2. Cardinality(S) <= Cardinality(T \ {t})  BY <1>5, <2>1, FS_Subset
  <2> QED  BY <1>2, <2>1, <2>2
<1> QED  BY <1>2, <1>3, <1>4, <1>5

\* The inductive strengthening of RepliesAnswerQuestions: before its row exists a
\* conversation has no replies, and no turn names it.
AnswersOf(c) ==
    /\ conv[c] = "open" => replies[c] + Cardinality(Answering(c)) <= questions[c]
    /\ conv[c] = "none" => replies[c] = 0 /\ \A t \in Turns : turn[t].conv # c

AnswersInv == \A c \in Conversations : AnswersOf(c)

LEMMA AnswersNext == TypeOK /\ AnswersInv /\ [Next]_vars => AnswersInv'
<1> SUFFICES ASSUME TypeOK, AnswersInv, [Next]_vars, NEW c \in Conversations
             PROVE  AnswersOf(c)'
  BY DEF AnswersInv
<1> DEFINE N == Cardinality(Answering(c))
           M == Cardinality(Answering(c)')
<1>0. /\ AnswersOf(c)
      /\ replies[c] \in Nat /\ questions[c] \in Nat
      /\ conv[c] \in {"none", "open", "deleted"}
  BY DEF AnswersInv, TypeOK
<1>1. /\ N \in Nat /\ M \in Nat
      /\ Answering(c)' \subseteq Answering(c) => M <= N
      /\ \A t \in Turns :
            /\ Answering(c)' \subseteq Answering(c) \cup {t} => M <= N + 1
            /\ (t \in Answering(c) /\ Answering(c)' \subseteq Answering(c) \ {t})
                  => M + 1 <= N
  <2>1. Answering(c) \in SUBSET Turns /\ Answering(c)' \in SUBSET Turns  BY DEF Answering
  <2> QED  BY <2>1, TurnsAssumption, TurnCount
<1> HIDE DEF N, M
\* A step that adds no debt and no message.
<1>2. ASSUME conv'[c] = conv[c], replies'[c] = replies[c], questions'[c] = questions[c],
             Answering(c)' \subseteq Answering(c),
             conv[c] = "none" => \A t \in Turns : turn'[t].conv # c
      PROVE  AnswersOf(c)'
  <2>1. M <= N  BY <1>1, <1>2
  <2> QED  BY <1>0, <1>1, <1>2, <2>1 DEF AnswersOf, N, M
<1>3. ASSUME NEW t \in Turns, NEW public \in BOOLEAN,
             NEW d \in Conversations \cup {NoConversation}, Send(t, public, d)
      PROVE  AnswersOf(c)'
  <2>1. /\ UNCHANGED <<conv, replies, questions>>
        /\ turn'[t].pc = "quota" /\ turn'[t].conv = d
        /\ d = c => conv[c] # "none"
        /\ \A u \in Turns : u # t => turn'[u] = turn[u]
    BY <1>3 DEF Send, rows, TypeOK
  <2>2. Answering(c)' \subseteq Answering(c)  BY <2>1 DEF Answering
  <2> QED  BY <1>0, <1>2, <2>1, <2>2 DEF AnswersOf
<1>4. ASSUME UNCHANGED <<conv, replies, questions>>,
             \A t \in Turns : turn'[t] \in {turn[t], NoTurn}
      PROVE  AnswersOf(c)'
  <2>1. Answering(c)' \subseteq Answering(c)  BY <1>4 DEF Answering, NoTurn
  <2> QED  BY <1>0, <1>2, <1>4, <2>1 DEF AnswersOf, NoTurn
<1>5. ASSUME NEW t \in Turns, Serve(t) PROVE AnswersOf(c)'
  <2>1. \A u \in Turns : u # t => turn'[u] = turn[u]  BY <1>5, ServeMessages
  <2>2. CASE /\ UNCHANGED <<conv, questions, replies>>
             /\ turn'[t].conv = turn[t].conv
             /\ turn'[t].pc \in AnswerPcs => turn[t].pc \in AnswerPcs
    <3>1. Answering(c)' \subseteq Answering(c)
      BY <2>1, <2>2 DEF Answering, AnswerPcs
    <3> QED  BY <1>0, <1>2, <2>1, <2>2, <3>1 DEF AnswersOf
  <2>3. ASSUME NEW d \in Conversations,
               conv[d] = "none" /\ conv' = [conv EXCEPT ![d] = "open"],
               UNCHANGED <<questions, replies>>,
               turn'[t].conv = d /\ turn'[t].pc = "question",
               turn[t].conv = NoConversation
        PROVE  AnswersOf(c)'
    <3>1. Answering(c)' \subseteq Answering(c)  BY <2>1, <2>3 DEF Answering
    <3>2. CASE d # c
      BY <1>0, <1>2, <2>1, <2>3, <3>1, <3>2 DEF AnswersOf, TypeOK
    <3>3. CASE d = c
      <4>1. replies'[c] = 0 /\ conv'[c] = "open" /\ questions'[c] \in Nat
        BY <1>0, <2>3, <3>3 DEF AnswersOf, TypeOK
      <4>2. Answering(c)' = {}
        BY <1>0, <2>3, <3>1, <3>3 DEF AnswersOf, Answering
      <4>3. M = 0  BY <4>2, FS_EmptySet DEF M
      <4> QED  BY <4>1, <4>3 DEF AnswersOf, M
    <3> QED  BY <3>2, <3>3
  <2>4. CASE /\ UNCHANGED <<conv, replies>>
             /\ turn'[t].conv = turn[t].conv
             /\ turn[t].pc \notin AnswerPcs
             /\ questions' = [questions EXCEPT ![turn[t].conv] = @ + 1]
    <3>1. \A u \in Turns : turn'[u].conv = turn[u].conv  BY <2>1, <2>4
    <3>2. CASE turn[t].conv # c
      <4>1. Answering(c)' \subseteq Answering(c)
        BY <2>1, <2>4, <3>2 DEF Answering
      <4>2. questions'[c] = questions[c]  BY <2>4, <3>2 DEF TypeOK
      <4> QED  BY <1>0, <1>2, <2>4, <3>1, <4>1, <4>2 DEF AnswersOf
    <3>3. CASE turn[t].conv = c
      <4>1. Answering(c)' \subseteq Answering(c) \cup {t}
        BY <2>1, <2>4, <3>3 DEF Answering
      <4>2. M <= N + 1  BY <1>1, <4>1
      <4>3. questions'[c] = questions[c] + 1  BY <2>4, <3>3 DEF TypeOK
      <4> QED  BY <1>0, <1>1, <2>4, <3>1, <3>3, <4>2, <4>3 DEF AnswersOf, N, M
    <3> QED  BY <3>2, <3>3
  <2>5. CASE /\ UNCHANGED <<conv, questions>>
             /\ turn'[t].conv = turn[t].conv
             /\ turn[t].pc \in AnswerPcs /\ turn'[t].pc \notin AnswerPcs
             /\ replies' = [replies EXCEPT ![turn[t].conv] = @ + 1]
    <3>1. \A u \in Turns : turn'[u].conv = turn[u].conv  BY <2>1, <2>5
    <3>2. CASE turn[t].conv # c
      <4>1. Answering(c)' \subseteq Answering(c)
        BY <2>1, <2>5, <3>2 DEF Answering
      <4>2. replies'[c] = replies[c]  BY <2>5, <3>2 DEF TypeOK
      <4> QED  BY <1>0, <1>2, <2>5, <3>1, <4>1, <4>2 DEF AnswersOf
    <3>3. CASE turn[t].conv = c
      <4>1. t \in Answering(c) /\ Answering(c)' \subseteq Answering(c) \ {t}
        BY <2>1, <2>5, <3>3 DEF Answering, AnswerPcs
      <4>2. M + 1 <= N  BY <1>1, <4>1
      <4>3. replies'[c] = replies[c] + 1  BY <2>5, <3>3 DEF TypeOK
      <4> QED  BY <1>0, <1>1, <2>5, <3>1, <3>3, <4>2, <4>3 DEF AnswersOf, N, M
    <3> QED  BY <3>2, <3>3
  <2> QED  BY <1>5, <2>2, <2>3, <2>4, <2>5, ServeMessages
<1>6. ASSUME NEW cs \in SUBSET Conversations, Drop(cs), UNCHANGED turn
      PROVE  AnswersOf(c)'
  <2>1. Answering(c)' = Answering(c)  BY <1>6 DEF Answering
  <2>2. /\ conv'[c] = IF c \in cs /\ conv[c] = "open" THEN "deleted" ELSE conv[c]
        /\ questions'[c] = IF c \in cs THEN 0 ELSE questions[c]
        /\ replies'[c] = IF c \in cs THEN 0 ELSE replies[c]
    BY <1>6 DEF Drop
  <2>3. CASE c \notin cs  BY <1>0, <1>2, <1>6, <2>1, <2>2, <2>3 DEF AnswersOf
  <2>4. CASE c \in cs  BY <1>0, <1>6, <2>2, <2>4 DEF AnswersOf
  <2> QED  BY <2>3, <2>4
<1>7. ASSUME NEW t \in Turns, Close(t) PROVE AnswersOf(c)'
  BY <1>4, <1>7 DEF Close, TypeOK, rows
<1>8. CASE Crash  BY <1>4, <1>8 DEF Crash, rows
<1>9. CASE NewMonth \/ SetActive \/ SourcesChange
  BY <1>4, <1>9 DEF NewMonth, SetActive, SourcesChange, rows
<1>10. CASE DeleteAgent  BY <1>6, <1>10 DEF DeleteAgent
<1>11. ASSUME NEW cs \in SUBSET Conversations, RemoveMany(cs) PROVE AnswersOf(c)'
  BY <1>6, <1>11 DEF RemoveMany
<1>12. CASE UNCHANGED vars  BY <1>4, <1>12 DEF vars, rows
<1> QED
  BY <1>3, <1>5, <1>7, <1>8, <1>9, <1>10, <1>11, <1>12 DEF Next

\* No reply without its question, however turns of one conversation overlap and
\* wherever the process dies.
THEOREM SpecRepliesAnswerQuestions == Spec => []RepliesAnswerQuestions
<1>1. Init => AnswersInv
  <2> SUFFICES ASSUME Init, NEW c \in Conversations PROVE AnswersOf(c)
    BY DEF AnswersInv
  <2> QED  BY DEF Init, NoTurn, AnswersOf
<1>2. AnswersInv => RepliesAnswerQuestions
  BY DEF AnswersInv, AnswersOf, RepliesAnswerQuestions
<1> QED  BY <1>1, <1>2, AnswersNext, ChatTypeCorrect, PTL DEF Spec

-----------------------------------------------------------------------------
(* Sums over a function with a finite domain, as FoldFunction computes them.  *)

Pick(s) == CHOOSE x \in s : TRUE

\* g sums f over each subset of S, in the order in which Pick takes the elements.
IsSum(g, f, S) ==
    g = [s \in SUBSET S |-> IF s = {} THEN 0 ELSE f[Pick(s)] + g[s \ {Pick(s)}]]

SumOf(f) == FoldFunction(LAMBDA a, b : a + b, 0, f)

\* A set of subsets of a finite set has a member that is minimal for inclusion.
LEMMA MinimalSubset ==
    ASSUME NEW S, IsFiniteSet(S), NEW B \in SUBSET (SUBSET S), B # {}
    PROVE  \E T \in B : \A U \in B : U \subseteq T => U = T
<1>1. IsWellFoundedOn(StrictSubsetOrdering(S), FiniteSubsetsOf(S))
  BY FS_StrictSubsetOrderingWellFounded
<1>2. B \subseteq FiniteSubsetsOf(S)
  BY FS_Subset DEF FiniteSubsetsOf
<1>3. \E T \in B : \A U \in B : ~ (<<U, T>> \in StrictSubsetOrdering(S))
  BY <1>1, <1>2, WFMin
<1>4. PICK T \in B : \A U \in B : ~ (<<U, T>> \in StrictSubsetOrdering(S))
  BY <1>3
<1>5. ASSUME NEW U \in B, U \subseteq T, U # T PROVE FALSE
  <2>1. <<U, T>> \in (SUBSET S) \X (SUBSET S)  OBVIOUS
  <2>2. <<U, T>>[1] = U /\ <<U, T>>[2] = T  OBVIOUS
  <2>3. <<U, T>> \in StrictSubsetOrdering(S)
    BY <1>5, <2>1, <2>2 DEF StrictSubsetOrdering
  <2> QED  BY <1>4, <2>3
<1> QED  BY <1>5

\* FoldFunction is such a sum, as soon as one exists.
LEMMA FoldIsSum ==
    ASSUME NEW S, NEW f, DOMAIN f = S, \E g : IsSum(g, f, S)
    PROVE  \E g : IsSum(g, f, S) /\ SumOf(f) = g[S]
<1> DEFINE iter == CHOOSE g : IsSum(g, f, S)
<1>1. IsSum(iter, f, S)  OBVIOUS
<1>2. SumOf(f) = iter[S]
  BY DEF SumOf, IsSum, Pick, FoldFunction, FoldFunctionOnSet, MapThenFoldSet
<1> QED  BY <1>1, <1>2

\* What a sum is on the empty set and on every other subset.
LEMMA SumUnfold ==
    ASSUME NEW S, NEW f, NEW g, IsSum(g, f, S), NEW s \in SUBSET S
    PROVE  /\ s = {} => g[s] = 0
           /\ s # {} => /\ Pick(s) \in s
                        /\ s \ {Pick(s)} \in SUBSET S
                        /\ g[s] = f[Pick(s)] + g[s \ {Pick(s)}]
<1>1. s # {} => Pick(s) \in s  BY DEF Pick
<1> HIDE DEF Pick
<1>2. g[s] = IF s = {} THEN 0 ELSE f[Pick(s)] + g[s \ {Pick(s)}]
  BY DEF IsSum
<1> QED  BY <1>1, <1>2

\* Two sums of functions that agree on s agree on s.
LEMMA SumUnique ==
    ASSUME NEW S, NEW T, NEW f, NEW g, NEW h, IsSum(g, f, S), IsSum(h, f, T),
           NEW s \in SUBSET S, s \in SUBSET T, IsFiniteSet(s)
    PROVE  g[s] = h[s]
<1> DEFINE B == {u \in SUBSET s : g[u] # h[u]}
<1>1. SUFFICES ASSUME B # {} PROVE FALSE
  OBVIOUS
<1>2. PICK u \in B : \A v \in B : v \subseteq u => v = u
  <2>1. B \in SUBSET (SUBSET s)  OBVIOUS
  <2> HIDE DEF B
  <2> QED  BY <1>1, <2>1, MinimalSubset
<1>3. u \in SUBSET S /\ u \in SUBSET T /\ u \in SUBSET s  OBVIOUS
<1>4. CASE u = {}  BY <1>2, <1>3, <1>4, SumUnfold
<1>5. CASE u # {}
  <2>1. /\ Pick(u) \in u
        /\ g[u] = f[Pick(u)] + g[u \ {Pick(u)}]
        /\ h[u] = f[Pick(u)] + h[u \ {Pick(u)}]
    BY <1>3, <1>5, SumUnfold
  <2>2. u \ {Pick(u)} \notin B  BY <1>2, <2>1
  <2>3. g[u \ {Pick(u)}] = h[u \ {Pick(u)}]  BY <1>3, <2>2
  <2> QED  BY <1>2, <2>1, <2>3
<1> QED  BY <1>4, <1>5

\* Every function on a finite set has a sum.
LEMMA SumExists ==
    ASSUME NEW S, IsFiniteSet(S), NEW f
    PROVE  \E g : IsSum(g, f, S)
<1> DEFINE B == {T \in SUBSET S : ~ \E g : IsSum(g, f, T)}
<1>1. SUFFICES ASSUME B # {} PROVE FALSE
  OBVIOUS
<1>2. PICK T \in B : \A U \in B : U \subseteq T => U = T
  <2>1. B \in SUBSET (SUBSET S)  OBVIOUS
  <2> HIDE DEF B
  <2> QED  BY <1>1, <2>1, MinimalSubset
<1> DEFINE G(U) == CHOOSE g : IsSum(g, f, U)
<1>3. \A U \in SUBSET T : U # T => IsSum(G(U), f, U)
  BY <1>2
<1> DEFINE rest(s) == s \ {Pick(s)}
           sum == [s \in SUBSET T |-> IF s = {} THEN 0 ELSE f[Pick(s)] + G(rest(s))[rest(s)]]
<1> HIDE DEF G
<1>4. ASSUME NEW s \in SUBSET T, s # {} PROVE G(rest(s))[rest(s)] = sum[rest(s)]
  <2> DEFINE u == rest(s)
  <2>1. /\ u \in SUBSET T /\ u # T /\ IsFiniteSet(u)
    <3>1. Pick(s) \in s  BY <1>4 DEF Pick
    <3>2. u \in SUBSET S  OBVIOUS
    <3> QED  BY <3>1, <3>2, FS_Subset
  <2>2. IsSum(G(u), f, u) /\ u \in SUBSET u  BY <1>3, <2>1
  <2> HIDE DEF u
  <2>3. CASE u = {}
    <3>1. G(u)[u] = 0  BY <2>2, <2>3, SumUnfold
    <3> QED  BY <2>1, <2>3, <3>1 DEF u
  <2>4. CASE u # {}
    <3> DEFINE v == rest(u)
    <3>1. /\ v \in SUBSET u /\ v # u
          /\ G(u)[u] = f[Pick(u)] + G(u)[v]
      <4>1. /\ Pick(u) \in u
            /\ G(u)[u] = f[Pick(u)] + G(u)[u \ {Pick(u)}]
        BY <2>2, <2>4, SumUnfold
      <4> QED  BY <4>1
    <3>2. v \in SUBSET T /\ v # T /\ IsFiniteSet(v)
      BY <2>1, <3>1, FS_Subset
    <3>3. IsSum(G(v), f, v)  BY <1>3, <3>2
    <3> HIDE DEF v
    <3>4. G(u)[v] = G(v)[v]  BY <2>2, <3>1, <3>2, <3>3, SumUnique
    <3>5. sum[u] = f[Pick(u)] + G(v)[v]  BY <2>1, <2>4 DEF v
    <3> QED  BY <3>1, <3>4, <3>5 DEF u
  <2> QED  BY <2>3, <2>4
<1>5. sum = [s \in SUBSET T |-> IF s = {} THEN 0 ELSE f[Pick(s)] + sum[rest(s)]]
  <2>1. \A s \in SUBSET T :
           sum[s] = IF s = {} THEN 0 ELSE f[Pick(s)] + sum[rest(s)]
    BY <1>4
  <2> QED  BY <2>1
<1>6. IsSum(sum, f, T)  BY <1>5 DEF IsSum
<1> QED  BY <1>2, <1>6

\* FoldFunction adds up a function on a finite set as IsSum says.
LEMMA SumOfIsSum ==
    ASSUME NEW S, IsFiniteSet(S), NEW f, DOMAIN f = S
    PROVE  \E g : IsSum(g, f, S) /\ SumOf(f) = g[S]
  BY SumExists, FoldIsSum

\* The sum of a function into Nat is a natural number, of zeros zero; a smaller function has a smaller
\* sum; one more at one argument is one more in the sum.
LEMMA SumCompare ==
    ASSUME NEW S, IsFiniteSet(S), NEW f \in [S -> Nat], NEW h \in [S -> Nat]
    PROVE  /\ SumOf(f) \in Nat
           /\ (\A c \in S : f[c] = 0) => SumOf(f) = 0
           /\ (\A c \in S : h[c] <= f[c]) => SumOf(h) <= SumOf(f)
           /\ \A c \in S : h = [f EXCEPT ![c] = @ + 1] => SumOf(h) = SumOf(f) + 1
<1>1. PICK g : IsSum(g, f, S) /\ SumOf(f) = g[S]
  <2>1. DOMAIN f = S  OBVIOUS
  <2> QED  BY <2>1, SumOfIsSum
<1>2. PICK k : IsSum(k, h, S) /\ SumOf(h) = k[S]
  <2>1. DOMAIN h = S  OBVIOUS
  <2> QED  BY <2>1, SumOfIsSum
<1>0. \A s \in SUBSET S :
         /\ s = {} => g[s] = 0 /\ k[s] = 0
         /\ s # {} => /\ Pick(s) \in s /\ s \ {Pick(s)} \in SUBSET S
                      /\ g[s] = f[Pick(s)] + g[s \ {Pick(s)}]
                      /\ k[s] = h[Pick(s)] + k[s \ {Pick(s)}]
  <2> TAKE s \in SUBSET S
  <2>1. /\ s = {} => g[s] = 0
        /\ s # {} => /\ Pick(s) \in s /\ s \ {Pick(s)} \in SUBSET S
                     /\ g[s] = f[Pick(s)] + g[s \ {Pick(s)}]
    BY <1>1, SumUnfold
  <2>2. /\ s = {} => k[s] = 0
        /\ s # {} => k[s] = h[Pick(s)] + k[s \ {Pick(s)}]
    BY <1>2, SumUnfold
  <2> QED  BY <2>1, <2>2
<1>3. \A s \in SUBSET S : g[s] \in Nat /\ k[s] \in Nat
  <2> DEFINE B == {s \in SUBSET S : ~ (g[s] \in Nat /\ k[s] \in Nat)}
  <2>1. SUFFICES ASSUME B # {} PROVE FALSE
    OBVIOUS
  <2>2. PICK s \in B : \A v \in B : v \subseteq s => v = s
    <3>1. B \in SUBSET (SUBSET S)  OBVIOUS
    <3> HIDE DEF B
    <3> QED  BY <2>1, <3>1, MinimalSubset
  <2>3. s \in SUBSET S  OBVIOUS
  <2>4. CASE s = {}
    <3>1. g[s] = 0 /\ k[s] = 0  BY <1>0, <2>3, <2>4
    <3> QED  BY <3>1
  <2>5. CASE s # {}
    <3>1. /\ Pick(s) \in s /\ s \ {Pick(s)} \in SUBSET S
          /\ g[s] = f[Pick(s)] + g[s \ {Pick(s)}]
          /\ k[s] = h[Pick(s)] + k[s \ {Pick(s)}]
      BY <1>0, <2>3, <2>5
    <3>2. s \ {Pick(s)} \notin B  BY <2>2, <3>1
    <3>3. g[s \ {Pick(s)}] \in Nat /\ k[s \ {Pick(s)}] \in Nat  BY <3>1, <3>2
    <3>4. f[Pick(s)] \in Nat /\ h[Pick(s)] \in Nat  BY <2>3, <3>1
    <3>5. g[s] \in Nat /\ k[s] \in Nat  BY <3>1, <3>3, <3>4
    <3> QED  BY <3>5
  <2> QED  BY <2>4, <2>5
<1>4. ASSUME \A c \in S : h[c] <= f[c]
      PROVE  \A s \in SUBSET S : k[s] <= g[s]
  <2> DEFINE B == {s \in SUBSET S : ~ (k[s] <= g[s])}
  <2>1. SUFFICES ASSUME B # {} PROVE FALSE
    OBVIOUS
  <2>2. PICK s \in B : \A v \in B : v \subseteq s => v = s
    <3>1. B \in SUBSET (SUBSET S)  OBVIOUS
    <3> HIDE DEF B
    <3> QED  BY <2>1, <3>1, MinimalSubset
  <2>3. s \in SUBSET S  OBVIOUS
  <2>4. CASE s = {}
    <3>1. g[s] = 0 /\ k[s] = 0  BY <1>0, <2>3, <2>4
    <3> QED  BY <3>1
  <2>5. CASE s # {}
    <3>1. /\ Pick(s) \in s /\ s \ {Pick(s)} \in SUBSET S
          /\ g[s] = f[Pick(s)] + g[s \ {Pick(s)}]
          /\ k[s] = h[Pick(s)] + k[s \ {Pick(s)}]
      BY <1>0, <2>3, <2>5
    <3>2. s \ {Pick(s)} \notin B  BY <2>2, <3>1
    <3>3. k[s \ {Pick(s)}] <= g[s \ {Pick(s)}]  BY <3>1, <3>2
    <3>4. /\ f[Pick(s)] \in Nat /\ h[Pick(s)] \in Nat
          /\ h[Pick(s)] <= f[Pick(s)]
      BY <1>4, <2>3, <3>1
    <3>5. k[s] <= g[s]  BY <1>3, <3>1, <3>3, <3>4
    <3> QED  BY <3>5
  <2> QED  BY <2>4, <2>5
<1>5. ASSUME NEW c \in S, h = [f EXCEPT ![c] = @ + 1]
      PROVE  \A s \in SUBSET S : k[s] = g[s] + (IF c \in s THEN 1 ELSE 0)
  <2> DEFINE B == {s \in SUBSET S : k[s] # g[s] + (IF c \in s THEN 1 ELSE 0)}
  <2>1. SUFFICES ASSUME B # {} PROVE FALSE
    OBVIOUS
  <2>2. PICK s \in B : \A v \in B : v \subseteq s => v = s
    <3>1. B \in SUBSET (SUBSET S)  OBVIOUS
    <3> HIDE DEF B
    <3> QED  BY <2>1, <3>1, MinimalSubset
  <2>3. s \in SUBSET S  OBVIOUS
  <2>4. CASE s = {}
    <3>1. g[s] = 0 /\ k[s] = 0  BY <1>0, <2>3, <2>4
    <3> QED  BY <2>4, <3>1
  <2>5. CASE s # {}
    <3> DEFINE r == s \ {Pick(s)}
    <3>1. /\ Pick(s) \in s /\ r \in SUBSET S
          /\ g[s] = f[Pick(s)] + g[r]
          /\ k[s] = h[Pick(s)] + k[r]
      BY <1>0, <2>3, <2>5
    <3>2. r \notin B  BY <2>2, <3>1
    <3>3. k[r] = g[r] + (IF c \in r THEN 1 ELSE 0)  BY <3>1, <3>2
    <3>4. /\ f[Pick(s)] \in Nat
          /\ h[Pick(s)] = f[Pick(s)] + (IF c = Pick(s) THEN 1 ELSE 0)
      BY <1>5, <2>3, <3>1
    <3>5. c \in s <=> (c = Pick(s) \/ c \in r)  BY <3>1
    <3>6. ~ (c = Pick(s) /\ c \in r)  OBVIOUS
    <3> HIDE DEF r
    <3>7. k[s] = g[s] + (IF c \in s THEN 1 ELSE 0)
      BY <1>3, <3>1, <3>3, <3>4, <3>5, <3>6
    <3> QED  BY <3>7
  <2> QED  BY <2>4, <2>5
<1>6. ASSUME \A c \in S : f[c] = 0
      PROVE  \A s \in SUBSET S : g[s] = 0
  <2> DEFINE B == {s \in SUBSET S : ~ (g[s] = 0)}
  <2>1. SUFFICES ASSUME B # {} PROVE FALSE
    OBVIOUS
  <2>2. PICK s \in B : \A v \in B : v \subseteq s => v = s
    <3>1. B \in SUBSET (SUBSET S)  OBVIOUS
    <3> HIDE DEF B
    <3> QED  BY <2>1, <3>1, MinimalSubset
  <2>3. s \in SUBSET S  OBVIOUS
  <2>4. CASE s = {}
    <3>1. g[s] = 0 /\ k[s] = 0  BY <1>0, <2>3, <2>4
    <3> QED  BY <3>1
  <2>5. CASE s # {}
    <3>1. /\ Pick(s) \in s /\ s \ {Pick(s)} \in SUBSET S
          /\ g[s] = f[Pick(s)] + g[s \ {Pick(s)}]
      BY <1>0, <2>3, <2>5
    <3>2. s \ {Pick(s)} \notin B  BY <2>2, <3>1
    <3>3. g[s \ {Pick(s)}] = 0  BY <3>1, <3>2
    <3>4. f[Pick(s)] = 0
      BY <1>6, <2>3, <3>1
    <3>5. g[s] = 0  BY <1>3, <3>1, <3>3, <3>4
    <3> QED  BY <3>5
  <2> QED  BY <2>4, <2>5
<1>7. S \in SUBSET S  OBVIOUS
<1> QED  BY <1>1, <1>2, <1>3, <1>4, <1>5, <1>6, <1>7

-----------------------------------------------------------------------------
(* Every reply was counted.                                                  *)

\* The turns that have counted their message and may still save its reply.
CountedPcs == {"history", "retrieve", "generate", "reply"}
Counted == {t \in Turns : turn[t].pc \in CountedPcs}

\* What a step of a turn does to the replies and the usage: only IncrementUsage enters
\* the counted part of a turn, and a reply is saved by leaving it.
LEMMA ServeCounts ==
    ASSUME TypeOK, NEW t \in Turns, Serve(t)
    PROVE  /\ \A u \in Turns : u # t => turn'[u] = turn[u]
           /\ UNCHANGED month
           /\ \/ /\ UNCHANGED <<replies, used>>
                 /\ turn'[t].pc \in CountedPcs => turn[t].pc \in CountedPcs
              \/ UNCHANGED replies /\ used' = used + 1
              \/ /\ UNCHANGED used
                 /\ turn[t].pc \in CountedPcs /\ turn'[t].pc \notin CountedPcs
                 /\ replies' = [replies EXCEPT ![turn[t].conv] = @ + 1]
<1> USE DEF TypeOK, CountedPcs, rows, usage
<1>1. CASE AssertQuota(t)  BY <1>1 DEF AssertQuota, GoTo, Throw
<1>2. CASE AssertAgent(t)  BY <1>2 DEF AssertAgent, GoTo, Throw
<1>3. CASE AssertSources(t)  BY <1>3 DEF AssertSources, Throw
<1>4. CASE LoadAgent(t)  BY <1>4 DEF LoadAgent, GoTo, Throw
<1>5. CASE CreateConversation(t)  BY <1>5 DEF CreateConversation, Throw
<1>6. CASE FindConversation(t)  BY <1>6 DEF FindConversation, GoTo, Throw
<1>7. CASE SaveQuestion(t)  BY <1>7 DEF SaveQuestion, GoTo, Throw
<1>8. CASE IncrementUsage(t)  BY <1>8 DEF IncrementUsage, GoTo
<1>9. CASE LoadHistory(t)  BY <1>9 DEF LoadHistory, GoTo
<1>10. CASE Retrieve(t)  BY <1>10 DEF Retrieve, GoTo, Throw
<1>11. CASE Generate(t)  BY <1>11 DEF Generate, GoTo, FailWithEvent
<1>12. CASE SaveReply(t)
  <2>1. /\ \A u \in Turns : u # t => turn'[u] = turn[u]
        /\ UNCHANGED <<month, used>>
        /\ turn[t].pc = "reply" /\ turn'[t].pc = "closed"
    BY <1>12 DEF SaveReply, FailWithEvent
  <2>2. UNCHANGED replies \/ replies' = [replies EXCEPT ![turn[t].conv] = @ + 1]
    BY <1>12 DEF SaveReply
  <2> QED  BY <2>1, <2>2
<1> QED
  BY <1>1, <1>2, <1>3, <1>4, <1>5, <1>6, <1>7, <1>8, <1>9, <1>10, <1>11, <1>12
  DEF Serve

CountedInv == month = 0 => SumOf(replies) + Cardinality(Counted) <= used

LEMMA CountedNext ==
    ASSUME IsFiniteSet(Conversations)
    PROVE  TypeOK /\ CountedInv /\ [Next]_vars => CountedInv'
<1> SUFFICES ASSUME TypeOK, CountedInv, [Next]_vars, month' = 0
             PROVE  SumOf(replies') + Cardinality(Counted') <= used'
  BY DEF CountedInv
<1> DEFINE S == SumOf(replies)
           Z == SumOf(replies')
           N == Cardinality(Counted)
           M == Cardinality(Counted')
           after == Z + M <= used'
<1>0. SUFFICES after  OBVIOUS
<1>1. /\ S \in Nat /\ Z \in Nat
      /\ (\A c \in Conversations : replies'[c] <= replies[c]) => Z <= S
      /\ \A c \in Conversations :
            replies' = [replies EXCEPT ![c] = @ + 1] => Z = S + 1
  <2>1. TypeOK'  BY ChatTypeNext
  <2>2. replies \in [Conversations -> Nat] /\ replies' \in [Conversations -> Nat]
    BY <2>1 DEF TypeOK
  <2> HIDE DEF S, Z
  <2> QED  BY <2>2, SumCompare DEF S, Z
<1>2. /\ N \in Nat /\ M \in Nat
      /\ Counted' \subseteq Counted => M <= N
      /\ \A t \in Turns :
            /\ Counted' \subseteq Counted \cup {t} => M <= N + 1
            /\ (t \in Counted /\ Counted' \subseteq Counted \ {t}) => M + 1 <= N
  <2>1. Counted \in SUBSET Turns /\ Counted' \in SUBSET Turns  BY DEF Counted
  <2> QED  BY <2>1, TurnsAssumption, TurnCount
<1> HIDE DEF S, Z, N, M, after
<1>3. used \in Nat /\ (month = 0 => S + N <= used)
  BY DEF CountedInv, TypeOK, S, N
<1>4. UNCHANGED replies => Z = S  BY DEF S, Z
<1>5. ASSUME UNCHANGED <<month, used>>, Z <= S, Counted' \subseteq Counted
      PROVE  after
  BY <1>1, <1>2, <1>3, <1>5 DEF after
<1>6. ASSUME UNCHANGED <<month, used, replies>>,
             \A t \in Turns : turn'[t].pc \in CountedPcs => turn[t].pc \in CountedPcs
      PROVE  after
  <2>1. Counted' \subseteq Counted  BY <1>6 DEF Counted
  <2> QED  BY <1>1, <1>4, <1>5, <1>6, <2>1
<1>7. ASSUME NEW t \in Turns, Serve(t) PROVE after
  <2>1. UNCHANGED month /\ \A u \in Turns : u # t => turn'[u] = turn[u]
    BY <1>7, ServeCounts
  <2>2. ASSUME UNCHANGED <<replies, used>>,
               turn'[t].pc \in CountedPcs => turn[t].pc \in CountedPcs
        PROVE  after
    BY <1>6, <2>1, <2>2
  <2>3. ASSUME UNCHANGED replies, used' = used + 1 PROVE after
    <3>1. Counted' \subseteq Counted \cup {t}  BY <2>1 DEF Counted
    <3>2. M <= N + 1 /\ Z = S /\ month = 0  BY <1>2, <1>4, <2>1, <2>3, <3>1
    <3> QED  BY <1>1, <1>2, <1>3, <2>3, <3>2 DEF after
  <2>4. ASSUME UNCHANGED used,
               turn[t].pc \in CountedPcs, turn'[t].pc \notin CountedPcs,
               replies' = [replies EXCEPT ![turn[t].conv] = @ + 1]
        PROVE  after
    <3>1. t \in Counted /\ Counted' \subseteq Counted \ {t}
      BY <2>1, <2>4 DEF Counted
    <3>2. M + 1 <= N /\ month = 0  BY <1>2, <2>1, <3>1
    <3>3. CASE turn[t].conv \in Conversations
      <4>1. Z = S + 1  BY <1>1, <2>4, <3>3
      <4> QED  BY <1>1, <1>2, <1>3, <2>4, <3>2, <4>1 DEF after
    <3>4. CASE turn[t].conv \notin Conversations
      <4>1. replies' = replies  BY <2>4, <3>4 DEF TypeOK
      <4> QED  BY <1>1, <1>2, <1>3, <1>4, <2>4, <3>2, <4>1 DEF after
    <3> QED  BY <3>3, <3>4
  <2> QED  BY <1>7, <2>2, <2>3, <2>4, ServeCounts
<1>8. ASSUME NEW t \in Turns, NEW public \in BOOLEAN,
             NEW c \in Conversations \cup {NoConversation}, Send(t, public, c)
      PROVE  after
  <2>1. \A u \in Turns : turn'[u].pc \in CountedPcs => turn[u].pc \in CountedPcs
    BY <1>8 DEF Send, TypeOK, CountedPcs
  <2> QED  BY <1>6, <1>8, <2>1 DEF Send, rows, usage
<1>9. ASSUME NEW t \in Turns, Close(t) PROVE after
  <2>1. \A u \in Turns : turn'[u].pc \in CountedPcs => turn[u].pc \in CountedPcs
    BY <1>9 DEF Close, NoTurn, TypeOK, CountedPcs
  <2> QED  BY <1>6, <1>9, <2>1 DEF Close, rows, usage
<1>10. ASSUME Crash PROVE after
  <2>1. \A u \in Turns : turn'[u].pc \notin CountedPcs
    BY <1>10 DEF Crash, NoTurn, CountedPcs
  <2> QED  BY <1>6, <1>10, <2>1 DEF Crash, rows, usage
<1>11. ASSUME NEW cs \in SUBSET Conversations, Drop(cs), UNCHANGED <<month, used, turn>>
       PROVE  after
  <2>1. \A c \in Conversations : replies'[c] <= replies[c]
    BY <1>11 DEF Drop, TypeOK
  <2>2. Counted' = Counted  BY <1>11 DEF Counted
  <2> QED  BY <1>1, <1>5, <1>11, <2>1, <2>2
<1>12. ASSUME SetActive \/ SourcesChange \/ UNCHANGED vars PROVE after
  BY <1>6, <1>12 DEF SetActive, SourcesChange, vars, rows, usage
<1>13. ASSUME NEW cs \in SUBSET Conversations, RemoveMany(cs) PROVE after
  BY <1>11, <1>13 DEF RemoveMany, usage
<1>14. ASSUME DeleteAgent PROVE after
  BY <1>11, <1>14 DEF DeleteAgent, usage
<1>15. ~ NewMonth  BY DEF NewMonth, TypeOK
<1> QED
  BY <1>7, <1>8, <1>9, <1>10, <1>12, <1>13, <1>14, <1>15 DEF Next

\* Replies that can be read never outrun the usage of the first month, over any finite
\* set of conversations.
THEOREM SpecRepliesAreCounted ==
    ASSUME IsFiniteSet(Conversations)
    PROVE  Spec => []RepliesAreCounted
<1>1. Init => CountedInv
  <2> SUFFICES ASSUME Init PROVE SumOf(replies) + Cardinality(Counted) <= used
    BY DEF CountedInv
  <2>1. SumOf(replies) = 0
    <3>1. replies \in [Conversations -> Nat] /\ \A c \in Conversations : replies[c] = 0
      BY DEF Init
    <3> QED  BY <3>1, SumCompare
  <2>2. Counted = {}  BY DEF Init, NoTurn, Counted, CountedPcs
  <2> QED  BY <2>1, <2>2, FS_EmptySet DEF Init
<1>2. CountedInv => RepliesAreCounted
  BY DEF CountedInv, RepliesAreCounted, SumOf, Counted, CountedPcs
<1>3. TypeOK /\ CountedInv /\ [Next]_vars => CountedInv'
  BY CountedNext
<1> QED  BY <1>1, <1>2, <1>3, ChatTypeCorrect, PTL DEF Spec

=============================================================================
