------------------------------- MODULE ChatTurn -------------------------------
(***************************************************************************)
(* One agent's chat endpoint: ChatService.streamChat behind the dashboard  *)
(* and the public controller, with the monthly quota of PlanLimitsService. *)
(* A turn is one HTTP request; every await of the generator is an action,  *)
(* and the first event it yields opens the SSE response.  Message texts,   *)
(* prompts and retrieved chunks are abstracted away: the model keeps which *)
(* rows exist, what is counted and how the response ends.                  *)
(***************************************************************************)
EXTENDS Naturals, FiniteSets, Functions

CONSTANTS
    Turns,           \* requests that may be in flight at the same time
    Conversations,   \* identities a conversation can be created with
    NoConversation,  \* the request names none, or a new one was not created yet
    Limit,           \* chatMessagesPerMonth of the workspace's plan
    LastMonth,       \* bound: the months 0 .. LastMonth are explored
    MaxQuestions     \* bound: nothing is sent to a conversation with that many

ASSUME TurnsAssumption == IsFiniteSet(Turns) /\ Turns # {}
ASSUME LimitAssumption == Limit \in Nat /\ LastMonth \in Nat /\ MaxQuestions \in Nat
ASSUME NoConversationAssumption == NoConversation \notin Conversations

VARIABLES
    month,       \* index of currentPeriodStart()
    used,        \* WorkspaceUsage.chatMessages of that period
    agent,       \* the agent row: active, inactive or deleted
    ready,       \* does the agent have a READY knowledge source attached?
    conv,        \* the conversation rows: none, open, deleted
    questions,   \* USER messages per conversation
    replies,     \* ASSISTANT messages per conversation
    turn         \* the requests in flight and their responses

rows == <<agent, ready, conv, questions, replies>>
usage == <<month, used>>
vars == <<rows, usage, turn>>

Pcs == {"idle", "quota", "agent", "sources", "load", "conversation", "question",
        "count", "history", "retrieve", "generate", "reply", "closed"}

\* The request: dashboard or public, with or without a conversationId, and the
\* response so far: HTTP status, SSE opened, terminal SSE event.
NoTurn == [pc |-> "idle", public |-> FALSE, conv |-> NoConversation,
           http |-> 0, terminal |-> "none"]

Init ==
    /\ month = 0
    /\ used = 0
    /\ agent = "active"
    /\ ready = TRUE
    /\ conv = [c \in Conversations |-> "none"]
    /\ questions = [c \in Conversations |-> 0]
    /\ replies = [c \in Conversations |-> 0]
    /\ turn = [t \in Turns |-> NoTurn]

GoTo(t, from, to) ==
    /\ turn[t].pc = from
    /\ turn' = [turn EXCEPT ![t].pc = to]

\* An exception that leaves the generator: a JSON body with the status while no
\* event was written, else one more SSE event of type error.
Throw(t, from, status) ==
    /\ turn[t].pc = from
    /\ turn' = [turn EXCEPT ![t].pc = "closed",
                            ![t].http = IF @ = 0 THEN status ELSE @,
                            ![t].terminal = IF turn[t].http = 0 THEN @ ELSE "error"]

-----------------------------------------------------------------------------
(* The request: controllers and streamChat up to the first event.            *)

\* Bounds: no new conversation without an identity left for it.
Creating == {t \in Turns : turn[t].conv = NoConversation
                            /\ turn[t].pc \notin {"idle", "closed"}}

\* ApiKeyGuard lets a public request through only while the agent is active.
Send(t, public, c) ==
    /\ turn[t].pc = "idle"
    /\ public => agent = "active"
    /\ \/ c \in Conversations /\ conv[c] # "none" /\ questions[c] < MaxQuestions
       \/ c = NoConversation /\ Cardinality(Creating)
                               < Cardinality({d \in Conversations : conv[d] = "none"})
    /\ turn' = [turn EXCEPT ![t] = [pc |-> "quota", public |-> public, conv |-> c,
                                    http |-> 0, terminal |-> "none"]]
    /\ UNCHANGED <<rows, usage>>

\* PlanLimitReachedException extends ForbiddenException.
AssertQuota(t) ==
    /\ \/ used < Limit /\ GoTo(t, "quota", "agent")
       \/ used >= Limit /\ Throw(t, "quota", 403)
    /\ UNCHANGED <<rows, usage>>

AssertAgentStreams(t) ==
    /\ turn[t].pc = "agent"
    /\ agent # "deleted"
    /\ turn' = [turn EXCEPT ![t].pc = "sources", ![t].http = 200]
    /\ UNCHANGED <<rows, usage>>

AssertAgent(t) ==
    /\ \/ agent = "deleted" /\ Throw(t, "agent", 404)
       \/ agent = "inactive" /\ turn[t].public /\ Throw(t, "agent", 400)
       \/ /\ agent = "active" \/ (agent = "inactive" /\ ~ turn[t].public)
          /\ GoTo(t, "agent", "sources")
    /\ UNCHANGED <<rows, usage>>

\* The last check; then the events "started" and "retrieving" open the stream.
AssertSources(t) ==
    /\ \/ ~ ready /\ Throw(t, "sources", 400)
       \/ /\ ready
          /\ turn[t].pc = "sources"
          /\ turn' = [turn EXCEPT ![t].pc = "load", ![t].http = 200]
    /\ UNCHANGED <<rows, usage>>

-----------------------------------------------------------------------------
(* prepareChat.                                                              *)

LoadAgent(t) ==
    /\ \/ agent = "deleted" /\ Throw(t, "load", 404)
       \/ agent # "deleted" /\ GoTo(t, "load", "conversation")
    /\ UNCHANGED <<rows, usage>>

CreateWithoutQuestion(t) ==
    /\ turn[t].conv = NoConversation
    /\ turn[t].pc = "conversation"
    /\ agent # "deleted"
    /\ \E c \in Conversations :
          /\ conv[c] = "none"
          /\ conv' = [conv EXCEPT ![c] = "open"]
          /\ turn' = [turn EXCEPT ![t].pc = "count", ![t].conv = c]
    /\ UNCHANGED <<agent, ready, questions, replies, usage>>

\* No conversationId: a row is created (its foreign key needs the agent).
CreateConversation(t) ==
    /\ turn[t].conv = NoConversation
    /\ \/ /\ agent # "deleted"
          /\ turn[t].pc = "conversation"
          /\ \E c \in Conversations :
                /\ conv[c] = "none"
                /\ conv' = [conv EXCEPT ![c] = "open"]
                /\ turn' = [turn EXCEPT ![t].pc = "question", ![t].conv = c]
       \/ /\ agent = "deleted"
          /\ Throw(t, "conversation", 500)
          /\ UNCHANGED conv
    /\ UNCHANGED <<agent, ready, questions, replies, usage>>

FindConversation(t) ==
    /\ turn[t].conv # NoConversation
    /\ \/ conv[turn[t].conv] = "open" /\ GoTo(t, "conversation", "question")
       \/ conv[turn[t].conv] # "open" /\ Throw(t, "conversation", 404)
    /\ UNCHANGED <<rows, usage>>

SaveQuestionUncounted(t) ==
    LET c == turn[t].conv IN
    /\ GoTo(t, "question", "history")
    /\ conv[c] = "open"
    /\ questions' = [questions EXCEPT ![c] = @ + 1]
    /\ UNCHANGED <<agent, ready, conv, replies, usage>>

\* message.create fails on its foreign key once the conversation is gone.
SaveQuestion(t) ==
    LET c == turn[t].conv IN
    /\ \/ /\ turn[t].pc = "question"
          /\ conv[c] = "open"
          /\ GoTo(t, "question", "count")
          /\ questions' = [questions EXCEPT ![c] = @ + 1]
       \/ /\ turn[t].pc = "question"
          /\ conv[c] # "open"
          /\ Throw(t, "question", 500)
          /\ UNCHANGED questions
    /\ UNCHANGED <<agent, ready, conv, replies, usage>>

\* The upsert increments the row of the month it runs in, not of the check.
IncrementUsage(t) ==
    /\ GoTo(t, "count", "history")
    /\ used' = used + 1
    /\ UNCHANGED <<rows, month>>

LoadHistory(t) ==
    /\ GoTo(t, "history", "retrieve")
    /\ UNCHANGED <<rows, usage>>

\* retrieve() reads the attachments again and embeds the question.
Retrieve(t) ==
    /\ \/ ready /\ GoTo(t, "retrieve", "generate")
       \/ Throw(t, "retrieve", 500)
    /\ UNCHANGED <<rows, usage>>

-----------------------------------------------------------------------------
(* The generation.                                                           *)

\* The catch block of streamChat turns a failure into the event "error".
FailWithEvent(t, from) ==
    /\ turn[t].pc = from
    /\ turn' = [turn EXCEPT ![t].pc = "closed", ![t].terminal = "error"]

Generate(t) ==
    /\ GoTo(t, "generate", "reply") \/ FailWithEvent(t, "generate")
    /\ UNCHANGED <<rows, usage>>

SaveReplyCounted(t) ==
    LET c == turn[t].conv IN
    /\ turn[t].pc = "reply"
    /\ conv[c] = "open"
    /\ replies' = [replies EXCEPT ![c] = @ + 1]
    /\ turn' = [turn EXCEPT ![t].pc = "closed", ![t].terminal = "done"]
    /\ used' = used + 1
    /\ UNCHANGED <<agent, ready, conv, questions, month>>

SaveReply(t) ==
    LET c == turn[t].conv IN
    /\ \/ /\ turn[t].pc = "reply"
          /\ conv[c] = "open"
          /\ replies' = [replies EXCEPT ![c] = @ + 1]
          /\ turn' = [turn EXCEPT ![t].pc = "closed", ![t].terminal = "done"]
       \/ /\ turn[t].pc = "reply"
          /\ conv[c] # "open"
          /\ FailWithEvent(t, "reply")
          /\ UNCHANGED replies
    /\ UNCHANGED <<agent, ready, conv, questions, usage>>

\* The response is written and the slot is free for another request.
Close(t) ==
    /\ turn[t].pc = "closed"
    /\ turn' = [turn EXCEPT ![t] = NoTurn]
    /\ UNCHANGED <<rows, usage>>

-----------------------------------------------------------------------------
(* What happens around the turns.                                            *)

\* The one API process dies with every turn in it; the rows stay.
Crash ==
    /\ turn' = [t \in Turns |-> NoTurn]
    /\ UNCHANGED <<rows, usage>>

NewMonth ==
    /\ month < LastMonth
    /\ month' = month + 1
    /\ used' = 0
    /\ UNCHANGED <<rows, turn>>

\* The conversations cs go, and their messages with them.
Drop(cs) ==
    /\ conv' = [c \in Conversations |->
                   IF c \in cs /\ conv[c] = "open" THEN "deleted" ELSE conv[c]]
    /\ questions' = [c \in Conversations |-> IF c \in cs THEN 0 ELSE questions[c]]
    /\ replies' = [c \in Conversations |-> IF c \in cs THEN 0 ELSE replies[c]]

\* The dashboard deletes the selected conversations of the agent.
RemoveMany(cs) ==
    /\ agent # "deleted"
    /\ Drop(cs)
    /\ UNCHANGED <<agent, ready, usage, turn>>

SetActive ==
    /\ agent \in {"active", "inactive"}
    /\ agent' = IF agent = "active" THEN "inactive" ELSE "active"
    /\ UNCHANGED <<ready, conv, questions, replies, usage, turn>>

\* Conversations and attachments cascade from the agent.
DeleteAgent ==
    /\ agent # "deleted"
    /\ agent' = "deleted"
    /\ ready' = FALSE
    /\ Drop(Conversations)
    /\ UNCHANGED <<usage, turn>>

\* Sources are attached, detached, removed, or change their status.
SourcesChange ==
    /\ agent # "deleted"
    /\ ready' = ~ ready
    /\ UNCHANGED <<agent, conv, questions, replies, usage, turn>>

Serve(t) ==
    \/ AssertQuota(t)
    \/ AssertAgent(t)
    \/ AssertSources(t)
    \/ LoadAgent(t)
    \/ CreateConversation(t)
    \/ FindConversation(t)
    \/ SaveQuestion(t)
    \/ IncrementUsage(t)
    \/ LoadHistory(t)
    \/ Retrieve(t)
    \/ Generate(t)
    \/ SaveReply(t)

Next ==
    \/ \E t \in Turns, public \in BOOLEAN, c \in Conversations \cup {NoConversation} :
          Send(t, public, c)
    \/ \E t \in Turns : Serve(t) \/ Close(t)
    \/ Crash
    \/ NewMonth
    \/ \E cs \in SUBSET Conversations : RemoveMany(cs)
    \/ SetActive
    \/ DeleteAgent
    \/ SourcesChange

Spec == Init /\ [][Next]_vars

-----------------------------------------------------------------------------
(* Properties.                                                               *)

TypeOK ==
    /\ month \in 0 .. LastMonth
    /\ used \in Nat
    /\ agent \in {"active", "inactive", "deleted"}
    /\ ready \in BOOLEAN
    /\ conv \in [Conversations -> {"none", "open", "deleted"}]
    /\ questions \in [Conversations -> Nat]
    /\ replies \in [Conversations -> Nat]
    /\ turn \in [Turns -> [pc : Pcs, public : BOOLEAN,
                           conv : Conversations \cup {NoConversation},
                           http : {0, 200, 400, 403, 404, 500},
                           terminal : {"none", "done", "error"}]]

\* Requests that passed the quota check and have not counted their message.
Admitted == {t \in Turns : turn[t].pc \in {"agent", "sources", "load",
                              "conversation", "question", "count"}}

\* The monthly quota is admission control with overshoot: PlanAdmission bounds
\* it by the requests in flight, and the chat endpoint implements that.
Quota == INSTANCE PlanAdmission WITH Requests <- Turns, passed <- Admitted
ImplementsQuota == Quota!Spec
QuotaOvershootBounded == Quota!Overshoot

\* No conversation holds more replies than questions, counting the turns that
\* still owe theirs: a reply is never saved for a question that was not.
Answering(c) == {t \in Turns : turn[t].conv = c /\
                    turn[t].pc \in {"count", "history", "retrieve", "generate", "reply"}}
RepliesAnswerQuestions ==
    \A c \in Conversations :
        conv[c] = "open" => replies[c] + Cardinality(Answering(c)) <= questions[c]

\* Every reply a user can read was counted against the quota, in whichever
\* month: a turn cannot reach the model without the increment.
RepliesAreCounted ==
    month = 0 =>
        FoldFunction(LAMBDA a, b : a + b, 0, replies)
            + Cardinality({t \in Turns : turn[t].pc \in {"history", "retrieve",
                                                          "generate", "reply"}})
            <= used

\* "Fail before opening the SSE stream so the client gets a normal JSON body":
\* a closed response is either a JSON error and no event, or a stream that
\* opened with 200 and ended with exactly one of done and error; the stream is
\* not open while one of the three checks can still refuse the turn.
ResponseWellFormed ==
    \A t \in Turns :
        /\ turn[t].pc = "closed" =>
              \/ turn[t].http >= 400 /\ turn[t].terminal = "none"
              \/ turn[t].http = 200 /\ turn[t].terminal # "none"
        /\ turn[t].pc \notin {"idle", "closed"} =>
              (turn[t].http = 0 <=> turn[t].pc \in {"quota", "agent", "sources"})

=============================================================================
