------------------------------ MODULE PublicApi ------------------------------
(***************************************************************************)
(* The public API of an agent: the guard that checks a request's key and   *)
(* counts it in Redis, await by await; the service that creates and        *)
(* revokes keys; and the dashboard's page of active keys, a cached list    *)
(* that is read again after every change.                                  *)
(***************************************************************************)
EXTENDS Integers, FiniteSets, QueryCache

CONSTANTS
    Keys,        \* AgentApiKey rows that can be created
    Agents,
    Agent,       \* the one whose page of keys is open
    Origins,     \* values of the Origin header
    NoOrigin,    \* a request that is not sent by a browser's page
    Requests,    \* public requests that may be in flight together
    Rpm,         \* rateLimitRpm of every key, at least 1
    TicksPerSec, \* ticks of a second: Date.now() and Redis count milliseconds
    WindowSec,   \* seconds of a window
    MaxClock,    \* bound: ticks
    MaxServed,   \* bound: requests counted
    MaxErrors    \* bound: calls of Redis or of the API that fail

VARIABLES
    created, revoked,  \* the AgentApiKey rows, and those with a revokedAt
    origins,           \* a row's allowedOrigins
    active,            \* the isActive of Agent
    clock,             \* ticks, as Date.now() and Redis see them
    counter,           \* Redis: count and expiry of api_key_rpm:<key>:<window>
    request,           \* the requests inside the guard
    onTime,            \* history: admitted requests that were counted in their own window
    served, errors,    \* counters of the bounds
    page               \* the page of active keys

rows == <<created, revoked, origins, active>>
redis == <<clock, counter>>
gate == <<request, onTime, served>>
public == <<rows, redis, gate, errors, page>>

NoTtl == -1
Span == TicksPerSec * WindowSec
Windows == 0 .. MaxClock \div Span
Window(t) == t \div Span
Outside == [pc |-> "out", key |-> "none", agent |-> "none", origin |-> NoOrigin,
            window |-> 0, retryAt |-> 0, sure |-> FALSE]
ClosedPage == [open |-> FALSE, shown |-> {}, fetch |-> "none", got |-> {},
               secret |-> "none", create |-> "none", fresh |-> "none",
               revoke |-> "none", target |-> "none"]

PublicInit ==
    /\ created = {} /\ revoked = {}
    /\ origins = [k \in Keys |-> {}] /\ active = TRUE
    /\ clock = 0
    /\ counter = [k \in Keys |-> [w \in Windows |-> [count |-> 0, dies |-> NoTtl]]]
    /\ request = [r \in Requests |-> Outside]
    /\ onTime = [k \in Keys |-> [w \in Windows |-> 0]]
    /\ served = 0 /\ errors = 0
    /\ page = ClosedPage

-----------------------------------------------------------------------------
(* ApiKeyGuard.canActivate and ApiKeyRateLimitService.assertWithinLimit.     *)

\* A request reaches the guard with a key that was handed out.
Arrive(r) ==
    /\ request[r] = Outside
    /\ served < MaxServed
    /\ \E k \in created, a \in Agents, o \in Origins \cup {NoOrigin} :
          request' = [request EXCEPT ![r] =
              [Outside EXCEPT !.pc = "find", !.key = k, !.agent = a, !.origin = o]]
    /\ served' = served + 1
    /\ UNCHANGED <<rows, redis, onTime, errors, page>>

Acceptable(q) ==
    /\ q.key \in created \ revoked
    /\ q.agent = Agent /\ active
    /\ q.origin = NoOrigin \/ q.origin \in origins[q.key]

\* The row is read with its agent; a 401 or a 403 ends the request.
Find(r) ==
    /\ request[r].pc = "find"
    /\ request' = [request EXCEPT ![r] =
                     IF Acceptable(@) THEN [@ EXCEPT !.pc = "window", !.agent = "none", !.origin = NoOrigin] ELSE Outside]
    /\ UNCHANGED <<rows, redis, onTime, served, errors, page>>

\* Once Redis is connected the clock names the window's counter.
ReadClock(r) ==
    /\ request[r].pc = "window"
    /\ request' = [request EXCEPT ![r].pc = "incr", ![r].window = Window(clock)]
    /\ UNCHANGED <<rows, redis, onTime, served, errors, page>>

\* INCR starts an expired or unknown counter at 1.
Alive(c) == c.count > 0 /\ (c.dies = NoTtl \/ clock < c.dies)
Incremented(c) == IF Alive(c) THEN [c EXCEPT !.count = @ + 1] ELSE [count |-> 1, dies |-> NoTtl]

\* Past the limit the guard asks for the counter's expiry; else the handler runs
\* (ChatTurn models the turn itself).
Proceed(r, count) ==
    LET q == request[r] IN
    IF count > Rpm
    THEN request' = [request EXCEPT ![r].pc = "ttl"] /\ UNCHANGED onTime
    ELSE /\ request' = [request EXCEPT ![r] = Outside]
         /\ onTime' = IF Window(clock) = q.window
                      THEN [onTime EXCEPT ![q.key][q.window] = @ + 1] ELSE onTime

\* The limit is compared with the count before this request.
IncrLate(r) ==
    /\ request[r].pc = "incr"
    /\ LET q == request[r]
           c == Incremented(counter[q.key][q.window]) IN
       /\ counter' = [counter EXCEPT ![q.key][q.window] = c]
       /\ IF c.count = 1
          THEN request' = [request EXCEPT ![r].pc = "expire"] /\ UNCHANGED onTime
          ELSE Proceed(r, c.count - 1)
    /\ UNCHANGED <<rows, clock, served, errors, page>>

\* Only the counter's first request goes on to set its expiry.
Incr(r) ==
    /\ request[r].pc = "incr"
    /\ LET q == request[r]
           c == Incremented(counter[q.key][q.window]) IN
       /\ counter' = [counter EXCEPT ![q.key][q.window] = c]
       /\ IF c.count = 1
          THEN request' = [request EXCEPT ![r].pc = "expire"] /\ UNCHANGED onTime
          ELSE Proceed(r, c.count)
    /\ UNCHANGED <<rows, clock, served, errors, page>>

\* EXPIRE finds nothing to do when the counter has gone.
Expiring(c) == IF Alive(c) THEN [c EXCEPT !.dies = clock + Span] ELSE c

\* The count in hand is 1.
SetExpiry(r) ==
    /\ request[r].pc = "expire"
    /\ LET q == request[r] IN
       counter' = [counter EXCEPT ![q.key][q.window] = Expiring(@)]
    /\ Proceed(r, 1)
    /\ UNCHANGED <<rows, clock, served, errors, page>>

\* TTL rounds the time that a counter has left to whole seconds.
Seconds(t) == (2 * t + TicksPerSec) \div (2 * TicksPerSec)

\* 429: Retry-After is the counter's time to live, at least one second; Redis answers
\* -1 when the counter has no expiry and -2 when it has gone.
TooMany(r) ==
    /\ request[r].pc = "ttl"
    /\ LET q == request[r]
           c == counter[q.key][q.window]
           ttl == IF ~ Alive(c) THEN -2 ELSE IF c.dies = NoTtl THEN NoTtl ELSE Seconds(c.dies - clock) IN
       request' = [request EXCEPT ![r].pc = "refused",
           ![r].retryAt = clock + TicksPerSec * (IF ttl > 1 THEN ttl ELSE 1), ![r].sure = ttl # NoTtl]
    /\ UNCHANGED <<rows, redis, onTime, served, errors, page>>

Leave(r) ==
    /\ request[r].pc = "refused"
    /\ request' = [request EXCEPT ![r] = Outside]
    /\ UNCHANGED <<rows, redis, onTime, served, errors, page>>

\* A Redis command fails (maxRetriesPerRequest 1): a 500, with or without its effect.
RedisFails(r) ==
    /\ request[r].pc \in {"incr", "expire", "ttl"}
    /\ errors < MaxErrors
    /\ errors' = errors + 1
    /\ LET q == request[r] IN
       \/ UNCHANGED counter
       \/ q.pc = "incr" /\ counter' = [counter EXCEPT ![q.key][q.window] = Incremented(@)]
       \/ q.pc = "expire" /\ counter' = [counter EXCEPT ![q.key][q.window] = Expiring(@)]
    /\ request' = [request EXCEPT ![r] = Outside]
    /\ UNCHANGED <<rows, clock, onTime, served, page>>

Tick ==
    /\ clock < MaxClock
    /\ clock' = clock + 1
    /\ UNCHANGED <<rows, counter, gate, errors, page>>

\* The agent is paused or resumed in its settings.
ToggleAgent ==
    /\ active' = ~ active
    /\ UNCHANGED <<created, revoked, origins, redis, gate, errors, page>>

-----------------------------------------------------------------------------
(* AgentApiKeysView of one agent and ApiKeysService behind it.               *)

CreateSettled(p) == [p EXCEPT !.create = "none", !.fresh = "none"]
RevokeSettled(p) == [p EXCEPT !.revoke = "none", !.target = "none"]

\* The page opens and lists the active keys.
OpenPage ==
    /\ ~ page.open
    /\ page' = Invalidated([page EXCEPT !.open = TRUE])
    /\ UNCHANGED <<rows, redis, gate, errors>>

\* onCreate: the form's button is disabled while it runs, and out of reach behind the
\* dialog of a revocation.
SubmitCreate ==
    /\ page.open /\ page.create = "none" /\ page.revoke = "none"
    /\ Keys \ created # {}
    /\ page' = [page EXCEPT !.create = "sent"]
    /\ UNCHANGED <<rows, redis, gate, errors>>

\* ApiKeysService.create.
CreateKey ==
    /\ page.create = "sent"
    /\ \E k \in Keys \ created, os \in SUBSET Origins \ {{}} :
          /\ created' = created \cup {k}
          /\ origins' = [origins EXCEPT ![k] = os]
          /\ page' = [page EXCEPT !.create = "done", !.fresh = k]
    /\ UNCHANGED <<revoked, active, redis, gate, errors>>

\* The secret is shown, and the list read again.
ShowSecret ==
    /\ page.create = "done"
    /\ page' = CreateSettled(Invalidated([page EXCEPT !.secret = page.fresh]))
    /\ UNCHANGED <<rows, redis, gate, errors>>

HideSecret ==
    /\ page.secret # "none"
    /\ page' = [page EXCEPT !.secret = "none"]
    /\ UNCHANGED <<rows, redis, gate, errors>>

\* onRevoke, after the dialog was confirmed: the dialog stays open until it settles.
\* A creation may be on its way.
ConfirmRevoke(k) ==
    /\ page.revoke = "none"
    /\ k \in page.shown
    /\ page' = [page EXCEPT !.revoke = "sent", !.target = k]
    /\ UNCHANGED <<rows, redis, gate, errors>>

\* ApiKeysService.revoke: a key that is revoked already is a 404.
RevokeKey ==
    /\ page.revoke = "sent"
    /\ IF page.target \in created \ revoked
       THEN revoked' = revoked \cup {page.target} /\ page' = [page EXCEPT !.revoke = "done"]
       ELSE page' = RevokeSettled(page) /\ UNCHANGED revoked
    /\ UNCHANGED <<created, origins, active, redis, gate, errors>>

\* The list is not read again.
RevokeAnsweredOnly ==
    /\ page.revoke = "done"
    /\ page' = RevokeSettled(page)
    /\ UNCHANGED <<rows, redis, gate, errors>>

RevokeAnswered ==
    /\ page.revoke = "done"
    /\ page' = RevokeSettled(Invalidated(page))
    /\ UNCHANGED <<rows, redis, gate, errors>>

\* The list answers, and later its answer is rendered.
AnswerList ==
    /\ page.fetch = "sent"
    /\ page' = Answered(page, created \ revoked)
    /\ UNCHANGED <<rows, redis, gate, errors>>

RenderList ==
    /\ page.fetch = "answered"
    /\ page' = Rendered(page)
    /\ UNCHANGED <<rows, redis, gate, errors>>

\* A call of the page is lost, before or after its effect: the toast shows an error.
\* A read of the list that failed leaves the page as it is.
LoseCall ==
    /\ errors < MaxErrors
    /\ errors' = errors + 1
    /\ \/ page.create # "none" /\ page' = CreateSettled(page)
       \/ page.revoke # "none" /\ page' = RevokeSettled(page)
       \/ page.fetch # "none" /\ page' = Failed(page)
    /\ UNCHANGED <<rows, redis, gate>>

PublicNext ==
    \/ \E r \in Requests :
          \/ Arrive(r) \/ Find(r) \/ ReadClock(r) \/ Incr(r) \/ SetExpiry(r)
          \/ TooMany(r) \/ Leave(r) \/ RedisFails(r)
    \/ Tick \/ ToggleAgent
    \/ OpenPage \/ SubmitCreate \/ CreateKey \/ ShowSecret \/ HideSecret
    \/ \E k \in Keys : ConfirmRevoke(k)
    \/ RevokeKey \/ RevokeAnswered \/ AnswerList \/ RenderList \/ LoseCall

PublicSpec == PublicInit /\ [][PublicNext]_public

-----------------------------------------------------------------------------

\* INCR and EXPIRE are two commands and requests overlap; still, of the requests that
\* are counted in the minute they arrived in, at most rateLimitRpm get past the guard
\* (one that is counted after its minute may find its counter expired), and Retry-After
\* sends a client into another window or into the last half second of this one, which
\* TTL may have rounded away, unless the 429 was answered before the counter's expiry was
\* set, or after that command was lost.
HalfSecond == (TicksPerSec - 1) \div 2
WindowsAreFixed ==
    /\ \A k \in Keys, w \in Windows : onTime[k][w] <= Rpm
    /\ \A r \in Requests :
          request[r].sure => Window(request[r].retryAt + HalfSecond) > request[r].window

\* When the page has nothing in flight and no call of it was lost, it lists exactly
\* the keys that work.
PageIsCurrent ==
    page.open /\ page.fetch = "none" /\ page.create = "none" /\ page.revoke = "none" /\ errors = 0
        => page.shown = created \ revoked
=============================================================================
