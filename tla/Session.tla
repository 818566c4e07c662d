-------------------------------- MODULE Session --------------------------------
(***************************************************************************)
(* One user's sessions: the RefreshToken rows behind AuthService, and a    *)
(* browser whose tabs share the token pair in localStorage.  A request r   *)
(* is a fetch of a tab together with the handler that serves it: each      *)
(* await of refresh() and logout() is an action, and so is the delivery of *)
(* the answer to the axios interceptor.  A pair of tokens is named by the  *)
(* jti of its refresh token; hashes and signatures are abstracted away.    *)
(***************************************************************************)
EXTENDS Naturals, FiniteSets

CONSTANTS
    Tokens,      \* jtis that issueTokens() may draw
    NoToken,     \* nothing stored, no Authorization header
    Tabs,        \* tabs of one browser
    Requests,    \* fetches that may be under way at the same time
    NoTab,       \* the tab of a slot that is free
    NoRequest,   \* refreshPromise is null
    Settled,     \* refreshPromise holds a promise that resolved to false
    MaxExpiries, \* bound: that many expiries of a token
    MaxLogins,   \* bound: that many log-ins
    MaxLost      \* bound: fetches nobody waits for, before another one is lost

ASSUME TokenAssumption == NoToken \notin Tokens /\ NoTab \notin Tabs
ASSUME BoundsAssumption == {MaxExpiries, MaxLogins, MaxLost} \subseteq Nat
ASSUME PromiseAssumption ==
    NoRequest \notin Requests /\ Settled \notin Requests /\ NoRequest # Settled

VARIABLES
    rows,      \* the RefreshToken rows, by jti
    issued,    \* the jtis drawn so far
    login,     \* the jti of the log-in a token descends from
    age,       \* 0: both tokens valid, 1: the access token expired, 2: both
    closed,    \* history: log-ins that a logout or a logoutAll was asked to end
    raced,     \* history: those it missed, a refresh having deleted their row first
    shared,    \* history: tokens sent by two tabs, or by a fetch nobody waits for
    stored,    \* the pair in localStorage
    page,      \* is the tab on a route under /auth or in the app?
    promise,   \* refreshPromise of the tab's API client
    req        \* the fetches and their handlers

server == <<rows, issued, login, age, closed, raced>>
browser == <<shared, stored, page, promise>>
vars == <<server, browser, req>>

Pcs == {"idle", "sent", "verified", "revoked", "ok", "unauthorized", "failed", "waiting"}
Ops == {"none", "call", "login", "refresh", "logout"}

\* token: the refresh token in the body; fresh: the pair in the answer; bearer: the
\* access token in the header; lost: nobody listens to the answer any more.
Request == [op : Ops, tab : Tabs \cup {NoTab}, pc : Pcs, token : Tokens \cup {NoToken},
            fresh : Tokens \cup {NoToken}, bearer : Tokens \cup {NoToken},
            retried : BOOLEAN, lost : BOOLEAN]

New(op, t, token, bearer) ==
    [op |-> op, tab |-> t, pc |-> "sent", token |-> token, fresh |-> NoToken,
     bearer |-> bearer, retried |-> FALSE, lost |-> FALSE]
Idle == [New("none", NoTab, NoToken, NoToken) EXCEPT !.pc = "idle"]

Init ==
    /\ rows = {}
    /\ issued = {}
    /\ login = [k \in Tokens |-> k]
    /\ age = [k \in Tokens |-> 0]
    /\ closed = {}
    /\ raced = {}
    /\ shared = {}
    /\ stored = NoToken
    /\ page = [t \in Tabs |-> "auth"]
    /\ promise = [t \in Tabs |-> NoRequest]
    /\ req = [r \in Requests |-> Idle]

At(r, op, pc) == req[r].op = op /\ req[r].pc = pc
GoTo(r, pc) == req' = [req EXCEPT ![r].pc = pc]
Done(r) == req' = [req EXCEPT ![r] = Idle]

-----------------------------------------------------------------------------
(* The handlers of AuthService.                                              *)

\* JwtAuthGuard and JwtStrategy.
Authenticated(r) == req[r].bearer # NoToken /\ age[req[r].bearer] = 0

\* Any other endpoint: only a refusal by the guard matters.
HandleCall(r) ==
    /\ At(r, "call", "sent")
    /\ IF Authenticated(r) THEN Done(r) ELSE GoTo(r, "unauthorized")
    /\ UNCHANGED <<server, browser>>

\* The refreshes between revoke() and issueTokens(): their log-in has no row.
Rotating == {r \in Requests : At(r, "refresh", "revoked")}

\* verifyRefreshToken: signature and expiry, then the row of the jti.
VerifyRefresh(r) ==
    /\ At(r, "refresh", "sent")
    /\ GoTo(r, IF req[r].token \in rows /\ age[req[r].token] < 2
                 THEN "verified" ELSE "unauthorized")
    /\ UNCHANGED <<server, browser>>

\* With deleteMany, which does not throw when the row is gone.
RevokeLeniently(r) ==
    /\ At(r, "refresh", "verified")
    /\ rows' = rows \ {req[r].token}
    /\ GoTo(r, "revoked")
    /\ UNCHANGED <<issued, login, age, closed, raced, browser>>

\* revoke(): delete throws P2025, a 500, when the row is gone.
Revoke(r) ==
    /\ At(r, "refresh", "verified")
    /\ rows' = rows \ {req[r].token}
    /\ GoTo(r, IF req[r].token \in rows THEN "revoked" ELSE "failed")
    /\ UNCHANGED <<issued, login, age, closed, raced, browser>>

\* issueTokens(): a new jti k with its row.
Issue(k, root) ==
    /\ issued' = issued \cup {k}
    /\ rows' = rows \cup {k}
    /\ login' = [login EXCEPT ![k] = root]
    /\ UNCHANGED <<age, closed, raced, browser>>

Rotate(r) ==
    \E k \in Tokens \ issued :
        /\ At(r, "refresh", "revoked")
        /\ Issue(k, login[req[r].token])
        /\ req' = [req EXCEPT ![r].pc = "ok", ![r].fresh = k]

\* logout(): the guard, then verifyRefreshToken with ignoreExpiration.
VerifyLogout(r) ==
    /\ At(r, "logout", "sent")
    /\ GoTo(r, IF Authenticated(r) /\ req[r].token \in rows
                 THEN "verified" ELSE "unauthorized")
    /\ UNCHANGED <<server, browser>>

\* A log-out whose row is gone answers 500, and what deleted the row may go on: it misses
\* its log-in, unless an earlier log-out has ended it.
RevokeLogout(r) ==
    /\ At(r, "logout", "verified")
    /\ rows' = rows \ {req[r].token}
    /\ closed' = closed \cup {login[req[r].token]}
    /\ raced' = IF req[r].token \in rows THEN raced \ {login[req[r].token]}
                ELSE raced \cup ({login[req[r].token]} \ closed)
    /\ GoTo(r, IF req[r].token \in rows THEN "revoked" ELSE "failed")
    /\ UNCHANGED <<issued, login, age, browser>>

RevokeExpired(r) ==
    /\ At(r, "logout", "revoked")
    /\ rows' = {k \in rows : age[k] < 2}
    /\ GoTo(r, "ok")
    /\ UNCHANGED <<issued, login, age, closed, raced, browser>>

\* logoutAll(), by any client that holds an access token: it means every log-in of the
\* user, and misses those whose refresh has no row at this moment.
LogoutAll ==
    /\ \E k \in issued : age[k] = 0
    /\ rows' = {}
    /\ closed' = closed \cup {login[k] : k \in issued}
    /\ raced' = {login[req[r].token] : r \in Rotating}
    /\ UNCHANGED <<issued, login, age, browser, req>>

\* The age of a token that nobody has is not looked at.
Held == UNION {{req[r].token, req[r].bearer} : r \in Requests}
InUse == rows \cup ((Held \cup {stored}) \ {NoToken})

\* 15 minutes, then 30 days.
Expire ==
    /\ Cardinality({k \in Tokens : age[k] > 0}) + Cardinality({k \in Tokens : age[k] = 2})
         < MaxExpiries
    /\ \E k \in InUse : age[k] < 2 /\ age' = [age EXCEPT ![k] = @ + 1]
    /\ UNCHANGED <<rows, issued, login, closed, raced, browser, req>>

-----------------------------------------------------------------------------
(* The tabs: guards, use-auth.ts and the axios client.                       *)

Waiting(t) == {r \in Requests : req[r].tab = t /\ req[r].pc = "waiting" /\ ~ req[r].lost}

\* The tab is gone, by a reload or a hard redirect: nobody listens to its fetches,
\* and those that only waited for the promise, or that change nothing, are gone with it.
Abandoned(t) ==
    [r \in Requests |-> IF req[r].tab # t \/ req[r].pc = "idle" THEN req[r]
                        ELSE IF req[r].pc = "waiting" \/ req[r].op \in {"call", "login"} THEN Idle
                        ELSE [req[r] EXCEPT !.lost = TRUE]]
SharedByLoss(t) ==
    shared \cup {req[r].token : r \in {q \in Requests :
                    req[q].tab = t /\ req[q].op = "refresh" /\ req[q].pc # "idle"}}

\* A route of the app without a session, and one under /auth with one.
RequireSession(t) ==
    /\ page[t] = "app" /\ stored = NoToken
    /\ page' = [page EXCEPT ![t] = "auth"]
    /\ UNCHANGED <<server, shared, stored, promise, req>>

RequireGuest(t) ==
    /\ page[t] = "auth" /\ stored # NoToken
    /\ page' = [page EXCEPT ![t] = "app"]
    /\ UNCHANGED <<server, shared, stored, promise, req>>

MayLose == Cardinality({r \in Requests : req[r].lost}) < MaxLost

Reload(t) ==
    /\ MayLose
    /\ page' = [page EXCEPT ![t] = IF stored # NoToken THEN "app" ELSE "auth"]
    /\ promise' = [promise EXCEPT ![t] = NoRequest]
    /\ shared' = SharedByLoss(t)
    /\ req' = Abandoned(t)
    /\ UNCHANGED <<server, stored>>

Start(r, t, op, token, bearer) ==
    /\ req[r].pc = "idle"
    /\ req' = [req EXCEPT ![r] = New(op, t, token, bearer)]
    /\ UNCHANGED <<server, browser>>

StartCall(r, t) == page[t] = "app" /\ Start(r, t, "call", NoToken, stored)

\* The log-in form disables itself while the mutation is pending; login() reads nothing
\* that changes, so the fetch and its handler are one step.
Login(r, t) ==
    \E k \in Tokens \ issued :
        /\ Cardinality({m \in issued : login[m] = m}) < MaxLogins
        /\ page[t] = "auth"
        /\ req[r].pc = "idle"
        /\ ~ \E q \in Requests : req[q].tab = t /\ req[q].op = "login" /\ ~ req[q].lost
        /\ Issue(k, k)
        /\ req' = [req EXCEPT ![r] = [New("login", t, NoToken, NoToken)
                                        EXCEPT !.pc = "ok", !.fresh = k]]

\* useLogout: disabled while pending; without a token it settles at once.
StartLogout(r, t) ==
    /\ page[t] = "app"
    /\ stored # NoToken
    /\ ~ \E q \in Requests : req[q].tab = t /\ req[q].op = "logout" /\ ~ req[q].lost
    /\ Start(r, t, "logout", stored, stored)

\* onSettled of useLogout: clearSession() and a push to /auth, without a reload.
Leave(t) ==
    /\ stored' = NoToken
    /\ page' = [page EXCEPT ![t] = "auth"]

LogoutWithoutToken(t) ==
    /\ page[t] = "app"
    /\ stored = NoToken
    /\ Leave(t)
    /\ UNCHANGED <<server, shared, promise, req>>

\* The fetch returns or throws; the mutation of useLogout settles either way.
Finish(r) ==
    /\ Done(r)
    /\ IF req[r].op = "logout" THEN Leave(req[r].tab) ELSE UNCHANGED <<stored, page>>
    /\ UNCHANGED <<server, shared, promise>>

\* endSessionAndRedirectToLogin(): a hard redirect, unless the tab is under /auth.
EndSession(t, settles) ==
    /\ stored' = NoToken
    /\ IF page[t] = "app"
         THEN /\ page' = [page EXCEPT ![t] = "auth"]
              /\ promise' = [promise EXCEPT ![t] = NoRequest]
              /\ shared' = SharedByLoss(t)
              /\ req' = [r \in Requests |-> IF r \in settles THEN Idle
                                            ELSE Abandoned(t)[r]]
         ELSE /\ req' = [r \in Requests |-> IF r \in settles THEN Idle
                                            ELSE req[r]]
              /\ UNCHANGED <<page, shared>>

DeliverLogout(r) ==
    /\ req[r].op = "logout" /\ ~ req[r].lost
    /\ \/ req[r].pc \in {"ok", "failed"}
       \/ req[r].pc = "unauthorized" /\ req[r].retried
    /\ Finish(r)

DeliverLogin(r) ==
    /\ At(r, "login", "ok") /\ ~ req[r].lost
    /\ stored' = req[r].fresh
    /\ page' = [page EXCEPT ![req[r].tab] = "app"]
    /\ Done(r)
    /\ UNCHANGED <<server, shared, promise>>

DeliverRefreshedOnly(r) ==
    /\ At(r, "refresh", "ok") /\ ~ req[r].lost
    /\ stored' = req[r].fresh
    /\ promise' = [promise EXCEPT ![req[r].tab] = NoRequest]
    /\ Done(r)
    /\ UNCHANGED <<server, shared, page>>

\* refreshAccessToken() succeeds: the pair is stored, the promise cleared, and a
\* log-out that waited is sent again as it was, under the new access token.
DeliverRefreshed(r) ==
    LET t == req[r].tab IN
    /\ At(r, "refresh", "ok") /\ ~ req[r].lost
    /\ stored' = req[r].fresh
    /\ promise' = [promise EXCEPT ![t] = NoRequest]
    /\ req' = [q \in Requests |->
                 IF q = r THEN Idle
                 ELSE IF q \in Waiting(t)
                        THEN [req[q] EXCEPT !.pc = "sent", !.bearer = req[r].fresh]
                 ELSE req[q]]
    /\ UNCHANGED <<server, shared, page>>

\* It fails: the catch ends the session, and finally clears the promise.
DeliverRefused(r) ==
    LET t == req[r].tab IN
    /\ req[r].op = "refresh" /\ req[r].pc \in {"unauthorized", "failed"} /\ ~ req[r].lost
    /\ EndSession(t, {r} \cup Waiting(t))
    /\ page[t] # "app" => promise' = [promise EXCEPT ![t] = NoRequest]
    /\ UNCHANGED server

\* The interceptor sees its first 401: a log-in is sent with skipAuth, a repeated
\* fetch with _retry, and neither comes here.
Intercepts(r) ==
    /\ req[r].op \in {"call", "logout"} /\ req[r].pc = "unauthorized"
    /\ ~ req[r].lost /\ ~ req[r].retried

\* It joins the refresh that is under way.  What a repeated call returns changes
\* nothing, so a call that joins is over; a log-out waits.
JoinRefresh(r) ==
    /\ Intercepts(r)
    /\ promise[req[r].tab] \in Requests
    /\ IF req[r].op = "call" THEN Done(r)
       ELSE req' = [req EXCEPT ![r].pc = "waiting", ![r].retried = TRUE]
    /\ UNCHANGED <<server, browser>>

JoinSettled(r) ==
    /\ Intercepts(r)
    /\ promise[req[r].tab] = Settled
    /\ Finish(r)

\* The tokens two fetches hold at the same time, or that may be held so.
SharedBy(t, token) ==
    IF \E q \in Requests : /\ req[q].op = "refresh" /\ req[q].pc # "idle"
                           /\ req[q].token = token /\ req[q].tab # t
      THEN shared \cup {token} ELSE shared

\* Every 401 starts a refresh of its own.
BeginRefreshAlways(r, q) ==
    LET t == req[r].tab IN
    /\ Intercepts(r)
    /\ stored # NoToken
    /\ IF req[r].op = "call" THEN q = r ELSE req[q].pc = "idle"
    /\ promise' = [promise EXCEPT ![t] = q]
    /\ shared' = SharedBy(t, stored)
    /\ req' = [p \in Requests |-> IF p = q THEN New("refresh", t, stored, NoToken)
                                  ELSE IF p = r THEN [req[p] EXCEPT !.pc = "waiting", !.retried = TRUE]
                                  ELSE req[p]]
    /\ UNCHANGED <<server, stored, page>>

\* The interceptor starts a refresh with the token stored now: in the slot of the call
\* itself, or in a free one beside the log-out that waits.
BeginRefresh(r, q) ==
    LET t == req[r].tab IN
    /\ Intercepts(r)
    /\ promise[t] = NoRequest
    /\ stored # NoToken
    /\ IF req[r].op = "call" THEN q = r ELSE req[q].pc = "idle"
    /\ promise' = [promise EXCEPT ![t] = q]
    /\ shared' = SharedBy(t, stored)
    /\ req' = [p \in Requests |-> IF p = q THEN New("refresh", t, stored, NoToken)
                                  ELSE IF p = r THEN [req[p] EXCEPT !.pc = "waiting", !.retried = TRUE]
                                  ELSE req[p]]
    /\ UNCHANGED <<server, stored, page>>

\* Nothing to refresh with: the early return is outside the try whose finally clears
\* the promise, so a tab that is not redirected keeps the promise of false.
NothingToRefresh(r) ==
    LET t == req[r].tab IN
    /\ Intercepts(r)
    /\ promise[t] = NoRequest
    /\ stored = NoToken
    /\ EndSession(t, {r})
    /\ page[t] # "app" => promise' = [promise EXCEPT ![t] = Settled]
    /\ UNCHANGED server

\* The answer does not arrive in time (30 s): the fetch fails, its handler goes on.
LoseAnswer(r) ==
    /\ MayLose
    /\ req[r].pc \notin {"idle", "waiting"} /\ ~ req[r].lost
    /\ IF req[r].op = "refresh"
         THEN LET t == req[r].tab IN
              /\ stored' = NoToken
              /\ shared' = SharedByLoss(t)
              /\ promise' = [promise EXCEPT ![t] = NoRequest]
              /\ page' = [page EXCEPT ![t] = "auth"]
              /\ req' = IF page[t] = "app" THEN Abandoned(t)
                        ELSE [q \in Requests |-> IF q = r THEN [req[q] EXCEPT !.lost = TRUE]
                                                 ELSE IF q \in Waiting(t) THEN Idle
                                                 ELSE req[q]]
              /\ UNCHANGED server
         ELSE /\ IF req[r].op \in {"call", "login"} THEN Done(r) ELSE req' = [req EXCEPT ![r].lost = TRUE]
              /\ IF req[r].op = "logout" THEN Leave(req[r].tab) ELSE UNCHANGED <<stored, page>>
              /\ UNCHANGED <<server, shared, promise>>

\* A handler that answers nobody, and one whose process dies.
Forget(r) ==
    /\ req[r].lost
    /\ req[r].pc \in {"ok", "unauthorized", "failed"}
    /\ Done(r)
    /\ UNCHANGED <<server, browser>>

Crash(r) ==
    /\ req[r].lost
    /\ req[r].pc \in {"sent", "verified", "revoked"}
    /\ Done(r)
    /\ UNCHANGED <<server, browser>>

-----------------------------------------------------------------------------

Handle(r) ==
    \/ HandleCall(r) \/ VerifyRefresh(r) \/ Revoke(r) \/ Rotate(r)
    \/ VerifyLogout(r) \/ RevokeLogout(r) \/ RevokeExpired(r)

Client(r) ==
    \/ DeliverLogout(r) \/ DeliverLogin(r) \/ DeliverRefreshed(r) \/ DeliverRefused(r)
    \/ JoinRefresh(r) \/ JoinSettled(r) \/ NothingToRefresh(r)
    \/ \E q \in Requests : BeginRefresh(r, q)

User(t) ==
    \/ RequireSession(t) \/ RequireGuest(t) \/ Reload(t) \/ LogoutWithoutToken(t)
    \/ \E r \in Requests : StartCall(r, t) \/ Login(r, t) \/ StartLogout(r, t)

Next ==
    \/ \E r \in Requests : Handle(r) \/ Client(r) \/ LoseAnswer(r) \/ Forget(r) \/ Crash(r)
    \/ \E t \in Tabs : User(t)
    \/ LogoutAll
    \/ Expire

Spec == Init /\ [][Next]_vars

-----------------------------------------------------------------------------

TypeOK ==
    /\ rows \subseteq Tokens
    /\ issued \subseteq Tokens
    /\ login \in [Tokens -> Tokens]
    /\ age \in [Tokens -> 0 .. 2]
    /\ closed \subseteq Tokens
    /\ raced \subseteq Tokens
    /\ shared \subseteq Tokens \cup {NoToken}
    /\ stored \in Tokens \cup {NoToken}
    /\ page \in [Tabs -> {"auth", "app"}]
    /\ promise \in [Tabs -> Requests \cup {NoRequest, Settled}]
    /\ req \in [Requests -> Request]

\* Rotation never forks a session: of the tokens that descend from one log-in at
\* most one has a row, and none while a rotation is between delete and create.
OneSuccessor ==
    /\ \A k, m \in rows : login[k] = login[m] => k = m
    /\ \A r, q \in Rotating : login[req[r].token] = login[req[q].token] => r = q
    /\ \A r \in Rotating, k \in rows : login[req[r].token] # login[k]

\* The log-ins a log-out has ended.
Ended == closed \ raced

\* A log-out ends its log-in for good, and logoutAll() ends all of them: a refresh that
\* verified its token before and revokes it afterwards brings no row back.  The only
\* log-in that survives is one whose refresh was between revoke() and issueTokens() at
\* that moment, or had taken the row away from a log-out that then answered 500.
LogoutIsFinal == \A k \in rows : login[k] \notin Ended

\* refreshAccessToken() sends a stored token once: while nobody else holds the
\* token, its refresh is refused only because the session is over.
RefusedOnlyIfOver ==
    \A r \in Requests :
        req[r].op = "refresh" /\ req[r].pc \in {"unauthorized", "failed"} /\ ~ req[r].lost
        => \/ age[req[r].token] = 2
           \/ login[req[r].token] \in Ended
           \/ req[r].token \in shared

\* A log-out that waits for refreshPromise waits for a fetch of its own tab that is
\* under way and whose answer somebody will handle.
WaitersAreWoken ==
    \A r \in Requests : req[r].pc = "waiting" =>
        LET q == promise[req[r].tab] IN
        q \in Requests /\ req[q].op = "refresh" /\ req[q].tab = req[r].tab
                       /\ req[q].pc \notin {"idle", "waiting"} /\ ~ req[q].lost

=============================================================================
