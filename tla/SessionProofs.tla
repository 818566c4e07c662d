----------------------------- MODULE SessionProofs -----------------------------
(***************************************************************************)
(* For every set of tabs, fetches and tokens: the types, that rotation     *)
(* never forks a session, that a log-out is final, that whoever waits for  *)
(* a refresh is woken, and that a refresh is refused only when the session *)
(* is over.                                                                *)
(***************************************************************************)
EXTENDS Session, TLAPS

USE TokenAssumption, PromiseAssumption

-----------------------------------------------------------------------------
(* Requests as values.                                                       *)

LEMMA IdleType == Idle \in Request /\ Idle.pc = "idle" /\ Idle.op = "none"
  BY DEF Idle, New, Request, Pcs, Ops

LEMMA NewType ==
    ASSUME NEW op \in Ops, NEW t \in Tabs \cup {NoTab},
           NEW token \in Tokens \cup {NoToken}, NEW bearer \in Tokens \cup {NoToken}
    PROVE  New(op, t, token, bearer) \in Request
           /\ New(op, t, token, bearer).pc = "sent"
           /\ New(op, t, token, bearer).op = op
  BY DEF New, Request, Pcs

\* A step of a fetch in place keeps it a request.
LEMMA RequestEdits ==
    ASSUME NEW q \in Request, NEW pc \in Pcs, NEW b \in BOOLEAN,
           NEW k \in Tokens \cup {NoToken}
    PROVE  /\ [q EXCEPT !.pc = pc] \in Request
           /\ [q EXCEPT !.lost = b] \in Request
           /\ [q EXCEPT !.pc = pc, !.retried = b] \in Request
           /\ [q EXCEPT !.pc = pc, !.fresh = k] \in Request
           /\ [q EXCEPT !.pc = pc, !.bearer = k] \in Request
  BY DEF Request

LEMMA AbandonedType ==
    ASSUME TypeOK, NEW t
    PROVE  Abandoned(t) \in [Requests -> Request]
<1>1. \A r \in Requests : [req[r] EXCEPT !.lost = TRUE] \in Request
  BY RequestEdits DEF TypeOK, Pcs
<1> QED  BY <1>1, IdleType DEF Abandoned, TypeOK

\* A step that answers r, or gives its slot to something new, touches no other fetch.
LEMMA Replace ==
    ASSUME TypeOK, NEW r \in Requests, NEW new \in Request,
           req' = [req EXCEPT ![r] = new]
    PROVE  /\ req' \in [Requests -> Request]
           /\ req'[r] = new
           /\ \A q \in Requests \ {r} : req'[q] = req[q]
  BY DEF TypeOK

LEMMA GoToReplaces ==
    ASSUME TypeOK, NEW r \in Requests, NEW pc \in Pcs, GoTo(r, pc)
    PROVE  /\ req' \in [Requests -> Request]
           /\ req'[r].pc = pc /\ req'[r].op = req[r].op /\ req'[r].token = req[r].token
           /\ \A q \in Requests \ {r} : req'[q] = req[q]
  BY DEF TypeOK, GoTo, Request

LEMMA DoneReplaces ==
    ASSUME TypeOK, NEW r \in Requests, Done(r)
    PROVE  /\ req' \in [Requests -> Request]
           /\ req'[r].pc = "idle"
           /\ \A q \in Requests \ {r} : req'[q] = req[q]
  BY IdleType DEF TypeOK, Done

-----------------------------------------------------------------------------
(* The invariant.                                                            *)

\* The log-outs that have read the row and not yet deleted it.
Outgoing == {r \in Requests : At(r, "logout", "verified")}

\* The rows, the closed log-ins, the rotations under way and the log-outs about to delete
\* are about issued tokens, which descend from issued ones; no rotation is of an ended log-in.
Descent ==
    /\ rows \subseteq issued
    /\ closed \subseteq issued
    /\ \A k \in issued : login[k] \in issued
    /\ \A r \in Rotating : req[r].token \in issued /\ login[req[r].token] \notin Ended
    /\ \A r \in Outgoing : req[r].token \in issued

SessionInv == TypeOK /\ Descent /\ OneSuccessor /\ LogoutIsFinal

LEMMA SessionInvInit == Init => SessionInv
  BY IdleType DEF Init, SessionInv, TypeOK, Descent, OneSuccessor, LogoutIsFinal, Rotating, Outgoing, Ended, At

\* A step that leaves the rows alone and starts no rotation.
Quiet ==
    /\ UNCHANGED <<rows, issued, login, closed, raced>>
    /\ \A r \in Requests : req'[r].op = "refresh" /\ req'[r].pc = "revoked"
                            => At(r, "refresh", "revoked") /\ req'[r].token = req[r].token
    /\ \A r \in Requests : req'[r].op = "logout" /\ req'[r].pc = "verified"
                            => \/ req'[r].token \in issued
                               \/ At(r, "logout", "verified") /\ req'[r].token = req[r].token

LEMMA QuietKeeps ==
    ASSUME SessionInv, Quiet, TypeOK'
    PROVE  SessionInv'
<1>1. \A r \in Rotating' : r \in Rotating /\ req'[r].token = req[r].token
  BY DEF Quiet, Rotating, At
<1>2. \A r \in Outgoing' : req'[r].token \in issued
  BY DEF Quiet, Outgoing, At, SessionInv, Descent
<1>3. Descent'  BY <1>1, <1>2 DEF SessionInv, Descent, Quiet, Ended
<1>4. OneSuccessor'  BY <1>1 DEF SessionInv, OneSuccessor, Quiet
<1>5. LogoutIsFinal'  BY DEF SessionInv, LogoutIsFinal, Quiet, Ended
<1> QED  BY <1>3, <1>4, <1>5 DEF SessionInv

-----------------------------------------------------------------------------
(* The handlers.                                                             *)

LEMMA HandleQuietly ==
    ASSUME SessionInv, NEW r \in Requests,
           HandleCall(r) \/ VerifyRefresh(r) \/ VerifyLogout(r)
    PROVE  SessionInv'
<1>1. TypeOK  BY DEF SessionInv
<1>2. CASE Done(r) /\ UNCHANGED <<server, browser>>
  <2>1. Quiet  BY <1>1, <1>2, DoneReplaces DEF Quiet, At, server
  <2>2. TypeOK'  BY <1>1, <1>2, DoneReplaces DEF TypeOK, server, browser
  <2> QED  BY <2>1, <2>2, QuietKeeps
<1>3. ASSUME NEW pc \in Pcs, pc # "revoked", GoTo(r, pc), UNCHANGED <<server, browser>>,
             pc = "verified" => req[r].op # "logout" \/ req[r].token \in rows
      PROVE  SessionInv'
  <2>1. Quiet  BY <1>1, <1>3, GoToReplaces DEF Quiet, At, server, SessionInv, Descent
  <2>2. TypeOK'  BY <1>1, <1>3, GoToReplaces DEF TypeOK, server, browser
  <2> QED  BY <2>1, <2>2, QuietKeeps
<1>4. CASE HandleCall(r)  BY <1>2, <1>3, <1>4 DEF HandleCall, Pcs
<1>5. CASE VerifyRefresh(r)  BY <1>3, <1>5 DEF VerifyRefresh, At, Pcs
<1>6. CASE VerifyLogout(r)  BY <1>3, <1>6 DEF VerifyLogout, Pcs
<1> QED  BY <1>4, <1>5, <1>6

\* The row of the token goes when its rotation starts: no second one can.
LEMMA RevokeKeeps ==
    ASSUME SessionInv, NEW r \in Requests, Revoke(r)
    PROVE  SessionInv'
<1>1. TypeOK  BY DEF SessionInv
<1>2. PICK pc \in {"revoked", "failed"} :
         GoTo(r, pc) /\ (pc = "revoked" <=> req[r].token \in rows)
  BY DEF Revoke
<1>3. /\ req' \in [Requests -> Request]
      /\ req'[r].pc = pc /\ req'[r].op = req[r].op /\ req'[r].token = req[r].token
      /\ \A q \in Requests \ {r} : req'[q] = req[q]
  BY <1>1, <1>2, GoToReplaces DEF Pcs
<1>4. rows' = rows \ {req[r].token} /\ UNCHANGED <<issued, login, age, closed, raced, browser>>
  BY DEF Revoke
<1>5. TypeOK'  BY <1>1, <1>3, <1>4 DEF TypeOK, browser
<1>6. \A q \in Rotating' : req'[q].token = req[q].token
                            /\ (q \in Rotating \/ (q = r /\ req[r].token \in rows))
  BY <1>2, <1>3 DEF Rotating, At
<1>7. Descent'
  <2>1. \A q \in Outgoing' : q \in Outgoing /\ req'[q].token = req[q].token
    BY <1>2, <1>3 DEF Outgoing, At
  <2> QED  BY <1>4, <1>6, <2>1 DEF SessionInv, Descent, LogoutIsFinal, Ended
<1>8. OneSuccessor'
  <2>1. \A k, m \in rows' : login'[k] = login'[m] => k = m
    BY <1>4 DEF SessionInv, OneSuccessor
  <2>2. \A p, q \in Rotating' : login'[req'[p].token] = login'[req'[q].token] => p = q
    BY <1>4, <1>6 DEF SessionInv, OneSuccessor
  <2>3. \A q \in Rotating', k \in rows' : login'[req'[q].token] # login'[k]
    BY <1>4, <1>6 DEF SessionInv, OneSuccessor
  <2> QED  BY <2>1, <2>2, <2>3 DEF OneSuccessor
<1>9. LogoutIsFinal'  BY <1>4 DEF SessionInv, LogoutIsFinal, Ended
<1> QED  BY <1>5, <1>7, <1>8, <1>9 DEF SessionInv

\* The new row takes the place of the rotation: it is of the same log-in.
LEMMA RotateKeeps ==
    ASSUME SessionInv, NEW r \in Requests, Rotate(r)
    PROVE  SessionInv'
<1>1. TypeOK  BY DEF SessionInv
<1>2. PICK k \in Tokens \ issued :
         /\ At(r, "refresh", "revoked")
         /\ Issue(k, login[req[r].token])
         /\ req' = [req EXCEPT ![r].pc = "ok", ![r].fresh = k]
  BY DEF Rotate
<1>3. r \in Rotating /\ req[r].token \in issued /\ login[req[r].token] \notin Ended
  BY <1>2 DEF Rotating, SessionInv, Descent
<1>4. PICK root \in issued : root = login[req[r].token] /\ root \notin Ended
  BY <1>3 DEF SessionInv, Descent
<1>5. /\ rows' = rows \cup {k} /\ issued' = issued \cup {k}
      /\ login' = [login EXCEPT ![k] = root]
      /\ UNCHANGED <<age, closed, raced, browser>>
  BY <1>2, <1>4 DEF Issue
<1>6. \A m \in issued : login'[m] = login[m] /\ login'[k] = root
  BY <1>1, <1>5 DEF TypeOK
<1>7. req' \in [Requests -> Request] /\ req'[r].pc = "ok"
      /\ \A q \in Requests \ {r} : req'[q] = req[q]
  <2> DEFINE answered == [req[r] EXCEPT !.pc = "ok", !.fresh = k]
  <2>1. req[r] \in Request  BY <1>1 DEF TypeOK
  <2>2. answered \in Request  BY <2>1, RequestEdits DEF Pcs
  <2>3. answered.pc = "ok"  BY <2>1 DEF Request
  <2>4. req' = [req EXCEPT ![r] = answered]  BY <1>2
  <2> HIDE DEF answered
  <2> QED  BY <1>1, <2>2, <2>3, <2>4, Replace
<1>8. TypeOK'  BY <1>1, <1>4, <1>5, <1>7 DEF TypeOK, browser
<1>9. \A q \in Rotating' : q \in Rotating /\ q # r /\ req'[q].token = req[q].token
                            /\ req[q].token \in issued
  BY <1>7 DEF Rotating, At, SessionInv, Descent
<1>10. Descent'
  <2>1. rows' \subseteq issued' /\ closed' \subseteq issued'
    BY <1>5 DEF SessionInv, Descent
  <2>2. \A m \in issued' : login'[m] \in issued'
    BY <1>5, <1>6 DEF SessionInv, Descent
  <2>3. \A q \in Rotating' : req'[q].token \in issued' /\ login'[req'[q].token] \notin Ended'
    BY <1>5, <1>6, <1>9 DEF SessionInv, Descent, Ended
  <2>4. \A q \in Outgoing' : q \in Outgoing /\ req'[q].token = req[q].token
    BY <1>7 DEF Outgoing, At
  <2>5. \A q \in Outgoing' : req'[q].token \in issued'
    BY <1>5, <2>4 DEF SessionInv, Descent
  <2> QED  BY <2>1, <2>2, <2>3, <2>5 DEF Descent
<1>11. \A m \in rows : m \in issued /\ login[m] # root
  BY <1>3, <1>4 DEF SessionInv, Descent, OneSuccessor
<1>12. OneSuccessor'
  <2>1. \A m, n \in rows' : login'[m] = login'[n] => m = n
    BY <1>5, <1>6, <1>11 DEF SessionInv, OneSuccessor
  <2>2. \A p, q \in Rotating' : login'[req'[p].token] = login'[req'[q].token] => p = q
    BY <1>6, <1>9 DEF SessionInv, OneSuccessor
  <2>3. \A q \in Rotating', m \in rows' : login'[req'[q].token] # login'[m]
    BY <1>3, <1>4, <1>5, <1>6, <1>9, <1>11 DEF SessionInv, OneSuccessor
  <2> QED  BY <2>1, <2>2, <2>3 DEF OneSuccessor
<1>13. LogoutIsFinal'
  BY <1>4, <1>5, <1>6, <1>11 DEF SessionInv, LogoutIsFinal, Ended
<1> QED  BY <1>8, <1>10, <1>12, <1>13 DEF SessionInv

\* A log-in starts a chain of its own.
LEMMA LoginKeeps ==
    ASSUME SessionInv, NEW r \in Requests, NEW t \in Tabs, Login(r, t)
    PROVE  SessionInv'
<1>1. TypeOK  BY DEF SessionInv
<1> DEFINE asked(k) == [New("login", t, NoToken, NoToken) EXCEPT !.pc = "ok", !.fresh = k]
<1>2. PICK k \in Tokens \ issued : Issue(k, k) /\ req' = [req EXCEPT ![r] = asked(k)]
  BY DEF Login
<1>3. asked(k) \in Request /\ asked(k).op = "login"
  BY DEF New, Request, Pcs, Ops
<1>4. /\ req' \in [Requests -> Request]
      /\ req'[r].op = "login"
      /\ \A q \in Requests \ {r} : req'[q] = req[q]
  <2> HIDE DEF asked
  <2> QED  BY <1>1, <1>2, <1>3, Replace
<1> HIDE DEF asked
<1>5. /\ rows' = rows \cup {k} /\ issued' = issued \cup {k}
      /\ login' = [login EXCEPT ![k] = k]
      /\ UNCHANGED <<age, closed, raced, browser>>
  BY <1>2 DEF Issue
<1>6. \A m \in issued : m # k /\ login'[m] = login[m] /\ login[m] \in issued
  BY <1>1, <1>5 DEF TypeOK, SessionInv, Descent
<1>7. login'[k] = k /\ k \notin issued
  BY <1>1, <1>5 DEF TypeOK
<1>8. TypeOK'  BY <1>1, <1>4, <1>5 DEF TypeOK, browser
<1>9. \A q \in Rotating' : q \in Rotating /\ req'[q].token = req[q].token
                            /\ req[q].token \in issued
  BY <1>4 DEF Rotating, At, SessionInv, Descent
<1>10. Descent'
  <2>1. rows' \subseteq issued' /\ closed' \subseteq issued'
    BY <1>5 DEF SessionInv, Descent
  <2>2. \A m \in issued' : login'[m] \in issued'
    BY <1>5, <1>6, <1>7
  <2>3. \A q \in Rotating' : req'[q].token \in issued' /\ login'[req'[q].token] \notin Ended'
    BY <1>5, <1>6, <1>9 DEF SessionInv, Descent, Ended
  <2>4. \A q \in Outgoing' : q \in Outgoing /\ req'[q].token = req[q].token
    BY <1>4 DEF Outgoing, At
  <2>5. \A q \in Outgoing' : req'[q].token \in issued'
    BY <1>5, <2>4 DEF SessionInv, Descent
  <2> QED  BY <2>1, <2>2, <2>3, <2>5 DEF Descent
<1>11. \A m \in rows : m \in issued  BY DEF SessionInv, Descent
<1>12. OneSuccessor'
  <2>1. \A m, n \in rows' : login'[m] = login'[n] => m = n
    BY <1>5, <1>6, <1>7, <1>11 DEF SessionInv, OneSuccessor
  <2>2. \A p, q \in Rotating' : login'[req'[p].token] = login'[req'[q].token] => p = q
    BY <1>6, <1>9 DEF SessionInv, OneSuccessor
  <2>3. \A q \in Rotating', m \in rows' : login'[req'[q].token] # login'[m]
    BY <1>5, <1>6, <1>7, <1>9, <1>11 DEF SessionInv, OneSuccessor
  <2> QED  BY <2>1, <2>2, <2>3 DEF OneSuccessor
<1>13. LogoutIsFinal'
  BY <1>5, <1>6, <1>7, <1>11 DEF SessionInv, LogoutIsFinal, Descent, Ended
<1> QED  BY <1>8, <1>10, <1>12, <1>13 DEF SessionInv

\* A log-out that finds the row deletes it, and its log-in can therefore not be rotating;
\* one that finds none ends nothing.
LEMMA LogoutKeeps ==
    ASSUME SessionInv, NEW r \in Requests, RevokeLogout(r) \/ RevokeExpired(r)
    PROVE  SessionInv'
<1> DEFINE k == req[r].token
<1>1. TypeOK  BY DEF SessionInv
<1>2. PICK pc \in Pcs : GoTo(r, pc) /\ req[r].op = "logout" /\ pc # "verified"
  BY DEF RevokeLogout, RevokeExpired, At, Pcs
<1>3. /\ req' \in [Requests -> Request]
      /\ req'[r].op = "logout" /\ req'[r].pc = pc
      /\ \A q \in Requests \ {r} : req'[q] = req[q]
  BY <1>1, <1>2, GoToReplaces
<1>4. rows' \subseteq rows /\ UNCHANGED <<issued, login, age, browser>>
  BY DEF RevokeLogout, RevokeExpired
<1>5. \/ UNCHANGED <<closed, raced>>
      \/ /\ k \in issued /\ rows' = rows \ {k}
         /\ closed' = closed \cup {login[k]}
         /\ raced' = IF k \in rows THEN raced \ {login[k]}
                     ELSE raced \cup ({login[k]} \ closed)
  BY DEF RevokeLogout, RevokeExpired, SessionInv, Descent, Outgoing
<1>6. closed' \subseteq issued /\ closed' \subseteq Tokens /\ raced' \subseteq Tokens
  <2>1. k \in issued => login[k] \in issued  BY DEF SessionInv, Descent
  <2> QED  BY <1>1, <1>5, <2>1 DEF SessionInv, Descent, TypeOK
<1>7. Ended' \subseteq Ended
      \/ (k \in rows /\ k \notin rows' /\ Ended' \subseteq Ended \cup {login[k]})
  BY <1>5 DEF Ended
<1> HIDE DEF k
<1>8. TypeOK'  BY <1>1, <1>3, <1>4, <1>6 DEF TypeOK, browser
<1>9. \A q \in Rotating' : q \in Rotating /\ req'[q].token = req[q].token
  BY <1>3 DEF Rotating, At
<1>10. \A q \in Outgoing' : q \in Outgoing /\ req'[q].token = req[q].token
  BY <1>2, <1>3 DEF Outgoing, At
<1>11. Descent'
  <2>1. \A q \in Rotating : login[req[q].token] \notin Ended'
    BY <1>7 DEF SessionInv, Descent, OneSuccessor
  <2>2. \A q \in Outgoing : req[q].token \in issued
    BY DEF SessionInv, Descent
  <2> QED  BY <1>4, <1>6, <1>9, <1>10, <2>1, <2>2 DEF SessionInv, Descent
<1>12. OneSuccessor'  BY <1>4, <1>9 DEF SessionInv, OneSuccessor
<1>13. LogoutIsFinal'  BY <1>4, <1>7 DEF SessionInv, LogoutIsFinal, OneSuccessor
<1> QED  BY <1>8, <1>11, <1>12, <1>13 DEF SessionInv

\* Afterwards there is no row, and the log-ins that are rotating are the missed ones.
LEMMA LogoutAllKeeps ==
    ASSUME SessionInv, LogoutAll
    PROVE  SessionInv'
<1>1. \A k \in issued : login[k] \in issued /\ issued \subseteq Tokens
  BY DEF SessionInv, Descent, TypeOK
<1>2. Rotating' = Rotating /\ Outgoing' = Outgoing /\ UNCHANGED <<req, issued, login>>
  BY DEF LogoutAll, Rotating, Outgoing, At
<1>3. closed' \subseteq issued /\ raced' = {login[req[r].token] : r \in Rotating}
  BY <1>1 DEF SessionInv, Descent, LogoutAll
<1>4. TypeOK'
  <2>1. raced' \subseteq Tokens  BY <1>1, <1>3 DEF SessionInv, Descent
  <2> QED  BY <1>1, <1>3, <2>1 DEF SessionInv, TypeOK, LogoutAll, browser
<1>5. Descent'
  <2>1. \A q \in Rotating : login[req[q].token] \notin Ended'
    BY <1>3 DEF Ended
  <2> QED  BY <1>2, <1>3, <2>1 DEF SessionInv, Descent, LogoutAll
<1>6. OneSuccessor'  BY <1>2 DEF SessionInv, OneSuccessor, LogoutAll
<1>7. LogoutIsFinal'  BY DEF LogoutIsFinal, LogoutAll
<1> QED  BY <1>4, <1>5, <1>6, <1>7 DEF SessionInv

-----------------------------------------------------------------------------
(* The tabs: no step of theirs touches a row, and the fetches they start are  *)
(* not rotations yet.                                                        *)

LEMMA ExpireKeeps ==
    ASSUME SessionInv, Expire
    PROVE  SessionInv'
<1>1. TypeOK  BY DEF SessionInv
<1>2. PICK k \in InUse : age[k] < 2 /\ age' = [age EXCEPT ![k] = @ + 1]
  BY DEF Expire
<1>3. k \in Tokens
  <2>1. \A r \in Requests : {req[r].token, req[r].bearer} \subseteq Tokens \cup {NoToken}
    BY <1>1 DEF TypeOK, Request
  <2>2. Held \subseteq Tokens \cup {NoToken}
    BY <2>1 DEF Held
  <2>3. k \in rows \cup ((Held \cup {stored}) \ {NoToken})
    BY <1>2, Zenon DEF InUse
  <2> QED  BY <1>1, <2>2, <2>3 DEF TypeOK
<1>4. age[k] \in 0 .. 1
  BY <1>1, <1>2, <1>3 DEF TypeOK
<1> DEFINE older == age[k] + 1
<1>a. older \in 0 .. 2  BY <1>4
<1>b. age' = [age EXCEPT ![k] = older]  BY <1>2
<1> HIDE DEF older
<1>5. age' \in [Tokens -> 0 .. 2]
  BY <1>1, <1>3, <1>a, <1>b DEF TypeOK
<1>6. UNCHANGED <<rows, issued, login, closed, raced, browser, req>>
  BY DEF Expire
<1>7. TypeOK'  BY <1>1, <1>5, <1>6 DEF TypeOK, browser
<1>8. Quiet  BY <1>6 DEF Quiet, At
<1> QED  BY <1>7, <1>8, QuietKeeps

\* Whatever a tab does to its fetches: it drops them, marks them, or sends them again.
Tame ==
    /\ req' \in [Requests -> Request]
    /\ \A r \in Requests :
          \/ /\ ~ (req'[r].op = "refresh" /\ req'[r].pc = "revoked")
             /\ ~ (req'[r].op = "logout" /\ req'[r].pc = "verified")
          \/ req'[r].op = req[r].op /\ req'[r].pc = req[r].pc /\ req'[r].token = req[r].token

LEMMA TameKeeps ==
    ASSUME SessionInv, Tame, UNCHANGED server,
           shared' \subseteq Tokens \cup {NoToken}, stored' \in Tokens \cup {NoToken},
           page' \in [Tabs -> {"auth", "app"}],
           promise' \in [Tabs -> Requests \cup {NoRequest, Settled}]
    PROVE  SessionInv'
<1>1. TypeOK'  BY DEF SessionInv, TypeOK, Tame, server
<1>2. Quiet  BY DEF Quiet, Tame, At, server
<1> QED  BY <1>1, <1>2, QuietKeeps

LEMMA BrowserType ==
    ASSUME TypeOK, NEW t
    PROVE  /\ SharedByLoss(t) \subseteq Tokens \cup {NoToken}
           /\ \A r \in Requests : req[r].token \in Tokens \cup {NoToken}
           /\ \A k \in Tokens : SharedBy(t, k) \subseteq Tokens \cup {NoToken}
           /\ [page EXCEPT ![t] = "auth"] \in [Tabs -> {"auth", "app"}]
           /\ [page EXCEPT ![t] = "app"] \in [Tabs -> {"auth", "app"}]
           /\ \A p \in Requests \cup {NoRequest, Settled} :
                 [promise EXCEPT ![t] = p] \in [Tabs -> Requests \cup {NoRequest, Settled}]
<1>1. \A r \in Requests : req[r].token \in Tokens \cup {NoToken}
  BY DEF TypeOK, Request
<1>2. SharedByLoss(t) \subseteq Tokens \cup {NoToken}
  BY <1>1 DEF TypeOK, SharedByLoss
<1>3. \A k \in Tokens : SharedBy(t, k) \subseteq Tokens \cup {NoToken}
  BY DEF TypeOK, SharedBy
<1>4. /\ [page EXCEPT ![t] = "auth"] \in [Tabs -> {"auth", "app"}]
      /\ [page EXCEPT ![t] = "app"] \in [Tabs -> {"auth", "app"}]
  BY DEF TypeOK
<1>5. \A p \in Requests \cup {NoRequest, Settled} :
         [promise EXCEPT ![t] = p] \in [Tabs -> Requests \cup {NoRequest, Settled}]
  BY DEF TypeOK
<1> QED  BY <1>1, <1>2, <1>3, <1>4, <1>5

LEMMA AbandonedTame ==
    ASSUME TypeOK, NEW t, NEW r \in Requests
    PROVE  \/ Abandoned(t)[r].pc = "idle"
           \/ /\ Abandoned(t)[r].op = req[r].op
              /\ Abandoned(t)[r].pc = req[r].pc
              /\ Abandoned(t)[r].token = req[r].token
<1>1. req[r] \in Request  BY DEF TypeOK
<1>2. [req[r] EXCEPT !.lost = TRUE].op = req[r].op
      /\ [req[r] EXCEPT !.lost = TRUE].pc = req[r].pc
      /\ [req[r] EXCEPT !.lost = TRUE].token = req[r].token
  BY <1>1 DEF Request
<1> QED  BY <1>2, IdleType DEF Abandoned

\* One slot changes, to something that is neither a rotation nor a log-out.
LEMMA OneSlotTame ==
    ASSUME TypeOK, NEW r \in Requests, NEW new \in Request,
           new.pc \notin {"revoked", "verified"}
           \/ (new.op = req[r].op /\ new.pc = req[r].pc /\ new.token = req[r].token),
           req' = [req EXCEPT ![r] = new]
    PROVE  Tame
  BY Replace DEF Tame

LEMMA DoneTame ==
    ASSUME TypeOK, NEW r \in Requests, Done(r)
    PROVE  Tame
  BY DoneReplaces DEF Tame

LEMMA FinishKeeps ==
    ASSUME SessionInv, NEW r \in Requests, Finish(r)
    PROVE  SessionInv'
<1>1. TypeOK  BY DEF SessionInv
<1>2. Tame  BY <1>1, DoneTame DEF Finish
<1>3. stored' \in Tokens \cup {NoToken} /\ page' \in [Tabs -> {"auth", "app"}]
  BY <1>1, BrowserType DEF Finish, Leave, TypeOK
<1> QED  BY <1>1, <1>2, <1>3, TameKeeps DEF Finish, TypeOK

LEMMA ClientKeeps ==
    ASSUME SessionInv, NEW r \in Requests, NEW q \in Requests,
           \/ DeliverLogout(r) \/ DeliverLogin(r) \/ DeliverRefreshed(r) \/ DeliverRefused(r)
           \/ JoinRefresh(r) \/ JoinSettled(r) \/ NothingToRefresh(r) \/ BeginRefresh(r, q)
    PROVE  SessionInv'
<1> DEFINE t == req[r].tab
<1>1. TypeOK  BY DEF SessionInv
<1>2. req[r] \in Request  BY <1>1 DEF TypeOK
<1>3. CASE DeliverLogout(r) \/ JoinSettled(r)
  BY <1>3, FinishKeeps DEF DeliverLogout, JoinSettled
<1>4. CASE DeliverLogin(r)
  <2>1. Tame  BY <1>1, <1>4, DoneTame DEF DeliverLogin
  <2>2. stored' \in Tokens \cup {NoToken} /\ page' \in [Tabs -> {"auth", "app"}]
    BY <1>1, <1>2, <1>4, BrowserType DEF DeliverLogin, Request
  <2> QED  BY <1>1, <1>4, <2>1, <2>2, TameKeeps DEF DeliverLogin, TypeOK
<1>5. CASE DeliverRefreshed(r)
  <2>1. \A p \in Requests : [req[p] EXCEPT !.pc = "sent", !.bearer = req[r].fresh] \in Request
    <3>1. req[r].fresh \in Tokens \cup {NoToken}  BY <1>2 DEF Request
    <3>2. \A p \in Requests : req[p] \in Request  BY <1>1 DEF TypeOK
    <3> QED  BY <3>1, <3>2, RequestEdits DEF Pcs
  <2>2. \A p \in Requests : [req[p] EXCEPT !.pc = "sent", !.bearer = req[r].fresh].pc = "sent"
    BY <1>1 DEF TypeOK, Request
  <2>3. Tame
    BY <1>1, <1>5, <2>1, <2>2, IdleType DEF DeliverRefreshed, Tame, TypeOK
  <2>4. /\ stored' \in Tokens \cup {NoToken}
        /\ promise' \in [Tabs -> Requests \cup {NoRequest, Settled}]
    BY <1>1, <1>2, <1>5, BrowserType DEF DeliverRefreshed, Request
  <2> QED  BY <1>1, <1>5, <2>3, <2>4, TameKeeps DEF DeliverRefreshed, TypeOK
<1>6. ASSUME NEW S, NEW p \in Requests \cup {NoRequest, Settled}, EndSession(t, S),
             page[t] # "app" => promise' = [promise EXCEPT ![t] = p],
             UNCHANGED server
      PROVE  SessionInv'
  <2>1. Tame
    BY <1>1, <1>6, AbandonedType, AbandonedTame, IdleType DEF EndSession, Tame, TypeOK
  <2>2. stored' \in Tokens \cup {NoToken} /\ page' \in [Tabs -> {"auth", "app"}]
        /\ shared' \subseteq Tokens \cup {NoToken}
    BY <1>1, <1>6, BrowserType DEF EndSession, TypeOK
  <2>3. promise' \in [Tabs -> Requests \cup {NoRequest, Settled}]
    BY <1>1, <1>6, BrowserType DEF EndSession
  <2> QED  BY <1>6, <2>1, <2>2, <2>3, TameKeeps
<1>7. CASE JoinRefresh(r)
  <2>1. Tame
    <3>1. CASE Done(r)  BY <1>1, <3>1, DoneTame
    <3>2. CASE req' = [req EXCEPT ![r].pc = "waiting", ![r].retried = TRUE]
      <4> DEFINE new == [req[r] EXCEPT !.pc = "waiting", !.retried = TRUE]
      <4>1. new \in Request  BY <1>2, RequestEdits DEF Pcs
      <4>2. new.pc = "waiting"  BY <1>2 DEF Request
      <4>3. req' = [req EXCEPT ![r] = new]  BY <3>2
      <4> HIDE DEF new
      <4> QED  BY <1>1, <4>1, <4>2, <4>3, OneSlotTame
    <3> QED  BY <1>7, <3>1, <3>2 DEF JoinRefresh
  <2> QED  BY <1>1, <1>7, <2>1, TameKeeps DEF JoinRefresh, browser, TypeOK
<1>8. CASE BeginRefresh(r, q)
  <2>1. stored \in Tokens  BY <1>1, <1>8 DEF BeginRefresh, TypeOK
  <2>2. t \in Tabs \cup {NoTab}  BY <1>2 DEF Request
  <2>3. /\ New("refresh", t, stored, NoToken) \in Request
        /\ New("refresh", t, stored, NoToken).pc = "sent"
    BY <2>1, <2>2, NewType DEF Ops
  <2>4. \A p \in Requests : /\ [req[p] EXCEPT !.pc = "waiting", !.retried = TRUE] \in Request
                            /\ [req[p] EXCEPT !.pc = "waiting", !.retried = TRUE].pc = "waiting"
    <3>1. \A p \in Requests : req[p] \in Request  BY <1>1 DEF TypeOK
    <3>2. \A p \in Requests : [req[p] EXCEPT !.pc = "waiting", !.retried = TRUE] \in Request
      BY <3>1, RequestEdits DEF Pcs
    <3>3. \A p \in Requests : [req[p] EXCEPT !.pc = "waiting", !.retried = TRUE].pc = "waiting"
      BY <3>1 DEF Request
    <3> QED  BY <3>2, <3>3
  <2>5. Tame
    BY <1>1, <1>8, <2>3, <2>4 DEF BeginRefresh, Tame, TypeOK
  <2>6. promise' \in [Tabs -> Requests \cup {NoRequest, Settled}]
        /\ shared' \subseteq Tokens \cup {NoToken}
    BY <1>1, <1>8, <2>1, BrowserType DEF BeginRefresh
  <2> QED  BY <1>1, <1>8, <2>5, <2>6, TameKeeps DEF BeginRefresh, TypeOK
<1>9. CASE DeliverRefused(r)  BY <1>6, <1>9 DEF DeliverRefused
<1>10. CASE NothingToRefresh(r)  BY <1>6, <1>10 DEF NothingToRefresh
<1> QED  BY <1>3, <1>4, <1>5, <1>7, <1>8, <1>9, <1>10

LEMMA LostKeeps ==
    ASSUME SessionInv, NEW r \in Requests, LoseAnswer(r) \/ Forget(r) \/ Crash(r)
    PROVE  SessionInv'
<1> DEFINE t == req[r].tab
<1>1. TypeOK  BY DEF SessionInv
<1>2. req[r] \in Request  BY <1>1 DEF TypeOK
<1>3. CASE Forget(r) \/ Crash(r)
  <2>1. Tame  BY <1>1, <1>3, DoneTame DEF Forget, Crash
  <2> QED  BY <1>1, <1>3, <2>1, TameKeeps DEF Forget, Crash, browser, TypeOK
<1>4. \A q \in Requests : /\ [req[q] EXCEPT !.lost = TRUE] \in Request
                          /\ [req[q] EXCEPT !.lost = TRUE].op = req[q].op
                          /\ [req[q] EXCEPT !.lost = TRUE].pc = req[q].pc
                          /\ [req[q] EXCEPT !.lost = TRUE].token = req[q].token
  <2>1. \A q \in Requests : req[q] \in Request  BY <1>1 DEF TypeOK
  <2>2. \A q \in Requests : [req[q] EXCEPT !.lost = TRUE] \in Request
    BY <2>1, RequestEdits DEF Pcs
  <2> QED  BY <2>1, <2>2 DEF Request
<1>5. CASE LoseAnswer(r) /\ req[r].op = "refresh"
  <2>1. CASE req' = Abandoned(t)
    <3>1. Tame  BY <1>1, <2>1, AbandonedType, AbandonedTame DEF Tame
    <3> QED  BY <1>1, <1>5, <3>1, BrowserType, TameKeeps DEF LoseAnswer
  <2>2. CASE req' = [q \in Requests |-> IF q = r THEN [req[q] EXCEPT !.lost = TRUE]
                                       ELSE IF q \in Waiting(t) THEN Idle ELSE req[q]]
    <3>1. Tame  BY <1>1, <1>4, <2>2, IdleType DEF Tame, TypeOK
    <3> QED  BY <1>1, <1>5, <3>1, BrowserType, TameKeeps DEF LoseAnswer
  <2> QED  BY <1>5, <2>1, <2>2 DEF LoseAnswer
<1>6. CASE LoseAnswer(r) /\ req[r].op # "refresh"
  <2>1. Tame
    <3>1. CASE Done(r)  BY <1>1, <3>1, DoneTame
    <3>2. CASE req' = [req EXCEPT ![r].lost = TRUE]
      <4> DEFINE new == [req[r] EXCEPT !.lost = TRUE]
      <4>1. req' = [req EXCEPT ![r] = new]  BY <3>2
      <4>2. new \in Request /\ new.op = req[r].op
            /\ new.pc = req[r].pc /\ new.token = req[r].token
        BY <1>4 DEF TypeOK, Request
      <4> HIDE DEF new
      <4> QED  BY <1>1, <1>6, <4>1, <4>2, OneSlotTame
    <3> QED  BY <1>6, <3>1, <3>2 DEF LoseAnswer
  <2> QED  BY <1>1, <1>6, <2>1, BrowserType, TameKeeps DEF LoseAnswer, Leave, TypeOK
<1> QED  BY <1>3, <1>5, <1>6

LEMMA UserKeeps ==
    ASSUME SessionInv, NEW t \in Tabs, NEW r \in Requests,
           \/ RequireSession(t) \/ RequireGuest(t) \/ Reload(t) \/ LogoutWithoutToken(t)
           \/ StartCall(r, t) \/ StartLogout(r, t)
    PROVE  SessionInv'
<1>1. TypeOK  BY DEF SessionInv
<1>2. ASSUME req' = req  PROVE Tame
  BY <1>1, <1>2 DEF Tame, TypeOK
<1>3. CASE RequireSession(t) \/ RequireGuest(t)
  BY <1>1, <1>2, <1>3, BrowserType, TameKeeps DEF RequireSession, RequireGuest, TypeOK
<1>4. CASE LogoutWithoutToken(t)
  BY <1>1, <1>2, <1>4, BrowserType, TameKeeps DEF LogoutWithoutToken, Leave, TypeOK
<1>5. CASE Reload(t)
  <2>1. Tame  BY <1>1, <1>5, AbandonedType, AbandonedTame DEF Tame, Reload
  <2> QED  BY <1>1, <1>5, <2>1, BrowserType, TameKeeps DEF Reload, TypeOK
<1>6. ASSUME NEW op \in Ops, NEW k \in Tokens \cup {NoToken}, Start(r, t, op, k, stored)
      PROVE  SessionInv'
  <2>1. New(op, t, k, stored) \in Request /\ New(op, t, k, stored).pc = "sent"
    BY <1>1, NewType DEF TypeOK
  <2>2. Tame  BY <1>1, <1>6, <2>1, OneSlotTame DEF Start
  <2> QED  BY <1>1, <1>6, <2>2, TameKeeps DEF Start, browser, TypeOK
<1>7. CASE StartCall(r, t)  BY <1>6, <1>7 DEF StartCall, Ops
<1>8. CASE StartLogout(r, t)  BY <1>1, <1>6, <1>8 DEF StartLogout, Ops, TypeOK
<1> QED  BY <1>3, <1>4, <1>5, <1>7, <1>8

-----------------------------------------------------------------------------

LEMMA SessionInvNext == SessionInv /\ [Next]_vars => SessionInv'
<1> SUFFICES ASSUME SessionInv, [Next]_vars PROVE SessionInv'
  OBVIOUS
<1>1. CASE UNCHANGED vars
  <2>1. TypeOK'  BY <1>1 DEF SessionInv, TypeOK, vars, server, browser
  <2>2. Quiet  BY <1>1 DEF Quiet, At, vars, server
  <2> QED  BY <2>1, <2>2, QuietKeeps
<1>2. ASSUME NEW r \in Requests, Handle(r)  PROVE SessionInv'
  BY <1>2, HandleQuietly, RevokeKeeps, RotateKeeps, LogoutKeeps DEF Handle
<1>3. ASSUME NEW r \in Requests, Client(r)  PROVE SessionInv'
  BY <1>3, ClientKeeps DEF Client
<1>4. ASSUME NEW r \in Requests, LoseAnswer(r) \/ Forget(r) \/ Crash(r)  PROVE SessionInv'
  BY <1>4, LostKeeps
<1>5. ASSUME NEW t \in Tabs, User(t)  PROVE SessionInv'
  <2>1. CASE RequireSession(t) \/ RequireGuest(t) \/ Reload(t) \/ LogoutWithoutToken(t)
    <3>1. CASE Requests = {}
      <4>1. TypeOK' /\ Quiet
        BY <2>1, <3>1, BrowserType DEF SessionInv, TypeOK, Quiet, RequireSession, RequireGuest, Reload,
           LogoutWithoutToken, Leave, Abandoned, server
      <4> QED  BY <4>1, QuietKeeps
    <3>2. CASE Requests # {}  BY <2>1, <3>2, UserKeeps
    <3> QED  BY <3>1, <3>2
  <2> QED  BY <1>5, <2>1, UserKeeps, LoginKeeps DEF User
<1> QED  BY <1>1, <1>2, <1>3, <1>4, <1>5, LogoutAllKeeps, ExpireKeeps DEF Next

\* The types of the session model.
THEOREM SessionTypes == Spec => []TypeOK
<1>1. SessionInv => TypeOK  BY DEF SessionInv
<1> QED  BY <1>1, SessionInvInit, SessionInvNext, PTL DEF Spec

\* refresh() never forks a session, however many refreshes and log-outs overlap.
THEOREM SessionOneSuccessor == Spec => []OneSuccessor
<1>1. SessionInv => OneSuccessor  BY DEF SessionInv
<1> QED  BY <1>1, SessionInvInit, SessionInvNext, PTL DEF Spec

\* No refresh brings back a session whose row a log-out deleted.
THEOREM SessionLogoutIsFinal == Spec => []LogoutIsFinal
<1>1. SessionInv => LogoutIsFinal  BY DEF SessionInv
<1> QED  BY <1>1, SessionInvInit, SessionInvNext, PTL DEF Spec

-----------------------------------------------------------------------------
(* Fetches step by step: what becomes of a slot.                             *)

Refreshing(r) == req[r].op = "refresh" /\ req[r].pc # "idle"

\* The slot is freed; the fetch moves to pc; nobody listens to it any more.
Freed(r) == req'[r].op = "none" /\ req'[r].pc = "idle"
Moved(r, pc) ==
    /\ req'[r].op = req[r].op /\ req'[r].tab = req[r].tab /\ req'[r].token = req[r].token
    /\ req'[r].lost = req[r].lost /\ req'[r].pc = pc
Unheard(r) ==
    /\ req'[r].op = req[r].op /\ req'[r].tab = req[r].tab /\ req'[r].token = req[r].token
    /\ req'[r].pc = req[r].pc /\ req'[r].lost

Others(r) == \A q \in Requests \ {r} : req'[q] = req[q]

LEMMA SlotMoves ==
    ASSUME TypeOK, NEW r \in Requests, NEW pc \in Pcs
    PROVE  /\ GoTo(r, pc) => Moved(r, pc) /\ req'[r].fresh = req[r].fresh /\ Others(r)
           /\ Done(r) => Freed(r) /\ Others(r)
           /\ req' = [req EXCEPT ![r].lost = TRUE] => Unheard(r) /\ Others(r)
<1>1. req[r] \in Request  BY DEF TypeOK
<1> QED  BY <1>1, IdleType DEF TypeOK, GoTo, Done, Moved, Freed, Unheard, Others, Request

LEMMA TabAbandoned ==
    ASSUME TypeOK, NEW t, NEW r \in Requests, req'[r] = Abandoned(t)[r]
    PROVE  \/ /\ req'[r] = req[r]
              /\ req[r].tab # t \/ req[r].pc = "idle"
           \/ req[r].tab = t /\ Freed(r) /\ (req[r].pc = "waiting" \/ req[r].op # "refresh")
           \/ req[r].tab = t /\ Unheard(r) /\ req[r].pc \notin {"idle", "waiting"}
                /\ req[r].op \in {"none", "refresh", "logout"}
<1>1. req[r] \in Request  BY DEF TypeOK
<1>2. CASE req[r].tab # t \/ req[r].pc = "idle"  BY <1>2 DEF Abandoned
<1>3. CASE /\ ~ (req[r].tab # t \/ req[r].pc = "idle")
           /\ req[r].pc = "waiting" \/ req[r].op \in {"call", "login"}
  BY <1>3, IdleType DEF Abandoned, Freed
<1>4. CASE /\ ~ (req[r].tab # t \/ req[r].pc = "idle")
           /\ ~ (req[r].pc = "waiting" \/ req[r].op \in {"call", "login"})
  <2>1. req'[r] = [req[r] EXCEPT !.lost = TRUE]  BY <1>4 DEF Abandoned
  <2>2. req[r].op \in {"none", "refresh", "logout"}  BY <1>1, <1>4 DEF Request, Ops
  <2> QED  BY <1>1, <1>4, <2>1, <2>2 DEF Unheard, Request
<1> QED  BY <1>2, <1>3, <1>4

-----------------------------------------------------------------------------
(* A log-out that waits is woken.                                            *)

\* The inductive strengthening of WaitersAreWoken: refreshPromise of a tab is the one
\* fetch of a refresh the tab listens to, and only a log-out waits for it.
WokenInv ==
    /\ \A r \in Requests :
          /\ req[r].pc # "idle" => req[r].tab \in Tabs
          /\ req[r].pc = "waiting" =>
                req[r].op = "logout" /\ ~ req[r].lost /\ promise[req[r].tab] \in Requests
          /\ (Refreshing(r) /\ ~ req[r].lost) => promise[req[r].tab] = r
    /\ \A t \in Tabs : promise[t] \in Requests =>
          /\ Refreshing(promise[t]) /\ req[promise[t]].tab = t
          /\ ~ req[promise[t]].lost

\* Refreshes are left alone, slots are freed or taken, and nothing starts to wait.
LEMMA PromiseKept ==
    ASSUME WokenInv, UNCHANGED promise,
           \A r \in Requests :
              \/ req'[r] = req[r]
              \/ Freed(r) /\ (~ Refreshing(r) \/ req[r].lost)
              \/ Unheard(r) /\ ~ Refreshing(r) /\ req[r].pc # "waiting"
              \/ /\ req'[r].tab \in Tabs /\ req'[r].pc # "waiting"
                 /\ ~ Refreshing(r) /\ ~ Refreshing(r)'
              \/ \E pc \in Pcs : Moved(r, pc) /\ req[r].pc # "idle"
                                    /\ pc \notin {"idle", "waiting"}
    PROVE  WokenInv'
<1>1. ASSUME NEW r \in Requests
      PROVE  /\ req'[r].pc # "idle" => req'[r].tab \in Tabs
             /\ req'[r].pc = "waiting" => req'[r].op = "logout" /\ ~ req'[r].lost
                                            /\ promise'[req'[r].tab] \in Requests
             /\ (Refreshing(r)' /\ ~ req'[r].lost) => promise'[req'[r].tab] = r
             /\ (Refreshing(r) /\ ~ req[r].lost) =>
                   Refreshing(r)' /\ ~ req'[r].lost /\ req'[r].tab = req[r].tab
  BY DEF WokenInv, Refreshing, Freed, Unheard, Moved
<1>2. ASSUME NEW t \in Tabs, promise'[t] \in Requests
      PROVE  Refreshing(promise[t])' /\ req'[promise'[t]].tab = t /\ ~ req'[promise'[t]].lost
  BY <1>1, <1>2 DEF WokenInv, Refreshing
<1> QED  BY <1>1, <1>2 DEF WokenInv, Refreshing

LEMMA HandleWoken ==
    ASSUME TypeOK, WokenInv, NEW r \in Requests, Handle(r)
    PROVE  WokenInv'
<1> DEFINE moves == /\ UNCHANGED promise /\ Others(r) /\ req[r].pc # "idle"
                    /\ \E pc \in Pcs : Moved(r, pc) /\ pc \notin {"idle", "waiting"}
<1>1. ASSUME moves PROVE WokenInv'
  BY <1>1, PromiseKept DEF Others
<1>2. ASSUME NEW pc \in Pcs, GoTo(r, pc), pc \notin {"idle", "waiting"},
             req[r].pc # "idle", UNCHANGED browser
      PROVE  moves
  BY <1>2, SlotMoves DEF browser
<1> HIDE DEF moves
<1>3. CASE HandleCall(r)
  <2>1. CASE Done(r) /\ req[r].op = "call" /\ UNCHANGED promise
    <3>1. Freed(r) /\ Others(r)  BY <2>1, SlotMoves DEF Pcs
    <3>2. ~ Refreshing(r)  BY <2>1 DEF Refreshing
    <3> QED  BY <2>1, <3>1, <3>2, PromiseKept DEF Others
  <2> QED  BY <1>1, <1>2, <1>3, <2>1 DEF HandleCall, At, Pcs, browser
<1>4. CASE VerifyRefresh(r)  BY <1>1, <1>2, <1>4 DEF VerifyRefresh, At, Pcs
<1>5. CASE Revoke(r)  BY <1>1, <1>2, <1>5 DEF Revoke, At, Pcs
<1>6. CASE Rotate(r)
  <2>1. PICK k \in Tokens : req' = [req EXCEPT ![r].pc = "ok", ![r].fresh = k]
    BY <1>6 DEF Rotate
  <2>2. req[r] \in Request  BY DEF TypeOK
  <2>3. Moved(r, "ok") /\ Others(r)
    BY <2>1, <2>2 DEF TypeOK, Moved, Others, Request
  <2>4. moves  BY <1>6, <2>3 DEF moves, Rotate, Issue, At, browser, Pcs
  <2> QED  BY <1>1, <2>4
<1>7. CASE VerifyLogout(r)  BY <1>1, <1>2, <1>7 DEF VerifyLogout, At, Pcs
<1>8. CASE RevokeLogout(r)  BY <1>1, <1>2, <1>8 DEF RevokeLogout, At, Pcs
<1>9. CASE RevokeExpired(r)  BY <1>1, <1>2, <1>9 DEF RevokeExpired, At, Pcs
<1> QED  BY <1>3, <1>4, <1>5, <1>6, <1>7, <1>8, <1>9 DEF Handle

\* The promise of a tab is cleared: nobody waits in the tab any more, and the refreshes it
\* started are over, or nobody listens to them.
LEMMA PromiseCleared ==
    ASSUME WokenInv, NEW t \in Tabs,
           promise'[t] \in {NoRequest, Settled},
           \A x \in Tabs : x # t => promise'[x] = promise[x],
           \A r \in Requests :
              \/ /\ req'[r] = req[r]
                 /\ req[r].tab = t => /\ req[r].pc # "waiting"
                                      /\ ~ (Refreshing(r) /\ ~ req[r].lost)
              \/ Freed(r) /\ req[r].tab = t
              \/ Unheard(r) /\ req[r].tab = t /\ req[r].pc # "waiting"
              \/ Moved(r, "sent") /\ req[r].tab = t /\ req[r].pc = "waiting"
    PROVE  WokenInv'
<1>1. ASSUME NEW r \in Requests
      PROVE  /\ req'[r].pc # "idle" => req'[r].tab \in Tabs
             /\ req'[r].pc = "waiting" => req'[r].op = "logout" /\ ~ req'[r].lost
                                            /\ promise'[req'[r].tab] \in Requests
             /\ (Refreshing(r)' /\ ~ req'[r].lost) => promise'[req'[r].tab] = r
             /\ (Refreshing(r) /\ ~ req[r].lost /\ req[r].tab # t) => req'[r] = req[r]
  <2>1. req[r].pc # "idle" => req[r].tab \in Tabs  BY DEF WokenInv
  <2>2. ASSUME req'[r] = req[r],
               req[r].tab = t => /\ req[r].pc # "waiting"
                                 /\ ~ (Refreshing(r) /\ ~ req[r].lost)
        PROVE  /\ req'[r].pc # "idle" => req'[r].tab \in Tabs
               /\ req'[r].pc = "waiting" => req'[r].op = "logout" /\ ~ req'[r].lost
                                              /\ promise'[req'[r].tab] \in Requests
               /\ (Refreshing(r)' /\ ~ req'[r].lost) => promise'[req'[r].tab] = r
    <3>1. Refreshing(r)' <=> Refreshing(r)  BY <2>2 DEF Refreshing
    <3>2. req[r].pc = "waiting" => req[r].tab # t /\ req[r].tab \in Tabs  BY <2>1, <2>2
    <3>3. (Refreshing(r) /\ ~ req[r].lost) => req[r].tab # t /\ req[r].tab \in Tabs
      BY <2>1, <2>2 DEF Refreshing
    <3>4. \/ req[r].tab # t /\ req[r].tab \in Tabs /\ promise'[req[r].tab] = promise[req[r].tab]
          \/ req[r].pc # "waiting" /\ ~ (Refreshing(r) /\ ~ req[r].lost)
      BY <3>2, <3>3
    <3> QED  BY <2>1, <2>2, <3>1, <3>4 DEF WokenInv
  <2>3. CASE Freed(r) /\ req[r].tab = t  BY <2>3 DEF Freed, Refreshing
  <2>4. CASE Unheard(r) /\ req[r].tab = t /\ req[r].pc # "waiting"
    BY <2>1, <2>4 DEF Unheard, Refreshing
  <2>5. CASE Moved(r, "sent") /\ req[r].tab = t /\ req[r].pc = "waiting"
    BY <2>1, <2>5 DEF Moved, Refreshing, WokenInv
  <2> QED  BY <2>2, <2>3, <2>4, <2>5 DEF Freed, Unheard, Moved
<1>2. ASSUME NEW x \in Tabs, promise'[x] \in Requests
      PROVE  Refreshing(promise[x])' /\ req'[promise'[x]].tab = x /\ ~ req'[promise'[x]].lost
  <2>1. x # t /\ promise'[x] = promise[x]  BY <1>2
  <2>2. Refreshing(promise[x]) /\ req[promise[x]].tab = x /\ ~ req[promise[x]].lost
    BY <1>2, <2>1 DEF WokenInv
  <2>3. req'[promise[x]] = req[promise[x]]  BY <1>1, <1>2, <2>1, <2>2
  <2> QED  BY <2>1, <2>2, <2>3 DEF Refreshing
<1> QED  BY <1>1, <1>2 DEF WokenInv, Refreshing

\* The session of a tab ends: its promise is cleared with the refresh it stood for, and
\* whoever waited for it is answered.
LEMMA EndWoken ==
    ASSUME TypeOK, WokenInv, NEW t \in Tabs, NEW S \in SUBSET Requests,
           \A r \in S : req[r].tab = t,
           Waiting(t) \subseteq S \/ page[t] = "app",
           \A r \in Requests : (Refreshing(r) /\ ~ req[r].lost /\ req[r].tab = t)
                                  => r \in S \/ page[t] = "app",
           EndSession(t, S),
           NEW p \in {NoRequest, Settled},
           page[t] # "app" => promise' = [promise EXCEPT ![t] = p]
    PROVE  WokenInv'
<1>1. /\ promise'[t] \in {NoRequest, Settled}
      /\ \A x \in Tabs : x # t => promise'[x] = promise[x]
  BY DEF EndSession, TypeOK
<1>2. ASSUME NEW r \in Requests
      PROVE  \/ Freed(r) /\ req[r].tab = t
             \/ /\ req'[r] = req[r]
                /\ req[r].tab = t => /\ req[r].pc # "waiting"
                                     /\ ~ (Refreshing(r) /\ ~ req[r].lost)
             \/ Unheard(r) /\ req[r].tab = t /\ req[r].pc # "waiting"
  <2>1. CASE r \in S
    <3>1. req'[r] = Idle  BY <2>1 DEF EndSession
    <3> QED  BY <2>1, <3>1, IdleType DEF Freed
  <2>2. CASE r \notin S /\ page[t] = "app"
    <3>1. req'[r] = Abandoned(t)[r]  BY <2>2 DEF EndSession
    <3> QED  BY <2>2, <3>1, TabAbandoned DEF Refreshing
  <2>3. CASE r \notin S /\ page[t] # "app"
    <3>1. req'[r] = req[r]  BY <2>3 DEF EndSession
    <3>2. r \notin Waiting(t)  BY <2>3
    <3> QED  BY <2>3, <3>1, <3>2 DEF Waiting, WokenInv
  <2> QED  BY <2>1, <2>2, <2>3
<1> QED  BY <1>1, <1>2, PromiseCleared

LEMMA ClientWoken ==
    ASSUME TypeOK, WokenInv, NEW r \in Requests, NEW q \in Requests,
           \/ DeliverLogout(r) \/ DeliverLogin(r) \/ DeliverRefreshed(r) \/ DeliverRefused(r)
           \/ JoinRefresh(r) \/ JoinSettled(r) \/ NothingToRefresh(r) \/ BeginRefresh(r, q)
    PROVE  WokenInv'
<1> DEFINE t == req[r].tab
<1>1. req[r].pc # "idle" => t \in Tabs  BY DEF WokenInv
<1>2. ASSUME Done(r), ~ Refreshing(r), UNCHANGED promise  PROVE WokenInv'
  <2>1. Freed(r) /\ Others(r)  BY <1>2, SlotMoves DEF Pcs
  <2> QED  BY <1>2, <2>1, PromiseKept DEF Others
<1>3. CASE DeliverLogout(r)  BY <1>2, <1>3 DEF DeliverLogout, Finish, Refreshing
<1>4. CASE JoinSettled(r)  BY <1>2, <1>4 DEF JoinSettled, Intercepts, Finish, Refreshing
<1>5. CASE DeliverLogin(r)  BY <1>2, <1>5 DEF DeliverLogin, At, Refreshing
<1>6. CASE DeliverRefreshed(r)
  <2>1. t \in Tabs /\ promise[t] = r /\ Refreshing(r)
    BY <1>1, <1>6 DEF DeliverRefreshed, At, Refreshing, WokenInv
  <2>2. promise'[t] = NoRequest /\ \A x \in Tabs : x # t => promise'[x] = promise[x]
    BY <1>6, <2>1 DEF DeliverRefreshed, TypeOK
  <2>3. ASSUME NEW p \in Requests
        PROVE  \/ /\ req'[p] = req[p]
                  /\ req[p].tab = t => /\ req[p].pc # "waiting"
                                       /\ ~ (Refreshing(p) /\ ~ req[p].lost)
               \/ Freed(p) /\ req[p].tab = t
               \/ Unheard(p) /\ req[p].tab = t /\ req[p].pc # "waiting"
               \/ Moved(p, "sent") /\ req[p].tab = t /\ req[p].pc = "waiting"
    <3>1. CASE p = r
      <4>1. req'[p] = Idle  BY <1>6, <3>1 DEF DeliverRefreshed
      <4> QED  BY <3>1, <4>1, IdleType DEF Freed
    <3>2. CASE p # r /\ p \in Waiting(t)
      <4>1. req'[p] = [req[p] EXCEPT !.pc = "sent", !.bearer = req[r].fresh]
        BY <1>6, <3>2 DEF DeliverRefreshed
      <4>2. req[p] \in Request  BY DEF TypeOK
      <4>3. Moved(p, "sent")  BY <4>1, <4>2 DEF Moved, Request
      <4> QED  BY <3>2, <4>3 DEF Waiting
    <3>3. CASE p # r /\ p \notin Waiting(t)
      <4>1. req'[p] = req[p]  BY <1>6, <3>3 DEF DeliverRefreshed
      <4> QED  BY <2>1, <3>3, <4>1 DEF Waiting, WokenInv
    <3> QED  BY <3>1, <3>2, <3>3
  <2> QED  BY <2>1, <2>2, <2>3, PromiseCleared
<1>7. CASE DeliverRefused(r)
  <2> DEFINE S == {r} \cup Waiting(t)
  <2>1. t \in Tabs /\ promise[t] = r /\ Refreshing(r)
    BY <1>1, <1>7 DEF DeliverRefused, Refreshing, WokenInv
  <2>2. S \in SUBSET Requests /\ \A p \in S : req[p].tab = t  BY DEF Waiting
  <2>3. \A p \in Requests : (Refreshing(p) /\ ~ req[p].lost /\ req[p].tab = t) => p \in S
    BY <2>1 DEF WokenInv
  <2>4. EndSession(t, S) /\ (page[t] # "app" => promise' = [promise EXCEPT ![t] = NoRequest])
    BY <1>7 DEF DeliverRefused
  <2>5. Waiting(t) \subseteq S  OBVIOUS
  <2> HIDE DEF S, t
  <2> QED  BY <2>1, <2>2, <2>3, <2>4, <2>5, EndWoken
<1>8. CASE NothingToRefresh(r)
  <2> DEFINE S == {r}
  <2>1. t \in Tabs /\ promise[t] = NoRequest
    BY <1>1, <1>8 DEF NothingToRefresh, Intercepts
  <2>2. S \in SUBSET Requests /\ \A p \in S : req[p].tab = t  OBVIOUS
  <2>3. /\ \A p \in Requests : (Refreshing(p) /\ ~ req[p].lost /\ req[p].tab = t) => p \in S
        /\ Waiting(t) \subseteq S
    BY <2>1 DEF WokenInv, Waiting
  <2>4. EndSession(t, S) /\ (page[t] # "app" => promise' = [promise EXCEPT ![t] = Settled])
    BY <1>8 DEF NothingToRefresh
  <2> HIDE DEF S, t
  <2> QED  BY <2>1, <2>2, <2>3, <2>4, EndWoken
<1>9. CASE JoinRefresh(r)
  <2>1. CASE req[r].op = "call"
    BY <1>2, <1>9, <2>1 DEF JoinRefresh, browser, Refreshing
  <2>2. CASE req[r].op # "call"
    <3>1. req[r] \in Request  BY DEF TypeOK
    <3>2. /\ req[r].op = "logout" /\ ~ req[r].lost /\ promise[t] \in Requests /\ t \in Tabs
          /\ UNCHANGED promise
          /\ req' = [req EXCEPT ![r].pc = "waiting", ![r].retried = TRUE]
      BY <1>1, <1>9, <2>2 DEF JoinRefresh, Intercepts, browser
    <3>3. Moved(r, "waiting") /\ Others(r)
      BY <3>1, <3>2 DEF Moved, Others, TypeOK, Request
    <3>4. ASSUME NEW p \in Requests
          PROVE  /\ req'[p].pc # "idle" => req'[p].tab \in Tabs
                 /\ req'[p].pc = "waiting" => req'[p].op = "logout" /\ ~ req'[p].lost
                                                /\ promise'[req'[p].tab] \in Requests
                 /\ (Refreshing(p)' /\ ~ req'[p].lost) => promise'[req'[p].tab] = p
      <4>1. CASE p = r  BY <3>2, <3>3, <4>1 DEF Moved, Refreshing
      <4>2. CASE p # r
        <5>1. req'[p] = req[p]  BY <3>3, <4>2 DEF Others
        <5> QED  BY <3>2, <5>1 DEF WokenInv, Refreshing
      <4> QED  BY <4>1, <4>2
    <3>5. ASSUME NEW x \in Tabs, promise'[x] \in Requests
          PROVE  Refreshing(promise[x])' /\ req'[promise'[x]].tab = x /\ ~ req'[promise'[x]].lost
      <4>1. /\ promise'[x] = promise[x]
            /\ Refreshing(promise[x]) /\ req[promise[x]].tab = x /\ ~ req[promise[x]].lost
        BY <3>2, <3>5 DEF WokenInv
      <4>2. promise[x] # r  BY <3>2, <4>1 DEF Refreshing
      <4>3. req'[promise[x]] = req[promise[x]]  BY <3>3, <3>5, <4>1, <4>2 DEF Others
      <4> QED  BY <4>1, <4>3 DEF Refreshing
    <3> QED  BY <3>4, <3>5 DEF WokenInv, Refreshing
  <2> QED  BY <2>1, <2>2
<1>10. CASE BeginRefresh(r, q)
  <2>1. /\ t \in Tabs /\ promise[t] = NoRequest /\ ~ req[r].lost
        /\ req[r].op \in {"call", "logout"} /\ req[r].pc = "unauthorized"
        /\ q = r \/ (req[q].pc = "idle" /\ req[r].op = "logout")
    BY <1>1, <1>10 DEF BeginRefresh, Intercepts
  <2>2. promise'[t] = q /\ \A x \in Tabs : x # t => promise'[x] = promise[x]
    BY <1>10, <2>1 DEF BeginRefresh, TypeOK
  <2>3. /\ req'[q].op = "refresh" /\ req'[q].tab = t /\ req'[q].pc = "sent" /\ ~ req'[q].lost
        /\ r # q => Moved(r, "waiting")
        /\ \A p \in Requests : p \notin {q, r} => req'[p] = req[p]
    <3>1. req[r] \in Request  BY DEF TypeOK
    <3>2. req'[q] = New("refresh", t, stored, NoToken)  BY <1>10 DEF BeginRefresh
    <3>3. r # q => req'[r] = [req[r] EXCEPT !.pc = "waiting", !.retried = TRUE]
      BY <1>10 DEF BeginRefresh
    <3>4. r # q => Moved(r, "waiting")  BY <3>1, <3>3 DEF Moved, Request
    <3> QED  BY <1>10, <3>2, <3>4 DEF BeginRefresh, New
  <2>4. ASSUME NEW p \in Requests
        PROVE  /\ req'[p].pc # "idle" => req'[p].tab \in Tabs
               /\ req'[p].pc = "waiting" => req'[p].op = "logout" /\ ~ req'[p].lost
                                              /\ promise'[req'[p].tab] \in Requests
               /\ (Refreshing(p)' /\ ~ req'[p].lost) => promise'[req'[p].tab] = p
    <3>1. CASE p = q  BY <2>1, <2>2, <2>3, <3>1
    <3>2. CASE p = r /\ r # q  BY <2>1, <2>2, <2>3, <3>2 DEF Moved, Refreshing
    <3>3. CASE p \notin {q, r}
      <4>1. req'[p] = req[p]  BY <2>3, <3>3
      <4>2. req[p].pc = "waiting" \/ (Refreshing(p) /\ ~ req[p].lost)
               => req[p].tab \in Tabs /\ req[p].tab # t
        BY <2>1 DEF WokenInv, Refreshing
      <4> QED  BY <2>2, <4>1, <4>2 DEF WokenInv, Refreshing
    <3> QED  BY <3>1, <3>2, <3>3
  <2>5. ASSUME NEW x \in Tabs, promise'[x] \in Requests
        PROVE  Refreshing(promise[x])' /\ req'[promise'[x]].tab = x /\ ~ req'[promise'[x]].lost
    <3>1. CASE x = t  BY <2>2, <2>3, <3>1 DEF Refreshing
    <3>2. CASE x # t
      <4>1. promise'[x] = promise[x]  BY <2>2, <3>2
      <4>2. Refreshing(promise[x]) /\ req[promise[x]].tab = x /\ ~ req[promise[x]].lost
        BY <2>5, <4>1 DEF WokenInv
      <4>3. promise[x] \notin {q, r}  BY <2>1, <4>2 DEF Refreshing
      <4> QED  BY <2>3, <2>5, <4>1, <4>2, <4>3 DEF Refreshing
    <3> QED  BY <3>1, <3>2
  <2> QED  BY <2>4, <2>5 DEF WokenInv, Refreshing
<1> QED  BY <1>3, <1>4, <1>5, <1>6, <1>7, <1>8, <1>9, <1>10

LEMMA LostWoken ==
    ASSUME TypeOK, WokenInv, NEW r \in Requests, LoseAnswer(r) \/ Forget(r) \/ Crash(r)
    PROVE  WokenInv'
<1> DEFINE t == req[r].tab
<1>1. CASE Forget(r) \/ Crash(r)
  <2>1. Freed(r) /\ Others(r) /\ req[r].lost /\ UNCHANGED promise
    BY <1>1, SlotMoves DEF Forget, Crash, browser, Pcs
  <2> QED  BY <2>1, PromiseKept DEF Others
<1>2. CASE LoseAnswer(r) /\ req[r].op = "refresh"
  <2>1. t \in Tabs /\ promise[t] = r /\ Refreshing(r)
    BY <1>2 DEF LoseAnswer, Refreshing, WokenInv
  <2>2. promise'[t] = NoRequest /\ \A x \in Tabs : x # t => promise'[x] = promise[x]
    BY <1>2, <2>1 DEF LoseAnswer, TypeOK
  <2>3. ASSUME NEW p \in Requests
        PROVE  \/ /\ req'[p] = req[p]
                  /\ req[p].tab = t => /\ req[p].pc # "waiting"
                                       /\ ~ (Refreshing(p) /\ ~ req[p].lost)
               \/ Freed(p) /\ req[p].tab = t
               \/ Unheard(p) /\ req[p].tab = t /\ req[p].pc # "waiting"
    <3>1. CASE page[t] = "app"
      <4>1. req'[p] = Abandoned(t)[p]  BY <1>2, <3>1 DEF LoseAnswer
      <4> QED  BY <4>1, TabAbandoned DEF Refreshing
    <3>2. CASE page[t] # "app" /\ p = r
      <4>1. req' = [req EXCEPT ![r].lost = TRUE] \/ req'[p] = [req[p] EXCEPT !.lost = TRUE]
        BY <1>2, <3>2 DEF LoseAnswer
      <4>2. req[p] \in Request  BY DEF TypeOK
      <4>3. Unheard(p)  BY <3>2, <4>1, <4>2, SlotMoves DEF Unheard, Request, Pcs
      <4> QED  BY <1>2, <3>2, <4>3 DEF LoseAnswer
    <3>3. CASE page[t] # "app" /\ p # r /\ p \in Waiting(t)
      <4>1. req'[p] = Idle  BY <1>2, <3>3 DEF LoseAnswer
      <4> QED  BY <3>3, <4>1, IdleType DEF Freed, Waiting
    <3>4. CASE page[t] # "app" /\ p # r /\ p \notin Waiting(t)
      <4>1. req'[p] = req[p]  BY <1>2, <3>4 DEF LoseAnswer
      <4> QED  BY <2>1, <3>4, <4>1 DEF Waiting, WokenInv
    <3> QED  BY <3>1, <3>2, <3>3, <3>4
  <2> QED  BY <2>1, <2>2, <2>3, PromiseCleared
<1>3. CASE LoseAnswer(r) /\ req[r].op # "refresh"
  <2>1. UNCHANGED promise /\ req[r].pc \notin {"idle", "waiting"}  BY <1>3 DEF LoseAnswer
  <2>2. (Freed(r) \/ Unheard(r)) /\ Others(r)
    BY <1>3, SlotMoves DEF LoseAnswer, Pcs
  <2> QED  BY <1>3, <2>1, <2>2, PromiseKept DEF Others, Refreshing
<1> QED  BY <1>1, <1>2, <1>3

LEMMA UserWoken ==
    ASSUME TypeOK, WokenInv, NEW t \in Tabs, User(t)
    PROVE  WokenInv'
<1>1. CASE RequireSession(t) \/ RequireGuest(t) \/ LogoutWithoutToken(t)
  <2>1. UNCHANGED <<promise, req>>
    BY <1>1 DEF RequireSession, RequireGuest, LogoutWithoutToken
  <2> QED  BY <2>1, PromiseKept
<1>2. CASE Reload(t)
  <2>1. promise'[t] = NoRequest /\ \A x \in Tabs : x # t => promise'[x] = promise[x]
    BY <1>2 DEF Reload, TypeOK
  <2>2. ASSUME NEW p \in Requests
        PROVE  \/ /\ req'[p] = req[p]
                  /\ req[p].tab = t => /\ req[p].pc # "waiting"
                                       /\ ~ (Refreshing(p) /\ ~ req[p].lost)
               \/ Freed(p) /\ req[p].tab = t
               \/ Unheard(p) /\ req[p].tab = t /\ req[p].pc # "waiting"
    <3>1. req'[p] = Abandoned(t)[p]  BY <1>2 DEF Reload
    <3> QED  BY <3>1, TabAbandoned DEF Refreshing
  <2> QED  BY <2>1, <2>2, PromiseCleared
<1>3. ASSUME NEW r \in Requests, NEW op, NEW k, NEW b, op # "refresh", Start(r, t, op, k, b)
      PROVE  WokenInv'
  <2>1. /\ req'[r].op = op /\ req'[r].tab = t /\ req'[r].pc = "sent" /\ Others(r)
        /\ UNCHANGED promise /\ ~ Refreshing(r)
    <3>1. /\ req' = [req EXCEPT ![r] = New(op, t, k, b)]
          /\ req[r].pc = "idle" /\ UNCHANGED promise
      BY <1>3 DEF Start, browser
    <3>2. /\ req'[r].op = op /\ req'[r].tab = t /\ req'[r].pc = "sent" /\ Others(r)
      BY <3>1 DEF New, Others, TypeOK
    <3>3. ~ Refreshing(r)  BY <3>1 DEF Refreshing
    <3> QED  BY <3>1, <3>2, <3>3
  <2>2. ~ Refreshing(r)'  BY <1>3, <2>1 DEF Refreshing
  <2> QED  BY <2>1, <2>2, PromiseKept DEF Others
<1>4. ASSUME NEW r \in Requests, Login(r, t)  PROVE WokenInv'
  <2> DEFINE asked(k) == [New("login", t, NoToken, NoToken) EXCEPT !.pc = "ok", !.fresh = k]
  <2>1. PICK k \in Tokens : req' = [req EXCEPT ![r] = asked(k)]
    BY <1>4 DEF Login
  <2>2. asked(k).op = "login" /\ asked(k).tab = t /\ asked(k).pc = "ok"  BY DEF New
  <2>3. UNCHANGED promise /\ ~ Refreshing(r)  BY <1>4 DEF Login, Issue, browser, Refreshing
  <2> HIDE DEF asked
  <2>4. req'[r] = asked(k) /\ Others(r)  BY <2>1 DEF TypeOK, Others
  <2>5. ~ Refreshing(r)'  BY <2>2, <2>4 DEF Refreshing
  <2> QED  BY <2>2, <2>3, <2>4, <2>5, PromiseKept DEF Others
<1> QED  BY <1>1, <1>2, <1>3, <1>4 DEF User, StartCall, StartLogout

LEMMA WokenInit == Init => WokenInv
  BY IdleType DEF Init, WokenInv, Refreshing

LEMMA WokenNext == TypeOK /\ WokenInv /\ [Next]_vars => WokenInv'
<1> SUFFICES ASSUME TypeOK, WokenInv, [Next]_vars PROVE WokenInv'
  OBVIOUS
<1>1. ASSUME UNCHANGED <<promise, req>> PROVE WokenInv'
  BY <1>1, PromiseKept
<1>2. CASE UNCHANGED vars \/ LogoutAll \/ Expire
  BY <1>1, <1>2 DEF vars, LogoutAll, Expire, browser
<1>3. ASSUME NEW r \in Requests, Client(r)  PROVE WokenInv'
  BY <1>3, ClientWoken DEF Client
<1> QED  BY <1>2, <1>3, HandleWoken, LostWoken, UserWoken DEF Next

\* A log-out that waits for refreshPromise waits for a refresh of its own tab that is
\* under way and whose answer the interceptor will handle, however tabs are reloaded,
\* answers lost and refreshes refused.
THEOREM SpecWaitersAreWoken == Spec => []WaitersAreWoken
<1>1. TypeOK /\ WokenInv => WaitersAreWoken
  BY DEF WokenInv, WaitersAreWoken, Refreshing
<1> QED  BY <1>1, SessionTypes, WokenInit, WokenNext, PTL DEF Spec

-----------------------------------------------------------------------------
(* A refresh is refused only when the session is over.                       *)

\* The reasons RefusedOnlyIfOver accepts, and an answer with a pair to be stored.
Excused(k) == age[k] = 2 \/ login[k] \in Ended \/ k \in shared
Live(k) == k \in rows \/ Excused(k)
Answered(r) == req[r].op \in {"login", "refresh"} /\ req[r].pc = "ok" /\ ~ req[r].lost

\* What is known of the token of a refresh, by how far its handler is.
Covered(r) ==
    Refreshing(r) =>
        /\ req[r].token \in issued
        /\ req[r].lost => req[r].token \in shared
        /\ req[r].pc \in {"sent", "verified"} => Live(req[r].token)
        /\ req[r].pc \in {"unauthorized", "failed"} => Excused(req[r].token)

\* The inductive strengthening of RefusedOnlyIfOver: while nothing excuses it, the stored
\* token has its row or is being rotated, one refresh at a time holds a token, and a pair
\* that is under way to the browser has been sent by nobody.
TokensInv ==
    /\ stored \in issued \cup {NoToken}
    /\ \A r \in Requests : Covered(r)
    /\ \A r, q \in Requests :
          (Refreshing(r) /\ Refreshing(q) /\ req[r].token = req[q].token
             /\ req[r].token \notin shared) => r = q
    /\ stored \in issued =>
          Live(stored) \/ \E q \in Requests : Refreshing(q) /\ req[q].token = stored
    /\ \A r \in Requests : Answered(r) =>
          /\ req[r].fresh \in issued /\ req[r].fresh # stored /\ Live(req[r].fresh)
          /\ \A q \in Requests : Refreshing(q) => req[q].token # req[r].fresh
          /\ \A q \in Requests : Answered(q) /\ req[q].fresh = req[r].fresh => q = r

\* A step, as the invariant sees it: what becomes of a token, of a refresh, of an answer
\* and of the stored pair.
TokenHeld(k) ==
    \E q \in Requests : /\ Refreshing(q) /\ req[q].token = k
                        /\ Refreshing(q)' /\ req'[q].token = k
SameRefresh(r) == Refreshing(r) /\ req'[r].token = req[r].token
Begun(r) ==
    /\ req'[r].token = stored /\ stored' = stored
    /\ \A p \in Requests \ {r} :
          /\ Refreshing(p)' => SameRefresh(p)
          /\ Refreshing(p) /\ req[p].token = stored => stored \in shared'
NewlyAnswered(r) ==
    /\ req'[r].fresh \in Tokens \ issued
    /\ req'[r].fresh \in rows' /\ req'[r].fresh \in issued'
    /\ Others(r)
StoresAnswer == \E r \in Requests : Answered(r) /\ stored' = req[r].fresh /\ ~ Answered(r)'

LEMMA TokensStep ==
    ASSUME TypeOK, TokensInv,
           issued \subseteq issued', issued' \subseteq Tokens, shared \subseteq shared',
           \A k \in issued : /\ Excused(k) => Excused(k)'
                             /\ Live(k) => Live(k)' \/ TokenHeld(k),
           stored' \in {stored, NoToken} \/ StoresAnswer,
           \A r \in Requests : Refreshing(r)' => Covered(r)' /\ (SameRefresh(r) \/ Begun(r)),
           \A r \in Requests : Refreshing(r) /\ req[r].token = stored'
                 => (Refreshing(r)' /\ SameRefresh(r)) \/ stored' \in shared',
           \A r \in Requests : Answered(r)' =>
                 (Answered(r) /\ req'[r].fresh = req[r].fresh) \/ NewlyAnswered(r)
    PROVE  TokensInv'
<1>1. stored' \in issued' \cup {NoToken}
  BY DEF TokensInv, StoresAnswer
<1>2. \A r \in Requests : Covered(r)'
  BY DEF Covered
<1>3. ASSUME NEW r \in Requests, NEW q \in Requests,
             Refreshing(r)', Refreshing(q)', req'[r].token = req'[q].token,
             req'[r].token \notin shared'
      PROVE  r = q
  <2>1. SUFFICES ASSUME r # q PROVE FALSE
    OBVIOUS
  <2>2. CASE SameRefresh(r) /\ SameRefresh(q)
    BY <1>3, <2>1, <2>2 DEF SameRefresh, TokensInv
  <2>3. CASE Begun(r)  BY <1>3, <2>1, <2>3 DEF Begun, SameRefresh
  <2>4. CASE Begun(q)  BY <1>3, <2>1, <2>4 DEF Begun, SameRefresh
  <2> QED  BY <1>3, <2>2, <2>3, <2>4
<1>4. ASSUME stored' \in issued'
      PROVE  Live(stored)' \/ \E q \in Requests : Refreshing(q)' /\ req'[q].token = stored'
  <2>1. stored' \in issued  BY <1>4 DEF TokensInv, StoresAnswer
  <2>2. CASE stored' = stored
    <3>1. CASE Live(stored)
      <4>1. Live(stored)' \/ TokenHeld(stored)  BY <2>1, <2>2, <3>1 DEF Live, Excused, Ended
      <4> QED  BY <2>2, <4>1 DEF TokenHeld
    <3>2. ASSUME NEW q \in Requests, Refreshing(q), req[q].token = stored
          PROVE  Live(stored)' \/ \E p \in Requests : Refreshing(p)' /\ req'[p].token = stored'
      <4>1. (Refreshing(q)' /\ SameRefresh(q)) \/ stored' \in shared'  BY <2>2, <3>2
      <4> QED  BY <2>2, <3>2, <4>1 DEF SameRefresh, Live, Excused, Ended
    <3> QED  BY <2>1, <2>2, <3>1, <3>2 DEF TokensInv
  <2>3. CASE StoresAnswer
    <3>1. PICK r \in Requests : Answered(r) /\ stored' = req[r].fresh
      BY <2>3 DEF StoresAnswer
    <3>2. Live(req[r].fresh) /\ ~ TokenHeld(req[r].fresh)
      BY <3>1 DEF TokensInv, TokenHeld
    <3> QED  BY <2>1, <3>1, <3>2 DEF Live, Excused, Ended
  <2>4. stored' # NoToken  BY <2>1 DEF TypeOK
  <2> QED  BY <2>2, <2>3, <2>4
<1>5. ASSUME NEW r \in Requests, Answered(r)'
      PROVE  /\ req'[r].fresh \in issued' /\ req'[r].fresh # stored' /\ Live(req[r].fresh)'
             /\ \A q \in Requests : Refreshing(q)' => req'[q].token # req'[r].fresh
             /\ \A q \in Requests : Answered(q)' /\ req'[q].fresh = req'[r].fresh => q = r
  <2>1. CASE Answered(r) /\ req'[r].fresh = req[r].fresh
    <3>1. /\ req[r].fresh \in issued /\ req[r].fresh # stored /\ Live(req[r].fresh)
          /\ \A q \in Requests : Refreshing(q) => req[q].token # req[r].fresh
          /\ \A q \in Requests : Answered(q) /\ req[q].fresh = req[r].fresh => q = r
      BY <2>1 DEF TokensInv
    <3>2. ~ TokenHeld(req[r].fresh)  BY <3>1 DEF TokenHeld
    <3>3. Live(req[r].fresh)'  BY <2>1, <3>1, <3>2 DEF Live, Excused, Ended
    <3>4. req'[r].fresh # stored'
      BY <1>5, <2>1, <3>1 DEF StoresAnswer, TypeOK
    <3>5. \A q \in Requests : Refreshing(q)' => req'[q].token # req'[r].fresh
      BY <2>1, <3>1 DEF SameRefresh, Begun
    <3>6. \A q \in Requests : Answered(q)' /\ req'[q].fresh = req'[r].fresh => q = r
      BY <2>1, <3>1 DEF NewlyAnswered
    <3> QED  BY <2>1, <3>1, <3>3, <3>4, <3>5, <3>6
  <2>2. CASE NewlyAnswered(r)
    <3>1. /\ req'[r].fresh \in Tokens /\ req'[r].fresh \notin issued
          /\ req'[r].fresh \in rows' /\ req'[r].fresh \in issued'
      BY <2>2 DEF NewlyAnswered
    <3>2. req'[r].fresh # stored'
      BY <3>1 DEF TokensInv, StoresAnswer, TypeOK
    <3>3. \A q \in Requests : Refreshing(q)' => req'[q].token # req'[r].fresh
      BY <3>1 DEF SameRefresh, Begun, TokensInv, Covered
    <3>4. \A q \in Requests : Answered(q)' /\ req'[q].fresh = req'[r].fresh => q = r
      <4>1. ASSUME NEW q \in Requests, q # r, Answered(q)'
            PROVE  req'[q].fresh \in issued
        <5>1. req'[q] = req[q]  BY <2>2, <4>1 DEF NewlyAnswered, Others
        <5> QED  BY <4>1, <5>1 DEF Answered, TokensInv
      <4> QED  BY <3>1, <4>1
    <3>5. Live(req[r].fresh)'  BY <3>1 DEF Live
    <3> QED  BY <3>1, <3>2, <3>3, <3>4, <3>5
  <2> QED  BY <1>5, <2>1, <2>2
<1> QED  BY <1>1, <1>2, <1>3, <1>4, <1>5 DEF TokensInv

\* The tokens keep their rows or gain an excuse.
StillLive == \A k \in issued : (Excused(k) => Excused(k)') /\ (Live(k) => Live(k)')

\* What a step that rotates nothing and stores nothing does to a slot.
Kept(r) ==
    \/ req'[r] = req[r]
    \/ Freed(r) /\ (Refreshing(r) => req[r].token # stored' \/ req[r].token \in shared')
    \/ Unheard(r) /\ (Refreshing(r) => req[r].token \in shared')
    \/ ~ Refreshing(r) /\ ~ Refreshing(r)' /\ ~ Answered(r)'

LEMMA TokensKept ==
    ASSUME TypeOK, TokensInv, UNCHANGED issued, StillLive, shared \subseteq shared',
           stored' \in {stored, NoToken}, \A r \in Requests : Kept(r)
    PROVE  TokensInv'
<1>1. ASSUME NEW r \in Requests, Refreshing(r)'
      PROVE  Covered(r)' /\ SameRefresh(r)
  <2>1. req'[r] = req[r] \/ (Unheard(r) /\ (Refreshing(r) => req[r].token \in shared'))
    BY <1>1 DEF Kept, Freed, Refreshing
  <2>2. Refreshing(r) /\ req'[r].token = req[r].token /\ req'[r].pc = req[r].pc
        /\ (req'[r].lost => req[r].lost \/ req[r].token \in shared')
    BY <1>1, <2>1 DEF Unheard, Refreshing
  <2>3. Covered(r)  BY DEF TokensInv
  <2> DEFINE k == req[r].token
  <2>4. k \in issued /\ (Excused(k) => Excused(k)') /\ (Live(k) => Live(k)')
    BY <2>2, <2>3 DEF Covered, StillLive
  <2> QED  BY <2>2, <2>3, <2>4 DEF Covered, SameRefresh, Excused, Ended, Live
<1>2. ASSUME NEW r \in Requests, Refreshing(r), req[r].token = stored'
      PROVE  (Refreshing(r)' /\ SameRefresh(r)) \/ stored' \in shared'
  BY <1>2 DEF Kept, Unheard, SameRefresh, Refreshing
<1>3. ASSUME NEW r \in Requests, Answered(r)'
      PROVE  Answered(r) /\ req'[r].fresh = req[r].fresh
  BY <1>3 DEF Kept, Freed, Unheard, Answered
<1>4. issued' \subseteq Tokens  BY DEF TypeOK
<1> QED  BY <1>1, <1>2, <1>3, <1>4, TokensStep DEF StillLive

\* The server is left alone.
LEMMA ServerKept ==
    ASSUME TokensInv, UNCHANGED server, shared \subseteq shared'
    PROVE  StillLive
  BY DEF StillLive, Live, Excused, Ended, server

\* A step of one fetch that is no refresh and is not answered.
LEMMA OtherKept ==
    ASSUME TypeOK, TokensInv, NEW r \in Requests, Others(r), UNCHANGED <<issued, shared>>,
           StillLive, stored' \in {stored, NoToken},
           Freed(r) \/ Unheard(r) \/ \E pc \in Pcs : Moved(r, pc) /\ ~ Answered(r)',
           req[r].op # "refresh"
    PROVE  TokensInv'
<1>1. ~ Refreshing(r)  BY DEF Refreshing
<1>2. ASSUME NEW q \in Requests  PROVE Kept(q)
  <2>1. CASE q # r  BY <2>1 DEF Kept, Others
  <2>2. CASE q = r /\ (Freed(r) \/ Unheard(r))  BY <1>1, <2>2 DEF Kept
  <2>3. CASE q = r /\ \E pc \in Pcs : Moved(r, pc) /\ ~ Answered(r)'
    BY <1>1, <2>3 DEF Kept, Moved, Refreshing
  <2> QED  BY <2>1, <2>2, <2>3
<1> QED  BY <1>2, TokensKept

LEMMA HandleTokens ==
    ASSUME TypeOK, TokensInv, NEW r \in Requests,
           HandleCall(r) \/ VerifyLogout(r) \/ RevokeLogout(r) \/ RevokeExpired(r)
    PROVE  TokensInv'
<1>1. req[r].op \in {"call", "logout"}
  BY DEF HandleCall, VerifyLogout, RevokeLogout, RevokeExpired, At
<1>2. UNCHANGED <<issued, shared, stored>>
  BY DEF HandleCall, VerifyLogout, RevokeLogout, RevokeExpired, server, browser
<1>3. Done(r) \/ \E pc \in Pcs : GoTo(r, pc)
  BY DEF HandleCall, VerifyLogout, RevokeLogout, RevokeExpired, Pcs
<1>4. Others(r) /\ (Freed(r) \/ \E pc \in Pcs : Moved(r, pc))
  BY <1>3, SlotMoves DEF Pcs
<1>5. StillLive
  <2>1. CASE HandleCall(r) \/ VerifyLogout(r)
    BY <2>1, ServerKept DEF HandleCall, VerifyLogout, browser
  <2>2. CASE RevokeLogout(r)
    BY <2>2 DEF RevokeLogout, browser, StillLive, Live, Excused, Ended, At
  <2>3. CASE RevokeExpired(r)
    <3>1. ASSUME NEW k \in rows, ~ (age[k] < 2)  PROVE age[k] = 2
      BY <3>1 DEF TypeOK
    <3> QED  BY <2>3, <3>1 DEF RevokeExpired, browser, StillLive, Live, Excused, Ended
  <2> QED  BY <2>1, <2>2, <2>3
<1>6. \A pc \in Pcs : Moved(r, pc) => ~ Answered(r)'
  BY <1>1 DEF Moved, Answered
<1> QED  BY <1>1, <1>2, <1>4, <1>5, <1>6, OtherKept

\* verifyRefreshToken() refuses only a token without a row or past its expiry.
LEMMA VerifyTokens ==
    ASSUME TypeOK, TokensInv, NEW r \in Requests, VerifyRefresh(r)
    PROVE  TokensInv'
<1> DEFINE k == req[r].token
<1>1. /\ Refreshing(r) /\ k \in issued /\ Live(k) /\ (req[r].lost => k \in shared)
  BY DEF VerifyRefresh, At, Refreshing, TokensInv, Covered
<1>2. PICK pc \in {"verified", "unauthorized"} :
         GoTo(r, pc) /\ (pc = "unauthorized" => Excused(k))
  <2>1. age[k] < 2 \/ age[k] = 2  BY <1>1 DEF TypeOK
  <2> QED  BY <1>1, <2>1 DEF VerifyRefresh, Live, Excused, Ended
<1>3. Moved(r, pc) /\ Others(r)  BY <1>2, SlotMoves DEF Pcs
<1>4. UNCHANGED <<rows, issued, login, age, closed, raced, shared, stored>>
  BY DEF VerifyRefresh, server, browser
<1>5. ASSUME NEW q \in Requests
      PROVE  /\ Refreshing(q)' => Covered(q)' /\ SameRefresh(q)
             /\ Refreshing(q) => Refreshing(q)' /\ SameRefresh(q)
             /\ Answered(q)' => Answered(q) /\ req'[q].fresh = req[q].fresh
  <2>1. CASE q = r
    <3>1. /\ Refreshing(q)' /\ SameRefresh(q) /\ ~ Answered(q)'
      BY <1>1, <1>2, <1>3, <2>1 DEF Refreshing, SameRefresh, Answered, Moved
    <3>2. Covered(q)'
      BY <1>1, <1>2, <1>3, <1>4, <2>1 DEF Covered, Moved, Live, Excused, Ended
    <3> QED  BY <3>1, <3>2
  <2>2. CASE q # r
    <3>1. req'[q] = req[q]  BY <1>3, <2>2 DEF Others
    <3>2. Covered(q)  BY DEF TokensInv
    <3> QED
      BY <1>4, <3>1, <3>2 DEF Refreshing, SameRefresh, Answered, Covered, Live, Excused, Ended
  <2> QED  BY <2>1, <2>2
<1>6. \A m \in issued : (Excused(m) => Excused(m)') /\ (Live(m) => Live(m)')
  BY <1>4 DEF Live, Excused, Ended
<1>7. issued' \subseteq Tokens /\ issued \subseteq issued' /\ shared \subseteq shared'
      /\ stored' \in {stored, NoToken}
  BY <1>4 DEF TypeOK
<1> HIDE DEF k
<1> QED  BY <1>5, <1>6, <1>7, TokensStep

\* revoke() deletes the row while the refresh holds the token: only a second refresh of
\* the same token can find it gone.
LEMMA RevokeTokens ==
    ASSUME TypeOK, TokensInv, NEW r \in Requests, Revoke(r)
    PROVE  TokensInv'
<1> DEFINE k == req[r].token
<1>1. /\ Refreshing(r) /\ k \in issued /\ Live(k) /\ (req[r].lost => k \in shared)
  BY DEF Revoke, At, Refreshing, TokensInv, Covered
<1>2. PICK pc \in {"revoked", "failed"} :
         GoTo(r, pc) /\ (pc = "failed" => Excused(k))
  BY <1>1 DEF Revoke, Live
<1>3. Moved(r, pc) /\ Others(r)  BY <1>2, SlotMoves DEF Pcs
<1>4. UNCHANGED <<issued, login, age, closed, raced, shared, stored>> /\ rows' = rows \ {k}
  BY DEF Revoke, browser
<1>5. Refreshing(r)' /\ SameRefresh(r) /\ ~ Answered(r)' /\ req'[r].token = k
  BY <1>1, <1>2, <1>3 DEF Refreshing, SameRefresh, Answered, Moved
<1>6. ASSUME NEW q \in Requests
      PROVE  /\ Refreshing(q)' => Covered(q)' /\ SameRefresh(q)
             /\ Refreshing(q) => Refreshing(q)' /\ SameRefresh(q)
             /\ Answered(q)' => Answered(q) /\ req'[q].fresh = req[q].fresh
  <2>1. CASE q = r
    <3>1. Covered(q)'
      BY <1>1, <1>2, <1>3, <1>4, <1>5, <2>1 DEF Covered, Moved, Live, Excused, Ended
    <3> QED  BY <1>5, <2>1, <3>1
  <2>2. CASE q # r
    <3>1. req'[q] = req[q]  BY <1>3, <2>2 DEF Others
    <3>2. Covered(q)  BY DEF TokensInv
    <3>3. (Refreshing(q) /\ req[q].token = k) => k \in shared
      BY <1>1, <2>2 DEF TokensInv
    <3> QED
      BY <1>4, <3>1, <3>2, <3>3 DEF Refreshing, SameRefresh, Answered, Covered, Live, Excused, Ended
  <2> QED  BY <2>1, <2>2
<1>7. TokenHeld(k)  BY <1>1, <1>5 DEF TokenHeld
<1> HIDE DEF k
<1>8. \A m \in issued : /\ Excused(m) => Excused(m)'
                        /\ Live(m) => Live(m)' \/ TokenHeld(m)
  BY <1>4, <1>7 DEF Live, Excused, Ended
<1>9. issued' \subseteq Tokens /\ issued \subseteq issued' /\ shared \subseteq shared'
      /\ stored' \in {stored, NoToken}
  BY <1>4 DEF TypeOK
<1> QED  BY <1>6, <1>8, <1>9, TokensStep

\* issueTokens() draws a jti that nobody has.
LEMMA IssueTokens ==
    ASSUME TypeOK, TokensInv, NEW r \in Requests, NEW k \in Tokens \ issued, NEW root,
           Issue(k, root), Others(r), req'[r].fresh = k,
           \/ Refreshing(r) /\ Refreshing(r)' /\ SameRefresh(r) /\ req'[r].pc = "ok"
                /\ req'[r].lost = req[r].lost
           \/ ~ Refreshing(r) /\ ~ Refreshing(r)'
    PROVE  TokensInv'
<1>1. /\ issued' = issued \cup {k} /\ rows' = rows \cup {k}
      /\ login' = [login EXCEPT ![k] = root]
      /\ UNCHANGED <<age, closed, raced, shared, stored>>
  BY DEF Issue, browser
<1>2. \A m \in issued : m # k /\ login'[m] = login[m]
  BY <1>1 DEF TypeOK
<1>3. \A m \in issued : (Excused(m) => Excused(m)') /\ (Live(m) => Live(m)')
  BY <1>1, <1>2 DEF Live, Excused, Ended
<1>4. ASSUME NEW q \in Requests
      PROVE  /\ Refreshing(q)' => Covered(q)' /\ SameRefresh(q)
             /\ Refreshing(q) => Refreshing(q)' /\ SameRefresh(q)
             /\ Answered(q)' => (Answered(q) /\ req'[q].fresh = req[q].fresh) \/ NewlyAnswered(q)
  <2>0. Covered(q)  BY DEF TokensInv
  <2>1. CASE q = r
    <3>1. NewlyAnswered(q)  BY <1>1, <2>1 DEF NewlyAnswered
    <3>2. Refreshing(q)' => Covered(q)'
      BY <1>1, <2>0, <2>1 DEF Covered, SameRefresh
    <3> QED  BY <2>1, <3>1, <3>2 DEF SameRefresh
  <2>2. CASE q # r
    <3>1. req'[q] = req[q]  BY <2>2 DEF Others
    <3>2. /\ Refreshing(q)' <=> Refreshing(q)
          /\ Answered(q)' <=> Answered(q)
      BY <3>1 DEF Refreshing, Answered
    <3>3. Refreshing(q) => Covered(q)'
      <4> DEFINE m == req[q].token
      <4>1. SUFFICES ASSUME Refreshing(q) PROVE Covered(q)'
        OBVIOUS
      <4>2. m \in issued /\ req'[q].token = m  BY <2>0, <3>1, <4>1 DEF Covered
      <4>3. (Excused(m) => Excused(m)') /\ (Live(m) => Live(m)')  BY <1>3, <3>1, <4>2
      <4> QED  BY <1>1, <2>0, <3>1, <4>1, <4>2, <4>3 DEF Covered, Live, Excused, Ended
    <3> QED  BY <3>1, <3>2, <3>3 DEF SameRefresh
  <2> QED  BY <2>1, <2>2
<1>5. issued' \subseteq Tokens /\ issued \subseteq issued' /\ shared \subseteq shared'
      /\ stored' \in {stored, NoToken}
  BY <1>1 DEF TypeOK
<1> QED  BY <1>3, <1>4, <1>5, TokensStep

\* Tokens that were sent are issued, so they are not what is stored when nothing is.
LEMMA StoredNothing ==
    ASSUME TypeOK, TokensInv, NEW r \in Requests, Refreshing(r), stored' = NoToken
    PROVE  req[r].token # stored'
  BY DEF TokensInv, Covered, TypeOK

LEMMA LossShares ==
    ASSUME NEW t, NEW r \in Requests, shared' = SharedByLoss(t)
    PROVE  /\ shared \subseteq shared'
           /\ Refreshing(r) /\ req[r].tab = t => req[r].token \in shared'
  BY DEF SharedByLoss, Refreshing

\* A tab that is gone: its refreshes share their tokens with whoever sends them again.
LEMMA AbandonedKept ==
    ASSUME TypeOK, TokensInv, NEW t, NEW r \in Requests, req'[r] = Abandoned(t)[r],
           shared' = SharedByLoss(t)
    PROVE  Kept(r)
<1>1. req[r].tab = t => (Refreshing(r) => req[r].token \in shared')  BY LossShares
<1> QED  BY <1>1, TabAbandoned DEF Kept, Refreshing

LEMMA EndTokens ==
    ASSUME TypeOK, TokensInv, NEW t, NEW S \in SUBSET Requests, EndSession(t, S),
           UNCHANGED server
    PROVE  TokensInv'
<1>1. stored' = NoToken  BY DEF EndSession
<1>2. shared \subseteq shared'  BY DEF EndSession, SharedByLoss
<1>3. ASSUME NEW r \in Requests  PROVE Kept(r)
  <2>1. CASE r \in S
    <3>1. req'[r] = Idle  BY <2>1 DEF EndSession
    <3>2. Freed(r)  BY <3>1, IdleType DEF Freed
    <3> QED  BY <1>1, <3>2, StoredNothing DEF Kept
  <2>2. CASE r \notin S /\ page[t] = "app"
    BY <2>2, AbandonedKept DEF EndSession
  <2>3. CASE r \notin S /\ page[t] # "app"
    BY <2>3 DEF EndSession, Kept
  <2> QED  BY <2>1, <2>2, <2>3
<1>4. StillLive /\ UNCHANGED issued  BY <1>2, ServerKept DEF server
<1> QED  BY <1>1, <1>2, <1>3, <1>4, TokensKept

\* The answer is stored: from now on it is the stored token that nobody has sent.
LEMMA StoreTokens ==
    ASSUME TypeOK, TokensInv, NEW r \in Requests, Answered(r), stored' = req[r].fresh,
           UNCHANGED <<server, shared>>,
           \A q \in Requests :
              \/ req'[q] = req[q] /\ q # r
              \/ Freed(q)
              \/ Moved(q, "sent") /\ req[q].op = "logout"
    PROVE  TokensInv'
<1>1. UNCHANGED issued /\ StillLive  BY ServerKept DEF server
<1>2. ~ Answered(r)'  BY DEF Answered, Freed, Moved
<1>3. ASSUME NEW q \in Requests
      PROVE  /\ Refreshing(q)' => Covered(q)' /\ SameRefresh(q)
             /\ Answered(q)' => Answered(q) /\ req'[q].fresh = req[q].fresh
  <2>1. CASE req'[q] = req[q]
    <3>1. Covered(q)  BY DEF TokensInv
    <3>2. Covered(q)'
      BY <2>1, <3>1 DEF Covered, Refreshing, Live, Excused, Ended, server
    <3> QED  BY <2>1, <3>2 DEF Refreshing, SameRefresh, Answered
  <2>2. CASE Freed(q)  BY <2>2 DEF Freed, Refreshing, Answered
  <2>3. CASE Moved(q, "sent") /\ req[q].op = "logout"
    BY <2>3 DEF Moved, Refreshing, Answered
  <2> QED  BY <2>1, <2>2, <2>3
<1>4. \A q \in Requests : Refreshing(q) => req[q].token # stored'
  BY DEF TokensInv
<1>5. issued' \subseteq Tokens /\ issued \subseteq issued' /\ shared \subseteq shared'
  BY <1>1 DEF TypeOK
<1>6. StoresAnswer  BY <1>2 DEF StoresAnswer
<1> QED  BY <1>1, <1>3, <1>4, <1>5, <1>6, TokensStep DEF StillLive

\* A refresh starts with the stored token: if a fetch of another tab has it already, or
\* one of this tab that nobody waits for, the token is shared from now on.
LEMMA BeginTokens ==
    ASSUME TypeOK, WokenInv, TokensInv, NEW r \in Requests, NEW q \in Requests,
           BeginRefresh(r, q)
    PROVE  TokensInv'
<1> DEFINE t == req[r].tab
<1>1. /\ t \in Tabs /\ promise[t] = NoRequest /\ stored # NoToken
      /\ req[r].op \in {"call", "logout"}
      /\ q = r \/ (req[q].pc = "idle" /\ req[r].op = "logout")
      /\ shared' = SharedBy(t, stored)
      /\ UNCHANGED <<rows, issued, login, age, closed, raced, stored>>
  BY DEF BeginRefresh, Intercepts, WokenInv, server
<1>2. shared \subseteq shared'  BY <1>1 DEF SharedBy
<1>3. /\ req'[q].token = stored /\ req'[q].op = "refresh" /\ req'[q].pc = "sent"
      /\ ~ req'[q].lost
      /\ r # q => req'[r].op = "logout" /\ req'[r].pc = "waiting"
      /\ \A p \in Requests : p \notin {q, r} => req'[p] = req[p]
  <2>1. req[r] \in Request  BY DEF TypeOK
  <2>2. req'[q] = New("refresh", t, stored, NoToken)  BY DEF BeginRefresh
  <2>3. r # q => req'[r] = [req[r] EXCEPT !.pc = "waiting", !.retried = TRUE]
    BY DEF BeginRefresh
  <2>4. r # q => req'[r].op = req[r].op /\ req'[r].pc = "waiting"
    BY <2>1, <2>3 DEF Request
  <2> QED  BY <1>1, <2>2, <2>4 DEF BeginRefresh, New
<1>4. ASSUME NEW p \in Requests, Refreshing(p), req[p].token = stored
      PROVE  stored \in shared'
  <2>1. CASE req[p].tab # t  BY <1>1, <1>4, <2>1 DEF SharedBy, Refreshing
  <2>2. CASE req[p].tab = t
    <3>1. req[p].lost  BY <1>1, <1>4, <2>2 DEF WokenInv
    <3>2. Covered(p)  BY DEF TokensInv
    <3> QED  BY <1>2, <1>4, <3>1, <3>2 DEF Covered
  <2> QED  BY <2>1, <2>2
<1>5. ~ Refreshing(r) /\ ~ Refreshing(q)  BY <1>1 DEF Refreshing
<1>6. StillLive  BY <1>1, <1>2 DEF StillLive, Live, Excused, Ended
<1>7. stored \in issued  BY <1>1 DEF TokensInv
<1>8. ASSUME NEW p \in Requests, p # q
      PROVE  /\ Refreshing(p)' => Covered(p)' /\ SameRefresh(p)
             /\ Refreshing(p) => Refreshing(p)' /\ SameRefresh(p)
             /\ Answered(p)' => Answered(p) /\ req'[p].fresh = req[p].fresh
  <2>1. CASE p = r
    BY <1>3, <1>5, <1>8, <2>1 DEF Refreshing, Answered
  <2>2. CASE p # r
    <3>1. req'[p] = req[p]  BY <1>3, <1>8, <2>2
    <3>2. Covered(p)  BY DEF TokensInv
    <3>3. Covered(p)'
      BY <1>1, <1>2, <3>1, <3>2 DEF Covered, Refreshing, Live, Excused, Ended
    <3> QED  BY <3>1, <3>3 DEF Refreshing, SameRefresh, Answered
  <2> QED  BY <2>1, <2>2
<1>9. Begun(q)  BY <1>1, <1>3, <1>4, <1>8 DEF Begun
<1>10. Live(stored)'
  <2>1. Live(stored) => Live(stored)'  BY <1>1, <1>2 DEF Live, Excused, Ended
  <2>2. Live(stored) \/ stored \in shared'  BY <1>4, <1>7 DEF TokensInv
  <2> QED  BY <2>1, <2>2, <1>1 DEF Live, Excused, Ended
<1>11. Covered(q)' /\ ~ Answered(q)'
  BY <1>1, <1>3, <1>7, <1>10 DEF Covered, Answered, Live, Excused, Ended
<1>12. issued' \subseteq Tokens /\ issued \subseteq issued' /\ stored' \in {stored, NoToken}
  BY <1>1 DEF TypeOK
<1> HIDE DEF t
<1>13. \A p \in Requests : Refreshing(p)' => Covered(p)' /\ (SameRefresh(p) \/ Begun(p))
  BY <1>8, <1>9, <1>11
<1>14. \A p \in Requests : Refreshing(p) /\ req[p].token = stored'
         => (Refreshing(p)' /\ SameRefresh(p)) \/ stored' \in shared'
  BY <1>5, <1>8
<1>15. \A p \in Requests : Answered(p)' =>
         (Answered(p) /\ req'[p].fresh = req[p].fresh) \/ NewlyAnswered(p)
  BY <1>8, <1>11
<1> QED  BY <1>2, <1>6, <1>12, <1>13, <1>14, <1>15, TokensStep DEF StillLive

LEMMA ClientTokens ==
    ASSUME TypeOK, WokenInv, TokensInv, NEW r \in Requests, NEW q \in Requests,
           \/ DeliverLogout(r) \/ DeliverLogin(r) \/ DeliverRefreshed(r) \/ DeliverRefused(r)
           \/ JoinRefresh(r) \/ JoinSettled(r) \/ NothingToRefresh(r) \/ BeginRefresh(r, q)
    PROVE  TokensInv'
<1> DEFINE t == req[r].tab
<1>1. CASE DeliverLogout(r) \/ JoinSettled(r)
  <2>1. req[r].op # "refresh" /\ Finish(r)
    BY <1>1 DEF DeliverLogout, JoinSettled, Intercepts
  <2>2. Freed(r) /\ Others(r)  BY <2>1, SlotMoves DEF Finish, Pcs
  <2>3. UNCHANGED <<issued, shared>> /\ StillLive /\ stored' \in {stored, NoToken}
    BY <2>1, ServerKept DEF Finish, Leave, server
  <2> QED  BY <2>1, <2>2, <2>3, OtherKept
<1>2. CASE DeliverLogin(r)
  <2>1. Answered(r) /\ stored' = req[r].fresh /\ UNCHANGED <<server, shared>>
    BY <1>2 DEF DeliverLogin, At, Answered
  <2>2. Freed(r) /\ Others(r)  BY <1>2, SlotMoves DEF DeliverLogin, Pcs
  <2> QED  BY <2>1, <2>2, StoreTokens DEF Others
<1>3. CASE DeliverRefreshed(r)
  <2>1. Answered(r) /\ stored' = req[r].fresh /\ UNCHANGED <<server, shared>>
    BY <1>3 DEF DeliverRefreshed, At, Answered
  <2>2. ASSUME NEW p \in Requests
        PROVE  \/ req'[p] = req[p] /\ p # r
               \/ Freed(p)
               \/ Moved(p, "sent") /\ req[p].op = "logout"
    <3>1. CASE p = r
      <4>1. req'[p] = Idle  BY <1>3, <3>1 DEF DeliverRefreshed
      <4> QED  BY <4>1, IdleType DEF Freed
    <3>2. CASE p # r /\ p \in Waiting(t)
      <4>1. req'[p] = [req[p] EXCEPT !.pc = "sent", !.bearer = req[r].fresh]
        BY <1>3, <3>2 DEF DeliverRefreshed
      <4>2. req[p] \in Request  BY DEF TypeOK
      <4>3. Moved(p, "sent")  BY <4>1, <4>2 DEF Moved, Request
      <4> QED  BY <3>2, <4>3 DEF Waiting, WokenInv
    <3>3. CASE p # r /\ p \notin Waiting(t)
      BY <1>3, <3>3 DEF DeliverRefreshed
    <3> QED  BY <3>1, <3>2, <3>3
  <2> QED  BY <2>1, <2>2, StoreTokens
<1>4. CASE DeliverRefused(r)
  <2> DEFINE S == {r} \cup Waiting(t)
  <2>1. S \in SUBSET Requests  BY DEF Waiting
  <2>2. EndSession(t, S) /\ UNCHANGED server  BY <1>4 DEF DeliverRefused
  <2> HIDE DEF S, t
  <2> QED  BY <2>1, <2>2, EndTokens
<1>5. CASE NothingToRefresh(r)
  <2> DEFINE S == {r}
  <2>1. S \in SUBSET Requests  OBVIOUS
  <2>2. EndSession(t, S) /\ UNCHANGED server  BY <1>5 DEF NothingToRefresh
  <2> HIDE DEF S, t
  <2> QED  BY <2>1, <2>2, EndTokens
<1>6. CASE JoinRefresh(r)
  <2>1. req[r] \in Request  BY DEF TypeOK
  <2>2. req[r].op # "refresh" /\ UNCHANGED <<issued, shared, stored>> /\ UNCHANGED server
    BY <1>6 DEF JoinRefresh, Intercepts, server, browser
  <2>3. StillLive  BY <2>2, ServerKept
  <2>4. Others(r) /\ (Freed(r) \/ (Moved(r, "waiting") /\ ~ Answered(r)'))
    <3>1. CASE Done(r)  BY <3>1, SlotMoves DEF Pcs
    <3>2. CASE req' = [req EXCEPT ![r].pc = "waiting", ![r].retried = TRUE]
      BY <2>1, <3>2 DEF Moved, Others, Answered, TypeOK, Request
    <3> QED  BY <1>6, <3>1, <3>2 DEF JoinRefresh
  <2> QED  BY <2>2, <2>3, <2>4, OtherKept DEF Pcs
<1>7. CASE BeginRefresh(r, q)  BY <1>7, BeginTokens
<1> QED  BY <1>1, <1>2, <1>3, <1>4, <1>5, <1>6, <1>7

LEMMA LostTokens ==
    ASSUME TypeOK, TokensInv, NEW r \in Requests, LoseAnswer(r) \/ Forget(r) \/ Crash(r)
    PROVE  TokensInv'
<1> DEFINE t == req[r].tab
<1>1. CASE Forget(r) \/ Crash(r)
  <2>1. Freed(r) /\ Others(r) /\ req[r].lost /\ UNCHANGED <<server, shared, stored, issued>>
    BY <1>1, SlotMoves DEF Forget, Crash, server, browser, Pcs
  <2>2. Refreshing(r) => req[r].token \in shared'  BY <2>1 DEF TokensInv, Covered
  <2>3. \A q \in Requests : Kept(q)  BY <2>1, <2>2 DEF Kept, Others
  <2> QED  BY <2>1, <2>3, ServerKept, TokensKept
<1>2. CASE LoseAnswer(r) /\ req[r].op = "refresh"
  <2>1. stored' = NoToken /\ shared' = SharedByLoss(t) /\ UNCHANGED <<server, issued>>
        /\ Refreshing(r)
    BY <1>2 DEF LoseAnswer, server, Refreshing
  <2>2. ASSUME NEW p \in Requests  PROVE Kept(p)
    <3>1. CASE page[t] = "app"
      <4>1. req'[p] = Abandoned(t)[p]  BY <1>2, <3>1 DEF LoseAnswer
      <4> QED  BY <2>1, <4>1, AbandonedKept
    <3>2. CASE page[t] # "app" /\ p = r
      <4>1. req'[p] = [req[p] EXCEPT !.lost = TRUE]
        BY <1>2, <3>2 DEF LoseAnswer
      <4>2. req[p] \in Request  BY DEF TypeOK
      <4>3. Unheard(p)  BY <4>1, <4>2 DEF Unheard, Request
      <4> QED  BY <2>1, <3>2, <4>3, LossShares DEF Kept
    <3>3. CASE page[t] # "app" /\ p # r /\ p \in Waiting(t)
      <4>1. req'[p] = Idle  BY <1>2, <3>3 DEF LoseAnswer
      <4>2. Freed(p)  BY <4>1, IdleType DEF Freed
      <4> QED  BY <2>1, <4>2, StoredNothing DEF Kept
    <3>4. CASE page[t] # "app" /\ p # r /\ p \notin Waiting(t)
      BY <1>2, <3>4 DEF LoseAnswer, Kept
    <3> QED  BY <3>1, <3>2, <3>3, <3>4
  <2>3. shared \subseteq shared'  BY <2>1 DEF SharedByLoss
  <2> QED  BY <2>1, <2>2, <2>3, ServerKept, TokensKept
<1>3. CASE LoseAnswer(r) /\ req[r].op # "refresh"
  <2>1. UNCHANGED <<server, shared, issued>> /\ stored' \in {stored, NoToken}
    BY <1>3 DEF LoseAnswer, Leave, server
  <2>2. (Freed(r) \/ Unheard(r)) /\ Others(r)
    BY <1>3, SlotMoves DEF LoseAnswer, Pcs
  <2>3. StillLive  BY <2>1, ServerKept
  <2> QED  BY <1>3, <2>1, <2>2, <2>3, OtherKept
<1> QED  BY <1>1, <1>2, <1>3

LEMMA UserTokens ==
    ASSUME TypeOK, TokensInv, NEW t \in Tabs, User(t)
    PROVE  TokensInv'
<1>1. CASE RequireSession(t) \/ RequireGuest(t) \/ LogoutWithoutToken(t)
  <2>1. UNCHANGED <<server, issued, shared, req>> /\ stored' \in {stored, NoToken}
    BY <1>1 DEF RequireSession, RequireGuest, LogoutWithoutToken, Leave, server
  <2>2. \A r \in Requests : Kept(r)  BY <2>1 DEF Kept
  <2> QED  BY <2>1, <2>2, ServerKept, TokensKept
<1>2. CASE Reload(t)
  <2>1. UNCHANGED <<server, issued, stored>> /\ shared' = SharedByLoss(t) /\ req' = Abandoned(t)
    BY <1>2 DEF Reload, server
  <2>2. \A r \in Requests : Kept(r)  BY <2>1, AbandonedKept
  <2>3. shared \subseteq shared'  BY <2>1 DEF SharedByLoss
  <2> QED  BY <2>1, <2>2, <2>3, ServerKept, TokensKept
<1>3. ASSUME NEW r \in Requests, NEW op, NEW k, NEW b, op # "refresh", Start(r, t, op, k, b)
      PROVE  TokensInv'
  <2>1. /\ req' = [req EXCEPT ![r] = New(op, t, k, b)] /\ req[r].pc = "idle"
        /\ UNCHANGED <<server, issued, shared, stored>>
    BY <1>3 DEF Start, server, browser
  <2>2. req'[r].op = op /\ req'[r].pc = "sent" /\ Others(r)
    BY <2>1 DEF New, Others, TypeOK
  <2>3. ~ Refreshing(r) /\ ~ Refreshing(r)' /\ ~ Answered(r)'
    BY <1>3, <2>1, <2>2 DEF Refreshing, Answered
  <2>4. \A p \in Requests : Kept(p)  BY <2>2, <2>3 DEF Kept, Others
  <2> QED  BY <2>1, <2>4, ServerKept, TokensKept
<1>4. ASSUME NEW r \in Requests, Login(r, t)  PROVE TokensInv'
  <2> DEFINE asked(k) == [New("login", t, NoToken, NoToken) EXCEPT !.pc = "ok", !.fresh = k]
  <2>1. PICK k \in Tokens \ issued : Issue(k, k) /\ req' = [req EXCEPT ![r] = asked(k)]
    BY <1>4 DEF Login
  <2>2. asked(k).op = "login" /\ asked(k).fresh = k  BY DEF New
  <2>3. ~ Refreshing(r)  BY <1>4 DEF Login, Refreshing
  <2> HIDE DEF asked
  <2>4. req'[r] = asked(k) /\ Others(r)  BY <2>1 DEF TypeOK, Others
  <2>5. ~ Refreshing(r)'  BY <2>2, <2>4 DEF Refreshing
  <2> QED  BY <2>1, <2>2, <2>3, <2>4, <2>5, IssueTokens
<1> QED  BY <1>1, <1>2, <1>3, <1>4 DEF User, StartCall, StartLogout

LEMMA RotateTokens ==
    ASSUME TypeOK, TokensInv, NEW r \in Requests, Rotate(r)
    PROVE  TokensInv'
<1>1. PICK k \in Tokens \ issued :
         /\ At(r, "refresh", "revoked")
         /\ Issue(k, login[req[r].token])
         /\ req' = [req EXCEPT ![r].pc = "ok", ![r].fresh = k]
  BY DEF Rotate
<1>2. req[r] \in Request  BY DEF TypeOK
<1>3. Moved(r, "ok") /\ req'[r].fresh = k /\ Others(r)
  BY <1>1, <1>2 DEF TypeOK, Moved, Others, Request
<1>4. Refreshing(r) /\ Refreshing(r)' /\ SameRefresh(r)
  BY <1>1, <1>3 DEF At, Refreshing, SameRefresh, Moved
<1> QED  BY <1>1, <1>3, <1>4, IssueTokens DEF Moved

LEMMA TokensInit == Init => TokensInv
  BY IdleType DEF Init, TokensInv, Covered, Refreshing, Answered

LEMMA TokensNext == SessionInv /\ WokenInv /\ TokensInv /\ [Next]_vars => TokensInv'
<1> SUFFICES ASSUME SessionInv, WokenInv, TokensInv, [Next]_vars PROVE TokensInv'
  OBVIOUS
<1> TypeOK  BY DEF SessionInv
<1>1. ASSUME UNCHANGED <<issued, shared, stored, req>>, StillLive  PROVE TokensInv'
  <2>1. \A r \in Requests : Kept(r)  BY <1>1 DEF Kept
  <2> QED  BY <1>1, <2>1, TokensKept
<1>2. CASE UNCHANGED vars
  BY <1>1, <1>2, ServerKept DEF vars, server, browser
<1>3. CASE LogoutAll
  <2>1. \A k \in issued : login[k] \in Ended => login[k] \in Ended'
    BY <1>3 DEF LogoutAll, Ended, SessionInv, Descent
  <2>2. \A k \in rows : k \in issued => login[k] \in Ended'
    BY <1>3 DEF LogoutAll, Ended, SessionInv, OneSuccessor
  <2>3. StillLive  BY <1>3, <2>1, <2>2 DEF LogoutAll, browser, StillLive, Live, Excused
  <2> QED  BY <1>1, <1>3, <2>3 DEF LogoutAll, browser
<1>4. CASE Expire
  <2>1. PICK k \in InUse : age[k] < 2 /\ age' = [age EXCEPT ![k] = @ + 1]
    BY <1>4 DEF Expire
  <2>2. \A m \in issued : age[m] = 2 => age'[m] = 2
    BY <2>1 DEF TypeOK
  <2>3. StillLive  BY <1>4, <2>2 DEF Expire, browser, StillLive, Live, Excused, Ended
  <2> QED  BY <1>1, <1>4, <2>3 DEF Expire, browser
<1>5. ASSUME NEW r \in Requests, Handle(r)  PROVE TokensInv'
  BY <1>5, HandleTokens, VerifyTokens, RevokeTokens, RotateTokens DEF Handle
<1>6. ASSUME NEW r \in Requests, Client(r)  PROVE TokensInv'
  BY <1>6, ClientTokens DEF Client
<1> QED  BY <1>2, <1>3, <1>4, <1>5, <1>6, LostTokens, UserTokens DEF Next

\* While one tab alone has sent the stored token and waits for the answer, its refresh is
\* refused only because the session is over: expired, or closed by a log-out.
THEOREM SpecRefusedOnlyIfOver == Spec => []RefusedOnlyIfOver
<1>1. SessionInv => TypeOK  BY DEF SessionInv
<1>2. TokensInv => RefusedOnlyIfOver
  BY DEF TokensInv, Covered, Excused, Ended, Refreshing, RefusedOnlyIfOver
<1> QED  BY <1>1, <1>2, SessionInvInit, SessionInvNext, WokenInit, WokenNext, TokensInit, TokensNext, PTL DEF Spec

=============================================================================
