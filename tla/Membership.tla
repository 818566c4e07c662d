------------------------------ MODULE Membership ------------------------------
(***************************************************************************)
(* The seats of one workspace: WorkspaceInvitation and WorkspaceMember     *)
(* rows under InvitationsService, WorkspaceService.removeMember and        *)
(* PlanLimitsService.assertCanAddMember.  A request is one HTTP call and   *)
(* every await of its handler a step.  Tokens are left out: whoever holds  *)
(* the current link of an invitation names its row, an older link finds    *)
(* nothing.  Who may call an administrator's endpoint matters for          *)
(* removeMember only, the owner can always make the other calls.           *)
(***************************************************************************)
EXTENDS Naturals, FiniteSets

CONSTANTS
    Owner,         \* the user that created the workspace
    Users,         \* the e-mail addresses that may be invited
    Invitations,   \* ids of invitation rows; bound: so many are ever created
    Requests,      \* handlers that may be in flight at the same time
    Limit          \* teamMembers of the workspace's plan

ASSUME RequestsAssumption == IsFiniteSet(Requests) /\ Requests # {}
ASSUME InvitationsAssumption == IsFiniteSet(Invitations)
ASSUME LimitAssumption == Limit \in Nat \ {0}
ASSUME OwnerAssumption == Owner \notin Users /\ IsFiniteSet(Users)

VARIABLES
    role,      \* WorkspaceMember.role per user, "none" without a row
    row,       \* the id of that row: how many the user has had
    invite,    \* the invitation rows
    request    \* the handlers in flight

vars == <<role, row, invite, request>>

People == Users \cup {Owner}
Roles == {"ADMIN", "MEMBER"}
Counts == {"members", "pending"}
Pcs == {"idle", "count", "member", "duplicate", "insert", "join", "discard",
        "resend", "withdraw", "target", "delete"}

\* acceptedAt and expiresAt of a row: open while not accepted, expired or not.
NoInvitation == [state |-> "none", email |-> Owner, role |-> "MEMBER", expired |-> FALSE]

Open(i) == invite[i].state = "open"
Exists(i) == invite[i].state \in {"open", "accepted"}
OpenInvitations == {i \in Invitations : Open(i)}
Members == {u \in People : role[u] # "none"}

\* What a handler holds between two awaits: the user and role it is about, the
\* counts still to come and their sum, the invitation, member row and rank read.
Idle == [pc |-> "idle", user |-> Owner, role |-> "MEMBER", left |-> {}, sum |-> 0,
         inv |-> {}, row |-> 0, rank |-> "none"]

Init ==
    /\ role = [u \in People |-> IF u = Owner THEN "OWNER" ELSE "none"]
    /\ row = [u \in People |-> 0]
    /\ invite = [i \in Invitations |-> NoInvitation]
    /\ request = [r \in Requests |-> Idle]

At(r, pc) == request[r].pc = pc
Set(r, value) == request' = [request EXCEPT ![r] = value]
GoTo(r, pc) == request' = [request EXCEPT ![r].pc = pc]
Done(r) == Set(r, Idle)

-----------------------------------------------------------------------------
(* InvitationsService.create.                                                *)

Create(r, u, k) ==
    /\ At(r, "idle")
    /\ Set(r, [Idle EXCEPT !.pc = "count", !.user = u, !.role = k, !.left = Counts])
    /\ UNCHANGED <<role, row, invite>>

\* The two counts of assertCanAddMember are queries of one Promise.all.
Count(r, what) ==
    /\ At(r, "count")
    /\ what \in request[r].left
    /\ Set(r, [request[r] EXCEPT
                  !.left = @ \ {what},
                  !.sum = @ + IF what = "members" THEN Cardinality(Members)
                              ELSE Cardinality(OpenInvitations)])
    /\ UNCHANGED <<role, row, invite>>

AssertCanAddMemberOffByOne(r) ==
    /\ At(r, "count")
    /\ request[r].left = {}
    /\ IF request[r].sum <= Limit THEN GoTo(r, "member") ELSE Done(r)
    /\ UNCHANGED <<role, row, invite>>

AssertCanAddMember(r) ==
    /\ At(r, "count")
    /\ request[r].left = {}
    /\ IF request[r].sum < Limit THEN GoTo(r, "member") ELSE Done(r)
    /\ UNCHANGED <<role, row, invite>>

AlreadyMember(r) ==
    /\ At(r, "member")
    /\ IF request[r].user \in Members THEN Done(r) ELSE GoTo(r, "duplicate")
    /\ UNCHANGED <<role, row, invite>>

AlreadySent(r) ==
    /\ At(r, "duplicate")
    /\ IF \E i \in OpenInvitations :
             invite[i].email = request[r].user /\ ~ invite[i].expired
       THEN Done(r)
       ELSE GoTo(r, "insert")
    /\ UNCHANGED <<role, row, invite>>

InsertInvitation(r) ==
    /\ At(r, "insert")
    /\ \E i \in Invitations :
          /\ invite[i].state = "none"
          /\ invite' = [invite EXCEPT ![i] =
                [state |-> "open", email |-> request[r].user,
                 role |-> request[r].role, expired |-> FALSE]]
    /\ Done(r)
    /\ UNCHANGED <<role, row>>

-----------------------------------------------------------------------------
(* accept, resend and remove: each reads the row first and writes by its id. *)

\* Only the invited address gets past the checks that follow the read.
AcceptRead(r, i) ==
    /\ At(r, "idle")
    /\ Open(i)
    /\ Set(r, [Idle EXCEPT !.pc = IF invite[i].expired THEN "discard" ELSE "join",
                           !.user = invite[i].email, !.role = invite[i].role,
                           !.inv = {i}])
    /\ UNCHANGED <<role, row, invite>>

AddMember(u, k) ==
    /\ role' = [role EXCEPT ![u] = k]
    /\ row' = [row EXCEPT ![u] = @ + 1]

JoinUntransacted(r) ==
    /\ At(r, "join")
    /\ IF role[request[r].user] = "none"
       THEN AddMember(request[r].user, request[r].role)
       ELSE UNCHANGED <<role, row>>
    /\ invite' = [i \in Invitations |-> IF i \in request[r].inv /\ Exists(i)
                                        THEN [invite[i] EXCEPT !.state = "accepted"]
                                        ELSE invite[i]]
    /\ Done(r)

\* The transaction: the member row is unique per user, the invitation must
\* still exist, and acceptedAt is not looked at again.
Join(r) ==
    /\ At(r, "join")
    /\ \/ \E i \in request[r].inv :
             /\ role[request[r].user] = "none"
             /\ Exists(i)
             /\ AddMember(request[r].user, request[r].role)
             /\ invite' = [invite EXCEPT ![i].state = "accepted"]
       \/ /\ role[request[r].user] # "none" \/ \A i \in request[r].inv : ~ Exists(i)
          /\ UNCHANGED <<role, row, invite>>
    /\ Done(r)

\* Writes of a row that may be gone by now: the handler ends with an error.
Deleted(is) ==
    invite' = [i \in Invitations |-> IF i \in is /\ Exists(i)
                                     THEN [NoInvitation EXCEPT !.state = "removed"]
                                     ELSE invite[i]]

DiscardExpired(r) ==
    /\ At(r, "discard")
    /\ Deleted(request[r].inv)
    /\ Done(r)
    /\ UNCHANGED <<role, row>>

ResendRead(r, i) ==
    /\ At(r, "idle")
    /\ Open(i)
    /\ Set(r, [Idle EXCEPT !.pc = "resend", !.inv = {i}])
    /\ UNCHANGED <<role, row, invite>>

ResendReopens(r) ==
    /\ At(r, "resend")
    /\ invite' = [i \in Invitations |->
                     IF i \in request[r].inv /\ Exists(i)
                     THEN [invite[i] EXCEPT !.expired = FALSE, !.state = "open"]
                     ELSE invite[i]]
    /\ Done(r)
    /\ UNCHANGED <<role, row>>

Resend(r) ==
    /\ At(r, "resend")
    /\ invite' = [i \in Invitations |-> IF i \in request[r].inv /\ Exists(i)
                                        THEN [invite[i] EXCEPT !.expired = FALSE]
                                        ELSE invite[i]]
    /\ Done(r)
    /\ UNCHANGED <<role, row>>

RemoveRead(r, i) ==
    /\ At(r, "idle")
    /\ Exists(i)
    /\ Set(r, [Idle EXCEPT !.pc = "withdraw", !.inv = {i}])
    /\ UNCHANGED <<role, row, invite>>

Remove(r) ==
    /\ At(r, "withdraw")
    /\ Deleted(request[r].inv)
    /\ Done(r)
    /\ UNCHANGED <<role, row>>

-----------------------------------------------------------------------------
(* WorkspaceService.removeMember behind its two guards.                      *)

\* WorkspaceGuard reads the caller's role, WorkspaceRolesGuard compares it.
Guard(r, actor) ==
    /\ At(r, "idle")
    /\ role[actor] \in {"OWNER", "ADMIN"}
    /\ Set(r, [Idle EXCEPT !.pc = "target", !.user = actor, !.rank = role[actor]])
    /\ UNCHANGED <<role, row, invite>>

ReadTargetAnyRank(r, u) ==
    /\ At(r, "target")
    /\ IF role[u] \in Roles /\ u # request[r].user
       THEN Set(r, [Idle EXCEPT !.pc = "delete", !.user = u, !.row = row[u],
                                !.rank = request[r].rank])
       ELSE Done(r)
    /\ UNCHANGED <<role, row, invite>>

ReadTarget(r, u) ==
    /\ At(r, "target")
    /\ \/ /\ role[u] \in Roles
          /\ u # request[r].user
          /\ role[u] = "ADMIN" => request[r].rank = "OWNER"
          /\ Set(r, [Idle EXCEPT !.pc = "delete", !.user = u, !.row = row[u],
                                 !.rank = request[r].rank])
       \/ /\ \/ role[u] \in {"none", "OWNER"}
             \/ u = request[r].user
             \/ role[u] = "ADMIN" /\ request[r].rank # "OWNER"
          /\ Done(r)
    /\ UNCHANGED <<role, row, invite>>

\* The row is deleted by its id: a user who left and joined again has another.
DeleteMember(r) ==
    /\ At(r, "delete")
    /\ role' = IF row[request[r].user] = request[r].row
               THEN [role EXCEPT ![request[r].user] = "none"]
               ELSE role
    /\ Done(r)
    /\ UNCHANGED <<row, invite>>

-----------------------------------------------------------------------------
(* Time passes, and the API process dies with every request in it.           *)

Expire(i) ==
    /\ Open(i)
    /\ ~ invite[i].expired
    /\ invite' = [invite EXCEPT ![i].expired = TRUE]
    /\ UNCHANGED <<role, row, request>>

Crash ==
    /\ request' = [r \in Requests |-> Idle]
    /\ UNCHANGED <<role, row, invite>>

Inviting(r) ==
    \/ \E u \in Users, k \in Roles : Create(r, u, k)
    \/ \E what \in Counts : Count(r, what)
    \/ AssertCanAddMember(r)
    \/ AlreadyMember(r)
    \/ AlreadySent(r)
    \/ InsertInvitation(r)

Answering(r) ==
    \/ \E i \in Invitations : AcceptRead(r, i) \/ ResendRead(r, i) \/ RemoveRead(r, i)
    \/ Join(r)
    \/ DiscardExpired(r)
    \/ Resend(r)
    \/ Remove(r)

Removing(r) ==
    \/ \E u \in People : Guard(r, u) \/ ReadTarget(r, u)
    \/ DeleteMember(r)

Next ==
    \/ \E r \in Requests : Inviting(r) \/ Answering(r) \/ Removing(r)
    \/ \E i \in Invitations : Expire(i)
    \/ Crash

Spec == Init /\ [][Next]_vars

-----------------------------------------------------------------------------
(* Properties.                                                               *)

TypeOK ==
    /\ role \in [People -> Roles \cup {"OWNER", "none"}]
    /\ row \in [People -> Nat]
    /\ invite \in [Invitations -> [state : {"none", "open", "accepted", "removed"},
                                   email : People, role : Roles, expired : BOOLEAN]]
    /\ request \in [Requests -> [pc : Pcs, user : People, role : Roles,
                                 left : SUBSET Counts, sum : Nat,
                                 inv : SUBSET Invitations, row : Nat,
                                 rank : {"OWNER", "ADMIN", "none"}]]

\* One seat is the owner's; the open invitations are admitted to the others
\* with the overshoot of PlanAdmission.  A create() is past the check once it
\* has counted them, unless its count of the members refuses it.  (Members are
\* not admitted so: an accept between the two counts is in neither.)
Admitted == {r \in Requests :
                \/ request[r].pc \in {"member", "duplicate", "insert"}
                \/ /\ request[r].pc = "count"
                   /\ "pending" \notin request[r].left
                   /\ request[r].sum + Cardinality(request[r].left) < Limit}
Pending == INSTANCE PlanAdmission WITH
               Limit <- Limit - 1,
               used <- Cardinality(OpenInvitations), passed <- Admitted
ImplementsInvitationLimit == Pending!Spec
InvitationOvershootBounded == Pending!Overshoot

\* "Your plan allows up to N team members." (plan-limits.service.ts), literally.
SeatsRespected == Cardinality(Members) <= Limit

\* Nobody joins but through an invitation of that address and role that exists
\* at that moment and is accepted by the same step, however the accept overlaps
\* with another accept, a resend, or the withdrawal of the invitation.
JoinsByInvitation ==
    [][\A u \in People :
          (role[u] = "none" /\ role'[u] # "none") =>
              \E i \in Invitations :
                 /\ Exists(i)
                 /\ invite[i].email = u
                 /\ invite[i].role = role'[u]
                 /\ invite'[i].state = "accepted"]_vars

\* A member row disappears only by a removal that its rank allows: the owner
\* never, an administrator only by the owner, also when the user left and was
\* invited again with another role while the removal was under way.
RemovalFollowsRank ==
    [][\A u \in People :
          (role[u] # "none" /\ role'[u] # role[u]) =>
              /\ role[u] # "OWNER"
              /\ \E r \in Requests :
                    /\ request[r].pc = "delete" /\ request[r].user = u
                    /\ role[u] = "ADMIN" => request[r].rank = "OWNER"]_vars

\* An invitation is used up or withdrawn for good: resending an old one while
\* it is being accepted does not open it again.
InvitationsOnlyClose ==
    [][\A i \in Invitations :
          invite[i].state \in {"accepted", "removed"} =>
              invite'[i].state \in {invite[i].state, "removed"}]_vars

=============================================================================
