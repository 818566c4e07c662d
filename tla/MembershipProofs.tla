---------------------------- MODULE MembershipProofs ----------------------------
(***************************************************************************)
(* For every set of users, invitations and requests and every limit: the   *)
(* types, who joins and who is removed, and that the invitations implement *)
(* PlanAdmission under the limit without the owner's seat.                 *)
(***************************************************************************)
EXTENDS Membership, FiniteSetTheorems, TLAPS

USE RequestsAssumption, InvitationsAssumption, LimitAssumption, OwnerAssumption

Invite == [state : {"none", "open", "accepted", "removed"}, email : People,
           role : Roles, expired : BOOLEAN]
Request == [pc : Pcs, user : People, role : Roles, left : SUBSET Counts, sum : Nat,
            inv : SUBSET Invitations, row : Nat, rank : {"OWNER", "ADMIN", "none"}]

LEMMA IdleType == Idle \in Request
  BY DEF Idle, Request, Pcs, People, Roles, Counts

LEMMA MembershipTypeInit == Init => TypeOK
  BY IdleType DEF Init, TypeOK, NoInvitation, Invite, Request, People, Roles

-----------------------------------------------------------------------------
(* Type correctness.                                                         *)

LEMMA PeopleFinite == IsFiniteSet(People)
  BY FS_Singleton, FS_Union DEF People

LEMMA Counted ==
    /\ Cardinality(Members) \in Nat
    /\ IsFiniteSet(OpenInvitations)
    /\ Cardinality(OpenInvitations) \in Nat
  BY PeopleFinite, FS_Subset, FS_CardinalityType DEF Members, OpenInvitations

LEMMA InvitingType ==
    ASSUME TypeOK, NEW r \in Requests, Inviting(r)
    PROVE  TypeOK'
<1> USE DEF TypeOK, Set, Done, GoTo, At
<1>1. ASSUME NEW u \in Users, NEW k \in Roles, Create(r, u, k)
      PROVE  TypeOK'
  <2> DEFINE asked == [Idle EXCEPT !.pc = "count", !.user = u, !.role = k, !.left = Counts]
  <2>1. asked \in Request  BY DEF Idle, Request, Pcs, People, Counts
  <2>2. request' = [request EXCEPT ![r] = asked] /\ UNCHANGED <<role, row, invite>>
    BY <1>1 DEF Create
  <2> HIDE DEF asked
  <2> QED  BY <2>1, <2>2 DEF Request
<1>2. ASSUME NEW what \in Counts, Count(r, what)
      PROVE  TypeOK'
  <2>1. PICK n \in Nat :
           request' = [request EXCEPT ![r] =
                          [request[r] EXCEPT !.left = @ \ {what}, !.sum = @ + n]]
    BY <1>2, Counted DEF Count
  <2> DEFINE left == request[r].left \ {what}
             sum == request[r].sum + n
             asked == [request[r] EXCEPT !.left = left, !.sum = sum]
  <2>2. asked \in Request
    <3>1. request[r] \in Request /\ left \in SUBSET Counts /\ sum \in Nat
      BY DEF Request
    <3> HIDE DEF left, sum
    <3> QED  BY <3>1 DEF Request
  <2>3. request' = [request EXCEPT ![r] = asked]  BY <2>1
  <2>4. UNCHANGED <<role, row, invite>>  BY <1>2 DEF Count
  <2> HIDE DEF asked
  <2> QED  BY <2>2, <2>3, <2>4 DEF Request
<1>3. CASE AssertCanAddMember(r)
  BY <1>3, IdleType DEF AssertCanAddMember, Request, Pcs
<1>4. CASE AlreadyMember(r)  BY <1>4, IdleType DEF AlreadyMember, Request, Pcs
<1>5. CASE AlreadySent(r)  BY <1>5, IdleType DEF AlreadySent, Request, Pcs
<1>6. CASE InsertInvitation(r)
  BY <1>6, IdleType DEF InsertInvitation, Request, Pcs
<1> QED  BY <1>1, <1>2, <1>3, <1>4, <1>5, <1>6 DEF Inviting

\* What becomes of the invitations when one is deleted.
LEMMA DeletedType ==
    ASSUME TypeOK, NEW is \in SUBSET Invitations, Deleted(is)
    PROVE  /\ invite' \in [Invitations -> Invite]
           /\ \A i \in Invitations :
                 \/ invite'[i] = invite[i]
                 \/ i \in is /\ Exists(i) /\ invite'[i].state = "removed"
<1>1. [NoInvitation EXCEPT !.state = "removed"] \in Invite
  BY DEF NoInvitation, Invite, People, Roles
<1>2. \A i \in Invitations : invite[i] \in Invite  BY DEF TypeOK, Invite
<1>3. invite' \in [Invitations -> Invite]
  BY <1>1, <1>2 DEF Deleted
<1>4. \A i \in Invitations :
         \/ invite'[i] = invite[i]
         \/ i \in is /\ Exists(i) /\ invite'[i].state = "removed"
  BY DEF Deleted, NoInvitation
<1> QED  BY <1>3, <1>4

\* A resent invitation keeps its state, address and role.
LEMMA ResendKeeps ==
    ASSUME TypeOK, NEW r \in Requests, Resend(r)
    PROVE  /\ invite' \in [Invitations -> Invite]
           /\ \A i \in Invitations :
                 /\ invite'[i].state = invite[i].state
                 /\ invite'[i].email = invite[i].email
                 /\ invite'[i].role = invite[i].role
<1> DEFINE fresh(i) == [invite[i] EXCEPT !.expired = FALSE]
<1>1. \A i \in Invitations : invite[i] \in Invite  BY DEF TypeOK, Invite
<1>2. \A i \in Invitations :
         /\ fresh(i) \in Invite
         /\ fresh(i).state = invite[i].state
         /\ fresh(i).email = invite[i].email
         /\ fresh(i).role = invite[i].role
  BY <1>1 DEF Invite
<1>3. \A i \in Invitations : invite'[i] \in {invite[i], fresh(i)}
  BY DEF Resend
<1>4. \E f \in [Invitations -> Invite] : invite' = f
  <2>1. invite' = [i \in Invitations |-> invite'[i]]  BY DEF Resend
  <2> HIDE DEF fresh
  <2> QED  BY <1>1, <1>2, <1>3, <2>1
<1> HIDE DEF fresh
<1> QED  BY <1>2, <1>3, <1>4

LEMMA AnsweringType ==
    ASSUME TypeOK, NEW r \in Requests, Answering(r)
    PROVE  TypeOK'
<1> USE DEF TypeOK, Set, Done, GoTo, At
<1>1. ASSUME NEW i \in Invitations, AcceptRead(r, i)
      PROVE  TypeOK'
  <2> DEFINE asked(pc) == [Idle EXCEPT !.pc = pc, !.user = invite[i].email,
                                       !.role = invite[i].role, !.inv = {i}]
  <2>1. asked("discard") \in Request /\ asked("join") \in Request
    BY DEF Idle, Request, Pcs, Counts
  <2>2. \E pc \in {"discard", "join"} : request' = [request EXCEPT ![r] = asked(pc)]
    BY <1>1 DEF AcceptRead
  <2>3. UNCHANGED <<role, row, invite>>  BY <1>1 DEF AcceptRead
  <2> HIDE DEF asked
  <2> QED  BY <2>1, <2>2, <2>3 DEF Request
<1>2. ASSUME NEW i \in Invitations, ResendRead(r, i) \/ RemoveRead(r, i)
      PROVE  TypeOK'
  <2> DEFINE asked(pc) == [Idle EXCEPT !.pc = pc, !.inv = {i}]
  <2>1. asked("resend") \in Request /\ asked("withdraw") \in Request
    BY DEF Idle, Request, Pcs, Counts, People, Roles
  <2>2. \E pc \in {"resend", "withdraw"} : request' = [request EXCEPT ![r] = asked(pc)]
    BY <1>2 DEF ResendRead, RemoveRead
  <2>3. UNCHANGED <<role, row, invite>>  BY <1>2 DEF ResendRead, RemoveRead
  <2> HIDE DEF asked
  <2> QED  BY <2>1, <2>2, <2>3 DEF Request
<1>3. CASE Join(r)
  <2>1. request' \in [Requests -> Request]
    BY <1>3, IdleType DEF Join, Request
  <2>2. role' \in [People -> Roles \cup {"OWNER", "none"}] /\ row' \in [People -> Nat]
    BY <1>3 DEF Join, AddMember
  <2>3. invite' \in [Invitations -> Invite]
    <3>1. CASE invite' = invite  BY <3>1 DEF Invite
    <3>2. ASSUME NEW i \in Invitations, invite' = [invite EXCEPT ![i].state = "accepted"]
          PROVE  invite' \in [Invitations -> Invite]
      BY <3>2 DEF Invite
    <3> QED  BY <1>3, <3>1, <3>2 DEF Join
  <2> QED  BY <2>1, <2>2, <2>3 DEF Request, Invite
<1>4. CASE DiscardExpired(r) \/ Remove(r)
  <2>1. request' \in [Requests -> Request] /\ UNCHANGED <<role, row>>
    BY <1>4, IdleType DEF DiscardExpired, Remove, Request
  <2>2. Deleted(request[r].inv)  BY <1>4 DEF DiscardExpired, Remove
  <2>3. invite' \in [Invitations -> Invite]  BY <2>2, DeletedType
  <2> QED  BY <2>1, <2>3 DEF Request, Invite
<1>5. CASE Resend(r)
  <2>1. request' \in [Requests -> Request] /\ UNCHANGED <<role, row>>
    BY <1>5, IdleType DEF Resend, Request
  <2>2. invite' \in [Invitations -> Invite]  BY <1>5, ResendKeeps
  <2> QED  BY <2>1, <2>2 DEF Request, Invite
<1> QED  BY <1>1, <1>2, <1>3, <1>4, <1>5 DEF Answering

LEMMA RemovingType ==
    ASSUME TypeOK, NEW r \in Requests, Removing(r)
    PROVE  TypeOK'
<1> USE DEF TypeOK, Set, Done, GoTo, At
<1>1. ASSUME NEW u \in People, Guard(r, u)
      PROVE  TypeOK'
  <2> DEFINE asked == [Idle EXCEPT !.pc = "target", !.user = u, !.rank = role[u]]
  <2>1. asked \in Request  BY <1>1 DEF Guard, Idle, Request, Pcs, Counts, Roles
  <2>2. request' = [request EXCEPT ![r] = asked] /\ UNCHANGED <<role, row, invite>>
    BY <1>1 DEF Guard
  <2> HIDE DEF asked
  <2> QED  BY <2>1, <2>2 DEF Request
<1>2. ASSUME NEW u \in People, ReadTarget(r, u)
      PROVE  TypeOK'
  <2> DEFINE asked == [Idle EXCEPT !.pc = "delete", !.user = u, !.row = row[u],
                                   !.rank = request[r].rank]
  <2>1. asked \in Request  BY DEF Idle, Request, Pcs, Counts, Roles
  <2>2. \E next \in {asked, Idle} : request' = [request EXCEPT ![r] = next]
    BY <1>2 DEF ReadTarget
  <2>3. UNCHANGED <<role, row, invite>>  BY <1>2 DEF ReadTarget
  <2> HIDE DEF asked
  <2> QED  BY <2>1, <2>2, <2>3, IdleType DEF Request
<1>3. CASE DeleteMember(r)  BY <1>3, IdleType DEF DeleteMember, Request
<1> QED  BY <1>1, <1>2, <1>3 DEF Removing

LEMMA MembershipTypeNext == TypeOK /\ [Next]_vars => TypeOK'
<1> SUFFICES ASSUME TypeOK, [Next]_vars
             PROVE  TypeOK'
  OBVIOUS
<1>1. ASSUME NEW r \in Requests, Inviting(r) \/ Answering(r) \/ Removing(r)
      PROVE  TypeOK'
  BY <1>1, InvitingType, AnsweringType, RemovingType
<1>2. ASSUME NEW i \in Invitations, Expire(i)
      PROVE  TypeOK'
  <2> DEFINE old == [invite[i] EXCEPT !.expired = TRUE]
  <2>1. invite[i] \in Invite  BY DEF TypeOK, Invite
  <2>2. old \in Invite  BY <2>1 DEF Invite
  <2>3. invite' = [invite EXCEPT ![i] = old] /\ UNCHANGED <<role, row, request>>
    BY <1>2 DEF Expire
  <2> HIDE DEF old
  <2> QED  BY <2>2, <2>3 DEF TypeOK, Invite
<1>3. CASE Crash  BY <1>3, IdleType DEF Crash, TypeOK, Request
<1>4. CASE UNCHANGED vars  BY <1>4 DEF vars, TypeOK
<1> QED  BY <1>1, <1>2, <1>3, <1>4 DEF Next

\* Every reachable state has the types of TypeOK.
THEOREM MembershipTypeCorrect == Spec => []TypeOK
<1> QED  BY MembershipTypeInit, MembershipTypeNext, PTL DEF Spec

-----------------------------------------------------------------------------
(* Who joins and who is removed: the inductive invariant.  What a handler    *)
(* remembers of a row stays true of that row as long as it has the same id.  *)

OwnerStays == role[Owner] = "OWNER" /\ \A u \in Users : role[u] # "OWNER"

InvitedAreUsers == \A i \in Invitations : Exists(i) => invite[i].email \in Users

CreateKnows(r) ==
    /\ request[r].pc \in {"count", "member", "duplicate", "insert"}
          => request[r].user \in Users
    /\ (request[r].pc = "count" /\ "members" \notin request[r].left)
          => request[r].sum > 0

JoinKnows(r) ==
    request[r].pc = "join" =>
        \E i \in Invitations :
            /\ request[r].inv = {i}
            /\ request[r].user \in Users
            /\ request[r].role \in Roles
            /\ invite[i].state # "none"
            /\ Exists(i) => /\ invite[i].email = request[r].user
                            /\ invite[i].role = request[r].role

RemovalKnows(r) ==
    request[r].pc = "delete" =>
        /\ request[r].user \in Users
        /\ request[r].row <= row[request[r].user]
        /\ (/\ request[r].row = row[request[r].user]
            /\ role[request[r].user] = "ADMIN") => request[r].rank = "OWNER"

Knows(r) == CreateKnows(r) /\ JoinKnows(r) /\ RemovalKnows(r)

MembershipInv == OwnerStays /\ InvitedAreUsers /\ \A r \in Requests : Knows(r)

\* What a step may do to the rows: a user leaves, or joins under a new row id;
\* an invitation is created for a user, deleted, or keeps address and role, and
\* never opens again.
UserEvolves(u) ==
    \/ role'[u] = role[u] /\ row'[u] = row[u]
    \/ u \in Users /\ role'[u] = "none" /\ row'[u] = row[u]
    \/ u \in Users /\ role'[u] \in Roles /\ row'[u] = row[u] + 1

InvitationEvolves(i) ==
    /\ invite[i].state # "none" => invite'[i].state # "none"
    /\ invite[i].state \in {"accepted", "removed"}
          => invite'[i].state \in {invite[i].state, "removed"}
    /\ Exists(i)' => \/ invite[i].state = "none" /\ invite'[i].email \in Users
                     \/ /\ Exists(i)
                        /\ invite'[i].email = invite[i].email
                        /\ invite'[i].role = invite[i].role

RowsEvolve ==
    /\ \A u \in People : UserEvolves(u)
    /\ \A i \in Invitations : InvitationEvolves(i)

\* Every other handler's knowledge survives such a step.
LEMMA KnowledgeStays ==
    ASSUME TypeOK, NEW q \in Requests, Knows(q), RowsEvolve, request'[q] = request[q]
    PROVE  Knows(q)'
<1>1. CreateKnows(q)'  BY DEF Knows, CreateKnows
<1>2. JoinKnows(q)'
  <2> SUFFICES ASSUME request[q].pc = "join"
               PROVE  JoinKnows(q)'
    BY DEF JoinKnows
  <2>1. PICK i \in Invitations :
           /\ request[q].inv = {i}
           /\ request[q].user \in Users
           /\ request[q].role \in Roles
           /\ invite[i].state # "none"
           /\ Exists(i) => /\ invite[i].email = request[q].user
                           /\ invite[i].role = request[q].role
    BY DEF Knows, JoinKnows
  <2>2. InvitationEvolves(i)  BY DEF RowsEvolve
  <2> QED  BY <2>1, <2>2 DEF InvitationEvolves, JoinKnows
<1>3. RemovalKnows(q)'
  <2> SUFFICES ASSUME request[q].pc = "delete"
               PROVE  RemovalKnows(q)'
    BY DEF RemovalKnows
  <2> DEFINE u == request[q].user
  <2>1. /\ u \in Users
        /\ request[q].row <= row[u]
        /\ (request[q].row = row[u] /\ role[u] = "ADMIN") => request[q].rank = "OWNER"
    BY DEF Knows, RemovalKnows
  <2>2. u \in People /\ row[u] \in Nat /\ request[q].row \in Nat
    BY <2>1 DEF TypeOK, People
  <2>3. UserEvolves(u)  BY <2>2 DEF RowsEvolve
  <2>4. /\ request[q].row <= row'[u]
        /\ (request[q].row = row'[u] /\ role'[u] = "ADMIN") => request[q].rank = "OWNER"
    BY <2>1, <2>2, <2>3 DEF UserEvolves
  <2> QED  BY <2>1, <2>4 DEF RemovalKnows
<1> QED  BY <1>1, <1>2, <1>3 DEF Knows

LEMMA GlobalStays ==
    ASSUME TypeOK, OwnerStays, InvitedAreUsers, RowsEvolve
    PROVE  (OwnerStays /\ InvitedAreUsers)'
<1>1. UserEvolves(Owner) /\ \A u \in Users : UserEvolves(u)
  BY DEF RowsEvolve, People
<1>2. OwnerStays'  BY <1>1 DEF OwnerStays, UserEvolves, Roles
<1>3. InvitedAreUsers'  BY DEF InvitedAreUsers, RowsEvolve, InvitationEvolves
<1> QED  BY <1>2, <1>3

\* A handler that is done knows nothing.
LEMMA IdleKnows ==
    ASSUME NEW r \in Requests, request'[r].pc \notin
               {"count", "member", "duplicate", "insert", "join", "delete"}
    PROVE  Knows(r)'
  BY DEF Knows, CreateKnows, JoinKnows, RemovalKnows

\* The owner's row is among those assertCanAddMember counts.
LEMMA OwnerCounted ==
    ASSUME OwnerStays
    PROVE  Cardinality(Members) > 0
<1>1. Owner \in Members  BY DEF OwnerStays, Members, People
<1>2. IsFiniteSet(Members)  BY PeopleFinite, FS_Subset DEF Members
<1> QED  BY <1>1, <1>2, FS_EmptySet, FS_CardinalityType

LEMMA InvitingKnows ==
    ASSUME TypeOK, MembershipInv, NEW r \in Requests, Inviting(r)
    PROVE  RowsEvolve /\ Knows(r)' /\ \A q \in Requests \ {r} : request'[q] = request[q]
<1> USE DEF TypeOK, Set, Done, GoTo, At
<1>1. \A q \in Requests \ {r} : request'[q] = request[q]
  BY DEF Inviting, Create, Count, AssertCanAddMember, AlreadyMember, AlreadySent,
         InsertInvitation
<1>2. CASE ~ InsertInvitation(r)
  <2>1. UNCHANGED <<role, row, invite>>
    BY <1>2 DEF Inviting, Create, Count, AssertCanAddMember, AlreadyMember, AlreadySent
  <2>2. RowsEvolve  BY <2>1 DEF RowsEvolve, UserEvolves, InvitationEvolves, Exists
  <2>3. ASSUME NEW u \in Users, NEW k \in Roles, Create(r, u, k)
        PROVE  Knows(r)'
    <3>1. request'[r].pc = "count" /\ request'[r].user = u
          /\ "members" \in request'[r].left
      BY <2>3 DEF Create, Idle, Counts
    <3> QED  BY <3>1 DEF Knows, CreateKnows, JoinKnows, RemovalKnows
  <2>4. ASSUME \/ \E what \in Counts : Count(r, what)
               \/ AssertCanAddMember(r) \/ AlreadyMember(r) \/ AlreadySent(r)
        PROVE  Knows(r)'
    <3>1. request[r].pc \in {"count", "member", "duplicate"}
      BY <2>4 DEF Count, AssertCanAddMember, AlreadyMember, AlreadySent
    <3>2. request[r].user \in Users
      BY <3>1 DEF MembershipInv, Knows, CreateKnows
    <3>3. \/ request'[r].pc = "idle"
          \/ /\ request'[r].pc \in {"count", "member", "duplicate", "insert"}
             /\ request'[r].user = request[r].user
      <4>1. ASSUME NEW what \in Counts, Count(r, what)
            PROVE  /\ request'[r].pc = request[r].pc
                   /\ request'[r].user = request[r].user
        BY <4>1 DEF Count
      <4>2. CASE AssertCanAddMember(r)  BY <4>2 DEF AssertCanAddMember, Idle
      <4>3. CASE AlreadyMember(r)  BY <4>3 DEF AlreadyMember, Idle
      <4>4. CASE AlreadySent(r)  BY <4>4 DEF AlreadySent, Idle
      <4> QED  BY <2>4, <3>1, <4>1, <4>2, <4>3, <4>4
    <3>4. CreateKnows(r)'
      <4>1. (request'[r].pc = "count" /\ "members" \notin request'[r].left)
               => request'[r].sum > 0
        <5>1. ASSUME NEW what \in Counts, Count(r, what), "members" \notin request'[r].left
              PROVE  request'[r].sum > 0
          <6> DEFINE n == IF what = "members" THEN Cardinality(Members)
                          ELSE Cardinality(OpenInvitations)
          <6>1. n \in Nat /\ (what = "members" => n > 0)
            BY Counted, OwnerCounted DEF MembershipInv
          <6>2. /\ request'[r].left = request[r].left \ {what}
                /\ request'[r].sum = request[r].sum + n
            BY <5>1 DEF Count
          <6>3. request[r].sum \in Nat
                /\ ("members" \notin request[r].left => request[r].sum > 0)
            BY <5>1 DEF Count, MembershipInv, Knows, CreateKnows
          <6> HIDE DEF n
          <6> QED  BY <5>1, <6>1, <6>2, <6>3
        <5>2. ASSUME ~ \E what \in Counts : Count(r, what)
              PROVE  request'[r].pc # "count"
          BY <2>4, <5>2 DEF AssertCanAddMember, AlreadyMember, AlreadySent, Idle
        <5> QED  BY <5>1, <5>2
      <4> QED  BY <3>2, <3>3, <4>1 DEF CreateKnows
    <3>5. JoinKnows(r)'  BY <3>3 DEF JoinKnows
    <3>6. RemovalKnows(r)'  BY <3>3 DEF RemovalKnows
    <3> QED  BY <3>4, <3>5, <3>6 DEF Knows
  <2> QED  BY <1>1, <1>2, <2>2, <2>3, <2>4 DEF Inviting
<1>3. CASE InsertInvitation(r)
  <2>1. request[r].user \in Users
    BY <1>3 DEF InsertInvitation, MembershipInv, Knows, CreateKnows
  <2>2. PICK i \in Invitations :
           /\ invite[i].state = "none"
           /\ invite' = [invite EXCEPT ![i] =
                 [state |-> "open", email |-> request[r].user,
                  role |-> request[r].role, expired |-> FALSE]]
    BY <1>3 DEF InsertInvitation
  <2>3. \A j \in Invitations : j # i => invite'[j] = invite[j]  BY <2>2
  <2>4. invite'[i].email \in Users  BY <2>1, <2>2
  <2>5. invite'[i].state = "open"  BY <2>2
  <2>6. InvitationEvolves(i)  BY <2>2, <2>4, <2>5 DEF InvitationEvolves
  <2>7. \A j \in Invitations : j # i => InvitationEvolves(j)
    BY <2>3 DEF InvitationEvolves, Exists
  <2>8. UNCHANGED <<role, row>>  BY <1>3 DEF InsertInvitation
  <2>9. RowsEvolve  BY <2>6, <2>7, <2>8 DEF RowsEvolve, UserEvolves
  <2>10. request'[r].pc = "idle"  BY <1>3 DEF InsertInvitation, Idle
  <2> QED  BY <1>1, <2>9, <2>10, IdleKnows
<1> QED  BY <1>2, <1>3

LEMMA ReadingKnows ==
    ASSUME TypeOK, MembershipInv, NEW r \in Requests, NEW i \in Invitations,
           AcceptRead(r, i) \/ ResendRead(r, i) \/ RemoveRead(r, i)
    PROVE  RowsEvolve /\ Knows(r)' /\ \A q \in Requests \ {r} : request'[q] = request[q]
<1> USE DEF TypeOK, Set
<1>1. \A q \in Requests \ {r} : request'[q] = request[q]
  BY DEF AcceptRead, ResendRead, RemoveRead
<1>2. UNCHANGED <<role, row, invite>>  BY DEF AcceptRead, ResendRead, RemoveRead
<1>3. RowsEvolve  BY <1>2 DEF RowsEvolve, UserEvolves, InvitationEvolves, Exists
<1>4. CASE AcceptRead(r, i)
  <2>1. /\ request'[r].pc \in {"discard", "join"}
        /\ request'[r].inv = {i}
        /\ request'[r].user = invite[i].email
        /\ request'[r].role = invite[i].role
    BY <1>4 DEF AcceptRead, Idle
  <2>2. invite[i].email \in Users /\ invite[i].role \in Roles /\ invite[i].state # "none"
    BY <1>4 DEF AcceptRead, Open, Exists, MembershipInv, InvitedAreUsers
  <2>3. JoinKnows(r)'  BY <1>2, <2>1, <2>2 DEF JoinKnows
  <2> QED  BY <1>1, <1>3, <2>1, <2>3 DEF Knows, CreateKnows, RemovalKnows
<1>5. CASE ResendRead(r, i) \/ RemoveRead(r, i)
  <2>1. request'[r].pc \in {"resend", "withdraw"}
    <3>1. CASE ResendRead(r, i)  BY <3>1 DEF ResendRead, Idle
    <3>2. CASE RemoveRead(r, i)  BY <3>2 DEF RemoveRead, Idle
    <3> QED  BY <1>5, <3>1, <3>2
  <2> QED  BY <1>1, <1>3, <2>1, IdleKnows
<1> QED  BY <1>4, <1>5

LEMMA WritingKnows ==
    ASSUME TypeOK, MembershipInv, NEW r \in Requests,
           Join(r) \/ DiscardExpired(r) \/ Resend(r) \/ Remove(r)
    PROVE  RowsEvolve /\ Knows(r)' /\ \A q \in Requests \ {r} : request'[q] = request[q]
<1> USE DEF TypeOK, Set, Done, At
<1>1. /\ \A q \in Requests \ {r} : request'[q] = request[q]
      /\ request'[r].pc = "idle"
  BY DEF Join, DiscardExpired, Resend, Remove, Idle
<1>2. Knows(r)'  BY <1>1, IdleKnows
<1>3. CASE Join(r)
  <2>1. CASE UNCHANGED <<role, row, invite>>
    BY <1>1, <1>2, <2>1 DEF RowsEvolve, UserEvolves, InvitationEvolves, Exists
  <2>2. ASSUME NEW i \in request[r].inv, Exists(i),
               AddMember(request[r].user, request[r].role),
               invite' = [invite EXCEPT ![i].state = "accepted"]
        PROVE  RowsEvolve
    <3>1. request[r].user \in Users /\ request[r].role \in Roles
      BY <1>3 DEF Join, MembershipInv, Knows, JoinKnows
    <3>2. \A u \in People : UserEvolves(u)
      BY <2>2, <3>1 DEF AddMember, UserEvolves, People
    <3>3. i \in Invitations  BY <1>3 DEF Join
    <3>4. \A j \in Invitations :
             /\ invite'[j].state = IF j = i THEN "accepted" ELSE invite[j].state
             /\ invite'[j].email = invite[j].email
             /\ invite'[j].role = invite[j].role
      BY <2>2, <3>3
    <3>5. \A j \in Invitations : InvitationEvolves(j)
      BY <2>2, <3>4 DEF InvitationEvolves, Exists
    <3> QED  BY <3>2, <3>5 DEF RowsEvolve
  <2> QED  BY <1>1, <1>2, <1>3, <2>1, <2>2 DEF Join
<1>4. CASE DiscardExpired(r) \/ Remove(r)
  <2>1. Deleted(request[r].inv) /\ request[r].inv \in SUBSET Invitations
        /\ UNCHANGED <<role, row>>
    BY <1>4 DEF DiscardExpired, Remove
  <2>2. \A j \in Invitations :
           \/ invite'[j] = invite[j]
           \/ Exists(j) /\ invite'[j].state = "removed"
    BY <2>1, DeletedType
  <2>3. \A j \in Invitations : InvitationEvolves(j)
    BY <2>2 DEF InvitationEvolves, Exists
  <2> QED  BY <1>1, <1>2, <2>1, <2>3 DEF RowsEvolve, UserEvolves
<1>5. CASE Resend(r)
  <2>1. \A j \in Invitations : InvitationEvolves(j)
    BY <1>5, ResendKeeps DEF InvitationEvolves, Exists
  <2> QED  BY <1>1, <1>2, <1>5, <2>1 DEF RowsEvolve, UserEvolves, Resend
<1> QED  BY <1>3, <1>4, <1>5

LEMMA RemovingKnows ==
    ASSUME TypeOK, MembershipInv, NEW r \in Requests, Removing(r)
    PROVE  RowsEvolve /\ Knows(r)' /\ \A q \in Requests \ {r} : request'[q] = request[q]
<1> USE DEF TypeOK, Set, Done, At
<1>1. \A q \in Requests \ {r} : request'[q] = request[q]
  BY DEF Removing, Guard, ReadTarget, DeleteMember
<1>2. ASSUME UNCHANGED <<role, row, invite>>
      PROVE  RowsEvolve
  BY <1>2 DEF RowsEvolve, UserEvolves, InvitationEvolves, Exists
<1>3. ASSUME NEW u \in People, Guard(r, u)
      PROVE  RowsEvolve /\ Knows(r)'
  <2>1. request'[r].pc = "target"  BY <1>3 DEF Guard, Idle
  <2> QED  BY <1>2, <1>3, <2>1, IdleKnows DEF Guard
<1>4. ASSUME NEW u \in People, ReadTarget(r, u)
      PROVE  RowsEvolve /\ Knows(r)'
  <2>1. UNCHANGED <<role, row, invite>>  BY <1>4 DEF ReadTarget
  <2>2. CASE Done(r)
    BY <1>2, <2>1, <2>2, IdleKnows DEF Idle
  <2>3. CASE ~ Done(r)
    <3>1. /\ role[u] \in Roles
          /\ role[u] = "ADMIN" => request[r].rank = "OWNER"
          /\ request' = [request EXCEPT ![r] =
                [Idle EXCEPT !.pc = "delete", !.user = u, !.row = row[u],
                             !.rank = request[r].rank]]
      BY <1>4, <2>3 DEF ReadTarget
    <3>2. /\ request'[r].pc = "delete"
          /\ request'[r].user = u
          /\ request'[r].row = row[u]
          /\ request'[r].rank = request[r].rank
      BY <3>1 DEF Idle
    <3>3. u \in Users  BY <3>1 DEF MembershipInv, OwnerStays, People, Roles
    <3>4. RemovalKnows(r)'  BY <2>1, <3>1, <3>2, <3>3 DEF RemovalKnows
    <3> QED  BY <1>2, <2>1, <3>2, <3>4 DEF Knows, CreateKnows, JoinKnows
  <2> QED  BY <2>2, <2>3
<1>5. ASSUME DeleteMember(r)
      PROVE  RowsEvolve /\ Knows(r)'
  <2>1. request[r].user \in Users
    BY <1>5 DEF DeleteMember, MembershipInv, Knows, RemovalKnows
  <2>2. \A u \in People : UserEvolves(u)
    BY <1>5, <2>1 DEF DeleteMember, UserEvolves
  <2>3. \A i \in Invitations : InvitationEvolves(i)
    BY <1>5 DEF DeleteMember, InvitationEvolves, Exists
  <2>4. request'[r].pc = "idle"  BY <1>5 DEF DeleteMember, Idle
  <2> QED  BY <2>2, <2>3, <2>4, IdleKnows DEF RowsEvolve
<1> QED  BY <1>1, <1>3, <1>4, <1>5 DEF Removing

LEMMA MembershipInvInit == Init => MembershipInv
  BY DEF Init, MembershipInv, OwnerStays, InvitedAreUsers, Knows, CreateKnows,
         JoinKnows, RemovalKnows, Exists, NoInvitation, Idle, People

LEMMA ExpireEvolves ==
    ASSUME TypeOK, NEW i \in Invitations, Expire(i)
    PROVE  RowsEvolve
<1>1. UNCHANGED <<role, row>>  BY DEF Expire
<1>2. \A j \in Invitations : /\ invite'[j].state = invite[j].state
                             /\ invite'[j].email = invite[j].email
                             /\ invite'[j].role = invite[j].role
  BY DEF Expire, TypeOK
<1> QED  BY <1>1, <1>2 DEF RowsEvolve, UserEvolves, InvitationEvolves, Exists

LEMMA MembershipInvNext == TypeOK /\ MembershipInv /\ [Next]_vars => MembershipInv'
<1> SUFFICES ASSUME TypeOK, MembershipInv, [Next]_vars
             PROVE  MembershipInv'
  OBVIOUS
<1>1. ASSUME NEW r \in Requests, Inviting(r) \/ Answering(r) \/ Removing(r)
      PROVE  MembershipInv'
  <2>1. RowsEvolve /\ Knows(r)' /\ \A q \in Requests \ {r} : request'[q] = request[q]
    BY <1>1, InvitingKnows, ReadingKnows, WritingKnows, RemovingKnows DEF Answering
  <2>2. \A q \in Requests \ {r} : Knows(q)'
    BY <2>1, KnowledgeStays DEF MembershipInv
  <2>3. (OwnerStays /\ InvitedAreUsers)'
    BY <2>1, GlobalStays DEF MembershipInv
  <2> QED  BY <2>1, <2>2, <2>3 DEF MembershipInv
<1>2. ASSUME NEW i \in Invitations, Expire(i)
      PROVE  MembershipInv'
  <2>1. RowsEvolve /\ request' = request  BY <1>2, ExpireEvolves DEF Expire
  <2> QED  BY <2>1, KnowledgeStays, GlobalStays DEF MembershipInv
<1>3. CASE Crash
  <2>1. UNCHANGED <<role, row, invite>>  BY <1>3 DEF Crash
  <2>2. \A q \in Requests : request'[q].pc = "idle"  BY <1>3 DEF Crash, Idle
  <2> QED
    BY <2>1, <2>2, IdleKnows DEF MembershipInv, OwnerStays, InvitedAreUsers, Exists
<1>4. CASE UNCHANGED vars
  BY <1>4 DEF vars, MembershipInv, OwnerStays, InvitedAreUsers, Knows, CreateKnows,
              JoinKnows, RemovalKnows, Exists
<1> QED  BY <1>1, <1>2, <1>3, <1>4 DEF Next

LEMMA MembershipInvariant == Spec => [](TypeOK /\ MembershipInv)
<1> QED
  BY MembershipTypeInit, MembershipTypeNext, MembershipInvInit, MembershipInvNext,
     PTL DEF Spec

-----------------------------------------------------------------------------
(* The action properties.                                                    *)

\* Only the transaction of an accept adds a member.
LEMMA JoinStep ==
    ASSUME TypeOK, MembershipInv, [Next]_vars,
           NEW u \in People, role[u] = "none", role'[u] # "none"
    PROVE  \E i \in Invitations : /\ Exists(i)
                                  /\ invite[i].email = u
                                  /\ invite[i].role = role'[u]
                                  /\ invite'[i].state = "accepted"
<1>1. PICK r \in Requests : Join(r)
  <2>1. \A r \in Requests : DeleteMember(r) => role'[u] = "none"
    BY DEF DeleteMember, TypeOK
  <2>2. role' # role
    OBVIOUS
  <2> QED
    BY <2>1, <2>2 DEF Next, Inviting, Create, Count, AssertCanAddMember,
       AlreadyMember, AlreadySent, InsertInvitation, Answering, AcceptRead,
       ResendRead, RemoveRead, DiscardExpired, Resend, Remove, Removing, Guard,
       ReadTarget, Expire, Crash, vars
<1>2. PICK i \in request[r].inv :
         /\ Exists(i)
         /\ AddMember(request[r].user, request[r].role)
         /\ invite' = [invite EXCEPT ![i].state = "accepted"]
  BY <1>1 DEF Join
<1>3. JoinKnows(r) /\ At(r, "join")
  BY <1>1 DEF Join, MembershipInv, Knows
<1>4. /\ i \in Invitations
      /\ invite[i].email = request[r].user
      /\ invite[i].role = request[r].role
  BY <1>2, <1>3 DEF JoinKnows, At
<1>5. u = request[r].user /\ role'[u] = request[r].role
  BY <1>2 DEF AddMember, TypeOK
<1>6. invite'[i].state = "accepted"  BY <1>2, <1>4 DEF TypeOK
<1> QED  BY <1>2, <1>4, <1>5, <1>6

\* Whoever joins was invited, for every number of overlapping requests.
THEOREM SpecJoinsByInvitation == Spec => JoinsByInvitation
<1>1. TypeOK /\ MembershipInv /\ [Next]_vars =>
         [\A u \in People :
             (role[u] = "none" /\ role'[u] # "none") =>
                 \E i \in Invitations :
                    /\ Exists(i)
                    /\ invite[i].email = u
                    /\ invite[i].role = role'[u]
                    /\ invite'[i].state = "accepted"]_vars
  BY JoinStep
<1> QED  BY <1>1, MembershipInvariant, PTL DEF Spec, JoinsByInvitation

\* Only a removal takes a row away, and what it read of the row still holds.
LEMMA RemovalStep ==
    ASSUME TypeOK, MembershipInv, [Next]_vars,
           NEW u \in People, role[u] # "none", role'[u] # role[u]
    PROVE  /\ role[u] # "OWNER"
           /\ \E r \in Requests :
                 /\ request[r].pc = "delete" /\ request[r].user = u
                 /\ role[u] = "ADMIN" => request[r].rank = "OWNER"
<1>1. PICK r \in Requests : DeleteMember(r)
  <2>1. ASSUME NEW r \in Requests, Join(r)
        PROVE  role'[u] = role[u]
    BY <2>1 DEF Join, AddMember, TypeOK
  <2>2. role' # role
    OBVIOUS
  <2> QED
    BY <2>1, <2>2 DEF Next, Inviting, Create, Count, AssertCanAddMember,
       AlreadyMember, AlreadySent, InsertInvitation, Answering, AcceptRead,
       ResendRead, RemoveRead, DiscardExpired, Resend, Remove, Removing, Guard,
       ReadTarget, Expire, Crash, vars
<1>2. request[r].pc = "delete" /\ RemovalKnows(r)
  BY <1>1 DEF DeleteMember, At, MembershipInv, Knows
<1>3. u = request[r].user /\ request[r].row = row[u]
  BY <1>1, <1>2 DEF DeleteMember, TypeOK
<1>4. role[u] # "OWNER" /\ (role[u] = "ADMIN" => request[r].rank = "OWNER")
  BY <1>2, <1>3 DEF RemovalKnows, MembershipInv, OwnerStays
<1> QED  BY <1>2, <1>3, <1>4

\* The ranks are respected even when the user left and joined again meanwhile.
THEOREM SpecRemovalFollowsRank == Spec => RemovalFollowsRank
<1>1. TypeOK /\ MembershipInv /\ [Next]_vars =>
         [\A u \in People :
             (role[u] # "none" /\ role'[u] # role[u]) =>
                 /\ role[u] # "OWNER"
                 /\ \E r \in Requests :
                       /\ request[r].pc = "delete" /\ request[r].user = u
                       /\ role[u] = "ADMIN" => request[r].rank = "OWNER"]_vars
  BY RemovalStep
<1> QED  BY <1>1, MembershipInvariant, PTL DEF Spec, RemovalFollowsRank

LEMMA StepEvolves == TypeOK /\ MembershipInv /\ Next => RowsEvolve
<1> SUFFICES ASSUME TypeOK, MembershipInv, Next
             PROVE  RowsEvolve
  OBVIOUS
<1>1. CASE Crash
  BY <1>1 DEF Crash, RowsEvolve, UserEvolves, InvitationEvolves, Exists
<1> QED
  BY <1>1, InvitingKnows, ReadingKnows, WritingKnows, RemovingKnows, ExpireEvolves
  DEF Next, Answering

\* No step opens an accepted or a withdrawn invitation again.
THEOREM SpecInvitationsOnlyClose == Spec => InvitationsOnlyClose
<1>1. TypeOK /\ MembershipInv /\ [Next]_vars =>
         [\A i \in Invitations :
             invite[i].state \in {"accepted", "removed"} =>
                 invite'[i].state \in {invite[i].state, "removed"}]_vars
  BY StepEvolves DEF RowsEvolve, InvitationEvolves
<1> QED  BY <1>1, MembershipInvariant, PTL DEF Spec, InvitationsOnlyClose

-----------------------------------------------------------------------------
(* The open invitations implement PlanAdmission.                             *)

LEMMA LeftSize ==
    ASSUME NEW left \in SUBSET Counts, "pending" \notin left
    PROVE  \/ left = {} /\ Cardinality(left) = 0
           \/ left = {"members"} /\ Cardinality(left) = 1
<1>1. left = {} \/ left = {"members"}  BY DEF Counts
<1> QED  BY <1>1, FS_EmptySet, FS_Singleton

\* The other handlers are admitted or not as before.
LEMMA AdmittedFrame ==
    ASSUME TypeOK, NEW r \in Requests, \A q \in Requests \ {r} : request'[q] = request[q]
    PROVE  /\ r \notin Admitted' => Admitted' = Admitted \ {r}
           /\ r \in Admitted' => Admitted' = Admitted \cup {r}
  BY DEF Admitted

LEMMA CountMembers ==
    ASSUME TypeOK, MembershipInv, NEW r \in Requests, Count(r, "members")
    PROVE  Pending!Abandon
<1> USE DEF TypeOK
<1>1. /\ \A q \in Requests \ {r} : request'[q] = request[q]
      /\ request[r].pc = "count" /\ request'[r].pc = "count"
      /\ "members" \in request[r].left
      /\ request'[r].left = request[r].left \ {"members"}
      /\ request'[r].sum = request[r].sum + Cardinality(Members)
      /\ UNCHANGED invite
  BY DEF Count, At, Set
<1>2. r \in Admitted' => r \in Admitted
  <2> SUFFICES ASSUME r \in Admitted'
               PROVE  r \in Admitted
    OBVIOUS
  <2>1. "pending" \notin request[r].left
        /\ request'[r].sum + Cardinality(request'[r].left) < Limit
    BY <1>1 DEF Admitted
  <2>2. request[r].left = {"members"} /\ Cardinality(request[r].left) = 1
    BY <1>1, <2>1, LeftSize
  <2>3. request'[r].left = {} /\ Cardinality(request'[r].left) = 0
    BY <1>1, <2>2, FS_EmptySet
  <2>4. Cardinality(Members) \in Nat /\ Cardinality(Members) > 0
        /\ request[r].sum \in Nat
    BY Counted, OwnerCounted DEF MembershipInv
  <2>5. request[r].sum + Cardinality(Members) + 0 < Limit
    BY <1>1, <2>1, <2>3
  <2>6. request[r].sum + 1 < Limit
    BY <2>4, <2>5
  <2> QED  BY <1>1, <2>1, <2>2, <2>6 DEF Admitted
<1>3. Admitted' \in SUBSET Admitted  BY <1>1, <1>2, AdmittedFrame
<1>4. OpenInvitations' = OpenInvitations  BY <1>1 DEF OpenInvitations, Open
<1> QED  BY <1>3, <1>4 DEF Pending!Abandon

LEMMA CountPending ==
    ASSUME TypeOK, MembershipInv, NEW r \in Requests, Count(r, "pending")
    PROVE  Pending!Check(r) \/ Pending!Abandon
<1> USE DEF TypeOK
<1> DEFINE n == Cardinality(OpenInvitations)
<1>1. /\ \A q \in Requests \ {r} : request'[q] = request[q]
      /\ request[r].pc = "count" /\ request'[r].pc = "count"
      /\ "pending" \in request[r].left
      /\ request'[r].left = request[r].left \ {"pending"}
      /\ request'[r].sum = request[r].sum + n
      /\ UNCHANGED invite
  BY DEF Count, At, Set
<1>2. r \notin Admitted  BY <1>1 DEF Admitted
<1>3. OpenInvitations' = OpenInvitations  BY <1>1 DEF OpenInvitations, Open
<1>4. CASE r \notin Admitted'
  <2>1. Admitted' \in SUBSET Admitted  BY <1>1, <1>4, AdmittedFrame
  <2> QED  BY <1>3, <2>1 DEF Pending!Abandon
<1>5. CASE r \in Admitted'
  <2>1. request'[r].sum + Cardinality(request'[r].left) < Limit
    BY <1>1, <1>5 DEF Admitted
  <2>2. request'[r].left \in SUBSET Counts /\ "pending" \notin request'[r].left
    BY <1>1
  <2>3. \/ request'[r].left = {} /\ Cardinality(request'[r].left) = 0
        \/ Cardinality(request'[r].left) = 1
    BY <2>2, LeftSize
  <2>4. request'[r].left = {} => request[r].sum > 0
    BY <1>1 DEF MembershipInv, Knows, CreateKnows
  <2>5. request[r].sum \in Nat /\ n \in Nat  BY Counted
  <2> HIDE DEF n
  <2>6. Admitted' = Admitted \cup {r}  BY <1>1, <1>5, AdmittedFrame
  <2>7. CASE request'[r].left = {} /\ Cardinality(request'[r].left) = 0
    <3>1. request[r].sum + n + 0 < Limit  BY <1>1, <2>1, <2>7
    <3>2. n < Limit - 1  BY <2>4, <2>5, <2>7, <3>1
    <3> QED  BY <1>2, <1>3, <2>6, <3>2 DEF Pending!Check, n
  <2>8. CASE Cardinality(request'[r].left) = 1
    <3>1. request[r].sum + n + 1 < Limit  BY <1>1, <2>1, <2>8
    <3>2. n < Limit - 1  BY <2>5, <3>1
    <3> QED  BY <1>2, <1>3, <2>6, <3>2 DEF Pending!Check, n
  <2> QED  BY <2>3, <2>7, <2>8
<1> QED  BY <1>4, <1>5

\* The new row takes the unit its create() was admitted to.
LEMMA InsertTakes ==
    ASSUME TypeOK, NEW r \in Requests, InsertInvitation(r)
    PROVE  Pending!Take(r)
<1> USE DEF TypeOK
<1>1. PICK i \in Invitations :
         /\ invite[i].state = "none"
         /\ invite' = [invite EXCEPT ![i] =
               [state |-> "open", email |-> request[r].user,
                role |-> request[r].role, expired |-> FALSE]]
  BY DEF InsertInvitation
<1>2. \A j \in Invitations : invite'[j].state = IF j = i THEN "open" ELSE invite[j].state
  BY <1>1
<1>3. OpenInvitations' = OpenInvitations \cup {i} /\ i \notin OpenInvitations
  BY <1>1, <1>2 DEF OpenInvitations, Open
<1>4. Cardinality(OpenInvitations') = Cardinality(OpenInvitations) + 1
  BY <1>3, Counted, FS_AddElement
<1>5. /\ \A q \in Requests \ {r} : request'[q] = request[q]
      /\ request[r].pc = "insert" /\ request'[r].pc = "idle"
  BY DEF InsertInvitation, At, Done, Set, Idle
<1>6. r \in Admitted /\ r \notin Admitted'  BY <1>5 DEF Admitted
<1>7. Admitted' = Admitted \ {r}  BY <1>5, <1>6, AdmittedFrame
<1>8. Cardinality(OpenInvitations)' = Cardinality(OpenInvitations) + 1
  BY <1>4
<1> QED  BY <1>6, <1>7, <1>8 DEF Pending!Take

LEMMA InvitingAdmission ==
    ASSUME TypeOK, MembershipInv, NEW r \in Requests, Inviting(r)
    PROVE  Pending!Check(r) \/ Pending!Take(r) \/ Pending!Abandon
<1> USE DEF TypeOK, At, Set, GoTo, Done
<1>1. ASSUME NEW u \in Users, NEW k \in Roles, Create(r, u, k)
      PROVE  Pending!Abandon
  <2>1. /\ \A q \in Requests \ {r} : request'[q] = request[q]
        /\ request'[r].pc = "count" /\ "pending" \in request'[r].left
        /\ UNCHANGED invite
    BY <1>1 DEF Create, Idle, Counts
  <2>2. r \notin Admitted'  BY <2>1 DEF Admitted
  <2> QED  BY <2>1, <2>2, AdmittedFrame DEF Pending!Abandon, OpenInvitations, Open
<1>2. ASSUME Count(r, "members") \/ Count(r, "pending")
      PROVE  Pending!Check(r) \/ Pending!Abandon
  BY <1>2, CountMembers, CountPending
<1>3. ASSUME AssertCanAddMember(r) \/ AlreadyMember(r) \/ AlreadySent(r)
      PROVE  Pending!Abandon
  <2>1. /\ \A q \in Requests \ {r} : request'[q] = request[q]
        /\ UNCHANGED invite
    BY <1>3 DEF AssertCanAddMember, AlreadyMember, AlreadySent
  <2>2. r \in Admitted' => r \in Admitted
    <3>1. CASE AssertCanAddMember(r)
      <4>1. request[r].pc = "count" /\ request[r].left = {} /\ request[r].sum \in Nat
        BY <3>1 DEF AssertCanAddMember
      <4>2. Cardinality(request[r].left) = 0  BY <4>1, FS_EmptySet
      <4>3. request[r].sum + Cardinality(request[r].left) = request[r].sum
        BY <4>1, <4>2
      <4>4. request'[r].pc = "idle" \/ request[r].sum < Limit
        BY <3>1 DEF AssertCanAddMember, Idle
      <4>5. CASE request'[r].pc = "idle"  BY <4>5 DEF Admitted
      <4>6. CASE request[r].sum < Limit
        <5>1. request[r].sum + Cardinality(request[r].left) < Limit  BY <4>3, <4>6
        <5> QED  BY <4>1, <5>1 DEF Admitted
      <4> QED  BY <4>4, <4>5, <4>6
    <3>2. CASE AlreadyMember(r)  BY <3>2 DEF AlreadyMember, Admitted
    <3>3. CASE AlreadySent(r)  BY <3>3 DEF AlreadySent, Admitted
    <3> QED  BY <1>3, <3>1, <3>2, <3>3
  <2> QED  BY <2>1, <2>2, AdmittedFrame DEF Pending!Abandon, OpenInvitations, Open
<1>4. ASSUME InsertInvitation(r)
      PROVE  Pending!Take(r)
  BY <1>4, InsertTakes
<1> QED  BY <1>1, <1>2, <1>3, <1>4 DEF Inviting, Counts

\* No other call admits anybody, and the open invitations can only get fewer.
LEMMA OthersRelease ==
    ASSUME TypeOK, MembershipInv, NEW r \in Requests, Answering(r) \/ Removing(r)
    PROVE  Pending!Release
<1> USE DEF TypeOK, At, Set, GoTo, Done
<1>1. /\ \A q \in Requests \ {r} : request'[q] = request[q]
      /\ request[r].pc \in {"idle", "join", "discard", "resend", "withdraw",
                            "target", "delete"}
  BY DEF Answering, AcceptRead, ResendRead, RemoveRead, Join, DiscardExpired,
         Resend, Remove, Removing, Guard, ReadTarget, DeleteMember
<1>2. request'[r].pc \in {"idle", "join", "discard", "resend", "withdraw",
                          "target", "delete"}
  <2>1. ASSUME NEW i \in Invitations, AcceptRead(r, i) \/ ResendRead(r, i)
                                        \/ RemoveRead(r, i)
        PROVE  request'[r].pc \in {"join", "discard", "resend", "withdraw"}
    <3>1. CASE AcceptRead(r, i)  BY <3>1 DEF AcceptRead, Idle
    <3>2. CASE ResendRead(r, i)  BY <3>2 DEF ResendRead, Idle
    <3>3. CASE RemoveRead(r, i)  BY <3>3 DEF RemoveRead, Idle
    <3> QED  BY <2>1, <3>1, <3>2, <3>3
  <2>2. ASSUME NEW u \in People, Guard(r, u) \/ ReadTarget(r, u)
        PROVE  request'[r].pc \in {"idle", "target", "delete"}
    <3>1. CASE Guard(r, u)  BY <3>1 DEF Guard, Idle
    <3>2. CASE ReadTarget(r, u)
      <4>1. CASE Done(r)  BY <4>1 DEF Idle
      <4>2. CASE ~ Done(r)
        <5>1. request' = [request EXCEPT ![r] =
                 [Idle EXCEPT !.pc = "delete", !.user = u, !.row = row[u],
                              !.rank = request[r].rank]]
          BY <3>2, <4>2 DEF ReadTarget
        <5> QED  BY <5>1 DEF Idle
      <4> QED  BY <4>1, <4>2
    <3> QED  BY <2>2, <3>1, <3>2
  <2>3. ASSUME Join(r) \/ DiscardExpired(r) \/ Resend(r) \/ Remove(r) \/ DeleteMember(r)
        PROVE  request'[r].pc = "idle"
    BY <2>3 DEF Join, DiscardExpired, Resend, Remove, DeleteMember, Idle
  <2> QED  BY <2>1, <2>2, <2>3 DEF Answering, Removing
<1>3. r \notin Admitted /\ r \notin Admitted'  BY <1>1, <1>2 DEF Admitted
<1>4. Admitted' = Admitted
  <2>1. Admitted' = Admitted \ {r}  BY <1>1, <1>3, AdmittedFrame
  <2> QED  BY <1>3, <2>1
<1>5. RowsEvolve /\ \A j \in Invitations : Open(j)' => invite[j].state # "none"
  <2>1. RowsEvolve
    BY ReadingKnows, WritingKnows, RemovingKnows DEF Answering
  <2>2. \A j \in Invitations : invite[j].state = "none" => invite'[j].state = "none"
    <3>1. CASE Join(r)
      <4>1. CASE invite' = invite  BY <4>1
      <4>2. ASSUME NEW i \in request[r].inv, Exists(i),
                   invite' = [invite EXCEPT ![i].state = "accepted"]
            PROVE  \A j \in Invitations : invite[j].state = "none" =>
                                          invite'[j].state = "none"
        BY <4>2 DEF Exists
      <4> QED  BY <3>1, <4>1, <4>2 DEF Join
    <3>2. CASE DiscardExpired(r) \/ Remove(r)
      <4>1. Deleted(request[r].inv) /\ request[r].inv \in SUBSET Invitations
        BY <3>2 DEF DiscardExpired, Remove
      <4> QED  BY <4>1, DeletedType DEF Exists
    <3>3. CASE Resend(r)  BY <3>3, ResendKeeps
    <3>4. ASSUME \/ Removing(r)
                 \/ \E i \in Invitations :
                       AcceptRead(r, i) \/ ResendRead(r, i) \/ RemoveRead(r, i)
          PROVE  UNCHANGED invite
      BY <3>4 DEF Removing, Guard, ReadTarget, DeleteMember, AcceptRead,
                  ResendRead, RemoveRead
    <3> QED  BY <3>1, <3>2, <3>3, <3>4 DEF Answering
  <2> QED  BY <2>1, <2>2 DEF Open
<1>6. OpenInvitations' \subseteq OpenInvitations
  BY <1>5 DEF OpenInvitations, Open, RowsEvolve, InvitationEvolves
<1>7. Cardinality(OpenInvitations') \in Nat
      /\ Cardinality(OpenInvitations') <= Cardinality(OpenInvitations)
  BY <1>6, Counted, FS_Subset, FS_CardinalityType
<1>8. Cardinality(OpenInvitations)' = Cardinality(OpenInvitations')  OBVIOUS
<1> QED  BY <1>4, <1>7, <1>8, Counted DEF Pending!Release

LEMMA PendingStep ==
    TypeOK /\ MembershipInv /\ [Next]_vars => [Pending!Next]_(Pending!admissionVars)
<1> SUFFICES ASSUME TypeOK, MembershipInv, [Next]_vars
             PROVE  Pending!Next \/ UNCHANGED Pending!admissionVars
  BY DEF Pending!admissionVars
<1>1. ASSUME NEW r \in Requests, Inviting(r)
      PROVE  Pending!Next
  BY <1>1, InvitingAdmission DEF Pending!Next
<1>2. ASSUME NEW r \in Requests, Answering(r) \/ Removing(r)
      PROVE  Pending!Next
  BY <1>2, OthersRelease DEF Pending!Next
<1>3. ASSUME NEW i \in Invitations, Expire(i)
      PROVE  UNCHANGED Pending!admissionVars
  <2>1. request' = request
        /\ \A j \in Invitations : invite'[j].state = invite[j].state
    BY <1>3 DEF Expire, TypeOK
  <2> QED  BY <2>1 DEF Pending!admissionVars, Admitted, OpenInvitations, Open
<1>4. CASE Crash
  <2>1. Admitted' = {}  BY <1>4 DEF Crash, Admitted, Idle
  <2> QED  BY <1>4, <2>1 DEF Crash, Pending!Next, Pending!Abandon, OpenInvitations, Open
<1>5. CASE UNCHANGED vars
  BY <1>5 DEF vars, Pending!admissionVars, Admitted, OpenInvitations, Open
<1> QED  BY <1>1, <1>2, <1>3, <1>4, <1>5 DEF Next

\* The open invitations are PlanAdmission's units under the limit but one.
THEOREM SpecImplementsInvitationLimit == Spec => ImplementsInvitationLimit
<1>1. Init => Pending!Init
  <2> SUFFICES ASSUME Init
               PROVE  Pending!Init
    OBVIOUS
  <2>1. OpenInvitations = {} /\ Admitted = {}
    BY DEF Init, OpenInvitations, Open, NoInvitation, Admitted, Idle
  <2> QED  BY <2>1, FS_EmptySet DEF Pending!Init
<1> QED
  BY <1>1, PendingStep, MembershipInvariant, PTL
  DEF Spec, ImplementsInvitationLimit, Pending!Spec

-----------------------------------------------------------------------------
(* The overshoot: what is open and what is admitted grow together only when  *)
(* a request passes the check, which is under the limit.                     *)

\* The abstract specification counts a set of requests as the handlers do.
LEMMA AdmissionCounted ==
    ASSUME NEW P \in SUBSET Requests
    PROVE  /\ IsFiniteSet(P) /\ Cardinality(P) \in Nat /\ Pending!Cardinality(P) = Cardinality(P)
           /\ Cardinality(P) <= Cardinality(Requests) /\ Cardinality(Requests) \in Nat
<1>1. Pending!Cardinality(P) = Cardinality(P)  BY Zenon DEF Pending!Cardinality, Cardinality
<1> QED  BY <1>1, FS_Subset, FS_CardinalityType

\* Open invitations and admitted requests stay together within the overshoot.
LEMMA OvershootStep ==
    ASSUME TypeOK, TypeOK', InvitationOvershootBounded, [Pending!Next]_(Pending!admissionVars)
    PROVE  InvitationOvershootBounded'
<1> DEFINE u == Cardinality(OpenInvitations)
           w == Cardinality(OpenInvitations')
           n == Cardinality(Admitted)
           m == Cardinality(Admitted')
           N == Cardinality(Requests)
<1>1. Admitted \in SUBSET Requests /\ Admitted' \in SUBSET Requests  BY DEF Admitted
<1>2. /\ u \in Nat /\ w \in Nat /\ n \in Nat /\ m \in Nat /\ n <= N /\ m <= N /\ N \in Nat
      /\ Limit \in Nat
  <2>1. u \in Nat  BY Counted
  <2>2. w \in Nat  BY Counted, FS_Subset, FS_CardinalityType DEF OpenInvitations
  <2> QED  BY <1>1, <2>1, <2>2, AdmissionCounted
<1>3. InvitationOvershootBounded <=> u + n <= (Limit - 1) + N - 1
  BY <1>1, AdmissionCounted DEF InvitationOvershootBounded, Pending!Overshoot
<1>4. InvitationOvershootBounded' <=> w + m <= (Limit - 1) + N - 1
  BY <1>1, AdmissionCounted DEF InvitationOvershootBounded, Pending!Overshoot
<1> SUFFICES w + m <= (Limit - 1) + N - 1  BY <1>4
\* The limit was not reached, so even everybody's invitation stays within the bound.
<1>5. ASSUME NEW r \in Requests, Pending!Check(r) PROVE w + m <= (Limit - 1) + N - 1
  <2>1. w = u /\ u < Limit - 1  BY <1>5 DEF Pending!Check
  <2> HIDE DEF u, w, n, m, N
  <2> QED  BY <1>2, <2>1
\* An admitted request has sent its invitation.
<1>6. ASSUME NEW r \in Requests, Pending!Take(r) PROVE w + m <= (Limit - 1) + N - 1
  <2>1. r \in Admitted /\ w = u + 1 /\ Admitted' = Admitted \ {r}
    BY <1>6 DEF Pending!Take
  <2>2. m = n - 1  BY <1>1, <2>1, AdmissionCounted, FS_RemoveElement
  <2> HIDE DEF u, w, n, m, N
  <2> QED  BY <1>2, <1>3, <2>1, <2>2
<1>7. ASSUME Pending!Abandon \/ UNCHANGED Pending!admissionVars PROVE w + m <= (Limit - 1) + N - 1
  <2>1. w = u /\ Admitted' \subseteq Admitted
    BY <1>7 DEF Pending!Abandon, Pending!admissionVars
  <2>2. m <= n  BY <1>1, <2>1, AdmissionCounted, FS_Subset
  <2> HIDE DEF u, w, n, m, N
  <2> QED  BY <1>2, <1>3, <2>1, <2>2
<1>8. ASSUME Pending!Release PROVE w + m <= (Limit - 1) + N - 1
  <2>1. w \in 0 .. u /\ Admitted' = Admitted  BY <1>8 DEF Pending!Release
  <2>2. m = n  BY <2>1
  <2> HIDE DEF u, w, n, m, N
  <2> QED  BY <1>2, <1>3, <2>1, <2>2
<1> QED  BY <1>5, <1>6, <1>7, <1>8 DEF Pending!Next

\* There are never more open invitations than seats besides the owner's and
\* requests in flight but one.
THEOREM SpecInvitationOvershootBounded == Spec => []InvitationOvershootBounded
<1>1. Init => InvitationOvershootBounded
  <2> SUFFICES ASSUME Init PROVE InvitationOvershootBounded  OBVIOUS
  <2>1. OpenInvitations = {} /\ Admitted = {}
    BY DEF Init, OpenInvitations, Open, NoInvitation, Admitted, Idle
  <2>2. Cardinality(Requests) # 0 /\ Cardinality(Requests) \in Nat  BY FS_EmptySet, FS_CardinalityType
  <2>3. Pending!Cardinality(Requests) = Cardinality(Requests) /\ Pending!Cardinality({}) = 0
        /\ Cardinality({}) = 0
    BY AdmissionCounted, FS_EmptySet
  <2> QED  BY <2>1, <2>2, <2>3 DEF InvitationOvershootBounded, Pending!Overshoot
<1>2. MembershipInv /\ TypeOK /\ TypeOK' /\ InvitationOvershootBounded /\ [Next]_vars
          => InvitationOvershootBounded'
  BY PendingStep, OvershootStep
<1> QED  BY <1>1, <1>2, MembershipInvariant, PTL DEF Spec

=============================================================================
