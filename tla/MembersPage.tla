------------------------------ MODULE MembersPage ------------------------------
(***************************************************************************)
(* The dashboard's page of a workspace's members (MembersSettingsView),    *)
(* for one user: what it offers follows from cached lists, what the API    *)
(* accepts follows from the rows, and others join and are removed while it *)
(* is open.  Membership models the handlers behind it await by await; here *)
(* a call is handled in one step.                                          *)
(***************************************************************************)
EXTENDS Naturals, FiniteSets

CONSTANTS
    Owner, Others,  \* the workspace's owner and the other users
    MaxRows         \* bound: times that a user joins

VARIABLES
    me,       \* the user of the page
    member,   \* WorkspaceMember per user: its role ("none": no row) and its row
    invited,  \* the users with a pending invitation
    rank,     \* the data of useWorkspaces, as far as the page needs it: my role
    members,  \* the data of useMembers
    invites,  \* the data of useInvitations
    call      \* the mutation in flight, and what became of the last one

server == <<member, invited>>
team == <<me, server, rank, members, invites, call>>

People == Others \cup {Owner}
Managers == {"OWNER", "ADMIN"}
NoCall == [kind |-> "none", user |-> Owner, row |-> 0, rank |-> "none", end |-> "none", behind |-> FALSE]

TeamInit ==
    /\ me \in People
    /\ member \in [People -> [role : {"OWNER", "ADMIN", "MEMBER"}, row : {1}]]
    /\ \A u \in People : member[u].role = "OWNER" <=> u = Owner
    /\ invited = {}
    /\ rank = member[me].role /\ members = member /\ invites = {}
    /\ call = NoCall

-----------------------------------------------------------------------------
(* The others, and the queries.                                              *)

\* An invitation is accepted: a new row.
Accept(u) ==
    /\ u \in invited /\ member[u].role = "none" /\ member[u].row < MaxRows
    /\ \E r \in {"ADMIN", "MEMBER"} :
          member' = [member EXCEPT ![u] = [role |-> r, row |-> @.row + 1]]
    /\ invited' = invited \ {u}
    /\ UNCHANGED <<me, rank, members, invites, call>>

\* The owner removes a member, or invites one, on another page.
OwnerElsewhere(u) ==
    /\ u # Owner
    /\ \/ /\ member[u].role # "none"
          /\ member' = [member EXCEPT ![u].role = "none"]
          /\ UNCHANGED invited
       \/ /\ member[u].role = "none" /\ member[u].row < MaxRows
          /\ invited' = invited \cup {u}
          /\ UNCHANGED member
    /\ UNCHANGED <<me, rank, members, invites, call>>

\* A list is read again: a mount, an invalidation, stale data.  Its answer may be
\* rendered late, which is to read it early and do nothing for a while.
Read ==
    /\ \/ rank' = member[me].role /\ UNCHANGED <<members, invites>>
       \/ members' = member /\ UNCHANGED <<rank, invites>>
       \/ invites' = invited /\ UNCHANGED <<rank, members>>
    /\ UNCHANGED <<me, server, call>>

-----------------------------------------------------------------------------
(* The page's buttons, each with a dialog or a sheet of its own.             *)

CanManage == rank \in Managers
CanRemove(u) ==
    /\ CanManage
    /\ members[u].role \notin {"none", "OWNER"} /\ u # me
    /\ members[u].role = "ADMIN" => rank = "OWNER"

Ask(kind, u, row) ==
    /\ call.kind = "none"
    /\ call' = [NoCall EXCEPT !.kind = kind, !.user = u, !.row = row, !.rank = rank]
    /\ UNCHANGED <<me, server, rank, members, invites>>

AskRemove(u) == CanRemove(u) /\ Ask("remove", u, members[u].row)
\* The email is typed: anyone's, also a member's.
AskInvite(u) == CanManage /\ Ask("invite", u, 0)
AskInvitation(u) == CanManage /\ u \in invites /\ \E kind \in {"resend", "cancel"} : Ask(kind, u, 0)

-----------------------------------------------------------------------------
(* The API.                                                                  *)

Ends(how, behind) == call' = [NoCall EXCEPT !.end = how, !.behind = behind]
MyRank == member[me].role

\* WorkspaceGuard and RolesGuard read my row before every handler.
Refused(allowed) ==
    IF MyRank = "none" THEN Ends("gone", FALSE)
    ELSE Ends(IF allowed THEN "gone" ELSE "rank", call.rank # MyRank)

Remove(found) ==
    /\ call.kind = "remove"
    /\ LET u == call.user
           allowed == /\ MyRank \in Managers
                      /\ found => /\ member[u].role # "OWNER" /\ u # me
                                  /\ member[u].role = "ADMIN" => MyRank = "OWNER" IN
       IF allowed /\ found
       THEN /\ member' = [member EXCEPT ![u].role = "none"]
            /\ Ends("done", FALSE)
       ELSE Refused(allowed) /\ UNCHANGED member
    /\ UNCHANGED <<me, invited, rank, members, invites>>

\* The member is found by the user, not by the row that was shown.
RemoveUser == Remove(member[call.user].role # "none")

\* WorkspaceService.removeMember finds the row by its id.
RemoveMember == Remove(member[call.user].role # "none" /\ member[call.user].row = call.row)

\* InvitationsService.create, resend and remove.  An invitation needs a seat of the plan,
\* which Membership counts: here there may be none left.
HandleInvitation ==
    /\ call.kind \in {"invite", "resend", "cancel"}
    /\ \E seat \in BOOLEAN :
       LET u == call.user
           found == IF call.kind = "invite" THEN seat /\ member[u].role = "none" /\ u \notin invited
                    ELSE u \in invited IN
       IF MyRank \in Managers /\ found
       THEN /\ invited' = CASE call.kind = "invite" -> invited \cup {u}
                            [] call.kind = "resend" -> invited
                            [] call.kind = "cancel" -> invited \ {u}
            /\ Ends("done", FALSE)
       ELSE Refused(MyRank \in Managers) /\ UNCHANGED invited
    /\ UNCHANGED <<me, member, rank, members, invites>>

\* A call that never reached the API: a toast or an open dialog.
LoseCall ==
    /\ call.kind # "none"
    /\ call' = NoCall
    /\ UNCHANGED <<me, server, rank, members, invites>>

TeamNext ==
    \/ Read
    \/ \E u \in People :
          Accept(u) \/ OwnerElsewhere(u) \/ AskRemove(u) \/ AskInvite(u) \/ AskInvitation(u)
    \/ RemoveMember \/ HandleInvitation \/ LoseCall

TeamSpec == TeamInit /\ [][TeamNext]_team

-----------------------------------------------------------------------------

\* However old the lists are that the page offers its buttons from, the API refuses one
\* for the user's or the member's role only when the user's own role is not the one that
\* the page offered it for: what the page offers is what the service allows.
RefusedForRankOnlyIfBehind == call.end = "rank" => call.behind
=============================================================================
