\* Two requests at a time on a workspace of two seats.
SPECIFICATION Spec
CONSTANTS
  u1 = u1
  u2 = u2
  i1 = i1
  i2 = i2
  i3 = i3
  r1 = r1
  r2 = r2
  Owner = Owner
  Users = {u1, u2}
  Invitations = {i1, i2}
  Requests = {r1, r2}
  Limit = 2
SYMMETRY Symmetry
PROPERTIES ImplementsInvitationLimit JoinsByInvitation RemovalFollowsRank InvitationsOnlyClose
