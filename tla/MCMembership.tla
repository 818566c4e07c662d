----------------------------- MODULE MCMembership -----------------------------
(* Small instances of Membership. *)
EXTENDS Membership, TLC

CONSTANTS u1, u2, i1, i2, i3, r1, r2

Symmetry == Permutations(Users) \cup Permutations(Invitations)
                \cup Permutations(Requests)
=============================================================================
