------------------------------- MODULE MCBilling -------------------------------
(* Instances of Billing for TLC. *)
EXTENDS Billing, TLC

CONSTANTS s1, s2, r1, r2

Symmetry == Permutations(Subs) \cup Permutations(Requests)
=============================================================================
