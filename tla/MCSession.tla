------------------------------- MODULE MCSession -------------------------------
(* Session with symmetric tokens, tabs and requests.                           *)
EXTENDS Session, TLC

Symmetry == Permutations(Tokens) \cup Permutations(Tabs) \cup Permutations(Requests)
=============================================================================
