------------------------------ MODULE MCChatTurn ------------------------------
(* Small instances of ChatTurn. *)
EXTENDS ChatTurn, TLC

CONSTANTS t1, t2, c1, c2

Symmetry == Permutations(Turns) \cup Permutations(Conversations)
=============================================================================
