------------------------------ MODULE MCChatClient ------------------------------
(* ChatClient with interchangeable surfaces and conversations.                 *)
EXTENDS ChatClient, TLC

Symmetry == Permutations(Surfaces) \cup Permutations(Conversations)
=============================================================================
