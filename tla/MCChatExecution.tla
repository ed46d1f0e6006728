-------------------------- MODULE MCChatExecution ---------------------------
(* Instances of ChatExecution for TLC. *)
EXTENDS ChatExecution, TLC

Symmetry == Permutations(Run) \cup Permutations(Owner)
=============================================================================
