------------------------- MODULE MCDoubleEndedQueue -------------------------
(* Small instances of DoubleEndedQueue for TLC.                             *)
EXTENDS DoubleEndedQueue, TLC

Symmetry == Permutations(Other) \cup Permutations(Job) \cup Permutations(Node)
=============================================================================
