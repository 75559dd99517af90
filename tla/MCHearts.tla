------------------------------- MODULE MCHearts -------------------------------
(* An instance of the hearts for TLC: two requests of the same guest or of *)
(* two, on one photo or on two.                                            *)
EXTENDS Hearts, TLC

Symmetry == Permutations(Requests) \cup Permutations(Sessions) \cup Permutations(Photos)
==============================================================================
