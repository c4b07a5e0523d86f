---------------------------- MODULE MCSupportCase ----------------------------
(* Instances of SupportCase for TLC. *)
EXTENDS SupportCase, TLC

Symmetry == Permutations(Calls) \cup Permutations(Turns)
=============================================================================
