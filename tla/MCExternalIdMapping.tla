------------------------ MODULE MCExternalIdMapping ------------------------
(* Instances of ExternalIdMapping for TLC. *)
EXTENDS ExternalIdMapping, TLC

Symmetry == Permutations(Products) \cup Permutations(Handlers)
=============================================================================
