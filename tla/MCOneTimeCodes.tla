-------------------------- MODULE MCOneTimeCodes --------------------------
(* Small instances of OneTimeCodes. *)
EXTENDS OneTimeCodes, TLC

Symmetry == Permutations(Slots)
=============================================================================
