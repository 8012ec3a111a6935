----------------------------- MODULE MCSessions -----------------------------
(* Small instances of Sessions. *)
EXTENDS Sessions, TLC

Symmetry == Permutations(Sids) \cup Permutations(Calls) \cup Permutations(Users)
=============================================================================
