----------------------------- MODULE MCAmmPools -----------------------------
(* Instances of AmmPools for TLC. *)
EXTENDS AmmPools, TLC

Symmetry == Permutations(Users)
=============================================================================
