---------------------------- MODULE MCAmmAccounts ----------------------------
(* Instances of AmmAccounts for TLC. *)
EXTENDS AmmAccounts, TLC

Symmetry == Permutations(Users) \cup Permutations(Seeds) \cup Permutations(Mints)
=============================================================================
