-------------------------------- MODULE MCAmm --------------------------------
(* Instances of Amm for TLC. *)
EXTENDS Amm, TLC

Symmetry == Permutations(Users) \cup Permutations(Pools)

OneToThree == 1 .. 3
=============================================================================
