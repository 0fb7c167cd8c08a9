----------------------------- MODULE MCDiceGame -----------------------------
(* Instances of DiceGame for TLC. *)
EXTENDS DiceGame, TLC

Symmetry == Permutations(Houses) \cup Permutations(Players)
=============================================================================
