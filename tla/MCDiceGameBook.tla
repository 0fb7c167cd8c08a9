--------------------------- MODULE MCDiceGameBook ---------------------------
(* Instances of DiceGameBook for TLC. *)
EXTENDS DiceGameBook
=============================================================================
