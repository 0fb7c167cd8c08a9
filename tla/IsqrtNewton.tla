---------------------------- MODULE IsqrtNewton ----------------------------
(***************************************************************************)
(* cpmm::isqrt, the integer square root behind the LP of a first mint:     *)
(* Newton's iteration from above on u128, one step per pass of the loop.   *)
(* It is called with the product of two u64 offers and nothing else.       *)
(***************************************************************************)
EXTENDS Cpmm

VARIABLES n,        \* the argument
          x, y,     \* the current and the next estimate
          pc        \* "start", "loop" or "done"

vars == <<n, x, y, pc>>

\* Mutant: called with any u128.
Init_AnyU128 ==
  /\ n \in 0 .. U128Max
  /\ x = 0 /\ y = 0
  /\ pc = "start"

Init ==
  /\ \E dx, dy \in U64 : n = dx * dy
  /\ x = 0 /\ y = 0
  /\ pc = "start"

Zero ==
  /\ pc = "start" /\ n = 0
  /\ pc' = "done"
  /\ UNCHANGED <<n, x, y>>

\* Mutant: the first estimate is rounded down.
Guess_RoundDown ==
  /\ pc = "start" /\ n # 0
  /\ x' = n
  /\ y' = n \div 2
  /\ pc' = "loop"
  /\ UNCHANGED n

Guess ==
  /\ pc = "start" /\ n # 0
  /\ x' = n
  /\ y' = (n + 1) \div 2
  /\ pc' = "loop"
  /\ UNCHANGED n

\* Mutants: the quotient is subtracted; the loop runs until the estimates agree.
Improve_Minus ==
  /\ pc = "loop" /\ y < x
  /\ x' = y
  /\ y' = (y - n \div y) \div 2
  /\ UNCHANGED <<n, pc>>

Improve_UntilEqual ==
  /\ pc = "loop" /\ y # x
  /\ x' = y
  /\ y' = (y + n \div y) \div 2
  /\ UNCHANGED <<n, pc>>

Improve ==
  /\ pc = "loop" /\ y < x
  /\ x' = y
  /\ y' = (y + n \div y) \div 2
  /\ UNCHANGED <<n, pc>>

\* Mutant: an estimate one below the last is close enough.
Return_Early ==
  /\ pc = "loop" /\ y + 1 >= x
  /\ pc' = "done"
  /\ UNCHANGED <<n, x, y>>

Return ==
  /\ pc = "loop" /\ y >= x
  /\ pc' = "done"
  /\ UNCHANGED <<n, x, y>>

Finished == pc = "done" /\ UNCHANGED vars

Next == Zero \/ Guess \/ Improve \/ Return \/ Finished

\* One thread runs the loop to its end.
Spec == Init /\ [][Next]_vars /\ WF_vars(Next)

-----------------------------------------------------------------------------
(* Properties *)

TypeOK ==
  /\ n \in 0 .. U128Max
  /\ x \in 0 .. U128Max
  /\ y \in 0 .. U128Max
  /\ pc \in {"start", "loop", "done"}

\* The loop stops at the floor of the root, the value the quote is made with,
\* and not one iteration early or late.
ResultIsIsqrt == pc = "done" => IsFloorRoot(x, n) /\ x = Isqrt(n)

\* No intermediate leaves u128 and no division is by zero: the estimate never
\* reaches 0, and x + 1 and x + n / x fit for every product of two u64.
NoArithmeticFault ==
  pc = "loop" => x > 0 /\ y > 0 /\ x + 1 <= U128Max /\ x + n \div x <= U128Max

\* The estimates fall until they stop, so the loop ends.
Terminates == <>(pc = "done")

\* Every estimate is at least the root, and the next one is Newton's.
NewtonInv ==
  /\ n <= U64Max * U64Max
  /\ pc = "start" => x = 0
  /\ pc = "loop" => /\ x > 0 /\ x <= n
                    /\ n < (x + 1) * (x + 1)
                    /\ y = (x + n \div x) \div 2
  /\ pc = "done" => IsFloorRoot(x, n)

Inv == TypeOK /\ NewtonInv
=============================================================================
