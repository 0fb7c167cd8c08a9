------------------------------ MODULE HouseBook ------------------------------
(***************************************************************************)
(* What the dice game promises of one house: a book of open bets and a     *)
(* vault.  A bet enters the book once, with its stake, and leaves it once, *)
(* lost, won at the odds less the edge, or given back when it is overdue;  *)
(* the vault changes with the book and in no other way, except that the    *)
(* house may add to it; a transaction keeps all of its steps or none.      *)
(*                                                                         *)
(* Absent: the players' money, other houses, and how the house made its    *)
(* decision known.  Module DiceGameBook shows that DiceGame implements     *)
(* this for each of its houses.                                            *)
(***************************************************************************)
EXTENDS Integers

CONSTANTS Keys,    \* what a bet of this house can be entered under
          Faces, Scale, Edge, MaxRoll, MinBet, U64Max, Timeout, RentMin, MaxSlot

VARIABLES vault,   \* lamports
          bets,    \* key of an open bet -> its terms
          slot,
          saved    \* vault and bets after the last committed transaction

bookVars == <<vault, bets, slot, saved>>

BookInit ==
  /\ vault = 0
  /\ bets = [b \in {} |-> 0]
  /\ slot = 0
  /\ saved = <<vault, bets>>

Fund == vault' >= vault /\ UNCHANGED <<bets, slot, saved>>

Accept(b, amount, roll) ==
  /\ b \notin DOMAIN bets
  /\ bets' = [c \in DOMAIN bets \cup {b} |->
                IF c = b THEN [slot |-> slot, amount |-> amount, roll |-> roll] ELSE bets[c]]
  /\ vault' = vault + amount
  /\ UNCHANGED <<slot, saved>>

\* The bet leaves the book and the vault pays n for it.
End(b, n) ==
  /\ bets' = [c \in DOMAIN bets \ {b} |-> bets[c]]
  /\ vault >= n
  /\ vault' = vault - n
  /\ UNCHANGED <<slot, saved>>

Lose(b) == End(b, 0)

\* The roll - 1 winning picks share the stake, less the edge, Faces times; what a
\* winner gets is rounded down, and never below the stake.
Odds(bet, n) ==
  LET all(m) == m * (bet.roll - 1) * (Scale \div Faces)
      due    == bet.amount * (Scale - Edge)
  IN  /\ bet.roll > 1
      /\ bet.amount <= n
      /\ all(n) <= due /\ due < all(n + 1)

Win(b) == \E n \in 0 .. U64Max : Odds(bets[b], n) /\ End(b, n)

GiveBack(b) == slot - bets[b].slot > Timeout /\ End(b, bets[b].amount)

\* No account may be left with less than the rent-exempt minimum.
Commit ==
  /\ vault = 0 \/ vault >= RentMin
  /\ saved' = <<vault, bets>>
  /\ UNCHANGED <<vault, bets, slot>>

Abort == <<vault', bets'>> = saved /\ UNCHANGED <<slot, saved>>

\* Only between transactions.
Tick ==
  /\ saved = <<vault, bets>>
  /\ slot' = slot + 1
  /\ UNCHANGED <<vault, bets, saved>>

BookNext ==
  \/ Commit
  \/ Abort
  \/ Tick
  \/ Fund
  \/ \E b \in Keys, amount \in MinBet .. U64Max, roll \in 1 .. MaxRoll : Accept(b, amount, roll)
  \/ \E b \in DOMAIN bets : Lose(b) \/ Win(b) \/ GiveBack(b)

BookSpec == BookInit /\ [][BookNext]_bookVars
=============================================================================
