-------------------------------- MODULE Cpmm --------------------------------
(***************************************************************************)
(* The constant-product arithmetic of crates/cpmm: the quotes a pool gives *)
(* for a swap, a deposit and a withdrawal.  A quote is a function of the   *)
(* pool's reserves, LP supply and fee; nothing here changes state.         *)
(*                                                                         *)
(* A CpmmResult<T> is a set: {} is Err(_), the singleton {q} is Ok(q).     *)
(* Which error it is does not matter to any caller, so Err has one form.   *)
(*                                                                         *)
(* The crate writes every formula twice, once for X and once for Y, with   *)
(* the letters exchanged.  Here a token is an element of Token, and the    *)
(* two copies are one operator with the token as a parameter.              *)
(***************************************************************************)
EXTENDS Integers

CONSTANTS BPS,      \* denominator of a fee (10_000 in the crate)
          U64Max    \* the largest u64; u128 is the square of that range

\* The crate has BPS = 10_000 and U64Max = 2^64 - 1.  The only relation it
\* relies on is that a product of BPS and a u64 is far below the largest u128.
ASSUME CpmmAssumption == /\ BPS \in Nat \ {0}
                         /\ U64Max \in Nat
                         /\ 2 * BPS <= U64Max

U64     == 0 .. U64Max
U128Max == (U64Max + 1) * (U64Max + 1) - 1

AsU64(n) == n % (U64Max + 1)       \* Rust's "as u64": the low bits of a u128

Token == {"X", "Y"}
Other(t) == IF t = "X" THEN "Y" ELSE "X"
Side  == Token \cup {"Balanced"}

Pair == [Token -> U64]             \* an amount of each token
Nothing    == [t \in Token |-> 0]
Just(t, n) == [u \in Token |-> IF u = t THEN n ELSE 0]
Plus(a, b)  == [t \in Token |-> a[t] + b[t]]
Minus(a, b) == [t \in Token |-> a[t] - b[t]]
AtLeast(a, b) == \A t \in Token : a[t] >= b[t]

PoolState == [r : Pair, l : U64, fee : Nat]
New(r, l, fee) == [r |-> r, l |-> l, fee |-> fee]

-----------------------------------------------------------------------------
(* Swap *)

\* Mutant: the quotient is rounded up.
SwapFormula_RoundUp(rIn, rOut, amount, fee) ==
  LET eff == (BPS - fee) * amount
      den == BPS * rIn + eff
  IN  IF fee <= BPS /\ eff * rOut <= U128Max /\ den > 0
      THEN {AsU64((eff * rOut + den - 1) \div den)}
      ELSE {}

\* Mutant: the reserve paid into is left out of the denominator.
SwapFormula_NoReserve(rIn, rOut, amount, fee) ==
  IF fee < BPS /\ amount > 0 THEN {rOut} ELSE {}

\* swap_out_y_for_x and swap_out_x_for_y, and the same formula in swap_out:
\*   gamma * rOut * amount / (BPS * rIn + gamma * amount).
\* checked_mul fails above u128; checked_div fails on an empty denominator.
SwapFormula(rIn, rOut, amount, fee) ==
  LET gamma == BPS - fee
      num   == gamma * rOut * amount
      den   == BPS * rIn + gamma * amount
  IN  IF fee <= BPS /\ num <= U128Max /\ den > 0
      THEN {AsU64(num \div den)}
      ELSE {}

\* What the pool pays in the other token for `amount` of t: never nothing.
SwapOut(pool, amount, t) ==
  {out \in SwapFormula(pool.r[t], pool.r[Other(t)], amount, pool.fee) : out > 0}

Swap(pool, amount, side, minOut) ==
  IF /\ amount > 0
     /\ side \in Token
     /\ \A t \in Token : pool.r[t] > 0
     /\ pool.fee < BPS
  THEN {out \in SwapOut(pool, amount, side) : out >= minOut}
  ELSE {}

-----------------------------------------------------------------------------
(* Deposit *)

IsFloorRoot(s, n) == s * s <= n /\ n < (s + 1) * (s + 1)

\* isqrt; that Newton's iteration computes this value is module IsqrtNewton.
Isqrt(n) == CHOOSE s \in 0 .. n : IsFloorRoot(s, n)

DepositQuote(lp, deposit, swapIn, swapOut) ==
  [lp |-> lp, deposit |-> deposit, swapIn |-> swapIn, swapOut |-> swapOut]

\* Mutant: the root is rounded up.
FirstMint_RoundUp(offer, minLp) ==
  LET lp == AsU64(Isqrt(offer["X"] * offer["Y"] - 1) + 1)
  IN  IF lp >= minLp /\ lp > 0
      THEN {DepositQuote(lp, offer, Nothing, Nothing)}
      ELSE {}

\* The first mint takes the whole offer, whatever the vaults already hold.
FirstMint(offer, minLp) ==
  LET lp == AsU64(Isqrt(offer["X"] * offer["Y"]))
  IN  IF lp >= minLp /\ lp > 0
      THEN {DepositQuote(lp, offer, Nothing, Nothing)}
      ELSE {}

\* Mutant: the token with the larger share decides.
LaterMint_MaxShare(pool, offer, minLp) ==
  LET share(t) == (offer[t] * pool.l) \div pool.r[t]
      lp       == IF share("X") <= share("Y") THEN share("Y") ELSE share("X")
      take     == [t \in Token |-> AsU64((pool.r[t] * lp) \div pool.l)]
  IN  IF AsU64(lp) >= minLp /\ \A t \in Token : pool.r[t] > 0 /\ take[t] > 0
      THEN {DepositQuote(AsU64(lp), take, Nothing, Nothing)}
      ELSE {}

\* Mutant: the whole offer is taken, whatever LP it is worth.
LaterMint_WholeOffer(pool, offer, minLp) ==
  LET share(t) == (offer[t] * pool.l) \div pool.r[t]
      lp       == IF share("X") <= share("Y") THEN share("X") ELSE share("Y")
  IN  IF (\A t \in Token : pool.r[t] > 0) /\ lp > 0 /\ AsU64(lp) >= minLp
      THEN {DepositQuote(AsU64(lp), offer, Nothing, Nothing)}
      ELSE {}

\* Later mints: the limiting token decides, and the deposit is recomputed
\* from the LP, both rounded down.  Division by an empty reserve is an Err.
LaterMint(pool, offer, minLp) ==
  LET share(t) == (offer[t] * pool.l) \div pool.r[t]
      lp       == IF share("X") <= share("Y") THEN share("X") ELSE share("Y")
      take     == [t \in Token |-> AsU64((pool.r[t] * lp) \div pool.l)]
  IN  IF /\ \A t \in Token : pool.r[t] > 0
         /\ AsU64(lp) >= minLp
         /\ \A t \in Token : take[t] > 0
      THEN {DepositQuote(AsU64(lp), take, Nothing, Nothing)}
      ELSE {}

DepositBalanced(pool, offer, minLp) ==
  IF \E t \in Token : offer[t] = 0 THEN {}
  ELSE IF pool.l = 0 THEN FirstMint(offer, minLp)
  ELSE LaterMint(pool, offer, minLp)

\* Mutant: the whole input is deposited on top of the half that was swapped.
DepositSingle_HalfTwice(pool, t, amount, minLp) ==
  LET half      == amount \div 2
      after(out) == New(Minus(Plus(pool.r, Just(t, half)), Just(Other(t), out)), pool.l, pool.fee)
      rest(out)  == [u \in Token |-> IF u = t THEN amount ELSE out]
  IN  IF amount > 1 /\ pool.l > 0 /\ pool.r[t] + half <= U64Max
      THEN UNION {{[q EXCEPT !.swapIn = Just(t, half), !.swapOut = Just(Other(t), out)] :
                     q \in DepositBalanced(after(out), rest(out), minLp)} :
                  out \in {o \in SwapOut(pool, half, t) : o <= pool.r[Other(t)]}}
      ELSE {}

\* SwapDeposit: swap half of t, then deposit the rest and what the swap paid.
DepositSingle(pool, t, amount, minLp) ==
  LET half      == amount \div 2
      after(out) == New(Minus(Plus(pool.r, Just(t, half)), Just(Other(t), out)), pool.l, pool.fee)
      rest(out)  == [u \in Token |-> IF u = t THEN amount - half ELSE out]
  IN  IF amount > 1 /\ pool.l > 0 /\ pool.r[t] + half <= U64Max
      THEN UNION {{[q EXCEPT !.swapIn = Just(t, half), !.swapOut = Just(Other(t), out)] :
                     q \in DepositBalanced(after(out), rest(out), minLp)} :
                  out \in {o \in SwapOut(pool, half, t) : o <= pool.r[Other(t)]}}
      ELSE {}

\* An offer is (Option<u64>, Option<u64>): a function on the tokens offered.
Offers(S) == UNION {[D -> S] : D \in SUBSET Token}

Deposit(pool, offer, side, minLp) ==
  IF pool.fee >= BPS THEN {}
  ELSE IF side = "Balanced" /\ DOMAIN offer = Token
       THEN DepositBalanced(pool, offer, minLp)
  ELSE IF side \in Token /\ DOMAIN offer = {side}
       THEN DepositSingle(pool, side, offer[side], minLp)
  ELSE {}

-----------------------------------------------------------------------------
(* Withdraw *)

WithdrawQuote(withdraw, proRata, swapIn, swapOut) ==
  [withdraw |-> withdraw, proRata |-> proRata, swapIn |-> swapIn, swapOut |-> swapOut]

\* Mutant: one unit stays behind whenever all of a reserve is asked for.
ProRata_KeepsOne(pool, lp) ==
  [t \in Token |-> LET all == (pool.r[t] * lp) \div pool.l
                   IN  IF all = pool.r[t] THEN all - 1 ELSE all]

\* The share of each reserve that lp of the pool's LP stands for, as a u128.
ProRata(pool, lp) == [t \in Token |-> (pool.r[t] * lp) \div pool.l]

WithdrawBalanced(pool, lp) ==
  LET w == [t \in Token |-> AsU64(ProRata(pool, lp)[t])]
  IN  IF \A t \in Token : w[t] > 0
      THEN {WithdrawQuote(w, w, Nothing, Nothing)}
      ELSE {}

\* Mutant: the swap leg is quoted on the reserves before the withdrawal.
WithdrawSingle_OldReserves(pool, t, lp) ==
  LET u     == Other(t)
      share == ProRata(pool, lp)
  IN  IF \A v \in Token : share[v] <= pool.r[v]
      THEN {WithdrawQuote(Just(t, share[t] + o), share, Just(u, share[u]), Just(t, o)) :
              o \in {p \in SwapFormula(pool.r[u], pool.r[t], share[u], pool.fee) :
                       share[t] + p \in 1 .. pool.r[t]}}
      ELSE {}

\* WithdrawSwap: the share of the unwanted token u is swapped for t against
\* what is left of the reserves; this swap, unlike swap_out, may pay nothing.
WithdrawSingle(pool, t, lp) ==
  LET u        == Other(t)
      share    == ProRata(pool, lp)
      rest     == [v \in Token |-> pool.r[v] - share[v]]
      total(o) == AsU64(share[t] + o)
  IN  IF \A v \in Token : share[v] <= pool.r[v]
      THEN {WithdrawQuote(Just(t, total(o)), share, Just(u, share[u]), Just(t, o)) :
              o \in {p \in SwapFormula(rest[u], rest[t], share[u], pool.fee) : total(p) > 0}}
      ELSE {}

Withdraw(pool, lp, side, floor) ==
  IF lp > 0 /\ pool.l > 0 /\ \A t \in Token : pool.r[t] > 0
  THEN {q \in IF side = "Balanced" THEN WithdrawBalanced(pool, lp)
                                   ELSE WithdrawSingle(pool, side, lp) :
          AtLeast(q.withdraw, floor)}
  ELSE {}
=============================================================================
