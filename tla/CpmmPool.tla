------------------------------ MODULE CpmmPool ------------------------------
(***************************************************************************)
(* One pool of the AMM program, seen from the pool's side: its two vaults, *)
(* the supply of its LP mint and its Config account, under every order of  *)
(* successful instructions.  Who calls, what they own and how transactions *)
(* group and roll back the instructions is module Amm; here any caller can *)
(* pay, so every step the vaults and the mint allow is a step.             *)
(*                                                                         *)
(* `burned` is what the instruction sysvar tells withdraw_w_introspection: *)
(* the LP a burn_lp instruction on this pool burned just before, else 0.   *)
(* An instruction that another program calls sees what its caller sees and *)
(* does not change it.                                                     *)
(***************************************************************************)
EXTENDS Cpmm

CONSTANTS Fees,    \* the fees callers try: any u16, so also BPS and above
          Calls    \* whether other programs call the program

ASSUME FeesAssumption == Fees \subseteq Nat

VARIABLES pool,    \* [r: vault balances, l: LP supply, fee, locked, owned]
          burned

vars == <<pool, burned>>

\* config.authority is Some(_) iff owned.
Pool == [r : Pair, l : U64, fee : Fees, locked : BOOLEAN, owned : BOOLEAN]

TypeOK == pool \in Pool /\ burned \in U64

\* initialize: empty vaults and mint, no check on the fee, any authority.
Init ==
  /\ \E fee \in Fees, owned \in BOOLEAN :
       pool = [r |-> Nothing, l |-> 0, fee |-> fee, locked |-> FALSE, owned |-> owned]
  /\ burned = 0

-----------------------------------------------------------------------------
(* The vaults and the supply after a quote has been carried out.  A token  *)
(* account and a mint hold a u64: a transfer or a mint above it fails.     *)

Snapshot(s) == New(s.r, s.l, s.fee)

\* Mutant: the vault is not checked to hold the new balance.
AfterSwap_NoCheck(s, amount, t, minOut) ==
  {[s EXCEPT !.r = Minus(Plus(@, Just(t, amount)), Just(Other(t), out))] :
     out \in Swap(Snapshot(s), amount, t, minOut)}

AfterSwap(s, amount, t, minOut) ==
  {[s EXCEPT !.r = Minus(Plus(@, Just(t, amount)), Just(Other(t), out))] :
     out \in {o \in Swap(Snapshot(s), amount, t, minOut) : s.r[t] + amount <= U64Max}}

AfterDeposit(s, offer, side, minLp) ==
  {n \in {[s EXCEPT !.r = Plus(Minus(Plus(@, q.swapIn), q.swapOut), q.deposit),
                    !.l = @ + q.lp] : q \in Deposit(Snapshot(s), offer, side, minLp)} :
     n.r \in Pair /\ n.l <= U64Max}

\* s.l is the supply the quote is made with.
AfterWithdraw(s, lp, side, floor) ==
  {[s EXCEPT !.r = Minus(Plus(Minus(@, q.proRata), q.swapIn), q.swapOut), !.l = @ - lp] :
     q \in {w \in Withdraw(Snapshot(s), lp, side, floor) : lp <= s.l /\ AtLeast(s.r, w.proRata)}}

-----------------------------------------------------------------------------
(* Instructions.  A floor (min_out, min_lp, min_x, min_y) only refuses, so *)
(* here every floor is 0: the callers whose floor is met.                  *)

\* The next instruction sees that n LP were burned just before it or, if this one
\* was called by another program, what this one saw.
Before(n) == burned' = n \/ (Calls /\ UNCHANGED burned)

DoSwap(amount, t) ==
  /\ ~pool.locked
  /\ pool' \in AfterSwap(pool, amount, t, 0)
  /\ Before(0)

DoDeposit(offer, side) ==
  /\ ~pool.locked
  /\ pool' \in AfterDeposit(pool, offer, side, 0)
  /\ Before(0)

DoWithdraw(lp, side) ==
  /\ ~pool.locked
  /\ pool' \in AfterWithdraw(pool, lp, side, Nothing)
  /\ Before(0)

BurnLp(lp) ==
  /\ ~pool.locked
  /\ lp <= pool.l
  /\ pool' = [pool EXCEPT !.l = @ - lp]
  /\ Before(lp)

\* Mutant: the quote is made with the supply there is after the burn.
WithdrawBurned_NewSupply(lp, side) ==
  /\ ~pool.locked
  /\ lp = burned
  /\ \E n \in AfterWithdraw(pool, lp, side, Nothing) : pool' = [n EXCEPT !.l = pool.l]
  /\ Before(0)

\* withdraw_w_introspection: a withdrawal of the LP burned just before, quoted
\* with the supply from before the burn.  Nothing but the sysvar keeps it from
\* being done again.
WithdrawBurned(lp, side) ==
  /\ ~pool.locked
  /\ lp = burned
  /\ pool.l + lp <= U64Max
  /\ pool' \in AfterWithdraw([pool EXCEPT !.l = @ + lp], lp, side, Nothing)
  /\ Before(0)

UpdateConfig(fee, owned, locked) ==
  /\ fee < BPS
  /\ pool.owned
  /\ pool' = [pool EXCEPT !.fee = fee, !.owned = owned, !.locked = locked]
  /\ Before(0)

\* Outside the program: anyone may send tokens to a vault.
Donate(t, amount) ==
  /\ pool.r[t] + amount <= U64Max
  /\ pool' = [pool EXCEPT !.r[t] = @ + amount]
  /\ Before(0)

\* Outside the program: LP burned with the token program directly, or (0) any
\* instruction that is not about this pool.
BurnElsewhere(lp) ==
  /\ lp <= pool.l
  /\ pool' = [pool EXCEPT !.l = @ - lp]
  /\ Before(0)

Next ==
  \/ \E lp \in U64 : BurnElsewhere(lp)
  \/ \E t \in Token, amount \in U64 : Donate(t, amount)
  \/ \E fee \in Fees, owned, locked \in BOOLEAN : UpdateConfig(fee, owned, locked)
  \/ \E lp \in U64 : BurnLp(lp)
  \/ \E lp \in U64, side \in Side : WithdrawBurned(lp, side)
  \/ \E lp \in U64, side \in Side : DoWithdraw(lp, side)
  \/ \E amount \in U64, t \in Token : DoSwap(amount, t)
  \/ \E offer \in Offers(U64), side \in Side : DoDeposit(offer, side)

Spec == Init /\ [][Next]_vars

-----------------------------------------------------------------------------
(* Properties *)

\* LP is never left without backing: while any LP is outstanding, both vaults
\* hold something.  (If one emptied, swap, deposit and withdraw would all be
\* refused by their zero-balance guards and the LP could never be redeemed.)
ReservesBackSupply == pool.l > 0 => \A t \in Token : pool.r[t] > 0

\* A swap pays exactly what the curve allows ("output computed so the post-swap
\* reserves sit on the curve"): with the fee taken off the input, `out` keeps
\* the product of the reserves and one unit more would lower it.
KeepsProduct(rIn, rOut, eff, out) == (BPS * rIn + eff) * (rOut - out) >= BPS * rIn * rOut

SwapsOnCurve ==
  \A t \in Token, amount \in U64 :
    LET rIn  == pool.r[t]
        rOut == pool.r[Other(t)]
        eff  == (BPS - pool.fee) * amount
    IN  \A out \in Swap(Snapshot(pool), amount, t, 0) :
          /\ out < rOut
          /\ KeepsProduct(rIn, rOut, eff, out)
          /\ ~KeepsProduct(rIn, rOut, eff, out + 1)

\* What the holders of the LP can still claim counts the LP burned for a
\* withdrawal that comes next.
K(s)   == s.r["X"] * s.r["Y"]
Claims == pool.l + burned

\* Between deposits no step lowers the value of an LP token, K / Claims^2: not
\* a swap, not a withdrawal of either kind, not a burn, not a gift.  Every
\* rounding in swap_out and in the withdraw quotes is in the pool's favour.  A
\* call that leaves the same burn to the next call has not used it up; then the
\* promise is about the LP that is left, and one step at a time: no withdrawal,
\* called or not, pays more than the LP it burns or is shown the burn of.
ValuePerLpNeverFalls ==
  [][pool'.l <= pool.l =>
       LET left == IF burned' = burned THEN pool'.l ELSE Claims'
       IN  K(pool') * Claims * Claims >= K(pool) * left * left]_vars

\* A deposit is rounded in the depositor's favour (LP and deposit are both
\* rounded down, the deposit from the rounded LP), so it may lower the value of
\* an LP token, but by less than one unit of each token in the vaults.
DepositDilutionBounded ==
  [][pool.l > 0 /\ pool'.l > pool.l =>
       (pool'.r["X"] + 1) * (pool'.r["Y"] + 1) * pool.l * pool.l
         >= K(pool) * pool'.l * pool'.l]_vars

\* The LP the crate's README promises for a later mint, on the integers.
LpFormula(offer) ==
  LET share(t) == (offer[t] * pool.l) \div pool.r[t]
  IN  CHOOSE lp \in {share(t) : t \in Token} : \A t \in Token : lp <= share(t)

Mints(offer) == IF pool.l > 0 THEN AfterDeposit(pool, offer, "Balanced", 0) ELSE {}

\* A balanced deposit into a live pool followed by a balanced withdrawal of the
\* LP it minted is refused in neither step and changes nothing.
RoundTripExact ==
  \A offer \in Pair : \A s \in Mints(offer) :
    s.l = pool.l + LpFormula(offer) =>
      AfterWithdraw(s, s.l - pool.l, "Balanced", Nothing) = {pool}

\* crates/cpmm/README.md: a later mint pays min(dx * L / x, dy * L / y).
MintPaysFormula ==
  \A offer \in Pair : \A s \in Mints(offer) : s.l = pool.l + LpFormula(offer)

\* Nor is there anything to gain through the sides: a deposit of any side and a
\* withdrawal of the LP it minted, through the same side or another, leave the
\* supply as it was and the product of the vaults no smaller.
NoRoundTripProfit ==
  pool.l > 0 =>
    \A offer \in Offers(U64), side, back \in Side : \A s \in AfterDeposit(pool, offer, side, 0) :
      \A after \in AfterWithdraw(s, s.l - pool.l, back, Nothing) : K(after) >= K(pool)

\* The two quotes that chain a swap do what the user could do in two steps: a
\* single-sided deposit is a swap of half of the offer and then a balanced deposit
\* of the other half and what the swap paid, refused exactly if one of them is.
SingleDepositIsSwapThenDeposit ==
  pool.l > 0 =>
    \A t \in Token, n \in U64 \ {0} :
      LET half   == n \div 2
          got(s) == pool.r[Other(t)] - s.r[Other(t)]
      IN  AfterDeposit(pool, [v \in {t} |-> n], t, 0)
            = UNION {AfterDeposit(s, [v \in Token |-> IF v = t THEN n - half ELSE got(s)], "Balanced", 0) :
                     s \in AfterSwap(pool, half, t, 0)}

\* A withdrawal of either kind takes the LP's share out of both vaults.  Balanced,
\* that is all, and it is refused if a share is nothing.  Single-sided, the share
\* of the other token is then swapped in the pool as it is left; where the swap
\* instruction would be refused (it pays nothing, or the fee is all of it) that
\* share stays in the pool instead.  It is refused only if that comes to nothing
\* of the wanted token, or the swap cannot be computed: a fee above BPS, a fee of
\* BPS on all of the LP, or a product above u128.
AfterShares(lp) == [pool EXCEPT !.r = Minus(@, ProRata(Snapshot(pool), lp)), !.l = @ - lp]

SingleWithdrawalIsWithdrawalThenSwap ==
  \A t \in Token, lp \in U64 :
    LET u        == Other(t)
        s        == AfterShares(lp)
        share(v) == pool.r[v] - s.r[v]
        swapped  == AfterSwap(s, share(u), u, 0)
        computed == SwapFormula(s.r[u], s.r[t], share(u), pool.fee) # {}
        balanced == {n \in {s} : \A v \in Token : share(v) > 0}
        single   == {n \in IF swapped # {} THEN swapped ELSE {[s EXCEPT !.r[u] = pool.r[u]]} :
                       computed /\ n.r[t] < pool.r[t]}
        known    == lp \in 1 .. pool.l
    IN  /\ AfterWithdraw(pool, lp, "Balanced", Nothing) = IF known THEN balanced ELSE {}
        /\ AfterWithdraw(pool, lp, t, Nothing) = IF known THEN single ELSE {}

\* Nothing is stranded in a pool that is not locked: whoever holds the whole
\* supply can redeem it, whatever the fee, for all that the vaults hold, gifts and
\* what earlier holders left behind included.
WholeSupplyRedeems ==
  pool.l > 0 /\ ~pool.locked =>
    AfterWithdraw(pool, pool.l, "Balanced", Nothing) = {[pool EXCEPT !.r = Nothing, !.l = 0]}

\* A first mint, which ignores what the vaults already hold, is fully backed:
\* the LP it gives is at most the root of the product of the vaults, so the value
\* of an LP token starts at 1 or more.
FirstMintIsBacked ==
  [][pool.l = 0 /\ pool'.l > 0 => K(pool') >= pool'.l * pool'.l]_vars
=============================================================================
