-------------------------------- MODULE Amm --------------------------------
(***************************************************************************)
(* The AMM program on the Solana runtime: pools, the users' token and LP   *)
(* accounts, and the program's seven instructions, executed one by one in  *)
(* transactions (module Transactions).                                     *)
(***************************************************************************)
EXTENDS PoolTransfers, Transactions, FiniteSets

CONSTANTS Users, Pools,
          Nobody,      \* Option<Pubkey>::None, and "no account" in prev
          Amounts,     \* the amounts callers try
          Floors,      \* the min_out, min_lp, min_x and min_y they try
          Fees,        \* the fees they try: any u16, so also BPS and above
          Authorities, \* the authorities they give a pool, Nobody among them
          Endowment    \* what every user owns of each token at the start

ASSUME AmmAssumption ==
  /\ IsFiniteSet(Users)
  /\ Nobody \notin Users \cup Pools
  /\ Amounts \subseteq U64
  /\ Floors \subseteq U64
  /\ Fees \subseteq Nat
  /\ Authorities \subseteq Users \cup {Nobody}
  /\ Endowment \in U64
  /\ Cardinality(Users) * Endowment <= U64Max

vars == <<ledger, work, prev, executed>>

PoolAccounts == [open : BOOLEAN, r : Pair, l : U64,
                 fee : Fees \cup {0}, locked : BOOLEAN, auth : Authorities \cup {Nobody}]
Accounts == [pool   : [Pools -> PoolAccounts],
             wallet : [Users -> Pair],
             lp     : [Users -> [Pools -> U64]]]

\* What confirm_burn can tell of an instruction: whose program, which
\* instruction, its accounts and amount, and whether its account list and data
\* have exactly the length of a burn_lp.
Instruction == {NoInstruction} \cup
  [program : {"amm", "other"}, burn : BOOLEAN, user : Users \cup {Nobody},
   pool : Pools \cup {Nobody}, amount : U64, exact : BOOLEAN]

NotABurn(program) ==
  [program |-> program, burn |-> FALSE, user |-> Nobody, pool |-> Nobody,
   amount |-> 0, exact |-> FALSE]
Burn(program, u, p, n, exact) ==
  [program |-> program, burn |-> TRUE, user |-> u, pool |-> p, amount |-> n, exact |-> exact]

TypeOK ==
  /\ ledger \in Accounts
  /\ work \in Accounts
  /\ prev \in Instruction
  /\ executed \in 0 .. MaxIx

Unopened == [open |-> FALSE, r |-> Nothing, l |-> 0,
             fee |-> 0, locked |-> FALSE, auth |-> Nobody]

Init ==
  /\ ledger = [pool   |-> [p \in Pools |-> Unopened],
               wallet |-> [u \in Users |-> [t \in Token |-> Endowment]],
               lp     |-> [u \in Users |-> [p \in Pools |-> 0]]]
  /\ StartsIdle

-----------------------------------------------------------------------------
(* The instructions: what accounts s become, as a result set               *)

FundsOf(s, u, p) == Funds(s.wallet[u], s.pool[p].r)
Settle(s, u, p, f) == [s EXCEPT !.wallet[u] = f.wallet, !.pool[p].r = f.vault]

Snapshot(s, p) == New(s.pool[p].r, s.pool[p].l, s.pool[p].fee)

\* Mutant: the lock is not looked at.
Usable_Locked(s, p) == s.pool[p].open

Usable(s, p) == s.pool[p].open /\ ~s.pool[p].locked

\* The accounts of a pool are created here; the fee is not looked at.
Initialized(s, p, fee, auth) ==
  IF s.pool[p].open THEN {}
  ELSE {[s EXCEPT !.pool[p] = [@ EXCEPT !.open = TRUE, !.fee = fee, !.locked = FALSE, !.auth = auth]]}

\* Mutant: anyone may update.
Updated_Anyone(s, u, p, fee, auth, locked) ==
  IF s.pool[p].open /\ fee < BPS
  THEN {[s EXCEPT !.pool[p] = [@ EXCEPT !.fee = fee, !.auth = auth, !.locked = locked]]}
  ELSE {}

Updated(s, u, p, fee, auth, locked) ==
  IF s.pool[p].open /\ fee < BPS /\ s.pool[p].auth = u
  THEN {[s EXCEPT !.pool[p] = [@ EXCEPT !.fee = fee, !.auth = auth, !.locked = locked]]}
  ELSE {}

Swapped(s, u, p, amount, side, minOut) ==
  IF ~Usable(s, p) THEN {}
  ELSE UNION {{Settle(s, u, p, f) : f \in SwapTransfers(FundsOf(s, u, p), side, amount, out)} :
              out \in Swap(Snapshot(s, p), amount, side, minOut)}

\* mint_lp_tokens; the mint's supply is a u64.
MintLp(s, u, p, n) ==
  IF s.pool[p].l + n <= U64Max
  THEN {[s EXCEPT !.pool[p].l = @ + n, !.lp[u][p] = @ + n]}
  ELSE {}

Deposited(s, u, p, offer, side, minLp) ==
  IF ~Usable(s, p) THEN {}
  ELSE UNION {UNION {MintLp(Settle(s, u, p, f), u, p, q.lp) :
                     f \in DepositTransfers(FundsOf(s, u, p), q)} :
              q \in Deposit(Snapshot(s, p), offer, side, minLp)}

\* Mutant: the balance burned from is not checked.
BurnTokens_NoCheck(s, u, p, n) ==
  {[s EXCEPT !.pool[p].l = @ - n, !.lp[u][p] = @ - n]}

\* The token program's burn of a user's own LP.
BurnTokens(s, u, p, n) ==
  IF n <= s.lp[u][p]
  THEN {[s EXCEPT !.pool[p].l = @ - n, !.lp[u][p] = @ - n]}
  ELSE {}

\* The payout of a withdrawal quoted with LP supply `supply`.
PaidOut(s, u, p, supply, lp, side, floor) ==
  UNION {{Settle(s, u, p, f) : f \in WithdrawTransfers(FundsOf(s, u, p), q)} :
         q \in Withdraw(New(s.pool[p].r, supply, s.pool[p].fee), lp, side, floor)}

Withdrawn(s, u, p, lp, side, floor) ==
  IF ~Usable(s, p) THEN {}
  ELSE UNION {BurnTokens(paid, u, p, lp) :
              paid \in PaidOut(s, u, p, s.pool[p].l, lp, side, floor)}

LpBurned(s, u, p, n) == IF Usable(s, p) THEN BurnTokens(s, u, p, n) ELSE {}

\* Mutants: the amount, or the accounts, of the burn are not compared.
ConfirmBurn_AnyAmount(ix, u, p, lp) ==
  /\ ix.program = "amm" /\ ix.burn
  /\ ix.user = u /\ ix.pool = p /\ ix.exact

ConfirmBurn_AnyAccounts(ix, u, p, lp) ==
  /\ ix.program = "amm" /\ ix.burn
  /\ ix.exact
  /\ ix.amount = lp

\* confirm_burn and confrim_burn_accounts: instruction -1 exists, is burn_lp of
\* this program, by the same user on the same pool, with nothing appended, and
\* burned the same amount.
ConfirmBurn(ix, u, p, lp) ==
  /\ ix.program = "amm"
  /\ ix.burn
  /\ ix.user = u /\ ix.pool = p
  /\ ix.exact
  /\ ix.amount = lp

\* Mutant: the quote is made with the supply there is after the burn.
WithdrawnAfterBurn_NewSupply(s, ix, u, p, lp, side, floor) ==
  IF Usable(s, p) /\ ConfirmBurn(ix, u, p, lp)
  THEN PaidOut(s, u, p, s.pool[p].l, lp, side, floor)
  ELSE {}

\* withdraw_w_introspection burns nothing and quotes with the supply there was
\* before the burn.
WithdrawnAfterBurn(s, ix, u, p, lp, side, floor) ==
  IF Usable(s, p) /\ ConfirmBurn(ix, u, p, lp) /\ s.pool[p].l + lp <= U64Max
  THEN PaidOut(s, u, p, s.pool[p].l + lp, lp, side, floor)
  ELSE {}

-----------------------------------------------------------------------------
(* Steps                                                                   *)

InitializeIx(p, fee, auth) ==
  Execute(Initialized(work, p, fee, auth), NotABurn("amm"))

UpdateConfigIx(u, p, fee, auth, locked) ==
  Execute(Updated(work, u, p, fee, auth, locked), NotABurn("amm"))

SwapIx(u, p, amount, side, minOut) ==
  Execute(Swapped(work, u, p, amount, side, minOut), NotABurn("amm"))

DepositIx(u, p, offer, side, minLp) ==
  Execute(Deposited(work, u, p, offer, side, minLp), NotABurn("amm"))

WithdrawIx(u, p, lp, side, floor) ==
  Execute(Withdrawn(work, u, p, lp, side, floor), NotABurn("amm"))

\* Anchor reads a prefix of the data and of the account list, so a burn_lp with
\* something appended (exact = FALSE) executes all the same.
BurnLpIx(u, p, n, exact) ==
  Execute(LpBurned(work, u, p, n), Burn("amm", u, p, n, exact))

WithdrawWIx(u, p, lp, side, floor) ==
  Execute(WithdrawnAfterBurn(work, prev, u, p, lp, side, floor), NotABurn("amm"))

\* Instructions of other programs: a gift to a vault, a burn of LP with the
\* token program, and one that only looks like a burn_lp.
Donate(u, p, t, n) ==
  Execute(IF work.pool[p].open
          THEN {Settle(work, u, p, f) : f \in Pay({FundsOf(work, u, p)}, Just(t, n))}
          ELSE {},
          NotABurn("other"))

TokenBurn(u, p, n) ==
  Execute(BurnTokens(work, u, p, n), NotABurn("other"))

LookAlike(u, p, n) ==
  Execute({work}, Burn("other", u, p, n, TRUE))

Next ==
  \/ \E p \in Pools :
       \/ \E fee \in Fees, auth \in Authorities : InitializeIx(p, fee, auth)
       \/ \E u \in Users :
            \/ \E fee \in Fees, auth \in Authorities, locked \in BOOLEAN :
                 UpdateConfigIx(u, p, fee, auth, locked)
            \/ \E n \in Amounts, side \in Side, min \in Floors : SwapIx(u, p, n, side, min)
            \/ \E offer \in Offers(Amounts), side \in Side, min \in Floors :
                 DepositIx(u, p, offer, side, min)
            \/ \E n \in Amounts, side \in Side, floor \in [Token -> Floors] :
                 \/ WithdrawIx(u, p, n, side, floor)
                 \/ WithdrawWIx(u, p, n, side, floor)
            \/ \E n \in Amounts, exact \in BOOLEAN : BurnLpIx(u, p, n, exact)
            \/ \E n \in Amounts, t \in Token : Donate(u, p, t, n)
            \/ \E n \in Amounts : TokenBurn(u, p, n) \/ LookAlike(u, p, n)
  \/ Commit
  \/ Abort

Spec == Init /\ [][Next]_vars

-----------------------------------------------------------------------------
(* Properties *)

\* While any LP of a pool is outstanding both its vaults hold something, in the
\* middle of a transaction too: otherwise no withdrawal could ever pay again.
ReservesBackSupply ==
  \A p \in Pools : work.pool[p].l > 0 => \A t \in Token : work.pool[p].r[t] > 0

\* crates/cpmm/README.md: fee_bps is 0-9999.
FeeInRange == \A p \in Pools : ledger.pool[p].open => ledger.pool[p].fee < BPS

\* Introspection changes nothing: as the second instruction of a transaction, or
\* the first that the second one calls, withdraw_w_introspection does what a plain
\* withdraw would have done as the first (same payout, same supply, refused in the
\* same cases), if the first was this user's own burn of that amount in that pool,
\* and is refused otherwise.
BurnThenWithdrawIsWithdraw ==
  executed = 1 =>
    \A u \in Users, p \in Pools, n \in Amounts, side \in Side, floor \in [Token -> Floors] :
      WithdrawnAfterBurn(work, prev, u, p, n, side, floor)
        = IF prev = Burn("amm", u, p, n, TRUE)
          THEN Withdrawn(ledger, u, p, n, side, floor)
          ELSE {}

\* LP that can still be exchanged for the reserves of p: the supply, and what
\* the last instruction burned if the next one may withdraw for it.
Claims(s, ix, p) ==
  s.pool[p].l
    + IF ix.program = "amm" /\ ix.burn /\ ix.exact /\ ix.pool = p THEN ix.amount ELSE 0
K(s, p) == s.pool[p].r["X"] * s.pool[p].r["Y"]

\* No instruction but a deposit lowers the value K / Claims^2 of any pool's LP,
\* so LP burned in one instruction pays in the next one at most once, and in no
\* other pool.  The instructions that another program calls all see the burn before
\* their caller: one that leaves it to the next call has not used it up, and then
\* the promise is about the LP that is left and one instruction at a time.
ValuePerLpNeverFalls ==
  [][\A p \in Pools :
       executed' = executed + 1 /\ work'.pool[p].l <= work.pool[p].l =>
         LET left == IF prev' = prev THEN work'.pool[p].l ELSE Claims(work', prev', p)
         IN  K(work', p) * Claims(work, prev, p) * Claims(work, prev, p)
               >= K(work, p) * left * left]_vars

\* programs/amm/tests/tests.rs: withdraw_w_introspection is refused without a burn
\* of its own before it, and takes its amount from the LP of the user: what a burn
\* was paid for once, it is not paid for again.
BurnPaysOnce ==
  \A u \in Users, p \in Pools, n \in Amounts, side, again \in Side :
    ConfirmBurn(prev, u, p, n) /\ work \in Withdrawn(ledger, u, p, n, side, Nothing) =>
      WithdrawnAfterBurn(work, prev, u, p, n, again, Nothing) = {}

\* No caller of an instruction gets other terms than the ones it asked for.
\* What was gained or lost of each token:
Gain(s, u) == Minus(s.wallet[u], work.wallet[u])

\* A deposit takes no more of either token than was offered (and none of a
\* token that was not), and mints at least min_lp: the legs of a single-sided
\* deposit may not add up to more than the offer.
DepositHonoursOffer ==
  \A u \in Users, p \in Pools, offer \in Offers(Amounts), side \in Side, min \in Floors :
    \A s \in Deposited(work, u, p, offer, side, min) :
      /\ \A t \in Token : -Gain(s, u)[t] <= IF t \in DOMAIN offer THEN offer[t] ELSE 0
      /\ s.lp[u][p] - work.lp[u][p] >= min

\* A withdrawal pays at least min_x and min_y and, single-sided, leaves the
\* other token of its owner as it was.
WithdrawHonoursFloors ==
  \A u \in Users, p \in Pools, n \in Amounts, side \in Side, floor \in [Token -> Floors] :
    \A s \in Withdrawn(work, u, p, n, side, floor)
               \cup WithdrawnAfterBurn(work, prev, u, p, n, side, floor) :
      /\ AtLeast(Gain(s, u), floor)
      /\ side \in Token => Gain(s, u)[Other(side)] = 0

\* A pool without an authority is immutable ("if config.auth.isNone -> config is
\* immutable"): no transaction changes it.
ConfigOf(s, p) == <<s.pool[p].fee, s.pool[p].locked, s.pool[p].auth>>
RenouncedConfigIsFrozen ==
  [][\A p \in Pools :
       ledger.pool[p].open /\ ledger.pool[p].auth = Nobody =>
         ConfigOf(ledger', p) = ConfigOf(ledger, p)]_vars

\* A locked pool neither pays nor mints, in any instruction: only gifts and LP
\* burned outside the program change its accounts.
LockedPoolIsStill ==
  [][\A p \in Pools :
       executed' = executed + 1 /\ work.pool[p].locked =>
         /\ AtLeast(work'.pool[p].r, work.pool[p].r)
         /\ work'.pool[p].l <= work.pool[p].l
         /\ prev' # prev /\ prev'.program = "amm" /\ prev'.burn => prev'.pool # p]_vars
=============================================================================
