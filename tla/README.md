# Verification of the AMM and dice-game programs

TLA+ models of the programs in this repository, the TLC instances that check
them, and TLAPS proofs of what holds for every value of the constants.

The repository holds two Solana programs that share one idea, *instruction
introspection*: an instruction looks, through the instructions sysvar, at the
instruction just before it in the same transaction and trusts what it did.

## 1. Inventory

### 1.1 `crates/cpmm` — quotes of a constant-product pool

* **State**: none. `PoolState` is a snapshot (two reserves, LP supply, fee in
  basis points) and every method is a pure function on it.
* **Operations**: `swap`, `deposit` (balanced; X only; Y only), `withdraw`
  (balanced; X only; Y only), `isqrt`.
* **Hard**: u64 amounts multiplied in u128, rounding directions, unchecked
  `as u64` casts, zero and empty pools, single-sided operations that chain a
  quote on the state a previous quote leaves, Newton's iteration on u128.
* **Correct when**: a swap is on the curve and never empties a reserve; nobody
  gains by a round trip; the value of an LP token is not lowered by swaps and
  withdrawals, and by deposits only within rounding; a mint pays what the formula
  says; `isqrt` is the floor of the root for every argument it is given.

### 1.2 `programs/amm` — pools on chain

* **State**: per pool a `Config` (authority, fee, locked), an LP mint, two
  vaults; per user two token accounts and an LP account. Tokens and LP are kept
  by the SPL token program.
* **Operations**: `initialize`, `update_config`, `swap`, `deposit`, `withdraw`,
  `burn_lp_tokens`, `withdraw_w_introspection`.
* **Interactions**: a handler takes a `PoolState` snapshot of the accounts, asks
  cpmm for a quote, and carries it out with one to six token-program calls.
  `withdraw_w_introspection` burns nothing; it pays because `burn_lp_tokens` was
  the instruction before. The runtime executes a transaction's instructions in
  order and keeps all of their effects or none; other users' transactions come
  in between, and other programs can send tokens to a vault, burn LP, and call the
  program's instructions from their own. Callers
  pass the accounts; Anchor's constraints decide which it accepts.
* **Hard**: the protocol of the two instructions (whose burn, which pool, how
  much, used how often), the supply that is stale after the burn, the rollback
  between burn and withdrawal, the order of the token transfers, an authority
  that changes the rules while others trade, pools at zero, pools on the same mints
  or on another pool's LP, and accounts that stand in for other accounts.
* **Correct when**: burn + withdraw does exactly what `withdraw` does, once; LP is
  never left without backing; every caller gets the terms it asked for; a
  renounced pool is immutable and a locked one still; a pool behaves as if it were
  alone; signer and pool leave no choice of accounts.

### 1.3 `programs/dice_game` — bets against a house

* **State**: one lamport vault per house, one `Bet` account per (vault, player,
  seed) with slot, stake and roll.
* **Operations**: `initialize` (fund the vault), `place_bet`, `refund_bet` (after
  1000 slots), `resolve_bet` (the house's signature on the bet, verified by the
  ed25519 program in the instruction before, is the randomness),
  `commit_entropy` and `resolve_from_entropy` (the entropy is in the data of the
  instruction before).
* **Hard**: settlement races with the refund; the stake is not set aside in the
  vault; a payout may be more than the vault holds or leave it below the
  rent-exempt minimum; one commit must settle only its own bet.
* **Interactions**: lamports move by the system program; the runtime commits no
  transaction that leaves an account with something below the rent-exempt minimum.
* **Correct when**: a bet is settled or refunded once; a settlement needs the
  commit or signature for that very bet; no refund before the timeout; the
  payout is the odds less the house edge, for every stake.

### 1.4 The rest

`crates/cpmm/tests`, `programs/amm/tests` and `tests/dice_game.ts` drive the
programs (LiteSVM, TypeScript) and were read for what they promise.
`migrations`, `runbooks`, `Anchor.toml` and `txtx.yml` deploy the programs.
Neither keeps state of its own; they are not modelled.

## 2. Modules

| Module | Models | State |
| --- | --- | --- |
| `Cpmm` | every quote of `crates/cpmm/src/lib.rs` | none: operators |
| `IsqrtNewton` | the loop of `isqrt` | argument, two estimates, program counter |
| `CpmmPool` | one pool under every instruction of the program | vaults, LP supply, `Config`; the LP burned just before |
| `Transactions` | the runtime: instructions in order, their own or called by another program, the one before, commit, rollback | ledger, working copy, previous instruction, count |
| `PoolTransfers` | the token transfers that carry out a quote | none: operators on a wallet and the vaults |
| `Amm` | the whole AMM program: users, pools, introspection | that of `Transactions`, on wallets, LP and pools |
| `AmmAccounts` | the accounts the AMM accepts: the constraints of all seven account structs | the Configs and token accounts that exist |
| `PoolTx` | abstract: one pool, opened once, under `CpmmPool`'s steps and transactions | that of `CpmmPool`; open; what is committed |
| `AmmPools` | `Amm` implements `PoolTx` for any pool | that of `Amm` |
| `DiceGame` | the whole dice game: bets, vaults, both settlements, refund | that of `Transactions`, on bets and lamports; the clock |
| `HouseBook` | abstract: one house's book of open bets and its vault | vault, bets, slot; what is committed |
| `DiceGameBook` | `DiceGame` implements `HouseBook` for any house | that of `DiceGame` |
| `NaturalLemmas`, `CpmmLemmas`; `CpmmPoolProofs`, `IsqrtNewtonProofs`, `AmmAccountsProofs`, `AmmPoolsProofs`, `AmmProofs`, `DiceGameProofs` | lemmas; proofs | |
| `MCCpmmPool`, `MCAmm`, `MCAmmAccounts`, `MCAmmPools`, `MCDiceGame`, `MCDiceGameBook` | TLC instances | |

`Amm` and `DiceGame` both extend `Transactions`: their handlers are result sets
that its `Execute` applies to the working copy, as an instruction of the transaction
(`ExecuteOwn`) or as one that another program calls (`ExecuteCalled`). `Cpmm` is extended by the modules
of the AMM; `CpmmPool` and `Amm` are two views of the same
program at different depth. `CpmmPool` leaves out who owns what, so it can take
*every* amount; `Amm` adds wallets, LP accounts and transactions with rollback on
fewer amounts. `AmmPools` connects the two: seen from one pool, `Amm` does nothing
that `CpmmPool` with opening and rollback does not do, so what holds of every step of
`CpmmPool` holds of every instruction in every pool. `AmmAccounts` justifies the one
thing `Amm` takes for granted, that an instruction on a pool by a user gets that
pool's and that user's accounts. It is separate because amounts and addresses do not
influence each other: no constraint reads an amount, and no handler an address but
`confirm_burn`, whose comparison is in both (in `Amm` by user and pool, in
`AmmAccounts` by keys, and `BurnKeysNameUserAndPool` says that this is the same).

### 2.1 How the models read the code

* `CpmmResult<T>` and an instruction's outcome are **sets**: `{}` is an error,
  `{q}` is `Ok(q)`. `UNION` chains them as `?` does. An error has one form,
  because every error has the same effect: the transaction is rolled back.
* The crate writes each formula twice, for X and for Y. The model has a
  `Token` parameter instead: `SwapFormula(rIn, rOut, ...)` stands for
  `swap_out_y_for_x`, `swap_out_x_for_y` and the two arms of `swap_out`.
* `u64` is `0 .. U64Max`, `u128` is `0 .. U128Max` with
  `U128Max = (U64Max+1)^2 - 1`, and `as u64` is `AsU64`, a remainder. Checked
  operations that cannot fail for u64 operands, whatever their values, have no
  guard in the model; those that can, have one. `BPS` stands for 10_000.
* `Swap` has the guards of `swap`, `SwapOut` the one more of `swap_out` (the
  output is not zero), which the swap leg of a single-sided withdrawal does not
  have.
* In `Amm` an instruction is a result set named by a participle (`Deposited`,
  `Withdrawn`, ...) with the handler's guards in the handler's order, and an
  action `...Ix` that executes it on the working copy. `prev` is what
  `get_instruction_relative(-1)` gives, cut down to what `confirm_burn` compares:
  the program, the discriminator, the user and pool (which determine the nine
  account keys), the amount, and whether the account list and the data have the
  exact length. `exact` matters because Anchor executes a `burn_lp_tokens`
  with extra accounts or bytes as well, and `confirm_burn` refuses to count it.
* **Calls.** The instructions sysvar lists the instructions of the transaction, not the
  calls inside them, so `get_instruction_relative(-1)` in a called instruction is the one
  before its *caller*, the same for every call of that caller. `ExecuteCalled` does the
  handler's work and leaves `prev` alone; how many calls come before an instruction of
  the transaction itself is open. The caller itself is never recorded: what comes after
  it would find no evidence in it, as after any instruction of another program, and
  `NotABurn("other")` is already that. `CpmmPool`'s `Before(n)` is the same choice for
  one pool. The constant `Calls` says whether there are any; the theorems
  hold for both values. The ed25519 program, which a program cannot call, is always
  executed by the transaction itself.
* `LookAlike` is an instruction of another program whose data and accounts equal
  those of a burn; `TokenBurn` burns LP with the token program. Both must not
  count as a burn.
* The two tokens have separate accounts, so two transfers of different tokens
  next to each other are one step with an amount of each. The order of the steps
  (in, out, in) is kept, because a wallet or a vault may hold too little for one
  order and enough for another.

* In `AmmAccounts` an address derived from seeds is a term of the seeds (`ConfigPda`,
  `LpPda`, `Ata`), so equal only if the seeds are; other addresses are keypairs. A
  constraint is the **set** of accounts it accepts: `has_one` those with the mint of
  the Config, `associated_token` those at the address and with the owner,
  `init_if_needed` also the address without an account. An account struct is the set
  of tuples that satisfy all of it, and an instruction is possible if the set is not
  empty. Anyone may open a token account for anyone, give it away or close it; the LP
  mint of a pool is a mint like any other, so pools on LP occur.
* The refinement mappings only forget. `AmmPools!Abstract` drops who the authority is
  and keeps whether there is one; `Burned` is the amount of the instruction before, if
  it is a burn in this pool that `confirm_burn` may count. `DiceGameBook` keeps
  the vault and the bets of one house. A step of another pool or house is a stutter
  or, if it ends what `prev` was evidence of, `CpmmPool`'s `BurnElsewhere(0)`.
* In `DiceGame` the open bets are the domain of a function, so closing an account
  removes an element. `Faces`, `Scale`, `Edge`, `MaxRoll`, `MinBet`, `Timeout` are the
  100, 10_000, 150, 99, 10_000_000 and 1000 of the code. A signature or an entropy
  *is* the face of the die it hashes to: the house chooses it, SHA-256 can give
  every face, and the program uses it for nothing else. `plain` is to evidence what
  `exact` is to a burn: one signature whose offsets point into its own instruction and
  no accounts; four accounts and 33 bytes. The house may have signed any bet, also one
  that is closed or has other terms. The bump in the signed message is left out: it
  is a function of the addresses.
* The clock advances between transactions only, since a transaction has one slot.
  `RentExempt` guards the commit of a dice-game transaction, not its instructions:
  the runtime looks at balances at the end.

### 2.2 What the models leave out

Rent and fees are outside the models, but for the rent of a bet's account, which its
player pays and gets back; so are who pays for an account and the constraints on
program ids, which are constants. Which error is returned has no influence on any
state, since every error rolls the transaction back: errors have one form, and
`error.rs` of the three crates is not modelled.

Of a program that calls one of ours only the calls are modelled (2.1): what it does in
between is a gift, a burn of LP, or nothing that these accounts show.

All pools of `Amm` trade the same two tokens, from one wallet per user, and share
nothing else. Pools on other mints, or on the LP of another pool, are in
`AmmAccounts`, where they matter for addresses, but not in `Amm`.
Wallets are endowed once; gifts and swaps move tokens, nothing creates them. Lamports
sent to the account of a bet, or to a vault by somebody other than its house, are not
modelled.

Not modelled at all: the tests, which drive the programs and were read for what they
promise, and the deployment scripts.

## 3. Checks

| Run | Instance | Shows |
| --- | --- | --- |
| `cpmm_pool` | `BPS = 4`, u64 = 0..8, fees 0, 1/4, 1, 5/4; every amount; calls | one pool: backing, swaps on the curve, value per LP, dilution, round trips, first mint and whole supply, single-sided quotes as two steps |
| `cpmm_mint_formula` | `BPS = 3`, u64 = 0..8 | a violation: see 3.3 |
| `amm_trade` | one user with 4 of each token, one pool, u64 = 0..7, amounts 1..3, floors 0 and 2, three instructions in a transaction, their own or called | terms of trade, backing and value with wallets, LP accounts, floors and rollback |
| `amm_calls` | one user, one pool, two instructions, their own or called | a violation: see 3.3 |
| `amm_pools` | two users, two pools, u64 = 0..4, `BPS = 2`, amounts 1..2, two instructions of the transaction | introspection with the burn of somebody else, of another pool, of another program, of another amount; value in both pools; `PoolIsAlone`: the program implements the one-pool specification |
| `amm_config` | one pool, fees 0 and 1, calls, two users who pass authority to each other and renounce it | the lock and the frozen config, between and inside transactions; `PoolIsAlone` for the same pool |
| `amm_fee_range` | two users, one pool | a violation: see 3.3 |
| `amm_accounts` | two users, two seeds, three mints and the two LP mints, one keypair, three accounts that are no vaults | which accounts each instruction accepts |
| `dice_game` | two houses, two players, a die of 4 with picks up to 3 (1 and 3 are tried, and 4), edge 3/16, stake 3, timeout 1, slots 0..2 | `TypeOK`, `OpenBetsAreFair`, `OneBetOnePayment`, `BetEndsByItsTerms` |
| `dice_book` | two houses, one player, pick 2, stakes 1 (refused) and 2, two instructions | `HouseKeepsItsBook`: the game implements the book of one house |
| `dice_refund` | one house, two players | a violation: see 3.3 |
| `isqrt_newton` | u64 = 0..31, so every product below 962 | the loop ends, with the floor root, without overflow |

### 3.1 The properties

* **`ReservesBackSupply`** — while LP is outstanding, both vaults hold something.
  It is what keeps withdrawals possible: with an empty vault, `swap`, `deposit`
  and `withdraw` are all refused. It needs that no rounding of any leg of any
  quote, in any order of instructions, gives the last unit away.
* **`SwapsOnCurve`** — the output is the largest one that keeps the product of
  the reserves (fee taken off the input): no unit more, no unit less.
* **`ValuePerLpNeverFalls`** — `K / Claims²` falls in no step but a deposit.
  `Claims` counts the LP a withdrawal may still be paid for, so LP that is paid for
  by the burn of somebody else, of another amount or in another pool, or is quoted on
  the wrong supply, breaks it. Among the transaction's own instructions that makes it a
  promise about whole histories: the claims one step leaves are those the next starts
  with, so what was burned once is paid for at most once. A *called* instruction
  leaves the burn to the next call; for it the property compares with the LP that is
  left, a promise about that one step, and steps do not chain. What is
  lost is `BurnPaysOnce`, see 3.3.
* **`DepositDilutionBounded`** — a deposit rounds the LP down and then the amounts
  down from the rounded LP. That favours the depositor, so the value of an LP
  token may fall, but by less than one unit of each token in the vaults.
* **`RoundTripExact`**, **`NoRoundTripProfit`** — what a deposit puts in, a
  withdrawal of its LP takes out: exactly, when balanced; never with a smaller
  product of the vaults, whichever side (balanced, X, Y) each of the two takes.
* **`SingleDepositIsSwapThenDeposit`**, **`SingleWithdrawalIsWithdrawalThenSwap`** — the
  quotes that chain a swap do what the user could do in two instructions. The deposit
  does so exactly, refusals included. The withdrawal does not, and the property says
  which results both kinds of withdrawal have, each as an equality of sets: both take
  the shares of the LP out of the vaults; the balanced one is refused if either share
  is nothing; the single-sided one then swaps the other share in the pool as it is left,
  keeps it in the pool where the swap instruction would be refused (it pays nothing, or the
  fee is all of it), and is refused only if nothing of the wanted token is left or the swap
  cannot be computed. So with shares of 0 and 1 the balanced one is refused and the
  single-sided one pays 1.
* **`WholeSupplyRedeems`**, **`FirstMintIsBacked`** — the two ends of a pool's life. The
  first mint ignores what the vaults hold already; what it leaves out belongs to the
  new LP, and whoever has all of the LP can take all of the vaults, while the pool is
  not locked. In a pool that is locked and has no authority left everything stays for good:
  that is what `LockedPoolIsStill` and `RenouncedConfigIsFrozen` say together.
* **`PoolIsAlone`** — `Amm` implements `PoolTx` for each pool. Other pools, other users,
  floors and rollbacks add no behaviour; in particular the withdrawal after a burn
  happens only where `CpmmPool` has one, after a burn of that amount in that pool.
* **`AccountsAreDetermined`**, **`AccountsAreApart`** — whatever accounts exist, an
  instruction's kind, signer and pool leave the caller no choice of accounts, its
  vaults are the ones `initialize` made, no two vaults are the same account, and no
  token account that a user passes for X or Y is a vault.
* **`BurnKeysNameUserAndPool`** — the keys that `confirm_burn` compares are equal exactly
  if both instructions have one signer and one pool, though pools may share mints and
  the burner's LP account may not exist.
* **`BurnThenWithdrawIsWithdraw`** — for every burn that can stand before it,
  `withdraw_w_introspection`, the second instruction of a transaction or the first that the
  second one calls, leaves the accounts exactly as a plain `withdraw`
  in the burn's place would have, is refused exactly when that is refused, and is
  always refused after anything that is not this user's burn of this amount in
  this pool. The refinement of the two-instruction protocol to the one.
* **`DepositHonoursOffer`**, **`WithdrawHonoursFloors`** — the transfers, not only
  the quotes: a single-sided deposit makes three, a single-sided withdrawal
  four, and only together must they come to what was asked.
* **`RenouncedConfigIsFrozen`**, **`LockedPoolIsStill`** — see 1.2.
* **`OneBetOnePayment`** — every instruction that takes lamports out of a vault ends
  exactly one bet of that house, and what left the vault is what its player got: a
  refund and a settlement, or two settlements, never pay for the same bet.
* **`BetEndsByItsTerms`** — a bet ends overdue with its full stake, or with its own
  house's evidence about it as it stands (that seed, slot, stake and pick; nothing
  appended; directly before) and what the draw makes it worth.
* **`HouseKeepsItsBook`** — `DiceGame` implements `HouseBook` for each house. Its vault
  and its bets change together, one bet at a time, and a rollback restores both;
  nothing but its own bets and funds moves them.
* **`OpenBetsAreFair`** — for every bet that `place_bet` let in: the winning picks
  together are paid at most the stake times the faces less the edge, the two floors
  cost them less than a lamport per winning share, and a winner never gets less than
  its stake. The last depends on two constants in agreement: 98 picks of 100 are
  still below 98.5%.
* **`ResultIsIsqrt`**, **`NoArithmeticFault`**, **`Terminates`**, and `NewtonInv`,
  the inductive invariant that the proof uses.

### 3.2 Bounds, and why they are enough

A narrow u64 is no smaller a problem than a wide one: the rounding and overflow
cases need numbers near 0 and near `U64Max`, and both are in every instance, in
every combination. `cpmm_pool` reaches all vault balances and supplies up to 8
that deposits, gifts and burns can make, among them pools with more LP than
tokens and with very uneven reserves, under the free (0), the ordinary (1 of 4),
the full fee and one above it. In `Amm`, `MaxIx` bounds a transaction: two instructions hold a
burn and its withdrawal; three also something in between, before or after. The
number of transactions is not bounded. `Endowment` bounds the tokens a user owns,
small enough that transfers do fail. Users and pools are symmetric (model values;
no definition chooses among them), and nothing checked with symmetry is a
liveness property. In `amm_pools` and `amm_config` only the users are symmetric: the pool
looked at is a constant. `Calls` is `TRUE` in all runs of the two programs and of one pool
but two: `amm_pools`, whose two users and two pools would not end in time with them (the
refinement with calls is checked in `amm_config`, and proved for any number of pools), and
`cpmm_mint_formula`, for the shorter trace.

In `amm_accounts` three mints leave one that is in no pool or in both; two pools can
share both mints, have them in opposite order, or be on each other's LP, which exists
before the second `initialize`. Three accounts that are no vaults hold a user's two
token accounts and LP account, or anything that stands in for a vault or is at its
address before `initialize`; one keypair is one account that is at no derived address.
The properties speak of two instructions at a time, which two users and two pools hold.

In `dice_game` a player can afford one bet and a winner two; a vault can be too
poor for a payout, or be left below the rent-exempt minimum by one. Three slots
with a timeout of 1 hold a bet that is early, one just at the timeout (not overdue)
and one past it, beside bets of other ages. Picks include the smallest, 1, which never wins and would
divide by zero if it did, the largest, and one above it; `dice_book` has the picks in
between and a stake below the minimum. It has one player and one stake that is accepted, so
that two bets at two houses, with both ways to settle, still fit. How the two floors
round at other stakes and picks is left to `OpenBetsAlwaysFair`.

Deadlock is checked in every run. A gift is always possible in `CpmmPool`, a
transaction can always be opened or closed in `Amm` and `DiceGame`, an account of a
user can be closed or another one opened in `AmmAccounts`, and a finished `isqrt`
stutters.

### 3.3 Where the code and its documentation disagree

* `initialize` stores any fee (`initialize.rs:74`), while the crate's README says
  `fee_bps` is 0–9999 and `update_config` checks it. `amm_fee_range` finds the
  pool at once. Swaps and deposits of such a pool are refused with `InvalidFee`
  until its authority changes the fee, for ever if it has none.
* `deposit_balanced` casts the LP to u64 without a check (`lib.rs:258`).
  The rounding of later mints can bring the supply above the reserves: in
  `cpmm_mint_formula` a pool of 2 and 2 tokens has 3 LP. An offer near the
  largest u64 then mints the low bits of `min(dx L/x, dy L/y)`, where the README
  promises that amount or `Overflow`. Only `min_lp` protects the depositor.
  `RoundTripExact` therefore speaks of mints that did not wrap. That nothing else
  makes the formula fail is proved: `MintsPayFormulaUpToReserves` has it in every pool
  with no more LP than it has of one of its tokens.
* `withdraw_w_introspection` takes the burn before it as its own
  (`withdraw_with_introspection.rs:189`). The tests expect that a withdrawal without its burn
  is refused (`programs/amm/tests/tests.rs:892`) and that the user's LP falls by what was
  withdrawn (`tests.rs:996`), and the crate's README pays "for burning ΔL". `confirm_burn`
  counts from the instruction of the transaction, so all calls of one caller see
  the same burn, and nothing else records that it has been paid for. In `amm_calls` a
  user burns 1 LP and a program then calls two withdrawals of 1: the first
  does what `withdraw` would have, and `BurnPaysOnce` fails because the second is not
  refused; with `Calls = FALSE` the same instance has no such state. A check that the
  instruction is not a call, or a record of the burn, would
  settle it.
* The README says `refund_bet` returns the full stake. Stakes are not set aside in
  the vault: in `dice_refund` the payout of one bet is taken from the stake of another,
  whose refund then fails, until somebody funds the vault or other players lose.

### 3.4 Fairness

Only `IsqrtNewton` has a liveness property. Its `WF_vars(Next)` says that the
one thread which runs the loop is not stopped, which holds for a function call;
nothing weaker would make termination true. The runtime promises nobody that
an instruction is sent, so `CpmmPool`, `Amm`, `AmmAccounts` and `DiceGame` state no
fairness and no liveness. What may happen is stated as safety instead: that an
instruction is not refused (`WholeSupplyRedeems`, `BurnThenWithdrawIsWithdraw`).

## 4. Proofs

The assumptions are those of the modules: `CpmmAssumption` (`BPS` positive,
`2 * BPS <= U64Max`, true of 10_000 and 2^64 - 1), `FeesAssumption`,
`TransactionsAssumption`, `AmmAssumption` (what the users own of a token together is a
u64, because the mint's supply is one), `PoolAssumption` (`P` is a pool),
`AddressAssumption` (an address derived from seeds is no user's key and no keypair's),
`BoundAssumption` and `DiceAssumption` (which relates the edge to the largest pick, as
above, and takes a wallet to start rent exempt). The theorems hold for every u64 width
and fee scale, hence for the real ones, and for any number of users, pools and mints.

* **`CpmmPoolProofs!PoolInvariant`**: `TypeOK /\ ReservesBackSupply` is inductive,
  with its two consequences `TypesPreserved` and `ReservesAlwaysBackSupply`.
  `ReservesBackSupply` alone is not inductive: outside the types a vault could
  hold less than what is paid from it. No more than the types is needed, because
  the guards of the quotes carry the rest. The argument per instruction:
  `SwapFormulaBounds` (the output is below the reserve as long as the other
  reserve holds something), `DepositBounds` (a deposit quote deposits some of both
  tokens and its swap leg leaves something), `ProRataBounds` and
  `WithdrawLeaves` (a share of less than all the LP leaves something of both
  tokens, and the swap leg on what is left does too). A withdrawal after a burn is
  a withdrawal with the supply from before it; the burn of the last LP leaves no
  LP to back.
* **The value theorems of `CpmmPoolProofs`**, all from `PoolInvariant`. `SwapsAlwaysOnCurve` is the division
  of the quote read backwards. `ValueNeverFalls`: a share rounded down leaves at least
  the part of each reserve that the other LP stands for, so the two reserves fall by no
  larger a factor than the LP; the swap leg is on the curve of what is left; a burn only moves LP into
  `Claims`; a call leaves `burned` alone, and the LP it leaves is at most what its own
  instruction would have left as claims (`Remaining`). `DilutionAlwaysBounded`: a later mint's LP is at most each share, so with one
  unit more of each token the vaults would have grown as much as the LP.
  `FirstMintAlwaysBacked` is `IsFloorRoot`. `WholeSupplyAlwaysRedeems`: the share of all the LP
  has no remainder; the hypothesis that the pool is not locked is in the property because
  the handler has it, the quote does not need it. `RoundTripsExact`: the deposit is the floor of the LP's share
  *before* the deposit, and the same numbers come out as its floor after it.
  `RoundTripsNeverProfit`: a deposit is a swap leg, which does not lower the
  product (or none, when balanced), and a mint at the reserves it leaves; withdrawing that LP pays no more than the
  mint took (`MintAndRedeem`), so each reserve is left with at least what it was before the
  mint, and the withdrawal's own swap leg, if it has one, does not lower the product of that.
  What these arguments say of one quote is stated in `CpmmLemmas` about the quote alone
  (`SwapKeepsProduct`, `WithdrawKeepsValue`, `LaterMintParts`, `SingleParts`,
  `DepositKeepsProduct`), because `AmmProofs` needs the same facts about `Amm`.
* **`SingleDepositsChain`**, **`SingleWithdrawalsChain`**: equalities of sets of results, so
  each direction is a claim about what is *not* refused. `DepositAfterwards` rebuilds
  the second half of a deposit from the pool that the swap left (`Between`). The second
  one says which withdrawals are refused, balanced and single-sided, for every amount of
  LP: `SharesTaken` is what both pay first, `SingleWithdrawal` unfolds the quote's guards
  in its order, `SwapAfterwards` rebuilds the swap on what the shares left, and
  `EmptySwapPaysNothing`, `WholeFeePaysNothing` and `WholeShare` settle the edges: a
  share of nothing, the fee of 100%, and the withdrawal of all the LP.
* **`AmmAccountsProofs`**: `BurnKeysAlwaysName` and `AccountsAlwaysDetermined` hold in every
  state, because every role but the Config is fixed by an address that is a term of the
  Config and the signer; no history is needed. `AccountsAlwaysApart` needs one: the
  inductive invariant adds to the types that a pool's mints differ, that every vault
  exists with its mint and its Config as owner, and that an account at an associated
  address has that address's mint. The owner need not fit, since a user may give
  the account away; a Config never does.
* **`AmmPoolsProofs`**, about `Amm` and its refinement. Vaults and wallets stay u64
  because handlers check what they take and the token program what it adds; that a
  burn cannot take the *supply* below zero needs that no balance is above it, and a
  withdrawal of one user must keep that true for all others. The natural invariant is
  that the supply is the sum of the users' balances; a sum over users is a recursion
  on data, so the invariant `Layout` says without one what is needed of it, that
  the balances fit the supply together: they can be laid out as disjoint intervals within
  0..supply. `AccountsStaySound` has it, the types and
  the backing, for the ledger and the working copy, and gives `TypesPreserved` and
  `ReservesAlwaysBackSupply`. `PoolsAreAlone` is the refinement: every result of a handler,
  through its transfers, is a result of the step of `CpmmPool` with the same quote
  (`SwapTransfers` and the others, seen from the vault, add and take what `AfterSwap` and
  the others say; floors only refuse more); an instruction on another pool is a stutter or
  `BurnElsewhere(0)`; commit and rollback are those of `PoolTx`.
* **`AmmProofs`**, about `Amm` with users, wallets and transactions, on top of
  `AccountsStaySound`. `ValueNeverFalls` is proved in `Amm` and not carried over from
  `CpmmPool` along the refinement, since there the LP that a burn still claims is
  found in `prev`: `Claims` counts it only for the pool and the amount of that burn, so a
  confirmed withdrawal is a plain one with the supply from before, and any other step
  only forgets claims. `Executes` says what an instruction does besides its work, whoever
  calls it, and `RemainingFacts` what claims it leaves. `DepositsHonourOffers` and `WithdrawalsHonourFloors` add up the
  transfers of one handler (`DepositCost`, `WithdrawalPay`); the swap legs cancel because a
  single-sided quote's `deposit`, or `proRata`, of the other token is exactly what the swap
  paid, or takes. `LockStopsEverything` reads the lock in the state in which the
  instruction runs. Two theorems need an invariant about the open transaction, which TLC
  checked first: `RenouncedMeansFrozen` needs `RenouncedInTransaction` (a pool that nobody
  owns on the ledger has the same settings in the working copy, so the commit changes
  nothing); `IntrospectionChangesNothing` needs `FirstInstruction` (with one instruction
  executed and a burn recorded, the working copy is what that burn makes of the
  ledger, so the two ways to withdraw start from the same accounts). From there
  `BurnThenWithdraw` compares the two sets of results, `ConfirmedBurn` and `BurnConfirmed`
  say which records `confirm_burn` accepts.
* **`IsqrtNewtonProofs!InvInductive`**, **`IsqrtCorrect`**, **`IsqrtFaultless`** (and
  `TypesPreserved`, `EstimatesAboveRoot`, the two halves of the invariant): every
  estimate is at or above the root (the inequality of the arithmetic and geometric
  means in integers, `NextEstimateAboveRoot`), an estimate that does not fall is
  at most the root (`NoDescentBelowRoot`), and sums of an estimate and a quotient
  exceed the argument by at most one (`EstimateSumFits`), so they fit u128 for
  products of two u64. `FloorRootUnique` connects the result with `Isqrt`, the
  operator in which `FirstMint` states the code's call. With `n = u128::MAX` the
  first sum would overflow; the theorem is about the arguments the code passes.
* **`DiceGameProofs!TypesPreserved`**, **`OpenBetsAlwaysFair`**: the types of all
  accounts, in the ledger and in the working copy (`Abort` brings the ledger back),
  are inductive; they hold the bounds of stakes and picks, from which fairness is
  arithmetic: `PayoutRounding` for the two floors, `ScalePerFace` for the divisor.
* **`DiceGameProofs!StepKinds`** sorts the steps by what they do to accounts: a house
  adds to its vault, evidence is shown, a bet is opened, a bet is closed by its `Terms`,
  or a transaction ends. The closing steps need the inductive invariant `EvidenceForm`:
  `prev` has been built by `Signature`, `Entropy` or as no evidence at all, so a record that
  passes the field-by-field checks of `Signed` or `Committed` *is* the evidence for
  this bet, with a draw that a house makes (`SignedIsEvidence`, `CommittedIsEvidence`).
  With it `OnePaymentForABet` and `BetsEndByTheirTerms` are a case per kind.
* **`DiceGameProofs!EveryHouseKeepsItsBook`** is the refinement of `HouseBook`, also per kind:
  a bet of the house enters or leaves its book (`BookAccepts`, `BookEnds`; `PayoutAtOdds` is
  fairness again, and says that a winner's pick is above 1), one of another house is a
  stutter because the vaults of two houses are different addresses. `HouseBook` lets
  time pass only when nothing is pending, for which the invariant has `IdleIsCommitted`.
  `HouseAssumption` says only that `H` is a house, so the theorem is about each.

Every invariant, action property and refinement that a passing run checks is also a
theorem. What stays with TLC:

* `Terminates`: it is liveness under fairness, for which TLAPS has no rule here
  (`ENABLED` and well-founded induction with an operator parameter are outside it). What the
  proof gives towards it is `NewtonInv`: the estimates are naturals, and the loop
  goes on only while they fall.
* The four violations, which are statements about one behaviour each; TLC's trace is
  the proof.

## 5. Plan

1. Done: the quotes, one pool, the whole AMM and the whole dice game with
   transactions; `isqrt`; the AMM's account constraints; the abstract specifications
   `PoolTx` and `HouseBook` with both refinements; the proofs of section 4.
2. Proofs: what `PoolsAreAlone` gives for nothing, by stating the invariants of `CpmmPool`
   for `PoolTx`; the positive side of `OverdueBetIsRefundable` and `FeeInRange` (which pools
   and vaults are not affected), as `MintsPayFormulaUpToReserves` is of the mint.
3. Model: pools on another pool's LP in `Amm` (a wallet's token that is an LP balance),
   and lamports sent to a vault or a bet by anybody.
