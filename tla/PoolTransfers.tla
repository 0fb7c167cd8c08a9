--------------------------- MODULE PoolTransfers ---------------------------
(***************************************************************************)
(* The token transfers an instruction makes between a user and a pool's    *)
(* vaults to carry out a quote, in the order the program makes them.       *)
(*                                                                         *)
(* Funds are a wallet and the vaults, and a set of funds is a result as in *)
(* Cpmm: {} when a transfer failed, which fails the instruction.  The two  *)
(* tokens have separate accounts, so a transfer of X and the transfer of Y *)
(* next to it are one step with an amount of each; a zero is skipped.      *)
(***************************************************************************)
EXTENDS Cpmm

Funds(wallet, vault) == [wallet |-> wallet, vault |-> vault]

\* transfer_user_to_vault: the sender must own the amount, and the receiving
\* token account must be able to hold it.
Pay(funds, n) ==
  {Funds(Minus(f.wallet, n), Plus(f.vault, n)) :
     f \in {g \in funds : AtLeast(g.wallet, n) /\ Plus(g.vault, n) \in Pair}}

\* transfer_vault_to_user
Draw(funds, n) ==
  {Funds(Plus(f.wallet, n), Minus(f.vault, n)) :
     f \in {g \in funds : AtLeast(g.vault, n) /\ Plus(g.wallet, n) \in Pair}}

SwapTransfers(f, t, amount, out) ==
  Draw(Pay({f}, Just(t, amount)), Just(Other(t), out))

\* execute_deposit_transfers: the swap leg of a single-sided deposit is zero in
\* a balanced one.
DepositTransfers(f, q) ==
  Pay(Draw(Pay({f}, q.swapIn), q.swapOut), q.deposit)

\* Mutant: the unwanted token of a single-sided withdrawal is not paid back in.
WithdrawTransfers_NoSwapIn(f, q) ==
  Draw(Draw({f}, q.proRata), q.swapOut)

\* execute_withdraw_transfers: a balanced quote has proRata = withdraw and no
\* swap leg.
WithdrawTransfers(f, q) ==
  Draw(Pay(Draw({f}, q.proRata), q.swapIn), q.swapOut)
=============================================================================
