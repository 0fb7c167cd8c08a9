------------------------------ MODULE AmmPools ------------------------------
(***************************************************************************)
(* Amm implements PoolTx, for any one of its pools: the refinement mapping *)
(* forgets the users, the other pools and all of the previous instruction  *)
(* but the LP it burned in this pool.                                      *)
(***************************************************************************)
EXTENDS Amm

CONSTANT P           \* the pool looked at: any of them

ASSUME PoolAssumption == P \in Pools

\* An authority is somebody or nobody to the abstract pool.
Abstract(account) ==
  IF account.open
  THEN [r |-> account.r, l |-> account.l, fee |-> account.fee,
        locked |-> account.locked, owned |-> account.auth # Nobody]
  ELSE [r |-> Nothing, l |-> 0, fee |-> 0, locked |-> TRUE, owned |-> FALSE]

\* LP of P that the next instruction may withdraw for.
Burned ==
  IF prev.program = "amm" /\ prev.burn /\ prev.exact /\ prev.pool = P THEN prev.amount ELSE 0

Pool == INSTANCE PoolTx WITH
          pool   <- Abstract(work.pool[P]),
          burned <- Burned,
          open   <- work.pool[P].open,
          saved  <- <<ledger.pool[P].open, Abstract(ledger.pool[P])>>

\* A pool behaves as if it were alone: trade in other pools, rollbacks, and burns
\* that introspection must not count add nothing to what one pool can do, so all
\* that is shown of CpmmPool holds of every pool of the program.
PoolIsAlone == Pool!TxSpec
=============================================================================
