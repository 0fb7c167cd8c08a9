------------------------------- MODULE PoolTx -------------------------------
(***************************************************************************)
(* What the AMM promises of one pool: it is opened once, then takes the    *)
(* steps of CpmmPool, and every transaction keeps all of its steps or none.*)
(* Users, wallets, floors, other pools and the evidence of a burn are      *)
(* absent: whatever they do, a pool shows no other behaviour than these.   *)
(* Module AmmPools shows that Amm implements this for each of its pools.   *)
(***************************************************************************)
EXTENDS CpmmPool

VARIABLES open,    \* the pool's accounts exist
          saved    \* open and pool after the last committed transaction

txVars == <<pool, burned, open, saved>>

\* A pool without accounts: nothing can be done to it.
Unopened == [r |-> Nothing, l |-> 0, fee |-> 0, locked |-> TRUE, owned |-> FALSE]

TxInit ==
  /\ pool = Unopened /\ burned = 0
  /\ open = FALSE
  /\ saved = <<open, pool>>

\* initialize: CpmmPool starts here.
Open ==
  /\ ~open
  /\ open' = TRUE
  /\ Init'
  /\ UNCHANGED saved

\* An instruction on the pool, or (BurnElsewhere(0)) on something else.
Step == open /\ Next /\ UNCHANGED <<open, saved>>

Commit ==
  /\ saved' = <<open, pool>>
  /\ burned' = 0
  /\ UNCHANGED <<open, pool>>

Abort ==
  /\ <<open', pool'>> = saved
  /\ burned' = 0
  /\ UNCHANGED saved

TxNext == Commit \/ Abort \/ Open \/ Step

TxSpec == TxInit /\ [][TxNext]_txVars
=============================================================================
