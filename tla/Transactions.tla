---------------------------- MODULE Transactions ----------------------------
(***************************************************************************)
(* Transactions of the Solana runtime, as the two programs see them.       *)
(*                                                                         *)
(* A transaction is built one instruction at a time on a working copy of   *)
(* the ledger; Commit makes the copy the ledger, Abort (some instruction   *)
(* failed) drops it.  An instruction can look at the one before it in its  *)
(* transaction through the instructions sysvar: that is `prev`.  The       *)
(* sysvar lists the transaction's own instructions, so an instruction that *)
(* another program calls sees what its caller sees, and leaves it to the   *)
(* next call.                                                              *)
(***************************************************************************)
EXTENDS Naturals

CONSTANTS MaxIx,     \* bound on the instructions of a transaction
          Calls      \* whether other programs call the one modelled

ASSUME TransactionsAssumption == MaxIx \in Nat

VARIABLES ledger,    \* the accounts after the last committed transaction
          work,      \* the accounts as the open transaction has left them
          prev,      \* what the next instruction sees before it
          executed   \* how many instructions it has executed

\* prev of the first instruction; every other prev has a program too.
NoInstruction == [program |-> "none"]

StartsIdle == work = ledger /\ prev = NoInstruction /\ executed = 0

\* One more instruction of the open transaction does its work: `results` is what
\* the accounts may become, empty if the instruction fails.
Work(results) ==
  /\ executed < MaxIx
  /\ work' \in results
  /\ executed' = executed + 1
  /\ UNCHANGED ledger

\* The next instruction of the transaction itself.
ExecuteOwn(results, ix) == Work(results) /\ prev' = ix

\* One that an instruction of another program calls.  The caller, which is done
\* after its last call, is evidence of nothing and is not recorded: whatever would
\* still look for evidence after it is one more call.
ExecuteCalled(results) == Calls /\ Work(results) /\ UNCHANGED prev

Execute(results, ix) == ExecuteOwn(results, ix) \/ ExecuteCalled(results)

NewTransaction == prev' = NoInstruction /\ executed' = 0

Commit == executed > 0 /\ ledger' = work /\ NewTransaction /\ UNCHANGED work
Abort  == executed > 0 /\ work' = ledger /\ NewTransaction /\ UNCHANGED ledger
=============================================================================
