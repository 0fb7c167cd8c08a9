------------------------------ MODULE AmmProofs ------------------------------
(***************************************************************************)
(* What the AMM owes its users, in any transaction, with any number of     *)
(* users and pools and any amounts: introspection changes no outcome,      *)
(* nobody gets other terms than the ones asked for, settings bind, and     *)
(* nothing but a deposit costs the holders of LP.                          *)
(***************************************************************************)
EXTENDS AmmPoolsProofs

-----------------------------------------------------------------------------
(* Introspection                                                           *)

\* Before its first instruction a transaction works on the ledger, and if that
\* one is recorded as a burn_lp it did what a burn_lp does to the ledger.
FirstInstruction ==
  /\ executed = 0 => work = ledger /\ prev = NoInstruction
  /\ executed = 1 =>
       \A u \in Users, p \in Pools, n \in U64, exact \in BOOLEAN :
         prev = Burn("amm", u, p, n, exact) => work \in LpBurned(ledger, u, p, n)

\* Only burn_lp is recorded as one.
RecordsBurns(results, ix) ==
  \A u \in Users, p \in Pools, n \in U64, exact \in BOOLEAN :
    ix = Burn("amm", u, p, n, exact) => results = LpBurned(work, u, p, n)

LEMMA NoBurnRecorded ==
  ASSUME NEW results, NEW program
  PROVE  RecordsBurns(results, NotABurn(program))
  <1>1. NotABurn(program).burn = FALSE
    BY DEF NotABurn
  <1>2. \A u, p, n, exact : Burn("amm", u, p, n, exact).burn = TRUE
    BY DEF Burn
  <1> QED
    BY <1>1, <1>2 DEF RecordsBurns

LEMMA BurnRecorded ==
  ASSUME NEW u, NEW p, NEW n, NEW exact
  PROVE  /\ RecordsBurns(LpBurned(work, u, p, n), Burn("amm", u, p, n, exact))
         /\ RecordsBurns({work}, Burn("other", u, p, n, TRUE))
  <1> DEFINE ours   == Burn("amm", u, p, n, exact)
             theirs == Burn("other", u, p, n, TRUE)
  <1>1. /\ ours.user = u /\ ours.pool = p /\ ours.amount = n
        /\ theirs.program = "other"
    BY DEF Burn
  <1> HIDE DEF ours, theirs
  <1>3. ASSUME NEW v, NEW q, NEW m, NEW e, ours = Burn("amm", v, q, m, e)
        PROVE  u = v /\ p = q /\ n = m
    BY <1>1, <1>3, SMT DEF Burn
  <1>4. ASSUME NEW v, NEW q, NEW m, NEW e, theirs = Burn("amm", v, q, m, e)
        PROVE  FALSE
    BY <1>1, <1>4, SMT DEF Burn
  <1> QED
    BY <1>3, <1>4 DEF RecordsBurns, ours, theirs

\* Every step executes an instruction, ends the transaction, or does nothing.
LEMMA StepCases ==
  ASSUME Next
  PROVE  \/ Commit \/ Abort
         \/ \E results, ix : Execute(results, ix) /\ RecordsBurns(results, ix)
  <1> DEFINE Some == \E results, ix : Execute(results, ix) /\ RecordsBurns(results, ix)
  <1>1. ASSUME NEW p \in Pools, \E fee \in Fees, auth \in Authorities : InitializeIx(p, fee, auth)
        PROVE  Some
    BY <1>1, NoBurnRecorded DEF InitializeIx
  <1>2. ASSUME NEW p \in Pools, NEW u \in Users,
               \E fee \in Fees, auth \in Authorities, locked \in BOOLEAN :
                 UpdateConfigIx(u, p, fee, auth, locked)
        PROVE  Some
    BY <1>2, NoBurnRecorded DEF UpdateConfigIx
  <1>3. ASSUME NEW p \in Pools, NEW u \in Users,
               \E n \in Amounts, side \in Side, min \in Floors : SwapIx(u, p, n, side, min)
        PROVE  Some
    BY <1>3, NoBurnRecorded DEF SwapIx
  <1>4. ASSUME NEW p \in Pools, NEW u \in Users,
               \E offer \in Offers(Amounts), side \in Side, min \in Floors :
                 DepositIx(u, p, offer, side, min)
        PROVE  Some
    BY <1>4, NoBurnRecorded DEF DepositIx
  <1>5. ASSUME NEW p \in Pools, NEW u \in Users,
               \E n \in Amounts, side \in Side, floor \in [Token -> Floors] :
                 \/ WithdrawIx(u, p, n, side, floor)
                 \/ WithdrawWIx(u, p, n, side, floor)
        PROVE  Some
    BY <1>5, NoBurnRecorded DEF WithdrawIx, WithdrawWIx
  <1>6. ASSUME NEW p \in Pools, NEW u \in Users,
               \E n \in Amounts, exact \in BOOLEAN : BurnLpIx(u, p, n, exact)
        PROVE  Some
    BY <1>6, BurnRecorded DEF BurnLpIx
  <1>7. ASSUME NEW p \in Pools, NEW u \in Users,
               \E n \in Amounts, t \in Token : Donate(u, p, t, n)
        PROVE  Some
    BY <1>7, NoBurnRecorded DEF Donate
  <1>8. ASSUME NEW p \in Pools, NEW u \in Users,
                \E n \in Amounts : TokenBurn(u, p, n) \/ LookAlike(u, p, n)
         PROVE  Some
    BY <1>8, NoBurnRecorded, BurnRecorded DEF TokenBurn, LookAlike
  <1> HIDE DEF Some
  <1>9. Commit \/ Abort \/ Some
    BY <1>1, <1>2, <1>3, <1>4, <1>5, <1>6, <1>7, <1>8 DEF Next
  <1> QED
    BY <1>9 DEF Some

LEMMA FirstInstructionInductive ==
  /\ Init => FirstInstruction
  /\ Inv /\ FirstInstruction /\ [Next]_vars => FirstInstruction'
<1>1. Init => FirstInstruction
  BY DEF Init, StartsIdle, FirstInstruction
<1>2. ASSUME Inv, FirstInstruction, [Next]_vars
      PROVE  FirstInstruction'
  <2>1. CASE UNCHANGED vars
    BY <1>2, <2>1 DEF FirstInstruction, vars
  <2>2. CASE Commit \/ Abort
    BY <2>2 DEF Commit, Abort, NewTransaction, FirstInstruction
  <2>3. ASSUME NEW results, NEW ix, Execute(results, ix), RecordsBurns(results, ix)
        PROVE  FirstInstruction'
    <3>1. /\ work' \in results /\ executed' = executed + 1 /\ ledger' = ledger
          /\ prev' = ix \/ prev' = prev
      BY <2>3, Executes
    <3>a. executed \in Nat
      BY <1>2, TransactionsAssumption, SMT DEF Inv
    <3>2. executed' # 0 /\ (executed' = 1 => executed = 0)
      BY <3>1, <3>a, SMT
    <3>3. ASSUME executed' = 1, NEW u \in Users, NEW p \in Pools, NEW n \in U64,
                 NEW exact \in BOOLEAN, ix = Burn("amm", u, p, n, exact)
          PROVE  work' \in LpBurned(ledger, u, p, n)
      <4>1. work = ledger
        BY <1>2, <3>2, <3>3 DEF FirstInstruction
      <4>2. results = LpBurned(work, u, p, n)
        BY <2>3, <3>3 DEF RecordsBurns
      <4> QED
        BY <3>1, <4>1, <4>2
    <3>4. ASSUME executed' = 1, NEW u \in Users, NEW p \in Pools, NEW n \in U64,
                 NEW exact \in BOOLEAN, prev = Burn("amm", u, p, n, exact)
          PROVE  FALSE
      <4>1. prev = NoInstruction
        BY <1>2, <3>2, <3>4 DEF FirstInstruction
      <4>2. Burn("amm", u, p, n, exact).program = "amm" /\ NoInstruction.program = "none"
        BY DEF Burn, NoInstruction
      <4> QED
        BY <3>4, <4>1, <4>2
    <3> QED
      BY <3>1, <3>2, <3>3, <3>4 DEF FirstInstruction
  <2> QED
    BY <1>2, <2>1, <2>2, <2>3, StepCases
<1> QED
  BY <1>1, <1>2

\* Of two changes to the same pool and user, the second decides what the vaults
\* and the wallet hold.
LEMMA ChangedAgain ==
  ASSUME NEW s, Sound(s), NEW u \in Users, NEW p \in Pools,
         NEW r, NEW d \in Int, NEW w, NEW q, NEW e \in Int, NEW v
  PROVE  Changed(Changed(s, u, p, r, d, w), u, p, q, e, v) = Changed(s, u, p, q, d + e, v)
  <1> DEFINE t == Changed(s, u, p, r, d, w)
             a == s.pool[p]
  <1>1. /\ s.pool \in [Pools -> PoolAccounts] /\ s.wallet \in [Users -> Pair]
        /\ s.lp \in [Users -> [Pools -> U64]]
        /\ a \in PoolAccounts /\ a.l \in Nat /\ s.lp[u][p] \in Nat
    BY SoundFacts
  <1>2. /\ t.pool = [s.pool EXCEPT ![p] = Traded(a, r, a.l + d)]
        /\ t.wallet = [s.wallet EXCEPT ![u] = w]
        /\ t.lp = [s.lp EXCEPT ![u] = [s.lp[u] EXCEPT ![p] = s.lp[u][p] + d]]
    BY DEF Changed, Traded
  <1> HIDE DEF t, a
  <1>3. /\ t.pool[p] = Traded(a, r, a.l + d) /\ t.pool[p].l = a.l + d
        /\ t.lp[u][p] = s.lp[u][p] + d
    BY <1>1, <1>2 DEF Traded, PoolAccounts
  <1>4. /\ t.pool[p].l + e = a.l + (d + e)
        /\ t.lp[u][p] + e = s.lp[u][p] + (d + e)
    BY <1>1, <1>3, SMT
  <1>5. Traded(t.pool[p], q, a.l + (d + e)) = Traded(a, q, a.l + (d + e))
    <2> DEFINE l == a.l + (d + e)
               m == a.l + d
    <2> HIDE DEF l, m
    <2>1. Traded(Traded(a, r, m), q, l) = Traded(a, q, l)
      BY <1>1 DEF Traded, PoolAccounts
    <2> QED
      BY <1>3, <2>1 DEF l, m
  <1>6. [t.pool EXCEPT ![p] = Traded(t.pool[p], q, t.pool[p].l + e)]
          = [s.pool EXCEPT ![p] = Traded(a, q, a.l + (d + e))]
    BY <1>1, <1>2, <1>4, <1>5
  <1>7. [t.wallet EXCEPT ![u] = v] = [s.wallet EXCEPT ![u] = v]
    BY <1>1, <1>2
  <1>8. [t.lp EXCEPT ![u] = [t.lp[u] EXCEPT ![p] = t.lp[u][p] + e]]
          = [s.lp EXCEPT ![u] = [s.lp[u] EXCEPT ![p] = s.lp[u][p] + (d + e)]]
    <2>1. [t.lp[u] EXCEPT ![p] = t.lp[u][p] + e] = [s.lp[u] EXCEPT ![p] = s.lp[u][p] + (d + e)]
      BY <1>1, <1>2, <1>4
    <2> QED
      BY <1>1, <1>2, <2>1
  <1> QED
    BY <1>6, <1>7, <1>8 DEF Changed, Traded, t, a

\* Paying first and burning then, and burning first and paying then, come to the
\* same.
LEMMA BurnAndSettle ==
  ASSUME NEW s, Sound(s), NEW u \in Users, NEW p \in Pools, NEW n \in U64,
         NEW t \in BurnTokens(s, u, p, n), NEW f
  PROVE  BurnTokens(Settle(s, u, p, f), u, p, n) = {Settle(t, u, p, f)}
  <1> DEFINE d == -n
             paid == Settle(s, u, p, f)
  <1>1. /\ s.pool \in [Pools -> PoolAccounts] /\ s.pool[p] \in PoolAccounts
        /\ s.lp \in [Users -> [Pools -> U64]]
        /\ s.pool[p].l \in Nat /\ s.lp[u][p] \in Nat
    BY SoundFacts
  <1>2. n <= s.lp[u][p] /\ t = Issued(s, u, p, s.pool[p].l - n, s.lp[u][p] - n)
    BY DEF BurnTokens, Issued
  <1>3. d \in Int /\ s.pool[p].l - n = s.pool[p].l + d /\ s.lp[u][p] - n = s.lp[u][p] + d /\ d + 0 = d
    BY <1>1, CpmmAssumption, SMT DEF U64
  <1>4. paid = Changed(s, u, p, f.vault, 0, f.wallet)
    BY SettleChanged
  <1>5. paid.pool[p].l = s.pool[p].l /\ paid.lp[u][p] = s.lp[u][p]
    <2>1. paid.pool[p].l = s.pool[p].l + 0 /\ paid.lp[u][p] = s.lp[u][p] + 0
      BY <1>1, <1>4 DEF Changed, PoolAccounts
    <2> QED
      BY <1>1, <2>1, SMT
  <1> HIDE DEF d, paid
  <1>6. BurnTokens(paid, u, p, n) = {Issued(paid, u, p, s.pool[p].l - n, s.lp[u][p] - n)}
    BY <1>2, <1>5 DEF BurnTokens, Issued
  <1>7. Issued(paid, u, p, s.pool[p].l + d, s.lp[u][p] + d) = Changed(s, u, p, f.vault, d, f.wallet)
    BY <1>3, <1>4, IssuedChanged
  <1>8. t = Changed(s, u, p, s.pool[p].r, d, s.wallet[u])
    BY <1>2, <1>3, IssuedChanged
  <1>9. Sound(t)
    BY BurnResult DEF Became
  <1>10. Settle(t, u, p, f) = Changed(t, u, p, f.vault, 0, f.wallet)
    BY <1>9, SettleChanged
  <1>11. Changed(t, u, p, f.vault, 0, f.wallet) = Changed(s, u, p, f.vault, d, f.wallet)
    <2>1. Changed(Changed(s, u, p, s.pool[p].r, d, s.wallet[u]), u, p, f.vault, 0, f.wallet)
            = Changed(s, u, p, f.vault, d + 0, f.wallet)
      BY <1>3, ChangedAgain
    <2> QED
      BY <1>3, <1>8, <2>1
  <1> QED
    BY <1>3, <1>6, <1>7, <1>10, <1>11 DEF paid

\* A confirmed burn and the withdrawal after it are a plain withdrawal.
LEMMA BurnThenWithdraw ==
  ASSUME NEW s, Sound(s), NEW u \in Users, NEW p \in Pools, NEW n \in U64,
         NEW t \in LpBurned(s, u, p, n), NEW ix, ConfirmBurn(ix, u, p, n),
         NEW side \in Side, NEW floor
  PROVE  WithdrawnAfterBurn(t, ix, u, p, n, side, floor) = Withdrawn(s, u, p, n, side, floor)
  <1> DEFINE l == s.pool[p].l
             d == -n
  <1>1. Usable(s, p) /\ t \in BurnTokens(s, u, p, n)
    BY DEF LpBurned
  <1>2. /\ s.pool \in [Pools -> PoolAccounts] /\ s.pool[p] \in PoolAccounts
        /\ s.wallet \in [Users -> Pair] /\ l \in Nat /\ l \in U64 /\ s.lp[u][p] \in Nat
    BY SoundFacts
  <1>3. /\ t.pool[p] = Traded(s.pool[p], s.pool[p].r, l + d)
        /\ t.wallet[u] = s.wallet[u]
    <2>1. t = Issued(s, u, p, s.pool[p].l - n, s.lp[u][p] - n)
      BY <1>1 DEF BurnTokens, Issued
    <2>2. d \in Int /\ l - n = l + d /\ s.lp[u][p] - n = s.lp[u][p] + d
      BY <1>2, CpmmAssumption, SMT DEF U64
    <2> HIDE DEF d
    <2>3. t = Changed(s, u, p, s.pool[p].r, d, s.wallet[u])
      BY <2>1, <2>2, IssuedChanged
    <2> QED
      BY <1>2, <2>3 DEF Changed, Traded
  <1>4. /\ t.pool[p].open = s.pool[p].open /\ t.pool[p].locked = s.pool[p].locked
        /\ t.pool[p].fee = s.pool[p].fee /\ t.pool[p].r = s.pool[p].r
        /\ t.pool[p].l = l + d
    <2> HIDE DEF l, d
    <2> QED
      BY <1>2, <1>3 DEF Traded, PoolAccounts
  <1>5. t.pool[p].l + n = l /\ l <= U64Max
    BY <1>2, <1>4, CpmmAssumption, SMT DEF U64
  <1>6. Usable(t, p) /\ FundsOf(t, u, p) = FundsOf(s, u, p)
    BY <1>1, <1>3, <1>4 DEF Usable, FundsOf
  <1>7. WithdrawnAfterBurn(t, ix, u, p, n, side, floor) = PaidOut(t, u, p, l, n, side, floor)
    BY <1>5, <1>6 DEF WithdrawnAfterBurn
  <1>8. Withdrawn(s, u, p, n, side, floor)
          = UNION {BurnTokens(paid, u, p, n) : paid \in PaidOut(s, u, p, l, n, side, floor)}
    BY <1>1 DEF Withdrawn
  <1> HIDE DEF l, d
  <1> DEFINE Q == Withdraw(New(s.pool[p].r, l, s.pool[p].fee), n, side, floor)
             F(q) == WithdrawTransfers(FundsOf(s, u, p), q)
  <1>9. /\ PaidOut(t, u, p, l, n, side, floor) = UNION {{Settle(t, u, p, f) : f \in F(q)} : q \in Q}
        /\ PaidOut(s, u, p, l, n, side, floor) = UNION {{Settle(s, u, p, f) : f \in F(q)} : q \in Q}
    BY <1>4, <1>6 DEF PaidOut
  <1> HIDE DEF Q, F
  <1>10. \A f : BurnTokens(Settle(s, u, p, f), u, p, n) = {Settle(t, u, p, f)}
    BY <1>1, BurnAndSettle
  <1> QED
    BY <1>7, <1>8, <1>9, <1>10

\* A burn that confirm_burn accepts is a burn_lp with nothing appended.
LEMMA ConfirmedBurn ==
  ASSUME NEW ix \in Instruction, NEW u, NEW p, NEW n, ConfirmBurn(ix, u, p, n)
  PROVE  ix = Burn("amm", u, p, n, TRUE)
  <1>1. ix \in [program : {"amm", "other"}, burn : BOOLEAN, user : Users \cup {Nobody},
                pool : Pools \cup {Nobody}, amount : U64, exact : BOOLEAN]
    BY DEF ConfirmBurn, Instruction, NoInstruction
  <1>2. ix = [program |-> ix.program, burn |-> ix.burn, user |-> ix.user,
              pool |-> ix.pool, amount |-> ix.amount, exact |-> ix.exact]
    BY <1>1
  <1>3. ix.burn = TRUE /\ ix.exact = TRUE
    BY <1>1 DEF ConfirmBurn
  <1> QED
    BY <1>2, <1>3 DEF ConfirmBurn, Burn

LEMMA BurnConfirmed ==
  ASSUME NEW ix, NEW u, NEW p, NEW n, ix = Burn("amm", u, p, n, TRUE)
  PROVE  ConfirmBurn(ix, u, p, n)
  BY DEF ConfirmBurn, Burn

\* With its burn before it, withdraw_w_introspection pays and leaves exactly what
\* a plain withdraw would have; with anything else before it, it is refused.
THEOREM IntrospectionChangesNothing == Spec => []BurnThenWithdrawIsWithdraw
<1>1. Spec => []FirstInstruction
  BY AccountsStaySound, FirstInstructionInductive, PTL DEF Spec
<1>2. ASSUME Inv, FirstInstruction
      PROVE  BurnThenWithdrawIsWithdraw
  <2> SUFFICES ASSUME executed = 1, NEW u \in Users, NEW p \in Pools, NEW n \in Amounts,
                      NEW side \in Side, NEW floor \in [Token -> Floors]
               PROVE  WithdrawnAfterBurn(work, prev, u, p, n, side, floor)
                        = IF prev = Burn("amm", u, p, n, TRUE)
                          THEN Withdrawn(ledger, u, p, n, side, floor)
                          ELSE {}
    BY DEF BurnThenWithdrawIsWithdraw
  <2>1. n \in U64 /\ Sound(ledger) /\ prev \in Instruction
    BY <1>2, AmmAssumption DEF Inv
  <2>2. CASE prev = Burn("amm", u, p, n, TRUE)
    <3>1. work \in LpBurned(ledger, u, p, n)
      <4>1. TRUE \in BOOLEAN
        OBVIOUS
      <4> QED
        BY <1>2, <2>1, <2>2, <4>1, Zenon DEF FirstInstruction
    <3>2. ConfirmBurn(prev, u, p, n)
      BY <2>2, BurnConfirmed, Zenon
    <3>3. WithdrawnAfterBurn(work, prev, u, p, n, side, floor) = Withdrawn(ledger, u, p, n, side, floor)
      BY <2>1, <3>1, <3>2, BurnThenWithdraw
    <3> QED
      BY <2>2, <3>3, Zenon
  <2>3. CASE prev # Burn("amm", u, p, n, TRUE)
    <3>1. ~ConfirmBurn(prev, u, p, n)
      BY <2>1, <2>3, ConfirmedBurn
    <3> QED
      BY <2>3, <3>1 DEF WithdrawnAfterBurn
  <2> QED
    BY <2>2, <2>3
<1> QED
  BY <1>1, <1>2, AccountsStaySound, PTL

-----------------------------------------------------------------------------
(* Settings                                                                *)

\* The instruction is recorded, and as a burn of LP.
Records == prev' # prev /\ prev'.program = "amm" /\ prev'.burn

Counted == executed' = executed + 1 /\ UNCHANGED ledger

LEMMA Recorded ==
  ASSUME NEW results, NEW ix, Execute(results, ix)
  PROVE  work' \in results /\ Counted /\ (Records => prev' = ix)
  BY Executes DEF Counted, Records

LEMMA NothingRecorded ==
  ASSUME NEW results, NEW program \in {"amm", "other"}, Execute(results, NotABurn(program))
  PROVE  work' \in results /\ Counted /\ ~Records
  <1>1. work' \in results /\ Counted /\ (Records => prev' = NotABurn(program))
    BY Recorded
  <1>2. ~NotABurn(program).burn
    BY RecordFacts
  <1> QED
    BY <1>1, <1>2 DEF Records

\* An instruction trades in a pool that is not locked, or comes from outside
\* the program, or sets the Config of a pool that is new or has an authority.
Inside(p) ==
  /\ Usable(work, p)
  /\ \E u \in Users : \E r, d : Became(work, work', u, p, r, d)
  /\ Records => prev'.pool = p

Outside(p) ==
  /\ SameElsewhere(work, work', p)
  /\ AtLeast(work'.pool[p].r, work.pool[p].r)
  /\ work'.pool[p].l <= work.pool[p].l
  /\ work'.pool[p].open = work.pool[p].open
  /\ ConfigOf(work', p) = ConfigOf(work, p)
  /\ ~Records

Setting(p) ==
  /\ ~work.pool[p].open \/ work.pool[p].auth \in Users
  /\ SameElsewhere(work, work', p)
  /\ work'.pool[p].r = work.pool[p].r
  /\ work'.pool[p].l = work.pool[p].l
  /\ ~Records

LEMMA InsideSteps ==
  ASSUME Inv, NEW u \in Users, NEW p \in Pools,
         \/ \E n \in Amounts, side \in Side, min \in Floors : SwapIx(u, p, n, side, min)
         \/ \E offer \in Offers(Amounts), side \in Side, min \in Floors :
              DepositIx(u, p, offer, side, min)
         \/ \E n \in Amounts, side \in Side, floor \in [Token -> Floors] :
              \/ WithdrawIx(u, p, n, side, floor)
              \/ WithdrawWIx(u, p, n, side, floor)
         \/ \E n \in Amounts, exact \in BOOLEAN : BurnLpIx(u, p, n, exact)
  PROVE  Counted /\ Inside(p)
  <1>0. Sound(work) /\ Amounts \subseteq U64
    BY AmmAssumption DEF Inv
  <1>1. ASSUME NEW n \in Amounts, NEW side \in Side, NEW min \in Floors, SwapIx(u, p, n, side, min)
        PROVE  Counted /\ Inside(p)
    <2>1. /\ work' \in Swapped(work, u, p, n, side, min) /\ n \in U64
          /\ Counted /\ ~Records
      BY <1>0, <1>1, NothingRecorded DEF SwapIx
    <2>2. Usable(work, p) /\ \E r, d : Became(work, work', u, p, r, d)
      BY <1>0, <2>1, SwapResult
    <2> QED
      BY <2>1, <2>2 DEF Inside
  <1>2. ASSUME NEW offer \in Offers(Amounts), NEW side \in Side, NEW min \in Floors,
               DepositIx(u, p, offer, side, min)
        PROVE  Counted /\ Inside(p)
    <2>1. /\ work' \in Deposited(work, u, p, offer, side, min) /\ offer \in Offers(U64)
          /\ Counted /\ ~Records
      BY <1>0, <1>2, NothingRecorded DEF DepositIx, Offers
    <2>2. Usable(work, p) /\ \E r, d : Became(work, work', u, p, r, d)
      BY <1>0, <2>1, DepositResult
    <2> QED
      BY <2>1, <2>2 DEF Inside
  <1>3. ASSUME NEW n \in Amounts, NEW side \in Side, NEW floor \in [Token -> Floors],
               WithdrawIx(u, p, n, side, floor)
        PROVE  Counted /\ Inside(p)
    <2>1. /\ work' \in Withdrawn(work, u, p, n, side, floor) /\ n \in U64
          /\ Counted /\ ~Records
      BY <1>0, <1>3, NothingRecorded DEF WithdrawIx
    <2>2. Usable(work, p) /\ \E r, d : Became(work, work', u, p, r, d)
      BY <1>0, <2>1, WithdrawResult
    <2> QED
      BY <2>1, <2>2 DEF Inside
  <1>4. ASSUME NEW n \in Amounts, NEW side \in Side, NEW floor \in [Token -> Floors],
               WithdrawWIx(u, p, n, side, floor)
        PROVE  Counted /\ Inside(p)
    <2>1. /\ work' \in WithdrawnAfterBurn(work, prev, u, p, n, side, floor) /\ n \in U64
          /\ Counted /\ ~Records
      BY <1>0, <1>4, NothingRecorded DEF WithdrawWIx
    <2>2. Usable(work, p) /\ \E r, d : Became(work, work', u, p, r, d)
      BY <1>0, <2>1, WithdrawAfterBurnResult
    <2> QED
      BY <2>1, <2>2 DEF Inside
  <1>5. ASSUME NEW n \in Amounts, NEW exact \in BOOLEAN, BurnLpIx(u, p, n, exact)
        PROVE  Counted /\ Inside(p)
    <2>1. /\ work' \in LpBurned(work, u, p, n) /\ n \in U64
          /\ Counted /\ (Records => prev' = Burn("amm", u, p, n, exact))
      BY <1>0, <1>5, Recorded DEF BurnLpIx
    <2>2. Usable(work, p) /\ work' \in BurnTokens(work, u, p, n)
      BY <2>1 DEF LpBurned
    <2>3. \E r, d : Became(work, work', u, p, r, d)
      BY <1>0, <2>1, <2>2, BurnResult
    <2>4. Records => prev'.pool = p
      BY <2>1, RecordFacts
    <2> QED
      BY <2>1, <2>2, <2>3, <2>4 DEF Inside
  <1> QED
    BY <1>1, <1>2, <1>3, <1>4, <1>5

\* A change to what the vaults hold and to the supply leaves the Config alone.
LEMMA BecameConfig ==
  ASSUME NEW s, Sound(s), NEW u \in Users, NEW p \in Pools, NEW r, NEW d, NEW n,
         Became(s, n, u, p, r, d)
  PROVE  /\ n.pool[p].r = r /\ n.pool[p].l = s.pool[p].l + d
         /\ n.pool[p].open = s.pool[p].open
         /\ ConfigOf(n, p) = ConfigOf(s, p)
         /\ SameElsewhere(s, n, p)
  <1>1. s.pool[p] \in PoolAccounts
    BY SoundFacts
  <1>2. /\ n.pool[p] = Traded(s.pool[p], r, s.pool[p].l + d)
        /\ n.pool[p].open = s.pool[p].open /\ SameElsewhere(s, n, p)
    BY BecameFacts
  <1> DEFINE l == s.pool[p].l + d
  <1> HIDE DEF l
  <1>3. /\ Traded(s.pool[p], r, l).r = r /\ Traded(s.pool[p], r, l).l = l
        /\ Traded(s.pool[p], r, l).fee = s.pool[p].fee
        /\ Traded(s.pool[p], r, l).locked = s.pool[p].locked
        /\ Traded(s.pool[p], r, l).auth = s.pool[p].auth
    BY <1>1 DEF Traded, PoolAccounts
  <1> QED
    BY <1>2, <1>3 DEF ConfigOf, l

LEMMA OutsideSteps ==
  ASSUME Inv, NEW u \in Users, NEW p \in Pools, NEW n \in Amounts,
         (\E t \in Token : Donate(u, p, t, n)) \/ TokenBurn(u, p, n) \/ LookAlike(u, p, n)
  PROVE  Counted /\ Outside(p)
  <1>0. /\ Sound(work) /\ n \in U64
        /\ work.pool[p].r \in Pair /\ work.pool[p].l \in Nat
    BY AmmAssumption, SoundFacts DEF Inv
  <1>1. ASSUME NEW t \in Token, Donate(u, p, t, n)
        PROVE  Counted /\ Outside(p)
    <2> DEFINE given == {Settle(work, u, p, f) : f \in Pay({FundsOf(work, u, p)}, Just(t, n))}
    <2>0. Execute(IF work.pool[p].open THEN given ELSE {}, NotABurn("other"))
      BY <1>1 DEF Donate
    <2> HIDE DEF given
    <2>a. Counted /\ ~Records /\ work' \in IF work.pool[p].open THEN given ELSE {}
      BY <2>0, NothingRecorded
    <2>1. /\ Counted /\ ~Records /\ work.pool[p].open
          /\ work' \in {Settle(work, u, p, f) : f \in Pay({FundsOf(work, u, p)}, Just(t, n))}
      BY <2>a DEF given
    <2>2. PICK f \in Pay({FundsOf(work, u, p)}, Just(t, n)) : work' = Settle(work, u, p, f)
      BY <2>1
    <2> DEFINE r == Plus(work.pool[p].r, Just(t, n))
    <2>3. Became(work, work', u, p, r, 0)
      BY <1>0, <2>1, <2>2, DonateResult
    <2>4. AtLeast(r, work.pool[p].r)
      <3>1. ASSUME NEW v \in Token
            PROVE  r[v] >= work.pool[p].r[v]
        <4>1. r[v] = work.pool[p].r[v] + Just(t, n)[v]
          BY Zenon DEF Plus
        <4>2. work.pool[p].r[v] \in Nat /\ Just(t, n)[v] \in Nat
          BY <1>0, PairFacts
        <4> QED
          BY <4>1, <4>2, SMT
      <3> QED
        BY <3>1 DEF AtLeast
    <2> HIDE DEF r
    <2>5. /\ work'.pool[p].r = r /\ work'.pool[p].l = work.pool[p].l + 0
          /\ work'.pool[p].open = work.pool[p].open
          /\ ConfigOf(work', p) = ConfigOf(work, p)
          /\ SameElsewhere(work, work', p)
      BY <1>0, <2>3, BecameConfig
    <2>6. work'.pool[p].l <= work.pool[p].l
      BY <1>0, <2>5, SMT
    <2> QED
      BY <2>1, <2>4, <2>5, <2>6 DEF Outside
  <1>2. CASE TokenBurn(u, p, n)
    <2>1. /\ Counted /\ ~Records
          /\ work' \in BurnTokens(work, u, p, n)
      BY <1>2, NothingRecorded DEF TokenBurn
    <2> DEFINE d == -n
    <2>2. Became(work, work', u, p, work.pool[p].r, d)
      BY <1>0, <2>1, BurnResult
    <2>3. d \in Int /\ d <= 0
      BY <1>0, CpmmAssumption, SMT DEF U64
    <2> HIDE DEF d
    <2>4. /\ work'.pool[p].r = work.pool[p].r /\ work'.pool[p].l = work.pool[p].l + d
          /\ work'.pool[p].open = work.pool[p].open
          /\ ConfigOf(work', p) = ConfigOf(work, p)
          /\ SameElsewhere(work, work', p)
      BY <1>0, <2>2, BecameConfig
    <2>5. work'.pool[p].l <= work.pool[p].l
      BY <1>0, <2>3, <2>4, SMT
    <2>6. AtLeast(work.pool[p].r, work.pool[p].r)
      BY <1>0, PairFacts, SMT DEF AtLeast
    <2> QED
      BY <2>1, <2>4, <2>5, <2>6 DEF Outside
  <1>3. CASE LookAlike(u, p, n)
    <2> DEFINE ix == Burn("other", u, p, n, TRUE)
    <2>1. ix.program = "other"
      BY DEF Burn
    <2>2. Execute({work}, ix)
      BY <1>3 DEF LookAlike
    <2> HIDE DEF ix
    <2>3. Counted /\ work' = work /\ ~Records
      <3>1. Counted /\ work' \in {work} /\ (Records => prev' = ix)
        BY <2>2, Recorded
      <3> QED
        BY <2>1, <3>1 DEF Records
    <2>4. AtLeast(work.pool[p].r, work.pool[p].r) /\ work.pool[p].l <= work.pool[p].l
      BY <1>0, PairFacts, SMT DEF AtLeast
    <2> QED
      BY <2>1, <2>3, <2>4 DEF Outside, SameElsewhere, ConfigOf
  <1> QED
    BY <1>1, <1>2, <1>3

LEMMA SettingSteps ==
  ASSUME Inv, NEW p \in Pools, NEW fee \in Fees, NEW auth \in Authorities,
         \/ InitializeIx(p, fee, auth)
         \/ \E u \in Users, locked \in BOOLEAN : UpdateConfigIx(u, p, fee, auth, locked)
  PROVE  Counted /\ Setting(p)
  <1>0. work.pool \in [Pools -> PoolAccounts] /\ work.pool[p] \in PoolAccounts
    BY DEF Inv, Sound, Accounts
  <1> DEFINE c == work.pool[p]
  <1>1. CASE InitializeIx(p, fee, auth)
    <2> DEFINE a == [c EXCEPT !.open = TRUE, !.fee = fee, !.locked = FALSE, !.auth = auth]
    <2>1. Execute(Initialized(work, p, fee, auth), NotABurn("amm"))
      BY <1>1 DEF InitializeIx
    <2>2. /\ Counted /\ ~Records
          /\ ~c.open /\ work' = [work EXCEPT !.pool[p] = a]
      BY <2>1, NothingRecorded DEF Initialized
    <2> HIDE DEF c
    <2>3. a.r = c.r /\ a.l = c.l
      BY <1>0 DEF c, PoolAccounts
    <2> HIDE DEF a
    <2>4. work'.pool = [work.pool EXCEPT ![p] = a]
      BY <2>2, SoundFacts DEF Inv, Sound, Accounts
    <2> QED
      BY <1>0, <2>2, <2>3, <2>4 DEF Setting, SameElsewhere, c
  <1>2. ASSUME NEW u \in Users, NEW locked \in BOOLEAN, UpdateConfigIx(u, p, fee, auth, locked)
        PROVE  Counted /\ Setting(p)
    <2> DEFINE a == [c EXCEPT !.fee = fee, !.auth = auth, !.locked = locked]
    <2>1. Execute(Updated(work, u, p, fee, auth, locked), NotABurn("amm"))
      BY <1>2 DEF UpdateConfigIx
    <2>2. /\ Counted /\ ~Records
          /\ c.auth = u /\ work' = [work EXCEPT !.pool[p] = a]
      BY <2>1, NothingRecorded DEF Updated
    <2> HIDE DEF c
    <2>3. a.r = c.r /\ a.l = c.l
      BY <1>0 DEF c, PoolAccounts
    <2> HIDE DEF a
    <2>4. work'.pool = [work.pool EXCEPT ![p] = a]
      BY <2>2, SoundFacts DEF Inv, Sound, Accounts
    <2> QED
      BY <1>0, <2>2, <2>3, <2>4 DEF Setting, SameElsewhere, c
  <1> QED
    BY <1>1, <1>2

\* So much for every step.
LEMMA StepKinds ==
  ASSUME Inv, Next
  PROVE  \/ Commit \/ Abort
         \/ Counted /\ \E p \in Pools : Inside(p) \/ Outside(p) \/ Setting(p)
  <1> DEFINE Kind == Counted /\ \E p \in Pools : Inside(p) \/ Outside(p) \/ Setting(p)
  <1>1. ASSUME NEW p \in Pools, \E fee \in Fees, auth \in Authorities : InitializeIx(p, fee, auth)
        PROVE  Kind
    BY <1>1, SettingSteps
  <1>2. ASSUME NEW p \in Pools, NEW u \in Users,
               \E fee \in Fees, auth \in Authorities, locked \in BOOLEAN :
                 UpdateConfigIx(u, p, fee, auth, locked)
        PROVE  Kind
    BY <1>2, SettingSteps
  <1>3. ASSUME NEW p \in Pools, NEW u \in Users,
               \/ \E n \in Amounts, side \in Side, min \in Floors : SwapIx(u, p, n, side, min)
               \/ \E offer \in Offers(Amounts), side \in Side, min \in Floors :
                    DepositIx(u, p, offer, side, min)
               \/ \E n \in Amounts, side \in Side, floor \in [Token -> Floors] :
                    \/ WithdrawIx(u, p, n, side, floor)
                    \/ WithdrawWIx(u, p, n, side, floor)
               \/ \E n \in Amounts, exact \in BOOLEAN : BurnLpIx(u, p, n, exact)
        PROVE  Kind
    BY <1>3, InsideSteps
  <1>4. ASSUME NEW p \in Pools, NEW u \in Users,
               \/ \E n \in Amounts, t \in Token : Donate(u, p, t, n)
               \/ \E n \in Amounts : TokenBurn(u, p, n) \/ LookAlike(u, p, n)
        PROVE  Kind
    BY <1>4, OutsideSteps
  <1> HIDE DEF Kind
  <1>5. Commit \/ Abort \/ Kind
    BY <1>1, <1>2, <1>3, <1>4 DEF Next
  <1> QED
    BY <1>5 DEF Kind

\* What a transaction has done so far to a pool that nobody owns.
RenouncedInTransaction ==
  \A p \in Pools :
    ledger.pool[p].open /\ ledger.pool[p].auth = Nobody =>
      work.pool[p].open /\ ConfigOf(work, p) = ConfigOf(ledger, p)

LEMMA RenouncedInductive ==
  /\ Init => RenouncedInTransaction
  /\ Inv /\ RenouncedInTransaction /\ [Next]_vars => RenouncedInTransaction'
<1>1. Init => RenouncedInTransaction
  BY DEF Init, StartsIdle, RenouncedInTransaction, ConfigOf
<1>2. ASSUME Inv, RenouncedInTransaction, [Next]_vars
      PROVE  RenouncedInTransaction'
  <2>1. CASE UNCHANGED vars
    BY <1>2, <2>1 DEF RenouncedInTransaction, ConfigOf, vars
  <2>2. CASE Commit
    BY <2>2 DEF Commit, RenouncedInTransaction, ConfigOf
  <2>3. CASE Abort
    BY <2>3 DEF Abort, RenouncedInTransaction, ConfigOf
  <2>4. ASSUME Counted, NEW p \in Pools, Inside(p) \/ Outside(p) \/ Setting(p)
        PROVE  RenouncedInTransaction'
    <3> SUFFICES ASSUME NEW q \in Pools, ledger.pool[q].open, ledger.pool[q].auth = Nobody
                 PROVE  work'.pool[q].open /\ ConfigOf(work', q) = ConfigOf(ledger, q)
      BY <2>4 DEF Counted, RenouncedInTransaction, ConfigOf
    <3>1. /\ work.pool[q].open /\ ConfigOf(work, q) = ConfigOf(ledger, q)
          /\ work.pool[q].auth = Nobody
      BY <1>2 DEF RenouncedInTransaction, ConfigOf
    <3>2. CASE SameElsewhere(work, work', p) /\ q # p
      BY <3>1, <3>2 DEF SameElsewhere, ConfigOf
    <3>3. CASE Inside(p)
      <4>1. PICK u \in Users : \E r, d : Became(work, work', u, p, r, d)
        BY <3>3 DEF Inside
      <4>2. /\ SameElsewhere(work, work', p)
            /\ work'.pool[p].open = work.pool[p].open /\ ConfigOf(work', p) = ConfigOf(work, p)
        BY <1>2, <4>1, BecameConfig DEF Inv
      <4> QED
        BY <3>1, <3>2, <4>2
    <3>4. CASE Outside(p)
      BY <3>1, <3>2, <3>4 DEF Outside
    <3>5. CASE Setting(p)
      <4>1. q # p /\ SameElsewhere(work, work', p)
        BY <3>1, <3>5, AmmAssumption DEF Setting
      <4> QED
        BY <3>2, <4>1
    <3> QED
      BY <2>4, <3>3, <3>4, <3>5
  <2> QED
    BY <1>2, <2>1, <2>2, <2>3, <2>4, StepKinds
<1> QED
  BY <1>1, <1>2

\* Once the ledger shows a pool without an authority, no transaction changes its
\* fee, its lock or its authority: update_config has no caller left, and
\* initialize refuses a pool that exists.
THEOREM RenouncedMeansFrozen == Spec => RenouncedConfigIsFrozen
<1> DEFINE Frozen == \A p \in Pools :
                       ledger.pool[p].open /\ ledger.pool[p].auth = Nobody =>
                         ConfigOf(ledger', p) = ConfigOf(ledger, p)
<1>1. Spec => []RenouncedInTransaction
  BY AccountsStaySound, RenouncedInductive, PTL DEF Spec
<1>2. Inv /\ RenouncedInTransaction /\ [Next]_vars => [Frozen]_vars
  <2> SUFFICES ASSUME Inv, RenouncedInTransaction, Next
               PROVE  Frozen
    OBVIOUS
  <2>1. CASE ledger' = ledger
    BY <2>1 DEF ConfigOf
  <2>2. CASE ledger' = work
    BY <2>2 DEF RenouncedInTransaction, ConfigOf
  <2> QED
    BY <2>1, <2>2, StepKinds DEF Commit, Abort, Counted
<1>3. RenouncedConfigIsFrozen <=> [][Frozen]_vars
  BY DEF RenouncedConfigIsFrozen
<1> QED
  BY <1>1, <1>2, <1>3, AccountsStaySound, PTL DEF Spec

\* While a pool is locked no instruction of the program pays from its vaults,
\* mints its LP or records a burn of it, whoever calls it.
THEOREM LockStopsEverything == Spec => LockedPoolIsStill
<1> DEFINE Still(p) == /\ AtLeast(work'.pool[p].r, work.pool[p].r)
                       /\ work'.pool[p].l <= work.pool[p].l
                       /\ Records => prev'.pool # p
           Locked == \A p \in Pools : executed' = executed + 1 /\ work.pool[p].locked => Still(p)
<1>1. Inv /\ [Next]_vars => [Locked]_vars
  <2> SUFFICES ASSUME Inv, Next, NEW q \in Pools, executed' = executed + 1, work.pool[q].locked
               PROVE  Still(q)
    OBVIOUS
  <2>1. ~Commit /\ ~Abort
    BY TransactionsAssumption, SMT DEF Inv, Commit, Abort, NewTransaction
  <2>2. PICK p \in Pools : Inside(p) \/ Outside(p) \/ Setting(p)
    BY <2>1, StepKinds
  <2>3. AtLeast(work.pool[q].r, work.pool[q].r) /\ work.pool[q].l <= work.pool[q].l
    <3>1. work.pool[q].r \in Pair /\ work.pool[q].l \in Nat
      BY CpmmAssumption, SMT DEF Inv, Sound, Accounts, PoolAccounts, U64
    <3> QED
      BY <3>1, PairFacts, SMT DEF AtLeast
  <2>4. CASE Inside(p)
    <3>1. q # p
      BY <2>4 DEF Inside, Usable
    <3>2. PICK u \in Users : \E r, d : Became(work, work', u, p, r, d)
      BY <2>4 DEF Inside
    <3>3. work'.pool[q] = work.pool[q]
      BY <3>1, <3>2, BecameConfig DEF Inv, SameElsewhere
    <3> QED
      BY <2>3, <2>4, <3>1, <3>3 DEF Inside
  <2>5. CASE Outside(p)
    BY <2>3, <2>5 DEF Outside, SameElsewhere
  <2>6. CASE Setting(p)
    <3>1. work'.pool[q].r = work.pool[q].r /\ work'.pool[q].l = work.pool[q].l
      BY <2>6 DEF Setting, SameElsewhere
    <3> QED
      BY <2>3, <2>6, <3>1 DEF Setting
  <2> QED
    BY <2>2, <2>4, <2>5, <2>6
<1>2. LockedPoolIsStill <=> [][Locked]_vars
  BY DEF LockedPoolIsStill, Records
<1> QED
  BY <1>1, <1>2, AccountsStaySound, PTL DEF Spec

-----------------------------------------------------------------------------
(* Terms                                                                   *)

\* What a carried-out deposit costs, and what a carried-out withdrawal pays.
LEMMA DepositCost ==
  ASSUME NEW w \in Pair, NEW q \in DepositQuotes, NEW t \in Token
  PROVE  -(AfterDeposit(w, q)[t] - w[t]) = (q.swapIn[t] - q.swapOut[t]) + q.deposit[t]
  <1>1. AfterDeposit(w, q)[t] = ((w[t] - q.swapIn[t]) + q.swapOut[t]) - q.deposit[t]
    BY Zenon DEF AfterDeposit, Minus, Plus
  <1>2. w[t] \in Nat /\ q.swapIn[t] \in Nat /\ q.swapOut[t] \in Nat /\ q.deposit[t] \in Nat
    BY PairFacts DEF DepositQuotes
  <1> QED
    BY <1>1, <1>2, SMT

LEMMA WithdrawalPay ==
  ASSUME NEW w \in Pair, NEW q, q.proRata \in Pair, q.swapIn \in Pair, q.swapOut \in Pair,
         NEW t \in Token
  PROVE  /\ AfterWithdraw(w, q)[t] - w[t] = (q.proRata[t] - q.swapIn[t]) + q.swapOut[t]
         /\ AfterWithdraw(w, q)[t] - w[t] \in Int
  <1>1. AfterWithdraw(w, q)[t] = ((w[t] + q.proRata[t]) - q.swapIn[t]) + q.swapOut[t]
    BY Zenon DEF AfterWithdraw, Minus, Plus
  <1>2. w[t] \in Nat /\ q.proRata[t] \in Nat /\ q.swapIn[t] \in Nat /\ q.swapOut[t] \in Nat
    BY PairFacts
  <1> QED
    BY <1>1, <1>2, SMT

\* A deposit takes no more of either token than its caller offered, both legs of
\* a single-sided one together, and mints at least min_lp.
THEOREM DepositsHonourOffers == Spec => []DepositHonoursOffer
<1>1. ASSUME Inv
      PROVE  DepositHonoursOffer
  <2> SUFFICES ASSUME NEW u \in Users, NEW p \in Pools, NEW offer \in Offers(Amounts),
                      NEW side \in Side, NEW min \in Floors,
                      NEW s \in Deposited(work, u, p, offer, side, min)
               PROVE  /\ \A t \in Token : -Gain(s, u)[t] <= IF t \in DOMAIN offer THEN offer[t] ELSE 0
                      /\ s.lp[u][p] - work.lp[u][p] >= min
    BY DEF DepositHonoursOffer
  <2>1. /\ Sound(work) /\ offer \in Offers(U64) /\ min \in U64 /\ min \in Nat
        /\ work.wallet[u] \in Pair /\ work.lp[u][p] \in Nat
    BY <1>1, AmmAssumption, SoundFacts, U64Facts DEF Inv, Offers
  <2>2. PICK q \in Deposit(Snapshot(work, p), offer, side, min) :
          /\ s.wallet[u] = AfterDeposit(work.wallet[u], q)
          /\ s.lp[u][p] = work.lp[u][p] + q.lp
    BY <2>1, DepositResult
  <2>3. /\ q \in DepositQuotes /\ q.lp >= min
        /\ \A t \in Token : (q.swapIn[t] - q.swapOut[t]) + q.deposit[t]
                              <= IF t \in DOMAIN offer THEN offer[t] ELSE 0
    BY <2>1, SnapshotFacts, DepositBounds, DepositTakes
  <2>4. ASSUME NEW t \in Token
        PROVE  -Gain(s, u)[t] <= IF t \in DOMAIN offer THEN offer[t] ELSE 0
    <3>1. Gain(s, u)[t] = AfterDeposit(work.wallet[u], q)[t] - work.wallet[u][t]
      BY <2>2 DEF Gain, Minus
    <3>2. -Gain(s, u)[t] = (q.swapIn[t] - q.swapOut[t]) + q.deposit[t]
      BY <2>1, <2>3, <3>1, DepositCost
    <3> QED
      BY <2>3, <3>2
  <2>5. s.lp[u][p] - work.lp[u][p] >= min
    <3>1. q.lp \in Nat
      BY <2>3, U64Facts DEF DepositQuotes
    <3> QED
      BY <2>1, <2>2, <2>3, <3>1, SMT
  <2> QED
    BY <2>4, <2>5
<1> QED
  BY <1>1, AccountsStaySound, PTL

\* Both withdrawals pay at least their floors and, single-sided, nothing of the
\* other token, whichever supply they are quoted with.
THEOREM WithdrawalsHonourFloors == Spec => []WithdrawHonoursFloors
<1>1. ASSUME Inv
      PROVE  WithdrawHonoursFloors
  <2> SUFFICES ASSUME NEW u \in Users, NEW p \in Pools, NEW n \in Amounts,
                      NEW side \in Side, NEW floor \in [Token -> Floors],
                      NEW s \in Withdrawn(work, u, p, n, side, floor)
                                  \cup WithdrawnAfterBurn(work, prev, u, p, n, side, floor)
               PROVE  /\ AtLeast(Gain(s, u), floor)
                      /\ side \in Token => Gain(s, u)[Other(side)] = 0
    BY DEF WithdrawHonoursFloors
  <2>1. /\ Sound(work) /\ n \in U64 /\ work.wallet[u] \in Pair
        /\ \A t \in Token : floor[t] \in Nat
    BY <1>1, AmmAssumption, SoundFacts, U64Facts DEF Inv
  <2>2. \E pool \in PoolState : \E q \in Withdraw(pool, n, side, floor) :
          n <= pool.l /\ s.wallet[u] = AfterWithdraw(work.wallet[u], q)
    <3>1. CASE s \in Withdrawn(work, u, p, n, side, floor)
      BY <2>1, <3>1, WithdrawResult, SnapshotFacts
    <3>2. CASE s \in WithdrawnAfterBurn(work, prev, u, p, n, side, floor)
      <4> DEFINE l    == work.pool[p].l + n
                 pool == New(work.pool[p].r, l, work.pool[p].fee)
      <4>1. /\ l <= U64Max
            /\ \E q \in Withdraw(pool, n, side, floor) :
                 s.wallet[u] = AfterWithdraw(work.wallet[u], q)
        BY <2>1, <3>2, WithdrawAfterBurnResult
      <4>2. l \in U64 /\ n <= l
        <5>1. work.pool[p].l \in Nat /\ n \in Nat
          BY <2>1, SoundFacts, U64Facts
        <5> QED
          BY <4>1, <5>1, U64Facts, SMT
      <4> HIDE DEF l
      <4>3. pool \in PoolState /\ pool.l = l
        BY <2>1, <4>2, SnapshotFacts DEF Snapshot, New, PoolState
      <4> QED
        BY <4>1, <4>2, <4>3
    <3> QED
      BY <3>1, <3>2
  <2>3. PICK pool \in PoolState : \E q \in Withdraw(pool, n, side, floor) :
          n <= pool.l /\ s.wallet[u] = AfterWithdraw(work.wallet[u], q)
    BY <2>2
  <2>4. PICK q \in Withdraw(pool, n, side, floor) :
          n <= pool.l /\ s.wallet[u] = AfterWithdraw(work.wallet[u], q)
    BY <2>3
  <2>5. /\ q.proRata \in Pair /\ q.swapIn \in Pair /\ q.swapOut \in Pair /\ q.withdraw \in Pair
        /\ AtLeast(q.withdraw, floor)
        /\ \A t \in Token : /\ q.withdraw[t] <= (q.proRata[t] - q.swapIn[t]) + q.swapOut[t]
                            /\ side \in Token /\ t = Other(side) =>
                                 (q.proRata[t] - q.swapIn[t]) + q.swapOut[t] = 0
    BY <2>1, <2>4, WithdrawPays
  <2>6. ASSUME NEW t \in Token
        PROVE  /\ Gain(s, u)[t] \in Int
               /\ Gain(s, u)[t] = (q.proRata[t] - q.swapIn[t]) + q.swapOut[t]
               /\ Gain(s, u)[t] >= floor[t]
    <3>1. Gain(s, u)[t] = AfterWithdraw(work.wallet[u], q)[t] - work.wallet[u][t]
      BY <2>4 DEF Gain, Minus
    <3>2. /\ Gain(s, u)[t] \in Int
          /\ Gain(s, u)[t] = (q.proRata[t] - q.swapIn[t]) + q.swapOut[t]
      BY <2>1, <2>5, <3>1, WithdrawalPay
    <3>3. /\ q.withdraw[t] <= Gain(s, u)[t] /\ q.withdraw[t] \in Nat
          /\ q.withdraw[t] >= floor[t] /\ floor[t] \in Nat
      BY <2>1, <2>5, <3>2, PairFacts DEF AtLeast
    <3>4. Gain(s, u)[t] >= floor[t]
      BY <3>2, <3>3, SMT
    <3> QED
      BY <3>2, <3>4
  <2>7. side \in Token => Gain(s, u)[Other(side)] = 0
    BY <2>5, <2>6, TokenFacts
  <2> QED
    BY <2>6, <2>7 DEF AtLeast
<1> QED
  BY <1>1, AccountsStaySound, PTL

-----------------------------------------------------------------------------
(* Value                                                                   *)

\* The claims on p that this step leaves: those of the next instruction, and after
\* one that another program called, the LP that is left.
Remaining(p) == IF prev' = prev THEN work'.pool[p].l ELSE Claims(work', prev', p)

\* The value of the LP of pool p does not fall in this step.
ValueKept(p) ==
  K(work', p) * Claims(work, prev, p) * Claims(work, prev, p)
    >= K(work, p) * Remaining(p) * Remaining(p)

\* An instruction that no burn_lp of p is recorded for leaves no claim but the
\* supply.
LEMMA ClaimFacts ==
  ASSUME NEW s, Sound(s), NEW ix \in Instruction, NEW p \in Pools
  PROVE  /\ K(s, p) = Product(s.pool[p].r) /\ K(s, p) \in Nat
         /\ Claims(s, ix, p) \in Nat /\ s.pool[p].l <= Claims(s, ix, p)
         /\ ~(ix.program = "amm" /\ ix.burn /\ ix.pool = p) => Claims(s, ix, p) = s.pool[p].l
  <1>1. s.pool[p].r \in Pair /\ s.pool[p].l \in Nat
    BY U64Facts DEF Sound, Accounts, PoolAccounts
  <1>2. K(s, p) = Product(s.pool[p].r) /\ K(s, p) \in Nat
    BY <1>1, ProductFacts DEF K, Product, Token
  <1> DEFINE l == s.pool[p].l
             c == Claims(s, ix, p)
  <1>3. CASE ix.program = "amm" /\ ix.burn /\ ix.exact /\ ix.pool = p
    <2>1. c = l + ix.amount
      BY <1>3 DEF Claims
    <2>2. ix.amount \in U64 /\ ix.amount \in Nat
      <3>1. ix \in [program : {"amm", "other"}, burn : BOOLEAN, user : Users \cup {Nobody},
                    pool : Pools \cup {Nobody}, amount : U64, exact : BOOLEAN]
        BY <1>3 DEF Instruction, NoInstruction
      <3> QED
        BY <3>1, U64Facts
    <2> HIDE DEF l, c
    <2>3. c \in Nat /\ l <= c
      BY <1>1, <2>1, <2>2, SMT DEF l
    <2> QED
      BY <1>2, <1>3, <2>3 DEF l, c
  <1>4. CASE ~(ix.program = "amm" /\ ix.burn /\ ix.exact /\ ix.pool = p)
    <2>1. c = l + 0
      BY <1>4 DEF Claims
    <2> HIDE DEF l, c
    <2>2. c \in Nat /\ l <= c /\ c = l
      BY <1>1, <2>1, SMT DEF l
    <2> QED
      BY <1>2, <2>2 DEF l, c
  <1> QED
    BY <1>3, <1>4

LEMMA RemainingFacts ==
  ASSUME Inv', NEW p \in Pools
  PROVE  /\ Remaining(p) \in Nat
         /\ ~(Records /\ prev'.pool = p) => Remaining(p) = work'.pool[p].l
  <1>1. work'.pool[p].l \in Nat
    BY U64Facts DEF Inv, Sound, Accounts, PoolAccounts
  <1>2. /\ Claims(work', prev', p) \in Nat
        /\ ~(prev'.program = "amm" /\ prev'.burn /\ prev'.pool = p) =>
             Claims(work', prev', p) = work'.pool[p].l
    BY ClaimFacts DEF Inv
  <1>3. CASE prev' = prev
    BY <1>1, <1>3 DEF Remaining
  <1>4. CASE prev' # prev
    BY <1>2, <1>4 DEF Remaining, Records
  <1> QED
    BY <1>3, <1>4

\* More reserves and no more claims are no loss.
LEMMA NoLoss ==
  ASSUME Inv, Inv', NEW p \in Pools,
         Product(work.pool[p].r) <= Product(work'.pool[p].r),
         Remaining(p) <= Claims(work, prev, p)
  PROVE  ValueKept(p)
  <1>1. /\ K(work, p) \in Nat /\ K(work', p) \in Nat /\ K(work, p) <= K(work', p)
        /\ Claims(work, prev, p) \in Nat /\ Remaining(p) \in Nat
    BY ClaimFacts, RemainingFacts DEF Inv
  <1> QED
    BY <1>1, SquaresMonotone DEF ValueKept

LEMMA NoLossElsewhere ==
  ASSUME Inv, Inv', NEW p, NEW q \in Pools, q # p, SameElsewhere(work, work', p),
         Records => prev'.pool = p
  PROVE  ValueKept(q)
  <1>1. work'.pool[q] = work.pool[q]
    BY DEF SameElsewhere
  <1>2. /\ Remaining(q) = work.pool[q].l
        /\ work.pool[q].l <= Claims(work, prev, q)
        /\ Product(work.pool[q].r) \in Nat
    BY <1>1, ClaimFacts, RemainingFacts DEF Inv
  <1>3. Product(work.pool[q].r) <= Product(work'.pool[q].r)
    BY <1>1, <1>2, SMT
  <1> QED
    BY <1>2, <1>3, NoLoss

\* A step that takes nothing from the reserves and mints nothing.
LEMMA QuietKeepsValue ==
  ASSUME Inv, Inv', NEW p \in Pools, Outside(p) \/ Setting(p)
  PROVE  ValueKept(p)
  <1>1. ~Records
    BY DEF Outside, Setting
  <1>2. /\ Remaining(p) = work'.pool[p].l
        /\ work'.pool[p].l \in Nat /\ work.pool[p].l \in Nat
        /\ work.pool[p].l <= Claims(work, prev, p)
        /\ Claims(work, prev, p) \in Nat
        /\ work.pool[p].r \in Pair /\ work'.pool[p].r \in Pair
    <2>1. /\ Remaining(p) = work'.pool[p].l
          /\ work.pool[p].l <= Claims(work, prev, p)
          /\ Claims(work, prev, p) \in Nat
      BY <1>1, ClaimFacts, RemainingFacts DEF Inv
    <2>2. \A s : Sound(s) => s.pool[p].l \in Nat /\ s.pool[p].r \in Pair
      BY U64Facts DEF Sound, Accounts, PoolAccounts
    <2> QED
      BY <2>1, <2>2 DEF Inv
  <1>3. work'.pool[p].l <= work.pool[p].l /\ AtLeast(work'.pool[p].r, work.pool[p].r)
    BY <1>2, PairFacts, SMT DEF Outside, Setting, AtLeast
  <1>4. Product(work'.pool[p].r) >= Product(work.pool[p].r) /\ Product(work'.pool[p].r) \in Nat
        /\ Product(work.pool[p].r) \in Nat
    <2>1. \A t \in Token : /\ work'.pool[p].r[t] \in Nat /\ work.pool[p].r[t] \in Nat
                           /\ work'.pool[p].r[t] >= work.pool[p].r[t]
      BY <1>2, <1>3, PairFacts DEF AtLeast
    <2>2. \A t \in Token : work.pool[p].r[t] <= work'.pool[p].r[t]
      BY <2>1, SMT
    <2> QED
      BY <1>2, <2>1, <2>2, AddedKeepsProduct
  <1>5. Remaining(p) <= Claims(work, prev, p)
    BY <1>2, <1>3, SMT
  <1> QED
    BY <1>4, <1>5, NoLoss

\* What a trade in p leaves there, if no burn is recorded.
LEMMA AfterTrade ==
  ASSUME Inv, Inv', NEW u \in Users, NEW p \in Pools, NEW r, NEW d \in Int,
         Became(work, work', u, p, r, d), ~Records
  PROVE  /\ work'.pool[p].r = r
         /\ work'.pool[p].l = work.pool[p].l + d
         /\ Remaining(p) = work.pool[p].l + d
         /\ work.pool[p].l \in Nat /\ work.pool[p].r \in Pair
  <1>1. work'.pool[p].r = r /\ work'.pool[p].l = work.pool[p].l + d
    BY BecameConfig DEF Inv
  <1>2. Remaining(p) = work'.pool[p].l
    BY RemainingFacts
  <1> QED
    BY <1>1, <1>2, SoundFacts DEF Inv

\* A payout for lp of the c claims there are.
LEMMA PayoutKeepsValue ==
  ASSUME Inv, Inv', NEW p \in Pools, NEW c \in Nat, c <= Claims(work, prev, p),
         NEW lp \in Nat, lp <= c, Remaining(p) = c - lp,
         Product(work'.pool[p].r) * c * c >= Product(work.pool[p].r) * (c - lp) * (c - lp)
  PROVE  ValueKept(p)
  <1> DEFINE k == K(work', p)
             j == K(work, p)
             b == Claims(work, prev, p)
             m == c - lp
  <1>1. k \in Nat /\ j \in Nat /\ b \in Nat /\ k * c * c >= j * m * m
    BY ClaimFacts DEF Inv
  <1>2. c <= b /\ m \in Nat
    BY SMT
  <1>3. ValueKept(p) <=> k * b * b >= j * m * m
    BY DEF ValueKept
  <1> HIDE DEF k, j, b, m
  <1>4. k * b * b >= k * c * c
    BY <1>1, <1>2, SquaresMonotone
  <1>5. k * b * b \in Int /\ k * c * c \in Int /\ j * m * m \in Int
    BY <1>1, <1>2, SMT
  <1> QED
    BY <1>1, <1>3, <1>4, <1>5, SMT

LEMMA SwapKeepsValue ==
  ASSUME Inv, Inv', NEW u \in Users, NEW p \in Pools,
         NEW n \in Amounts, NEW side \in Side, NEW min \in Floors, SwapIx(u, p, n, side, min)
  PROVE  ValueKept(p)
  <1>1. /\ Sound(work) /\ n \in U64 /\ ~Records
        /\ work' \in Swapped(work, u, p, n, side, min)
    BY AmmAssumption, NothingRecorded DEF Inv, SwapIx
  <1>2. side \in Token
    BY <1>1, SwapResult
  <1>3. PICK out \in Swap(Snapshot(work, p), n, side, min) :
          /\ work.pool[p].r[side] + n <= U64Max
          /\ Became(work, work', u, p,
                    Minus(Plus(work.pool[p].r, Just(side, n)), Just(Other(side), out)), 0)
    BY <1>1, SwapResult
  <1> DEFINE r == Minus(Plus(work.pool[p].r, Just(side, n)), Just(Other(side), out))
  <1>4. Product(r) >= Product(work.pool[p].r)
    BY <1>1, <1>2, <1>3, SnapshotFacts, SwapKeepsProduct
  <1> HIDE DEF r
  <1>5. /\ work'.pool[p].r = r /\ Remaining(p) = work.pool[p].l + 0
        /\ work.pool[p].l \in Nat
    BY <1>1, <1>3, AfterTrade DEF r
  <1>6. Remaining(p) <= Claims(work, prev, p) /\ Product(work.pool[p].r) <= Product(r)
    <2>1. /\ work.pool[p].l <= Claims(work, prev, p) /\ Claims(work, prev, p) \in Nat
          /\ Product(work.pool[p].r) \in Nat /\ Product(work'.pool[p].r) \in Nat
      BY ClaimFacts DEF Inv
    <2> QED
      BY <1>4, <1>5, <2>1, SMT
  <1> QED
    BY <1>5, <1>6, NoLoss

LEMMA FreeDepositKeepsValue ==
  ASSUME Inv, Inv', NEW u \in Users, NEW p \in Pools,
         NEW offer \in Offers(Amounts), NEW side \in Side, NEW min \in Floors,
         DepositIx(u, p, offer, side, min), work'.pool[p].l <= work.pool[p].l
  PROVE  ValueKept(p)
  <1>1. /\ Sound(work) /\ offer \in Offers(U64) /\ ~Records
        /\ work' \in Deposited(work, u, p, offer, side, min)
    BY AmmAssumption, NothingRecorded DEF Inv, DepositIx, Offers
  <1>2. PICK q \in Deposit(Snapshot(work, p), offer, side, min) :
          /\ q.lp \in U64
          /\ Became(work, work', u, p,
                    Plus(Minus(Plus(work.pool[p].r, q.swapIn), q.swapOut), q.deposit), q.lp)
    BY <1>1, DepositResult
  <1> DEFINE r == Plus(Minus(Plus(work.pool[p].r, q.swapIn), q.swapOut), q.deposit)
  <1>3. /\ Snapshot(work, p) \in PoolState /\ Snapshot(work, p).r = work.pool[p].r
        /\ r = Filled(Snapshot(work, p), q)
    BY <1>1, SnapshotFacts DEF Filled
  <1>4. Product(r) \in Nat /\ Product(r) >= Product(work.pool[p].r)
    BY <1>1, <1>2, <1>3, DepositKeepsProduct
  <1> HIDE DEF r
  <1>5. q.lp \in Int
    <2>1. q.lp \in Nat
      BY <1>2, U64Facts
    <2> QED
      BY <2>1, SMT
  <1>6. /\ work'.pool[p].r = r /\ work'.pool[p].l = work.pool[p].l + q.lp
        /\ Remaining(p) = work.pool[p].l + q.lp
        /\ work.pool[p].l \in Nat
    BY <1>1, <1>2, <1>5, AfterTrade DEF r
  <1>7. Remaining(p) <= Claims(work, prev, p) /\ Product(work.pool[p].r) <= Product(r)
    <2>1. /\ work.pool[p].l <= Claims(work, prev, p) /\ Claims(work, prev, p) \in Nat
          /\ Product(work.pool[p].r) \in Nat
      BY <1>1, ClaimFacts DEF Inv
    <2> QED
      BY <1>4, <1>5, <1>6, <2>1, SMT
  <1> QED
    BY <1>6, <1>7, NoLoss

LEMMA WithdrawalKeepsValue ==
  ASSUME Inv, Inv', NEW u \in Users, NEW p \in Pools,
         NEW n \in Amounts, NEW side \in Side, NEW floor \in [Token -> Floors],
         WithdrawIx(u, p, n, side, floor)
  PROVE  ValueKept(p)
  <1>1. /\ Sound(work) /\ n \in U64 /\ n \in Nat /\ ~Records
        /\ work' \in Withdrawn(work, u, p, n, side, floor)
    BY AmmAssumption, NothingRecorded, U64Facts DEF Inv, WithdrawIx
  <1>2. n <= work.pool[p].l
    BY <1>1, WithdrawResult
  <1>3. PICK q \in Withdraw(Snapshot(work, p), n, side, floor) :
          Became(work, work', u, p,
                 Minus(Plus(Minus(work.pool[p].r, q.proRata), q.swapIn), q.swapOut), -n)
    BY <1>1, WithdrawResult
  <1> DEFINE r == Minus(Plus(Minus(work.pool[p].r, q.proRata), q.swapIn), q.swapOut)
             l == work.pool[p].l
             d == -n
  <1>4. /\ Snapshot(work, p) \in PoolState
        /\ Snapshot(work, p).r = work.pool[p].r /\ Snapshot(work, p).l = l
        /\ r = Left(Snapshot(work, p), q)
    BY <1>1, SnapshotFacts DEF Left
  <1>5. Product(r) * l * l >= Product(work.pool[p].r) * (l - n) * (l - n)
    BY <1>1, <1>2, <1>3, <1>4, WithdrawKeepsValue
  <1>6. d \in Int
    BY <1>1, SMT
  <1> HIDE DEF r, d
  <1>7. work'.pool[p].r = r /\ Remaining(p) = l + d /\ l \in Nat
    BY <1>1, <1>3, <1>6, AfterTrade DEF r, d
  <1>8. Remaining(p) = l - n
    BY <1>1, <1>7, SMT DEF d
  <1>9. l <= Claims(work, prev, p)
    BY ClaimFacts DEF Inv
  <1> QED
    BY <1>1, <1>2, <1>5, <1>7, <1>8, <1>9, PayoutKeepsValue

\* The burn this withdrawal was confirmed by still counts as a claim before it,
\* and no longer after: it has been paid, unless another program called this and
\* left the burn to the next call.
LEMMA ConfirmedWithdrawalKeepsValue ==
  ASSUME Inv, Inv', NEW u \in Users, NEW p \in Pools,
         NEW n \in Amounts, NEW side \in Side, NEW floor \in [Token -> Floors],
         WithdrawWIx(u, p, n, side, floor)
  PROVE  ValueKept(p)
  <1>1. /\ Sound(work) /\ n \in U64 /\ n \in Nat /\ ~Records
        /\ work' \in WithdrawnAfterBurn(work, prev, u, p, n, side, floor)
    BY AmmAssumption, NothingRecorded, U64Facts DEF Inv, WithdrawWIx
  <1> DEFINE l == work.pool[p].l
             c == l + n
             pool == New(work.pool[p].r, c, work.pool[p].fee)
  <1>2. ConfirmBurn(prev, u, p, n) /\ c <= U64Max
    BY <1>1, WithdrawAfterBurnResult
  <1>3. PICK q \in Withdraw(pool, n, side, floor) :
          Became(work, work', u, p,
                 Minus(Plus(Minus(work.pool[p].r, q.proRata), q.swapIn), q.swapOut), 0)
    BY <1>1, WithdrawAfterBurnResult
  <1> DEFINE r == Minus(Plus(Minus(work.pool[p].r, q.proRata), q.swapIn), q.swapOut)
  <1>4. l \in Nat /\ c \in Nat /\ n <= c /\ c - n = l
    BY <1>1, SoundFacts, SMT
  <1>5. Claims(work, prev, p) = c
    BY <1>2 DEF Claims, ConfirmBurn
  <1> HIDE DEF c
  <1>6. /\ pool \in PoolState /\ pool.r = work.pool[p].r /\ pool.l = c
        /\ r = Left(pool, q)
    <2>1. c \in U64
      BY <1>2, <1>4, U64Facts
    <2> QED
      BY <1>1, <2>1, SnapshotFacts DEF Snapshot, New, PoolState, Left
  <1> HIDE DEF pool
  <1>7. Product(r) * c * c >= Product(work.pool[p].r) * (c - n) * (c - n)
    BY <1>1, <1>3, <1>4, <1>6, WithdrawKeepsValue
  <1> HIDE DEF r
  <1>8. work'.pool[p].r = r /\ Remaining(p) = l + 0
    BY <1>1, <1>3, AfterTrade DEF r
  <1>9. Remaining(p) = c - n /\ c <= Claims(work, prev, p)
    BY <1>4, <1>5, <1>8, SMT
  <1> QED
    BY <1>1, <1>4, <1>7, <1>8, <1>9, PayoutKeepsValue

\* A burn_lp makes a claim of the LP it burns, unless nothing can come of it.
LEMMA BurnKeepsValue ==
  ASSUME Inv, Inv', NEW u \in Users, NEW p \in Pools,
         NEW n \in Amounts, NEW exact \in BOOLEAN, BurnLpIx(u, p, n, exact)
  PROVE  ValueKept(p)
  <1>1. /\ Sound(work) /\ n \in U64 /\ n \in Nat
        /\ work' \in BurnTokens(work, u, p, n)
        /\ Records => prev' = Burn("amm", u, p, n, exact)
    BY AmmAssumption, U64Facts, Recorded DEF Inv, BurnLpIx, LpBurned
  <1> DEFINE l == work.pool[p].l
             d == -n
  <1>2. Became(work, work', u, p, work.pool[p].r, d)
    BY <1>1, BurnResult
  <1>3. work'.pool[p].r = work.pool[p].r /\ work'.pool[p].l = l + d /\ l \in Nat /\ d \in Int
    <2>1. d \in Int
      BY <1>1, SMT
    <2> HIDE DEF d
    <2> QED
      BY <1>1, <1>2, <2>1, BecameConfig, SoundFacts
  <1>5. \/ Remaining(p) = (l + d) + n
        \/ Remaining(p) = (l + d) + 0
        \/ Remaining(p) = l + d
    <2>1. CASE ~Records
      BY <1>3, <2>1, RemainingFacts
    <2>2. CASE Records
      <3>1. /\ prev'.program = "amm" /\ prev'.burn /\ prev'.pool = p /\ prev'.amount = n
            /\ prev' # prev
        BY <1>1, <2>2, RecordFacts DEF Records
      <3> QED
        BY <1>3, <3>1 DEF Remaining, Claims
    <2> QED
      BY <2>1, <2>2
  <1>6. /\ l <= Claims(work, prev, p) /\ Claims(work, prev, p) \in Nat
        /\ Product(work.pool[p].r) \in Nat
    BY ClaimFacts DEF Inv
  <1>7. Remaining(p) <= Claims(work, prev, p)
    BY <1>1, <1>3, <1>5, <1>6, SMT
  <1>8. Product(work.pool[p].r) <= Product(work'.pool[p].r)
    BY <1>3, <1>6, SMT
  <1> QED
    BY <1>7, <1>8, NoLoss

LEMMA InsideKeepsValue ==
  ASSUME Inv, Inv', NEW u \in Users, NEW p \in Pools,
         \/ \E n \in Amounts, side \in Side, min \in Floors : SwapIx(u, p, n, side, min)
         \/ \E offer \in Offers(Amounts), side \in Side, min \in Floors :
              DepositIx(u, p, offer, side, min)
         \/ \E n \in Amounts, side \in Side, floor \in [Token -> Floors] :
              \/ WithdrawIx(u, p, n, side, floor)
              \/ WithdrawWIx(u, p, n, side, floor)
         \/ \E n \in Amounts, exact \in BOOLEAN : BurnLpIx(u, p, n, exact),
         NEW q \in Pools, work'.pool[q].l <= work.pool[q].l
  PROVE  ValueKept(q)
  <1>1. CASE q = p
    BY <1>1, SwapKeepsValue, FreeDepositKeepsValue, WithdrawalKeepsValue,
       ConfirmedWithdrawalKeepsValue, BurnKeepsValue
  <1>2. CASE q # p
    <2>1. Inside(p)
      BY InsideSteps
    <2>2. PICK v \in Users : \E r, d : Became(work, work', v, p, r, d)
      BY <2>1 DEF Inside
    <2>3. SameElsewhere(work, work', p)
      BY <2>2, BecameConfig DEF Inv
    <2> QED
      BY <1>2, <2>1, <2>3, NoLossElsewhere DEF Inside
  <1> QED
    BY <1>1, <1>2

LEMMA OtherStepsKeepValue ==
  ASSUME Inv, Inv', NEW p \in Pools, Outside(p) \/ Setting(p), NEW q \in Pools
  PROVE  ValueKept(q)
  <1>1. SameElsewhere(work, work', p) /\ ~Records
    BY DEF Outside, Setting
  <1> QED
    BY <1>1, QuietKeepsValue, NoLossElsewhere

\* No instruction but a deposit that mints lowers the value K / Claims^2 of any
\* pool's LP: rounding is for the pool, in a confirmed withdrawal too, and no burn
\* is counted for two payouts, but for the calls that see the same one.
THEOREM ValueNeverFalls == Spec => ValuePerLpNeverFalls
<1> DEFINE Kept == \A p \in Pools :
                     executed' = executed + 1 /\ work'.pool[p].l <= work.pool[p].l => ValueKept(p)
<1>1. Inv /\ Inv' /\ [Next]_vars => [Kept]_vars
  <2> SUFFICES ASSUME Inv, Inv', Next, NEW q \in Pools,
                      executed' = executed + 1, work'.pool[q].l <= work.pool[q].l
               PROVE  ValueKept(q)
    OBVIOUS
  <2>1. ~Commit /\ ~Abort
    BY TransactionsAssumption, SMT DEF Inv, Commit, Abort, NewTransaction
  <2>2. ASSUME NEW p \in Pools, \E fee \in Fees, auth \in Authorities : InitializeIx(p, fee, auth)
        PROVE  ValueKept(q)
    BY <2>2, SettingSteps, OtherStepsKeepValue
  <2>3. ASSUME NEW p \in Pools, NEW u \in Users,
               \E fee \in Fees, auth \in Authorities, locked \in BOOLEAN :
                 UpdateConfigIx(u, p, fee, auth, locked)
        PROVE  ValueKept(q)
    BY <2>3, SettingSteps, OtherStepsKeepValue
  <2>4. ASSUME NEW p \in Pools, NEW u \in Users,
               \/ \E n \in Amounts, side \in Side, min \in Floors : SwapIx(u, p, n, side, min)
               \/ \E offer \in Offers(Amounts), side \in Side, min \in Floors :
                    DepositIx(u, p, offer, side, min)
               \/ \E n \in Amounts, side \in Side, floor \in [Token -> Floors] :
                    \/ WithdrawIx(u, p, n, side, floor)
                    \/ WithdrawWIx(u, p, n, side, floor)
               \/ \E n \in Amounts, exact \in BOOLEAN : BurnLpIx(u, p, n, exact)
        PROVE  ValueKept(q)
    BY <2>4, InsideKeepsValue
  <2>5. ASSUME NEW p \in Pools, NEW u \in Users,
               \/ \E n \in Amounts, t \in Token : Donate(u, p, t, n)
               \/ \E n \in Amounts : TokenBurn(u, p, n) \/ LookAlike(u, p, n)
        PROVE  ValueKept(q)
    BY <2>5, OutsideSteps, OtherStepsKeepValue
  <2> QED
    BY <2>1, <2>2, <2>3, <2>4, <2>5 DEF Next
<1>2. ValuePerLpNeverFalls <=> [][Kept]_vars
  BY DEF ValuePerLpNeverFalls, ValueKept, Remaining
<1> QED
  BY <1>1, <1>2, AccountsStaySound, PTL DEF Spec

=============================================================================
