--------------------------- MODULE CpmmPoolProofs ---------------------------
(***************************************************************************)
(* What holds of a pool in every state it can reach, for every width of    *)
(* the integers, every fee scale and every set of fees: it keeps its types,*)
(* never leaves LP without backing, and no sequence of instructions takes  *)
(* value from the holders of its LP.                                       *)
(***************************************************************************)
EXTENDS CpmmPool, CpmmLemmas

Backed(s) == s.l > 0 => \A t \in Token : s.r[t] > 0

\* The quotes are made on a PoolState.
LEMMA SnapshotType ==
  ASSUME NEW s \in Pool
  PROVE  /\ Snapshot(s) \in PoolState
         /\ Snapshot(s).r = s.r /\ Snapshot(s).l = s.l
         /\ s.r \in Pair /\ s.l \in U64
  BY FeesAssumption DEF Pool, PoolState, Snapshot, New

\* A swap leaves something of both tokens.
LEMMA SwapBacked ==
  ASSUME NEW s \in Pool, NEW amount \in U64, NEW t \in Token, NEW minOut,
         NEW n \in AfterSwap(s, amount, t, minOut)
  PROVE  n \in Pool /\ Backed(n)
  <1>1. PICK out \in Swap(Snapshot(s), amount, t, minOut) :
          /\ s.r[t] + amount <= U64Max
          /\ n = [s EXCEPT !.r = Minus(Plus(s.r, Just(t, amount)), Just(Other(t), out))]
    BY DEF AfterSwap
  <1>2. /\ Minus(Plus(s.r, Just(t, amount)), Just(Other(t), out)) \in Pair
        /\ \A u \in Token : Minus(Plus(s.r, Just(t, amount)), Just(Other(t), out))[u] > 0
    BY <1>1, SnapshotType, SwapLeaves
  <1> QED
    BY <1>1, <1>2 DEF Pool, Backed

\* A deposit leaves at least what it deposited.
LEMMA DepositBacked ==
  ASSUME NEW s \in Pool, NEW offer \in Offers(U64), NEW side, NEW minLp,
         NEW n \in AfterDeposit(s, offer, side, minLp)
  PROVE  n \in Pool /\ Backed(n)
  <1>1. PICK q \in Deposit(Snapshot(s), offer, side, minLp) :
          /\ n = [s EXCEPT !.r = Plus(Minus(Plus(s.r, q.swapIn), q.swapOut), q.deposit),
                           !.l = s.l + q.lp]
          /\ n.r \in Pair /\ n.l <= U64Max
    BY DEF AfterDeposit
  <1>2. /\ q \in DepositQuotes
        /\ \A t \in Token : q.deposit[t] > 0 /\ q.swapOut[t] <= s.r[t]
    BY <1>1, SnapshotType, DepositBounds
  <1>3. ASSUME NEW t \in Token
        PROVE  n.r[t] > 0
    <2>1. n.r = Plus(Minus(Plus(s.r, q.swapIn), q.swapOut), q.deposit)
      BY <1>1 DEF Pool
    <2> QED
      BY <1>1, <2>1, SnapshotType, DepositLeaves
  <1>4. n.l \in U64
    <2>1. n.l = s.l + q.lp
      BY <1>1 DEF Pool
    <2> QED
      BY <1>1, <1>2, <2>1, SnapshotType, CpmmAssumption, SMT DEF DepositQuotes, U64
  <1> QED
    BY <1>1, <1>3, <1>4 DEF Pool, Backed

\* A withdrawal of less than the supply leaves something of both tokens.
LEMMA WithdrawBacked ==
  ASSUME NEW s \in Pool, NEW lp \in U64, NEW side \in Side, NEW floor,
         NEW n \in AfterWithdraw(s, lp, side, floor)
  PROVE  n \in Pool /\ Backed(n)
  <1>1. PICK q \in Withdraw(Snapshot(s), lp, side, floor) :
          /\ lp <= s.l
          /\ n = [s EXCEPT !.r = Left(Snapshot(s), q), !.l = s.l - lp]
    BY SnapshotType DEF AfterWithdraw, Left
  <1>2. /\ Left(Snapshot(s), q) \in Pair
        /\ lp < s.l => \A t \in Token : Left(Snapshot(s), q)[t] > 0
    BY <1>1, SnapshotType, WithdrawLeaves
  <1>3. s.l - lp \in U64 /\ (s.l - lp > 0 => lp < s.l)
    BY <1>1, SnapshotType, CpmmAssumption, SMT DEF U64
  <1> QED
    BY <1>1, <1>2, <1>3 DEF Pool, Backed

-----------------------------------------------------------------------------

Inv == TypeOK /\ ReservesBackSupply

\* The conjunction is inductive: no step needs more of the state than that.
THEOREM PoolInvariant == Spec => []Inv
<1>1. Init => Inv
  BY PairFacts, U64Facts DEF Init, Inv, TypeOK, Pool, ReservesBackSupply
<1>2. Inv /\ [Next]_vars => Inv'
  <2> SUFFICES ASSUME Inv, [Next]_vars
               PROVE  Inv'
    OBVIOUS
  <2>0. pool \in Pool /\ burned \in U64 /\ Backed(pool) /\ pool.l \in U64
    BY SnapshotType DEF Inv, TypeOK, ReservesBackSupply, Backed
  <2>a. SUFFICES pool' \in Pool /\ burned' \in U64 /\ Backed(pool')
    BY DEF Inv, TypeOK, ReservesBackSupply, Backed
  <2>1. CASE \E amount \in U64, t \in Token : DoSwap(amount, t)
    BY <2>0, <2>1, SwapBacked, U64Facts DEF DoSwap, Before
  <2>2. CASE \E offer \in Offers(U64), side \in Side : DoDeposit(offer, side)
    BY <2>0, <2>2, DepositBacked, U64Facts DEF DoDeposit, Before
  <2>3. CASE \E lp \in U64, side \in Side : DoWithdraw(lp, side)
    BY <2>0, <2>3, WithdrawBacked, U64Facts DEF DoWithdraw, Before
  <2>4. CASE \E lp \in U64 : BurnLp(lp) \/ BurnElsewhere(lp)
    <3>1. PICK lp \in U64 : /\ lp <= pool.l
                            /\ pool' = [pool EXCEPT !.l = pool.l - lp]
                            /\ burned' \in {0, lp, burned}
      BY <2>4 DEF BurnLp, BurnElsewhere, Before
    <3>2. pool.l - lp \in U64 /\ (pool.l - lp > 0 => pool.l > 0)
      BY <2>0, <3>1, CpmmAssumption, SMT DEF U64
    <3> QED
      BY <2>0, <3>1, <3>2, U64Facts DEF Pool, Backed
  <2>5. CASE \E lp \in U64, side \in Side : WithdrawBurned(lp, side)
    <3> DEFINE s(lp) == [pool EXCEPT !.l = pool.l + lp]
    <3>1. PICK lp \in U64, side \in Side :
            /\ pool.l + lp <= U64Max
            /\ pool' \in AfterWithdraw(s(lp), lp, side, Nothing)
            /\ burned' \in {0, burned}
      BY <2>5 DEF WithdrawBurned, Before
    <3>2. pool.l + lp \in U64
      BY <2>0, <3>1, CpmmAssumption, SMT DEF U64
    <3>3. s(lp) \in Pool
      BY <2>0, <3>2 DEF Pool
    <3> QED
      BY <2>0, <3>1, <3>3, WithdrawBacked, U64Facts
  <2>6. CASE \E fee \in Fees, owned, locked \in BOOLEAN : UpdateConfig(fee, owned, locked)
    BY <2>0, <2>6, U64Facts DEF UpdateConfig, Before, Pool, Backed
  <2>7. CASE \E t \in Token, amount \in U64 : Donate(t, amount)
    <3>1. PICK t \in Token, amount \in U64 :
            /\ pool.r[t] + amount <= U64Max
            /\ pool' = [pool EXCEPT !.r = [pool.r EXCEPT ![t] = pool.r[t] + amount]]
            /\ burned' \in {0, burned}
      BY <2>7 DEF Donate, Before
    <3>2. pool.r \in Pair /\ pool.r[t] \in U64
      BY <2>0, PairFacts DEF Pool
    <3>3. pool.r[t] + amount \in U64 /\ (pool.r[t] > 0 => pool.r[t] + amount > 0)
      BY <3>1, <3>2, CpmmAssumption, SMT DEF U64
    <3> QED
      BY <2>0, <3>1, <3>2, <3>3, U64Facts DEF Pool, Pair, Backed
  <2>8. CASE UNCHANGED vars
    BY <2>0, <2>8 DEF vars
  <2> QED
    BY <2>1, <2>2, <2>3, <2>4, <2>5, <2>6, <2>7, <2>8 DEF Next
<1> QED
  BY <1>1, <1>2, PTL DEF Spec

\* Outstanding LP is always backed by both vaults.
THEOREM ReservesAlwaysBackSupply == Spec => []ReservesBackSupply
  BY PoolInvariant, PTL DEF Inv

\* Vaults and supply stay in range, so every instruction reads a state the
\* quotes are defined on.
THEOREM TypesPreserved == Spec => []TypeOK
  BY PoolInvariant, PTL DEF Inv

-----------------------------------------------------------------------------
(* Swaps *)

\* K is the product of the vaults.
LEMMA ProductOf ==
  ASSUME NEW s, s.r \in Pair, NEW t \in Token
  PROVE  /\ s.r[t] \in Nat /\ s.r[Other(t)] \in Nat
         /\ K(s) \in Nat
         /\ K(s) = Product(s.r)
  BY ProductFacts DEF K, Product

\* The legs of a swap leave a pool, and lose nothing.
LEMMA LegsKeepK ==
  ASSUME NEW s \in Pool, NEW n, NEW t \in Token, NEW amount \in Nat, s.r[t] + amount <= U64Max,
         NEW out \in SwapFormula(s.r[t], s.r[Other(t)], amount, s.fee),
         n = [s EXCEPT !.r = Minus(Plus(s.r, Just(t, amount)), Just(Other(t), out))]
  PROVE  n \in Pool /\ n.l = s.l /\ K(n) >= K(s)
  <1> DEFINE r == Minus(Plus(s.r, Just(t, amount)), Just(Other(t), out))
  <1>1. s.r \in Pair /\ s.fee \in Nat
    BY SnapshotType, FeesAssumption DEF Pool
  <1>2. r \in Pair /\ Product(r) >= Product(s.r)
    BY <1>1, LegsKeepProduct
  <1> HIDE DEF r
  <1>3. n = [s EXCEPT !.r = r]
    BY DEF r
  <1>4. n \in Pool /\ n.r = r /\ n.l = s.l
    BY <1>2, <1>3 DEF Pool
  <1> QED
    BY <1>1, <1>2, <1>4, ProductOf DEF Token

LEMMA SwapKeepsK ==
  ASSUME NEW s \in Pool, NEW amount \in U64, NEW t \in Token, NEW minOut,
         NEW n \in AfterSwap(s, amount, t, minOut)
  PROVE  n \in Pool /\ n.l = s.l /\ K(n) >= K(s)
  <1>1. PICK out \in Swap(Snapshot(s), amount, t, minOut) :
          /\ s.r[t] + amount <= U64Max
          /\ n = [s EXCEPT !.r = Minus(Plus(s.r, Just(t, amount)), Just(Other(t), out))]
    BY DEF AfterSwap
  <1>2. out \in SwapFormula(s.r[t], s.r[Other(t)], amount, s.fee)
    BY <1>1, SnapshotType DEF Swap, SwapOut, Snapshot, New
  <1> QED
    BY <1>1, <1>2, LegsKeepK, U64Facts

-----------------------------------------------------------------------------
(* Withdrawals *)

\* Of either kind, a withdrawal burns what was asked, leaves a product of at
\* least what the shares leave, and so does not lower the value of an LP token.
LEMMA WithdrawalKeeps ==
  ASSUME NEW s \in Pool, NEW lp \in U64, NEW side \in Side, NEW floor,
         NEW n \in AfterWithdraw(s, lp, side, floor)
  PROVE  /\ n \in Pool
         /\ s.l > 0 /\ lp <= s.l /\ n.l = s.l - lp
         /\ \A t \in Token : Rest(Snapshot(s), lp, t) \in Nat
         /\ K(n) >= Rest(Snapshot(s), lp, "X") * Rest(Snapshot(s), lp, "Y")
         /\ K(n) * s.l * s.l >= K(s) * n.l * n.l
  <1> DEFINE p == Snapshot(s)
  <1>1. PICK q \in Withdraw(p, lp, side, floor) :
          /\ lp <= s.l
          /\ n = [s EXCEPT !.r = Left(p, q), !.l = s.l - lp]
    BY SnapshotType DEF AfterWithdraw, Left
  <1>2. n \in Pool
    BY WithdrawBacked
  <1>3. n.r = Left(p, q) /\ n.l = s.l - lp
    BY <1>1 DEF Pool
  <1>4. p \in PoolState /\ p.r = s.r /\ p.l = s.l
    BY SnapshotType
  <1>5. K(n) = Product(Left(p, q)) /\ K(s) = Product(p.r)
    BY <1>3, <1>4 DEF K, Product
  <1> HIDE DEF p
  <1>6. /\ p.l > 0
        /\ \A t \in Token : Rest(p, lp, t) \in Nat
        /\ Product(Left(p, q)) >= Rest(p, lp, "X") * Rest(p, lp, "Y")
        /\ Product(Left(p, q)) * p.l * p.l >= Product(p.r) * (p.l - lp) * (p.l - lp)
    BY <1>1, <1>4, WithdrawKeepsRest, WithdrawKeepsValue
  <1> QED
    BY <1>1, <1>2, <1>3, <1>4, <1>5, <1>6 DEF p

-----------------------------------------------------------------------------
(* Deposits *)

\* A deposit into a live pool is a swap leg that loses nothing and a mint at the
\* reserves it leaves.
LEMMA LaterDepositParts ==
  ASSUME NEW s \in Pool, s.l > 0, NEW offer \in Offers(U64), NEW side, NEW minLp,
         NEW n \in AfterDeposit(s, offer, side, minLp)
  PROVE  /\ n \in Pool
         /\ \E m \in Pool, lp \in Nat :
              /\ m.l = s.l /\ K(m) >= K(s)
              /\ n.l = s.l + AsU64(lp)
              /\ \A t \in Token : n.r[t] = m.r[t] + ((m.r[t] * lp) \div s.l)
  <1>1. PICK q \in Deposit(Snapshot(s), offer, side, minLp) :
          /\ n = [s EXCEPT !.r = Plus(Minus(Plus(s.r, q.swapIn), q.swapOut), q.deposit),
                           !.l = s.l + q.lp]
    BY DEF AfterDeposit
  <1>2. n \in Pool
    BY DepositBacked
  <1>3. /\ n.l = s.l + q.lp
        /\ \A t \in Token : n.r[t] = ((s.r[t] + q.swapIn[t]) - q.swapOut[t]) + q.deposit[t]
    <2>1. n.r = Plus(Minus(Plus(s.r, q.swapIn), q.swapOut), q.deposit) /\ n.l = s.l + q.lp
      BY <1>1 DEF Pool
    <2> QED
      BY <2>1, Zenon DEF Plus, Minus
  <1>4. Snapshot(s) \in PoolState /\ Snapshot(s).r = s.r /\ Snapshot(s).l = s.l
    BY SnapshotType
  <1>5. /\ s.r \in Pair /\ s.l \in U64 /\ s.l \in Nat /\ s.fee \in Nat
        /\ \A t \in Token : s.r[t] \in Nat
    BY SnapshotType, PairFacts, U64Facts, FeesAssumption DEF Pool
  <1>6. CASE DOMAIN offer = Token /\ offer \in Pair
             /\ q \in DepositBalanced(Snapshot(s), offer, minLp)
    <2>2. /\ q.swapIn = Nothing /\ q.swapOut = Nothing
          /\ \E lp \in Nat :
               /\ q.lp = AsU64(lp)
               /\ \A t \in Token : /\ q.deposit[t] = (s.r[t] * lp) \div s.l
                                    /\ q.deposit[t] \in Nat
      BY <1>4, <1>6, LaterMintParts
    <2>3. PICK lp \in Nat : /\ q.lp = AsU64(lp)
                            /\ \A t \in Token : /\ q.deposit[t] = (s.r[t] * lp) \div s.l
                                                 /\ q.deposit[t] \in Nat
      BY <2>2
    <2>4. ASSUME NEW t \in Token
          PROVE  n.r[t] = s.r[t] + ((s.r[t] * lp) \div s.l)
      <3>1. Nothing[t] = 0
        BY DEF Nothing
      <3>2. n.r[t] = ((s.r[t] + 0) - 0) + q.deposit[t]
        BY <1>3, <2>2, <3>1
      <3>3. s.r[t] \in Nat /\ q.deposit[t] \in Nat
        BY <1>5, <2>3
      <3>4. n.r[t] = s.r[t] + q.deposit[t]
        BY <3>2, <3>3, SMT
      <3> QED
        BY <2>3, <3>4
    <2>5. K(s) >= K(s)
      <3>1. K(s) \in Nat
        BY <1>5, ProductOf DEF Token
      <3> QED
        BY <3>1, SMT
    <2> QED
      BY <1>2, <1>3, <2>3, <2>4, <2>5
  <1>7. CASE side \in Token /\ DOMAIN offer = {side} /\ offer[side] \in U64
             /\ q \in DepositSingle(Snapshot(s), side, offer[side], minLp)
    <2> DEFINE amount == offer[side]
               after(half, out) == Halfway(Snapshot(s), side, half, out)
               rest(half, out)  == SecondHalf(side, amount - half, out)
    <2>1. PICK half \in U64, out \in U64, b \in DepositQuotes :
            /\ Snapshot(s).r[side] + half <= U64Max
            /\ out \in SwapFormula(Snapshot(s).r[side], Snapshot(s).r[Other(side)],
                                   half, Snapshot(s).fee)
            /\ after(half, out) \in PoolState /\ rest(half, out) \in Pair
            /\ b \in DepositBalanced(after(half, out), rest(half, out), minLp)
            /\ q.lp = b.lp /\ q.deposit = b.deposit
            /\ q.swapIn = Just(side, half) /\ q.swapOut = Just(Other(side), out)
      BY <1>4, <1>7, SingleParts
    <2> DEFINE legs == Minus(Plus(s.r, Just(side, half)), Just(Other(side), out))
               m    == [s EXCEPT !.r = legs]
    <2>2. m \in Pool /\ m.l = s.l /\ K(m) >= K(s)
      <3>1. /\ s.r[side] + half <= U64Max /\ half \in Nat
            /\ out \in SwapFormula(s.r[side], s.r[Other(side)], half, s.fee)
        BY <2>1, <1>4, U64Facts DEF Snapshot, New
      <3> HIDE DEF legs
      <3>2. m \in Pool /\ m.l = s.l /\ K(m) >= K(s)
        BY <1>7, <3>1, LegsKeepK DEF legs
      <3> QED
        BY <3>2
    <2>3. m.r = legs
      BY DEF Pool
    <2>4. after(half, out).r = m.r /\ after(half, out).l = s.l
      BY <1>4, <2>3 DEF Halfway, New
    <2> HIDE DEF m, after, rest
    <2>5. PICK lp \in Nat :
            /\ b.lp = AsU64(lp)
            /\ \A t \in Token : /\ b.deposit[t] = (m.r[t] * lp) \div s.l
                                 /\ b.deposit[t] \in Nat
      BY <2>1, <2>4, LaterMintParts
    <2>6. ASSUME NEW t \in Token
          PROVE  n.r[t] = m.r[t] + ((m.r[t] * lp) \div s.l)
      <3>1. legs[t] = (s.r[t] + Just(side, half)[t]) - Just(Other(side), out)[t]
        BY Zenon DEF Minus, Plus
      <3> QED
        BY <1>3, <2>1, <2>3, <2>5, <3>1
    <2> QED
      BY <1>2, <1>3, <2>1, <2>2, <2>5, <2>6
  <1> QED
    BY <1>1, <1>6, <1>7, DepositKinds

\* A mint of lp at reserve r deposits k, which is the share of lp but for the
\* rounding: k + 1 would be more.  To withdraw no more than lp then pays no more
\* than k, and to withdraw lp pays k.
LEMMA MintAndRedeem ==
  ASSUME NEW r \in Nat, NEW l \in Nat, l > 0, NEW lp \in Nat, NEW m \in Nat, m <= lp,
         NEW k, k = (r * lp) \div l
  PROVE  /\ k \in Nat
         /\ (r + k + 1) * l >= r * (l + m)
         /\ ((r + k) * m) \div (l + m) \in Nat
         /\ ((r + k) * m) \div (l + m) <= k
         /\ m = lp => ((r + k) * m) \div (l + m) = k
  <1>1. r * lp \in Nat /\ r * m \in Nat /\ r * m <= r * lp
    BY Times
  <1>2. k \in Nat /\ l * k <= r * lp /\ r * lp < l * k + l
    BY <1>1, DivBounds
  <1>3. (r + k + 1) * l >= r * (l + m)
    <2>1. (r + k + 1) * l = r * l + (l * k + l)
      BY <1>2, SMT
    <2>2. r * (l + m) = r * l + r * m
      BY SMT
    <2>3. r * l \in Nat /\ l * k \in Nat
      BY <1>2, SMT
    <2> QED
      BY <1>1, <1>2, <2>1, <2>2, <2>3, SMT
  <1> DEFINE d == l + m
             a == (r + k) * m
             back == a \div d
  <1>4. d \in Nat /\ d > 0 /\ a \in Nat
    BY <1>2, SMT
  <1>5. a = r * m + k * m /\ k * m \in Nat
    BY <1>2, SMT
  <1>6. d * k = l * k + k * m /\ d * (k + 1) = (l * k + l) + (k * m + m)
    BY <1>2, SMT
  <1>7. l * k \in Nat
    BY <1>2, SMT
  <1>8. a < d * (k + 1)
    BY <1>1, <1>2, <1>5, <1>6, <1>7, SMT
  <1>9. m = lp => d * k <= a
    BY <1>1, <1>2, <1>5, <1>6, <1>7, SMT
  <1> HIDE DEF a, d
  <1>10. back \in Nat /\ back <= k
    <2>1. back \in Nat /\ back < k + 1
      BY <1>2, <1>4, <1>8, DivBounds, DivBelow
    <2> QED
      BY <1>2, <2>1, SMT
  <1>11. ASSUME m = lp
         PROVE  back = k
    <2>1. d * k < d * (back + 1)
      <3>1. a < d * back + d /\ d * k <= a
        BY <1>4, <1>9, <1>11, DivBounds
      <3>2. d * (back + 1) = d * back + d /\ d * back \in Nat /\ d * k \in Nat
        BY <1>2, <1>4, <1>10, SMT
      <3> HIDE DEF back
      <3> QED
        BY <1>4, <3>1, <3>2, SMT
    <2> HIDE DEF back
    <2>2. k < back + 1
      BY <1>2, <1>4, <1>10, <2>1, SMT
    <2> QED
      BY <1>2, <1>10, <2>2, SMT
  <1> QED
    BY <1>2, <1>3, <1>10, <1>11 DEF a, d

LEMMA MintAndRedeemAll ==
  ASSUME NEW r \in Nat, NEW l \in Nat, l > 0, NEW lp \in Nat, NEW k, k = (r * lp) \div l
  PROVE  k \in Nat /\ ((r + k) * lp) \div (l + lp) = k
  <1> DEFINE m == lp
  <1>1. m \in Nat /\ m <= lp /\ m = lp
    BY SMT
  <1> HIDE DEF m
  <1>2. k \in Nat /\ ((r + k) * m) \div (l + m) = k
    BY <1>1, MintAndRedeem
  <1> QED
    BY <1>1, <1>2

-----------------------------------------------------------------------------

\* What every swap pays is on the curve.
THEOREM SwapsAlwaysOnCurve == Spec => []SwapsOnCurve
<1>1. ASSUME Inv
      PROVE  SwapsOnCurve
  <2> SUFFICES ASSUME NEW t \in Token, NEW amount \in U64,
                      NEW out \in Swap(Snapshot(pool), amount, t, 0)
               PROVE  LET rIn  == pool.r[t]
                          rOut == pool.r[Other(t)]
                          eff  == (BPS - pool.fee) * amount
                      IN  /\ out < rOut
                          /\ KeepsProduct(rIn, rOut, eff, out)
                          /\ ~KeepsProduct(rIn, rOut, eff, out + 1)
    BY DEF SwapsOnCurve
  <2>1. pool \in Pool
    BY <1>1 DEF Inv, TypeOK
  <2>2. /\ pool.r \in Pair /\ pool.fee \in Nat
        /\ Other(t) \in Token
        /\ pool.r[t] \in Nat /\ pool.r[Other(t)] \in U64 /\ pool.r[Other(t)] \in Nat
        /\ amount \in Nat
    BY <2>1, SnapshotType, PairFacts, TokenFacts, U64Facts, FeesAssumption DEF Pool
  <2>3. /\ pool.r[t] > 0 /\ pool.r[Other(t)] > 0
        /\ out \in SwapFormula(pool.r[t], pool.r[Other(t)], amount, pool.fee)
    BY <2>1, <2>2, SnapshotType DEF Swap, SwapOut, Snapshot, New
  <2> QED
    BY <2>2, <2>3, SwapFormulaOnCurve, SwapFormulaBounds DEF KeepsProduct
<1> QED
  BY <1>1, PoolInvariant, PTL

\* A deposit does not lower the product of the vaults, and lowers the value of an
\* LP token by less than one unit of each token.
LEMMA DepositKeepsAlmost ==
  ASSUME NEW s \in Pool, s.l > 0, NEW offer \in Offers(U64), NEW side, NEW minLp,
         NEW n \in AfterDeposit(s, offer, side, minLp)
  PROVE  /\ n \in Pool
         /\ K(n) >= K(s)
         /\ (n.r["X"] + 1) * (n.r["Y"] + 1) * s.l * s.l >= K(s) * n.l * n.l
  <1>1. PICK m \in Pool, lp \in Nat :
          /\ m.l = s.l /\ K(m) >= K(s)
          /\ n.l = s.l + AsU64(lp)
          /\ \A t \in Token : n.r[t] = m.r[t] + ((m.r[t] * lp) \div s.l)
    BY LaterDepositParts
  <1>2. n \in Pool
    BY LaterDepositParts
  <1>3. /\ s.r \in Pair /\ m.r \in Pair /\ n.r \in Pair
        /\ s.l \in Nat /\ n.l \in Nat
        /\ AsU64(lp) \in Nat /\ AsU64(lp) <= lp
    BY <1>2, SnapshotType, U64Facts, AsU64Bounds
  <1>4. ASSUME NEW t \in Token
        PROVE  /\ m.r[t] \in Nat /\ n.r[t] \in Nat
               /\ m.r[t] <= n.r[t]
               /\ (n.r[t] + 1) * s.l >= m.r[t] * n.l
    <2> DEFINE k == (m.r[t] * lp) \div s.l
    <2>1. m.r[t] \in Nat /\ n.r[t] \in Nat /\ n.r[t] = m.r[t] + k
      BY <1>1, <1>3, PairFacts
    <2>2. k \in Nat /\ (m.r[t] + k + 1) * s.l >= m.r[t] * (s.l + AsU64(lp))
      BY <1>3, <2>1, MintAndRedeem
    <2> HIDE DEF k
    <2> QED
      BY <1>1, <2>1, <2>2, SMT
  <1>5. K(m) <= K(n)
    BY <1>4, Times DEF K, Token
  <1>6. K(s) \in Nat /\ K(m) \in Nat /\ K(n) \in Nat
    BY <1>3, ProductOf DEF Token
  <1>7. (n.r["X"] + 1) * (n.r["Y"] + 1) * s.l * s.l >= K(m) * n.l * n.l
    <2>1. n.r["X"] + 1 \in Nat /\ n.r["Y"] + 1 \in Nat /\ m.r["X"] \in Nat /\ m.r["Y"] \in Nat
      BY <1>4, SMT DEF Token
    <2>2. (n.r["X"] + 1) * s.l >= m.r["X"] * n.l /\ (n.r["Y"] + 1) * s.l >= m.r["Y"] * n.l
      BY <1>4 DEF Token
    <2> QED
      BY <1>3, <2>1, <2>2, ProductOfShares DEF K
  <1>8. K(m) * n.l * n.l >= K(s) * n.l * n.l
    <2>1. n.l <= n.l
      BY <1>3, SMT
    <2> QED
      BY <1>1, <1>3, <1>6, <2>1, SquaresMonotone
  <1>9. /\ (n.r["X"] + 1) * (n.r["Y"] + 1) * s.l * s.l \in Int
        /\ K(m) * n.l * n.l \in Int /\ K(s) * n.l * n.l \in Int
    <2>1. n.r["X"] \in Nat /\ n.r["Y"] \in Nat
      BY <1>4 DEF Token
    <2>2. \A a, b, c \in Nat : (a + 1) * (b + 1) * c * c \in Int /\ a * b * b \in Int
      BY SMT
    <2> QED
      BY <1>3, <1>6, <2>1, <2>2
  <1> QED
    BY <1>1, <1>2, <1>5, <1>6, <1>7, <1>8, <1>9, SMT

\* What an LP token that a step leaves has a claim to: see ValuePerLpNeverFalls.
Remaining == IF burned' = burned THEN pool'.l ELSE pool'.l + burned'

\* Steps that make no quote take nothing out and add nothing to the claims.
LEMMA OtherSteps ==
  ASSUME Inv,
         \/ \E lp \in U64 : BurnLp(lp) \/ BurnElsewhere(lp)
         \/ \E fee \in Fees, owned, locked \in BOOLEAN : UpdateConfig(fee, owned, locked)
         \/ \E t \in Token, amount \in U64 : Donate(t, amount)
  PROVE  /\ pool'.l \in Nat /\ pool'.l <= pool.l
         /\ Remaining \in Nat /\ Remaining <= pool.l + burned
         /\ K(pool') \in Nat /\ K(pool') >= K(pool)
  <1>1. /\ pool \in Pool /\ pool.r \in Pair /\ pool.l \in Nat
        /\ burned \in Nat
        /\ pool.r["X"] \in Nat /\ pool.r["Y"] \in Nat
        /\ K(pool) \in Nat
    BY SnapshotType, U64Facts, PairFacts, ProductOf DEF Inv, TypeOK, Token
  <1>2. CASE \E lp \in U64 : BurnLp(lp) \/ BurnElsewhere(lp)
    <2>1. PICK lp \in U64 : /\ lp <= pool.l
                            /\ pool' = [pool EXCEPT !.l = pool.l - lp]
                            /\ burned' \in {0, lp, burned}
      BY <1>2 DEF BurnLp, BurnElsewhere, Before
    <2>2. pool'.l = pool.l - lp /\ pool'.r = pool.r /\ lp \in Nat
      BY <1>1, <2>1, U64Facts DEF Pool
    <2>3. K(pool') = K(pool)
      BY <2>2 DEF K
    <2> QED
      BY <1>1, <2>1, <2>2, <2>3, SMT DEF Remaining
  <1>3. CASE \E fee \in Fees, owned, locked \in BOOLEAN : UpdateConfig(fee, owned, locked)
    <2>1. pool'.l = pool.l /\ pool'.r = pool.r /\ burned' \in {0, burned}
      BY <1>1, <1>3 DEF UpdateConfig, Before, Pool
    <2>2. K(pool') = K(pool)
      BY <2>1 DEF K
    <2> QED
      BY <1>1, <2>1, <2>2, SMT DEF Remaining
  <1>4. CASE \E t \in Token, amount \in U64 : Donate(t, amount)
    <2>1. PICK t \in Token, amount \in U64 :
            /\ pool' = [pool EXCEPT !.r = [pool.r EXCEPT ![t] = pool.r[t] + amount]]
            /\ burned' \in {0, burned}
      BY <1>4 DEF Donate, Before
    <2>2. pool'.l = pool.l /\ pool'.r = [pool.r EXCEPT ![t] = pool.r[t] + amount]
      BY <1>1, <2>1 DEF Pool
    <2>3. ASSUME NEW u \in Token
          PROVE  pool'.r[u] \in Nat /\ pool.r[u] \in Nat /\ pool.r[u] <= pool'.r[u]
      <3>1. pool.r[u] \in Nat /\ amount \in Nat
        BY <1>1, PairFacts, U64Facts
      <3>2. pool'.r[u] = IF u = t THEN pool.r[u] + amount ELSE pool.r[u]
        BY <1>1, <2>2 DEF Pair
      <3> QED
        BY <3>1, <3>2, SMT
    <2>4. K(pool) <= K(pool') /\ K(pool') \in Nat
      BY <2>3, Times DEF K, Token
    <2> QED
      BY <1>1, <2>1, <2>2, <2>4, SMT DEF Remaining
  <1> QED
    BY <1>2, <1>3, <1>4

\* What deposits can cost the holders is bounded.
THEOREM DilutionAlwaysBounded == Spec => DepositDilutionBounded
<1> DEFINE Bounded == pool.l > 0 /\ pool'.l > pool.l =>
                        (pool'.r["X"] + 1) * (pool'.r["Y"] + 1) * pool.l * pool.l
                          >= K(pool) * pool'.l * pool'.l
<1>1. Inv /\ [Next]_vars => [Bounded]_vars
  <2> SUFFICES ASSUME Inv, Next, pool.l > 0, pool'.l > pool.l
               PROVE  (pool'.r["X"] + 1) * (pool'.r["Y"] + 1) * pool.l * pool.l
                        >= K(pool) * pool'.l * pool'.l
    OBVIOUS
  <2>0. pool \in Pool /\ pool.l \in Nat
    BY SnapshotType, U64Facts DEF Inv, TypeOK
  <2>1. CASE \E offer \in Offers(U64), side \in Side : DoDeposit(offer, side)
    BY <2>0, <2>1, DepositKeepsAlmost DEF DoDeposit
  <2>2. CASE \E amount \in U64, t \in Token : DoSwap(amount, t)
    BY <2>0, <2>2, SwapKeepsK, SMT DEF DoSwap
  <2>3. CASE \E lp \in U64, side \in Side : DoWithdraw(lp, side)
    <3>1. PICK lp \in U64 : pool'.l = pool.l - lp
      BY <2>0, <2>3, WithdrawalKeeps DEF DoWithdraw
    <3> QED
      BY <2>0, <3>1, U64Facts, SMT
  <2>4. CASE \E lp \in U64, side \in Side : WithdrawBurned(lp, side)
    <3> DEFINE s(lp) == [pool EXCEPT !.l = pool.l + lp]
    <3>1. PICK lp \in U64, side \in Side :
            /\ pool.l + lp <= U64Max
            /\ pool' \in AfterWithdraw(s(lp), lp, side, Nothing)
      BY <2>4 DEF WithdrawBurned
    <3>2. s(lp) \in Pool /\ s(lp).l = pool.l + lp
      BY <2>0, <3>1, U64Facts, SMT DEF Pool
    <3>3. pool'.l = (pool.l + lp) - lp
      BY <3>1, <3>2, WithdrawalKeeps
    <3> QED
      BY <2>0, <3>3, U64Facts, SMT
  <2>5. CASE \/ \E lp \in U64 : BurnLp(lp) \/ BurnElsewhere(lp)
             \/ \E fee \in Fees, owned, locked \in BOOLEAN : UpdateConfig(fee, owned, locked)
             \/ \E t \in Token, amount \in U64 : Donate(t, amount)
    <3>1. pool'.l \in Nat /\ pool'.l <= pool.l
      BY <2>5, OtherSteps
    <3> QED
      BY <2>0, <3>1, SMT
  <2> QED
    BY <2>1, <2>2, <2>3, <2>4, <2>5 DEF Next
<1> QED
  BY <1>1, PoolInvariant, PTL DEF Spec, DepositDilutionBounded

\* A first deposit mints, so it is no step this is about.
LEMMA FirstDepositMints ==
  ASSUME NEW s \in Pool, s.l = 0, NEW offer \in Offers(U64), NEW side, NEW minLp,
         NEW n \in AfterDeposit(s, offer, side, minLp)
  PROVE  /\ n \in Pool
         /\ n.l > 0
         /\ K(n) >= n.l * n.l
  <1>1. PICK q \in Deposit(Snapshot(s), offer, side, minLp) :
          n = [s EXCEPT !.r = Plus(Minus(Plus(s.r, q.swapIn), q.swapOut), q.deposit),
                        !.l = s.l + q.lp]
    BY DEF AfterDeposit
  <1>2. n \in Pool
    BY DepositBacked
  <1>3. /\ Snapshot(s) \in PoolState /\ Snapshot(s).l = 0
        /\ s.r \in Pair
    BY SnapshotType
  <1>4. offer \in Pair /\ q \in DepositBalanced(Snapshot(s), offer, minLp)
    BY <1>1, <1>3 DEF Deposit, DepositSingle, Offers, Pair
  <1>5. /\ q.deposit = offer /\ q.swapIn = Nothing /\ q.swapOut = Nothing
        /\ q.lp \in Nat /\ q.lp > 0
        /\ q.lp * q.lp <= offer["X"] * offer["Y"]
    BY <1>3, <1>4, FirstMintParts
  <1>6. /\ n.l = q.lp
        /\ \A t \in Token : n.r[t] = ((s.r[t] + q.swapIn[t]) - q.swapOut[t]) + q.deposit[t]
    <2>1. n.r = Plus(Minus(Plus(s.r, q.swapIn), q.swapOut), q.deposit) /\ n.l = 0 + q.lp
      BY <1>1 DEF Pool
    <2>2. n.l = q.lp
      BY <1>5, <2>1, SMT
    <2> QED
      BY <2>1, <2>2, Zenon DEF Plus, Minus
  <1>7. ASSUME NEW t \in Token
        PROVE  offer[t] \in Nat /\ n.r[t] \in Nat /\ offer[t] <= n.r[t]
    <2>1. Nothing[t] = 0
      BY DEF Nothing
    <2>2. n.r[t] = ((s.r[t] + 0) - 0) + offer[t]
      BY <1>5, <1>6, <2>1
    <2>3. s.r[t] \in Nat /\ offer[t] \in Nat
      BY <1>3, <1>4, PairFacts
    <2> QED
      BY <2>2, <2>3, SMT
  <1>8. /\ offer["X"] * offer["Y"] \in Nat /\ K(n) \in Nat
        /\ offer["X"] * offer["Y"] <= K(n)
    BY <1>7, Times DEF K, Token
  <1>9. q.lp * q.lp \in Nat
    BY <1>5, SMT
  <1> QED
    BY <1>2, <1>5, <1>6, <1>8, <1>9, SMT

\* Between deposits the value of an LP token never falls, and one instruction that
\* leaves its evidence to a next pays no more than the LP it burned or was shown.
THEOREM ValueNeverFalls == Spec => ValuePerLpNeverFalls
<1> DEFINE Kept == pool'.l <= pool.l =>
                     LET left == IF burned' = burned THEN pool'.l ELSE Claims'
                     IN  K(pool') * Claims * Claims >= K(pool) * left * left
<1>1. Inv /\ [Next]_vars => [Kept]_vars
  <2> SUFFICES ASSUME Inv, Next, pool'.l <= pool.l
               PROVE  K(pool') * Claims * Claims >= K(pool) * Remaining * Remaining
    BY DEF Remaining, Claims
  <2>0. /\ pool \in Pool /\ pool.r \in Pair /\ pool.l \in U64 /\ pool.l \in Nat
        /\ burned \in U64 /\ burned \in Nat
        /\ K(pool) \in Nat
        /\ Claims \in Nat /\ pool.l <= Claims
    <3>1. pool \in Pool /\ pool.r \in Pair /\ pool.l \in U64 /\ pool.l \in Nat /\ burned \in U64 /\ burned \in Nat
      BY SnapshotType, U64Facts DEF Inv, TypeOK
    <3>2. Claims \in Nat /\ pool.l <= Claims
      BY <3>1, SMT DEF Claims
    <3> QED
      BY <3>1, <3>2, ProductOf DEF Token
  <2>1. ASSUME pool' \in Pool, burned' \in {0, burned}, K(pool') >= K(pool)
        PROVE  K(pool') * Claims * Claims >= K(pool) * Remaining * Remaining
    <3>1. pool'.l \in Nat /\ K(pool') \in Nat
      BY <2>1, SnapshotType, U64Facts, ProductOf DEF Token
    <3>2. Remaining \in Nat /\ Remaining <= Claims
      BY <2>0, <2>1, <3>1, SMT DEF Remaining
    <3> QED
      BY <2>0, <2>1, <3>1, <3>2, SquaresMonotone
  <2>2. CASE \E amount \in U64, t \in Token : DoSwap(amount, t)
    BY <2>0, <2>1, <2>2, SwapKeepsK DEF DoSwap, Before
  <2>3. CASE \E offer \in Offers(U64), side \in Side : DoDeposit(offer, side)
    <3>1. PICK offer \in Offers(U64), side \in Side : pool' \in AfterDeposit(pool, offer, side, 0)
      BY <2>3 DEF DoDeposit
    <3>2. CASE pool.l > 0
      BY <2>0, <2>1, <2>3, <3>1, <3>2, DepositKeepsAlmost DEF DoDeposit, Before
    <3>3. CASE pool.l = 0
      <4>1. pool' \in Pool /\ pool'.l > 0
        BY <2>0, <3>1, <3>3, FirstDepositMints
      <4> QED
        BY <3>3, <4>1, SnapshotType, U64Facts, SMT
    <3> QED
      BY <2>0, <3>2, <3>3, SMT
  <2>4. CASE \E lp \in U64, side \in Side : DoWithdraw(lp, side)
    <3>1. /\ pool' \in Pool /\ burned' \in {0, burned}
          /\ K(pool') * pool.l * pool.l >= K(pool) * pool'.l * pool'.l
      BY <2>0, <2>4, WithdrawalKeeps DEF DoWithdraw, Before
    <3>2. K(pool') \in Nat /\ pool'.l \in Nat
      BY <3>1, SnapshotType, U64Facts, ProductOf DEF Token
    <3>3. Remaining = pool'.l
      BY <3>1, <3>2, SMT DEF Remaining
    <3>4. K(pool') * Claims * Claims >= K(pool') * pool.l * pool.l
      <4>1. K(pool') <= K(pool')
        BY <3>2, SMT
      <4> QED
        BY <2>0, <3>2, <4>1, SquaresMonotone
    <3>5. /\ K(pool') * Claims * Claims \in Int /\ K(pool') * pool.l * pool.l \in Int
          /\ K(pool) * pool'.l * pool'.l \in Int
      <4>1. \A a, b \in Nat : a * b * b \in Int
        BY SMT
      <4> QED
        BY <2>0, <3>2, <4>1
    <3> QED
      BY <3>1, <3>3, <3>4, <3>5, SMT
  <2>5. CASE \E lp \in U64, side \in Side : WithdrawBurned(lp, side)
    <3> DEFINE s(lp) == [pool EXCEPT !.l = pool.l + lp]
    <3>1. PICK lp \in U64, side \in Side :
            /\ lp = burned
            /\ pool.l + lp <= U64Max
            /\ pool' \in AfterWithdraw(s(lp), lp, side, Nothing)
            /\ burned' \in {0, burned}
      BY <2>5 DEF WithdrawBurned, Before
    <3>2. s(lp) \in Pool /\ s(lp).l = Claims /\ s(lp).r = pool.r
      BY <2>0, <3>1, U64Facts, SMT DEF Pool, Claims
    <3>3. K(s(lp)) = K(pool)
      BY <3>2 DEF K
    <3> HIDE DEF s
    <3>4. /\ pool' \in Pool
          /\ K(pool') * Claims * Claims >= K(pool) * pool'.l * pool'.l
      BY <3>1, <3>2, <3>3, WithdrawalKeeps
    <3>5. Remaining = pool'.l
      <4>1. pool'.l \in Nat
        BY <3>4, SnapshotType, U64Facts
      <4> QED
        BY <3>1, <4>1, SMT DEF Remaining
    <3> QED
      BY <3>4, <3>5
  <2>6. CASE \/ \E lp \in U64 : BurnLp(lp) \/ BurnElsewhere(lp)
             \/ \E fee \in Fees, owned, locked \in BOOLEAN : UpdateConfig(fee, owned, locked)
             \/ \E t \in Token, amount \in U64 : Donate(t, amount)
    <3>1. /\ Remaining \in Nat /\ Remaining <= Claims
          /\ K(pool') \in Nat /\ K(pool') >= K(pool)
      BY <2>6, OtherSteps DEF Claims
    <3> QED
      BY <2>0, <3>1, SquaresMonotone
  <2> QED
    BY <2>2, <2>3, <2>4, <2>5, <2>6 DEF Next
<1> QED
  BY <1>1, PoolInvariant, PTL DEF Spec, ValuePerLpNeverFalls

\* LP is worth at least 1 when it is first minted.
THEOREM FirstMintAlwaysBacked == Spec => FirstMintIsBacked
<1> DEFINE Backing == pool.l = 0 /\ pool'.l > 0 => K(pool') >= pool'.l * pool'.l
<1>1. Inv /\ [Next]_vars => [Backing]_vars
  <2> SUFFICES ASSUME Inv, Next, pool.l = 0, pool'.l > 0
               PROVE  K(pool') >= pool'.l * pool'.l
    OBVIOUS
  <2>0. pool \in Pool
    BY DEF Inv, TypeOK
  <2>1. CASE \E offer \in Offers(U64), side \in Side : DoDeposit(offer, side)
    BY <2>0, <2>1, FirstDepositMints DEF DoDeposit
  <2>2. CASE \E amount \in U64, t \in Token : DoSwap(amount, t)
    BY <2>0, <2>2, SwapKeepsK, SMT DEF DoSwap
  <2>3. CASE \E lp \in U64, side \in Side : DoWithdraw(lp, side)
    <3>1. PICK lp \in U64 : pool'.l = pool.l - lp
      BY <2>0, <2>3, WithdrawalKeeps DEF DoWithdraw
    <3> QED
      BY <3>1, U64Facts, SMT
  <2>4. CASE \E lp \in U64, side \in Side : WithdrawBurned(lp, side)
    <3> DEFINE s(lp) == [pool EXCEPT !.l = pool.l + lp]
    <3>1. PICK lp \in U64, side \in Side :
            /\ pool.l + lp <= U64Max
            /\ pool' \in AfterWithdraw(s(lp), lp, side, Nothing)
      BY <2>4 DEF WithdrawBurned
    <3>2. s(lp) \in Pool /\ s(lp).l = pool.l + lp
      BY <2>0, <3>1, U64Facts, SMT DEF Pool
    <3>3. pool'.l = (pool.l + lp) - lp
      BY <3>1, <3>2, WithdrawalKeeps
    <3> QED
      BY <3>3, U64Facts, SMT
  <2>5. CASE \/ \E lp \in U64 : BurnLp(lp) \/ BurnElsewhere(lp)
             \/ \E fee \in Fees, owned, locked \in BOOLEAN : UpdateConfig(fee, owned, locked)
             \/ \E t \in Token, amount \in U64 : Donate(t, amount)
    <3>1. pool'.l \in Nat /\ pool'.l <= pool.l
      BY <2>5, OtherSteps
    <3> QED
      BY <3>1, SMT
  <2> QED
    BY <2>1, <2>2, <2>3, <2>4, <2>5 DEF Next
<1> QED
  BY <1>1, PoolInvariant, PTL DEF Spec, FirstMintIsBacked

\* What a balanced withdrawal of the whole or a part of the supply does, if it
\* pays some of both tokens.
LEMMA BalancedWithdrawal ==
  ASSUME NEW s \in Pool, NEW lp \in U64, lp > 0, lp <= s.l,
         \A t \in Token : s.r[t] > 0,
         \A t \in Token : ProRata(Snapshot(s), lp)[t] > 0
  PROVE  AfterWithdraw(s, lp, "Balanced", Nothing)
           = {[s EXCEPT !.r = [t \in Token |-> Rest(Snapshot(s), lp, t)], !.l = s.l - lp]}
  <1> DEFINE p == Snapshot(s)
             share == ProRata(p, lp)
             w == [t \in Token |-> AsU64(share[t])]
             quote == WithdrawQuote(w, w, Nothing, Nothing)
             left == [t \in Token |-> Rest(p, lp, t)]
  <1>1. p \in PoolState /\ p.r = s.r /\ p.l = s.l /\ s.l \in Nat /\ lp \in Nat
    BY SnapshotType, U64Facts
  <1>2. p.l > 0
    BY <1>1, SMT
  <1> HIDE DEF p
  <1>3. ASSUME NEW t \in Token
        PROVE  /\ p.r[t] \in Nat
               /\ share[t] \in U64 /\ share[t] \in Nat /\ share[t] > 0
               /\ Rest(p, lp, t) \in Nat
               /\ AsU64(share[t]) = share[t]
    <2>1. /\ p.r[t] \in Nat /\ share[t] \in U64 /\ share[t] \in Nat
          /\ Rest(p, lp, t) \in Nat
      BY <1>1, <1>2, RestBounds
    <2> QED
      BY <2>1, AsU64Bounds DEF p
  <1>4. w = share
    BY <1>3 DEF ProRata
  <1>5. \A t \in Token : share[t] <= p.r[t]
    BY <1>3, SMT DEF Rest
  <1>6. WithdrawBalanced(p, lp) = {quote}
    BY <1>3, <1>4 DEF WithdrawBalanced
  <1>7. quote.withdraw = w /\ quote.proRata = w /\ quote.swapIn = Nothing /\ quote.swapOut = Nothing
    BY DEF WithdrawQuote
  <1> HIDE DEF quote, w, share
  <1>8. AtLeast(share, Nothing)
    BY <1>3, SMT DEF AtLeast, Nothing
  <1>9. Withdraw(p, lp, "Balanced", Nothing) = {quote}
    BY <1>1, <1>2, <1>4, <1>6, <1>7, <1>8 DEF Withdraw
  <1>10. AtLeast(s.r, quote.proRata)
    BY <1>1, <1>4, <1>5, <1>7 DEF AtLeast
  <1>11. Minus(Plus(Minus(s.r, quote.proRata), quote.swapIn), quote.swapOut) = left
    <2>1. ASSUME NEW t \in Token
          PROVE  ((s.r[t] - share[t]) + Nothing[t]) - Nothing[t] = Rest(p, lp, t)
      <3>1. Nothing[t] = 0
        BY DEF Nothing
      <3>2. s.r[t] \in Nat /\ share[t] \in Nat /\ Rest(p, lp, t) = s.r[t] - share[t]
        BY <1>1, <1>3 DEF Rest, share
      <3> QED
        BY <3>1, <3>2, SMT
    <2>2. Minus(Plus(Minus(s.r, share), Nothing), Nothing)
            = [t \in Token |-> ((s.r[t] - share[t]) + Nothing[t]) - Nothing[t]]
      BY Zenon DEF Minus, Plus
    <2> QED
      BY <1>4, <1>7, <2>1, <2>2
  <1> HIDE DEF left
  <1>12. AfterWithdraw(s, lp, "Balanced", Nothing) = {[s EXCEPT !.r = left, !.l = s.l - lp]}
    BY <1>9, <1>10, <1>11 DEF AfterWithdraw, p
  <1> QED
    BY <1>12 DEF left, p

\* All of the supply redeems all of the vaults.
THEOREM WholeSupplyAlwaysRedeems == Spec => []WholeSupplyRedeems
<1>1. ASSUME Inv
      PROVE  WholeSupplyRedeems
  <2> SUFFICES ASSUME pool.l > 0
               PROVE  AfterWithdraw(pool, pool.l, "Balanced", Nothing)
                        = {[pool EXCEPT !.r = Nothing, !.l = 0]}
    BY DEF WholeSupplyRedeems
  <2> DEFINE p == Snapshot(pool)
  <2>1. /\ pool \in Pool /\ pool.l \in U64 /\ pool.l \in Nat
        /\ \A t \in Token : pool.r[t] > 0 /\ pool.r[t] \in Nat
        /\ p.r = pool.r /\ p.l = pool.l
    BY <1>1, SnapshotType, U64Facts, PairFacts DEF Inv, TypeOK, ReservesBackSupply
  <2>2. ASSUME NEW t \in Token
        PROVE  ProRata(p, pool.l)[t] = pool.r[t] /\ Rest(p, pool.l, t) = 0
    BY <2>1, WholeShare, SnapshotType
  <2> HIDE DEF p
  <2>3. [t \in Token |-> Rest(p, pool.l, t)] = Nothing
    BY <2>2 DEF Nothing
  <2>4. pool.l - pool.l = 0 /\ pool.l <= pool.l
    BY <2>1, SMT
  <2>5. AfterWithdraw(pool, pool.l, "Balanced", Nothing)
          = {[pool EXCEPT !.r = [t \in Token |-> Rest(p, pool.l, t)], !.l = pool.l - pool.l]}
    BY <2>1, <2>2, <2>4, BalancedWithdrawal DEF p
  <2> QED
    BY <2>3, <2>4, <2>5
<1> QED
  BY <1>1, PoolInvariant, PTL

\* A round trip takes nothing, through whichever sides: what the mint rounded down
\* the withdrawal does not pay out.
THEOREM RoundTripsNeverProfit == Spec => []NoRoundTripProfit
<1>1. ASSUME Inv
      PROVE  NoRoundTripProfit
  <2> SUFFICES ASSUME pool.l > 0, NEW offer \in Offers(U64),
                      NEW side \in Side, NEW back \in Side,
                      NEW s \in AfterDeposit(pool, offer, side, 0),
                      NEW after \in AfterWithdraw(s, s.l - pool.l, back, Nothing)
               PROVE  K(after) >= K(pool)
    BY DEF NoRoundTripProfit
  <2>1. pool \in Pool /\ pool.r \in Pair /\ pool.l \in Nat
    BY <1>1, SnapshotType, U64Facts DEF Inv, TypeOK
  <2>3. PICK m \in Pool, lp \in Nat :
          /\ s \in Pool
          /\ K(m) >= K(pool)
          /\ s.l = pool.l + AsU64(lp)
          /\ \A v \in Token : s.r[v] = m.r[v] + ((m.r[v] * lp) \div pool.l)
    BY <2>1, LaterDepositParts
  <2> DEFINE a == AsU64(lp)
             p == Snapshot(s)
  <2>4. a \in U64 /\ a \in Nat /\ a <= lp /\ s.l - pool.l = a
    <3>1. a \in U64 /\ a \in Nat /\ a <= lp /\ s.l = pool.l + a
      BY <2>3, AsU64Bounds, U64Facts
    <3> HIDE DEF a
    <3> QED
      BY <2>1, <3>1, SMT
  <2>5. p.r = s.r /\ p.l = s.l /\ m.r \in Pair
    BY <2>3, SnapshotType
  <2> HIDE DEF p
  <2>6. ASSUME NEW v \in Token
        PROVE  m.r[v] \in Nat /\ m.r[v] <= Rest(p, a, v)
    <3> DEFINE r == m.r[v]
               k == (r * lp) \div pool.l
               paid == ((r + k) * a) \div (pool.l + a)
    <3>1. r \in Nat
      BY <2>5, PairFacts
    <3> HIDE DEF r
    <3>2. k \in Nat /\ paid \in Nat /\ paid <= k
      BY <2>1, <2>4, <3>1, MintAndRedeem
    <3>3. Rest(p, a, v) = (r + k) - paid
      BY <2>3, <2>5 DEF Rest, ProRata, r
    <3> HIDE DEF k, paid
    <3>4. r <= Rest(p, a, v)
      BY <3>1, <3>2, <3>3, SMT
    <3> QED
      BY <3>1, <3>4 DEF r
  <2>7. /\ after \in Pool
        /\ \A v \in Token : Rest(p, a, v) \in Nat
        /\ K(after) >= Rest(p, a, "X") * Rest(p, a, "Y")
    <3> HIDE DEF a
    <3> QED
      BY <2>3, <2>4, WithdrawalKeeps DEF p
  <2>8. /\ K(m) <= Rest(p, a, "X") * Rest(p, a, "Y")
        /\ Rest(p, a, "X") * Rest(p, a, "Y") \in Nat
    BY <2>6, <2>7, Times DEF K, Token
  <2>9. K(pool) \in Nat /\ K(m) \in Nat /\ K(after) \in Nat
    BY <2>1, <2>5, <2>7, SnapshotType, ProductOf DEF Token
  <2> HIDE DEF a
  <2> QED
    BY <2>3, <2>7, <2>8, <2>9, SMT
<1> QED
  BY <1>1, PoolInvariant, PTL

\* A balanced deposit into a live pool.
MintedAs(s, offer, n) ==
  /\ n = [s EXCEPT !.r = n.r, !.l = n.l]
  /\ \E lp \in Nat :
       /\ n.l = s.l + AsU64(lp)
       /\ \E t \in Token : lp = (offer[t] * s.l) \div s.r[t]
       /\ \A t \in Token : /\ lp <= (offer[t] * s.l) \div s.r[t]
                            /\ n.r[t] = s.r[t] + ((s.r[t] * lp) \div s.l)
                            /\ (s.r[t] * lp) \div s.l > 0

LEMMA BalancedDeposit ==
  ASSUME NEW s \in Pool, s.l > 0, NEW offer \in Pair, NEW minLp,
         NEW n \in AfterDeposit(s, offer, "Balanced", minLp)
  PROVE  n \in Pool /\ MintedAs(s, offer, n)
  <1>0. offer \in Offers(U64) /\ DOMAIN offer = Token
    BY DEF Offers, Pair
  <1>1. PICK q \in Deposit(Snapshot(s), offer, "Balanced", minLp) :
          n = [s EXCEPT !.r = Plus(Minus(Plus(s.r, q.swapIn), q.swapOut), q.deposit),
                        !.l = s.l + q.lp]
    BY DEF AfterDeposit
  <1>2. n \in Pool
    BY <1>0, DepositBacked
  <1>3. /\ n.r = Plus(Minus(Plus(s.r, q.swapIn), q.swapOut), q.deposit)
        /\ n.l = s.l + q.lp
    BY <1>1 DEF Pool
  <1>4. Snapshot(s) \in PoolState /\ Snapshot(s).r = s.r /\ Snapshot(s).l = s.l
    BY SnapshotType
  <1>5. q \in DepositBalanced(Snapshot(s), offer, minLp)
    BY <1>0, <1>1 DEF Deposit, Token
  <1>6. /\ q.swapIn = Nothing /\ q.swapOut = Nothing
        /\ \E lp \in Nat :
             /\ q.lp = AsU64(lp)
             /\ \E t \in Token : lp = (offer[t] * s.l) \div s.r[t]
             /\ \A t \in Token : /\ lp <= (offer[t] * s.l) \div s.r[t]
                                  /\ q.deposit[t] = (s.r[t] * lp) \div s.l
                                  /\ q.deposit[t] \in Nat /\ q.deposit[t] > 0
    BY <1>4, <1>5, LaterMintParts
  <1>7. ASSUME NEW t \in Token
        PROVE  n.r[t] = s.r[t] + q.deposit[t]
    <2>1. Nothing[t] = 0
      BY DEF Nothing
    <2>2. n.r[t] = ((s.r[t] + 0) - 0) + q.deposit[t]
      BY <1>3, <1>6, <2>1, Zenon DEF Plus, Minus
    <2>3. s.r[t] \in Nat /\ q.deposit[t] \in Nat
      BY <1>6, SnapshotType, PairFacts
    <2> QED
      BY <2>2, <2>3, SMT
  <1> QED
    BY <1>1, <1>2, <1>3, <1>6, <1>7 DEF MintedAs

\* What a later mint mints is the README's formula, cut to 64 bits.
LEMMA MintedByFormula ==
  ASSUME Inv, NEW offer \in Pair, NEW s \in Mints(offer)
  PROVE  /\ LpFormula(offer) \in Nat
         /\ s.l = pool.l + AsU64(LpFormula(offer))
         /\ \A t \in Token :
              /\ LpFormula(offer) <= (offer[t] * pool.l) \div pool.r[t]
              /\ s.r[t] = pool.r[t] + ((pool.r[t] * LpFormula(offer)) \div pool.l)
              /\ (pool.r[t] * LpFormula(offer)) \div pool.l > 0
  <1>1. /\ pool \in Pool /\ pool.l \in Nat /\ pool.r \in Pair
        /\ pool.l > 0
        /\ s \in AfterDeposit(pool, offer, "Balanced", 0)
    BY SnapshotType, U64Facts DEF Inv, TypeOK, Mints
  <1>2. MintedAs(pool, offer, s)
    BY <1>1, BalancedDeposit
  <1>3. PICK lp \in Nat :
          /\ s.l = pool.l + AsU64(lp)
          /\ \E t \in Token : lp = (offer[t] * pool.l) \div pool.r[t]
          /\ \A t \in Token : /\ lp <= (offer[t] * pool.l) \div pool.r[t]
                               /\ s.r[t] = pool.r[t] + ((pool.r[t] * lp) \div pool.l)
                               /\ (pool.r[t] * lp) \div pool.l > 0
    BY <1>2 DEF MintedAs
  <1>4. LpFormula(offer) = lp
    <2> DEFINE share(t) == (offer[t] * pool.l) \div pool.r[t]
               Least(n) == \A t \in Token : n <= share(t)
    <2>1. lp \in {share(t) : t \in Token} /\ Least(lp)
      BY <1>3
    <2>2. ASSUME NEW n \in {share(t) : t \in Token}, Least(n)
          PROVE  n = lp
      <3>1. n \in Nat
        <4>1. PICK t \in Token : n = share(t)
          BY <2>2
        <4>2. offer[t] \in Nat /\ pool.r[t] \in Nat
          BY <1>1, PairFacts
        <4>3. pool.r[t] > 0
          BY <1>1 DEF Inv, ReservesBackSupply
        <4>4. offer[t] * pool.l \in Nat
          BY <1>1, <4>2, SMT
        <4> QED
          BY <4>1, <4>2, <4>3, <4>4, DivBounds
      <3>2. n <= lp /\ lp <= n
        BY <1>3, <2>1, <2>2
      <3> QED
        BY <3>1, <3>2, SMT
    <2> HIDE DEF share
    <2>3. LpFormula(offer) = CHOOSE n \in {share(t) : t \in Token} : Least(n)
      BY DEF LpFormula, share
    <2> HIDE DEF Least
    <2> QED
      BY <2>1, <2>2, <2>3
  <1> QED
    BY <1>3, <1>4

\* A later mint pays min(dx * L / x, dy * L / y), as crates/cpmm/README.md has it,
\* unless the pool has more LP than it has of either token: only there can the
\* unchecked cast of deposit_balanced lose anything (MintPaysFormula fails).
THEOREM MintsPayFormulaUpToReserves ==
  Spec => [](pool.l <= pool.r["X"] \/ pool.l <= pool.r["Y"] => MintPaysFormula)
<1>1. ASSUME Inv, NEW t \in Token, pool.l <= pool.r[t]
      PROVE  MintPaysFormula
  <2> SUFFICES ASSUME NEW offer \in Pair, NEW s \in Mints(offer)
               PROVE  s.l = pool.l + LpFormula(offer)
    BY DEF MintPaysFormula
  <2> DEFINE lp == LpFormula(offer)
             share == (offer[t] * pool.l) \div pool.r[t]
  <2>1. lp \in Nat /\ s.l = pool.l + AsU64(lp) /\ lp <= share
    BY <1>1, MintedByFormula
  <2>2. /\ pool.l \in Nat /\ pool.l > 0 /\ pool.r[t] \in Nat /\ pool.r[t] > 0
        /\ offer[t] \in Nat /\ offer[t] \in U64
    BY <1>1, SnapshotType, PairFacts, U64Facts DEF Inv, TypeOK, Mints, ReservesBackSupply
  <2>3. share \in Nat /\ share <= offer[t]
    <3>1. offer[t] * pool.l \in Nat /\ offer[t] * pool.l <= offer[t] * pool.r[t]
      BY <1>1, <2>2, SMT
    <3>2. share \in Nat /\ pool.r[t] * share <= offer[t] * pool.l
      BY <2>2, <3>1, DivBounds
    <3> HIDE DEF share
    <3>3. share <= offer[t]
      <4> SUFFICES ASSUME offer[t] + 1 <= share PROVE FALSE
        BY <2>2, <3>2, SMT
      <4>1. pool.r[t] * (offer[t] + 1) <= pool.r[t] * share
        BY <2>2, <3>2, SMT
      <4>2. pool.r[t] * (offer[t] + 1) = offer[t] * pool.r[t] + pool.r[t]
        BY <2>2, SMT
      <4>3. pool.r[t] * share \in Nat /\ offer[t] * pool.r[t] \in Nat
        BY <2>2, <3>2, SMT
      <4> QED
        BY <2>2, <3>1, <3>2, <4>1, <4>2, <4>3, SMT
    <3> QED
      BY <3>2, <3>3
  <2> HIDE DEF lp, share
  <2>4. lp \in U64
    BY <2>1, <2>2, <2>3, CpmmAssumption, SMT DEF U64
  <2>5. s.l = pool.l + lp
    BY <2>1, <2>4, AsU64Bounds
  <2> QED
    BY <2>5 DEF lp
<1>2. Inv => (pool.l <= pool.r["X"] \/ pool.l <= pool.r["Y"] => MintPaysFormula)
  BY <1>1 DEF Token
<1> QED
  BY <1>2, PoolInvariant, PTL

\* A balanced round trip changes nothing.
THEOREM RoundTripsExact == Spec => []RoundTripExact
<1>1. ASSUME Inv
      PROVE  RoundTripExact
  <2> SUFFICES ASSUME NEW offer \in Pair, NEW s \in Mints(offer), s.l = pool.l + LpFormula(offer)
               PROVE  AfterWithdraw(s, s.l - pool.l, "Balanced", Nothing) = {pool}
    BY DEF RoundTripExact
  <2>1. /\ pool \in Pool /\ pool.l \in Nat /\ pool.r \in Pair
        /\ pool.l > 0
        /\ s \in AfterDeposit(pool, offer, "Balanced", 0)
    BY <1>1, SnapshotType, U64Facts DEF Inv, TypeOK, Mints
  <2>1a. s \in Pool /\ MintedAs(pool, offer, s)
    BY <2>1, BalancedDeposit
  <2>2. s \in Pool /\ s = [pool EXCEPT !.r = s.r, !.l = s.l]
    BY <2>1, <2>1a DEF MintedAs
  <2>3. PICK lp \in Nat :
          /\ lp = LpFormula(offer)
          /\ s.l = pool.l + AsU64(lp)
          /\ \A t \in Token : /\ lp <= (offer[t] * pool.l) \div pool.r[t]
                               /\ s.r[t] = pool.r[t] + ((pool.r[t] * lp) \div pool.l)
                               /\ (pool.r[t] * lp) \div pool.l > 0
    BY <1>1, MintedByFormula
  <2>4. LpFormula(offer) = lp
    BY <2>3
  <2>5. /\ AsU64(lp) = lp /\ lp \in U64
        /\ s.l = pool.l + lp /\ s.l - pool.l = lp /\ s.l - lp = pool.l /\ lp <= s.l
    <3>1. AsU64(lp) \in U64 /\ AsU64(lp) \in Nat
      BY AsU64Bounds, U64Facts
    <3>2. pool.l + AsU64(lp) = pool.l + lp
      BY <2>3, <2>4
    <3>3. AsU64(lp) = lp
      BY <2>1, <3>1, <3>2, SMT
    <3>4. s.l = pool.l + lp
      BY <2>4
    <3> QED
      BY <2>1, <3>1, <3>3, <3>4, SMT
  <2> DEFINE p == Snapshot(s)
  <2>6. p.r = s.r /\ p.l = s.l
    BY <2>2, SnapshotType
  <2> HIDE DEF p
  <2>7. ASSUME NEW t \in Token
        PROVE  /\ s.r[t] > 0
               /\ ProRata(p, lp)[t] > 0
               /\ Rest(p, lp, t) = pool.r[t]
    <3> DEFINE r == pool.r[t]
               k == (r * lp) \div pool.l
               back == ((r + k) * lp) \div (pool.l + lp)
    <3>1. r \in Nat /\ lp <= lp /\ lp \in Nat
      BY <2>1, PairFacts, SMT
    <3> HIDE DEF r
    <3>2. k \in Nat /\ back = k
      BY <2>1, <3>1, MintAndRedeemAll
    <3>3. s.r[t] = r + k /\ k > 0
      BY <2>3 DEF r
    <3>4. ProRata(p, lp)[t] = back
      BY <2>5, <2>6, <3>3 DEF ProRata
    <3>5. Rest(p, lp, t) = (r + k) - back
      BY <2>6, <3>3, <3>4 DEF Rest
    <3> HIDE DEF k, back
    <3> QED
      BY <3>1, <3>2, <3>3, <3>4, <3>5, SMT DEF r
  <2>8. lp > 0
    <3>1. (pool.r["X"] * lp) \div pool.l > 0 /\ pool.r["X"] \in Nat
      BY <2>1, <2>3, PairFacts DEF Token
    <3>2. lp = 0 => pool.r["X"] * lp = 0
      BY <3>1, SMT
    <3>3. 0 \div pool.l = 0
      BY <2>1, SMT
    <3>4. lp # 0
      BY <3>1, <3>2, <3>3, SMT
    <3> QED
      BY <3>4, SMT
  <2>9. AfterWithdraw(s, lp, "Balanced", Nothing)
          = {[s EXCEPT !.r = [t \in Token |-> Rest(p, lp, t)], !.l = s.l - lp]}
    BY <2>2, <2>5, <2>7, <2>8, BalancedWithdrawal DEF p
  <2>10. [t \in Token |-> Rest(p, lp, t)] = pool.r
    BY <2>1, <2>7 DEF Pair
  <2>11. [s EXCEPT !.r = pool.r, !.l = pool.l] = pool
    BY <2>1, <2>2 DEF Pool
  <2> QED
    BY <2>5, <2>9, <2>10, <2>11
<1> QED
  BY <1>1, PoolInvariant, PTL

-----------------------------------------------------------------------------
(* The quotes that chain a swap *)

\* What a balanced withdrawal that succeeds does.
LEMMA BalancedWithdrawn ==
  ASSUME NEW s \in Pool, NEW lp \in U64, NEW n \in AfterWithdraw(s, lp, "Balanced", Nothing)
  PROVE  /\ lp > 0 /\ lp <= s.l /\ s.l > 0
         /\ \A t \in Token : s.r[t] > 0 /\ ProRata(Snapshot(s), lp)[t] > 0
         /\ n = [s EXCEPT !.r = [t \in Token |-> Rest(Snapshot(s), lp, t)], !.l = s.l - lp]
  <1> DEFINE p == Snapshot(s)
  <1>1. PICK q \in Withdraw(p, lp, "Balanced", Nothing) : lp <= s.l
    BY DEF AfterWithdraw
  <1>2. /\ p \in PoolState /\ p.r = s.r /\ p.l = s.l
        /\ lp > 0 /\ p.l > 0 /\ lp <= p.l
        /\ \A t \in Token : p.r[t] > 0
    BY <1>1, SnapshotType, WithdrawGuards
  <1> HIDE DEF p
  <1>3. ASSUME NEW t \in Token
        PROVE  ProRata(p, lp)[t] > 0
    <2>1. q \in WithdrawBalanced(p, lp)
      BY <1>1 DEF Withdraw
    <2>2. AsU64(ProRata(p, lp)[t]) > 0
      BY <2>1 DEF WithdrawBalanced
    <2>3. ProRata(p, lp)[t] \in U64 /\ ProRata(p, lp)[t] \in Nat
      BY <1>2, RestBounds
    <2> QED
      BY <2>2, <2>3, AsU64Bounds
  <1>4. AfterWithdraw(s, lp, "Balanced", Nothing)
          = {[s EXCEPT !.r = [t \in Token |-> Rest(p, lp, t)], !.l = s.l - lp]}
    BY <1>1, <1>2, <1>3, BalancedWithdrawal DEF p
  <1> QED
    BY <1>1, <1>2, <1>3, <1>4 DEF p

\* The pool once t, the share of it and what a swap pays of it for the share of the
\* other token, has been paid out.
WithSwap(s, lp, t, out) ==
  LET share == ProRata(Snapshot(s), lp)
      u     == Other(t)
  IN  [s EXCEPT !.r = Minus(Plus(Minus(s.r, share), Just(u, share[u])), Just(t, out)),
                !.l = s.l - lp]

\* What a single-sided withdrawal does, and when it is refused.
LEMMA SingleWithdrawal ==
  ASSUME NEW s \in Pool, NEW lp \in U64, lp > 0, lp <= s.l, NEW t \in Token,
         \A v \in Token : s.r[v] > 0
  PROVE  AfterWithdraw(s, lp, t, Nothing)
           = {WithSwap(s, lp, t, out) :
                out \in {o \in SwapFormula(Rest(Snapshot(s), lp, Other(t)), Rest(Snapshot(s), lp, t),
                                           ProRata(Snapshot(s), lp)[Other(t)], s.fee) :
                           ProRata(Snapshot(s), lp)[t] + o > 0}}
  <1> DEFINE p == Snapshot(s)
             u == Other(t)
             share == ProRata(p, lp)
             outs == SwapFormula(Rest(p, lp, u), Rest(p, lp, t), share[u], s.fee)
             quote(o) == WithdrawQuote(Just(t, AsU64(share[t] + o)), share,
                                       Just(u, share[u]), Just(t, o))
             paying == {o \in outs : share[t] + o > 0}
  <1>1. /\ p \in PoolState /\ p.r = s.r /\ p.l = s.l /\ p.fee = s.fee /\ s.fee \in Nat
        /\ s.l \in Nat /\ lp \in Nat
    BY SnapshotType, U64Facts, FeesAssumption DEF Pool, Snapshot, New
  <1>2. p.l > 0 /\ lp <= p.l
    BY <1>1, SMT
  <1>3. u \in Token /\ u # t
    BY TokenFacts
  <1> HIDE DEF p, u
  <1>4. \A v \in Token : /\ s.r[v] \in U64 /\ s.r[v] \in Nat
                         /\ share[v] \in U64 /\ share[v] \in Nat
                         /\ Rest(p, lp, v) \in Nat
                         /\ Rest(p, lp, v) = s.r[v] - share[v]
    BY <1>1, <1>2, RestBounds, PairFacts, SnapshotType DEF Rest
  <1>5. \A v \in Token : share[v] <= s.r[v]
    BY <1>4, SMT
  <1>6. ASSUME NEW o \in outs
        PROVE  o \in Nat /\ AsU64(share[t] + o) = share[t] + o
    <2>1. o \in Nat /\ o <= Rest(p, lp, t)
      BY <1>1, <1>3, <1>4, SwapFormulaBounds, U64Facts
    <2> HIDE DEF share
    <2>2. share[t] + o <= s.r[t] /\ share[t] + o \in Nat
      BY <1>4, <2>1, SMT
    <2>3. share[t] + o \in U64
      BY <1>4, <2>2, CpmmAssumption, SMT DEF U64
    <2> QED
      BY <2>1, <2>2, <2>3, AsU64Bounds
  <1>7. WithdrawSingle(p, t, lp) = {quote(o) : o \in paying}
    <2> DEFINE rest == [v \in Token |-> p.r[v] - share[v]]
    <2>1. rest[u] = Rest(p, lp, u) /\ rest[t] = Rest(p, lp, t)
      BY <1>3 DEF Rest
    <2>2. WithdrawSingle(p, t, lp)
            = {quote(o) : o \in {x \in SwapFormula(rest[u], rest[t], share[u], p.fee) :
                                   AsU64(share[t] + x) > 0}}
      BY <1>1, <1>5 DEF WithdrawSingle, u
    <2>3. {x \in outs : AsU64(share[t] + x) > 0} = paying
      BY <1>6
    <2> HIDE DEF rest, quote
    <2> QED
      BY <1>1, <2>1, <2>2, <2>3
  <1>8. ASSUME NEW o \in paying
        PROVE  AtLeast(quote(o).withdraw, Nothing)
    <2>1. quote(o).withdraw = Just(t, share[t] + o)
      BY <1>6 DEF WithdrawQuote
    <2>2. share[t] + o >= 0
      BY <1>4, <1>6, SMT
    <2> HIDE DEF quote, share
    <2>3. \A v \in Token : Just(t, share[t] + o)[v] >= 0 /\ Nothing[v] = 0
      BY <2>2, SMT DEF Just, Nothing
    <2> QED
      BY <2>1, <2>3 DEF AtLeast
  <1>9. Withdraw(p, lp, t, Nothing) = {quote(o) : o \in paying}
    <2> HIDE DEF quote, paying
    <2>1. Withdraw(p, lp, t, Nothing)
            = {q \in WithdrawSingle(p, t, lp) : AtLeast(q.withdraw, Nothing)}
      BY <1>1, <1>2 DEF Withdraw, Token
    <2> QED
      BY <1>7, <1>8, <2>1
  <1>10. ASSUME NEW o \in paying
         PROVE  /\ AtLeast(s.r, quote(o).proRata)
                /\ WithSwap(s, lp, t, o)
                     = [s EXCEPT !.r = Minus(Plus(Minus(s.r, quote(o).proRata), quote(o).swapIn),
                                             quote(o).swapOut),
                                 !.l = s.l - lp]
    <2>1. /\ quote(o).proRata = share /\ quote(o).swapIn = Just(u, share[u])
          /\ quote(o).swapOut = Just(t, o)
      BY DEF WithdrawQuote
    <2> HIDE DEF quote
    <2>2. WithSwap(s, lp, t, o) = [s EXCEPT !.r = Minus(Plus(Minus(s.r, share), Just(u, share[u])),
                                                       Just(t, o)),
                                           !.l = s.l - lp]
      BY DEF WithSwap, p, u
    <2> QED
      BY <1>5, <2>1, <2>2 DEF AtLeast
  <1> HIDE DEF quote, paying
  <1>11. AfterWithdraw(s, lp, t, Nothing) = {WithSwap(s, lp, t, o) : o \in paying}
    <2> DEFINE carried(q) == [s EXCEPT !.r = Minus(Plus(Minus(s.r, q.proRata), q.swapIn), q.swapOut),
                                       !.l = s.l - lp]
    <2>1. {w \in Withdraw(p, lp, t, Nothing) : lp <= s.l /\ AtLeast(s.r, w.proRata)}
            = {quote(o) : o \in paying}
      BY <1>9, <1>10
    <2>2. AfterWithdraw(s, lp, t, Nothing) = {carried(q) : q \in {quote(o) : o \in paying}}
      BY <2>1 DEF AfterWithdraw, p
    <2>3. \A o \in paying : carried(quote(o)) = WithSwap(s, lp, t, o)
      BY <1>10
    <2> HIDE DEF carried, outs, share
    <2> QED
      BY <2>2, <2>3
  <1> QED
    BY <1>11 DEF paying, p, u

\* A swap of nothing pays nothing.
LEMMA EmptySwapPaysNothing ==
  ASSUME NEW rIn \in Nat, NEW rOut \in Nat, NEW fee \in Nat,
         NEW out \in SwapFormula(rIn, rOut, 0, fee)
  PROVE  out = 0
  <1> DEFINE num == (BPS - fee) * rOut * 0
             den == BPS * rIn + (BPS - fee) * 0
  <1>1. fee <= BPS /\ den > 0 /\ out = AsU64(num \div den)
    BY DEF SwapFormula
  <1>2. num = 0 /\ den \in Nat
    BY <1>1, CpmmAssumption, SMT
  <1> HIDE DEF num, den
  <1>3. num \div den = 0
    BY <1>1, <1>2, SMT
  <1> QED
    BY <1>1, <1>3, AsU64Bounds, U64Facts

\* The swap of all that a balanced withdrawal paid of one token, with what it
\* left of both.
LEMMA SwapAfterwards ==
  ASSUME NEW s \in Pool, NEW amount \in U64, amount > 0, NEW u \in Token,
         s.r[u] + amount <= U64Max,
         NEW out \in SwapFormula(s.r[u], s.r[Other(u)], amount, s.fee),
         out > 0 => \A v \in Token : s.r[v] > 0
  PROVE  AfterSwap(s, amount, u, 0)
           = IF out > 0
             THEN {[s EXCEPT !.r = Minus(Plus(s.r, Just(u, amount)), Just(Other(u), out))]}
             ELSE {}
  <1> DEFINE p == Snapshot(s)
  <1>1. /\ s.r \in Pair /\ s.fee \in Nat /\ amount \in Nat
        /\ s.r[u] \in Nat /\ s.r[Other(u)] \in Nat
    BY SnapshotType, PairFacts, TokenFacts, U64Facts, FeesAssumption DEF Pool
  <1>2. p.r = s.r /\ p.fee = s.fee
    BY DEF Snapshot, New
  <1> HIDE DEF p
  <1>3. out \in U64 /\ out \in Nat /\ out <= s.r[Other(u)]
    BY <1>1, SwapFormulaBounds, U64Facts
  <1>4. \A o : o \in SwapFormula(s.r[u], s.r[Other(u)], amount, s.fee) <=> o = out
    BY DEF SwapFormula
  <1>5. Swap(p, amount, u, 0) = IF (\A v \in Token : s.r[v] > 0) /\ s.fee < BPS /\ out > 0
                                THEN {out} ELSE {}
    <2>1. SwapOut(p, amount, u) = IF out > 0 THEN {out} ELSE {}
      BY <1>2, <1>4 DEF SwapOut
    <2>2. out >= 0
      BY <1>3, SMT
    <2> QED
      BY <1>2, <2>1, <2>2 DEF Swap, Side
  <1>6. out > 0 => s.fee < BPS
    BY <1>1, <1>3, WholeFeePaysNothing
  <1>7. AfterSwap(s, amount, u, 0)
          = {[s EXCEPT !.r = Minus(Plus(s.r, Just(u, amount)), Just(Other(u), o))] :
               o \in Swap(p, amount, u, 0)}
    BY DEF AfterSwap, p
  <1>8. CASE out > 0
    <2>1. Swap(p, amount, u, 0) = {out}
      BY <1>5, <1>6, <1>8
    <2> QED
      BY <1>7, <1>8, <2>1
  <1>9. CASE ~(out > 0)
    <2>1. Swap(p, amount, u, 0) = {}
      BY <1>5, <1>9
    <2> QED
      BY <1>7, <1>9, <2>1
  <1> QED
    BY <1>8, <1>9

\* The pool with a withdrawal's shares taken out.
LEMMA SharesTaken ==
  ASSUME Inv, NEW lp \in U64, lp > 0, lp <= pool.l
  PROVE  /\ AfterShares(lp) \in Pool
         /\ AfterShares(lp) = [pool EXCEPT !.r = Minus(pool.r, ProRata(Snapshot(pool), lp)),
                                           !.l = pool.l - lp]
         /\ AfterShares(lp).r = Minus(pool.r, ProRata(Snapshot(pool), lp))
         /\ AfterShares(lp).r = [t \in Token |-> Rest(Snapshot(pool), lp, t)]
         /\ AfterShares(lp).fee = pool.fee
         /\ \A t \in Token :
              /\ pool.r[t] \in U64 /\ pool.r[t] \in Nat /\ pool.r[t] > 0
              /\ Rest(Snapshot(pool), lp, t) \in Nat
              /\ ProRata(Snapshot(pool), lp)[t] \in U64 /\ ProRata(Snapshot(pool), lp)[t] \in Nat
              /\ AfterShares(lp).r[t] = Rest(Snapshot(pool), lp, t)
              /\ Rest(Snapshot(pool), lp, t) = pool.r[t] - ProRata(Snapshot(pool), lp)[t]
              /\ pool.r[t] - AfterShares(lp).r[t] = ProRata(Snapshot(pool), lp)[t]
              /\ lp < pool.l => Rest(Snapshot(pool), lp, t) > 0
              /\ lp = pool.l => Rest(Snapshot(pool), lp, t) = 0
  <1> DEFINE p == Snapshot(pool)
             r == Minus(pool.r, ProRata(p, lp))
  <1>1. /\ pool \in Pool /\ p \in PoolState /\ p.r = pool.r /\ p.l = pool.l
        /\ pool.l \in U64 /\ pool.l \in Nat /\ lp \in Nat
    BY SnapshotType, U64Facts DEF Inv, TypeOK
  <1>2. pool.l > 0 /\ pool.l - lp \in U64
    BY <1>1, CpmmAssumption, SMT DEF U64
  <1>3. \A t \in Token : pool.r[t] > 0
    BY <1>2 DEF Inv, ReservesBackSupply
  <1> HIDE DEF p
  <1>4. ASSUME NEW t \in Token
        PROVE  /\ pool.r[t] \in U64 /\ pool.r[t] \in Nat
               /\ Rest(p, lp, t) \in Nat /\ Rest(p, lp, t) \in U64
               /\ ProRata(p, lp)[t] \in U64 /\ ProRata(p, lp)[t] \in Nat
               /\ Rest(p, lp, t) = pool.r[t] - ProRata(p, lp)[t]
               /\ pool.r[t] - Rest(p, lp, t) = ProRata(p, lp)[t]
               /\ lp < pool.l => Rest(p, lp, t) > 0
               /\ lp = pool.l => Rest(p, lp, t) = 0
    <2>1. /\ pool.r[t] \in U64 /\ pool.r[t] \in Nat
          /\ Rest(p, lp, t) \in Nat
          /\ ProRata(p, lp)[t] \in U64 /\ ProRata(p, lp)[t] \in Nat
          /\ Rest(p, lp, t) = pool.r[t] - ProRata(p, lp)[t]
          /\ lp < pool.l => Rest(p, lp, t) > 0
          /\ lp = pool.l => Rest(p, lp, t) = 0
      BY <1>1, <1>2, <1>3, RestBounds, WholeShare, PairFacts, SnapshotType DEF Rest
    <2>2. pool.r[t] - Rest(p, lp, t) = ProRata(p, lp)[t]
      BY <2>1, SMT
    <2>3. Rest(p, lp, t) \in U64
      BY <2>1, CpmmAssumption, SMT DEF U64
    <2> QED
      BY <2>1, <2>2, <2>3
  <1>5. r = [t \in Token |-> Rest(p, lp, t)]
    BY <1>1 DEF Minus, Rest
  <1>6. r \in Pair
    BY <1>4, <1>5 DEF Pair
  <1>7. AfterShares(lp) = [pool EXCEPT !.r = r, !.l = pool.l - lp]
    BY DEF AfterShares, p
  <1> HIDE DEF r
  <1>8. AfterShares(lp) \in Pool /\ AfterShares(lp).r = r /\ AfterShares(lp).fee = pool.fee
    BY <1>1, <1>2, <1>6, <1>7 DEF Pool
  <1>9. \A t \in Token : AfterShares(lp).r[t] = Rest(p, lp, t)
    BY <1>5, <1>8
  <1> QED
    BY <1>3, <1>4, <1>5, <1>7, <1>8, <1>9 DEF r, p

\* The single-sided half of SingleWithdrawalIsWithdrawalThenSwap, where the swap can
\* be computed.
LEMMA SingleWithdrawalSwaps ==
  ASSUME Inv, NEW lp \in U64, lp > 0, lp <= pool.l, NEW t \in Token,
         NEW out \in SwapFormula(AfterShares(lp).r[Other(t)], AfterShares(lp).r[t],
                                 ProRata(Snapshot(pool), lp)[Other(t)], pool.fee)
  PROVE  /\ AfterSwap(AfterShares(lp), ProRata(Snapshot(pool), lp)[Other(t)], Other(t), 0)
              = IF out > 0 THEN {WithSwap(pool, lp, t, out)} ELSE {}
         /\ out \in Nat
         /\ WithSwap(pool, lp, t, out).r[t] = AfterShares(lp).r[t] - out
         /\ ~(out > 0) => WithSwap(pool, lp, t, out)
                            = [AfterShares(lp) EXCEPT !.r[Other(t)] = pool.r[Other(t)]]
  <1> DEFINE p == Snapshot(pool)
             s == AfterShares(lp)
             u == Other(t)
             amount == ProRata(p, lp)[u]
             m == Minus(Plus(s.r, Just(u, amount)), Just(t, out))
  <1>1. /\ s \in Pool /\ s = [pool EXCEPT !.r = s.r, !.l = pool.l - lp]
        /\ s.r = Minus(pool.r, ProRata(p, lp))
        /\ s.r \in Pair /\ s.fee = pool.fee /\ pool.fee \in Nat
        /\ \A v \in Token : /\ s.r[v] \in Nat
                            /\ pool.r[v] \in U64 /\ pool.r[v] \in Nat
                            /\ ProRata(p, lp)[v] \in U64
                            /\ s.r[v] = pool.r[v] - ProRata(p, lp)[v]
                            /\ lp < pool.l => s.r[v] > 0
                            /\ lp = pool.l => s.r[v] = 0
    <2> HIDE DEF p, s
    <2>1. /\ s \in Pool
          /\ s = [pool EXCEPT !.r = Minus(pool.r, ProRata(p, lp)), !.l = pool.l - lp]
          /\ s.r = Minus(pool.r, ProRata(p, lp)) /\ s.fee = pool.fee
      BY SharesTaken DEF p, s
    <2>2. ASSUME NEW v \in Token
          PROVE  /\ s.r[v] \in Nat
                 /\ pool.r[v] \in U64 /\ pool.r[v] \in Nat
                 /\ ProRata(p, lp)[v] \in U64
                 /\ s.r[v] = pool.r[v] - ProRata(p, lp)[v]
                 /\ lp < pool.l => s.r[v] > 0
                 /\ lp = pool.l => s.r[v] = 0
      <3>1. /\ pool.r[v] \in U64 /\ pool.r[v] \in Nat
            /\ Rest(p, lp, v) \in Nat
            /\ ProRata(p, lp)[v] \in U64
            /\ s.r[v] = Rest(p, lp, v)
            /\ Rest(p, lp, v) = pool.r[v] - ProRata(p, lp)[v]
            /\ lp < pool.l => Rest(p, lp, v) > 0
            /\ lp = pool.l => Rest(p, lp, v) = 0
        BY SharesTaken DEF p, s
      <3> QED
        BY <3>1
    <2>3. s.r \in Pair /\ pool.fee \in Nat
      BY <2>1, SnapshotType, FeesAssumption DEF Pool, Inv, TypeOK
    <2>4. s = [pool EXCEPT !.r = s.r, !.l = pool.l - lp]
      BY <2>1
    <2> QED
      BY <2>1, <2>2, <2>3, <2>4
  <1>2. u \in Token /\ u # t /\ Other(u) = t /\ \A v \in Token : v = u \/ v = t
    BY TokenFacts DEF Token
  <1> HIDE DEF p
  <1>3. /\ amount \in U64 /\ amount \in Nat
        /\ s.r[u] + amount = pool.r[u] /\ s.r[u] + amount <= U64Max
    <2>1. amount \in U64 /\ amount \in Nat /\ s.r[u] = pool.r[u] - amount
      BY <1>1, <1>2, U64Facts
    <2> HIDE DEF s, u, amount
    <2> QED
      BY <1>1, <1>2, <2>1, CpmmAssumption, SMT DEF U64
  <1>4. /\ pool = [pool EXCEPT !.r = pool.r] /\ WithSwap(pool, lp, t, out) = [s EXCEPT !.r = m]
        /\ WithSwap(pool, lp, t, out).r = m
    <2>1. WithSwap(pool, lp, t, out) = [pool EXCEPT !.r = m, !.l = pool.l - lp]
      BY <1>1 DEF WithSwap, p
    <2>2. pool \in Pool
      BY DEF Inv, TypeOK
    <2> HIDE DEF m, s
    <2> QED
      BY <1>1, <2>1, <2>2 DEF Pool
  <1>5a. out \in SwapFormula(s.r[u], s.r[t], amount, pool.fee)
    BY DEF p
  <1> HIDE DEF s, u, amount
  <1>5. out \in Nat /\ out <= s.r[t]
    BY <1>1, <1>2, <1>3, <1>5a, SwapFormulaBounds, U64Facts
  <1>6. m[u] = pool.r[u] /\ m[t] = s.r[t] - out
    BY <1>1, <1>2, <1>3, <1>5, SwapLegs
  <1>7. out > 0 => \A v \in Token : s.r[v] > 0
    <2>1. out > 0 => lp # pool.l
      BY <1>1, <1>5, SMT
    <2>2. lp \in Nat /\ pool.l \in Nat
      BY SnapshotType, U64Facts DEF Inv, TypeOK
    <2>3. out > 0 => lp < pool.l
      BY <2>1, <2>2, SMT
    <2> QED
      BY <1>1, <2>3
  <1>8. AfterSwap(s, amount, u, 0) = IF out > 0 THEN {[s EXCEPT !.r = m]} ELSE {}
    <2>1. CASE amount > 0
      <3>1. out \in SwapFormula(s.r[u], s.r[Other(u)], amount, s.fee)
        BY <1>1, <1>2, <1>5a
      <3>2. AfterSwap(s, amount, u, 0)
              = IF out > 0
                THEN {[s EXCEPT !.r = Minus(Plus(s.r, Just(u, amount)), Just(Other(u), out))]}
                ELSE {}
        BY <1>1, <1>2, <1>3, <1>7, <2>1, <3>1, SwapAfterwards
      <3> QED
        BY <1>2, <3>2
    <2>2. CASE ~(amount > 0)
      <3>1. Swap(Snapshot(s), amount, u, 0) = {}
        BY <2>2 DEF Swap
      <3>2. AfterSwap(s, amount, u, 0) = {}
        BY <3>1 DEF AfterSwap
      <3>3. amount = 0
        BY <1>3, <2>2, SMT
      <3>4. out = 0
        BY <1>1, <1>2, <1>5a, <3>3, EmptySwapPaysNothing
      <3> QED
        BY <3>2, <3>4
    <2> QED
      BY <2>1, <2>2
  <1>9. ~(out > 0) => [s EXCEPT !.r = m] = [s EXCEPT !.r[u] = pool.r[u]]
    <2> SUFFICES ASSUME ~(out > 0)
                 PROVE  m = [s.r EXCEPT ![u] = pool.r[u]]
      BY <1>1 DEF Pool
    <2>1. m[t] = s.r[t]
      <3>1. out = 0
        BY <1>5, SMT
      <3> QED
        BY <1>1, <1>6, <3>1, SMT
    <2>2. m = [v \in Token |-> m[v]]
      BY Zenon DEF Minus
    <2> HIDE DEF m
    <2> QED
      BY <1>1, <1>2, <1>6, <2>1, <2>2 DEF Pair
  <1> QED
    BY <1>4, <1>5, <1>6, <1>8, <1>9 DEF s, u, amount, p

\* A single-sided withdrawal does what its holder could do in two instructions, and
\* each kind of withdrawal is refused exactly where the property says.
THEOREM SingleWithdrawalsChain == Spec => []SingleWithdrawalIsWithdrawalThenSwap
<1>1. ASSUME Inv
      PROVE  SingleWithdrawalIsWithdrawalThenSwap
  <2> SUFFICES ASSUME NEW t \in Token, NEW lp \in U64
               PROVE  LET u        == Other(t)
                          s        == AfterShares(lp)
                          share(v) == pool.r[v] - s.r[v]
                          swapped  == AfterSwap(s, share(u), u, 0)
                          computed == SwapFormula(s.r[u], s.r[t], share(u), pool.fee) # {}
                          balanced == {n \in {s} : \A v \in Token : share(v) > 0}
                          single   == {n \in IF swapped # {} THEN swapped
                                             ELSE {[s EXCEPT !.r[u] = pool.r[u]]} :
                                         computed /\ n.r[t] < pool.r[t]}
                          known    == lp \in 1 .. pool.l
                      IN  /\ AfterWithdraw(pool, lp, "Balanced", Nothing)
                               = IF known THEN balanced ELSE {}
                          /\ AfterWithdraw(pool, lp, t, Nothing) = IF known THEN single ELSE {}
    BY DEF SingleWithdrawalIsWithdrawalThenSwap
  <2> DEFINE p == Snapshot(pool)
             u == Other(t)
             s == AfterShares(lp)
             amount == pool.r[u] - s.r[u]
             outs == SwapFormula(s.r[u], s.r[t], amount, pool.fee)
             swapped == AfterSwap(s, amount, u, 0)
             base == IF swapped # {} THEN swapped ELSE {[s EXCEPT !.r[u] = pool.r[u]]}
             balanced == {n \in {s} : \A v \in Token : pool.r[v] - s.r[v] > 0}
             single == {n \in base : outs # {} /\ n.r[t] < pool.r[t]}
  <2>1. pool \in Pool /\ pool.l \in U64 /\ pool.l \in Nat /\ lp \in Nat
    BY <1>1, SnapshotType, U64Facts DEF Inv, TypeOK
  <2>2. CASE lp \notin 1 .. pool.l
    <3>1. ~(lp > 0 /\ lp <= pool.l)
      BY <2>1, <2>2, SMT
    <3>2. \A side : AfterWithdraw(pool, lp, side, Nothing) = {}
      BY <3>1 DEF AfterWithdraw, Withdraw
    <3> QED
      BY <2>2, <3>2
  <2>3. CASE lp \in 1 .. pool.l
    <3>1. lp > 0 /\ lp <= pool.l
      BY <2>1, <2>3, SMT
    <3>2. /\ s = [pool EXCEPT !.r = [v \in Token |-> Rest(p, lp, v)], !.l = pool.l - lp]
          /\ \A v \in Token : /\ pool.r[v] \in Nat /\ pool.r[v] > 0
                              /\ s.r[v] = Rest(p, lp, v)
                              /\ s.r[v] \in Nat /\ ProRata(p, lp)[v] \in Nat
                              /\ s.r[v] = pool.r[v] - ProRata(p, lp)[v]
                              /\ pool.r[v] - s.r[v] = ProRata(p, lp)[v]
      BY <1>1, <3>1, SharesTaken
    <3>3. u \in Token
      BY TokenFacts
    <3> HIDE DEF p
    <3>4. AfterWithdraw(pool, lp, "Balanced", Nothing) = balanced
      <4>1. CASE \A v \in Token : ProRata(p, lp)[v] > 0
        BY <2>1, <3>1, <3>2, <4>1, BalancedWithdrawal DEF p
      <4>2. CASE ~ \A v \in Token : ProRata(p, lp)[v] > 0
        <5>1. AfterWithdraw(pool, lp, "Balanced", Nothing) = {}
          BY <2>1, <4>2, BalancedWithdrawn DEF p
        <5>2. balanced = {}
          BY <3>2, <4>2
        <5> QED
          BY <5>1, <5>2
      <4> QED
        BY <4>1, <4>2
    <3>5. AfterWithdraw(pool, lp, t, Nothing) = single
      <4>1. AfterWithdraw(pool, lp, t, Nothing)
              = {WithSwap(pool, lp, t, o) : o \in {x \in outs : ProRata(p, lp)[t] + x > 0}}
        BY <2>1, <3>1, <3>2, <3>3, SingleWithdrawal DEF p
      <4>2. CASE outs = {}
        BY <4>1, <4>2
      <4>3. CASE outs # {}
        <5>1. PICK out : out \in outs
          BY <4>3
        <5>2. outs = {out}
          BY <5>1 DEF SwapFormula
        <5>3. amount = ProRata(p, lp)[u]
          BY <3>2, <3>3
        <5> HIDE DEF amount
        <5>4. /\ swapped = IF out > 0 THEN {WithSwap(pool, lp, t, out)} ELSE {}
              /\ out \in Nat
              /\ WithSwap(pool, lp, t, out).r[t] = s.r[t] - out
              /\ ~(out > 0) => WithSwap(pool, lp, t, out) = [s EXCEPT !.r[u] = pool.r[u]]
          <6>1. out \in SwapFormula(s.r[u], s.r[t], ProRata(p, lp)[u], pool.fee)
            BY <5>1, <5>3
          <6>2. /\ AfterSwap(s, ProRata(p, lp)[u], u, 0)
                     = IF out > 0 THEN {WithSwap(pool, lp, t, out)} ELSE {}
                /\ out \in Nat
                /\ WithSwap(pool, lp, t, out).r[t] = s.r[t] - out
                /\ ~(out > 0) => WithSwap(pool, lp, t, out) = [s EXCEPT !.r[u] = pool.r[u]]
            BY <1>1, <3>1, <6>1, SingleWithdrawalSwaps DEF p
          <6> HIDE DEF s, u
          <6> QED
            BY <5>3, <6>2
        <5> HIDE DEF swapped, s, u, outs
        <5>5. base = {WithSwap(pool, lp, t, out)}
          BY <5>4
        <5>6. ProRata(p, lp)[t] + out > 0 <=> WithSwap(pool, lp, t, out).r[t] < pool.r[t]
          <6>1. /\ pool.r[t] \in Nat /\ s.r[t] = pool.r[t] - ProRata(p, lp)[t]
                /\ ProRata(p, lp)[t] \in Nat
            BY <3>2
          <6> QED
            BY <5>4, <6>1, SMT
        <5> HIDE DEF base
        <5> QED
          BY <4>1, <4>3, <5>2, <5>5, <5>6
      <4> QED
        BY <4>2, <4>3
    <3> QED
      BY <2>3, <3>4, <3>5
  <2> QED
    BY <2>2, <2>3
<1> QED
  BY <1>1, PoolInvariant, PTL

\* What a deposit quote b, made at the reserves m, makes of pool s.
Made(s, m, b) == [s EXCEPT !.r = Plus(m, b.deposit), !.l = s.l + b.lp]

\* The second step: a balanced deposit at the reserves that a swap has left.
LEMMA DepositAfterwards ==
  ASSUME NEW s \in Pool, s.l > 0, s.fee < BPS, NEW m \in Pair, NEW n, n = [s EXCEPT !.r = m],
         NEW offer \in Pair
  PROVE  AfterDeposit(n, offer, "Balanced", 0)
           = {x \in {Made(s, m, b) : b \in DepositBalanced(New(m, s.l, s.fee), offer, 0)} :
                x.r \in Pair /\ x.l <= U64Max}
  <1> DEFINE p == New(m, s.l, s.fee)
             carried(q) == [n EXCEPT !.r = Plus(Minus(Plus(n.r, q.swapIn), q.swapOut), q.deposit),
                                     !.l = n.l + q.lp]
  <1>1. n \in Pool /\ n.r = m /\ n.l = s.l /\ n.fee = s.fee
    BY DEF Pool
  <1>2. Snapshot(n) = p /\ p \in PoolState /\ p.l = s.l
    BY <1>1, SnapshotType DEF Snapshot, New
  <1>3. Deposit(Snapshot(n), offer, "Balanced", 0) = DepositBalanced(p, offer, 0)
    <2>1. ~(p.fee >= BPS)
      <3>1. p.fee = s.fee /\ s.fee \in Nat
        BY FeesAssumption DEF New, Pool
      <3> QED
        BY <3>1, CpmmAssumption, SMT
    <2>2. DOMAIN offer = Token
      BY DEF Pair
    <2> QED
      BY <1>2, <2>1, <2>2 DEF Deposit
  <1>4. Minus(Plus(m, Nothing), Nothing) = m
    <2>1. Minus(Plus(m, Nothing), Nothing) = [t \in Token |-> (m[t] + Nothing[t]) - Nothing[t]]
      BY Zenon DEF Minus, Plus
    <2>2. \A t \in Token : (m[t] + Nothing[t]) - Nothing[t] = m[t]
      BY PairFacts, SMT DEF Nothing
    <2> QED
      BY <2>1, <2>2 DEF Pair
  <1>5. ASSUME NEW b \in DepositBalanced(p, offer, 0)
        PROVE  carried(b) = Made(s, m, b)
    <2>1. b.swapIn = Nothing /\ b.swapOut = Nothing
      BY <1>2, DepositBalancedBounds
    <2>2. carried(b) = [n EXCEPT !.r = Plus(m, b.deposit), !.l = s.l + b.lp]
      BY <1>1, <1>4, <2>1
    <2> HIDE DEF carried
    <2> DEFINE r == Plus(m, b.deposit)
               l == s.l + b.lp
    <2> HIDE DEF r, l
    <2>3. [n EXCEPT !.r = r, !.l = l] = [s EXCEPT !.r = r, !.l = l]
      BY DEF Pool
    <2> QED
      BY <2>2, <2>3 DEF Made, r, l
  <1>6. AfterDeposit(n, offer, "Balanced", 0)
          = {x \in {carried(q) : q \in Deposit(Snapshot(n), offer, "Balanced", 0)} :
               x.r \in Pair /\ x.l <= U64Max}
    BY DEF AfterDeposit
  <1> HIDE DEF carried, p
  <1>7. {carried(q) : q \in DepositBalanced(p, offer, 0)} = {Made(s, m, b) : b \in DepositBalanced(p, offer, 0)}
    BY <1>5
  <1> QED
    BY <1>3, <1>6, <1>7 DEF p

\* The vaults between the two steps.
Between(s, t, half, out) == Minus(Plus(s.r, Just(t, half)), Just(Other(t), out))

\* A single-sided deposit, step by step.
LEMMA SingleDeposits ==
  ASSUME NEW s \in Pool, s.l > 0, s.fee < BPS, NEW t \in Token, NEW n \in U64, NEW x
  PROVE  x \in AfterDeposit(s, [v \in {t} |-> n], t, 0) <=>
           /\ n > 1 /\ s.r[t] + (n \div 2) <= U64Max
           /\ \E out \in SwapOut(Snapshot(s), n \div 2, t) :
                \E b \in DepositBalanced(Halfway(Snapshot(s), t, n \div 2, out),
                                         SecondHalf(t, n - (n \div 2), out), 0) :
                  /\ x = Made(s, Between(s, t, n \div 2, out), b)
                  /\ x.r \in Pair /\ x.l <= U64Max
  <1> DEFINE p == Snapshot(s)
             half == n \div 2
             offer == [v \in {t} |-> n]
             halfway(o) == Halfway(p, t, half, o)
             second(o) == SecondHalf(t, n - half, o)
             quote(b, o) == [b EXCEPT !.swapIn = Just(t, half), !.swapOut = Just(Other(t), o)]
             carried(q) == [s EXCEPT !.r = Plus(Minus(Plus(s.r, q.swapIn), q.swapOut), q.deposit),
                                     !.l = s.l + q.lp]
  <1>1. /\ p \in PoolState /\ p.r = s.r /\ p.l = s.l /\ p.fee = s.fee
        /\ s.r \in Pair /\ s.l \in U64 /\ s.fee \in Nat
        /\ s.r[t] \in Nat /\ s.r[Other(t)] \in Nat
    BY SnapshotType, PairFacts, TokenFacts, FeesAssumption DEF Snapshot, New, Pool
  <1>2. half \in U64 /\ half \in Nat /\ n - half \in U64
    BY CpmmAssumption, SMT DEF U64
  <1>3. x \in AfterDeposit(s, offer, t, 0) <=>
          /\ x.r \in Pair /\ x.l <= U64Max
          /\ \E q \in DepositSingle(p, t, n, 0) : x = carried(q)
    <2>1. Deposit(p, offer, t, 0) = DepositSingle(p, t, n, 0)
      <3>1. ~(p.fee >= BPS)
        BY <1>1, CpmmAssumption, SMT
      <3>2. t # "Balanced" /\ DOMAIN offer = {t} /\ offer[t] = n
        BY DEF Token
      <3> HIDE DEF p, offer
      <3> QED
        BY <3>1, <3>2 DEF Deposit
    <2> HIDE DEF p, offer
    <2>2. x \in AfterDeposit(s, offer, t, 0) <=>
            /\ x.r \in Pair /\ x.l <= U64Max
            /\ \E q \in Deposit(p, offer, t, 0) : x = carried(q)
      BY DEF AfterDeposit, p
    <2> QED
      BY <2>1, <2>2
  <1> HIDE DEF p, half, offer
  <1>4. ASSUME NEW out \in SwapOut(p, half, t), s.r[t] + half <= U64Max
        PROVE  out \in U64 /\ out <= p.r[Other(t)] /\ halfway(out) \in PoolState /\ second(out) \in Pair
    <2>1. out \in SwapFormula(s.r[t], s.r[Other(t)], half, s.fee)
      BY <1>1 DEF SwapOut
    <2>2. out \in U64 /\ out <= s.r[Other(t)]
      BY <1>1, <1>2, <2>1, SwapFormulaBounds
    <2>3. halfway(out) \in PoolState
      <3>1. Minus(Plus(s.r, Just(t, half)), Just(Other(t), out)) \in Pair
        BY <1>1, <1>2, <1>4, <2>1, LegsKeepProduct
      <3> QED
        BY <1>1, <3>1 DEF Halfway, New, PoolState
    <2>4. second(out) \in Pair
      BY <1>2, <2>2 DEF SecondHalf, Pair
    <2> QED
      BY <1>1, <2>2, <2>3, <2>4
  <1>5. ASSUME NEW out \in SwapOut(p, half, t), s.r[t] + half <= U64Max,
               NEW b \in DepositBalanced(halfway(out), second(out), 0)
        PROVE  carried(quote(b, out)) = Made(s, Between(s, t, half, out), b)
    <2>1. b \in DepositQuotes
      BY <1>4, <1>5, DepositBalancedBounds
    <2>2. /\ quote(b, out).swapIn = Just(t, half) /\ quote(b, out).swapOut = Just(Other(t), out)
          /\ quote(b, out).deposit = b.deposit /\ quote(b, out).lp = b.lp
      BY <2>1 DEF DepositQuotes
    <2> HIDE DEF quote
    <2> QED
      BY <2>2 DEF Made, Between
  <1>6. DepositSingle(p, t, n, 0)
          = IF n > 1 /\ p.l > 0 /\ p.r[t] + half <= U64Max
            THEN UNION {{quote(b, o) : b \in DepositBalanced(halfway(o), second(o), 0)} :
                        o \in {c \in SwapOut(p, half, t) : c <= p.r[Other(t)]}}
            ELSE {}
    BY Zenon DEF DepositSingle, Halfway, SecondHalf, half
  <1> HIDE DEF halfway, second, quote, carried
  <1>7. ASSUME n > 1, s.r[t] + half <= U64Max
        PROVE  (\E q \in DepositSingle(p, t, n, 0) : x = carried(q)) <=>
                 \E out \in SwapOut(p, half, t) :
                   \E b \in DepositBalanced(halfway(out), second(out), 0) :
                     x = Made(s, Between(s, t, half, out), b)
    <2>1. \A q : q \in DepositSingle(p, t, n, 0) <=>
            \E out \in SwapOut(p, half, t) :
              \E b \in DepositBalanced(halfway(out), second(out), 0) : q = quote(b, out)
      BY <1>1, <1>4, <1>6, <1>7
    <2> QED
      BY <1>5, <1>7, <2>1
  <1>8. ~(n > 1 /\ s.r[t] + half <= U64Max) => DepositSingle(p, t, n, 0) = {}
    BY <1>1, <1>6
  <1> QED
    BY <1>3, <1>7, <1>8 DEF p, half, offer, halfway, second

\* A single-sided deposit into a live pool adds nothing, and refuses nothing, that
\* its caller could not have had in two instructions.
THEOREM SingleDepositsChain == Spec => []SingleDepositIsSwapThenDeposit
<1>1. ASSUME Inv
      PROVE  SingleDepositIsSwapThenDeposit
  <2> DEFINE half(n)         == n \div 2
             got(s, t)       == pool.r[Other(t)] - s.r[Other(t)]
             second(s, t, n) == [v \in Token |-> IF v = t THEN n - half(n) ELSE got(s, t)]
             Single(t, n)    == AfterDeposit(pool, [v \in {t} |-> n], t, 0)
             Chained(t, n)   == UNION {AfterDeposit(s, second(s, t, n), "Balanced", 0) :
                                       s \in AfterSwap(pool, half(n), t, 0)}
  <2> SUFFICES ASSUME pool.l > 0, NEW t \in Token, NEW n \in U64 \ {0}
               PROVE  Single(t, n) = Chained(t, n)
    BY Zenon DEF SingleDepositIsSwapThenDeposit
  <2> DEFINE p    == Snapshot(pool)
             h    == half(n)
             m(o) == Between(pool, t, h, o)
             s(o) == [pool EXCEPT !.r = m(o)]
             Fits == n > 1 /\ pool.r[t] + h <= U64Max
  <2>1. /\ pool \in Pool /\ pool.r \in Pair /\ pool.l \in U64 /\ pool.fee \in Nat
        /\ p \in PoolState /\ p.r = pool.r /\ p.l = pool.l /\ p.fee = pool.fee
        /\ \A v \in Token : pool.r[v] > 0
        /\ pool.r[t] \in Nat /\ pool.r[Other(t)] \in Nat
        /\ Other(t) \in Token /\ Other(t) # t
    BY <1>1, SnapshotType, PairFacts, TokenFacts, FeesAssumption
       DEF Inv, TypeOK, Pool, ReservesBackSupply, Snapshot, New
  <2>2. h \in U64 /\ h \in Nat /\ n - h \in U64 /\ (n > 1 <=> h > 0)
    BY CpmmAssumption, SMT DEF U64
  <2> HIDE DEF p
  <2>3. CASE ~(pool.fee < BPS)
    <3>1. pool.fee >= BPS
      BY <2>1, <2>3, CpmmAssumption, SMT
    <3>2. Single(t, n) = {}
      BY <2>1, <3>1 DEF AfterDeposit, Deposit, p
    <3>3. AfterSwap(pool, h, t, 0) = {}
      BY <2>1, <2>3 DEF AfterSwap, Swap, p
    <3> QED
      BY <3>2, <3>3
  <2>4. CASE pool.fee < BPS
    <3>1. ASSUME NEW o \in SwapOut(p, h, t), pool.r[t] + h <= U64Max
          PROVE  /\ m(o) \in Pair /\ s(o) \in Pool
                 /\ second(s(o), t, n) = SecondHalf(t, n - h, o)
                 /\ SecondHalf(t, n - h, o) \in Pair
                 /\ Halfway(p, t, h, o) = New(m(o), pool.l, pool.fee)
                 /\ o >= 0
      <4>1. o \in SwapFormula(pool.r[t], pool.r[Other(t)], h, pool.fee)
        BY <2>1 DEF SwapOut
      <4>2. o \in U64 /\ o \in Nat /\ o >= 0
        <5>1. o \in U64
          BY <2>1, <2>2, <4>1, SwapFormulaBounds
        <5>2. o \in Nat
          BY <5>1, U64Facts
        <5> QED
          BY <5>1, <5>2, SMT
      <4>3. m(o) \in Pair
        BY <2>1, <2>2, <3>1, <4>1, LegsKeepProduct DEF Between
      <4>4. m(o)[Other(t)] = pool.r[Other(t)] - o
        BY <2>1, <2>2, <4>2, SwapLegs DEF Between
      <4>5. Halfway(p, t, h, o) = New(m(o), pool.l, pool.fee)
        BY <2>1 DEF Halfway, Between
      <4> HIDE DEF m
      <4>6. s(o) \in Pool /\ s(o).r = m(o)
        BY <2>1, <4>3 DEF Pool
      <4> HIDE DEF s
      <4>7. got(s(o), t) = o
        BY <2>1, <4>2, <4>4, <4>6, SMT
      <4>8. second(s(o), t, n) = SecondHalf(t, n - h, o)
        BY <4>7 DEF SecondHalf
      <4>9. SecondHalf(t, n - h, o) \in Pair
        BY <2>2, <4>2 DEF SecondHalf, Pair
      <4> QED
        BY <4>2, <4>3, <4>5, <4>6, <4>8, <4>9
    <3>2. \A z : z \in AfterSwap(pool, h, t, 0) <=> Fits /\ \E o \in SwapOut(p, h, t) : z = s(o)
      <4>1. Swap(p, h, t, 0) = IF h > 0 THEN {o \in SwapOut(p, h, t) : o >= 0} ELSE {}
        BY <2>1, <2>4 DEF Swap, Side
      <4>2. \A z : z \in AfterSwap(pool, h, t, 0) <=>
              \E o \in Swap(p, h, t, 0) : pool.r[t] + h <= U64Max /\ z = s(o)
        BY DEF AfterSwap, p, Between
      <4> HIDE DEF s
      <4> QED
        BY <2>2, <3>1, <4>1, <4>2
    <3> DEFINE Ends(x, o) == \E b \in DepositBalanced(Halfway(p, t, h, o), SecondHalf(t, n - h, o), 0) :
                               x = Made(pool, m(o), b) /\ x.r \in Pair /\ x.l <= U64Max
    <3>3. \A x : x \in Single(t, n) <=> Fits /\ \E o \in SwapOut(p, h, t) : Ends(x, o)
      <4> TAKE x
      <4>1. n \in U64
        OBVIOUS
      <4>2. x \in Single(t, n) <=>
              /\ n > 1 /\ pool.r[t] + (n \div 2) <= U64Max
              /\ \E out \in SwapOut(Snapshot(pool), n \div 2, t) :
                   \E b \in DepositBalanced(Halfway(Snapshot(pool), t, n \div 2, out),
                                            SecondHalf(t, n - (n \div 2), out), 0) :
                     /\ x = Made(pool, Between(pool, t, n \div 2, out), b)
                     /\ x.r \in Pair /\ x.l <= U64Max
        BY <2>1, <2>4, <4>1, SingleDeposits, Zenon
      <4> QED
        BY <4>2, Zenon DEF p
    <3>4. ASSUME NEW o \in SwapOut(p, h, t), Fits, NEW x
          PROVE  x \in AfterDeposit(s(o), second(s(o), t, n), "Balanced", 0) <=> Ends(x, o)
      <4> HIDE DEF m, second
      <4>1. AfterDeposit(s(o), SecondHalf(t, n - h, o), "Balanced", 0)
              = {y \in {Made(pool, m(o), b) :
                          b \in DepositBalanced(New(m(o), pool.l, pool.fee), SecondHalf(t, n - h, o), 0)} :
                   y.r \in Pair /\ y.l <= U64Max}
        BY <2>1, <2>4, <3>1, <3>4, DepositAfterwards
      <4> QED
        BY <3>1, <3>4, <4>1
    <3> HIDE DEF m, s, second, Ends, Fits, h, half
    <3>5. \A x : x \in Chained(t, n) <=> Fits /\ \E o \in SwapOut(p, h, t) : Ends(x, o)
      <4>1. \A x : x \in Chained(t, n) <=>
              \E z \in AfterSwap(pool, h, t, 0) : x \in AfterDeposit(z, second(z, t, n), "Balanced", 0)
        BY DEF h
      <4> QED
        BY <3>2, <3>4, <4>1
    <3> QED
      BY <3>3, <3>5
  <2> QED
    BY <2>3, <2>4
<1> QED
  BY <1>1, PoolInvariant, PTL

=============================================================================
