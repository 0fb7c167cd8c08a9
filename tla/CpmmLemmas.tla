----------------------------- MODULE CpmmLemmas -----------------------------
(***************************************************************************)
(* What the quotes of Cpmm return, for every width of the integers, every  *)
(* fee scale and every pool: their type, the bounds the invariants of a    *)
(* pool rest on, and what they do to the product of its reserves and to    *)
(* the value of its LP.                                                    *)
(***************************************************************************)
EXTENDS Cpmm, NaturalLemmas

-----------------------------------------------------------------------------
(* Integers *)

\* A cast to u64 (Rust's "as u64") yields a u64, never more than the number it
\* truncates, and the number itself when that is a u64 already.
LEMMA AsU64Bounds ==
  ASSUME NEW n \in Nat
  PROVE  /\ AsU64(n) \in U64
         /\ AsU64(n) <= n
         /\ n \in U64 => AsU64(n) = n
  BY CpmmAssumption, SMT DEF AsU64, U64

\* Every natural has a floor root: it is one less than the least number whose
\* square is above it.
LEMMA FloorRootExists ==
  ASSUME NEW n \in Nat
  PROVE  \E s \in 0 .. n : IsFloorRoot(s, n)
  <1> DEFINE T == {s \in Nat : n < (s + 1) * (s + 1)}
  <1>1. n < (n + 1) * (n + 1)
    BY SMT
  <1>2. PICK s \in T : \A t \in T : s <= t
    BY <1>1, LeastExists
  <1>3. s * s <= n
    <2>1. CASE s = 0
      BY <2>1
    <2>2. CASE s # 0
      <3>1. s - 1 \in Nat /\ s - 1 \notin T
        BY <1>2, <2>2, SMT
      <3>2. (s - 1) + 1 = s
        BY <1>2, <2>2, SMT
      <3> QED
        BY <3>1, <3>2, <1>2, SMT
    <2> QED
      BY <2>1, <2>2
  <1>4. s <= n
    BY <1>1, <1>2
  <1> QED
    BY <1>2, <1>3, <1>4 DEF IsFloorRoot

\* ... and only one.
LEMMA FloorRootUnique ==
  ASSUME NEW n \in Nat, NEW s \in Nat, NEW t \in Nat,
         IsFloorRoot(s, n), IsFloorRoot(t, n)
  PROVE  s = t
  <1>1. s * s < (t + 1) * (t + 1) /\ t * t < (s + 1) * (s + 1)
    BY SMT DEF IsFloorRoot
  <1>2. ~(s >= t + 1)
    BY <1>1, SMT
  <1>3. ~(t >= s + 1)
    BY <1>1, SMT
  <1> QED
    BY <1>2, <1>3

\* So Isqrt is the floor root.
LEMMA IsqrtIsFloorRoot ==
  ASSUME NEW n \in Nat
  PROVE  Isqrt(n) \in Nat /\ IsFloorRoot(Isqrt(n), n)
  BY FloorRootExists DEF Isqrt

\* The u64 are naturals, and 0 is one of them.
LEMMA U64Facts ==
  /\ U64 \subseteq Nat
  /\ 0 \in U64
  /\ \A a \in Nat : a <= U64Max => a \in U64
  /\ \A a \in U64 : a <= U64Max
  /\ \A a, b \in U64 : b <= a => a - b \in U64
  BY CpmmAssumption, SMT DEF U64

-----------------------------------------------------------------------------
(* Quotes *)

\* There are two tokens, and Other exchanges them.
LEMMA TokenFacts ==
  ASSUME NEW t \in Token
  PROVE  /\ Other(t) \in Token /\ Other(t) # t
         /\ \A u \in Token : u = t \/ u = Other(t)
  BY DEF Token, Other

\* A swap pays at most the reserve it draws on, and never all of it while the
\* other reserve holds something.
LEMMA SwapFormulaBounds ==
  ASSUME NEW rIn \in Nat, NEW rOut \in Nat, NEW amount \in Nat, NEW fee \in Nat,
         NEW out \in SwapFormula(rIn, rOut, amount, fee)
  PROVE  /\ out \in U64
         /\ out <= rOut
         /\ rIn > 0 /\ rOut > 0 => out < rOut
  <1> DEFINE eff == (BPS - fee) * amount
             num == (BPS - fee) * rOut * amount
             den == BPS * rIn + eff
  <1>1. fee <= BPS /\ den > 0 /\ out = AsU64(num \div den)
    BY DEF SwapFormula
  <1>2. eff \in Nat /\ num = rOut * eff
    BY <1>1, CpmmAssumption, SMT
  <1>3. BPS * rIn \in Nat /\ (rIn > 0 => BPS * rIn > 0)
    BY CpmmAssumption, SMT
  <1> HIDE DEF eff
  <1>4. num \in Nat /\ den \in Nat
    BY <1>2, <1>3, SMT
  <1>5. num <= den * rOut
    BY <1>2, <1>3, SMT
  <1>6. rIn > 0 /\ rOut > 0 => num < den * rOut
    BY <1>2, <1>3, SMT
  <1> HIDE DEF num, den
  <1>7. num \div den \in Nat /\ num \div den <= rOut
    BY <1>1, <1>4, <1>5, DivBounds, DivAtMost
  <1>8. rIn > 0 /\ rOut > 0 => num \div den < rOut
    BY <1>1, <1>4, <1>6, DivBelow
  <1> QED
    BY <1>1, <1>7, <1>8, AsU64Bounds, SMT DEF U64

\* The amounts of a pair, and the pairs the quotes are put together from.
LEMMA PairFacts ==
  /\ Nothing \in Pair
  /\ \A t \in Token, k \in U64 : Just(t, k) \in Pair
  /\ \A a \in Pair, t \in Token : a[t] \in U64 /\ a[t] \in Nat
  BY CpmmAssumption, SMT DEF Nothing, Just, Pair, Token, U64

\* An amount in and an amount out, token by token.
LEMMA InAndOut ==
  ASSUME NEW a \in Pair, NEW b \in Pair, NEW c \in Pair,
         \A t \in Token : (a[t] + b[t]) - c[t] \in U64
  PROVE  /\ Minus(Plus(a, b), c) \in Pair
         /\ \A t \in Token : Minus(Plus(a, b), c)[t] = (a[t] + b[t]) - c[t]
  <1>1. ASSUME NEW t \in Token
        PROVE  Minus(Plus(a, b), c)[t] = (a[t] + b[t]) - c[t]
    <2>1. Plus(a, b)[t] = a[t] + b[t]
      BY DEF Plus
    <2>2. Minus(Plus(a, b), c)[t] = Plus(a, b)[t] - c[t]
      BY DEF Minus
    <2> QED
      BY <2>1, <2>2, Zenon
  <1>2. Minus(Plus(a, b), c) = [t \in Token |-> Minus(Plus(a, b), c)[t]]
    BY Zenon DEF Minus
  <1> QED
    BY <1>1, <1>2 DEF Pair

\* A swap leaves something of both tokens in the vaults.
LEMMA SwapLeaves ==
  ASSUME NEW pool \in PoolState, NEW amount \in U64, NEW t \in Token, NEW minOut,
         NEW out \in Swap(pool, amount, t, minOut), pool.r[t] + amount <= U64Max
  PROVE  /\ out \in U64
         /\ Minus(Plus(pool.r, Just(t, amount)), Just(Other(t), out)) \in Pair
         /\ \A u \in Token : Minus(Plus(pool.r, Just(t, amount)), Just(Other(t), out))[u] > 0
  <1>1. /\ pool.r \in Pair /\ pool.fee \in Nat
        /\ pool.r[t] \in Nat /\ pool.r[Other(t)] \in U64 /\ pool.r[Other(t)] \in Nat
        /\ pool.r[t] > 0 /\ pool.r[Other(t)] > 0
        /\ amount \in Nat
    BY PairFacts, TokenFacts, CpmmAssumption, SMT DEF Swap, PoolState, U64
  <1>2. out \in SwapFormula(pool.r[t], pool.r[Other(t)], amount, pool.fee)
    BY DEF Swap, SwapOut
  <1>3. out \in U64 /\ out < pool.r[Other(t)]
    BY <1>1, <1>2, SwapFormulaBounds
  <1>4. ASSUME NEW u \in Token
        PROVE  /\ (pool.r[u] + Just(t, amount)[u]) - Just(Other(t), out)[u] \in U64
               /\ (pool.r[u] + Just(t, amount)[u]) - Just(Other(t), out)[u] > 0
    <2>1. CASE u = t
      <3>1. Just(t, amount)[u] = amount /\ Just(Other(t), out)[u] = 0
        BY <2>1, TokenFacts DEF Just
      <3> QED
        BY <1>1, <2>1, <3>1, CpmmAssumption, SMT DEF U64
    <2>2. CASE u = Other(t)
      <3>1. Just(t, amount)[u] = 0 /\ Just(Other(t), out)[u] = out
        BY <2>2, TokenFacts DEF Just
      <3> QED
        BY <1>1, <1>3, <2>2, <3>1, CpmmAssumption, SMT DEF U64
    <2> QED
      BY <2>1, <2>2, TokenFacts
  <1>5. Just(t, amount) \in Pair /\ Just(Other(t), out) \in Pair
    BY <1>3, PairFacts, TokenFacts
  <1> QED
    BY <1>1, <1>3, <1>4, <1>5, InAndOut

DepositQuotes == [lp : U64, deposit : Pair, swapIn : Pair, swapOut : Pair]

\* A balanced deposit quote deposits some of both tokens and swaps nothing.
LEMMA DepositBalancedBounds ==
  ASSUME NEW pool \in PoolState, NEW offer \in Pair, NEW minLp,
         NEW q \in DepositBalanced(pool, offer, minLp)
  PROVE  /\ q \in DepositQuotes
         /\ \A t \in Token : q.deposit[t] > 0
         /\ q.swapIn = Nothing /\ q.swapOut = Nothing
  <1> USE PairFacts
  <1>1. \A t \in Token : offer[t] > 0
    BY SMT DEF DepositBalanced, U64
  <1>2. CASE pool.l = 0
    <2>1. offer["X"] * offer["Y"] \in Nat
      BY SMT DEF Token
    <2>2. Isqrt(offer["X"] * offer["Y"]) \in Nat
      BY <2>1, IsqrtIsFloorRoot
    <2>3. q = DepositQuote(AsU64(Isqrt(offer["X"] * offer["Y"])), offer, Nothing, Nothing)
      BY <1>1, <1>2 DEF DepositBalanced, FirstMint
    <2> QED
      BY <1>1, <2>2, <2>3, AsU64Bounds DEF DepositQuote, DepositQuotes
  <1>3. CASE pool.l # 0
    <2> DEFINE share(t) == (offer[t] * pool.l) \div pool.r[t]
               lp       == IF share("X") <= share("Y") THEN share("X") ELSE share("Y")
               take     == [t \in Token |-> AsU64((pool.r[t] * lp) \div pool.l)]
    <2>1. /\ \A t \in Token : pool.r[t] > 0
          /\ \A t \in Token : take[t] > 0
          /\ q = DepositQuote(AsU64(lp), take, Nothing, Nothing)
      BY <1>1, <1>3 DEF DepositBalanced, LaterMint
    <2>2. pool.l \in Nat /\ pool.l > 0 /\ \A t \in Token : pool.r[t] \in Nat
      BY <1>3, CpmmAssumption, SMT DEF PoolState, U64
    <2>3. \A t \in Token : share(t) \in Nat
      <3> TAKE t \in Token
      <3>1. offer[t] * pool.l \in Nat
        BY <2>2, SMT
      <3> QED
        BY <2>1, <2>2, <3>1, DivBounds
    <2> HIDE DEF share
    <2>4. lp \in Nat
      BY <2>3 DEF Token
    <2> HIDE DEF lp
    <2>5. \A t \in Token : (pool.r[t] * lp) \div pool.l \in Nat
      <3> TAKE t \in Token
      <3>1. pool.r[t] * lp \in Nat
        BY <2>2, <2>4, SMT
      <3> QED
        BY <2>2, <3>1, DivBounds
    <2>6. take \in Pair /\ AsU64(lp) \in U64
      BY <2>4, <2>5, AsU64Bounds DEF Pair
    <2> QED
      BY <2>1, <2>6 DEF DepositQuote, DepositQuotes
  <1> QED
    BY <1>2, <1>3

\* Every deposit quote deposits some of both tokens, and its swap leg, if any,
\* draws no more than the vault holds.
LEMMA DepositBounds ==
  ASSUME NEW pool \in PoolState, NEW offer \in Offers(U64), NEW side, NEW minLp,
         NEW q \in Deposit(pool, offer, side, minLp)
  PROVE  /\ q \in DepositQuotes
         /\ \A t \in Token : q.deposit[t] > 0 /\ q.swapOut[t] <= pool.r[t]
  <1> USE PairFacts
  <1>0. pool.r \in Pair /\ pool.l \in U64 /\ pool.fee \in Nat
    BY DEF PoolState
  <1>1. CASE DOMAIN offer = Token /\ q \in DepositBalanced(pool, offer, minLp)
    <2>1. offer \in Pair
      BY <1>1 DEF Offers, Pair
    <2>2. \A t \in Token : Nothing[t] <= pool.r[t]
      BY <1>0, SMT DEF Nothing
    <2> QED
      BY <1>1, <2>1, <2>2, DepositBalancedBounds
  <1>2. CASE side \in Token /\ DOMAIN offer = {side}
             /\ q \in DepositSingle(pool, side, offer[side], minLp)
    <2> DEFINE amount == offer[side]
               half   == amount \div 2
               after(out) == New(Minus(Plus(pool.r, Just(side, half)), Just(Other(side), out)),
                                 pool.l, pool.fee)
               rest(out)  == [u \in Token |-> IF u = side THEN amount - half ELSE out]
    <2>0. amount > 1 /\ pool.r[side] + half <= U64Max
      BY <1>2 DEF DepositSingle
    <2>1. PICK out \in {o \in SwapOut(pool, half, side) : o <= pool.r[Other(side)]} :
            q \in {[b EXCEPT !.swapIn = Just(side, half), !.swapOut = Just(Other(side), out)] :
                      b \in DepositBalanced(after(out), rest(out), minLp)}
      BY <1>2 DEF DepositSingle
    <2>b. PICK b \in DepositBalanced(after(out), rest(out), minLp) :
            q = [b EXCEPT !.swapIn = Just(side, half), !.swapOut = Just(Other(side), out)]
      BY <2>1
    <2>2. amount \in U64 /\ amount \in Nat
      BY <1>2, CpmmAssumption, SMT DEF Offers, U64
    <2>3. half \in U64 /\ amount - half \in U64 /\ half \in Nat
      BY <2>2, CpmmAssumption, SMT DEF U64
    <2>3a. out \in SwapOut(pool, half, side) /\ out <= pool.r[Other(side)]
      BY <2>1
    <2>4. out \in U64 /\ out \in Nat
      <3>1. out \in SwapFormula(pool.r[side], pool.r[Other(side)], half, pool.fee)
        BY <2>3a DEF SwapOut
      <3> QED
        BY <1>0, <1>2, <2>3, <3>1, TokenFacts, SwapFormulaBounds, CpmmAssumption, SMT DEF U64
    <2> HIDE DEF amount, half
    <2>5. after(out) \in PoolState
      <3>1. ASSUME NEW t \in Token
            PROVE  (pool.r[t] + Just(side, half)[t]) - Just(Other(side), out)[t] \in U64
        <4>1. pool.r[t] \in U64
          BY <1>0
        <4>2. CASE t = side
          <5>1. Just(side, half)[t] = half /\ Just(Other(side), out)[t] = 0
            BY <1>2, <4>2, TokenFacts DEF Just
          <5> QED
            BY <2>0, <2>3, <4>1, <4>2, <5>1, CpmmAssumption, SMT DEF U64
        <4>3. CASE t = Other(side)
          <5>1. Just(side, half)[t] = 0 /\ Just(Other(side), out)[t] = out
            BY <1>2, <4>3, TokenFacts DEF Just
          <5> QED
            BY <2>3a, <2>4, <4>1, <4>3, <5>1, CpmmAssumption, SMT DEF U64
        <4> QED
          BY <1>2, <4>2, <4>3, TokenFacts
      <3>3. Minus(Plus(pool.r, Just(side, half)), Just(Other(side), out)) \in Pair
        BY <1>0, <1>2, <2>3, <2>4, <3>1, TokenFacts, InAndOut
      <3> QED
        BY <1>0, <3>3 DEF PoolState, New
    <2>6. rest(out) \in Pair
      BY <2>3, <2>4 DEF Pair
    <2>7. b \in DepositQuotes /\ \A t \in Token : b.deposit[t] > 0
      BY <2>b, <2>5, <2>6, DepositBalancedBounds
    <2>8. /\ q.lp = b.lp /\ q.deposit = b.deposit
          /\ q.swapIn = Just(side, half) /\ q.swapOut = Just(Other(side), out)
          /\ q \in DepositQuotes
      <3>1. Just(side, half) \in Pair /\ Just(Other(side), out) \in Pair
        BY <1>2, <2>3, <2>4, TokenFacts
      <3> QED
        BY <2>b, <2>7, <3>1 DEF DepositQuotes
    <2>9. \A t \in Token : Just(Other(side), out)[t] <= pool.r[t]
      BY <1>0, <1>2, <2>3a, <2>4, TokenFacts, SMT DEF Just, U64
    <2> QED
      BY <2>7, <2>8, <2>9
  <1> QED
    BY <1>1, <1>2 DEF Deposit

\* A deposit leaves at least what it deposited.
LEMMA DepositLeaves ==
  ASSUME NEW pool \in PoolState, NEW offer \in Offers(U64), NEW side, NEW minLp,
         NEW q \in Deposit(pool, offer, side, minLp), NEW t \in Token
  PROVE  Plus(Minus(Plus(pool.r, q.swapIn), q.swapOut), q.deposit)[t] > 0
  <1>1. q \in DepositQuotes /\ q.deposit[t] > 0 /\ q.swapOut[t] <= pool.r[t]
    BY DepositBounds
  <1>2. Plus(Minus(Plus(pool.r, q.swapIn), q.swapOut), q.deposit)[t]
          = ((pool.r[t] + q.swapIn[t]) - q.swapOut[t]) + q.deposit[t]
    BY Zenon DEF Plus, Minus
  <1>3. /\ pool.r[t] \in Nat /\ q.swapIn[t] \in Nat
        /\ q.swapOut[t] \in Nat /\ q.deposit[t] \in Nat
    BY <1>1, PairFacts DEF DepositQuotes, PoolState
  <1> QED
    BY <1>1, <1>2, <1>3, SMT

\* The share of a withdrawal is at most the reserve, and less than the reserve
\* while some LP stays behind.
LEMMA ProRataBounds ==
  ASSUME NEW pool \in PoolState, NEW lp \in U64, pool.l > 0, lp <= pool.l,
         NEW t \in Token
  PROVE  /\ ProRata(pool, lp)[t] \in U64
         /\ ProRata(pool, lp)[t] <= pool.r[t]
         /\ lp < pool.l /\ pool.r[t] > 0 => ProRata(pool, lp)[t] < pool.r[t]
  <1> DEFINE r == pool.r[t]
             l == pool.l
  <1>1. r \in U64 /\ r \in Nat /\ l \in Nat /\ l > 0 /\ lp \in Nat /\ lp <= l
    BY PairFacts, CpmmAssumption, SMT DEF PoolState, U64
  <1>2. ProRata(pool, lp)[t] = (r * lp) \div l
    BY DEF ProRata
  <1> HIDE DEF r, l
  <1>3. r * lp \in Nat /\ r * lp <= l * r
    BY <1>1, SMT
  <1>4. (r * lp) \div l \in Nat /\ (r * lp) \div l <= r
    BY <1>1, <1>3, DivBounds, DivAtMost
  <1>5. lp < l /\ r > 0 => r * lp < l * r
    BY <1>1, SMT
  <1>6. lp < l /\ r > 0 => (r * lp) \div l < r
    BY <1>1, <1>3, <1>5, DivBelow
  <1>7. (r * lp) \div l \in U64
    BY <1>1, <1>4, CpmmAssumption, SMT DEF U64
  <1> QED
    BY <1>2, <1>4, <1>6, <1>7 DEF r, l

\* What a carried-out withdrawal quote leaves in the vaults.
Left(pool, q) == Minus(Plus(Minus(pool.r, q.proRata), q.swapIn), q.swapOut)

\* What a withdrawal leaves of a reserve before any swap.
Rest(pool, lp, t) == pool.r[t] - ProRata(pool, lp)[t]

LEMMA RestBounds ==
  ASSUME NEW pool \in PoolState, NEW lp \in U64, pool.l > 0, lp <= pool.l,
         NEW t \in Token
  PROVE  /\ pool.r[t] \in Nat
         /\ ProRata(pool, lp)[t] \in U64 /\ ProRata(pool, lp)[t] \in Nat
         /\ Rest(pool, lp, t) \in Nat
         /\ lp < pool.l /\ pool.r[t] > 0 => Rest(pool, lp, t) > 0
  <1>1. pool.r[t] \in Nat
    BY PairFacts DEF PoolState
  <1>2. /\ ProRata(pool, lp)[t] \in U64 /\ ProRata(pool, lp)[t] <= pool.r[t]
        /\ lp < pool.l /\ pool.r[t] > 0 => ProRata(pool, lp)[t] < pool.r[t]
    BY ProRataBounds
  <1> QED
    BY <1>1, <1>2, CpmmAssumption, SMT DEF U64, Rest

\* All of the supply stands for all of the reserves.
LEMMA WholeShare ==
  ASSUME NEW pool \in PoolState, pool.l > 0, NEW t \in Token
  PROVE  ProRata(pool, pool.l)[t] = pool.r[t] /\ Rest(pool, pool.l, t) = 0
  <1> DEFINE r == pool.r[t]
             l == pool.l
             back == (r * l) \div l
  <1>1. r \in Nat /\ l \in Nat /\ l > 0
    BY PairFacts, U64Facts DEF PoolState
  <1>2. ProRata(pool, l)[t] = back /\ Rest(pool, l, t) = r - back
    BY DEF ProRata, Rest
  <1> HIDE DEF r, l
  <1>3. r * l \in Nat /\ r * l <= l * r /\ l * (r + 1) > r * l
    BY <1>1, SMT
  <1>4. back \in Nat /\ back <= r /\ r * l < l * back + l
    BY <1>1, <1>3, DivBounds, DivAtMost
  <1> HIDE DEF back
  <1>5. l * (back + 1) > l * r
    BY <1>1, <1>3, <1>4, SMT
  <1>6. back + 1 > r
    BY <1>1, <1>4, <1>5, SMT
  <1>7. back = r /\ r - back = 0
    BY <1>1, <1>4, <1>6, SMT
  <1> QED
    BY <1>2, <1>7 DEF r, l

\* Only a pool with supply and both reserves pays, and it pays for some LP.
LEMMA WithdrawGuards ==
  ASSUME NEW pool, NEW lp \in U64, NEW side, NEW floor, NEW q \in Withdraw(pool, lp, side, floor)
  PROVE  /\ lp > 0 /\ pool.l > 0
         /\ \A t \in Token : pool.r[t] > 0
  BY DEF Withdraw

\* A balanced withdrawal leaves that much.
LEMMA BalancedLeaves ==
  ASSUME NEW pool \in PoolState, NEW lp \in U64, NEW floor, lp <= pool.l,
         NEW q \in Withdraw(pool, lp, "Balanced", floor), NEW t \in Token
  PROVE  Left(pool, q)[t] = Rest(pool, lp, t)
  <1> DEFINE share == ProRata(pool, lp)
             w     == [v \in Token |-> AsU64(share[v])]
  <1>1. \A v \in Token : share[v] \in U64 /\ share[v] \in Nat
    BY RestBounds, WithdrawGuards
  <1>2. q.proRata = w /\ q.swapIn = Nothing /\ q.swapOut = Nothing
    BY DEF Withdraw, WithdrawBalanced, WithdrawQuote
  <1>3. w = share
    BY <1>1, AsU64Bounds DEF ProRata
  <1>4. pool.r[t] \in Nat /\ share[t] \in Nat
    BY <1>1, PairFacts DEF PoolState
  <1> HIDE DEF share
  <1>5. Left(pool, q)[t] = ((pool.r[t] - share[t]) + 0) - 0
    BY <1>2, <1>3, Zenon DEF Left, Minus, Plus, Nothing
  <1> QED
    BY <1>4, <1>5, SMT DEF Rest, share

\* What a single-sided quote is made of.
LEMMA SingleQuote ==
  ASSUME NEW pool \in PoolState, NEW lp \in U64, NEW side \in Token, NEW floor, lp <= pool.l,
         NEW q \in Withdraw(pool, lp, side, floor)
  PROVE  \E out \in SwapFormula(Rest(pool, lp, Other(side)), Rest(pool, lp, side),
                                ProRata(pool, lp)[Other(side)], pool.fee) :
           /\ out \in U64
           /\ q = WithdrawQuote(Just(side, AsU64(ProRata(pool, lp)[side] + out)), ProRata(pool, lp),
                                Just(Other(side), ProRata(pool, lp)[Other(side)]), Just(side, out))
  <1> DEFINE share    == ProRata(pool, lp)
             u        == Other(side)
             rest     == [v \in Token |-> pool.r[v] - share[v]]
             total(o) == AsU64(share[side] + o)
             quote(o) == WithdrawQuote(Just(side, total(o)), share, Just(u, share[u]), Just(side, o))
  <1>1. q \in WithdrawSingle(pool, side, lp)
    BY DEF Withdraw, Token
  <1>2. q \in {quote(o) : o \in {p \in SwapFormula(rest[u], rest[side], share[u], pool.fee) :
                                   total(p) > 0}}
    BY <1>1, Zenon DEF WithdrawSingle
  <1>3. PICK out \in SwapFormula(rest[u], rest[side], share[u], pool.fee) : q = quote(out)
    BY <1>2
  <1>4. u \in Token /\ rest[u] = Rest(pool, lp, u) /\ rest[side] = Rest(pool, lp, side)
    BY TokenFacts DEF Rest
  <1>5. /\ Rest(pool, lp, u) \in Nat /\ Rest(pool, lp, side) \in Nat
        /\ share[u] \in Nat /\ pool.fee \in Nat
    BY <1>4, RestBounds, WithdrawGuards DEF PoolState
  <1>6. out \in U64
    BY <1>3, <1>4, <1>5, SwapFormulaBounds
  <1> QED
    BY <1>3, <1>4, <1>6

\* A single-sided one leaves the other reserve as it was, and what is left of
\* the wanted token pays for the other's share as a swap would.
LEMMA SingleLeaves ==
  ASSUME NEW pool \in PoolState, NEW lp \in U64, NEW side \in Token, NEW floor, lp <= pool.l,
         NEW q \in Withdraw(pool, lp, side, floor)
  PROVE  \E out \in SwapFormula(Rest(pool, lp, Other(side)), Rest(pool, lp, side),
                                ProRata(pool, lp)[Other(side)], pool.fee) :
           /\ out \in Nat /\ out <= Rest(pool, lp, side)
           /\ lp < pool.l => out < Rest(pool, lp, side)
           /\ Left(pool, q)[Other(side)] = pool.r[Other(side)]
           /\ Left(pool, q)[side] = Rest(pool, lp, side) - out
  <1> DEFINE share == ProRata(pool, lp)
             u     == Other(side)
  <1>1. /\ pool.fee \in Nat
        /\ u \in Token /\ u # side
    BY TokenFacts DEF PoolState
  <1>2. \A v \in Token : /\ pool.r[v] \in Nat
                         /\ share[v] \in Nat
                         /\ Rest(pool, lp, v) \in Nat
                         /\ lp < pool.l => Rest(pool, lp, v) > 0
    BY RestBounds, WithdrawGuards
  <1>7. PICK out \in SwapFormula(Rest(pool, lp, u), Rest(pool, lp, side), share[u], pool.fee) :
          /\ q.proRata = share
          /\ q.swapIn = Just(u, share[u]) /\ q.swapOut = Just(side, out)
    BY SingleQuote DEF WithdrawQuote
  <1> HIDE DEF share, u
  <1>8. /\ out \in Nat
        /\ out <= Rest(pool, lp, side)
        /\ lp < pool.l => out < Rest(pool, lp, side)
    <2>1. /\ out \in U64 /\ out <= Rest(pool, lp, side)
          /\ Rest(pool, lp, u) > 0 /\ Rest(pool, lp, side) > 0 => out < Rest(pool, lp, side)
      BY <1>1, <1>2, <1>7, SwapFormulaBounds
    <2> QED
      BY <1>1, <1>2, <2>1, CpmmAssumption, SMT DEF U64
  <1>9. ASSUME NEW t \in Token
        PROVE  Left(pool, q)[t] = ((pool.r[t] - share[t]) + Just(u, share[u])[t]) - Just(side, out)[t]
    BY <1>7, Zenon DEF Left, Minus, Plus
  <1>10. Left(pool, q)[u] = pool.r[u]
    <2>1. Just(u, share[u])[u] = share[u] /\ Just(side, out)[u] = 0
      BY <1>1 DEF Just
    <2> QED
      BY <1>1, <1>2, <1>9, <2>1, SMT
  <1>11. Left(pool, q)[side] = Rest(pool, lp, side) - out
    <2>1. Just(u, share[u])[side] = 0 /\ Just(side, out)[side] = out
      BY <1>1 DEF Just
    <2> QED
      BY <1>2, <1>8, <1>9, <2>1, SMT DEF Rest, share
  <1> QED
    BY <1>7, <1>8, <1>10, <1>11 DEF u, share

\* A withdrawal is made of pairs of u64, and pays at least what it was quoted;
\* single-sided, the share of the other token goes back in.
LEMMA WithdrawPays ==
  ASSUME NEW pool \in PoolState, NEW lp \in U64, NEW side \in Side, NEW floor, lp <= pool.l,
         NEW q \in Withdraw(pool, lp, side, floor)
  PROVE  /\ q.proRata \in Pair /\ q.swapIn \in Pair /\ q.swapOut \in Pair /\ q.withdraw \in Pair
         /\ AtLeast(q.withdraw, floor)
         /\ \A t \in Token : /\ q.withdraw[t] <= (q.proRata[t] - q.swapIn[t]) + q.swapOut[t]
                             /\ side \in Token /\ t = Other(side) =>
                                  (q.proRata[t] - q.swapIn[t]) + q.swapOut[t] = 0
  <1> DEFINE share == ProRata(pool, lp)
  <1>1. share \in Pair /\ \A t \in Token : share[t] \in U64 /\ share[t] \in Nat
    <2>1. \A t \in Token : share[t] \in U64 /\ share[t] \in Nat
      BY RestBounds, WithdrawGuards
    <2> QED
      BY <2>1 DEF Pair, ProRata
  <1>2. AtLeast(q.withdraw, floor)
    BY DEF Withdraw
  <1>3. CASE side = "Balanced"
    <2>1. /\ q.proRata = [t \in Token |-> AsU64(share[t])]
          /\ q.withdraw = [t \in Token |-> AsU64(share[t])]
          /\ q.swapIn = Nothing /\ q.swapOut = Nothing
      BY <1>3 DEF Withdraw, WithdrawBalanced, WithdrawQuote
    <2>2. [t \in Token |-> AsU64(share[t])] \in Pair
      BY <1>1, AsU64Bounds DEF Pair
    <2>3. side \notin Token
      BY <1>3 DEF Token
    <2>4. ASSUME NEW t \in Token
          PROVE  q.withdraw[t] <= (q.proRata[t] - q.swapIn[t]) + q.swapOut[t]
      <3>1. q.withdraw[t] = q.proRata[t] /\ q.proRata[t] \in Nat
        BY <2>1, <2>2, PairFacts
      <3>2. q.swapIn[t] = 0 /\ q.swapOut[t] = 0
        BY <2>1 DEF Nothing
      <3> QED
        BY <3>1, <3>2, SMT
    <2> QED
      BY <1>2, <2>1, <2>2, <2>3, <2>4, PairFacts
  <1>4. CASE side \in Token
    <2> DEFINE u == Other(side)
               total(o) == AsU64(share[side] + o)
    <2>1. PICK out \in U64 : q = WithdrawQuote(Just(side, total(out)), share,
                                               Just(u, share[u]), Just(side, out))
      BY <1>4, SingleQuote
    <2>2. /\ q.proRata = share /\ q.withdraw = Just(side, total(out))
          /\ q.swapIn = Just(u, share[u]) /\ q.swapOut = Just(side, out)
      BY <2>1 DEF WithdrawQuote
    <2>3. u \in Token /\ u # side /\ (\A t \in Token : t = side \/ t = u) /\ out \in Nat
      BY <1>4, TokenFacts, U64Facts
    <2>4. total(out) \in U64 /\ total(out) \in Nat /\ total(out) <= share[side] + out
      <3>1. share[side] + out \in Nat
        BY <1>1, <1>4, <2>3, SMT
      <3> QED
        BY <3>1, AsU64Bounds, U64Facts
    <2> HIDE DEF share, u, total
    <2>5. q.withdraw[side] <= (q.proRata[side] - q.swapIn[side]) + q.swapOut[side]
      <3>1. q.withdraw[side] = total(out) /\ q.swapIn[side] = 0 /\ q.swapOut[side] = out
        BY <1>4, <2>2, <2>3 DEF Just
      <3>2. q.proRata[side] = share[side] /\ share[side] \in Nat
        BY <1>1, <1>4, <2>2
      <3> QED
        BY <2>3, <2>4, <3>1, <3>2, SMT
    <2>6. q.withdraw[u] = 0 /\ (q.proRata[u] - q.swapIn[u]) + q.swapOut[u] = 0
      <3>1. q.withdraw[u] = 0 /\ q.swapIn[u] = share[u] /\ q.swapOut[u] = 0
        BY <1>4, <2>2, <2>3 DEF Just
      <3>2. q.proRata[u] = share[u] /\ share[u] \in Nat
        BY <1>1, <2>2, <2>3
      <3> QED
        BY <3>1, <3>2, SMT
    <2>7. ASSUME NEW t \in Token
          PROVE  /\ q.withdraw[t] <= (q.proRata[t] - q.swapIn[t]) + q.swapOut[t]
                 /\ t = u => (q.proRata[t] - q.swapIn[t]) + q.swapOut[t] = 0
      BY <2>3, <2>5, <2>6
    <2>8. q.proRata \in Pair /\ q.swapIn \in Pair /\ q.swapOut \in Pair /\ q.withdraw \in Pair
      BY <1>1, <1>4, <2>2, <2>3, <2>4, PairFacts
    <2> QED
      BY <1>2, <2>7, <2>8 DEF u
  <1> QED
    BY <1>3, <1>4 DEF Side

\* What a withdrawal of no more than the supply leaves in the vaults is a pair
\* of u64, and nonzero while some LP stays behind.
LEMMA WithdrawLeaves ==
  ASSUME NEW pool \in PoolState, NEW lp \in U64, NEW side \in Side, NEW floor,
         lp <= pool.l, NEW q \in Withdraw(pool, lp, side, floor)
  PROVE  /\ Left(pool, q) \in Pair
         /\ lp < pool.l => \A t \in Token : Left(pool, q)[t] > 0
  <1>1. ASSUME NEW t \in Token
        PROVE  /\ pool.r[t] \in U64 /\ pool.r[t] > 0
               /\ Rest(pool, lp, t) \in U64
               /\ lp < pool.l => Rest(pool, lp, t) > 0
    <2>1. pool.r[t] \in U64 /\ pool.r[t] > 0 /\ pool.l > 0
      BY PairFacts, WithdrawGuards DEF PoolState
    <2>2. /\ ProRata(pool, lp)[t] \in Nat /\ Rest(pool, lp, t) \in Nat
          /\ lp < pool.l => Rest(pool, lp, t) > 0
      BY <2>1, RestBounds
    <2> QED
      BY <2>1, <2>2, CpmmAssumption, SMT DEF U64, Rest
  <1>2. ASSUME NEW t \in Token
        PROVE  Left(pool, q)[t] \in U64 /\ (lp < pool.l => Left(pool, q)[t] > 0)
    <2>1. CASE side = "Balanced"
      <3>1. Left(pool, q)[t] = Rest(pool, lp, t)
        BY <2>1, BalancedLeaves
      <3> QED
        BY <1>1, <3>1
    <2>2. CASE side \in Token
      <3>1. PICK out \in Nat : /\ out <= Rest(pool, lp, side)
                               /\ lp < pool.l => out < Rest(pool, lp, side)
                               /\ Left(pool, q)[Other(side)] = pool.r[Other(side)]
                               /\ Left(pool, q)[side] = Rest(pool, lp, side) - out
        BY <2>2, SingleLeaves
      <3>2. CASE t = side
        BY <1>1, <2>2, <3>1, <3>2, CpmmAssumption, SMT DEF U64
      <3>3. CASE t = Other(side)
        BY <1>1, <3>1, <3>3
      <3> QED
        BY <2>2, <3>2, <3>3, TokenFacts
    <2> QED
      BY <2>1, <2>2 DEF Side
  <1> QED
    BY <1>2 DEF Pair, Left, Minus

-----------------------------------------------------------------------------
(* What the quotes do to the product of the reserves *)

\* What swap_out and the two chained quotes pay is on the curve, and the product
\* of the reserves does not fall: the fee is taken off the input.
LEMMA SwapFormulaOnCurve ==
  ASSUME NEW rIn \in Nat, NEW rOut \in U64, NEW amount \in Nat, NEW fee \in Nat,
         NEW out \in SwapFormula(rIn, rOut, amount, fee)
  PROVE  /\ rOut \in Nat /\ out \in Nat /\ out <= rOut
         /\ (BPS * rIn + (BPS - fee) * amount) * (rOut - out) >= BPS * rIn * rOut
         /\ ~((BPS * rIn + (BPS - fee) * amount) * (rOut - (out + 1)) >= BPS * rIn * rOut)
         /\ (rIn + amount) * (rOut - out) >= rIn * rOut
  <1> DEFINE eff == (BPS - fee) * amount
             base == BPS * rIn
             quot == ((BPS - fee) * rOut * amount) \div (base + eff)
  <1>0. rOut \in Nat /\ BPS \in Nat /\ BPS > 0
    BY CpmmAssumption, SMT DEF U64
  <1>1. fee <= BPS /\ base + eff > 0 /\ out = AsU64(quot)
    BY DEF SwapFormula
  <1>2. /\ base \in Nat /\ eff \in Nat
        /\ (BPS - fee) * rOut * amount = rOut * eff
    BY <1>0, <1>1, SMT
  <1>3. eff <= BPS * amount
    BY <1>0, <1>1, SMT
  <1>3a. BPS * amount \in Nat
    BY <1>0, SMT
  <1>4. base + BPS * amount = BPS * (rIn + amount)
    BY <1>0, SMT
  <1>5. quot = (rOut * eff) \div (base + eff)
    BY <1>2
  <1> HIDE DEF eff, base, quot
  <1>6. /\ quot \in Nat
        /\ (base + eff) * (rOut - quot) >= base * rOut
        /\ ~((base + eff) * (rOut - (quot + 1)) >= base * rOut)
    BY <1>0, <1>1, <1>2, <1>5, CurveProduct
  <1>7. quot <= rOut
    <2>1. rOut * eff <= (base + eff) * rOut
      BY <1>0, <1>2, SMT
    <2>2. base + eff \in Nat /\ rOut * eff \in Nat
      BY <1>0, <1>2, SMT
    <2> QED
      BY <1>0, <1>1, <1>5, <2>1, <2>2, DivAtMost
  <1>8. out = quot
    <2>1. quot \in U64
      BY <1>0, <1>6, <1>7, CpmmAssumption, SMT DEF U64
    <2> QED
      BY <1>1, <1>6, <2>1, AsU64Bounds
  <1>9. (rIn + amount) * (rOut - out) >= rIn * rOut
    <2> DEFINE left == rOut - out
    <2>1. left \in Nat
      BY <1>0, <1>6, <1>7, <1>8, SMT
    <2>2. (base + eff) * left >= base * rOut
      BY <1>6, <1>8
    <2> HIDE DEF left
    <2>3. (base + eff) * left <= (BPS * (rIn + amount)) * left
      <3>1. base + eff \in Nat /\ BPS * (rIn + amount) \in Nat /\ base + eff <= BPS * (rIn + amount)
        BY <1>2, <1>3, <1>3a, <1>4, SMT
      <3> QED
        BY <2>1, <3>1, Times
    <2>4. (BPS * (rIn + amount)) * left = BPS * ((rIn + amount) * left)
      BY <1>0, <2>1, SMT
    <2>5. base * rOut = BPS * (rIn * rOut)
      BY <1>0, SMT DEF base
    <2>6. (rIn + amount) * left \in Int /\ rIn * rOut \in Int
      BY <1>0, <2>1, SMT
    <2>7. BPS * ((rIn + amount) * left) >= BPS * (rIn * rOut)
      <3>1. (base + eff) * left \in Int /\ base * rOut \in Int /\ BPS * ((rIn + amount) * left) \in Int
        BY <1>0, <1>2, <2>1, <2>6, SMT
      <3> QED
        BY <2>2, <2>3, <2>4, <2>5, <3>1, SMT
    <2>8. (rIn + amount) * left >= rIn * rOut
      BY <1>0, <2>6, <2>7, Cancel
    <2> QED
      BY <2>8 DEF left
  <1> QED
    BY <1>0, <1>6, <1>7, <1>8, <1>9 DEF eff, base

\* One token in, the other out.
LEMMA SwapLegs ==
  ASSUME NEW r \in Pair, NEW t \in Token, NEW amount \in Nat, NEW out \in Nat
  PROVE  /\ Minus(Plus(r, Just(t, amount)), Just(Other(t), out))[t] = r[t] + amount
         /\ Minus(Plus(r, Just(t, amount)), Just(Other(t), out))[Other(t)] = r[Other(t)] - out
  <1>1. /\ Just(t, amount)[t] = amount /\ Just(t, amount)[Other(t)] = 0
        /\ Just(Other(t), out)[t] = 0 /\ Just(Other(t), out)[Other(t)] = out
    BY TokenFacts DEF Just
  <1>2. \A u \in Token : Minus(Plus(r, Just(t, amount)), Just(Other(t), out))[u]
                           = (r[u] + Just(t, amount)[u]) - Just(Other(t), out)[u]
    BY Zenon DEF Minus, Plus
  <1>3. r[t] \in Nat /\ r[Other(t)] \in Nat /\ Other(t) \in Token
    BY PairFacts, TokenFacts
  <1> QED
    BY <1>1, <1>2, <1>3, SMT

\* The product of two amounts, whichever token is named first.
Product(r) == r["X"] * r["Y"]

LEMMA ProductFacts ==
  ASSUME NEW r \in Pair, NEW t \in Token
  PROVE  /\ r[t] \in Nat /\ r[Other(t)] \in Nat
         /\ Product(r) \in Nat
         /\ Product(r) = r[t] * r[Other(t)]
  <1>1. r["X"] \in Nat /\ r["Y"] \in Nat /\ t \in {"X", "Y"}
    BY PairFacts DEF Token
  <1>2. r["X"] * r["Y"] = r["Y"] * r["X"] /\ r["X"] * r["Y"] \in Nat
    BY <1>1, SMT
  <1> QED
    BY <1>1, <1>2 DEF Product, Other

\* The legs of a swap, and of the swap in a single-sided deposit, lose nothing.
LEMMA LegsKeepProduct ==
  ASSUME NEW r \in Pair, NEW fee \in Nat, NEW t \in Token,
         NEW amount \in Nat, r[t] + amount <= U64Max,
         NEW out \in SwapFormula(r[t], r[Other(t)], amount, fee)
  PROVE  /\ Minus(Plus(r, Just(t, amount)), Just(Other(t), out)) \in Pair
         /\ Product(Minus(Plus(r, Just(t, amount)), Just(Other(t), out))) >= Product(r)
  <1> DEFINE n == Minus(Plus(r, Just(t, amount)), Just(Other(t), out))
  <1>1. Other(t) \in Token /\ r[t] \in Nat /\ r[Other(t)] \in U64
    BY PairFacts, TokenFacts
  <1>2. /\ r[Other(t)] \in Nat /\ out \in Nat /\ out <= r[Other(t)]
        /\ (r[t] + amount) * (r[Other(t)] - out) >= r[t] * r[Other(t)]
    BY <1>1, SwapFormulaOnCurve
  <1>3. n[t] = r[t] + amount /\ n[Other(t)] = r[Other(t)] - out
    BY <1>1, <1>2, SwapLegs
  <1>4. n[t] \in U64 /\ n[Other(t)] \in U64
    BY <1>1, <1>2, <1>3, CpmmAssumption, SMT DEF U64
  <1>5. n \in Pair
    BY <1>4, TokenFacts DEF Pair, Minus
  <1> HIDE DEF n
  <1>6. Product(n) >= Product(r)
    BY <1>2, <1>3, <1>5, ProductFacts
  <1> QED
    BY <1>5, <1>6 DEF n

\* A swap does not lower the product.
LEMMA SwapKeepsProduct ==
  ASSUME NEW pool \in PoolState, NEW amount \in U64, NEW t \in Token, NEW minOut,
         NEW out \in Swap(pool, amount, t, minOut), pool.r[t] + amount <= U64Max
  PROVE  Product(Minus(Plus(pool.r, Just(t, amount)), Just(Other(t), out))) >= Product(pool.r)
  <1>1. pool.r \in Pair /\ pool.fee \in Nat /\ amount \in Nat
    BY U64Facts DEF PoolState
  <1>2. out \in SwapFormula(pool.r[t], pool.r[Other(t)], amount, pool.fee)
    BY DEF Swap, SwapOut
  <1> QED
    BY <1>1, <1>2, LegsKeepProduct

\* With a fee of everything a swap pays nothing.
LEMMA WholeFeePaysNothing ==
  ASSUME NEW rIn \in Nat, NEW rOut \in Nat, NEW amount \in Nat,
         NEW fee \in Nat, ~(fee < BPS), NEW out \in SwapFormula(rIn, rOut, amount, fee)
  PROVE  out = 0
  <1> DEFINE num == (BPS - fee) * rOut * amount
             den == BPS * rIn + (BPS - fee) * amount
  <1>1. fee <= BPS /\ den > 0 /\ out = AsU64(num \div den)
    BY DEF SwapFormula
  <1>2. BPS - fee = 0
    BY <1>1, CpmmAssumption, SMT
  <1>3. num = 0
    <2>1. 0 * rOut * amount = 0
      BY SMT
    <2> QED
      BY <1>2, <2>1
  <1>4. den \in Nat
    <2>1. BPS * rIn + 0 * amount \in Nat
      BY CpmmAssumption, SMT
    <2> QED
      BY <1>2, <2>1
  <1> HIDE DEF num, den
  <1>5. num \div den = 0
    BY <1>1, <1>3, <1>4, SMT
  <1>6. AsU64(0) = 0
    BY AsU64Bounds, U64Facts
  <1> QED
    BY <1>1, <1>5, <1>6

-----------------------------------------------------------------------------
(* Withdrawals *)

\* Rounding leaves each reserve at least the share of the LP that stays.
LEMMA RestIsShare ==
  ASSUME NEW s \in PoolState, NEW lp \in U64, s.l > 0, lp <= s.l, NEW t \in Token
  PROVE  Rest(s, lp, t) * s.l >= s.r[t] * (s.l - lp)
  <1> DEFINE r == s.r[t]
             l == s.l
             share == (r * lp) \div l
  <1>1. r \in Nat /\ l \in Nat /\ l > 0 /\ lp \in Nat
    BY PairFacts, U64Facts DEF PoolState
  <1>2. Rest(s, lp, t) = r - share
    BY DEF Rest, ProRata
  <1>3. r * lp \in Nat
    BY <1>1, SMT
  <1> HIDE DEF r, l
  <1>4. share \in Nat /\ l * share <= r * lp
    BY <1>1, <1>3, DivBounds
  <1> HIDE DEF share
  <1>5. (r - share) * l = r * l - l * share
    BY <1>1, <1>4, SMT
  <1>6. r * (l - lp) = r * l - r * lp
    BY <1>1, SMT
  <1>7. r * l \in Nat /\ l * share \in Nat
    BY <1>1, <1>4, SMT
  <1>8. (r - share) * l >= r * (l - lp)
    BY <1>3, <1>4, <1>5, <1>6, <1>7, SMT
  <1> QED
    BY <1>2, <1>8 DEF r, l

\* Of either kind, a withdrawal leaves a product of at least what the shares
\* leave.
LEMMA WithdrawKeepsRest ==
  ASSUME NEW pool \in PoolState, NEW lp \in U64, NEW side \in Side, NEW floor,
         lp <= pool.l, NEW q \in Withdraw(pool, lp, side, floor)
  PROVE  /\ pool.l > 0
         /\ \A t \in Token : Rest(pool, lp, t) \in Nat
         /\ Product(Left(pool, q)) >= Rest(pool, lp, "X") * Rest(pool, lp, "Y")
  <1> DEFINE rest(t) == Rest(pool, lp, t)
             n       == Left(pool, q)
  <1>1. pool.l > 0 /\ n \in Pair /\ pool.r \in Pair /\ pool.fee \in Nat
    BY WithdrawGuards, WithdrawLeaves DEF PoolState
  <1>2. \A t \in Token : /\ pool.r[t] \in Nat
                         /\ ProRata(pool, lp)[t] \in Nat
                         /\ rest(t) \in Nat /\ rest(t) \in U64
    <2> TAKE t \in Token
    <2>1. pool.r[t] \in U64 /\ pool.r[t] \in Nat /\ ProRata(pool, lp)[t] \in Nat /\ rest(t) \in Nat
      BY <1>1, RestBounds, PairFacts
    <2> QED
      BY <2>1, CpmmAssumption, SMT DEF U64, Rest
  <1>3. CASE side = "Balanced"
    <2>1. n["X"] = rest("X") /\ n["Y"] = rest("Y")
      BY <1>3, BalancedLeaves DEF Token
    <2>2. rest("X") * rest("Y") \in Nat
      <3>1. rest("X") \in Nat /\ rest("Y") \in Nat
        BY <1>2 DEF Token
      <3> HIDE DEF rest
      <3> QED
        BY <3>1, SMT
    <2>3. Product(n) = rest("X") * rest("Y")
      BY <2>1 DEF Product
    <2> HIDE DEF rest, n
    <2>4. Product(n) >= rest("X") * rest("Y")
      BY <2>2, <2>3, SMT
    <2> QED
      BY <1>1, <1>2, <2>4 DEF rest, n
  <1>4. CASE side \in Token
    <2> DEFINE u == Other(side)
    <2>1. PICK out \in SwapFormula(rest(u), rest(side), ProRata(pool, lp)[u], pool.fee) :
            /\ out \in Nat
            /\ n[u] = pool.r[u]
            /\ n[side] = rest(side) - out
      BY <1>4, SingleLeaves
    <2>2. u \in Token
      BY <1>4, TokenFacts
    <2>3. pool.r[u] = rest(u) + ProRata(pool, lp)[u]
      <3>1. /\ pool.r[u] \in Nat /\ ProRata(pool, lp)[u] \in Nat
            /\ rest(u) = pool.r[u] - ProRata(pool, lp)[u]
        BY <1>2, <2>2 DEF Rest
      <3> QED
        BY <3>1, SMT
    <2>4. (rest(u) + ProRata(pool, lp)[u]) * (rest(side) - out) >= rest(u) * rest(side)
      BY <1>1, <1>2, <1>4, <2>1, <2>2, SwapFormulaOnCurve
    <2>5. Product(n) = n[side] * n[u] /\ n[side] \in Nat /\ n[u] \in Nat
      BY <1>1, <1>4, ProductFacts
    <2>6. n[u] * n[side] >= rest(u) * rest(side)
      BY <2>1, <2>3, <2>4
    <2>7. \A a, b \in Nat : a * b = b * a
      BY SMT
    <2>8. rest(u) * rest(side) = rest("X") * rest("Y")
      BY <1>2, <1>4, <2>7 DEF Token, Other
    <2> QED
      BY <1>1, <1>2, <2>5, <2>6, <2>7, <2>8
  <1> QED
    BY <1>3, <1>4 DEF Side

\* So the value of an LP token does not fall.
LEMMA WithdrawKeepsValue ==
  ASSUME NEW pool \in PoolState, NEW lp \in U64, NEW side \in Side, NEW floor,
         lp <= pool.l, NEW q \in Withdraw(pool, lp, side, floor)
  PROVE  Product(Left(pool, q)) * pool.l * pool.l
           >= Product(pool.r) * (pool.l - lp) * (pool.l - lp)
  <1> DEFINE x == Rest(pool, lp, "X")
             y == Rest(pool, lp, "Y")
             k == Product(Left(pool, q))
             j == Product(pool.r)
             l == pool.l
             m == pool.l - lp
  <1>1. l > 0 /\ x \in Nat /\ y \in Nat /\ k >= x * y
    BY WithdrawKeepsRest DEF Token
  <1>2. /\ pool.r["X"] \in Nat /\ pool.r["Y"] \in Nat
        /\ l \in Nat /\ lp \in Nat /\ m \in Nat
        /\ k \in Nat /\ j \in Nat
    <2>1. l \in Nat /\ lp \in Nat /\ pool.r \in Pair /\ Left(pool, q) \in Pair
      BY WithdrawLeaves, U64Facts DEF PoolState
    <2>2. pool.r["X"] \in Nat /\ pool.r["Y"] \in Nat /\ k \in Nat /\ j \in Nat
      BY <2>1, ProductFacts, PairFacts DEF Token
    <2> QED
      BY <2>1, <2>2, SMT
  <1>3. x * l >= pool.r["X"] * m /\ y * l >= pool.r["Y"] * m
    BY <1>1, RestIsShare DEF Token
  <1>4. j = pool.r["X"] * pool.r["Y"]
    BY DEF Product
  <1> HIDE DEF x, y, k, j, l, m
  <1>5. (x * y) * l * l >= j * m * m
    BY <1>1, <1>2, <1>3, <1>4, ProductOfShares
  <1>6. x * y \in Nat /\ x * y <= k /\ l <= l
    BY <1>1, <1>2, SMT
  <1>7. k * l * l >= (x * y) * l * l
    BY <1>2, <1>6, SquaresMonotone
  <1>8. \A a, b \in Nat : a * b * b \in Int
    BY SMT
  <1>9. k * l * l \in Int /\ (x * y) * l * l \in Int /\ j * m * m \in Int
    BY <1>2, <1>6, <1>8
  <1>10. k * l * l >= j * m * m
    BY <1>5, <1>7, <1>9, SMT
  <1> QED
    BY <1>10 DEF k, j, l, m

-----------------------------------------------------------------------------
(* Deposits *)

\* The first mint: the whole offer, for at most the root of its product.
LEMMA FirstMintParts ==
  ASSUME NEW p \in PoolState, p.l = 0, NEW offer \in Pair, NEW minLp,
         NEW q \in DepositBalanced(p, offer, minLp)
  PROVE  /\ q.deposit = offer /\ q.swapIn = Nothing /\ q.swapOut = Nothing
         /\ q.lp \in Nat /\ q.lp > 0
         /\ q.lp * q.lp <= offer["X"] * offer["Y"]
  <1> DEFINE n    == offer["X"] * offer["Y"]
             root == Isqrt(n)
  <1>1. q \in FirstMint(offer, minLp)
    BY DEF DepositBalanced
  <1>2. q = DepositQuote(AsU64(root), offer, Nothing, Nothing) /\ AsU64(root) > 0
    BY <1>1 DEF FirstMint
  <1>3. n \in Nat
    <2>1. offer["X"] \in Nat /\ offer["Y"] \in Nat
      BY PairFacts DEF Token
    <2> QED
      BY <2>1, SMT
  <1> HIDE DEF n
  <1>4. root \in Nat /\ root * root <= n
    BY <1>3, IsqrtIsFloorRoot DEF IsFloorRoot
  <1> HIDE DEF root
  <1>5. AsU64(root) \in Nat /\ AsU64(root) <= root
    BY <1>4, AsU64Bounds, U64Facts
  <1>6. AsU64(root) * AsU64(root) <= root * root /\ AsU64(root) * AsU64(root) \in Nat /\ root * root \in Nat
    BY <1>4, <1>5, Times
  <1>7. AsU64(root) * AsU64(root) <= n
    BY <1>3, <1>4, <1>6, SMT
  <1> QED
    BY <1>2, <1>5, <1>7 DEF DepositQuote, n

\* A later mint: some lp at most the share of either token, and of each token
\* what that lp is worth, which is no more than was offered.
LEMMA LaterMintParts ==
  ASSUME NEW p \in PoolState, p.l > 0, NEW offer \in Pair, NEW minLp,
         NEW q \in DepositBalanced(p, offer, minLp)
  PROVE  /\ q.swapIn = Nothing /\ q.swapOut = Nothing
         /\ \A t \in Token : p.r[t] \in Nat /\ p.r[t] > 0
         /\ \E lp \in Nat :
              /\ q.lp = AsU64(lp)
              /\ \E t \in Token : lp = (offer[t] * p.l) \div p.r[t]
              /\ \A t \in Token : /\ lp <= (offer[t] * p.l) \div p.r[t]
                                   /\ q.deposit[t] = (p.r[t] * lp) \div p.l
                                   /\ q.deposit[t] \in Nat /\ q.deposit[t] > 0
                                   /\ q.deposit[t] <= offer[t]
  <1> DEFINE share(t) == (offer[t] * p.l) \div p.r[t]
             lp       == IF share("X") <= share("Y") THEN share("X") ELSE share("Y")
             take     == [t \in Token |-> AsU64((p.r[t] * lp) \div p.l)]
  <1>1. /\ \A t \in Token : p.r[t] > 0
        /\ \A t \in Token : take[t] > 0
        /\ q = DepositQuote(AsU64(lp), take, Nothing, Nothing)
    BY DEF DepositBalanced, LaterMint
  <1>2. /\ p.l \in Nat /\ p.l > 0
        /\ \A t \in Token : p.r[t] \in Nat /\ offer[t] \in Nat /\ offer[t] \in U64
    BY PairFacts, U64Facts DEF PoolState
  <1>3. ASSUME NEW t \in Token
        PROVE  share(t) \in Nat /\ p.r[t] * share(t) <= offer[t] * p.l /\ offer[t] * p.l \in Nat
    <2>1. offer[t] * p.l \in Nat
      BY <1>2, SMT
    <2> QED
      BY <1>1, <1>2, <2>1, DivBounds
  <1> HIDE DEF share
  <1>4. /\ lp \in Nat
        /\ \E t \in Token : lp = share(t)
        /\ \A t \in Token : lp <= share(t)
    BY <1>3 DEF Token
  <1> HIDE DEF lp
  <1>5. ASSUME NEW t \in Token
        PROVE  /\ (p.r[t] * lp) \div p.l \in Nat
               /\ (p.r[t] * lp) \div p.l <= offer[t]
               /\ take[t] = (p.r[t] * lp) \div p.l
    <2>1. /\ p.r[t] * lp \in Nat /\ p.r[t] * share(t) \in Nat
          /\ p.r[t] * lp <= p.r[t] * share(t)
      BY <1>2, <1>3, <1>4, Times
    <2>2. p.r[t] * lp <= p.l * offer[t]
      <3>1. offer[t] * p.l = p.l * offer[t]
        BY <1>2, SMT
      <3> QED
        BY <1>3, <2>1, <3>1, SMT
    <2>3. (p.r[t] * lp) \div p.l \in Nat /\ (p.r[t] * lp) \div p.l <= offer[t]
      BY <1>2, <2>1, <2>2, DivBounds, DivAtMost
    <2>4. (p.r[t] * lp) \div p.l \in U64
      BY <1>2, <2>3, CpmmAssumption, SMT DEF U64
    <2> QED
      BY <2>3, <2>4, AsU64Bounds
  <1>6. q.lp = AsU64(lp) /\ q.deposit = take /\ q.swapIn = Nothing /\ q.swapOut = Nothing
    BY <1>1 DEF DepositQuote
  <1> HIDE DEF take
  <1> QED
    BY <1>1, <1>2, <1>4, <1>5, <1>6 DEF share

\* A balanced deposit takes no more than was offered and mints what was asked.
LEMMA BalancedTakes ==
  ASSUME NEW p \in PoolState, NEW offer \in Pair, NEW minLp,
         NEW q \in DepositBalanced(p, offer, minLp)
  PROVE  /\ q.lp >= minLp
         /\ \A t \in Token : q.deposit[t] \in Nat /\ q.deposit[t] <= offer[t]
  <1>1. q.lp >= minLp
    BY DEF DepositBalanced, FirstMint, LaterMint, DepositQuote
  <1>2. CASE p.l = 0
    <2>1. q.deposit = offer
      BY <1>2, FirstMintParts
    <2>2. \A t \in Token : offer[t] \in Nat
      BY PairFacts
    <2>3. \A n \in Nat : n <= n
      BY SMT
    <2> QED
      BY <1>1, <2>1, <2>2, <2>3
  <1>3. CASE p.l > 0
    BY <1>1, <1>3, LaterMintParts
  <1>4. p.l \in Nat
    BY U64Facts DEF PoolState
  <1> QED
    BY <1>2, <1>3, <1>4, SMT

\* The pool between the two halves of a single-sided deposit, and the offer of
\* the second half.
Halfway(pool, t, half, out) ==
  New(Minus(Plus(pool.r, Just(t, half)), Just(Other(t), out)), pool.l, pool.fee)
SecondHalf(t, n, out) == [u \in Token |-> IF u = t THEN n ELSE out]

\* A single-sided deposit is a swap of half the offer and a balanced deposit of
\* the rest and of what the swap paid.
LEMMA SingleParts ==
  ASSUME NEW pool \in PoolState, NEW t \in Token, NEW amount \in U64, NEW minLp,
         NEW q \in DepositSingle(pool, t, amount, minLp)
  PROVE  \E half \in U64, out \in U64, b \in DepositQuotes :
           /\ pool.l > 0 /\ amount > 1
           /\ half = amount \div 2 /\ amount - half \in U64
           /\ pool.r[t] + half <= U64Max
           /\ out \in SwapFormula(pool.r[t], pool.r[Other(t)], half, pool.fee)
           /\ out > 0 /\ out <= pool.r[Other(t)]
           /\ Halfway(pool, t, half, out) \in PoolState
           /\ SecondHalf(t, amount - half, out) \in Pair
           /\ b \in DepositBalanced(Halfway(pool, t, half, out),
                                    SecondHalf(t, amount - half, out), minLp)
           /\ q.lp = b.lp /\ q.deposit = b.deposit
           /\ q.swapIn = Just(t, half) /\ q.swapOut = Just(Other(t), out)
  <1> DEFINE half == amount \div 2
  <1>1. amount > 1 /\ pool.l > 0 /\ pool.r[t] + half <= U64Max
    BY DEF DepositSingle
  <1>2. PICK out \in {o \in SwapOut(pool, half, t) : o <= pool.r[Other(t)]} :
          q \in {[b EXCEPT !.swapIn = Just(t, half), !.swapOut = Just(Other(t), out)] :
                   b \in DepositBalanced(Halfway(pool, t, half, out),
                                         SecondHalf(t, amount - half, out), minLp)}
    BY <1>1 DEF DepositSingle, Halfway, SecondHalf
  <1>3. PICK b \in DepositBalanced(Halfway(pool, t, half, out),
                                   SecondHalf(t, amount - half, out), minLp) :
          q = [b EXCEPT !.swapIn = Just(t, half), !.swapOut = Just(Other(t), out)]
    BY <1>2
  <1>4. half \in U64 /\ half \in Nat /\ amount - half \in U64
    BY CpmmAssumption, SMT DEF U64
  <1>5. /\ out \in SwapFormula(pool.r[t], pool.r[Other(t)], half, pool.fee)
        /\ out > 0 /\ out <= pool.r[Other(t)]
    BY <1>2 DEF SwapOut
  <1>6. /\ pool.r \in Pair /\ pool.l \in U64 /\ pool.fee \in Nat
        /\ pool.r[t] \in Nat /\ pool.r[Other(t)] \in Nat
    BY PairFacts, TokenFacts DEF PoolState
  <1> HIDE DEF half
  <1>7. out \in U64
    BY <1>4, <1>5, <1>6, SwapFormulaBounds
  <1>8. Halfway(pool, t, half, out) \in PoolState
    <2>1. Minus(Plus(pool.r, Just(t, half)), Just(Other(t), out)) \in Pair
      BY <1>1, <1>4, <1>5, <1>6, LegsKeepProduct
    <2> QED
      BY <1>6, <2>1 DEF Halfway, New, PoolState
  <1>9. SecondHalf(t, amount - half, out) \in Pair
    BY <1>4, <1>7 DEF SecondHalf, Pair
  <1>10. b \in DepositQuotes
    BY <1>8, <1>9, DepositBalancedBounds
  <1>11. /\ q.lp = b.lp /\ q.deposit = b.deposit
         /\ q.swapIn = Just(t, half) /\ q.swapOut = Just(Other(t), out)
    BY <1>3, <1>10 DEF DepositQuotes
  <1> QED
    BY <1>1, <1>4, <1>5, <1>7, <1>8, <1>9, <1>10, <1>11 DEF half

\* Both kinds of deposit, by the pair or the single amount they were offered.
LEMMA DepositKinds ==
  ASSUME NEW pool, NEW offer \in Offers(U64), NEW side, NEW minLp,
         NEW q \in Deposit(pool, offer, side, minLp)
  PROVE  \/ /\ DOMAIN offer = Token /\ offer \in Pair
            /\ q \in DepositBalanced(pool, offer, minLp)
         \/ /\ side \in Token /\ DOMAIN offer = {side} /\ offer[side] \in U64
            /\ q \in DepositSingle(pool, side, offer[side], minLp)
  BY DEF Deposit, Offers, Pair

\* Each kind takes no more of either token than was offered, the two legs of a
\* single-sided one together.
LEMMA DepositTakes ==
  ASSUME NEW pool \in PoolState, NEW offer \in Offers(U64), NEW side, NEW minLp,
         NEW q \in Deposit(pool, offer, side, minLp)
  PROVE  /\ q.lp >= minLp
         /\ \A t \in Token : (q.swapIn[t] - q.swapOut[t]) + q.deposit[t]
                               <= IF t \in DOMAIN offer THEN offer[t] ELSE 0
  <1>1. CASE /\ DOMAIN offer = Token /\ offer \in Pair
             /\ q \in DepositBalanced(pool, offer, minLp)
    <2>1. /\ q.lp >= minLp
          /\ q.swapIn = Nothing /\ q.swapOut = Nothing
          /\ \A t \in Token : q.deposit[t] \in Nat /\ q.deposit[t] <= offer[t]
      BY <1>1, BalancedTakes, DepositBalancedBounds
    <2>2. ASSUME NEW t \in Token
          PROVE  (q.swapIn[t] - q.swapOut[t]) + q.deposit[t] <= offer[t]
      <3>1. q.swapIn[t] = 0 /\ q.swapOut[t] = 0
        BY <2>1 DEF Nothing
      <3>2. offer[t] \in Nat
        BY <1>1, PairFacts
      <3> QED
        BY <2>1, <3>1, <3>2, SMT
    <2> QED
      BY <1>1, <2>1, <2>2
  <1>2. CASE /\ side \in Token /\ DOMAIN offer = {side} /\ offer[side] \in U64
             /\ q \in DepositSingle(pool, side, offer[side], minLp)
    <2> DEFINE amount == offer[side]
    <2>1. PICK half \in U64, out \in U64, b \in DepositQuotes :
            /\ half = amount \div 2 /\ amount - half \in U64
            /\ Halfway(pool, side, half, out) \in PoolState
            /\ SecondHalf(side, amount - half, out) \in Pair
            /\ b \in DepositBalanced(Halfway(pool, side, half, out),
                                     SecondHalf(side, amount - half, out), minLp)
            /\ q.lp = b.lp /\ q.deposit = b.deposit
            /\ q.swapIn = Just(side, half) /\ q.swapOut = Just(Other(side), out)
      BY <1>2, SingleParts
    <2>2. /\ q.lp >= minLp
          /\ \A t \in Token : q.deposit[t] \in Nat
                              /\ q.deposit[t] <= SecondHalf(side, amount - half, out)[t]
      BY <2>1, BalancedTakes
    <2>3. half \in Nat /\ out \in Nat /\ amount \in Nat
      BY <1>2, U64Facts
    <2> HIDE DEF amount
    <2>4. (q.swapIn[side] - q.swapOut[side]) + q.deposit[side] <= amount
      <3>1. q.swapIn[side] = half /\ q.swapOut[side] = 0
        BY <1>2, <2>1, TokenFacts DEF Just
      <3>2. SecondHalf(side, amount - half, out)[side] = amount - half
        BY <1>2 DEF SecondHalf
      <3> QED
        BY <1>2, <2>2, <2>3, <3>1, <3>2, SMT
    <2>5. (q.swapIn[Other(side)] - q.swapOut[Other(side)]) + q.deposit[Other(side)] <= 0
      <3>0. Other(side) \in Token /\ Other(side) # side
        BY <1>2, TokenFacts
      <3>1. q.swapIn[Other(side)] = 0 /\ q.swapOut[Other(side)] = out
        BY <2>1, <3>0 DEF Just
      <3>2. SecondHalf(side, amount - half, out)[Other(side)] = out
        BY <3>0 DEF SecondHalf
      <3> QED
        BY <2>2, <2>3, <3>0, <3>1, <3>2, SMT
    <2>6. \A t \in Token : t = side \/ (t = Other(side) /\ t # side)
      BY <1>2, TokenFacts
    <2> QED
      BY <1>2, <2>2, <2>4, <2>5, <2>6, Zenon DEF amount
  <1> QED
    BY <1>1, <1>2, DepositKinds

\* The reserves a carried-out deposit leaves.
Filled(pool, q) == Plus(Minus(Plus(pool.r, q.swapIn), q.swapOut), q.deposit)

\* Amounts that are added to leave a product that is no smaller.
LEMMA AddedKeepsProduct ==
  ASSUME NEW r \in Pair, NEW n, \A t \in Token : n[t] \in Nat /\ r[t] <= n[t]
  PROVE  Product(r) \in Nat /\ Product(n) \in Nat /\ Product(n) >= Product(r)
  <1>1. /\ r["X"] \in Nat /\ r["Y"] \in Nat /\ n["X"] \in Nat /\ n["Y"] \in Nat
        /\ r["X"] <= n["X"] /\ r["Y"] <= n["Y"]
    BY PairFacts DEF Token
  <1> QED
    BY <1>1, Times DEF Product

\* A deposit does not lower the product.
LEMMA DepositKeepsProduct ==
  ASSUME NEW pool \in PoolState, NEW offer \in Offers(U64), NEW side, NEW minLp,
         NEW q \in Deposit(pool, offer, side, minLp)
  PROVE  Product(Filled(pool, q)) \in Nat /\ Product(Filled(pool, q)) >= Product(pool.r)
  <1>0. pool.r \in Pair /\ pool.fee \in Nat
    BY DEF PoolState
  <1>1. ASSUME NEW m \in Pair, Product(m) >= Product(pool.r),
               Minus(Plus(pool.r, q.swapIn), q.swapOut) = m,
               \A t \in Token : q.deposit[t] \in Nat
        PROVE  Product(Filled(pool, q)) \in Nat /\ Product(Filled(pool, q)) >= Product(pool.r)
    <2> DEFINE n == Plus(m, q.deposit)
    <2>1. ASSUME NEW t \in Token
          PROVE  n[t] \in Nat /\ m[t] <= n[t]
      <3>1. n[t] = m[t] + q.deposit[t] /\ m[t] \in Nat
        BY PairFacts DEF Plus
      <3> QED
        BY <1>1, <3>1, SMT
    <2> HIDE DEF n
    <2>2. Product(m) \in Nat /\ Product(n) \in Nat /\ Product(n) >= Product(m)
      BY <2>1, AddedKeepsProduct
    <2>3. Product(pool.r) \in Nat
      BY <1>0, ProductFacts DEF Token
    <2>4. Filled(pool, q) = n
      BY <1>1 DEF Filled, n
    <2> QED
      BY <1>1, <2>2, <2>3, <2>4, SMT
  <1>2. CASE /\ DOMAIN offer = Token /\ offer \in Pair
             /\ q \in DepositBalanced(pool, offer, minLp)
    <2>1. /\ q.swapIn = Nothing /\ q.swapOut = Nothing
          /\ \A t \in Token : q.deposit[t] \in Nat
      BY <1>2, BalancedTakes, DepositBalancedBounds
    <2>2. ASSUME NEW t \in Token
          PROVE  (pool.r[t] + Nothing[t]) - Nothing[t] = pool.r[t]
      <3>1. pool.r[t] \in Nat /\ Nothing[t] = 0
        BY <1>0, PairFacts DEF Nothing
      <3> QED
        BY <3>1, SMT
    <2>3. Minus(Plus(pool.r, q.swapIn), q.swapOut)
            = [t \in Token |-> (pool.r[t] + Nothing[t]) - Nothing[t]]
      BY <2>1, Zenon DEF Minus, Plus
    <2>4. Minus(Plus(pool.r, q.swapIn), q.swapOut) = pool.r
      BY <1>0, <2>2, <2>3 DEF Pair
    <2>5. Product(pool.r) >= Product(pool.r)
      <3>1. Product(pool.r) \in Nat
        BY <1>0, ProductFacts DEF Token
      <3> QED
        BY <3>1, SMT
    <2> QED
      BY <1>0, <1>1, <2>1, <2>4, <2>5
  <1>3. CASE /\ side \in Token /\ DOMAIN offer = {side} /\ offer[side] \in U64
             /\ q \in DepositSingle(pool, side, offer[side], minLp)
    <2>1. PICK half \in U64, out \in U64, b \in DepositQuotes :
            /\ pool.r[side] + half <= U64Max
            /\ out \in SwapFormula(pool.r[side], pool.r[Other(side)], half, pool.fee)
            /\ q.deposit = b.deposit
            /\ q.swapIn = Just(side, half) /\ q.swapOut = Just(Other(side), out)
      BY <1>3, SingleParts
    <2>2. half \in Nat
      BY U64Facts
    <2>3. /\ Minus(Plus(pool.r, q.swapIn), q.swapOut) \in Pair
          /\ Product(Minus(Plus(pool.r, q.swapIn), q.swapOut)) >= Product(pool.r)
      BY <1>0, <1>3, <2>1, <2>2, LegsKeepProduct
    <2>4. \A t \in Token : q.deposit[t] \in Nat
      BY <2>1, PairFacts DEF DepositQuotes
    <2> QED
      BY <1>1, <2>3, <2>4
  <1> QED
    BY <1>2, <1>3, DepositKinds
=============================================================================
