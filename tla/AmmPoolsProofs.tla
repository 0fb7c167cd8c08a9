--------------------------- MODULE AmmPoolsProofs ---------------------------
(***************************************************************************)
(* Every pool of the program behaves as if it were alone, for any number   *)
(* of users and pools, any amounts and any transactions; and its accounts  *)
(* keep their types and its LP its backing.                                *)
(***************************************************************************)
EXTENDS AmmPools, CpmmLemmas

-----------------------------------------------------------------------------
(* The quotes of the abstract pool are those of the program                *)

LEMMA SameNumbers ==
  /\ Pool!U64 = U64 /\ Pool!U128Max = U128Max
  /\ Pool!Token = Token /\ Pool!Side = Side
  /\ Pool!Pair = Pair /\ Pool!Nothing = Nothing
  /\ \A n : Pool!AsU64(n) = AsU64(n)
  /\ \A t : Pool!Other(t) = Other(t)
  /\ \A t, n : Pool!Just(t, n) = Just(t, n)
  /\ \A a, b : Pool!Plus(a, b) = Plus(a, b) /\ Pool!Minus(a, b) = Minus(a, b)
  /\ \A a, b : Pool!AtLeast(a, b) = AtLeast(a, b)
  /\ \A r, l, fee : Pool!New(r, l, fee) = New(r, l, fee)
  BY DEF Pool!U64, U64, Pool!U128Max, U128Max, Pool!Token, Token, Pool!Side, Side,
         Pool!Pair, Pair, Pool!Nothing, Nothing, Pool!AsU64, AsU64, Pool!Other, Other,
         Pool!Just, Just, Pool!Plus, Plus, Pool!Minus, Minus, Pool!AtLeast, AtLeast,
         Pool!New, New

LEMMA SameSwap ==
  ASSUME NEW p, NEW amount, NEW side, NEW minOut
  PROVE  Pool!Swap(p, amount, side, minOut) = Swap(p, amount, side, minOut)
  BY DEF Pool!Swap, Swap, Pool!SwapOut, SwapOut, Pool!SwapFormula, SwapFormula,
         Pool!U128Max, U128Max, Pool!AsU64, AsU64, Pool!Other, Other, Pool!Token, Token

LEMMA SameDeposit ==
  ASSUME NEW p, NEW offer, NEW side, NEW minLp
  PROVE  Pool!Deposit(p, offer, side, minLp) = Deposit(p, offer, side, minLp)
  BY DEF Pool!Deposit, Deposit, Pool!DepositSingle, DepositSingle,
         Pool!DepositBalanced, DepositBalanced, Pool!FirstMint, FirstMint,
         Pool!LaterMint, LaterMint, Pool!DepositQuote, DepositQuote,
         Pool!Isqrt, Isqrt, Pool!IsFloorRoot, IsFloorRoot,
         Pool!SwapOut, SwapOut, Pool!SwapFormula, SwapFormula,
         Pool!U128Max, U128Max, Pool!AsU64, AsU64, Pool!Other, Other, Pool!Token, Token,
         Pool!New, New, Pool!Minus, Minus, Pool!Plus, Plus, Pool!Just, Just, Pool!Nothing, Nothing

LEMMA SameWithdraw ==
  ASSUME NEW p, NEW lp, NEW side, NEW floor
  PROVE  Pool!Withdraw(p, lp, side, floor) = Withdraw(p, lp, side, floor)
  BY DEF Pool!Withdraw, Withdraw, Pool!WithdrawBalanced, WithdrawBalanced,
         Pool!WithdrawSingle, WithdrawSingle, Pool!WithdrawQuote, WithdrawQuote,
         Pool!ProRata, ProRata, Pool!SwapFormula, SwapFormula,
         Pool!U128Max, U128Max, Pool!AsU64, AsU64, Pool!Other, Other, Pool!Token, Token,
         Pool!Just, Just, Pool!Nothing, Nothing, Pool!AtLeast, AtLeast

-----------------------------------------------------------------------------
(* Transfers                                                               *)

\* A payment fills the vault, from a wallet that has it.
LEMMA Paid ==
  ASSUME NEW funds, NEW n \in Pair, NEW f \in Pay(funds, n),
         \A g \in funds : g.wallet \in Pair /\ g.vault \in Pair
  PROVE  \E g \in funds : /\ f.vault = Plus(g.vault, n) /\ f.wallet = Minus(g.wallet, n)
                          /\ f.vault \in Pair /\ f.wallet \in Pair
  <1>1. PICK g \in funds : /\ AtLeast(g.wallet, n) /\ Plus(g.vault, n) \in Pair
                           /\ f = Funds(Minus(g.wallet, n), Plus(g.vault, n))
    BY DEF Pay
  <1>2. ASSUME NEW t \in Token
        PROVE  g.wallet[t] - n[t] \in U64
    <2>1. g.wallet[t] \in U64 /\ n[t] \in U64 /\ g.wallet[t] >= n[t]
      BY <1>1, PairFacts DEF AtLeast
    <2> QED
      BY <2>1, CpmmAssumption, SMT DEF U64
  <1>3. Minus(g.wallet, n) \in Pair
    BY <1>2 DEF Minus, Pair
  <1> QED
    BY <1>1, <1>3 DEF Funds

\* A draw empties it, of what it has.
LEMMA Drawn ==
  ASSUME NEW funds, NEW n \in Pair, NEW f \in Draw(funds, n),
         \A g \in funds : g.wallet \in Pair /\ g.vault \in Pair
  PROVE  \E g \in funds : /\ f.vault = Minus(g.vault, n) /\ f.wallet = Plus(g.wallet, n)
                          /\ AtLeast(g.vault, n)
                          /\ f.vault \in Pair /\ f.wallet \in Pair
  <1>1. PICK g \in funds : /\ AtLeast(g.vault, n) /\ Plus(g.wallet, n) \in Pair
                           /\ f = Funds(Plus(g.wallet, n), Minus(g.vault, n))
    BY DEF Draw
  <1>2. ASSUME NEW t \in Token
        PROVE  g.vault[t] - n[t] \in U64
    <2>1. g.vault[t] \in U64 /\ n[t] \in U64 /\ g.vault[t] >= n[t]
      BY <1>1, PairFacts DEF AtLeast
    <2> QED
      BY <2>1, CpmmAssumption, SMT DEF U64
  <1>3. Minus(g.vault, n) \in Pair
    BY <1>2 DEF Minus, Pair
  <1> QED
    BY <1>1, <1>3 DEF Funds

\* What a carried-out quote leaves in its caller's wallet.
AfterDeposit(w, q)  == Minus(Plus(Minus(w, q.swapIn), q.swapOut), q.deposit)
AfterWithdraw(w, q) == Plus(Minus(Plus(w, q.proRata), q.swapIn), q.swapOut)

\* So the three kinds of transfers leave in the vaults, and in the wallet, what
\* the quotes say.
LEMMA SwapTransferred ==
  ASSUME NEW g, g.wallet \in Pair, g.vault \in Pair, NEW t \in Token,
         NEW amount \in U64, NEW out \in U64, NEW f \in SwapTransfers(g, t, amount, out)
  PROVE  /\ f.vault = Minus(Plus(g.vault, Just(t, amount)), Just(Other(t), out))
         /\ f.vault \in Pair /\ f.wallet \in Pair
         /\ g.vault[t] + amount <= U64Max
  <1>1. Just(t, amount) \in Pair /\ Just(Other(t), out) \in Pair
    BY PairFacts, TokenFacts
  <1>2. \A a \in Pay({g}, Just(t, amount)) :
          a.vault = Plus(g.vault, Just(t, amount)) /\ a.vault \in Pair /\ a.wallet \in Pair
    BY <1>1, Paid
  <1>3. PICK a \in Pay({g}, Just(t, amount)) :
          f.vault = Minus(a.vault, Just(Other(t), out)) /\ f.vault \in Pair /\ f.wallet \in Pair
    BY <1>1, <1>2, Drawn DEF SwapTransfers
  <1>4. g.vault[t] + amount \in U64
    <2>1. Plus(g.vault, Just(t, amount))[t] = g.vault[t] + Just(t, amount)[t] /\ Just(t, amount)[t] = amount
      BY Zenon DEF Plus, Just
    <2>2. Plus(g.vault, Just(t, amount)) \in Pair
      BY <1>2
    <2> QED
      BY <2>1, <2>2, PairFacts
  <1>5. g.vault[t] + amount <= U64Max
    BY <1>4, CpmmAssumption, SMT DEF U64
  <1> QED
    BY <1>2, <1>3, <1>5

LEMMA DepositTransferred ==
  ASSUME NEW g, g.wallet \in Pair, g.vault \in Pair, NEW q,
         q.swapIn \in Pair, q.swapOut \in Pair, q.deposit \in Pair,
         NEW f \in DepositTransfers(g, q)
  PROVE  /\ f.vault = Plus(Minus(Plus(g.vault, q.swapIn), q.swapOut), q.deposit)
         /\ f.wallet = AfterDeposit(g.wallet, q)
         /\ f.vault \in Pair /\ f.wallet \in Pair
  <1>1. \A a \in Pay({g}, q.swapIn) :
          /\ a.vault = Plus(g.vault, q.swapIn) /\ a.wallet = Minus(g.wallet, q.swapIn)
          /\ a.vault \in Pair /\ a.wallet \in Pair
    BY Paid
  <1>2. \A b \in Draw(Pay({g}, q.swapIn), q.swapOut) :
          /\ b.vault = Minus(Plus(g.vault, q.swapIn), q.swapOut)
          /\ b.wallet = Plus(Minus(g.wallet, q.swapIn), q.swapOut)
          /\ b.vault \in Pair /\ b.wallet \in Pair
    BY <1>1, Drawn
  <1> DEFINE B == Draw(Pay({g}, q.swapIn), q.swapOut)
  <1>a. f \in Pay(B, q.deposit) /\ \A b \in B : b.wallet \in Pair /\ b.vault \in Pair
    BY <1>2 DEF DepositTransfers
  <1> HIDE DEF B
  <1>3. PICK b \in B :
          /\ f.vault = Plus(b.vault, q.deposit) /\ f.wallet = Minus(b.wallet, q.deposit)
          /\ f.vault \in Pair /\ f.wallet \in Pair
    BY <1>a, Paid
  <1> QED
    BY <1>2, <1>3 DEF B, AfterDeposit

LEMMA WithdrawTransferred ==
  ASSUME NEW g, g.wallet \in Pair, g.vault \in Pair, NEW q,
         q.proRata \in Pair, q.swapIn \in Pair, q.swapOut \in Pair,
         NEW f \in WithdrawTransfers(g, q)
  PROVE  /\ f.vault = Minus(Plus(Minus(g.vault, q.proRata), q.swapIn), q.swapOut)
         /\ f.wallet = AfterWithdraw(g.wallet, q)
         /\ f.vault \in Pair /\ f.wallet \in Pair
         /\ AtLeast(g.vault, q.proRata)
  <1>1. \A a \in Draw({g}, q.proRata) :
          /\ a.vault = Minus(g.vault, q.proRata) /\ a.wallet = Plus(g.wallet, q.proRata)
          /\ a.vault \in Pair /\ a.wallet \in Pair
          /\ AtLeast(g.vault, q.proRata)
    BY Drawn
  <1>2. \A b \in Pay(Draw({g}, q.proRata), q.swapIn) :
          /\ b.vault = Plus(Minus(g.vault, q.proRata), q.swapIn)
          /\ b.wallet = Minus(Plus(g.wallet, q.proRata), q.swapIn)
          /\ b.vault \in Pair /\ b.wallet \in Pair
          /\ AtLeast(g.vault, q.proRata)
    BY <1>1, Paid
  <1>3. PICK b \in Pay(Draw({g}, q.proRata), q.swapIn) :
          /\ f.vault = Minus(b.vault, q.swapOut) /\ f.wallet = Plus(b.wallet, q.swapOut)
          /\ f.vault \in Pair /\ f.wallet \in Pair
    BY <1>2, Drawn DEF WithdrawTransfers
  <1> QED
    BY <1>2, <1>3 DEF AfterWithdraw

-----------------------------------------------------------------------------
(* The LP accounts of a pool never hold more than its mint has issued.     *)
(* For a sum over any set of users: give every balance an interval of its  *)
(* own within 0 .. supply.                                                 *)

Apart(h, f, u, v) == f[u] + h[u] <= f[v] \/ f[v] + h[v] <= f[u]

Layout(h, l) ==
  \E f \in [Users -> Nat] :
    /\ \A u \in Users : f[u] + h[u] <= l
    /\ \A u, v \in Users : u # v => Apart(h, f, u, v)

\* No balance exceeds the supply.
LEMMA LayoutBounds ==
  ASSUME NEW h \in [Users -> Nat], NEW l \in Int, Layout(h, l), NEW u \in Users
  PROVE  h[u] <= l /\ l \in Nat
  <1>1. PICK f \in [Users -> Nat] : f[u] + h[u] <= l
    BY DEF Layout
  <1>2. f[u] \in Nat /\ h[u] \in Nat
    OBVIOUS
  <1> QED
    BY <1>1, <1>2, SMT

\* A mint or a burn resizes one interval; those above it move along.
LEMMA LayoutResized ==
  ASSUME NEW h \in [Users -> Nat], NEW l \in Nat, Layout(h, l),
         NEW u \in Users, NEW d \in Int, h[u] + d >= 0
  PROVE  Layout([h EXCEPT ![u] = h[u] + d], l + d)
  <1> DEFINE g == [h EXCEPT ![u] = h[u] + d]
  <1>1. PICK f \in [Users -> Nat] :
          /\ \A v \in Users : f[v] + h[v] <= l
          /\ \A v, w \in Users : v # w => Apart(h, f, v, w)
    BY DEF Layout
  <1> DEFINE above(v) == v # u /\ f[u] + h[u] <= f[v]
             e == [v \in Users |-> IF above(v) THEN f[v] + d ELSE f[v]]
  <1>2. \A v \in Users : f[v] \in Nat /\ h[v] \in Nat
    OBVIOUS
  <1>3. e[u] = f[u] /\ g[u] = h[u] + d
    OBVIOUS
  <1>4. ASSUME NEW v \in Users, v # u
        PROVE  /\ g[v] = h[v]
               /\ \/ f[u] + h[u] <= f[v] /\ e[v] = f[v] + d
                  \/ f[v] + h[v] <= f[u] /\ e[v] = f[v]
    BY <1>1, <1>4 DEF Apart
  <1> HIDE DEF e, g, above
  <1>5. ASSUME NEW v \in Users
        PROVE  e[v] \in Nat /\ e[v] + g[v] <= l + d
    <2>1. CASE v = u
      BY <1>1, <1>2, <1>3, <2>1, SMT
    <2>2. CASE v # u
      <3>1. f[u] + h[u] <= l /\ f[v] + h[v] <= l
        BY <1>1
      <3> QED
        BY <1>2, <1>4, <2>2, <3>1, SMT
    <2> QED
      BY <2>1, <2>2
  <1>6. ASSUME NEW v \in Users, NEW w \in Users, v # w
        PROVE  Apart(g, e, v, w)
    <2>1. CASE v = u
      BY <1>2, <1>3, <1>4, <1>6, <2>1, SMT DEF Apart
    <2>2. CASE w = u
      BY <1>2, <1>3, <1>4, <1>6, <2>2, SMT DEF Apart
    <2>3. CASE v # u /\ w # u
      <3>1. Apart(h, f, v, w)
        BY <1>1, <1>6
      <3> QED
        BY <1>2, <1>4, <2>3, <3>1, SMT DEF Apart
    <2> QED
      BY <2>1, <2>2, <2>3
  <1>7. e \in [Users -> Nat]
    BY <1>5 DEF e
  <1> QED
    BY <1>5, <1>6, <1>7 DEF Layout, g

-----------------------------------------------------------------------------
(* What an instruction of user u on pool p may make of the accounts        *)

Held(s, p) == [u \in Users |-> s.lp[u][p]]

SoundAt(s, p) ==
  /\ Layout(Held(s, p), s.pool[p].l)
  /\ s.pool[p].l > 0 => \A t \in Token : s.pool[p].r[t] > 0
  /\ ~s.pool[p].open => s.pool[p].r = Nothing /\ s.pool[p].l = 0

Sound(s) == s \in Accounts /\ \A p \in Pools : SoundAt(s, p)

\* The vaults of p hold r, d of its LP is minted to u or (d < 0) burned by u, and
\* but for u's wallet w nothing else is touched.
Changed(s, u, p, r, d, w) ==
  [pool   |-> [s.pool EXCEPT ![p] = [s.pool[p] EXCEPT !.r = r, !.l = s.pool[p].l + d]],
   wallet |-> [s.wallet EXCEPT ![u] = w],
   lp     |-> [s.lp EXCEPT ![u] = [s.lp[u] EXCEPT ![p] = s.lp[u][p] + d]]]

\* Sound accounts have the types of Accounts, part by part.
LEMMA SoundFacts ==
  ASSUME NEW s, Sound(s), NEW u \in Users, NEW p \in Pools
  PROVE  /\ s = [pool |-> s.pool, wallet |-> s.wallet, lp |-> s.lp]
         /\ s.pool \in [Pools -> PoolAccounts] /\ s.wallet \in [Users -> Pair]
         /\ s.lp \in [Users -> [Pools -> U64]]
         /\ s.pool[p] \in PoolAccounts /\ s.wallet[u] \in Pair
         /\ s.pool[p].r \in Pair /\ s.pool[p].l \in U64 /\ s.pool[p].l \in Nat
         /\ s.lp[u][p] \in U64 /\ s.lp[u][p] \in Nat /\ s.lp[u][p] <= s.pool[p].l
         /\ Held(s, p) \in [Users -> Nat]
         /\ SoundAt(s, p)
  <1>1. /\ s = [pool |-> s.pool, wallet |-> s.wallet, lp |-> s.lp]
        /\ s.pool \in [Pools -> PoolAccounts] /\ s.wallet \in [Users -> Pair]
        /\ s.lp \in [Users -> [Pools -> U64]]
        /\ SoundAt(s, p)
    BY DEF Sound, Accounts
  <1>2. s.pool[p].r \in Pair /\ s.pool[p].l \in U64
    BY <1>1 DEF PoolAccounts
  <1>3. U64 \subseteq Nat
    BY CpmmAssumption, SMT DEF U64
  <1>4. Held(s, p) \in [Users -> Nat] /\ Held(s, p)[u] = s.lp[u][p]
    BY <1>1, <1>3 DEF Held
  <1>5. s.lp[u][p] <= s.pool[p].l
    <2>1. s.pool[p].l \in Int /\ Layout(Held(s, p), s.pool[p].l)
      BY <1>1, <1>2, <1>3 DEF SoundAt
    <2> QED
      BY <1>4, <2>1, LayoutBounds
  <1> QED
    BY <1>1, <1>2, <1>3, <1>4, <1>5

\* Such a change keeps accounts sound, if the new balances fit and back the LP.
LEMMA ChangedSound ==
  ASSUME NEW s, Sound(s), NEW u \in Users, NEW p \in Pools,
         NEW r \in Pair, NEW d \in Int, NEW w \in Pair,
         s.lp[u][p] + d >= 0, s.pool[p].l + d <= U64Max,
         s.pool[p].l + d > 0 => \A t \in Token : r[t] > 0,
         s.pool[p].open \/ (r = s.pool[p].r /\ d = 0)
  PROVE  Sound(Changed(s, u, p, r, d, w))
  <1> DEFINE n == Changed(s, u, p, r, d, w)
             l == s.pool[p].l + d
             h == s.lp[u][p] + d
  <1>0. /\ s.pool \in [Pools -> PoolAccounts] /\ s.wallet \in [Users -> Pair]
        /\ s.lp \in [Users -> [Pools -> U64]]
        /\ s.pool[p].l \in Nat /\ s.lp[u][p] \in Nat /\ s.lp[u][p] <= s.pool[p].l
        /\ s.pool[p] \in PoolAccounts
        /\ Held(s, p) \in [Users -> Nat]
        /\ Layout(Held(s, p), s.pool[p].l)
        /\ ~s.pool[p].open => s.pool[p].r = Nothing /\ s.pool[p].l = 0
    BY SoundFacts DEF SoundAt
  <1>1. Layout([Held(s, p) EXCEPT ![u] = h], l)
    <2>1. Held(s, p)[u] = s.lp[u][p]
      BY DEF Held
    <2> QED
      BY <1>0, <2>1, LayoutResized
  <1>2. l \in U64 /\ h \in U64
    BY <1>0, CpmmAssumption, SMT DEF U64
  <1>3. /\ n.pool = [s.pool EXCEPT ![p] = [s.pool[p] EXCEPT !.r = r, !.l = l]]
        /\ n.wallet = [s.wallet EXCEPT ![u] = w]
        /\ n.lp = [s.lp EXCEPT ![u] = [s.lp[u] EXCEPT ![p] = h]]
        /\ n = [pool |-> n.pool, wallet |-> n.wallet, lp |-> n.lp]
    BY DEF Changed
  <1> HIDE DEF n, l, h
  <1>4. [s.pool[p] EXCEPT !.r = r, !.l = l] \in PoolAccounts
    BY <1>0, <1>2 DEF PoolAccounts
  <1>5. n \in Accounts
    <2>1. n.pool \in [Pools -> PoolAccounts] /\ n.wallet \in [Users -> Pair]
      BY <1>0, <1>3, <1>4
    <2>2. [s.lp[u] EXCEPT ![p] = h] \in [Pools -> U64]
      BY <1>0, <1>2
    <2>3. n.lp \in [Users -> [Pools -> U64]]
      BY <1>0, <1>3, <2>2
    <2> QED
      BY <1>3, <2>1, <2>3 DEF Accounts
  <1>6. SoundAt(n, p)
    <2>1. n.pool[p].l = l /\ n.pool[p].r = r /\ n.pool[p].open = s.pool[p].open
      BY <1>0, <1>3 DEF PoolAccounts
    <2>2. Held(n, p) = [Held(s, p) EXCEPT ![u] = h]
      BY <1>0, <1>3 DEF Held
    <2>3. ~s.pool[p].open => l = 0
      BY <1>0, SMT DEF l
    <2> QED
      BY <1>0, <1>1, <2>1, <2>2, <2>3 DEF SoundAt, l
  <1>7. ASSUME NEW q \in Pools, q # p
        PROVE  SoundAt(n, q)
    <2>1. n.pool[q] = s.pool[q]
      BY <1>0, <1>3, <1>7
    <2>2. Held(n, q) = Held(s, q)
      BY <1>0, <1>3, <1>7 DEF Held
    <2>3. SoundAt(s, q)
      BY DEF Sound
    <2> QED
      BY <2>1, <2>2, <2>3 DEF SoundAt
  <1> QED
    BY <1>5, <1>6, <1>7 DEF Sound, n

\* Updating two parts of a record of accounts.
Settled(s, u, p, w, r) == [s EXCEPT !.wallet[u] = w, !.pool[p].r = r]
Issued(s, u, p, n, m)  == [s EXCEPT !.pool[p].l = n, !.lp[u][p] = m]

Parts(a, b, c) == [pool |-> a, wallet |-> b, lp |-> c]
WithReserves(a, p, r) == [a EXCEPT ![p] = [a[p] EXCEPT !.r = r]]
WithSupply(a, p, n)   == [a EXCEPT ![p] = [a[p] EXCEPT !.l = n]]
WithHeld(c, u, p, m)  == [c EXCEPT ![u] = [c[u] EXCEPT ![p] = m]]

LEMMA SettledParts ==
  ASSUME NEW a, NEW b, NEW c, NEW u, NEW p, NEW w, NEW r
  PROVE  Settled(Parts(a, b, c), u, p, w, r) = Parts(WithReserves(a, p, r), [b EXCEPT ![u] = w], c)
  <1> DEFINE x == WithReserves(a, p, r)
             y == [b EXCEPT ![u] = w]
             s == Parts(a, b, c)
  <1>0. s = [pool |-> a, wallet |-> b, lp |-> c]
    BY DEF Parts
  <1>1. Settled(s, u, p, w, r) = [s EXCEPT !.wallet = y, !.pool = x]
    BY <1>0 DEF Settled, WithReserves
  <1> HIDE DEF x, y, s
  <1>2. [s EXCEPT !.wallet = y, !.pool = x] = [[s EXCEPT !.wallet = y] EXCEPT !.pool = x]
    BY <1>0
  <1>3. [s EXCEPT !.wallet = y] = [pool |-> a, wallet |-> y, lp |-> c]
    BY <1>0
  <1>4. [[pool |-> a, wallet |-> y, lp |-> c] EXCEPT !.pool = x] = [pool |-> x, wallet |-> y, lp |-> c]
    OBVIOUS
  <1> QED
    BY <1>1, <1>2, <1>3, <1>4 DEF x, y, s, Parts

LEMMA IssuedParts ==
  ASSUME NEW a, NEW b, NEW c, NEW u, NEW p, NEW n, NEW m
  PROVE  Issued(Parts(a, b, c), u, p, n, m) = Parts(WithSupply(a, p, n), b, WithHeld(c, u, p, m))
  <1> DEFINE x == WithSupply(a, p, n)
             z == WithHeld(c, u, p, m)
             s == Parts(a, b, c)
  <1>0. s = [pool |-> a, wallet |-> b, lp |-> c]
    BY DEF Parts
  <1>1. Issued(s, u, p, n, m) = [s EXCEPT !.pool = x, !.lp = z]
    BY <1>0 DEF Issued, WithSupply, WithHeld
  <1> HIDE DEF x, z, s
  <1>2. [s EXCEPT !.pool = x, !.lp = z] = [[s EXCEPT !.pool = x] EXCEPT !.lp = z]
    BY <1>0
  <1>3. [s EXCEPT !.pool = x] = [pool |-> x, wallet |-> b, lp |-> c]
    BY <1>0
  <1>4. [[pool |-> x, wallet |-> b, lp |-> c] EXCEPT !.lp = z] = [pool |-> x, wallet |-> b, lp |-> z]
    OBVIOUS
  <1> QED
    BY <1>1, <1>2, <1>3, <1>4 DEF x, z, s, Parts

\* Settling what the transfers left, and issuing or burning LP, are such changes.
LEMMA SettleChanged ==
  ASSUME NEW s, Sound(s), NEW u \in Users, NEW p \in Pools, NEW f
  PROVE  Settle(s, u, p, f) = Changed(s, u, p, f.vault, 0, f.wallet)
  <1>1. /\ s = Parts(s.pool, s.wallet, s.lp)
        /\ s.lp \in [Users -> [Pools -> U64]]
        /\ s.pool[p] \in PoolAccounts /\ s.pool[p].l \in Nat /\ s.lp[u][p] \in Nat
    BY SoundFacts DEF Parts
  <1>2. s.pool[p].l + 0 = s.pool[p].l /\ s.lp[u][p] + 0 = s.lp[u][p]
    BY <1>1, SMT
  <1>3. [s.pool[p] EXCEPT !.r = f.vault, !.l = s.pool[p].l] = [s.pool[p] EXCEPT !.r = f.vault]
    BY <1>1 DEF PoolAccounts
  <1>4. [s.lp EXCEPT ![u] = [s.lp[u] EXCEPT ![p] = s.lp[u][p]]] = s.lp
    BY <1>1
  <1>5. Settle(s, u, p, f) = Settled(s, u, p, f.wallet, f.vault)
    BY DEF Settle, Settled
  <1>6. Settled(s, u, p, f.wallet, f.vault)
          = Parts(WithReserves(s.pool, p, f.vault), [s.wallet EXCEPT ![u] = f.wallet], s.lp)
    BY <1>1, SettledParts
  <1> QED
    BY <1>2, <1>3, <1>4, <1>5, <1>6 DEF Changed, Parts, WithReserves

LEMMA IssuedChanged ==
  ASSUME NEW s, Sound(s), NEW u \in Users, NEW p \in Pools, NEW r, NEW w, NEW d \in Int
  PROVE  /\ Issued(s, u, p, s.pool[p].l + d, s.lp[u][p] + d)
              = Changed(s, u, p, s.pool[p].r, d, s.wallet[u])
         /\ Issued(Changed(s, u, p, r, 0, w), u, p, s.pool[p].l + d, s.lp[u][p] + d)
              = Changed(s, u, p, r, d, w)
  <1>1. /\ s = Parts(s.pool, s.wallet, s.lp)
        /\ s.pool \in [Pools -> PoolAccounts] /\ s.wallet \in [Users -> Pair]
        /\ s.lp \in [Users -> [Pools -> U64]]
        /\ s.pool[p] \in PoolAccounts
    BY SoundFacts DEF Parts
  <1>2. s.wallet = [s.wallet EXCEPT ![u] = s.wallet[u]]
    BY <1>1
  <1> DEFINE l == s.pool[p].l + d
             m == s.lp[u][p] + d
             a == [s.pool EXCEPT ![p] = [s.pool[p] EXCEPT !.r = r, !.l = s.pool[p].l + 0]]
             b == [s.wallet EXCEPT ![u] = w]
             c == [s.lp EXCEPT ![u] = [s.lp[u] EXCEPT ![p] = s.lp[u][p] + 0]]
  <1>3. [s.pool[p] EXCEPT !.r = s.pool[p].r, !.l = l] = [s.pool[p] EXCEPT !.l = l]
    BY <1>1 DEF PoolAccounts
  <1>4. Issued(s, u, p, l, m) = Parts(WithSupply(s.pool, p, l), s.wallet, WithHeld(s.lp, u, p, m))
    BY <1>1, IssuedParts
  <1>5. Changed(s, u, p, r, 0, w) = Parts(a, b, c)
    BY DEF Changed, Parts
  <1>6. WithSupply(a, p, l) = [s.pool EXCEPT ![p] = [s.pool[p] EXCEPT !.r = r, !.l = l]]
    <2>1. a[p] = [s.pool[p] EXCEPT !.r = r, !.l = s.pool[p].l + 0]
      BY <1>1
    <2>2. [a[p] EXCEPT !.l = l] = [s.pool[p] EXCEPT !.r = r, !.l = l]
      BY <1>1, <2>1 DEF PoolAccounts
    <2> QED
      BY <1>1, <2>2 DEF WithSupply
  <1>7. WithHeld(c, u, p, m) = [s.lp EXCEPT ![u] = [s.lp[u] EXCEPT ![p] = m]]
    BY <1>1 DEF WithHeld
  <1> HIDE DEF a, b, c
  <1>8. Issued(Parts(a, b, c), u, p, l, m) = Parts(WithSupply(a, p, l), b, WithHeld(c, u, p, m))
    BY IssuedParts
  <1>9. Issued(s, u, p, l, m) = Changed(s, u, p, s.pool[p].r, d, s.wallet[u])
    BY <1>2, <1>3, <1>4 DEF Changed, Parts, WithSupply, WithHeld
  <1> QED
    BY <1>5, <1>6, <1>7, <1>8, <1>9 DEF Changed, Parts, b

-----------------------------------------------------------------------------
(* What each instruction does, as such a change                            *)

Became(s, n, u, p, r, d) ==
  /\ Sound(n)
  /\ \E w \in Pair : n = Changed(s, u, p, r, d, w)

\* What the one who made it owns after it.
LEMMA ChangedHolder ==
  ASSUME NEW s, Sound(s), NEW u \in Users, NEW p \in Pools, NEW r, NEW d, NEW w
  PROVE  /\ Changed(s, u, p, r, d, w).wallet[u] = w
         /\ Changed(s, u, p, r, d, w).lp[u][p] = s.lp[u][p] + d
  <1> DEFINE h == s.lp[u][p] + d
             n == Changed(s, u, p, r, d, w)
  <1>1. s.wallet \in [Users -> Pair] /\ s.lp \in [Users -> [Pools -> U64]]
    BY SoundFacts
  <1>2. /\ n.wallet = [s.wallet EXCEPT ![u] = w]
        /\ n.lp = [s.lp EXCEPT ![u] = [s.lp[u] EXCEPT ![p] = h]]
    BY DEF Changed
  <1> HIDE DEF h, n
  <1>3. n.wallet[u] = w /\ n.lp[u][p] = h
    BY <1>1, <1>2
  <1> QED
    BY <1>3 DEF h, n

\* The quotes are made on a PoolState.
LEMMA SnapshotFacts ==
  ASSUME NEW s, Sound(s), NEW u \in Users, NEW p \in Pools
  PROVE  /\ Snapshot(s, p) \in PoolState
         /\ Snapshot(s, p).r = s.pool[p].r /\ Snapshot(s, p).l = s.pool[p].l
         /\ FundsOf(s, u, p).wallet = s.wallet[u] /\ FundsOf(s, u, p).vault = s.pool[p].r
         /\ FundsOf(s, u, p).wallet \in Pair /\ FundsOf(s, u, p).vault \in Pair
  <1>1. s.pool[p] \in PoolAccounts /\ s.wallet[u] \in Pair /\ s.pool[p].r \in Pair /\ s.pool[p].l \in U64
    BY SoundFacts
  <1>2. s.pool[p].fee \in Nat
    <2>1. s.pool[p].fee \in Fees \/ s.pool[p].fee = 0
      BY <1>1 DEF PoolAccounts
    <2>2. \A fee : fee \in Fees => fee \in Nat
      BY AmmAssumption, Zenon
    <2>3. \A fee : fee = 0 => fee \in Nat
      OBVIOUS
    <2> QED
      BY <2>1, <2>2, <2>3, Zenon
  <1> QED
    BY <1>1, <1>2 DEF Snapshot, New, PoolState, FundsOf, Funds

LEMMA SwapResult ==
  ASSUME NEW s, Sound(s), NEW u \in Users, NEW p \in Pools,
         NEW amount \in U64, NEW side, NEW minOut,
         NEW n \in Swapped(s, u, p, amount, side, minOut)
  PROVE  /\ Usable(s, p) /\ side \in Token
         /\ \E out \in Swap(Snapshot(s, p), amount, side, minOut) :
              /\ s.pool[p].r[side] + amount <= U64Max
              /\ Became(s, n, u, p, Minus(Plus(s.pool[p].r, Just(side, amount)), Just(Other(side), out)), 0)
  <1>1. Usable(s, p)
    BY DEF Swapped
  <1>2. PICK out \in Swap(Snapshot(s, p), amount, side, minOut) :
          \E f \in SwapTransfers(FundsOf(s, u, p), side, amount, out) : n = Settle(s, u, p, f)
    BY <1>1 DEF Swapped
  <1>3. PICK f \in SwapTransfers(FundsOf(s, u, p), side, amount, out) : n = Settle(s, u, p, f)
    BY <1>2
  <1>4. side \in Token
    BY <1>2 DEF Swap
  <1> DEFINE r == Minus(Plus(s.pool[p].r, Just(side, amount)), Just(Other(side), out))
  <1>5. out \in U64
    <2>1. out \in SwapFormula(s.pool[p].r[side], s.pool[p].r[Other(side)], amount, Snapshot(s, p).fee)
      BY <1>2, SnapshotFacts DEF Swap, SwapOut
    <2>2. /\ s.pool[p].r[side] \in Nat /\ s.pool[p].r[Other(side)] \in Nat
          /\ Snapshot(s, p).fee \in Nat
      BY <1>4, SnapshotFacts, PairFacts, TokenFacts DEF PoolState
    <2>3. amount \in Nat
      BY CpmmAssumption, SMT DEF U64
    <2> QED
      BY <2>1, <2>2, <2>3, SwapFormulaBounds
  <1>6. f.vault = r /\ f.wallet \in Pair /\ s.pool[p].r[side] + amount <= U64Max
    BY <1>3, <1>4, <1>5, SnapshotFacts, SwapTransferred
  <1>7. r \in Pair /\ \A t \in Token : r[t] > 0
    BY <1>2, <1>4, <1>6, SnapshotFacts, SwapLeaves
  <1>8. n = Changed(s, u, p, r, 0, f.wallet)
    BY <1>3, <1>6, SettleChanged
  <1>9. Sound(n)
    <2>1. s.lp[u][p] + 0 >= 0 /\ s.pool[p].l + 0 <= U64Max
      <3>1. s.lp[u][p] \in Nat /\ s.pool[p].l \in U64
        BY SoundFacts
      <3> QED
        BY <3>1, CpmmAssumption, SMT DEF U64
    <2>2. s.pool[p].open /\ 0 \in Int
      BY <1>1 DEF Usable
    <2> HIDE DEF r
    <2> QED
      BY <1>6, <1>7, <1>8, <2>1, <2>2, ChangedSound
  <1> QED
    BY <1>1, <1>2, <1>4, <1>6, <1>8, <1>9 DEF Became

LEMMA DepositResult ==
  ASSUME NEW s, Sound(s), NEW u \in Users, NEW p \in Pools,
         NEW offer \in Offers(U64), NEW side, NEW minLp,
         NEW n \in Deposited(s, u, p, offer, side, minLp)
  PROVE  /\ Usable(s, p)
         /\ \E q \in Deposit(Snapshot(s, p), offer, side, minLp) :
              /\ q.lp \in U64 /\ s.pool[p].l + q.lp <= U64Max
              /\ Plus(Minus(Plus(s.pool[p].r, q.swapIn), q.swapOut), q.deposit) \in Pair
              /\ Became(s, n, u, p, Plus(Minus(Plus(s.pool[p].r, q.swapIn), q.swapOut), q.deposit), q.lp)
              /\ n.wallet[u] = AfterDeposit(s.wallet[u], q) /\ n.lp[u][p] = s.lp[u][p] + q.lp
  <1>1. Usable(s, p)
    BY DEF Deposited
  <1>2. PICK q \in Deposit(Snapshot(s, p), offer, side, minLp) :
          \E f \in DepositTransfers(FundsOf(s, u, p), q) : n \in MintLp(Settle(s, u, p, f), u, p, q.lp)
    BY <1>1 DEF Deposited
  <1>3. PICK f \in DepositTransfers(FundsOf(s, u, p), q) : n \in MintLp(Settle(s, u, p, f), u, p, q.lp)
    BY <1>2
  <1> DEFINE r == Plus(Minus(Plus(s.pool[p].r, q.swapIn), q.swapOut), q.deposit)
             c == Settle(s, u, p, f)
  <1>4. q.lp \in U64 /\ q.swapIn \in Pair /\ q.swapOut \in Pair /\ q.deposit \in Pair
    BY <1>2, SnapshotFacts, DepositBounds DEF DepositQuotes
  <1>5. /\ f.vault = r /\ f.vault \in Pair /\ f.wallet \in Pair
        /\ f.wallet = AfterDeposit(s.wallet[u], q)
    BY <1>3, <1>4, SnapshotFacts, DepositTransferred
  <1>6. \A t \in Token : r[t] > 0
    BY <1>2, SnapshotFacts, DepositLeaves
  <1>7. c = Changed(s, u, p, r, 0, f.wallet)
    BY <1>5, SettleChanged
  <1>8. c.pool[p].l = s.pool[p].l /\ c.lp[u][p] = s.lp[u][p]
    <2>1. /\ s.pool \in [Pools -> PoolAccounts] /\ s.pool[p] \in PoolAccounts
          /\ s.lp \in [Users -> [Pools -> U64]]
          /\ s.pool[p].l \in Nat /\ s.lp[u][p] \in Nat
      BY SoundFacts
    <2>2. c.pool[p].l = s.pool[p].l + 0 /\ c.lp[u][p] = s.lp[u][p] + 0
      BY <1>7, <2>1 DEF Changed, PoolAccounts
    <2> QED
      BY <2>1, <2>2, SMT
  <1> HIDE DEF c, r
  <1>9. /\ s.pool[p].l + q.lp <= U64Max
        /\ n = Issued(c, u, p, s.pool[p].l + q.lp, s.lp[u][p] + q.lp)
    BY <1>3, <1>8 DEF MintLp, Issued, c
  <1>10. n = Changed(s, u, p, r, q.lp, f.wallet)
    <2>1. q.lp \in Int
      BY <1>4, CpmmAssumption, SMT DEF U64
    <2> QED
      BY <1>7, <1>9, <2>1, IssuedChanged
  <1>11. Sound(n)
    <2>1. q.lp \in Int /\ s.lp[u][p] + q.lp >= 0
      <3>1. s.lp[u][p] \in Nat
        BY SoundFacts
      <3> QED
        BY <1>4, <3>1, CpmmAssumption, SMT DEF U64
    <2>2. s.pool[p].open
      BY <1>1 DEF Usable
    <2> QED
      BY <1>5, <1>6, <1>9, <1>10, <2>1, <2>2, ChangedSound
  <1>12. n.wallet[u] = f.wallet /\ n.lp[u][p] = s.lp[u][p] + q.lp
    BY <1>10, ChangedHolder
  <1> QED
    BY <1>1, <1>2, <1>4, <1>5, <1>9, <1>10, <1>11, <1>12 DEF Became, r

\* Burning LP, from accounts whose mint and balances are those of s.
LEMMA BurnResult ==
  ASSUME NEW s, Sound(s), NEW u \in Users, NEW p \in Pools, NEW m \in U64,
         NEW n \in BurnTokens(s, u, p, m)
  PROVE  /\ m <= s.pool[p].l
         /\ Became(s, n, u, p, s.pool[p].r, -m)
  <1>1. /\ s.pool[p].l \in U64 /\ s.lp[u][p] \in U64 /\ s.lp[u][p] <= s.pool[p].l
        /\ s.pool[p].r \in Pair /\ s.wallet[u] \in Pair
        /\ SoundAt(s, p)
    BY SoundFacts
  <1>2. /\ m <= s.lp[u][p]
        /\ n = Issued(s, u, p, s.pool[p].l - m, s.lp[u][p] - m)
    BY DEF BurnTokens, Issued
  <1>3. /\ m <= s.pool[p].l /\ -m \in Int
        /\ s.pool[p].l - m = s.pool[p].l + (-m) /\ s.lp[u][p] - m = s.lp[u][p] + (-m)
        /\ s.lp[u][p] + (-m) >= 0 /\ s.pool[p].l + (-m) <= U64Max
        /\ s.pool[p].l + (-m) > 0 => s.pool[p].l > 0
        /\ s.pool[p].l = 0 => -m = 0
    BY <1>1, <1>2, CpmmAssumption, SMT DEF U64
  <1>4. n = Changed(s, u, p, s.pool[p].r, -m, s.wallet[u])
    BY <1>2, <1>3, IssuedChanged
  <1>5. /\ s.pool[p].l > 0 => \A t \in Token : s.pool[p].r[t] > 0
        /\ s.pool[p].open \/ -m = 0
    BY <1>1, <1>3 DEF SoundAt
  <1> DEFINE d == -m
             r == s.pool[p].r
  <1>6. /\ d \in Int /\ r \in Pair /\ s.lp[u][p] + d >= 0 /\ s.pool[p].l + d <= U64Max
        /\ s.pool[p].l + d > 0 => \A t \in Token : r[t] > 0
        /\ s.pool[p].open \/ (r = s.pool[p].r /\ d = 0)
        /\ n = Changed(s, u, p, r, d, s.wallet[u])
    BY <1>1, <1>3, <1>4, <1>5
  <1> HIDE DEF d, r
  <1>7. Sound(n)
    BY <1>1, <1>6, ChangedSound
  <1> QED
    BY <1>1, <1>3, <1>4, <1>7 DEF Became

\* The payout of a withdrawal of lp quoted with a supply of l; the mint has not
\* changed yet, so soundness waits for the burn, or rests on the one before.
LEMMA PayoutResult ==
  ASSUME NEW s, Sound(s), NEW u \in Users, NEW p \in Pools,
         NEW l \in U64, NEW lp \in U64, lp <= l, NEW side \in Side, NEW floor,
         NEW n \in PaidOut(s, u, p, l, lp, side, floor)
  PROVE  \E q \in Withdraw(New(s.pool[p].r, l, s.pool[p].fee), lp, side, floor), w \in Pair :
           /\ AtLeast(s.pool[p].r, q.proRata)
           /\ Minus(Plus(Minus(s.pool[p].r, q.proRata), q.swapIn), q.swapOut) \in Pair
           /\ lp < l =>
                \A t \in Token : Minus(Plus(Minus(s.pool[p].r, q.proRata), q.swapIn), q.swapOut)[t] > 0
           /\ w = AfterWithdraw(s.wallet[u], q)
           /\ n = Changed(s, u, p, Minus(Plus(Minus(s.pool[p].r, q.proRata), q.swapIn), q.swapOut), 0, w)
  <1> DEFINE pool == New(s.pool[p].r, l, s.pool[p].fee)
  <1>1. PICK q \in Withdraw(pool, lp, side, floor) :
          \E f \in WithdrawTransfers(FundsOf(s, u, p), q) : n = Settle(s, u, p, f)
    BY DEF PaidOut
  <1>2. PICK f \in WithdrawTransfers(FundsOf(s, u, p), q) : n = Settle(s, u, p, f)
    BY <1>1
  <1>3. pool \in PoolState /\ pool.r = s.pool[p].r /\ pool.l = l
    BY SnapshotFacts DEF Snapshot, New, PoolState
  <1>4. q.proRata \in Pair /\ q.swapIn \in Pair /\ q.swapOut \in Pair
    BY <1>1, <1>3, WithdrawPays
  <1> DEFINE r == Minus(Plus(Minus(s.pool[p].r, q.proRata), q.swapIn), q.swapOut)
  <1>5. /\ f.vault = r /\ f.wallet \in Pair /\ AtLeast(s.pool[p].r, q.proRata)
        /\ f.wallet = AfterWithdraw(s.wallet[u], q)
    BY <1>2, <1>4, SnapshotFacts, WithdrawTransferred
  <1>6. r \in Pair /\ (lp < l => \A t \in Token : r[t] > 0)
    <2>1. /\ Left(pool, q) \in Pair
          /\ lp < pool.l => \A t \in Token : Left(pool, q)[t] > 0
      BY <1>1, <1>3, WithdrawLeaves
    <2> QED
      BY <1>3, <2>1 DEF Left
  <1>7. n = Changed(s, u, p, r, 0, f.wallet)
    BY <1>2, <1>5, SettleChanged
  <1> QED
    BY <1>1, <1>5, <1>6, <1>7

LEMMA WithdrawResult ==
  ASSUME NEW s, Sound(s), NEW u \in Users, NEW p \in Pools,
         NEW lp \in U64, NEW side \in Side, NEW floor,
         NEW n \in Withdrawn(s, u, p, lp, side, floor)
  PROVE  /\ Usable(s, p) /\ lp <= s.pool[p].l
         /\ \E q \in Withdraw(Snapshot(s, p), lp, side, floor) :
              /\ AtLeast(s.pool[p].r, q.proRata)
              /\ Became(s, n, u, p, Minus(Plus(Minus(s.pool[p].r, q.proRata), q.swapIn), q.swapOut), -lp)
              /\ n.wallet[u] = AfterWithdraw(s.wallet[u], q)
  <1> DEFINE l == s.pool[p].l
  <1>1. Usable(s, p)
    BY DEF Withdrawn
  <1>2. PICK paid \in PaidOut(s, u, p, l, lp, side, floor) : n \in BurnTokens(paid, u, p, lp)
    BY <1>1 DEF Withdrawn
  <1>3. /\ s.pool \in [Pools -> PoolAccounts] /\ s.pool[p] \in PoolAccounts
        /\ s.lp \in [Users -> [Pools -> U64]]
        /\ l \in U64 /\ l \in Nat /\ s.lp[u][p] \in U64 /\ s.lp[u][p] \in Nat /\ s.lp[u][p] <= l
    BY SoundFacts
  <1>4. paid.pool[p].l = l /\ paid.lp[u][p] = s.lp[u][p]
    <2>1. PICK f : paid = Settle(s, u, p, f)
      BY <1>2 DEF PaidOut
    <2>2. paid = Changed(s, u, p, f.vault, 0, f.wallet)
      BY <2>1, SettleChanged
    <2>3. paid.pool[p].l = l + 0 /\ paid.lp[u][p] = s.lp[u][p] + 0
      BY <1>3, <2>2 DEF Changed, PoolAccounts
    <2> QED
      BY <1>3, <2>3, SMT
  <1>5. /\ lp <= s.lp[u][p]
        /\ n = Issued(paid, u, p, l - lp, s.lp[u][p] - lp)
    BY <1>2, <1>4 DEF BurnTokens, Issued
  <1> DEFINE d == -lp
  <1>6. /\ lp <= l /\ d \in Int
        /\ l - lp = l + d /\ s.lp[u][p] - lp = s.lp[u][p] + d
        /\ s.lp[u][p] + d >= 0 /\ l + d <= U64Max
        /\ l + d > 0 => lp < l
    BY <1>3, <1>5, CpmmAssumption, SMT DEF U64
  <1>7. PICK q \in Withdraw(New(s.pool[p].r, l, s.pool[p].fee), lp, side, floor), w \in Pair :
           /\ AtLeast(s.pool[p].r, q.proRata)
           /\ Minus(Plus(Minus(s.pool[p].r, q.proRata), q.swapIn), q.swapOut) \in Pair
           /\ lp < l =>
                \A t \in Token : Minus(Plus(Minus(s.pool[p].r, q.proRata), q.swapIn), q.swapOut)[t] > 0
           /\ w = AfterWithdraw(s.wallet[u], q)
           /\ paid = Changed(s, u, p, Minus(Plus(Minus(s.pool[p].r, q.proRata), q.swapIn), q.swapOut), 0, w)
    BY <1>2, <1>3, <1>6, PayoutResult
  <1> DEFINE r == Minus(Plus(Minus(s.pool[p].r, q.proRata), q.swapIn), q.swapOut)
  <1> HIDE DEF d, r
  <1>8. n = Changed(s, u, p, r, d, w)
    <2>1. Issued(Changed(s, u, p, r, 0, w), u, p, l + d, s.lp[u][p] + d) = Changed(s, u, p, r, d, w)
      BY <1>6, IssuedChanged
    <2> QED
      BY <1>5, <1>6, <1>7, <2>1 DEF r
  <1>9. /\ r \in Pair
        /\ l + d > 0 => \A t \in Token : r[t] > 0
    BY <1>6, <1>7 DEF r
  <1>10. Sound(n)
    <2>1. s.pool[p].open
      BY <1>1 DEF Usable
    <2> QED
      BY <1>6, <1>8, <1>9, <2>1, ChangedSound
  <1>11. n.wallet[u] = w
    BY <1>8, ChangedHolder
  <1> QED
    BY <1>1, <1>6, <1>7, <1>8, <1>10, <1>11 DEF Became, Snapshot, r, d

LEMMA WithdrawAfterBurnResult ==
  ASSUME NEW s, Sound(s), NEW ix, NEW u \in Users, NEW p \in Pools,
         NEW lp \in U64, NEW side \in Side, NEW floor,
         NEW n \in WithdrawnAfterBurn(s, ix, u, p, lp, side, floor)
  PROVE  /\ Usable(s, p) /\ ConfirmBurn(ix, u, p, lp) /\ s.pool[p].l + lp <= U64Max
         /\ \E q \in Withdraw(New(s.pool[p].r, s.pool[p].l + lp, s.pool[p].fee), lp, side, floor) :
              /\ AtLeast(s.pool[p].r, q.proRata)
              /\ Became(s, n, u, p, Minus(Plus(Minus(s.pool[p].r, q.proRata), q.swapIn), q.swapOut), 0)
              /\ n.wallet[u] = AfterWithdraw(s.wallet[u], q)
  <1> DEFINE l == s.pool[p].l + lp
  <1>1. /\ Usable(s, p) /\ ConfirmBurn(ix, u, p, lp) /\ l <= U64Max
        /\ n \in PaidOut(s, u, p, l, lp, side, floor)
    BY DEF WithdrawnAfterBurn
  <1>2. /\ s.pool[p].l \in Nat /\ s.pool[p].l \in U64 /\ s.lp[u][p] \in Nat
    BY SoundFacts
  <1>3. /\ l \in U64 /\ lp <= l
        /\ s.lp[u][p] + 0 >= 0 /\ s.pool[p].l + 0 <= U64Max /\ 0 \in Int
        /\ s.pool[p].l + 0 > 0 => lp < l
    BY <1>1, <1>2, CpmmAssumption, SMT DEF U64
  <1> HIDE DEF l
  <1>4. PICK q \in Withdraw(New(s.pool[p].r, l, s.pool[p].fee), lp, side, floor), w \in Pair :
           /\ AtLeast(s.pool[p].r, q.proRata)
           /\ Minus(Plus(Minus(s.pool[p].r, q.proRata), q.swapIn), q.swapOut) \in Pair
           /\ lp < l =>
                \A t \in Token : Minus(Plus(Minus(s.pool[p].r, q.proRata), q.swapIn), q.swapOut)[t] > 0
           /\ w = AfterWithdraw(s.wallet[u], q)
           /\ n = Changed(s, u, p, Minus(Plus(Minus(s.pool[p].r, q.proRata), q.swapIn), q.swapOut), 0, w)
    BY <1>1, <1>3, PayoutResult
  <1> DEFINE r == Minus(Plus(Minus(s.pool[p].r, q.proRata), q.swapIn), q.swapOut)
  <1> HIDE DEF r
  <1>5. /\ r \in Pair /\ n = Changed(s, u, p, r, 0, w)
        /\ s.pool[p].l + 0 > 0 => \A t \in Token : r[t] > 0
    BY <1>3, <1>4 DEF r
  <1>6. Sound(n)
    <2>1. s.pool[p].open
      BY <1>1 DEF Usable
    <2> QED
      BY <1>3, <1>5, <2>1, ChangedSound
  <1>7. n.wallet[u] = w
    BY <1>5, ChangedHolder
  <1> QED
    BY <1>1, <1>4, <1>5, <1>6, <1>7 DEF Became, r, l

\* A gift.
LEMMA DonateResult ==
  ASSUME NEW s, Sound(s), NEW u \in Users, NEW p \in Pools, NEW t \in Token, NEW m \in U64,
         s.pool[p].open, NEW f \in Pay({FundsOf(s, u, p)}, Just(t, m))
  PROVE  /\ Plus(s.pool[p].r, Just(t, m)) \in Pair
         /\ Became(s, Settle(s, u, p, f), u, p, Plus(s.pool[p].r, Just(t, m)), 0)
  <1> DEFINE r == Plus(s.pool[p].r, Just(t, m))
  <1>1. f.vault = r /\ r \in Pair /\ f.wallet \in Pair
    <2>1. Just(t, m) \in Pair
      BY PairFacts
    <2>2. \E g \in {FundsOf(s, u, p)} :
            f.vault = Plus(g.vault, Just(t, m)) /\ f.vault \in Pair /\ f.wallet \in Pair
      BY <2>1, SnapshotFacts, Paid
    <2> QED
      BY <2>2, SnapshotFacts
  <1>2. /\ s.pool[p].l \in Nat /\ s.pool[p].l \in U64 /\ s.lp[u][p] \in Nat
        /\ s.pool[p].r \in Pair /\ SoundAt(s, p)
    BY SoundFacts
  <1>3. /\ s.lp[u][p] + 0 >= 0 /\ s.pool[p].l + 0 <= U64Max /\ 0 \in Int
        /\ s.pool[p].l + 0 > 0 => s.pool[p].l > 0
    BY <1>2, CpmmAssumption, SMT DEF U64
  <1>4. ASSUME NEW v \in Token, s.pool[p].r[v] > 0
        PROVE  r[v] > 0
    <2>1. r[v] = s.pool[p].r[v] + Just(t, m)[v]
      BY Zenon DEF Plus
    <2>2. Just(t, m)[v] \in Nat /\ s.pool[p].r[v] \in Nat
      BY <1>2, PairFacts
    <2> QED
      BY <1>4, <2>1, <2>2, SMT
  <1> HIDE DEF r
  <1>5. s.pool[p].l + 0 > 0 => \A v \in Token : r[v] > 0
    BY <1>2, <1>3, <1>4 DEF SoundAt
  <1>6. Settle(s, u, p, f) = Changed(s, u, p, r, 0, f.wallet)
    BY <1>1, SettleChanged
  <1>7. Sound(Settle(s, u, p, f))
    BY <1>1, <1>3, <1>5, <1>6, ChangedSound
  <1> QED
    BY <1>1, <1>6, <1>7 DEF Became, r

\* The Config account is written, or created with the rest of the pool.
Configured(a, fee, locked, auth) ==
  [a EXCEPT !.open = TRUE, !.fee = fee, !.locked = locked, !.auth = auth]
WithPool(s, p, a) == [s EXCEPT !.pool[p] = a]
PoolSet(pools, p, a) == [pools EXCEPT ![p] = a]

LEMMA ConfigResult ==
  ASSUME NEW s, Sound(s), NEW p \in Pools, NEW fee \in Fees, NEW auth \in Authorities,
         NEW locked \in BOOLEAN, NEW a, a = Configured(s.pool[p], fee, locked, auth)
  PROVE  /\ Sound(WithPool(s, p, a))
         /\ WithPool(s, p, a).pool = PoolSet(s.pool, p, a)
  <1> DEFINE n == [s EXCEPT !.pool[p] = a]
  <1>1. /\ s.pool \in [Pools -> PoolAccounts] /\ s.wallet \in [Users -> Pair]
        /\ s.lp \in [Users -> [Pools -> U64]]
        /\ s.pool[p] \in PoolAccounts
        /\ s = [pool |-> s.pool, wallet |-> s.wallet, lp |-> s.lp]
    BY DEF Sound, Accounts
  <1>2. a \in PoolAccounts /\ a.r = s.pool[p].r /\ a.l = s.pool[p].l /\ a.open
    BY <1>1 DEF PoolAccounts, Configured
  <1>3. n = [pool |-> [s.pool EXCEPT ![p] = a], wallet |-> s.wallet, lp |-> s.lp]
    BY <1>1
  <1> HIDE DEF n
  <1>4. n.pool = [s.pool EXCEPT ![p] = a] /\ n.lp = s.lp /\ n.wallet = s.wallet
    BY <1>3
  <1>5. n \in Accounts
    BY <1>1, <1>2, <1>3 DEF Accounts
  <1>6. ASSUME NEW q \in Pools
        PROVE  SoundAt(n, q)
    <2>1. Held(n, q) = Held(s, q) /\ SoundAt(s, q)
      BY <1>4 DEF Held, Sound
    <2>2. /\ n.pool[q].r = s.pool[q].r /\ n.pool[q].l = s.pool[q].l
          /\ s.pool[q].open => n.pool[q].open
      BY <1>1, <1>2, <1>4
    <2> QED
      BY <2>1, <2>2 DEF SoundAt
  <1> QED
    BY <1>4, <1>5, <1>6 DEF Sound, n, WithPool, PoolSet

-----------------------------------------------------------------------------
(* The same change, seen by the abstract pool                              *)

Traded(a, r, l) == [a EXCEPT !.r = r, !.l = l]
Refilled(a, r)  == [a EXCEPT !.r = r]
Reissued(a, l)  == [a EXCEPT !.l = l]

SameElsewhere(s, n, p) == \A q \in Pools : q # p => n.pool[q] = s.pool[q]

LEMMA BecameFacts ==
  ASSUME NEW s, Sound(s), NEW u \in Users, NEW p \in Pools, NEW r, NEW d, NEW n,
         Became(s, n, u, p, r, d)
  PROVE  /\ Sound(n)
         /\ n.pool[p] = Traded(s.pool[p], r, s.pool[p].l + d)
         /\ SameElsewhere(s, n, p)
         /\ n.pool[p].open = s.pool[p].open
  <1>1. s.pool \in [Pools -> PoolAccounts] /\ s.pool[p] \in PoolAccounts
    BY SoundFacts
  <1>2. n.pool = [s.pool EXCEPT ![p] = Traded(s.pool[p], r, s.pool[p].l + d)]
    BY DEF Became, Changed, Traded
  <1>3. Traded(s.pool[p], r, s.pool[p].l + d).open = s.pool[p].open
    BY <1>1 DEF Traded, PoolAccounts
  <1> QED
    BY <1>1, <1>2, <1>3 DEF Became, SameElsewhere

LEMMA AbstractOpen ==
  ASSUME NEW s, Sound(s), NEW u \in Users, NEW p \in Pools, s.pool[p].open
  PROVE  /\ Abstract(s.pool[p]).r = s.pool[p].r /\ Abstract(s.pool[p]).l = s.pool[p].l
         /\ Abstract(s.pool[p]).fee = s.pool[p].fee /\ Abstract(s.pool[p]).locked = s.pool[p].locked
         /\ Pool!Snapshot(Abstract(s.pool[p])) = Snapshot(s, p)
         /\ \A l : Pool!Snapshot([Abstract(s.pool[p]) EXCEPT !.l = l])
                     = New(s.pool[p].r, l, s.pool[p].fee)
  BY DEF Abstract, Pool!Snapshot, Pool!New, Snapshot, New

LEMMA AbstractTraded ==
  ASSUME NEW a \in PoolAccounts, NEW r, NEW l, a.open
  PROVE  /\ Abstract(Traded(a, r, l)) = Traded(Abstract(a), r, l)
         /\ l = a.l => Traded(Abstract(a), r, l) = Refilled(Abstract(a), r)
         /\ r = a.r => Traded(Abstract(a), r, l) = Reissued(Abstract(a), l)
  <1> DEFINE seen(x, m) == [r |-> x, l |-> m, fee |-> a.fee, locked |-> a.locked, owned |-> a.auth # Nobody]
             b == Traded(a, r, l)
  <1>1. Abstract(a) = seen(a.r, a.l)
    BY DEF Abstract
  <1>2. /\ b.open /\ b.r = r /\ b.l = l
        /\ b.fee = a.fee /\ b.locked = a.locked /\ b.auth = a.auth
    BY DEF Traded, PoolAccounts
  <1> HIDE DEF b
  <1>3. Abstract(b) = seen(r, l)
    BY <1>2 DEF Abstract
  <1>5. /\ [seen(a.r, a.l) EXCEPT !.r = r] = seen(r, a.l)
        /\ [seen(a.r, a.l) EXCEPT !.l = l] = seen(a.r, l)
        /\ [seen(r, a.l) EXCEPT !.l = l] = seen(r, l)
    OBVIOUS
  <1>4. Traded(seen(a.r, a.l), r, l) = seen(r, l)
    <2>1. Traded(seen(a.r, a.l), r, l) = [[seen(a.r, a.l) EXCEPT !.r = r] EXCEPT !.l = l]
      BY DEF Traded
    <2> QED
      BY <1>5, <2>1
  <1> QED
    BY <1>1, <1>3, <1>4, <1>5 DEF b, Refilled, Reissued

LEMMA AbstractBecame ==
  ASSUME NEW s, Sound(s), NEW u \in Users, NEW p \in Pools, NEW r, NEW d \in Int, NEW n,
         Became(s, n, u, p, r, d), s.pool[p].open
  PROVE  /\ Abstract(n.pool[p]) = Traded(Abstract(s.pool[p]), r, s.pool[p].l + d)
         /\ d = 0 => Abstract(n.pool[p]) = Refilled(Abstract(s.pool[p]), r)
         /\ r = s.pool[p].r => Abstract(n.pool[p]) = Reissued(Abstract(s.pool[p]), s.pool[p].l + d)
  <1>1. s.pool[p] \in PoolAccounts /\ s.pool[p].l \in Nat
    BY SoundFacts
  <1>2. n.pool[p] = Traded(s.pool[p], r, s.pool[p].l + d)
    BY BecameFacts
  <1>3. d = 0 => s.pool[p].l + d = s.pool[p].l
    BY <1>1, SMT
  <1> QED
    BY <1>1, <1>2, <1>3, AbstractTraded

\* A floor only refuses: what passed one passes none.
LEMMA SwapFloor ==
  ASSUME NEW pool \in PoolState, NEW amount \in U64, NEW t \in Token, NEW minOut,
         NEW out \in Swap(pool, amount, t, minOut), pool.r[t] + amount <= U64Max
  PROVE  out \in Swap(pool, amount, t, 0)
  <1>1. out >= 0
    <2>1. out \in U64
      BY SwapLeaves
    <2> QED
      BY <2>1, CpmmAssumption, SMT DEF U64
  <1> QED
    BY <1>1 DEF Swap

LEMMA WithdrawFloor ==
  ASSUME NEW pool \in PoolState, NEW lp \in U64, NEW side \in Side, NEW floor, lp <= pool.l,
         NEW q \in Withdraw(pool, lp, side, floor)
  PROVE  q \in Withdraw(pool, lp, side, Nothing)
  <1>1. ASSUME NEW t \in Token
        PROVE  q.withdraw[t] >= Nothing[t]
    <2>1. q.withdraw[t] \in Nat
      BY WithdrawPays, PairFacts
    <2>2. Nothing[t] = 0
      BY DEF Nothing
    <2> QED
      BY <2>1, <2>2, SMT
  <1> QED
    BY <1>1 DEF Withdraw, AtLeast

LEMMA BalancedFloor ==
  ASSUME NEW pool, NEW offer, NEW minLp, NEW q \in DepositBalanced(pool, offer, minLp), q.lp >= 0
  PROVE  q \in DepositBalanced(pool, offer, 0)
  <1>1. CASE pool.l = 0
    BY <1>1 DEF DepositBalanced, FirstMint, DepositQuote
  <1>2. CASE pool.l # 0
    <2> DEFINE share(t) == (offer[t] * pool.l) \div pool.r[t]
               lp       == IF share("X") <= share("Y") THEN share("X") ELSE share("Y")
               take     == [t \in Token |-> AsU64((pool.r[t] * lp) \div pool.l)]
    <2>1. q \in LaterMint(pool, offer, minLp) /\ ~\E t \in Token : offer[t] = 0
      BY <1>2 DEF DepositBalanced
    <2>2. /\ q = DepositQuote(AsU64(lp), take, Nothing, Nothing)
          /\ \A t \in Token : pool.r[t] > 0
          /\ \A t \in Token : take[t] > 0
      BY <2>1, Zenon DEF LaterMint
    <2>3. q.lp = AsU64(lp)
      BY <2>2 DEF DepositQuote
    <2>4. q \in LaterMint(pool, offer, 0)
      <3> HIDE DEF lp, take
      <3>1. AsU64(lp) >= 0
        BY <2>3
      <3> QED
        BY <2>2, <3>1, Zenon DEF LaterMint, lp, take
    <2> QED
      BY <1>2, <2>1, <2>4 DEF DepositBalanced
  <1> QED
    BY <1>1, <1>2

LEMMA DepositFloor ==
  ASSUME NEW pool \in PoolState, NEW offer \in Offers(U64), NEW side, NEW minLp,
         NEW q \in Deposit(pool, offer, side, minLp)
  PROVE  q \in Deposit(pool, offer, side, 0)
  <1>1. q.lp >= 0
    <2>1. q.lp \in U64
      BY DepositBounds DEF DepositQuotes
    <2> QED
      BY <2>1, CpmmAssumption, SMT DEF U64
  <1>2. CASE side = "Balanced" /\ DOMAIN offer = Token
    BY <1>1, <1>2, BalancedFloor DEF Deposit
  <1>3. CASE ~(side = "Balanced" /\ DOMAIN offer = Token)
    <2> DEFINE amount == offer[side]
               half       == amount \div 2
               after(out) == New(Minus(Plus(pool.r, Just(side, half)), Just(Other(side), out)), pool.l, pool.fee)
               rest(out)  == [u \in Token |-> IF u = side THEN amount - half ELSE out]
               leg(b, out) == [b EXCEPT !.swapIn = Just(side, half), !.swapOut = Just(Other(side), out)]
    <2>1. q \in DepositSingle(pool, side, amount, minLp)
      BY <1>3 DEF Deposit
    <2> HIDE DEF amount
    <2>2. /\ amount > 1 /\ pool.l > 0 /\ pool.r[side] + half <= U64Max
          /\ q \in UNION {{leg(b, out) : b \in DepositBalanced(after(out), rest(out), minLp)} :
                          out \in {o \in SwapOut(pool, half, side) : o <= pool.r[Other(side)]}}
      BY <2>1, Zenon DEF DepositSingle
    <2>a. PICK out \in {o \in SwapOut(pool, half, side) : o <= pool.r[Other(side)]} :
            \E b \in DepositBalanced(after(out), rest(out), minLp) : q = leg(b, out)
      BY <2>2
    <2>3. PICK b \in DepositBalanced(after(out), rest(out), minLp) : q = leg(b, out)
      BY <2>a
    <2>4. b.lp = q.lp
      BY <2>3 DEF DepositBalanced, FirstMint, LaterMint, DepositQuote
    <2> HIDE DEF after, rest, leg
    <2>5. b \in DepositBalanced(after(out), rest(out), 0)
      BY <1>1, <2>3, <2>4, BalancedFloor
    <2>6. q \in UNION {{leg(c, o) : c \in DepositBalanced(after(o), rest(o), 0)} :
                          o \in {x \in SwapOut(pool, half, side) : x <= pool.r[Other(side)]}}
      BY <2>a, <2>3, <2>5
    <2>7. q \in DepositSingle(pool, side, amount, 0)
      BY <2>2, <2>6, Zenon DEF DepositSingle, after, rest, leg
    <2> QED
      BY <1>3, <2>7 DEF Deposit, amount
  <1> QED
    BY <1>2, <1>3

\* So the pool an instruction trades with makes a step of the abstract pool.
LEMMA SwapSeen ==
  ASSUME NEW s, Sound(s), NEW u \in Users, NEW p \in Pools,
         NEW amount \in U64, NEW side, NEW minOut,
         NEW n \in Swapped(s, u, p, amount, side, minOut)
  PROVE  /\ side \in Token /\ ~Abstract(s.pool[p]).locked
         /\ Abstract(n.pool[p]) \in Pool!AfterSwap(Abstract(s.pool[p]), amount, side, 0)
  <1> DEFINE a == Abstract(s.pool[p])
             after(out) == Minus(Plus(s.pool[p].r, Just(side, amount)), Just(Other(side), out))
  <1>1. /\ Usable(s, p) /\ side \in Token
        /\ \E out \in Swap(Snapshot(s, p), amount, side, minOut) :
             /\ s.pool[p].r[side] + amount <= U64Max
             /\ Became(s, n, u, p, after(out), 0)
    BY SwapResult
  <1>2. PICK out \in Swap(Snapshot(s, p), amount, side, minOut) :
             /\ s.pool[p].r[side] + amount <= U64Max
             /\ Became(s, n, u, p, after(out), 0)
    BY <1>1
  <1>3. out \in Swap(Snapshot(s, p), amount, side, 0)
    BY <1>1, <1>2, SnapshotFacts, SwapFloor
  <1>4. /\ a.r = s.pool[p].r /\ Pool!Snapshot(a) = Snapshot(s, p) /\ ~a.locked
    BY <1>1, AbstractOpen DEF Usable
  <1>5. Abstract(n.pool[p]) = [a EXCEPT !.r = after(out)]
    <2> DEFINE r == after(out)
    <2>1. Became(s, n, u, p, r, 0) /\ s.pool[p].open /\ 0 \in Int
      BY <1>1, <1>2 DEF Usable
    <2> HIDE DEF r
    <2>2. Abstract(n.pool[p]) = Refilled(a, r)
      BY <2>1, AbstractBecame
    <2> QED
      BY <2>2 DEF Refilled, r
  <1> HIDE DEF a
  <1>6. out \in Pool!Swap(Pool!Snapshot(a), amount, side, 0)
    BY <1>3, <1>4, SameSwap
  <1>7. after(out) = Pool!Minus(Pool!Plus(a.r, Pool!Just(side, amount)), Pool!Just(Pool!Other(side), out))
    BY <1>4, SameNumbers
  <1> QED
    BY <1>1, <1>2, <1>4, <1>5, <1>6, <1>7 DEF Pool!AfterSwap, a

LEMMA DepositSeen ==
  ASSUME NEW s, Sound(s), NEW u \in Users, NEW p \in Pools,
         NEW offer \in Offers(U64), NEW side, NEW minLp,
         NEW n \in Deposited(s, u, p, offer, side, minLp)
  PROVE  /\ ~Abstract(s.pool[p]).locked
         /\ Abstract(n.pool[p]) \in Pool!AfterDeposit(Abstract(s.pool[p]), offer, side, 0)
  <1> DEFINE a == Abstract(s.pool[p])
             b == Abstract(n.pool[p])
             after(q) == Plus(Minus(Plus(s.pool[p].r, q.swapIn), q.swapOut), q.deposit)
  <1>1. /\ Usable(s, p)
        /\ \E q \in Deposit(Snapshot(s, p), offer, side, minLp) :
             /\ q.lp \in U64 /\ s.pool[p].l + q.lp <= U64Max
             /\ after(q) \in Pair /\ Became(s, n, u, p, after(q), q.lp)
    BY DepositResult
  <1>2. PICK q \in Deposit(Snapshot(s, p), offer, side, minLp) :
             /\ q.lp \in U64 /\ s.pool[p].l + q.lp <= U64Max
             /\ after(q) \in Pair /\ Became(s, n, u, p, after(q), q.lp)
    BY <1>1
  <1>3. q \in Deposit(Snapshot(s, p), offer, side, 0)
    BY <1>2, SnapshotFacts, DepositFloor
  <1>4. /\ a.r = s.pool[p].r /\ a.l = s.pool[p].l /\ Pool!Snapshot(a) = Snapshot(s, p) /\ ~a.locked
    BY <1>1, AbstractOpen DEF Usable
  <1>5. q.lp \in Int
    BY <1>2, CpmmAssumption, SMT DEF U64
  <1>6. b = Traded(a, after(q), s.pool[p].l + q.lp)
    <2> DEFINE r == after(q)
    <2>1. Became(s, n, u, p, r, q.lp) /\ s.pool[p].open
      BY <1>1, <1>2 DEF Usable
    <2> HIDE DEF r
    <2>2. b = Traded(a, r, s.pool[p].l + q.lp)
      BY <1>5, <2>1, AbstractBecame
    <2> QED
      BY <2>2 DEF r
  <1>7. b.r = after(q) /\ b.l = s.pool[p].l + q.lp
    <2>1. DOMAIN a = {"r", "l", "fee", "locked", "owned"}
      BY DEF Abstract
    <2> HIDE DEF a, after
    <2> QED
      BY <1>6, <2>1 DEF Traded
  <1> HIDE DEF a, b
  <1>8. q \in Pool!Deposit(Pool!Snapshot(a), offer, side, 0)
    BY <1>3, <1>4, SameDeposit
  <1>9. after(q) = Pool!Plus(Pool!Minus(Pool!Plus(a.r, q.swapIn), q.swapOut), q.deposit)
    BY <1>4, SameNumbers
  <1>10. b = [a EXCEPT !.r = Pool!Plus(Pool!Minus(Pool!Plus(@, q.swapIn), q.swapOut), q.deposit), !.l = @ + q.lp]
    BY <1>4, <1>6, <1>9 DEF Traded
  <1>11. b.r \in Pool!Pair /\ b.l <= U64Max
    BY <1>2, <1>7, SameNumbers
  <1>12. b \in Pool!AfterDeposit(a, offer, side, 0)
    BY <1>8, <1>10, <1>11 DEF Pool!AfterDeposit
  <1> QED
    BY <1>4, <1>12 DEF a, b

LEMMA WithdrawSeen ==
  ASSUME NEW s, Sound(s), NEW u \in Users, NEW p \in Pools,
         NEW lp \in U64, NEW side \in Side, NEW floor,
         NEW n \in Withdrawn(s, u, p, lp, side, floor)
  PROVE  /\ ~Abstract(s.pool[p]).locked
         /\ Abstract(n.pool[p]) \in Pool!AfterWithdraw(Abstract(s.pool[p]), lp, side, Pool!Nothing)
  <1> DEFINE a == Abstract(s.pool[p])
             b == Abstract(n.pool[p])
             after(q) == Minus(Plus(Minus(s.pool[p].r, q.proRata), q.swapIn), q.swapOut)
  <1>1. /\ Usable(s, p) /\ lp <= s.pool[p].l
        /\ \E q \in Withdraw(Snapshot(s, p), lp, side, floor) :
             /\ AtLeast(s.pool[p].r, q.proRata) /\ Became(s, n, u, p, after(q), -lp)
    BY WithdrawResult
  <1>2. PICK q \in Withdraw(Snapshot(s, p), lp, side, floor) :
             /\ AtLeast(s.pool[p].r, q.proRata) /\ Became(s, n, u, p, after(q), -lp)
    BY <1>1
  <1>3. q \in Withdraw(Snapshot(s, p), lp, side, Nothing)
    BY <1>1, <1>2, SnapshotFacts, WithdrawFloor
  <1>4. /\ a.r = s.pool[p].r /\ a.l = s.pool[p].l /\ Pool!Snapshot(a) = Snapshot(s, p) /\ ~a.locked
    BY <1>1, AbstractOpen DEF Usable
  <1>5. -lp \in Int /\ s.pool[p].l + (-lp) = s.pool[p].l - lp
    <2>1. s.pool[p].l \in Nat
      BY SoundFacts
    <2> QED
      BY <2>1, CpmmAssumption, SMT DEF U64
  <1>6. b = Traded(a, after(q), s.pool[p].l - lp)
    <2> DEFINE r == after(q)
               d == -lp
    <2>1. Became(s, n, u, p, r, d) /\ s.pool[p].open /\ d \in Int /\ s.pool[p].l + d = s.pool[p].l - lp
      BY <1>1, <1>2, <1>5 DEF Usable
    <2> HIDE DEF r, d
    <2>2. b = Traded(a, r, s.pool[p].l + d)
      BY <2>1, AbstractBecame
    <2> QED
      BY <2>1, <2>2 DEF r
  <1> HIDE DEF a, b
  <1>7. q \in Pool!Withdraw(Pool!Snapshot(a), lp, side, Pool!Nothing) /\ Pool!AtLeast(a.r, q.proRata)
    BY <1>2, <1>3, <1>4, SameWithdraw, SameNumbers
  <1>8. after(q) = Pool!Minus(Pool!Plus(Pool!Minus(a.r, q.proRata), q.swapIn), q.swapOut)
    BY <1>4, SameNumbers
  <1>9. b = [a EXCEPT !.r = Pool!Minus(Pool!Plus(Pool!Minus(@, q.proRata), q.swapIn), q.swapOut), !.l = @ - lp]
    BY <1>4, <1>6, <1>8 DEF Traded
  <1>10. b \in Pool!AfterWithdraw(a, lp, side, Pool!Nothing)
    BY <1>1, <1>4, <1>7, <1>9 DEF Pool!AfterWithdraw
  <1> QED
    BY <1>4, <1>10 DEF a, b

LEMMA WithdrawAfterBurnSeen ==
  ASSUME NEW s, Sound(s), NEW ix, NEW u \in Users, NEW p \in Pools,
         NEW lp \in U64, NEW side \in Side, NEW floor,
         NEW n \in WithdrawnAfterBurn(s, ix, u, p, lp, side, floor)
  PROVE  /\ ~Abstract(s.pool[p]).locked /\ Abstract(s.pool[p]).l + lp <= U64Max
         /\ Abstract(n.pool[p]) \in Pool!AfterWithdraw([Abstract(s.pool[p]) EXCEPT !.l = @ + lp],
                                                       lp, side, Pool!Nothing)
  <1> DEFINE a == Abstract(s.pool[p])
             b == Abstract(n.pool[p])
             c == [a EXCEPT !.l = a.l + lp]
             l == s.pool[p].l + lp
             pool == New(s.pool[p].r, l, s.pool[p].fee)
             after(q) == Minus(Plus(Minus(s.pool[p].r, q.proRata), q.swapIn), q.swapOut)
  <1>1. /\ Usable(s, p) /\ l <= U64Max
        /\ \E q \in Withdraw(pool, lp, side, floor) :
             /\ AtLeast(s.pool[p].r, q.proRata) /\ Became(s, n, u, p, after(q), 0)
    BY WithdrawAfterBurnResult
  <1>2. PICK q \in Withdraw(pool, lp, side, floor) :
             /\ AtLeast(s.pool[p].r, q.proRata) /\ Became(s, n, u, p, after(q), 0)
    BY <1>1
  <1>3. s.pool[p].l \in Nat /\ l \in U64 /\ lp <= l /\ l - lp = s.pool[p].l
    <2>1. s.pool[p].l \in Nat
      BY SoundFacts
    <2> QED
      BY <1>1, <2>1, CpmmAssumption, SMT DEF U64
  <1>4. /\ a.r = s.pool[p].r /\ a.l = s.pool[p].l /\ ~a.locked
        /\ Pool!Snapshot(c) = pool
    BY <1>1, AbstractOpen DEF Usable
  <1>5. pool \in PoolState /\ pool.l = l
    BY <1>3, SnapshotFacts DEF Snapshot, New, PoolState
  <1>6. b = [a EXCEPT !.r = after(q)]
    <2> DEFINE r == after(q)
    <2>1. Became(s, n, u, p, r, 0) /\ s.pool[p].open /\ 0 \in Int
      BY <1>1, <1>2 DEF Usable
    <2> HIDE DEF r
    <2>2. b = Refilled(a, r)
      BY <2>1, AbstractBecame
    <2> QED
      BY <2>2 DEF Refilled, r
  <1>7. /\ DOMAIN a = {"r", "l", "fee", "locked", "owned"}
        /\ c.r = a.r /\ c.l = l
    <2>1. DOMAIN a = {"r", "l", "fee", "locked", "owned"}
      BY DEF Abstract
    <2> HIDE DEF a
    <2> QED
      BY <1>4, <2>1
  <1> HIDE DEF pool
  <1>8. q \in Withdraw(pool, lp, side, Nothing)
    BY <1>2, <1>3, <1>5, WithdrawFloor
  <1>9. [a EXCEPT !.r = after(q)] = [c EXCEPT !.r = after(q), !.l = a.l]
    <2> HIDE DEF a, after
    <2> QED
      BY <1>7
  <1> HIDE DEF a, b, c
  <1>10. q \in Pool!Withdraw(Pool!Snapshot(c), lp, side, Pool!Nothing) /\ Pool!AtLeast(c.r, q.proRata)
    BY <1>2, <1>4, <1>7, <1>8, SameWithdraw, SameNumbers
  <1>11. after(q) = Pool!Minus(Pool!Plus(Pool!Minus(c.r, q.proRata), q.swapIn), q.swapOut)
    BY <1>4, <1>7, SameNumbers
  <1>12. b = [c EXCEPT !.r = Pool!Minus(Pool!Plus(Pool!Minus(@, q.proRata), q.swapIn), q.swapOut), !.l = @ - lp]
    BY <1>3, <1>4, <1>6, <1>7, <1>9, <1>11
  <1>13. b \in Pool!AfterWithdraw(c, lp, side, Pool!Nothing)
    BY <1>3, <1>7, <1>10, <1>12 DEF Pool!AfterWithdraw
  <1> QED
    BY <1>1, <1>4, <1>13 DEF a, b, c

-----------------------------------------------------------------------------
(* The invariant, and the refinement                                       *)

\* Both sets of accounts are sound, and a burn the next instruction may look at
\* was in a pool that exists.
Inv ==
  /\ Sound(ledger) /\ Sound(work)
  /\ prev \in Instruction
  /\ executed \in 0 .. MaxIx
  /\ \A p \in Pools : prev.program = "amm" /\ prev.burn /\ prev.pool = p => work.pool[p].open

LEMMA Initially == Init => Inv /\ Pool!TxInit
<1> SUFFICES ASSUME Init
             PROVE  Inv /\ Pool!TxInit
  OBVIOUS
<1>1. /\ ledger = [pool   |-> [p \in Pools |-> Unopened],
                   wallet |-> [u \in Users |-> [t \in Token |-> Endowment]],
                   lp     |-> [u \in Users |-> [p \in Pools |-> 0]]]
      /\ work = ledger /\ prev = NoInstruction /\ executed = 0
  BY DEF Init, StartsIdle
<1>2. 0 \in U64 /\ Endowment \in U64 /\ Nothing \in Pair
  BY AmmAssumption, CpmmAssumption, PairFacts, SMT DEF U64
<1>3. Unopened \in PoolAccounts
  BY <1>2 DEF Unopened, PoolAccounts
<1>4. ledger \in Accounts
  BY <1>1, <1>2, <1>3 DEF Accounts, Pair
<1>5. ASSUME NEW p \in Pools
      PROVE  SoundAt(ledger, p)
  <2>1. Held(ledger, p) = [u \in Users |-> 0] /\ ledger.pool[p] = Unopened
    BY <1>1 DEF Held
  <2>2. Layout([u \in Users |-> 0], 0)
    <3> DEFINE z == [u \in Users |-> 0]
    <3>1. /\ z \in [Users -> Nat]
          /\ \A u \in Users : z[u] + z[u] <= 0
          /\ \A u, v \in Users : u # v => Apart(z, z, u, v)
      BY SMT DEF Apart
    <3> QED
      BY <3>1 DEF Layout
  <2> QED
    BY <2>1, <2>2 DEF SoundAt, Unopened
<1>6. Inv
  <2>1. prev \in Instruction /\ prev.program # "amm"
    BY <1>1 DEF Instruction, NoInstruction
  <2>2. executed \in 0 .. MaxIx
    BY <1>1, TransactionsAssumption
  <2> QED
    BY <1>1, <1>4, <1>5, <2>1, <2>2 DEF Inv, Sound
<1>7. Pool!TxInit
  <2>1. ledger.pool[P] = Unopened /\ work.pool[P] = Unopened /\ prev.program # "amm"
    BY <1>1, PoolAssumption DEF NoInstruction
  <2>2. ~Unopened.open
    BY DEF Unopened
  <2> QED
    BY <2>1, <2>2, SameNumbers DEF Pool!TxInit, Pool!Unopened, Abstract, Burned
<1> QED
  BY <1>6, <1>7

\* What an instruction does besides its work, whoever calls it.
LEMMA Executes ==
  ASSUME NEW results, NEW ix, Execute(results, ix)
  PROVE  /\ work' \in results
         /\ executed' = executed + 1 /\ executed < MaxIx
         /\ ledger' = ledger
         /\ prev' = ix \/ (Calls /\ prev' = prev)
<1>1. CASE ExecuteOwn(results, ix)
  <2>1. Work(results) /\ prev' = ix
    BY <1>1 DEF ExecuteOwn
  <2> QED
    BY <2>1 DEF Work
<1>2. CASE ExecuteCalled(results)
  <2>1. Work(results) /\ Calls /\ UNCHANGED prev
    BY <1>2 DEF ExecuteCalled
  <2> QED
    BY <2>1 DEF Work
<1> QED
  BY <1>1, <1>2 DEF Execute

\* An instruction that is not about P.
LEMMA OnAnotherPool ==
  ASSUME Inv, work'.pool[P] = work.pool[P], Pool!Before(0), UNCHANGED ledger
  PROVE  [Pool!TxNext]_(Pool!txVars)
  <1>1. work.pool[P] \in PoolAccounts /\ work.pool[P].l \in Nat
    BY PoolAssumption, CpmmAssumption, SMT DEF Inv, Sound, Accounts, PoolAccounts, U64
  <1>2. CASE work.pool[P].open
    <2>1. Pool!BurnElsewhere(0)
      BY <1>1, <1>2, SMT DEF Pool!BurnElsewhere, Abstract
    <2>2. 0 \in Pool!U64
      BY CpmmAssumption, SMT DEF Pool!U64
    <2> QED
      BY <1>2, <2>1, <2>2 DEF Pool!TxNext, Pool!Step, Pool!Next
  <1>3. CASE ~work.pool[P].open
    <2>1. Burned = 0
      BY <1>3, PoolAssumption DEF Inv, Burned
    <2>2. Burned' = Burned
      BY <2>1 DEF Pool!Before
    <2> QED
      BY <2>2 DEF Pool!txVars
  <1> QED
    BY <1>2, <1>3

\* An instruction that is.
LEMMA OnThePool ==
  ASSUME work.pool[P].open, work'.pool[P].open = work.pool[P].open, UNCHANGED ledger, Pool!Next
  PROVE  [Pool!TxNext]_(Pool!txVars)
  BY DEF Pool!TxNext, Pool!Step

LEMMA ExecuteInv ==
  ASSUME Inv, NEW results, NEW ix \in Instruction, Execute(results, ix), Sound(work'),
         \A p \in Pools : work.pool[p].open => work'.pool[p].open,
         ix.program = "amm" /\ ix.burn => \A p \in Pools : ix.pool = p => work'.pool[p].open
  PROVE  Inv'
  <1>0. /\ executed' = executed + 1 /\ executed < MaxIx /\ ledger' = ledger
        /\ prev' = ix \/ prev' = prev
    BY Executes
  <1>1. executed' \in 0 .. MaxIx
    BY <1>0, TransactionsAssumption, SMT DEF Inv
  <1>2. CASE prev' = ix
    BY <1>0, <1>1, <1>2 DEF Inv
  <1>3. CASE prev' = prev
    BY <1>0, <1>1, <1>3 DEF Inv
  <1> QED
    BY <1>0, <1>2, <1>3

\* Instructions are recorded as such, and only a burn_lp of P counts for P.
LEMMA RecordFacts ==
  /\ \A program \in {"amm", "other"} :
       /\ NotABurn(program) \in Instruction
       /\ ~NotABurn(program).burn
  /\ \A program \in {"amm", "other"}, u \in Users, p \in Pools, n \in U64, exact \in BOOLEAN :
       /\ Burn(program, u, p, n, exact) \in Instruction
       /\ Burn(program, u, p, n, exact).program = program
       /\ Burn(program, u, p, n, exact).pool = p
       /\ Burn(program, u, p, n, exact).amount = n
       /\ Burn(program, u, p, n, exact).exact = exact
       /\ Burn(program, u, p, n, exact).burn
  BY CpmmAssumption, SMT DEF NotABurn, Burn, Instruction, U64

\* What P remembers after an instruction: a burn_lp of P, or nothing, unless another
\* program called it.
LEMMA SeenNext ==
  ASSUME NEW results, NEW ix, Execute(results, ix)
  PROVE  IF ix.program = "amm" /\ ix.burn /\ ix.exact /\ ix.pool = P
         THEN Pool!Before(ix.amount)
         ELSE Pool!Before(0)
  <1>1. prev' = ix \/ (Calls /\ prev' = prev)
    BY Executes
  <1>2. CASE Calls /\ prev' = prev
    <2>1. Burned' = Burned
      BY <1>2 DEF Burned
    <2> QED
      BY <1>2, <2>1 DEF Pool!Before
  <1>3. CASE prev' = ix
    BY <1>3 DEF Burned, Pool!Before
  <1> QED
    BY <1>1, <1>2, <1>3

LEMMA NoBurnSeen ==
  ASSUME NEW results, NEW program \in {"amm", "other"}, Execute(results, NotABurn(program))
  PROVE  Pool!Before(0)
  <1> DEFINE ix == NotABurn(program)
  <1>1. ~ix.burn /\ Execute(results, ix)
    BY RecordFacts
  <1> HIDE DEF ix
  <1> QED
    BY <1>1, SeenNext

Preserves == Inv' /\ [Pool!TxNext]_(Pool!txVars)

\* An instruction that trades in pool p, or burns its LP.
LEMMA ChangeStep ==
  ASSUME Inv, NEW u \in Users, NEW p \in Pools, NEW results, NEW ix \in Instruction,
         Execute(results, ix), ix.program = "amm" /\ ix.burn => ix.pool = p,
         NEW r, NEW d, Became(work, work', u, p, r, d),
         work.pool[p].open, p = P => Pool!Next
  PROVE  Preserves
  <1>0. Sound(work)
    BY DEF Inv
  <1>1. /\ Sound(work')
        /\ SameElsewhere(work, work', p)
        /\ work'.pool[p].open = work.pool[p].open
    BY <1>0, BecameFacts
  <1>2. UNCHANGED ledger
    BY Executes
  <1>3. Inv'
    <2>1. \A q \in Pools : work.pool[q].open => work'.pool[q].open
      BY <1>1 DEF SameElsewhere
    <2> QED
      BY <1>1, <2>1, ExecuteInv
  <1>4. CASE p = P
    BY <1>1, <1>2, <1>3, <1>4, OnThePool DEF Preserves
  <1>5. CASE p # P
    <2>1. work'.pool[P] = work.pool[P]
      BY <1>1, <1>5, PoolAssumption DEF SameElsewhere
    <2>2. Pool!Before(0)
      BY <1>5, SeenNext
    <2> QED
      BY <1>2, <1>3, <2>1, <2>2, OnAnotherPool DEF Preserves
  <1> QED
    BY <1>4, <1>5

LEMMA TradeStep ==
  ASSUME Inv, NEW u \in Users, NEW p \in Pools, NEW results, NEW program \in {"amm", "other"},
         Execute(results, NotABurn(program)),
         NEW r, NEW d, Became(work, work', u, p, r, d),
         work.pool[p].open, p = P => Pool!Next
  PROVE  Preserves
  <1> DEFINE ix == NotABurn(program)
  <1>1. ix \in Instruction /\ ~ix.burn /\ Execute(results, ix)
    BY RecordFacts
  <1> HIDE DEF ix
  <1> QED
    BY <1>1, ChangeStep

LEMMA SwapStep ==
  ASSUME Inv, NEW u \in Users, NEW p \in Pools, NEW n \in Amounts, NEW side \in Side, NEW min,
         SwapIx(u, p, n, side, min)
  PROVE  Preserves
  <1>1. /\ work' \in Swapped(work, u, p, n, side, min) /\ n \in U64
        /\ Sound(work) /\ Pool!Before(0)
    BY AmmAssumption, Executes, NoBurnSeen DEF SwapIx, Inv
  <1>2. /\ Usable(work, p) /\ side \in Token
        /\ \E r : Became(work, work', u, p, r, 0)
    BY <1>1, SwapResult
  <1>3. PICK r : Became(work, work', u, p, r, 0)
    BY <1>2
  <1>4. ASSUME p = P
        PROVE  Pool!Next
    <2>1. /\ ~Abstract(work.pool[P]).locked
          /\ Abstract(work'.pool[P]) \in Pool!AfterSwap(Abstract(work.pool[P]), n, side, 0)
      BY <1>1, <1>4, SwapSeen
    <2>3. Pool!DoSwap(n, side)
      BY <1>1, <2>1 DEF Pool!DoSwap
    <2>4. n \in Pool!U64 /\ side \in Pool!Token
      BY <1>1, <1>2, SameNumbers
    <2> QED
      BY <2>3, <2>4 DEF Pool!Next
  <1> DEFINE results == Swapped(work, u, p, n, side, min)
  <1>5. Execute(results, NotABurn("amm")) /\ work.pool[p].open
    BY <1>2 DEF SwapIx, Usable
  <1> HIDE DEF results
  <1> QED
    BY <1>3, <1>4, <1>5, TradeStep

LEMMA DepositStep ==
  ASSUME Inv, NEW u \in Users, NEW p \in Pools, NEW offer \in Offers(Amounts), NEW side \in Side,
         NEW min, DepositIx(u, p, offer, side, min)
  PROVE  Preserves
  <1>1. /\ work' \in Deposited(work, u, p, offer, side, min) /\ offer \in Offers(U64)
        /\ Sound(work) /\ Pool!Before(0)
    BY AmmAssumption, Executes, NoBurnSeen DEF DepositIx, Inv, Offers
  <1>2. /\ Usable(work, p)
        /\ \E r, d : Became(work, work', u, p, r, d)
    BY <1>1, DepositResult
  <1>3. PICK r, d : Became(work, work', u, p, r, d)
    BY <1>2
  <1>4. ASSUME p = P
        PROVE  Pool!Next
    <2>1. /\ ~Abstract(work.pool[P]).locked
          /\ Abstract(work'.pool[P]) \in Pool!AfterDeposit(Abstract(work.pool[P]), offer, side, 0)
      BY <1>1, <1>4, DepositSeen
    <2>3. Pool!DoDeposit(offer, side)
      BY <1>1, <2>1 DEF Pool!DoDeposit
    <2>4. offer \in Pool!Offers(Pool!U64) /\ side \in Pool!Side
      BY <1>1, SameNumbers DEF Pool!Offers, Offers
    <2> QED
      BY <2>3, <2>4 DEF Pool!Next
  <1> DEFINE results == Deposited(work, u, p, offer, side, min)
  <1>5. Execute(results, NotABurn("amm")) /\ work.pool[p].open
    BY <1>2 DEF DepositIx, Usable
  <1> HIDE DEF results
  <1> QED
    BY <1>3, <1>4, <1>5, TradeStep

LEMMA WithdrawStep ==
  ASSUME Inv, NEW u \in Users, NEW p \in Pools, NEW n \in Amounts, NEW side \in Side, NEW floor,
         WithdrawIx(u, p, n, side, floor)
  PROVE  Preserves
  <1>1. /\ work' \in Withdrawn(work, u, p, n, side, floor) /\ n \in U64
        /\ Sound(work) /\ Pool!Before(0)
    BY AmmAssumption, Executes, NoBurnSeen DEF WithdrawIx, Inv
  <1>2. /\ Usable(work, p)
        /\ \E r, d : Became(work, work', u, p, r, d)
    BY <1>1, WithdrawResult
  <1>3. PICK r, d : Became(work, work', u, p, r, d)
    BY <1>2
  <1>4. ASSUME p = P
        PROVE  Pool!Next
    <2>1. /\ ~Abstract(work.pool[P]).locked
          /\ Abstract(work'.pool[P])
               \in Pool!AfterWithdraw(Abstract(work.pool[P]), n, side, Pool!Nothing)
      BY <1>1, <1>4, WithdrawSeen
    <2>3. Pool!DoWithdraw(n, side)
      BY <1>1, <2>1 DEF Pool!DoWithdraw
    <2>4. n \in Pool!U64 /\ side \in Pool!Side
      BY <1>1, SameNumbers
    <2> QED
      BY <2>3, <2>4 DEF Pool!Next
  <1> DEFINE results == Withdrawn(work, u, p, n, side, floor)
  <1>5. Execute(results, NotABurn("amm")) /\ work.pool[p].open
    BY <1>2 DEF WithdrawIx, Usable
  <1> HIDE DEF results
  <1> QED
    BY <1>3, <1>4, <1>5, TradeStep

\* The evidence introspection accepts is the abstract pool's memory of a burn.
LEMMA WithdrawWStep ==
  ASSUME Inv, NEW u \in Users, NEW p \in Pools, NEW n \in Amounts, NEW side \in Side, NEW floor,
         WithdrawWIx(u, p, n, side, floor)
  PROVE  Preserves
  <1>1. /\ work' \in WithdrawnAfterBurn(work, prev, u, p, n, side, floor) /\ n \in U64
        /\ Sound(work) /\ Pool!Before(0)
    BY AmmAssumption, Executes, NoBurnSeen DEF WithdrawWIx, Inv
  <1>2. /\ Usable(work, p) /\ ConfirmBurn(prev, u, p, n)
        /\ \E r : Became(work, work', u, p, r, 0)
    BY <1>1, WithdrawAfterBurnResult
  <1>3. PICK r : Became(work, work', u, p, r, 0)
    BY <1>2
  <1>4. ASSUME p = P
        PROVE  Pool!Next
    <2>1. /\ ~Abstract(work.pool[P]).locked
          /\ Abstract(work.pool[P]).l + n <= U64Max
          /\ Abstract(work'.pool[P])
               \in Pool!AfterWithdraw([Abstract(work.pool[P]) EXCEPT !.l = @ + n], n, side, Pool!Nothing)
      BY <1>1, <1>4, WithdrawAfterBurnSeen
    <2>3. n = Burned
      BY <1>2, <1>4 DEF ConfirmBurn, Burned
    <2>4. Pool!WithdrawBurned(n, side)
      BY <1>1, <2>1, <2>3 DEF Pool!WithdrawBurned
    <2>5. n \in Pool!U64 /\ side \in Pool!Side
      BY <1>1, SameNumbers
    <2> QED
      BY <2>4, <2>5 DEF Pool!Next
  <1> DEFINE results == WithdrawnAfterBurn(work, prev, u, p, n, side, floor)
  <1>5. Execute(results, NotABurn("amm")) /\ work.pool[p].open
    BY <1>2 DEF WithdrawWIx, Usable
  <1> HIDE DEF results
  <1> QED
    BY <1>3, <1>4, <1>5, TradeStep

LEMMA DonateStep ==
  ASSUME Inv, NEW u \in Users, NEW p \in Pools, NEW t \in Token, NEW n \in Amounts,
         Donate(u, p, t, n)
  PROVE  Preserves
  <1> DEFINE results == IF work.pool[p].open
                        THEN {Settle(work, u, p, f) : f \in Pay({FundsOf(work, u, p)}, Just(t, n))}
                        ELSE {}
             after == Plus(work.pool[p].r, Just(t, n))
  <1>1. Execute(results, NotABurn("other")) /\ Sound(work) /\ n \in U64
    BY AmmAssumption DEF Donate, Inv
  <1>2. work' \in results /\ Pool!Before(0)
    BY <1>1, Executes, NoBurnSeen
  <1>3. /\ work.pool[p].open
        /\ \E f \in Pay({FundsOf(work, u, p)}, Just(t, n)) : work' = Settle(work, u, p, f)
    BY <1>2
  <1>4. Became(work, work', u, p, after, 0) /\ after \in Pair
    BY <1>1, <1>3, DonateResult
  <1>5. ASSUME p = P
        PROVE  Pool!Next
    <2> DEFINE a == Abstract(work.pool[P])
    <2>1. a.r = work.pool[P].r /\ DOMAIN a = {"r", "l", "fee", "locked", "owned"}
      BY <1>3, <1>5 DEF Abstract
    <2>2. Abstract(work'.pool[P]) = Refilled(a, after)
      <3> HIDE DEF after
      <3> QED
        BY <1>1, <1>3, <1>4, <1>5, AbstractBecame
    <2>3. work.pool[P].r \in Pair /\ work.pool[P].r[t] \in U64
      BY <1>1, <1>5, SoundFacts, PairFacts
    <2>4. after = [work.pool[P].r EXCEPT ![t] = work.pool[P].r[t] + n] /\ after[t] = work.pool[P].r[t] + n
      <3>1. ASSUME NEW v \in Token
            PROVE  after[v] = IF v = t THEN work.pool[P].r[t] + n ELSE work.pool[P].r[v]
        <4>1. after[v] = work.pool[P].r[v] + Just(t, n)[v] /\ Just(t, n)[v] = IF v = t THEN n ELSE 0
          BY <1>5, Zenon DEF Plus, Just
        <4>2. work.pool[P].r[v] \in Nat
          BY <2>3, PairFacts
        <4> QED
          BY <4>1, <4>2, SMT
      <3>2. after \in [Token -> U64] /\ work.pool[P].r \in [Token -> U64]
        BY <1>4, <2>3 DEF Pair
      <3> HIDE DEF after
      <3> QED
        BY <3>1, <3>2
    <2>5. after[t] <= U64Max
      <3>1. after[t] \in U64
        BY <1>4, PairFacts
      <3> QED
        BY <3>1, CpmmAssumption, SMT DEF U64
    <2>7. Abstract(work'.pool[P]) = [a EXCEPT !.r[t] = @ + n]
      <3> HIDE DEF a, after
      <3> QED
        BY <2>1, <2>2, <2>4 DEF Refilled
    <2>8. Pool!Donate(t, n)
      BY <1>2, <2>1, <2>4, <2>5, <2>7 DEF Pool!Donate
    <2>9. n \in Pool!U64 /\ t \in Pool!Token
      BY <1>1, SameNumbers
    <2> QED
      BY <2>8, <2>9 DEF Pool!Next
  <1> HIDE DEF results, after
  <1> QED
    BY <1>1, <1>3, <1>4, <1>5, TradeStep

\* A burn in P is remembered by the abstract pool if introspection may accept it.
LEMMA BurnSeen ==
  ASSUME NEW s, Sound(s), NEW u \in Users, NEW p \in Pools, NEW m \in U64,
         NEW n \in BurnTokens(s, u, p, m), s.pool[p].open
  PROVE  /\ m <= Abstract(s.pool[p]).l
         /\ Abstract(n.pool[p]) = Reissued(Abstract(s.pool[p]), Abstract(s.pool[p]).l - m)
  <1> DEFINE r == s.pool[p].r
             d == -m
  <1>1. /\ Became(s, n, u, p, r, d) /\ m <= s.pool[p].l
    BY BurnResult
  <1>2. d \in Int /\ s.pool[p].l + d = s.pool[p].l - m
    <2>1. s.pool[p].l \in Nat
      BY SoundFacts
    <2> QED
      BY <2>1, CpmmAssumption, SMT DEF U64
  <1> HIDE DEF r, d
  <1>3. r = s.pool[p].r => Abstract(n.pool[p]) = Reissued(Abstract(s.pool[p]), s.pool[p].l + d)
    BY <1>1, <1>2, AbstractBecame
  <1>4. Abstract(s.pool[p]).l = s.pool[p].l
    BY DEF Abstract
  <1> QED
    BY <1>1, <1>2, <1>3, <1>4 DEF r

LEMMA BurnLpStep ==
  ASSUME Inv, NEW u \in Users, NEW p \in Pools, NEW n \in Amounts, NEW exact \in BOOLEAN,
         BurnLpIx(u, p, n, exact)
  PROVE  Preserves
  <1> DEFINE ix == Burn("amm", u, p, n, exact)
             results == LpBurned(work, u, p, n)
  <1>1. Execute(results, ix) /\ Sound(work) /\ n \in U64
    BY AmmAssumption DEF BurnLpIx, Inv
  <1>2. work' \in results
    BY <1>1, Executes
  <1>3. Usable(work, p) /\ work' \in BurnTokens(work, u, p, n)
    BY <1>2 DEF LpBurned
  <1>4. /\ ix \in Instruction /\ ix.program = "amm" /\ ix.burn
        /\ ix.pool = p /\ ix.amount = n /\ ix.exact = exact
    BY <1>1, RecordFacts
  <1>5. \E r, d : Became(work, work', u, p, r, d)
    BY <1>1, <1>3, BurnResult
  <1>6. PICK r, d : Became(work, work', u, p, r, d)
    BY <1>5
  <1> HIDE DEF ix, results
  <1>7. ASSUME p = P
        PROVE  Pool!Next
    <2> DEFINE a == Abstract(work.pool[P])
    <2>1. n <= a.l /\ Abstract(work'.pool[P]) = Reissued(a, a.l - n)
      BY <1>1, <1>3, <1>7, BurnSeen DEF Usable
    <2>2. ~a.locked
      BY <1>3, <1>7 DEF Usable, Abstract
    <2>3. n \in Pool!U64
      BY <1>1, SameNumbers
    <2>4. CASE exact
      <3>1. Pool!Before(n)
        BY <1>1, <1>4, <1>7, <2>4, SeenNext
      <3>2. Pool!BurnLp(n)
        BY <2>1, <2>2, <3>1 DEF Pool!BurnLp, Reissued
      <3> QED
        BY <2>3, <3>2 DEF Pool!Next
    <2>5. CASE ~exact
      <3>1. Pool!Before(0)
        BY <1>1, <1>4, <2>5, SeenNext
      <3>2. Pool!BurnElsewhere(n)
        BY <2>1, <3>1 DEF Pool!BurnElsewhere, Reissued
      <3> QED
        BY <2>3, <3>2 DEF Pool!Next
    <2> QED
      BY <2>4, <2>5
  <1>8. work.pool[p].open
    BY <1>3 DEF Usable
  <1> QED
    BY <1>1, <1>4, <1>6, <1>7, <1>8, ChangeStep

\* A pool that does not exist has no LP, so none of it can be burned.
LEMMA TokenBurnStep ==
  ASSUME Inv, NEW u \in Users, NEW p \in Pools, NEW n \in Amounts, TokenBurn(u, p, n)
  PROVE  Preserves
  <1>1. /\ work' \in BurnTokens(work, u, p, n) /\ n \in U64
        /\ Sound(work) /\ UNCHANGED ledger
    BY AmmAssumption, Executes DEF TokenBurn, Inv
  <1> DEFINE r == work.pool[p].r
             d == -n
             results == BurnTokens(work, u, p, n)
  <1>2. Became(work, work', u, p, r, d) /\ n <= work.pool[p].l
    BY <1>1, BurnResult
  <1>3. Execute(results, NotABurn("other"))
    BY DEF TokenBurn
  <1>4. Pool!Before(0)
    BY <1>3, NoBurnSeen
  <1> HIDE DEF results
  <1>5. CASE work.pool[p].open
    <2>1. ASSUME p = P
          PROVE  Pool!Next
      <3> DEFINE a == Abstract(work.pool[P])
      <3>1. n <= a.l /\ Abstract(work'.pool[P]) = Reissued(a, a.l - n)
        BY <1>1, <1>5, <2>1, BurnSeen
      <3>2. Pool!BurnElsewhere(n)
        BY <1>4, <3>1 DEF Pool!BurnElsewhere, Reissued
      <3>3. n \in Pool!U64
        BY <1>1, SameNumbers
      <3> QED
        BY <3>2, <3>3 DEF Pool!Next
    <2> HIDE DEF r, d
    <2> QED
      BY <1>2, <1>3, <1>5, <2>1, TradeStep
  <1>6. CASE ~work.pool[p].open
    <2>1. /\ work.pool[p].l = 0 /\ work.pool[p] \in PoolAccounts
      BY <1>1, <1>6, SoundFacts DEF SoundAt
    <2>2. work.pool[p].l + d = work.pool[p].l
      BY <1>1, <1>2, <2>1, CpmmAssumption, SMT DEF U64
    <2>3. Traded(work.pool[p], r, work.pool[p].l) = work.pool[p]
      BY <2>1 DEF Traded, PoolAccounts
    <2> HIDE DEF r, d
    <2>4. /\ Sound(work')
          /\ work'.pool[p] = Traded(work.pool[p], r, work.pool[p].l + d)
          /\ SameElsewhere(work, work', p)
      BY <1>1, <1>2, BecameFacts
    <2>5. work'.pool[P] = work.pool[P]
      BY <2>2, <2>3, <2>4, PoolAssumption DEF SameElsewhere
    <2>6. Inv'
      <3> DEFINE ix == NotABurn("other")
      <3>1. ix \in Instruction /\ ~ix.burn /\ Execute(results, ix)
        BY <1>3, RecordFacts
      <3> HIDE DEF ix
      <3>2. \A q \in Pools : work.pool[q].open => work'.pool[q].open
        BY <1>6, <2>4 DEF SameElsewhere
      <3> QED
        BY <2>4, <3>1, <3>2, ExecuteInv
    <2> QED
      BY <1>1, <1>4, <2>5, <2>6, OnAnotherPool DEF Preserves
  <1> QED
    BY <1>5, <1>6

LEMMA LookAlikeStep ==
  ASSUME Inv, NEW u \in Users, NEW p \in Pools, NEW n \in Amounts, LookAlike(u, p, n)
  PROVE  Preserves
  <1> DEFINE ix == Burn("other", u, p, n, TRUE)
  <1>1. ix \in Instruction /\ ix.program = "other"
    <2>1. n \in U64
      BY AmmAssumption
    <2>2. \A exact \in BOOLEAN : /\ Burn("other", u, p, n, exact) \in Instruction
                                 /\ Burn("other", u, p, n, exact).program = "other"
      BY <2>1, RecordFacts
    <2> QED
      BY <2>2, Zenon
  <1>2. Execute({work}, ix)
    BY DEF LookAlike
  <1> HIDE DEF ix
  <1>3. work' = work /\ UNCHANGED ledger
    BY <1>2, Executes
  <1>4. Sound(work')
    BY <1>3 DEF Inv
  <1>5. Inv'
    BY <1>1, <1>2, <1>3, <1>4, ExecuteInv
  <1>6. work'.pool[P] = work.pool[P] /\ Pool!Before(0)
    BY <1>1, <1>2, <1>3, SeenNext
  <1> QED
    BY <1>3, <1>5, <1>6, OnAnotherPool DEF Preserves

LEMMA InitializeStep ==
  ASSUME Inv, NEW p \in Pools, NEW fee \in Fees, NEW auth \in Authorities,
         InitializeIx(p, fee, auth)
  PROVE  Preserves
  <1> DEFINE ix == NotABurn("amm")
             results == Initialized(work, p, fee, auth)
             c == work.pool[p]
             a == [c EXCEPT !.open = TRUE, !.fee = fee, !.locked = FALSE, !.auth = auth]
  <1>1. /\ Execute(results, ix) /\ Sound(work)
        /\ ix \in Instruction /\ ~ix.burn
    BY RecordFacts DEF InitializeIx, Inv
  <1> HIDE DEF ix
  <1>2. work' \in results /\ UNCHANGED ledger
    BY <1>1, Executes
  <1>3. ~c.open /\ work' = [work EXCEPT !.pool[p] = a]
    BY <1>2 DEF Initialized
  <1>4. /\ work.pool \in [Pools -> PoolAccounts] /\ c \in PoolAccounts
        /\ c.r = Nothing /\ c.l = 0
    BY <1>1, <1>3 DEF Sound, SoundAt, Accounts
  <1> HIDE DEF c, results
  <1>5. /\ a.open /\ a.r = Nothing /\ a.l = 0
        /\ a.fee = fee /\ a.locked = FALSE /\ a.auth = auth
    BY <1>4 DEF PoolAccounts
  <1>6. Sound(WithPool(work, p, a)) /\ WithPool(work, p, a).pool = PoolSet(work.pool, p, a)
    <2>1. a = Configured(work.pool[p], fee, FALSE, auth) /\ FALSE \in BOOLEAN
      BY DEF Configured, c
    <2> HIDE DEF a
    <2> QED
      BY <1>1, <2>1, ConfigResult
  <1> HIDE DEF a
  <1>7. Sound(work') /\ work'.pool = [work.pool EXCEPT ![p] = a]
    BY <1>3, <1>6 DEF WithPool, PoolSet
  <1>8. Inv'
    <2>1. \A q \in Pools : work.pool[q].open => work'.pool[q].open
      BY <1>4, <1>5, <1>7
    <2> QED
      BY <1>1, <1>7, <2>1, ExecuteInv
  <1>9. Pool!Before(0)
    BY <1>1, SeenNext
  <1>10. CASE p = P
    <2>1. work'.pool[P] = a
      BY <1>4, <1>7, <1>10
    <2>2. Abstract(work'.pool[P]) = [r |-> Pool!Nothing, l |-> 0, fee |-> fee,
                                     locked |-> FALSE, owned |-> auth # Nobody]
      BY <1>5, <2>1, SameNumbers DEF Abstract
    <2>3. (auth # Nobody) \in BOOLEAN
      OBVIOUS
    <2>a. Burned' = 0
      <3>1. Burned = 0
        BY <1>3, <1>10 DEF Inv, Burned, c
      <3> QED
        BY <1>9, <3>1 DEF Pool!Before
    <2>4. Pool!Init'
      BY <2>2, <2>3, <2>a DEF Pool!Init
    <2>5. Pool!Open
      BY <1>2, <1>3, <1>5, <1>10, <2>1, <2>4 DEF Pool!Open, c
    <2> QED
      BY <1>8, <2>5 DEF Preserves, Pool!TxNext
  <1>11. CASE p # P
    <2>1. work'.pool[P] = work.pool[P]
      BY <1>4, <1>7, <1>11, PoolAssumption
    <2> QED
      BY <1>2, <1>8, <1>9, <2>1, OnAnotherPool DEF Preserves
  <1> QED
    BY <1>10, <1>11

LEMMA UpdateConfigStep ==
  ASSUME Inv, NEW u \in Users, NEW p \in Pools, NEW fee \in Fees, NEW auth \in Authorities,
         NEW locked \in BOOLEAN, UpdateConfigIx(u, p, fee, auth, locked)
  PROVE  Preserves
  <1> DEFINE ix == NotABurn("amm")
             results == Updated(work, u, p, fee, auth, locked)
             c == work.pool[p]
             a == [c EXCEPT !.open = TRUE, !.fee = fee, !.locked = locked, !.auth = auth]
  <1>1. /\ Execute(results, ix) /\ Sound(work)
        /\ ix \in Instruction /\ ~ix.burn
    BY RecordFacts DEF UpdateConfigIx, Inv
  <1> HIDE DEF ix
  <1>2. work' \in results /\ UNCHANGED ledger
    BY <1>1, Executes
  <1>3. work.pool \in [Pools -> PoolAccounts] /\ c \in PoolAccounts
    BY <1>1 DEF Sound, Accounts
  <1>4. /\ c.open /\ fee < BPS /\ c.auth = u
        /\ work' = [work EXCEPT !.pool[p] = [c EXCEPT !.fee = fee, !.auth = auth, !.locked = locked]]
    BY <1>2 DEF Updated
  <1> HIDE DEF c, results
  <1>5. /\ a.open /\ a.r = c.r /\ a.l = c.l
        /\ a.fee = fee /\ a.locked = locked /\ a.auth = auth
    BY <1>3 DEF PoolAccounts
  <1>6. Sound(WithPool(work, p, a)) /\ WithPool(work, p, a).pool = PoolSet(work.pool, p, a)
    <2>1. a = Configured(work.pool[p], fee, locked, auth) /\ locked \in BOOLEAN
      BY DEF Configured, c
    <2> HIDE DEF a
    <2> QED
      BY <1>1, <2>1, ConfigResult
  <1>7. a = [c EXCEPT !.fee = fee, !.auth = auth, !.locked = locked]
    <2>1. c.open = TRUE
      BY <1>3, <1>4 DEF PoolAccounts
    <2> QED
      BY <1>3, <2>1 DEF PoolAccounts
  <1> HIDE DEF a
  <1>8. Sound(work') /\ work'.pool = [work.pool EXCEPT ![p] = a]
    BY <1>4, <1>6, <1>7 DEF WithPool, PoolSet
  <1>9. Inv'
    <2>1. \A q \in Pools : work.pool[q].open => work'.pool[q].open
      BY <1>3, <1>5, <1>8
    <2> QED
      BY <1>1, <1>8, <2>1, ExecuteInv
  <1>10. Pool!Before(0)
    BY <1>1, SeenNext
  <1>11. CASE p = P
    <2> DEFINE seen(f, l, o) == [r |-> c.r, l |-> c.l, fee |-> f, locked |-> l, owned |-> o]
               before == Abstract(work.pool[P])
               was    == c.auth # Nobody
               owned  == auth # Nobody
    <2>1. work'.pool[P] = a /\ work.pool[P] = c
      BY <1>3, <1>8, <1>11 DEF c
    <2>2. Abstract(work'.pool[P]) = seen(fee, locked, owned)
      BY <1>5, <2>1 DEF Abstract
    <2>3. before = seen(c.fee, c.locked, was)
      BY <1>4, <2>1 DEF Abstract
    <2>4. was /\ owned \in BOOLEAN
      BY <1>4, AmmAssumption
    <2> HIDE DEF owned, before, was
    <2>5. before.owned
      <3>1. seen(c.fee, c.locked, was).owned = was
        BY Zenon
      <3> QED
        BY <2>3, <2>4, <3>1, Zenon
    <2>6. seen(fee, locked, owned) = [before EXCEPT !.fee = fee, !.owned = owned, !.locked = locked]
      <3>1. [before EXCEPT !.fee = fee, !.owned = owned, !.locked = locked]
              = [[[before EXCEPT !.fee = fee] EXCEPT !.owned = owned] EXCEPT !.locked = locked]
        BY <2>3
      <3>2. /\ [seen(c.fee, c.locked, was) EXCEPT !.fee = fee] = seen(fee, c.locked, was)
            /\ [seen(fee, c.locked, was) EXCEPT !.owned = owned] = seen(fee, c.locked, owned)
            /\ [seen(fee, c.locked, owned) EXCEPT !.locked = locked] = seen(fee, locked, owned)
        OBVIOUS
      <3> QED
        BY <2>3, <3>1, <3>2
    <2> HIDE DEF seen
    <2>a. Pool!UpdateConfig(fee, owned, locked)
      BY <1>4, <1>10, <2>2, <2>5, <2>6 DEF Pool!UpdateConfig, before
    <2>7. Pool!Next
      BY <2>4, <2>a DEF Pool!Next
    <2>8. work.pool[P].open /\ work'.pool[P].open = work.pool[P].open
      BY <1>3, <1>4, <1>5, <2>1 DEF PoolAccounts
    <2> QED
      BY <1>2, <1>9, <2>7, <2>8, OnThePool DEF Preserves
  <1>12. CASE p # P
    <2>1. work'.pool[P] = work.pool[P]
      BY <1>3, <1>8, <1>12, PoolAssumption
    <2> QED
      BY <1>2, <1>9, <1>10, <2>1, OnAnotherPool DEF Preserves
  <1> QED
    BY <1>11, <1>12

\* The end of a transaction keeps all of it, or none.
LEMMA EndStep ==
  ASSUME Inv, Commit \/ Abort
  PROVE  Preserves
  <1>1. /\ prev' = NoInstruction /\ executed' = 0
        /\ \/ ledger' = work /\ work' = work
           \/ work' = ledger /\ ledger' = ledger
    BY DEF Commit, Abort, NewTransaction
  <1>2. prev' \in Instruction /\ prev'.program # "amm" /\ executed' \in 0 .. MaxIx
    BY <1>1, TransactionsAssumption DEF NoInstruction, Instruction
  <1>3. Inv'
    BY <1>1, <1>2 DEF Inv
  <1>4. Burned' = 0
    BY <1>2 DEF Burned
  <1>5. Pool!Commit \/ Pool!Abort
    BY <1>1, <1>4 DEF Pool!Commit, Pool!Abort
  <1> QED
    BY <1>3, <1>5 DEF Preserves, Pool!TxNext

\* The invariant is inductive, and every step maps to a step or a stutter.
LEMMA EveryStep ==
  ASSUME Inv, [Next]_vars
  PROVE  Preserves
  <1>1. CASE UNCHANGED vars
    <2>1. Inv'
      BY <1>1 DEF Inv, vars
    <2>2. UNCHANGED Pool!txVars
      BY <1>1 DEF vars, Pool!txVars, Burned
    <2> QED
      BY <2>1, <2>2 DEF Preserves
  <1>2. CASE Commit \/ Abort
    BY <1>2, EndStep
  <1>3. ASSUME NEW p \in Pools, \E fee \in Fees, auth \in Authorities : InitializeIx(p, fee, auth)
        PROVE  Preserves
    BY <1>3, InitializeStep
  <1>4. ASSUME NEW p \in Pools, NEW u \in Users,
               \E fee \in Fees, auth \in Authorities, locked \in BOOLEAN :
                 UpdateConfigIx(u, p, fee, auth, locked)
        PROVE  Preserves
    BY <1>4, UpdateConfigStep
  <1>5. ASSUME NEW p \in Pools, NEW u \in Users,
               \E n \in Amounts, side \in Side, min \in Floors : SwapIx(u, p, n, side, min)
        PROVE  Preserves
    BY <1>5, SwapStep
  <1>6. ASSUME NEW p \in Pools, NEW u \in Users,
               \E offer \in Offers(Amounts), side \in Side, min \in Floors :
                 DepositIx(u, p, offer, side, min)
        PROVE  Preserves
    BY <1>6, DepositStep
  <1>7. ASSUME NEW p \in Pools, NEW u \in Users,
               \E n \in Amounts, side \in Side, floor \in [Token -> Floors] :
                 \/ WithdrawIx(u, p, n, side, floor)
                 \/ WithdrawWIx(u, p, n, side, floor)
        PROVE  Preserves
    BY <1>7, WithdrawStep, WithdrawWStep
  <1>8. ASSUME NEW p \in Pools, NEW u \in Users,
               \E n \in Amounts, exact \in BOOLEAN : BurnLpIx(u, p, n, exact)
        PROVE  Preserves
    BY <1>8, BurnLpStep
  <1>9. ASSUME NEW p \in Pools, NEW u \in Users,
               \E n \in Amounts, t \in Token : Donate(u, p, t, n)
        PROVE  Preserves
    BY <1>9, DonateStep
  <1>10. ASSUME NEW p \in Pools, NEW u \in Users,
                \E n \in Amounts : TokenBurn(u, p, n) \/ LookAlike(u, p, n)
         PROVE  Preserves
    BY <1>10, TokenBurnStep, LookAlikeStep
  <1> QED
    BY <1>1, <1>2, <1>3, <1>4, <1>5, <1>6, <1>7, <1>8, <1>9, <1>10 DEF Next

\* Accounts of users and pools keep their types: in particular no LP balance ever
\* exceeds the supply of its mint, so no burn can take the supply below zero.
THEOREM AccountsStaySound == Spec => []Inv
<1>1. Init => Inv
  BY Initially
<1>2. Inv /\ [Next]_vars => Inv'
  BY EveryStep DEF Preserves
<1> QED
  BY <1>1, <1>2, PTL DEF Spec

\* No transfer, mint or burn takes an account below zero or above u64, and prev is
\* an instruction the model knows.
THEOREM TypesPreserved == Spec => []TypeOK
<1>1. Inv => TypeOK
  BY DEF Inv, Sound, TypeOK
<1> QED
  BY <1>1, AccountsStaySound, PTL

\* In whatever transaction, no pool's outstanding LP is ever left without backing.
THEOREM ReservesAlwaysBackSupply == Spec => []ReservesBackSupply
<1>1. Inv => ReservesBackSupply
  BY DEF Inv, Sound, SoundAt, ReservesBackSupply
<1> QED
  BY <1>1, AccountsStaySound, PTL

\* The program implements, for each of its pools, a pool that is alone.
THEOREM PoolsAreAlone == Spec => PoolIsAlone
<1>1. Init => Pool!TxInit
  BY Initially
<1>2. Inv /\ [Next]_vars => [Pool!TxNext]_(Pool!txVars)
  BY EveryStep DEF Preserves
<1> QED
  BY <1>1, <1>2, AccountsStaySound, PTL DEF Spec, PoolIsAlone, Pool!TxSpec
=============================================================================
