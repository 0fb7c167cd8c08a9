--------------------------- MODULE DiceGameProofs ---------------------------
(***************************************************************************)
(* The dice game, for every die, edge, stake and timeout and any houses    *)
(* and players: the accounts keep their types, and so the terms of every   *)
(* open bet are fair; each step is of one of six kinds, and so a bet ends  *)
(* once, by its terms, with one payment from its vault; and every house    *)
(* keeps its book, as HouseBook has it.                                    *)
(***************************************************************************)
EXTENDS DiceGameBook, NaturalLemmas

-----------------------------------------------------------------------------
(* The payout *)

\* The two floors of the payout lose less than one lamport for each winning
\* pick and percent.
LEMMA PayoutRounding ==
  ASSUME NEW a \in Nat, NEW w \in Nat, NEW c \in Nat, w > 0, c > 0
  PROVE  LET n == (a \div w) \div c
         IN  /\ n \in Nat
             /\ n * w * c <= a
             /\ a < (n + 1) * w * c
  <1> DEFINE q == a \div w
             n == q \div c
  <1>1. q \in Nat /\ w * q <= a /\ a < w * q + w
    BY DivBounds
  <1>2. n \in Nat /\ c * n <= q /\ q < c * n + c
    BY <1>1, DivBounds
  <1> HIDE DEF n, q
  <1>3. w * (c * n) <= w * q
    BY <1>1, <1>2, SMT
  <1>4. w * (q + 1) <= w * (c * (n + 1))
    BY <1>1, <1>2, SMT
  <1>5. n * w * c = w * (c * n) /\ (n + 1) * w * c = w * (c * (n + 1))
    BY <1>2, SMT
  <1>6. w * (q + 1) = w * q + w
    BY <1>1, SMT
  <1>7. n * w * c <= a /\ a < (n + 1) * w * c
    BY <1>1, <1>2, <1>3, <1>4, <1>5, <1>6, SMT
  <1> QED
    BY <1>2, <1>7 DEF n, q

\* Scale is a multiple of Faces.
LEMMA ScalePerFace ==
  Scale \div Faces \in Nat /\ Scale \div Faces > 0
  <1>1. Scale = Faces * (Scale \div Faces) /\ Scale \div Faces \in Nat
    BY DiceAssumption, SMT
  <1> QED
    BY <1>1, DiceAssumption, SMT

\* Every bet place_bet accepts is fair.
LEMMA BetIsFair ==
  ASSUME NEW bet \in Bet
  PROVE  Fair(bet)
  <1> SUFFICES ASSUME bet.roll > 1, NEW n \in Payout(bet)
               PROVE  /\ n * (bet.roll - 1) * (Scale \div Faces) <= bet.amount * (Scale - Edge)
                      /\ bet.amount * (Scale - Edge) < (n + 1) * (bet.roll - 1) * (Scale \div Faces)
                      /\ n >= bet.amount
    BY DEF Fair
  <1> DEFINE w == bet.roll - 1
             c == Scale \div Faces
             a == bet.amount * (Scale - Edge)
  <1>1. /\ bet.amount \in Nat /\ bet.roll \in Nat /\ bet.roll <= MaxRoll
        /\ Scale - Edge \in Nat
    BY DiceAssumption, SMT DEF Bet, U64
  <1>2. w \in Nat /\ w > 0 /\ w <= MaxRoll - 1 /\ a \in Nat
    BY <1>1, DiceAssumption, SMT
  <1>3. c \in Nat /\ c > 0
    BY ScalePerFace
  <1>4. n = (a \div w) \div c
    BY DEF Payout
  <1>5. n \in Nat /\ n * w * c <= a /\ a < (n + 1) * w * c
    <2> HIDE DEF a, w, c
    <2> QED
      BY <1>2, <1>3, <1>4, PayoutRounding
  <1>6. w * c <= Scale - Edge
    <2>1. w * c <= (MaxRoll - 1) * c
      <3> HIDE DEF w, c
      <3> QED
        BY <1>2, <1>3, DiceAssumption, SMT
    <2>2. (MaxRoll - 1) * c <= Scale - Edge
      BY DiceAssumption
    <2> QED
      BY <1>2, <1>3, <2>1, <2>2, DiceAssumption, SMT
  <1>7. bet.amount * (w * c) <= a
    <2> HIDE DEF w, c
    <2> QED
      BY <1>1, <1>2, <1>3, <1>6, SMT
  <1>8. n >= bet.amount
    <2> SUFFICES ASSUME n + 1 <= bet.amount PROVE FALSE
      BY <1>1, <1>5, SMT
    <2> HIDE DEF w, c, a
    <2>1. (n + 1) * (w * c) <= bet.amount * (w * c)
      BY <1>1, <1>2, <1>3, <1>5, SMT
    <2>2. (n + 1) * w * c = (n + 1) * (w * c)
      BY <1>2, <1>3, <1>5, SMT
    <2> QED
      BY <1>1, <1>2, <1>3, <1>5, <1>7, <2>1, <2>2, SMT
  <1> QED
    BY <1>5, <1>8

-----------------------------------------------------------------------------
(* The accounts *)

\* The wallet and the vault of a bet are accounts.
LEMMA HoldersOf ==
  ASSUME NEW b \in BetKeys
  PROVE  Wallet(Player(b)) \in Holders /\ Vault(House(b)) \in Holders
  BY DEF BetKeys, Player, House, Holders, Wallet, Vault

\* Balances stay natural when no more is taken than there is.
LEMMA BalancesOK ==
  ASSUME NEW l \in [Holders -> Nat], NEW a \in Holders, NEW n \in Nat
  PROVE  /\ Credited(l, a, n) \in [Holders -> Nat]
         /\ n <= l[a] => Debited(l, a, n) \in [Holders -> Nat]
  <1>1. l[a] \in Nat
    OBVIOUS
  <1>2. l[a] + n \in Nat /\ (n <= l[a] => l[a] - n \in Nat)
    BY <1>1, SMT
  <1> QED
    BY <1>2 DEF Credited, Debited

\* A transfer of lamports moves what there is, and no bet.
LEMMA TransferOK ==
  ASSUME NEW s, AccountsOK(s), NEW from \in Holders, NEW to \in Holders, NEW n \in Nat,
         NEW t \in Transfer(s, from, to, n)
  PROVE  AccountsOK(t) /\ t.bets = s.bets
  <1> DEFINE f == Credited(Debited(s.lamports, from, n), to, n)
  <1>1. n <= s.lamports[from] /\ t = [s EXCEPT !.lamports = f]
    BY DEF Transfer
  <1>2. f \in [Holders -> Nat]
    BY <1>1, BalancesOK DEF AccountsOK
  <1> HIDE DEF f
  <1>3. t = [bets |-> s.bets, lamports |-> f]
    BY <1>1 DEF AccountsOK
  <1> QED
    BY <1>2, <1>3 DEF AccountsOK

\* Closing the account of a bet gives its rent back.
LEMMA ClosedOK ==
  ASSUME NEW s, AccountsOK(s), NEW b \in BetKeys
  PROVE  AccountsOK(Closed(s, b))
  <1> DEFINE f == Credited(s.lamports, Wallet(Player(b)), BetRent)
             g == Without(s.bets, b)
  <1>1. Closed(s, b) = [s EXCEPT !.bets = g, !.lamports = f]
    BY DEF Closed
  <1>2. f \in [Holders -> Nat]
    BY HoldersOf, BalancesOK, DiceAssumption DEF AccountsOK
  <1>3. DOMAIN g \subseteq BetKeys /\ \A c \in DOMAIN g : g[c] \in Bet
    BY DEF Without, AccountsOK
  <1> HIDE DEF f, g
  <1>4. Closed(s, b) = [bets |-> g, lamports |-> f]
    BY <1>1 DEF AccountsOK
  <1> QED
    BY <1>2, <1>3, <1>4 DEF AccountsOK

\* A payment that ends a bet keeps the types.
LEMMA PaidToOK ==
  ASSUME NEW s, AccountsOK(s), NEW b \in BetKeys, NEW n \in Nat, NEW t \in PaidTo(s, b, n)
  PROVE  AccountsOK(t)
  <1>1. PICK u \in Transfer(s, Vault(House(b)), Wallet(Player(b)), n) : t = Closed(u, b)
    BY DEF PaidTo
  <1>2. AccountsOK(u)
    BY HoldersOf, TransferOK
  <1> QED
    BY <1>1, <1>2, ClosedOK

\* A bet is placed within the bounds the program asks for.
LEMMA PlacedOK ==
  ASSUME NEW s, AccountsOK(s), NEW b \in BetKeys, NEW amount \in U64, NEW roll,
         slot \in Nat, NEW t \in Placed(s, b, amount, roll)
  PROVE  AccountsOK(t)
  <1> DEFINE bet == [slot |-> slot, amount |-> amount, roll |-> roll]
             f   == Debited(s.lamports, Wallet(Player(b)), BetRent)
             g   == With(s.bets, b, bet)
  <1>1. PICK u \in Created(s, b, bet) : t \in Transfer(u, Wallet(Player(b)), Vault(House(b)), amount)
    BY DEF Placed
  <1>2. bet \in Bet
    BY DEF Placed, Acceptable, Bet
  <1>3. BetRent <= s.lamports[Wallet(Player(b))] /\ u = [s EXCEPT !.bets = g, !.lamports = f]
    BY <1>1 DEF Created
  <1>4. f \in [Holders -> Nat]
    BY <1>3, HoldersOf, BalancesOK, DiceAssumption DEF AccountsOK
  <1>5. DOMAIN g \subseteq BetKeys /\ \A c \in DOMAIN g : g[c] \in Bet
    BY <1>2 DEF With, AccountsOK
  <1>6. AccountsOK(u)
    <2> HIDE DEF f, g
    <2>1. u = [bets |-> g, lamports |-> f]
      BY <1>3 DEF AccountsOK
    <2> QED
      BY <1>4, <1>5, <2>1 DEF AccountsOK
  <1> QED
    BY <1>1, <1>6, HoldersOf, TransferOK DEF U64

\* A settlement keeps the types, won or lost.
LEMMA SettledOK ==
  ASSUME NEW s, AccountsOK(s), NEW b \in BetKeys, NEW draw, NEW t \in Settled(s, b, draw)
  PROVE  AccountsOK(t)
  <1>1. CASE s.bets[b].roll > draw
    <2>1. PICK n \in Payout(s.bets[b]) : t \in PaidTo(s, b, n)
      BY <1>1 DEF Settled
    <2>2. n \in Nat
      BY DEF Payout, U64
    <2> QED
      BY <2>1, <2>2, PaidToOK
  <1>2. CASE ~(s.bets[b].roll > draw)
    BY <1>2, ClosedOK DEF Settled
  <1> QED
    BY <1>1, <1>2

\* A refund pays the stake of an open bet.
LEMMA RefundedOK ==
  ASSUME NEW s, AccountsOK(s), NEW b \in BetKeys, NEW t \in Refunded(s, b)
  PROVE  AccountsOK(t)
  <1>1. b \in DOMAIN s.bets /\ t \in PaidTo(s, b, s.bets[b].amount)
    BY DEF Refunded
  <1>2. s.bets[b].amount \in Nat
    BY <1>1 DEF AccountsOK, Bet, U64
  <1> QED
    BY <1>1, <1>2, PaidToOK

-----------------------------------------------------------------------------
(* What an instruction does to the balances and the open bets *)

\* n lamports went from one account to another.
Moved(s, t, from, to, n) ==
  /\ n <= s.lamports[from]
  /\ t.lamports[from] = s.lamports[from] - n
  /\ t.lamports[to] = s.lamports[to] + n
  /\ \A a \in Holders \ {from, to} : t.lamports[a] = s.lamports[a]

\* The vault of b paid n for it: b is over, and its player has n and the rent.
Paid(s, t, b, n) ==
  /\ t.bets = Without(s.bets, b)
  /\ n \in Nat /\ n <= s.lamports[Vault(House(b))]
  /\ t.lamports[Vault(House(b))] = s.lamports[Vault(House(b))] - n
  /\ t.lamports[Wallet(Player(b))] = s.lamports[Wallet(Player(b))] + n + BetRent
  /\ \A a \in Holders \ {Wallet(Player(b)), Vault(House(b))} : t.lamports[a] = s.lamports[a]

\* The new bet b is open, and its vault, alone among the vaults, has the stake.
Staked(s, t, b, amount, roll) ==
  /\ b \notin DOMAIN s.bets
  /\ Acceptable(amount, roll)
  /\ t.bets = With(s.bets, b, [slot |-> slot, amount |-> amount, roll |-> roll])
  /\ t.lamports[Vault(House(b))] = s.lamports[Vault(House(b))] + amount
  /\ \A h \in Houses : Vault(h) # Vault(House(b)) => t.lamports[Vault(h)] = s.lamports[Vault(h)]

\* Wallets are not vaults, and each house has its own.
LEMMA Addresses ==
  ASSUME NEW u, NEW h, NEW k
  PROVE  Wallet(u) # Vault(h) /\ (Vault(h) = Vault(k) => h = k)
  <1>1. Wallet(u)[1] = "wallet" /\ Vault(h)[1] = "vault" /\ Vault(h)[2] = h /\ Vault(k)[2] = k
    BY DEF Wallet, Vault
  <1> QED
    BY <1>1

\* A transfer between two accounts.
LEMMA TransferMoves ==
  ASSUME NEW s, AccountsOK(s), NEW from \in Holders, NEW to \in Holders, from # to,
         NEW n \in Nat, NEW t \in Transfer(s, from, to, n)
  PROVE  Moved(s, t, from, to, n)
  <1> DEFINE d == Debited(s.lamports, from, n)
             f == Credited(d, to, n)
  <1>1. n <= s.lamports[from] /\ t = [s EXCEPT !.lamports = f]
    BY DEF Transfer
  <1>2. t.lamports = f
    <2> HIDE DEF f
    <2> QED
      BY <1>1, SMT DEF AccountsOK
  <1>3. s.lamports \in [Holders -> Nat]
    BY DEF AccountsOK
  <1>4. /\ DOMAIN d = Holders
        /\ \A a \in Holders : d[a] = IF a = from THEN s.lamports[from] - n ELSE s.lamports[a]
    BY <1>3 DEF Debited
  <1>5. \A a \in Holders : f[a] = IF a = to THEN d[to] + n ELSE d[a]
    <2> HIDE DEF d
    <2> QED
      BY <1>4 DEF Credited
  <1> HIDE DEF d, f
  <1> QED
    BY <1>1, <1>2, <1>4, <1>5 DEF Moved

\* Closing a bet pays nothing from the vault.
LEMMA ClosedPays ==
  ASSUME NEW s, AccountsOK(s), NEW b \in BetKeys
  PROVE  Paid(s, Closed(s, b), b, 0)
  <1> DEFINE w == Wallet(Player(b))
             f == Credited(s.lamports, w, BetRent)
             g == Without(s.bets, b)
  <1>1. /\ w \in Holders /\ Vault(House(b)) \in Holders
        /\ w # Vault(House(b))
        /\ s.lamports \in [Holders -> Nat] /\ BetRent \in Nat
    BY HoldersOf, Addresses, DiceAssumption DEF AccountsOK
  <1>2. Closed(s, b).bets = g /\ Closed(s, b).lamports = f
    <2>1. Closed(s, b) = [s EXCEPT !.bets = g, !.lamports = f]
      BY DEF Closed
    <2> HIDE DEF f, g
    <2> QED
      BY <2>1, SMT DEF AccountsOK
  <1> HIDE DEF w
  <1>3. \A a \in Holders : f[a] = IF a = w THEN s.lamports[w] + BetRent ELSE s.lamports[a]
    BY <1>1 DEF Credited
  <1> HIDE DEF f, g
  <1>4. /\ f[Vault(House(b))] = s.lamports[Vault(House(b))] - 0
        /\ f[w] = s.lamports[w] + 0 + BetRent
        /\ 0 <= s.lamports[Vault(House(b))]
    BY <1>1, <1>3, SMT
  <1> QED
    BY <1>2, <1>3, <1>4 DEF Paid, g, w

\* A payment that ends a bet.
LEMMA PaidToPays ==
  ASSUME NEW s, AccountsOK(s), NEW b \in BetKeys, NEW n \in Nat, NEW t \in PaidTo(s, b, n)
  PROVE  Paid(s, t, b, n)
  <1> DEFINE w == Wallet(Player(b))
             v == Vault(House(b))
  <1>1. PICK u \in Transfer(s, v, w, n) : t = Closed(u, b)
    BY DEF PaidTo
  <1>2. /\ w \in Holders /\ v \in Holders /\ w # v
        /\ s.lamports \in [Holders -> Nat] /\ BetRent \in Nat
    BY HoldersOf, Addresses, DiceAssumption DEF AccountsOK
  <1>3. AccountsOK(u) /\ u.bets = s.bets /\ Moved(s, u, v, w, n)
    BY <1>2, TransferOK, TransferMoves
  <1>4. Paid(u, t, b, 0)
    BY <1>1, <1>3, ClosedPays
  <1>5. u.lamports[v] = s.lamports[v] - n /\ u.lamports[w] = s.lamports[w] + n /\ n <= s.lamports[v]
    BY <1>3 DEF Moved
  <1>6. t.lamports[v] = u.lamports[v] - 0 /\ t.lamports[w] = u.lamports[w] + 0 + BetRent
    BY <1>4 DEF Paid
  <1>7. \A a \in Holders \ {w, v} : t.lamports[a] = s.lamports[a]
    BY <1>3, <1>4 DEF Moved, Paid
  <1>8. t.bets = Without(s.bets, b)
    BY <1>3, <1>4 DEF Paid
  <1>9. t.lamports[v] = s.lamports[v] - n /\ t.lamports[w] = s.lamports[w] + n + BetRent
    <2>1. s.lamports[v] \in Nat /\ s.lamports[w] \in Nat
      BY <1>2
    <2> HIDE DEF v, w
    <2> QED
      BY <2>1, <1>2, <1>5, <1>6, SMT
  <1> QED
    BY <1>5, <1>7, <1>8, <1>9 DEF Paid

\* A refund is of an open bet, overdue, and pays its stake.
LEMMA RefundPays ==
  ASSUME NEW s, AccountsOK(s), NEW b \in BetKeys, NEW t \in Refunded(s, b)
  PROVE  /\ b \in DOMAIN s.bets /\ Overdue(s.bets[b])
         /\ Paid(s, t, b, s.bets[b].amount)
  <1>1. b \in DOMAIN s.bets /\ Overdue(s.bets[b]) /\ t \in PaidTo(s, b, s.bets[b].amount)
    BY DEF Refunded
  <1>2. s.bets[b].amount \in Nat
    BY <1>1 DEF AccountsOK, Bet, U64
  <1> QED
    BY <1>1, <1>2, PaidToPays

\* What the vault owes for a bet at this draw.
Due(bet, draw) == IF bet.roll > draw THEN Payout(bet) ELSE {0}

\* The bet is over and its vault paid what it owed at the draw.
PaidDue(s, t, b, draw) == \E n \in Due(s.bets[b], draw) : Paid(s, t, b, n)

\* A settlement pays what is due.
LEMMA SettlementPays ==
  ASSUME NEW s, AccountsOK(s), NEW b \in BetKeys, NEW draw, NEW t \in Settled(s, b, draw)
  PROVE  PaidDue(s, t, b, draw)
  <1>1. CASE s.bets[b].roll > draw
    <2>1. PICK n \in Payout(s.bets[b]) : t \in PaidTo(s, b, n)
      BY <1>1 DEF Settled
    <2>2. n \in Nat
      BY DEF Payout, U64
    <2>3. Paid(s, t, b, n)
      BY <2>1, <2>2, PaidToPays
    <2> QED
      BY <1>1, <2>3 DEF PaidDue, Due
  <1>2. CASE ~(s.bets[b].roll > draw)
    <2>1. t = Closed(s, b)
      BY <1>2 DEF Settled
    <2>2. Paid(s, t, b, 0)
      BY <2>1, ClosedPays
    <2> QED
      BY <1>2, <2>2 DEF PaidDue, Due
  <1> QED
    BY <1>1, <1>2

\* Placing a bet opens it, and its stake goes to its vault.
LEMMA PlacedStakes ==
  ASSUME NEW s, AccountsOK(s), NEW b \in BetKeys, NEW amount \in U64, NEW roll,
         slot \in Nat, NEW t \in Placed(s, b, amount, roll)
  PROVE  Staked(s, t, b, amount, roll)
  <1> DEFINE bet == [slot |-> slot, amount |-> amount, roll |-> roll]
             w   == Wallet(Player(b))
             v   == Vault(House(b))
             f   == Debited(s.lamports, w, BetRent)
             g   == With(s.bets, b, bet)
  <1>1. PICK u \in Created(s, b, bet) : t \in Transfer(u, w, v, amount)
    BY DEF Placed
  <1>2. /\ b \notin DOMAIN s.bets /\ BetRent <= s.lamports[w]
        /\ u = [s EXCEPT !.bets = g, !.lamports = f]
    BY <1>1 DEF Created
  <1>3. bet \in Bet /\ Acceptable(amount, roll)
    BY DEF Placed, Acceptable, Bet
  <1>4. w \in Holders /\ v \in Holders /\ \A h : w # Vault(h)
    BY HoldersOf, Addresses
  <1>5. f \in [Holders -> Nat] /\ \A a \in Holders \ {w} : f[a] = s.lamports[a]
    <2>1. s.lamports \in [Holders -> Nat]
      BY DEF AccountsOK
    <2>2. f \in [Holders -> Nat]
      BY <2>1, <1>2, <1>4, BalancesOK, DiceAssumption
    <2> HIDE DEF w
    <2>3. \A a \in Holders \ {w} : f[a] = s.lamports[a]
      BY <2>1 DEF Debited
    <2> QED
      BY <2>2, <2>3
  <1>6. DOMAIN g \subseteq BetKeys /\ \A c \in DOMAIN g : g[c] \in Bet
    BY <1>3 DEF With, AccountsOK
  <1>7. u = [bets |-> g, lamports |-> f] /\ AccountsOK(u)
    <2> HIDE DEF f, g
    <2>1. u = [bets |-> g, lamports |-> f]
      BY <1>2 DEF AccountsOK
    <2> QED
      BY <1>5, <1>6, <2>1 DEF AccountsOK
  <1>8. t.bets = u.bets /\ Moved(u, t, w, v, amount)
    BY <1>1, <1>4, <1>7, TransferOK, TransferMoves DEF U64
  <1>9. t.bets = g
    <2> HIDE DEF f, g
    <2> QED
      BY <1>7, <1>8
  <1>10. \A a \in Holders \ {w} : u.lamports[a] = s.lamports[a]
    <2> HIDE DEF f, g, w
    <2> QED
      BY <1>5, <1>7
  <1>11. t.lamports[v] = s.lamports[v] + amount
    BY <1>4, <1>8, <1>10 DEF Moved
  <1>12. ASSUME NEW h \in Houses, Vault(h) # v
         PROVE  t.lamports[Vault(h)] = s.lamports[Vault(h)]
    <2>1. Vault(h) \in Holders /\ Vault(h) # w
      BY <1>4 DEF Holders
    <2> QED
      BY <1>8, <1>10, <1>12, <2>1 DEF Moved
  <1> QED
    BY <1>2, <1>3, <1>9, <1>11, <1>12 DEF Staked

-----------------------------------------------------------------------------
(* The invariant *)

\* An instruction that keeps the working copy in its types keeps the state in
\* its types.
LEMMA ExecuteOK ==
  ASSUME TypeOK, NEW R, NEW ix, Execute(R, ix), UNCHANGED slot,
         \A t \in R : AccountsOK(t)
  PROVE  TypeOK'
  <1>0. Work(R)
    BY DEF Execute, ExecuteOwn, ExecuteCalled
  <1>1. AccountsOK(work')
    BY <1>0 DEF Work
  <1>2. ledger' = ledger /\ executed' \in 0 .. MaxIx /\ slot' = slot
    BY <1>0, TransactionsAssumption, SMT DEF Work, TypeOK
  <1> QED
    BY <1>1, <1>2 DEF TypeOK, AccountsOK

\* The types of all accounts are an inductive invariant.
THEOREM TypesPreserved == Spec => []TypeOK
<1>1. Init => TypeOK
  <2> SUFFICES ASSUME Init PROVE TypeOK
    OBVIOUS
  <2>1. AccountsOK(ledger)
    BY DiceAssumption DEF Init, AccountsOK
  <2> QED
    BY <2>1, DiceAssumption, TransactionsAssumption DEF Init, StartsIdle, TypeOK
<1>2. TypeOK /\ [Next]_vars => TypeOK'
  <2> SUFFICES ASSUME TypeOK, [Next]_vars PROVE TypeOK'
    OBVIOUS
  <2>0. AccountsOK(work) /\ AccountsOK(ledger) /\ slot \in Nat
    BY DEF TypeOK
  <2>1. ASSUME NEW h \in Houses, NEW n \in Funds, Initialize(h, n), UNCHANGED slot
        PROVE  TypeOK'
    <3>1. Wallet(h) \in Holders /\ Vault(h) \in Holders /\ n \in Nat
      BY DiceAssumption DEF Holders, U64
    <3>2. \A t \in Transfer(work, Wallet(h), Vault(h), n) : AccountsOK(t)
      BY <2>0, <3>1, TransferOK
    <3> QED
      BY <2>1, <3>2, ExecuteOK DEF Initialize
  <2>2. ASSUME NEW h \in Houses, NEW m \in Messages, NEW sig \in Draws, NEW plain \in BOOLEAN,
               VerifySignature(h, m, sig, plain), UNCHANGED slot
        PROVE  TypeOK'
    BY <2>0, <2>2, ExecuteOK DEF VerifySignature, Execute
  <2>3. ASSUME NEW b \in BetKeys, NEW amount \in Stakes, NEW roll \in Rolls,
               PlaceBet(b, amount, roll), UNCHANGED slot
        PROVE  TypeOK'
    <3>1. amount \in U64
      BY DiceAssumption
    <3>2. \A t \in Placed(work, b, amount, roll) : AccountsOK(t)
      BY <2>0, <3>1, PlacedOK
    <3> QED
      BY <2>3, <3>2, ExecuteOK DEF PlaceBet
  <2>4. ASSUME NEW b \in BetKeys, RefundBet(b), UNCHANGED slot
        PROVE  TypeOK'
    <3>1. \A t \in Refunded(work, b) : AccountsOK(t)
      BY <2>0, RefundedOK
    <3> QED
      BY <2>4, <3>1, ExecuteOK DEF RefundBet
  <2>5. ASSUME NEW b \in BetKeys, ResolveFromEntropy(b), UNCHANGED slot
        PROVE  TypeOK'
    <3>1. \A t \in Settled(work, b, prev.draw) : AccountsOK(t)
      BY <2>0, SettledOK
    <3> QED
      BY <2>5, <3>1, ExecuteOK DEF ResolveFromEntropy
  <2>6. ASSUME NEW b \in BetKeys, NEW draw \in Draws, ResolveBet(b, draw), UNCHANGED slot
        PROVE  TypeOK'
    <3>1. \A t \in Settled(work, b, draw) : AccountsOK(t)
      BY <2>0, SettledOK
    <3> QED
      BY <2>6, <3>1, ExecuteOK DEF ResolveBet
  <2>7. ASSUME NEW b \in BetKeys, NEW draw \in Draws, LookAlike(b, draw), UNCHANGED slot
        PROVE  TypeOK'
    <3>1. \A t \in {work} : AccountsOK(t)
      BY <2>0
    <3> DEFINE ix == Entropy("other", b, draw, TRUE)
    <3>2. Execute({work}, ix)
      BY <2>7 DEF LookAlike
    <3> HIDE DEF ix
    <3> QED
      BY <2>7, <3>1, <3>2, ExecuteOK
  <2>8. ASSUME NEW b \in BetKeys, NEW draw \in Draws, NEW plain \in BOOLEAN,
               CommitEntropy(b, draw, plain), UNCHANGED slot
        PROVE  TypeOK'
    BY <2>0, <2>8, ExecuteOK DEF CommitEntropy
  <2>9. ASSUME CommitTransaction \/ Abort, UNCHANGED slot
        PROVE  TypeOK'
    <3>1. AccountsOK(ledger') /\ AccountsOK(work') /\ executed' = 0 /\ slot' = slot
      BY <2>0, <2>9 DEF CommitTransaction, Commit, Abort, NewTransaction
    <3> QED
      BY <3>1, TransactionsAssumption DEF TypeOK, AccountsOK
  <2>10. ASSUME Tick
         PROVE  TypeOK'
    <3>1. slot' \in 0 .. MaxSlot
      BY <2>10, DiceAssumption, SMT DEF Tick, TypeOK
    <3> QED
      BY <2>10, <3>1 DEF Tick, TypeOK, AccountsOK
  <2>11. CASE UNCHANGED vars
    BY <2>11 DEF vars, TypeOK, AccountsOK
  <2> QED
    BY <2>1, <2>2, <2>3, <2>4, <2>5, <2>6, <2>7, <2>8, <2>9, <2>10, <2>11 DEF Next, Step
<1> QED
  BY <1>1, <1>2, PTL DEF Spec

\* The house keeps its edge on every bet and no more than its edge and the
\* rounding, and no winner gets less than its stake.
THEOREM OpenBetsAlwaysFair == Spec => []OpenBetsAreFair
<1>1. TypeOK => OpenBetsAreFair
  BY BetIsFair DEF TypeOK, AccountsOK, OpenBetsAreFair
<1> QED
  BY <1>1, TypesPreserved, PTL

-----------------------------------------------------------------------------
(* The kinds of steps *)

\* The evidence at hand is a record of the forms that Signature and Entropy
\* build, and the draws in it are those the houses make.  (A field of any other
\* instruction cannot be mistaken for them.)
EvidenceForm ==
  \/ prev \in {NoInstruction, NoEvidence}
  \/ \E h \in Houses, m \in Messages, sig \in Draws, plain \in BOOLEAN :
       prev = Signature(h, m, sig, plain)
  \/ \E program \in {"dice", "other"}, b \in BetKeys, e \in Draws, plain \in BOOLEAN :
       prev = Entropy(program, b, e, plain)

\* Between transactions there is nothing to roll back.
IdleIsCommitted == executed = 0 => work = ledger

Inv == TypeOK /\ EvidenceForm /\ IdleIsCommitted

\* The types, the evidence and the idle ledger hold in every reachable state.
LEMMA InvHolds ==
  Spec => []Inv
<1>1. Init => EvidenceForm /\ IdleIsCommitted
  BY DEF Init, StartsIdle, EvidenceForm, IdleIsCommitted
<1>2. ASSUME TypeOK, EvidenceForm, IdleIsCommitted, [Next]_vars
      PROVE  EvidenceForm' /\ IdleIsCommitted'
  <2>0. executed \in Nat
    BY <1>2, TransactionsAssumption, SMT DEF TypeOK
  <2>1. ASSUME NEW R, NEW ix, Execute(R, ix), prev' = ix => EvidenceForm'
        PROVE  EvidenceForm' /\ IdleIsCommitted'
    <3>1. (prev' = ix \/ prev' = prev) /\ executed' = executed + 1
      BY <2>1 DEF Execute, ExecuteOwn, ExecuteCalled, Work
    <3>2. executed' # 0
      BY <2>0, <3>1, SMT
    <3>3. prev' = prev => EvidenceForm'
      BY <1>2 DEF EvidenceForm
    <3> QED
      BY <2>1, <3>1, <3>2, <3>3 DEF IdleIsCommitted
  <2>2. ASSUME NEW R, Execute(R, NoEvidence)
        PROVE  EvidenceForm' /\ IdleIsCommitted'
    <3>1. prev' = NoEvidence => EvidenceForm'
      BY DEF EvidenceForm
    <3> QED
      BY <2>1, <2>2, <3>1
  <2>3. ASSUME NEW h \in Houses, NEW m \in Messages, NEW sig \in Draws, NEW plain \in BOOLEAN,
               NEW R, Execute(R, Signature(h, m, sig, plain))
        PROVE  EvidenceForm' /\ IdleIsCommitted'
    <3> DEFINE ix == Signature(h, m, sig, plain)
    <3>1. prev' = ix => EvidenceForm'
      BY Zenon DEF EvidenceForm
    <3>2. Execute(R, ix)
      BY <2>3
    <3> HIDE DEF ix
    <3> QED
      BY <2>1, <3>1, <3>2
  <2>4. ASSUME NEW program \in {"dice", "other"}, NEW b \in BetKeys, NEW e \in Draws,
               NEW plain \in BOOLEAN, NEW R, Execute(R, Entropy(program, b, e, plain))
        PROVE  EvidenceForm' /\ IdleIsCommitted'
    <3> DEFINE ix == Entropy(program, b, e, plain)
    <3>1. prev' = ix => EvidenceForm'
      BY Zenon DEF EvidenceForm
    <3>2. Execute(R, ix)
      BY <2>4
    <3> HIDE DEF ix
    <3> QED
      BY <2>1, <3>1, <3>2
  <2>5. ASSUME NEW h \in Houses, NEW n, Initialize(h, n)
        PROVE  EvidenceForm' /\ IdleIsCommitted'
    BY <2>2, <2>5 DEF Initialize
  <2>6. ASSUME NEW h \in Houses, NEW m \in Messages, NEW sig \in Draws, NEW plain \in BOOLEAN,
               VerifySignature(h, m, sig, plain)
        PROVE  EvidenceForm' /\ IdleIsCommitted'
    BY <2>3, <2>6 DEF VerifySignature, Execute
  <2>7. ASSUME NEW b, NEW amount, NEW roll, PlaceBet(b, amount, roll)
        PROVE  EvidenceForm' /\ IdleIsCommitted'
    BY <2>2, <2>7 DEF PlaceBet
  <2>8. ASSUME NEW b, RefundBet(b) \/ ResolveFromEntropy(b) \/ \E draw : ResolveBet(b, draw)
        PROVE  EvidenceForm' /\ IdleIsCommitted'
    BY <2>2, <2>8 DEF RefundBet, ResolveFromEntropy, ResolveBet
  <2>9. ASSUME NEW b \in BetKeys, NEW draw \in Draws, LookAlike(b, draw)
        PROVE  EvidenceForm' /\ IdleIsCommitted'
    <3>1. ASSUME NEW plain \in BOOLEAN, plain = TRUE
          PROVE  EvidenceForm' /\ IdleIsCommitted'
      <4>1. Execute({work}, Entropy("other", b, draw, plain))
        BY <2>9, <3>1, Zenon DEF LookAlike
      <4> QED
        BY <2>4, <4>1
    <3> QED
      BY <3>1
  <2>10. ASSUME NEW b \in BetKeys, NEW draw \in Draws, NEW plain \in BOOLEAN,
                CommitEntropy(b, draw, plain)
         PROVE  EvidenceForm' /\ IdleIsCommitted'
    BY <2>4, <2>10 DEF CommitEntropy
  <2>11. ASSUME CommitTransaction \/ Abort
         PROVE  EvidenceForm' /\ IdleIsCommitted'
    BY <2>11 DEF CommitTransaction, Commit, Abort, NewTransaction, EvidenceForm, IdleIsCommitted
  <2>12. CASE Tick \/ UNCHANGED vars
    BY <1>2, <2>12 DEF Tick, vars, EvidenceForm, IdleIsCommitted
  <2> QED
    BY <1>2, <2>5, <2>6, <2>7, <2>8, <2>9, <2>10, <2>11, <2>12 DEF Next, Step
<1> QED
  BY <1>1, <1>2, TypesPreserved, PTL DEF Spec, Inv

\* One more instruction of the open transaction.
Executed == Executes /\ UNCHANGED <<ledger, slot>>

\* The house h adds n lamports to its vault.
Adds(h, n) ==
  /\ Executed /\ n \in Nat
  /\ work'.bets = work.bets
  /\ Moved(work, work', Wallet(h), Vault(h), n)

\* An instruction that is evidence, or looks like it.
Shows == Executed /\ work' = work

Opens(b, amount, roll) == Executed /\ Staked(work, work', b, amount, roll)

\* The terms on which the vault may pay n for the bet b.
Terms(b, n) ==
  \/ Overdue(work.bets[b]) /\ n = work.bets[b].amount
  \/ \E draw \in Draws : prev \in Evidence(b, draw) /\ n \in Due(work.bets[b], draw)

Closes(b, n) ==
  /\ Executed
  /\ b \in DOMAIN work.bets
  /\ Paid(work, work', b, n)
  /\ Terms(b, n)

\* A signature the program accepts is the house's, on this bet.
LEMMA SignedIsEvidence ==
  ASSUME EvidenceForm, NEW b \in BetKeys, NEW sig \in Draws, Signed(work, prev, b, sig)
  PROVE  prev \in Evidence(b, sig)
  <1>1. PICK h \in Houses, m \in Messages, draw \in Draws, plain \in BOOLEAN :
               prev = Signature(h, m, draw, plain)
    BY DEF EvidenceForm, Signed, NoInstruction, NoEvidence, Entropy
  <1>2. h = House(b) /\ m = Message(b, work.bets[b]) /\ draw = sig
    BY <1>1 DEF Signed, Signature
  <1>3. plain = TRUE
    BY <1>1, Zenon DEF Signed, Signature
  <1>4. prev = Signature(House(b), Message(b, work.bets[b]), sig, TRUE)
    BY <1>1, <1>2, <1>3, Zenon
  <1> QED
    BY <1>4, Zenon DEF Evidence

\* A commitment the program accepts is the house's, to this bet.
LEMMA CommittedIsEvidence ==
  ASSUME EvidenceForm, NEW b \in BetKeys, Committed(work, prev, b)
  PROVE  prev.draw \in Draws /\ prev \in Evidence(b, prev.draw)
  <1>1. PICK program \in {"dice", "other"}, c \in BetKeys, e \in Draws, plain \in BOOLEAN :
               prev = Entropy(program, c, e, plain)
    <2>1. prev # NoInstruction
      BY DEF Committed, NoInstruction
    <2>2. prev # NoEvidence
      <3>1. ~NoEvidence.plain
        BY Zenon DEF NoEvidence
      <3> QED
        BY <3>1, Zenon DEF Committed
    <2>3. ASSUME NEW h \in Houses, NEW m \in Messages, NEW sig \in Draws, NEW plain \in BOOLEAN,
                 prev = Signature(h, m, sig, plain)
          PROVE  FALSE
      BY <2>3 DEF Committed, Signature
    <2> QED
      BY <2>1, <2>2, <2>3, Zenon DEF EvidenceForm
  <1>2. program = "dice" /\ c = b /\ prev.draw = e
    BY <1>1 DEF Committed, Entropy
  <1>3. plain = TRUE
    BY <1>1, Zenon DEF Committed, Entropy
  <1>4. prev = Entropy("dice", b, e, TRUE)
    BY <1>1, <1>2, <1>3, Zenon
  <1>5. prev \in Evidence(b, e)
    BY <1>4, Zenon DEF Evidence
  <1> QED
    BY <1>2, <1>5

\* An instruction, of the transaction or called, is one step of the open
\* transaction.
LEMMA ExecutedOnce ==
  ASSUME NEW R, NEW ix, Execute(R, ix), UNCHANGED slot
  PROVE  work' \in R /\ Executed
  BY DEF Execute, ExecuteOwn, ExecuteCalled, Work, Executed, Executes

\* Every step adds to a vault, shows evidence, opens a bet, closes one by its
\* terms, or ends the transaction.
LEMMA StepKinds ==
  ASSUME Inv, Next
  PROVE  \/ \E h \in Houses, n \in Nat : Adds(h, n)
         \/ Shows
         \/ \E b \in BetKeys, amount \in U64, roll \in 1 .. MaxRoll : Opens(b, amount, roll)
         \/ \E b \in BetKeys, n \in Nat : Closes(b, n)
         \/ (CommitTransaction \/ Abort) /\ UNCHANGED slot
         \/ Tick
  <1>0. AccountsOK(work) /\ slot \in Nat /\ EvidenceForm
    BY DEF Inv, TypeOK
  <1>1. ASSUME NEW h \in Houses, NEW n \in Funds, Initialize(h, n), UNCHANGED slot
        PROVE  n \in Nat /\ Adds(h, n)
    <2>1. Wallet(h) \in Holders /\ Vault(h) \in Holders /\ n \in Nat /\ Wallet(h) # Vault(h)
      BY DiceAssumption, Addresses DEF Holders, U64
    <2>2. work' \in Transfer(work, Wallet(h), Vault(h), n) /\ Executed
      BY <1>1, ExecutedOnce DEF Initialize
    <2>3. work'.bets = work.bets /\ Moved(work, work', Wallet(h), Vault(h), n)
      BY <1>0, <2>1, <2>2, TransferOK, TransferMoves
    <2> QED
      BY <2>1, <2>2, <2>3 DEF Adds
  <1>2. ASSUME NEW h, NEW m, NEW sig, NEW plain,
               VerifySignature(h, m, sig, plain), UNCHANGED slot
        PROVE  Shows
    BY <1>2, ExecutedOnce DEF VerifySignature, Execute, Shows
  <1>3. ASSUME NEW b \in BetKeys, NEW amount \in Stakes, NEW roll \in Rolls,
               PlaceBet(b, amount, roll), UNCHANGED slot
        PROVE  amount \in U64 /\ roll \in 1 .. MaxRoll /\ Opens(b, amount, roll)
    <2>1. amount \in U64
      BY DiceAssumption
    <2>2. work' \in Placed(work, b, amount, roll) /\ Executed
      BY <1>3, ExecutedOnce DEF PlaceBet
    <2> QED
      BY <1>0, <2>1, <2>2, PlacedStakes DEF Opens, Staked, Acceptable
  <1>4. ASSUME NEW b \in BetKeys, RefundBet(b), UNCHANGED slot
        PROVE  \E n \in Nat : Closes(b, n)
    <2>1. work' \in Refunded(work, b) /\ Executed
      BY <1>4, ExecutedOnce DEF RefundBet
    <2>2. /\ b \in DOMAIN work.bets /\ Overdue(work.bets[b])
          /\ Paid(work, work', b, work.bets[b].amount)
      BY <1>0, <2>1, RefundPays
    <2>3. work.bets[b].amount \in Nat
      BY <1>0, <2>2 DEF AccountsOK, Bet, U64
    <2> QED
      BY <2>1, <2>2, <2>3 DEF Closes, Terms
  <1>5. ASSUME NEW b \in BetKeys, NEW draw \in Draws, b \in DOMAIN work.bets,
               prev \in Evidence(b, draw),
               Execute(Settled(work, b, draw), NoEvidence), UNCHANGED slot
        PROVE  \E n \in Nat : Closes(b, n)
    <2>1. work' \in Settled(work, b, draw) /\ Executed
      BY <1>5, ExecutedOnce
    <2>2. PaidDue(work, work', b, draw)
      BY <1>0, <2>1, SettlementPays
    <2>3. PICK n \in Due(work.bets[b], draw) : Paid(work, work', b, n)
      BY <2>2 DEF PaidDue
    <2>4. n \in Nat
      BY <2>3 DEF Paid
    <2>5. Terms(b, n)
      BY <1>5, <2>3 DEF Terms
    <2> QED
      BY <1>5, <2>1, <2>3, <2>4, <2>5 DEF Closes
  <1>6. ASSUME NEW b \in BetKeys, ResolveFromEntropy(b), UNCHANGED slot
        PROVE  \E n \in Nat : Closes(b, n)
    <2>1. Committed(work, prev, b) /\ b \in DOMAIN work.bets
      BY <1>6 DEF ResolveFromEntropy, Committed
    <2>2. prev.draw \in Draws /\ prev \in Evidence(b, prev.draw)
      BY <1>0, <2>1, CommittedIsEvidence
    <2> QED
      BY <1>5, <1>6, <2>1, <2>2 DEF ResolveFromEntropy
  <1>7. ASSUME NEW b \in BetKeys, NEW draw \in Draws, ResolveBet(b, draw), UNCHANGED slot
        PROVE  \E n \in Nat : Closes(b, n)
    <2>1. Signed(work, prev, b, draw) /\ b \in DOMAIN work.bets
      BY <1>7 DEF ResolveBet, Signed
    <2>2. prev \in Evidence(b, draw)
      BY <1>0, <2>1, SignedIsEvidence
    <2> QED
      BY <1>5, <1>7, <2>1, <2>2 DEF ResolveBet
  <1>8. ASSUME NEW b, NEW draw, LookAlike(b, draw), UNCHANGED slot
        PROVE  Shows
    <2>1. ASSUME NEW plain \in BOOLEAN, plain = TRUE
          PROVE  Shows
      <3>1. Execute({work}, Entropy("other", b, draw, plain))
        BY <1>8, <2>1, Zenon DEF LookAlike
      <3> QED
        BY <1>8, <3>1, ExecutedOnce DEF Shows
    <2> QED
      BY <2>1
  <1>9. ASSUME NEW b, NEW draw, NEW plain \in BOOLEAN,
               CommitEntropy(b, draw, plain), UNCHANGED slot
        PROVE  Shows
    BY <1>9, ExecutedOnce DEF CommitEntropy, Shows
  <1>10. CASE Tick
    BY <1>10
  <1>11. CASE Step /\ UNCHANGED slot
    BY <1>1, <1>2, <1>3, <1>4, <1>6, <1>7, <1>8, <1>9, <1>11, Zenon DEF Step
  <1> QED
    BY <1>10, <1>11 DEF Next

-----------------------------------------------------------------------------
(* One payment for each bet, and on its terms *)

\* Only closing a bet takes lamports out of a vault: the vault of that bet.
LEMMA VaultsPayForBets ==
  ASSUME Inv, Next, NEW h \in Houses, Executes, Gain(Vault(h)) < 0
  PROVE  \E b \in BetKeys, n \in Nat : House(b) = h /\ Closes(b, n)
  <1>0. /\ \A a \in Holders : work.lamports[a] \in Nat
        /\ \A k \in Houses : Vault(k) \in Holders
        /\ executed \in Nat
    BY TransactionsAssumption, SMT DEF Inv, TypeOK, AccountsOK, Holders
  <1>1. work'.lamports[Vault(h)] # work.lamports[Vault(h)]
    BY <1>0, SMT DEF Gain
  <1>2. ASSUME NEW k \in Houses, NEW n \in Nat, Adds(k, n)
        PROVE  FALSE
    <2>1. CASE Vault(h) = Vault(k)
      <3>1. work'.lamports[Vault(h)] = work.lamports[Vault(h)] + n
        BY <1>2, <2>1 DEF Adds, Moved
      <3> QED
        BY <1>0, <3>1, SMT DEF Gain
    <2>2. CASE Vault(h) # Vault(k)
      BY <1>0, <1>1, <1>2, <2>2, Addresses DEF Adds, Moved
    <2> QED
      BY <2>1, <2>2
  <1>3. ~Shows
    BY <1>1 DEF Shows
  <1>4. ASSUME NEW b \in BetKeys, NEW amount \in U64, NEW roll, Opens(b, amount, roll)
        PROVE  FALSE
    <2>1. CASE Vault(h) = Vault(House(b))
      <3>1. work'.lamports[Vault(h)] = work.lamports[Vault(h)] + amount
        BY <1>4, <2>1 DEF Opens, Staked
      <3>2. amount \in Nat
        BY DEF U64
      <3> QED
        BY <1>0, <3>1, <3>2, SMT DEF Gain
    <2>2. CASE Vault(h) # Vault(House(b))
      BY <1>1, <1>4, <2>2 DEF Opens, Staked
    <2> QED
      BY <2>1, <2>2
  <1>5. ~(CommitTransaction \/ Abort) /\ ~Tick
    <2>1. executed' # 0 /\ executed' # executed
      BY <1>0, SMT DEF Executes
    <2> QED
      BY <2>1 DEF CommitTransaction, Commit, Abort, NewTransaction, Tick
  <1>6. PICK b \in BetKeys, n \in Nat : Closes(b, n)
    BY <1>2, <1>3, <1>4, <1>5, StepKinds
  <1>7. House(b) = h
    <2> SUFFICES ASSUME House(b) # h PROVE FALSE
      OBVIOUS
    <2>1. Vault(h) # Vault(House(b)) /\ Vault(h) # Wallet(Player(b))
      BY Addresses
    <2> QED
      BY <1>0, <1>1, <1>6, <2>1 DEF Closes, Paid
  <1> QED
    BY <1>6, <1>7

\* A closed bet is over, and the other bets are as they were.
LEMMA ClosesEnds ==
  ASSUME NEW b, NEW n, Closes(b, n)
  PROVE  Ends(b) /\ work'.bets = Without(work.bets, b)
  BY DEF Closes, Paid, Without, Ends, Executed

\* A bet costs its vault one payment at most: every instruction that takes
\* lamports out of a vault ends one bet of that house, and they go to its player
\* and to nobody else.
THEOREM OnePaymentForABet == Spec => OneBetOnePayment
<1>1. ASSUME Inv, Next, NEW h \in Houses, Executes, Gain(Vault(h)) < 0
      PROVE  \E b \in BetKeys :
               /\ House(b) = h /\ Ends(b)
               /\ work'.bets = Without(work.bets, b)
               /\ Gain(Wallet(Player(b))) = BetRent - Gain(Vault(h))
               /\ \A a \in Holders \ {Wallet(Player(b)), Vault(h)} : Gain(a) = 0
  <2>1. PICK b \in BetKeys, n \in Nat : House(b) = h /\ Closes(b, n)
    BY <1>1, VaultsPayForBets
  <2>2. Ends(b) /\ work'.bets = Without(work.bets, b)
    BY <2>1, ClosesEnds
  <2>3. \A a \in Holders : work.lamports[a] \in Nat
    BY <1>1 DEF Inv, TypeOK, AccountsOK
  <2>4. Wallet(Player(b)) \in Holders /\ Vault(h) \in Holders /\ BetRent \in Nat
    BY <2>1, HoldersOf, DiceAssumption
  <2>5. /\ work'.lamports[Vault(h)] = work.lamports[Vault(h)] - n
        /\ work'.lamports[Wallet(Player(b))] = work.lamports[Wallet(Player(b))] + n + BetRent
        /\ \A a \in Holders \ {Wallet(Player(b)), Vault(h)} : work'.lamports[a] = work.lamports[a]
    BY <2>1 DEF Closes, Paid
  <2>6. Gain(Wallet(Player(b))) = BetRent - Gain(Vault(h))
    BY <2>3, <2>4, <2>5, SMT DEF Gain
  <2>7. \A a \in Holders \ {Wallet(Player(b)), Vault(h)} : Gain(a) = 0
    BY <2>3, <2>5, SMT DEF Gain
  <2> QED
    BY <2>1, <2>2, <2>6, <2>7
<1>2. Inv /\ [Next]_vars =>
        [\A h \in Houses : Executes /\ Gain(Vault(h)) < 0 =>
           \E b \in BetKeys :
             /\ House(b) = h /\ Ends(b)
             /\ work'.bets = Without(work.bets, b)
             /\ Gain(Wallet(Player(b))) = BetRent - Gain(Vault(h))
             /\ \A a \in Holders \ {Wallet(Player(b)), Vault(h)} : Gain(a) = 0]_vars
  BY <1>1
<1> QED
  BY <1>2, InvHolds, PTL DEF Spec, OneBetOnePayment

\* A bet ends overdue, with its whole stake, or with the house's evidence for it,
\* with the payout or with nothing as the pick is above the draw or not; the
\* player's rent comes back either way.
THEOREM BetsEndByTheirTerms == Spec => BetEndsByItsTerms
<1>1. ASSUME Inv, Next, NEW b \in BetKeys, Ends(b)
      PROVE  LET bet  == work.bets[b]
                 paid == Gain(Wallet(Player(b))) - BetRent
             IN  \/ Overdue(bet) /\ paid = bet.amount
                 \/ \E draw \in Draws :
                      /\ prev \in Evidence(b, draw)
                      /\ paid \in IF bet.roll > draw THEN Payout(bet) ELSE {0}
  <2>0. executed \in Nat
    BY <1>1, TransactionsAssumption, SMT DEF Inv, TypeOK
  <2>1. DOMAIN work'.bets # DOMAIN work.bets /\ executed' # 0 /\ executed' # executed
    BY <1>1, <2>0, SMT DEF Ends, Executes
  <2>2. ~(\E h \in Houses, n \in Nat : Adds(h, n)) /\ ~Shows
    BY <2>1 DEF Adds, Shows
  <2>3. ~(\E c \in BetKeys, amount \in U64, roll \in 1 .. MaxRoll : Opens(c, amount, roll))
    BY <1>1 DEF Opens, Staked, With, Ends
  <2>4. ~(CommitTransaction \/ Abort) /\ ~Tick
    BY <2>1 DEF CommitTransaction, Commit, Abort, NewTransaction, Tick
  <2>5. PICK c \in BetKeys, n \in Nat : Closes(c, n)
    BY <1>1, <2>2, <2>3, <2>4, StepKinds
  <2>6. c = b
    BY <1>1, <2>5, ClosesEnds DEF Without, Ends
  <2>7. work.lamports[Wallet(Player(b))] \in Nat /\ BetRent \in Nat
    BY <1>1, HoldersOf, DiceAssumption DEF Inv, TypeOK, AccountsOK
  <2>8. work'.lamports[Wallet(Player(b))] = work.lamports[Wallet(Player(b))] + n + BetRent
    BY <2>5, <2>6 DEF Closes, Paid
  <2>9. Gain(Wallet(Player(b))) - BetRent = n
    BY <2>7, <2>8, SMT DEF Gain
  <2>10. Terms(b, n)
    BY <2>5, <2>6 DEF Closes
  <2> QED
    BY <2>9, <2>10 DEF Terms, Due
<1>2. Inv /\ [Next]_vars =>
        [\A b \in BetKeys : Ends(b) =>
           LET bet  == work.bets[b]
               paid == Gain(Wallet(Player(b))) - BetRent
           IN  \/ Overdue(bet) /\ paid = bet.amount
               \/ \E draw \in Draws :
                    /\ prev \in Evidence(b, draw)
                    /\ paid \in IF bet.roll > draw THEN Payout(bet) ELSE {0}]_vars
  BY <1>1
<1> QED
  BY <1>2, InvHolds, PTL DEF Spec, BetEndsByItsTerms

-----------------------------------------------------------------------------
(* The house's book *)

\* Closing a bet takes it out of the book, if it is in it.
LEMMA BookLeaves ==
  ASSUME NEW b, work'.bets = Without(work.bets, b)
  PROVE  BetsOf(work') = [c \in DOMAIN BetsOf(work) \ {b} |-> BetsOf(work)[c]]
  BY DEF BetsOf, Without

\* The bets of other houses are not in the book.
LEMMA OtherBook ==
  ASSUME NEW b, House(b) # H,
         work'.bets = Without(work.bets, b) \/ \E bet : work'.bets = With(work.bets, b, bet)
  PROVE  BetsOf(work') = BetsOf(work)
  <1>1. CASE work'.bets = Without(work.bets, b)
    BY <1>1 DEF BetsOf, Without
  <1>2. ASSUME NEW bet, work'.bets = With(work.bets, b, bet)
        PROVE  BetsOf(work') = BetsOf(work)
    BY <1>2 DEF BetsOf, With
  <1> QED
    BY <1>1, <1>2

\* The book is about the bets as they are, and its house's vault.
LEMMA BookStays ==
  ASSUME UNCHANGED slot, UNCHANGED ledger,
         BetsOf(work') = BetsOf(work), VaultOf(work') = VaultOf(work)
  PROVE  UNCHANGED Book!bookVars
  BY DEF Book!bookVars, BetsOf, VaultOf

\* A deposit in a vault is the house's, or none of its business.
LEMMA BookFunds ==
  ASSUME Inv, NEW h \in Houses, NEW n \in Nat, Adds(h, n)
  PROVE  Book!Fund
  <1>1. BetsOf(work') = BetsOf(work)
    BY DEF Adds, BetsOf
  <1>2. Vault(H) \in Holders /\ Vault(H) # Wallet(h)
    BY HouseAssumption, Addresses DEF Holders
  <1>3. work.lamports[Vault(H)] \in Nat
    BY <1>2 DEF Inv, TypeOK, AccountsOK
  <1>4. \/ work'.lamports[Vault(H)] = work.lamports[Vault(H)] + n
        \/ work'.lamports[Vault(H)] = work.lamports[Vault(H)]
    BY <1>2 DEF Adds, Moved
  <1>5. VaultOf(work') >= VaultOf(work)
    BY <1>3, <1>4, SMT DEF VaultOf
  <1> QED
    BY <1>1, <1>5 DEF Adds, Executed, Book!Fund, BetsOf, VaultOf

\* A placed bet is accepted by its house, and no other house notices.
LEMMA BookAccepts ==
  ASSUME Inv, NEW b \in BetKeys, NEW amount \in U64, NEW roll \in 1 .. MaxRoll,
         Opens(b, amount, roll)
  PROVE  IF House(b) = H THEN Book!Accept(b, amount, roll) ELSE UNCHANGED Book!bookVars
  <1> DEFINE bet == [slot |-> slot, amount |-> amount, roll |-> roll]
  <1>1. /\ work'.bets = With(work.bets, b, bet) /\ b \notin DOMAIN work.bets
        /\ UNCHANGED <<ledger, slot>>
    BY DEF Opens, Staked, Executed
  <1>2. CASE House(b) = H
    <2>1. BetsOf(work') = [c \in DOMAIN BetsOf(work) \cup {b} |->
                             IF c = b THEN bet ELSE BetsOf(work)[c]]
      <3> HIDE DEF bet
      <3> QED
        BY <1>1, <1>2 DEF BetsOf, With
    <2>2. VaultOf(work') = VaultOf(work) + amount
      BY <1>2 DEF Opens, Staked, VaultOf
    <2>3. b \notin DOMAIN BetsOf(work)
      BY <1>1 DEF BetsOf
    <2>4. Book!Accept(b, amount, roll)
      BY <1>1, <2>1, <2>2, <2>3 DEF Book!Accept, BetsOf, VaultOf
    <2> QED
      BY <1>2, <2>4
  <1>3. CASE House(b) # H
    <2>1. BetsOf(work') = BetsOf(work)
      <3> HIDE DEF bet
      <3> QED
        BY <1>1, <1>3, OtherBook
    <2>2. VaultOf(work') = VaultOf(work)
      BY <1>3, Addresses, HouseAssumption DEF Opens, Staked, VaultOf
    <2> QED
      BY <1>1, <1>3, <2>1, <2>2, BookStays
  <1> QED
    BY <1>2, <1>3

\* A winner gets its stake at the odds, less the edge.
LEMMA PayoutAtOdds ==
  ASSUME NEW bet \in Bet, NEW draw \in Draws, bet.roll > draw, NEW n \in Payout(bet)
  PROVE  n \in 0 .. U64Max /\ Book!Odds(bet, n)
  <1>1. bet.roll \in Nat /\ draw \in Nat /\ draw > 0
    BY DiceAssumption, SMT DEF Bet, Face
  <1>2. bet.roll > 1
    BY <1>1, SMT
  <1>3. n \in 0 .. U64Max
    BY DEF Payout, U64
  <1>4. /\ n * (bet.roll - 1) * (Scale \div Faces) <= bet.amount * (Scale - Edge)
        /\ bet.amount * (Scale - Edge) < (n + 1) * (bet.roll - 1) * (Scale \div Faces)
        /\ n >= bet.amount
    BY <1>2, BetIsFair DEF Fair
  <1>5. n \in Nat /\ bet.amount \in Nat
    BY <1>3, DiceAssumption, SMT DEF Bet, U64
  <1>6. bet.amount <= n
    BY <1>4, <1>5, SMT
  <1> QED
    BY <1>2, <1>3, <1>4, <1>6 DEF Book!Odds

\* A bet of the house leaves the book lost, won or given back; no other house
\* notices.
LEMMA BookEnds ==
  ASSUME Inv, NEW b \in BetKeys, NEW n \in Nat, Closes(b, n)
  PROVE  IF House(b) = H
         THEN b \in DOMAIN BetsOf(work) /\ (Book!Lose(b) \/ Book!Win(b) \/ Book!GiveBack(b))
         ELSE UNCHANGED Book!bookVars
  <1>1. /\ work'.bets = Without(work.bets, b) /\ b \in DOMAIN work.bets
        /\ UNCHANGED <<ledger, slot>>
    BY DEF Closes, Paid, Executed
  <1>2. CASE House(b) = H
    <2>1. BetsOf(work') = [c \in DOMAIN BetsOf(work) \ {b} |-> BetsOf(work)[c]]
      BY <1>1, BookLeaves
    <2>2. VaultOf(work) >= n /\ VaultOf(work') = VaultOf(work) - n
      <3>1. VaultOf(work) \in Nat
        BY HouseAssumption DEF Inv, TypeOK, AccountsOK, VaultOf, Holders
      <3>2. n <= VaultOf(work) /\ VaultOf(work') = VaultOf(work) - n
        BY <1>2 DEF Closes, Paid, VaultOf
      <3> QED
        BY <3>1, <3>2, SMT
    <2>3. b \in DOMAIN BetsOf(work) /\ BetsOf(work)[b] = work.bets[b] /\ work.bets[b] \in Bet
      BY <1>1, <1>2 DEF BetsOf, Inv, TypeOK, AccountsOK
    <2>4. Book!End(b, n)
      BY <1>1, <2>1, <2>2 DEF Book!End, BetsOf, VaultOf
    <2>5. Terms(b, n)
      BY DEF Closes
    <2>6. ASSUME Overdue(work.bets[b]), n = work.bets[b].amount
          PROVE  Book!GiveBack(b)
      BY <2>3, <2>4, <2>6 DEF Overdue, Book!GiveBack
    <2>7. ASSUME NEW draw \in Draws, n \in Due(work.bets[b], draw)
          PROVE  Book!Lose(b) \/ Book!Win(b)
      <3>1. CASE work.bets[b].roll > draw
        <4>1. n \in Payout(work.bets[b])
          BY <2>7, <3>1 DEF Due
        <4>2. n \in 0 .. U64Max /\ Book!Odds(BetsOf(work)[b], n)
          BY <2>3, <3>1, <4>1, PayoutAtOdds
        <4> QED
          BY <2>4, <4>2 DEF Book!Win
      <3>2. CASE ~(work.bets[b].roll > draw)
        <4>1. n = 0
          BY <2>7, <3>2 DEF Due
        <4> QED
          BY <2>4, <4>1 DEF Book!Lose
      <3> QED
        BY <3>1, <3>2
    <2>8. Book!Lose(b) \/ Book!Win(b) \/ Book!GiveBack(b)
      BY <2>5, <2>6, <2>7, Zenon DEF Terms
    <2> QED
      BY <1>2, <2>3, <2>8
  <1>3. CASE House(b) # H
    <2>1. BetsOf(work') = BetsOf(work)
      BY <1>1, <1>3, OtherBook
    <2>2. VaultOf(work') = VaultOf(work)
      <3>1. Vault(H) # Vault(House(b)) /\ Vault(H) # Wallet(Player(b)) /\ Vault(H) \in Holders
        BY <1>3, HouseAssumption, Addresses DEF Holders
      <3> QED
        BY <3>1 DEF Closes, Paid, VaultOf
    <2> QED
      BY <1>1, <1>3, <2>1, <2>2, BookStays
  <1> QED
    BY <1>2, <1>3

\* The ends of a transaction, and the time between two.
LEMMA BookTransactions ==
  /\ CommitTransaction /\ UNCHANGED slot => Book!Commit
  /\ Abort /\ UNCHANGED slot => Book!Abort
  /\ Inv /\ Tick => Book!Tick
  <1>1. ASSUME CommitTransaction, UNCHANGED slot
        PROVE  Book!Commit
    <2>1. Vault(H) \in Holders
      BY HouseAssumption DEF Holders
    <2>2. VaultOf(work) = 0 \/ VaultOf(work) >= RentMin
      BY <1>1, <2>1 DEF CommitTransaction, RentExempt, VaultOf
    <2> QED
      BY <1>1, <2>2 DEF CommitTransaction, Commit, Book!Commit, BetsOf, VaultOf
  <1>2. ASSUME Abort, UNCHANGED slot
        PROVE  Book!Abort
    BY <1>2 DEF Abort, Book!Abort, BetsOf, VaultOf
  <1>3. ASSUME Inv, Tick
        PROVE  Book!Tick
    <2>1. work = ledger /\ slot' = slot + 1 /\ UNCHANGED <<ledger, work>>
      BY <1>3 DEF Inv, IdleIsCommitted, Tick
    <2> QED
      BY <2>1 DEF Book!Tick, BetsOf, VaultOf
  <1> QED
    BY <1>1, <1>2, <1>3

\* Whichever instructions, evidence, rollbacks and other houses' bets come in
\* between, the vault of a house and its bets change together, bet by bet, as in
\* HouseBook: DiceGame implements it for each of its houses.
THEOREM EveryHouseKeepsItsBook == Spec => HouseKeepsItsBook
<1>1. Init => Book!BookInit
  <2> SUFFICES ASSUME Init PROVE Book!BookInit
    OBVIOUS
  <2>1. Vault(H) \in Holders /\ Vault(H)[1] = "vault"
    BY HouseAssumption DEF Holders, Vault
  <2>2. /\ ledger = [bets     |-> [b \in {} |-> 0],
                     lamports |-> [a \in Holders |-> IF a[1] = "wallet" THEN Purse ELSE 0]]
        /\ work = ledger /\ slot = 0
    BY DEF Init, StartsIdle
  <2>3. VaultOf(ledger) = 0
    BY <2>1, <2>2 DEF VaultOf
  <2>4. BetsOf(ledger) = [b \in {} |-> 0]
    BY <2>2 DEF BetsOf
  <2> QED
    BY <2>2, <2>3, <2>4 DEF Book!BookInit
<1>2. Inv /\ [Next]_vars => [Book!BookNext]_(Book!bookVars)
  <2>1. ASSUME Inv, Next
        PROVE  Book!BookNext \/ UNCHANGED Book!bookVars
    <3>1. ASSUME NEW h \in Houses, NEW n \in Nat, Adds(h, n)
          PROVE  Book!BookNext
      BY <2>1, <3>1, BookFunds DEF Book!BookNext
    <3>2. ASSUME Shows
          PROVE  UNCHANGED Book!bookVars
      BY <3>2, BookStays DEF Shows, Executed
    <3>3. ASSUME NEW b \in BetKeys, NEW amount \in U64, NEW roll \in 1 .. MaxRoll,
                 Opens(b, amount, roll)
          PROVE  Book!BookNext \/ UNCHANGED Book!bookVars
      <4>1. amount \in MinBet .. U64Max
        BY <3>3, DiceAssumption, SMT DEF Opens, Staked, Acceptable, U64
      <4> QED
        BY <2>1, <3>3, <4>1, BookAccepts DEF Book!BookNext
    <3>4. ASSUME NEW b \in BetKeys, NEW n \in Nat, Closes(b, n)
          PROVE  Book!BookNext \/ UNCHANGED Book!bookVars
      BY <2>1, <3>4, BookEnds DEF Book!BookNext
    <3>5. ASSUME CommitTransaction \/ Abort, UNCHANGED slot
          PROVE  Book!BookNext
      BY <3>5, BookTransactions DEF Book!BookNext
    <3>6. ASSUME Tick
          PROVE  Book!BookNext
      BY <2>1, <3>6, BookTransactions DEF Book!BookNext
    <3> QED
      BY <2>1, <3>1, <3>2, <3>3, <3>4, <3>5, <3>6, StepKinds
  <2>2. ASSUME UNCHANGED vars
        PROVE  UNCHANGED Book!bookVars
    BY <2>2 DEF vars, Book!bookVars, BetsOf, VaultOf
  <2> QED
    BY <2>1, <2>2
<1> QED
  BY <1>1, <1>2, InvHolds, PTL DEF Spec, HouseKeepsItsBook, Book!BookSpec
=============================================================================
