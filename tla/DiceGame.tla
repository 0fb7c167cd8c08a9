------------------------------ MODULE DiceGame ------------------------------
(***************************************************************************)
(* The dice game: players bet lamports against a house, whose vault takes  *)
(* the stakes and pays the winners.  The house settles a bet with evidence *)
(* in the instruction before: its signature on the bet, verified by the    *)
(* ed25519 program, or entropy it committed to.  The player may take an    *)
(* unsettled stake back after a timeout.                                   *)
(*                                                                         *)
(* SHA-256 is not modelled: a signature or an entropy stands for the face  *)
(* it hashes to (together with the bet's key and slot, for an entropy).    *)
(***************************************************************************)
EXTENDS Transactions, Integers

CONSTANTS
  Houses, Players, Seeds,
  Faces,      \* the die (100)
  Scale,      \* denominator of the edge (10_000)
  Edge,       \* HOUSE_EDGE_BPS
  MaxRoll,    \* MAX_ROLL; MIN_ROLL is 1
  MinBet,     \* MIN_BET_LAMPORTS
  U64Max,
  Timeout,    \* slots a player waits for a refund (1000)
  BetRent,    \* what the account of a bet costs its player, until it is closed
  RentMin,    \* least balance of an account that has any
  Purse,      \* what each player and house owns at the start
  Stakes, Rolls, Draws, Funds,   \* what callers try
  MaxSlot     \* bound on the clock

Face == 1 .. Faces
U64  == 0 .. U64Max

\* The payout formula divides by 100 for Scale / Faces, and MaxRoll leaves a
\* winner its stake: 98 * 100 <= 10_000 - 150.
ASSUME DiceAssumption ==
  /\ Faces \in Nat \ {0} /\ Scale \in Nat \ {0} /\ Edge \in 0 .. Scale
  /\ Scale % Faces = 0
  /\ MaxRoll \in 1 .. Faces
  /\ (MaxRoll - 1) * (Scale \div Faces) <= Scale - Edge
  /\ U64Max \in Nat /\ MinBet \in U64
  /\ Timeout \in Nat /\ BetRent \in Nat /\ RentMin \in Nat /\ MaxSlot \in Nat
  /\ Purse \in Nat /\ (Purse = 0 \/ Purse >= RentMin)
  /\ Stakes \subseteq U64 /\ Rolls \subseteq Nat /\ Draws \subseteq Face
  /\ Funds \subseteq U64

VARIABLE slot         \* Clock::get()?.slot, the same for a whole transaction

vars == <<ledger, work, prev, executed, slot>>

\* The address of a bet is derived from the vault, the player and the seed.
BetKeys == Houses \X Players \X Seeds
House(b)  == b[1]
Player(b) == b[2]
Seed(b)   == b[3]

Bet == [slot : Nat, amount : U64, roll : 1 .. MaxRoll]

Wallet(u) == <<"wallet", u>>
Vault(h)  == <<"vault", h>>
Holders   == {Wallet(u) : u \in Houses \cup Players} \cup {Vault(h) : h \in Houses}

\* The open bets are the domain of `bets`.
Without(bets, b)   == [c \in DOMAIN bets \ {b} |-> bets[c]]
With(bets, b, bet) == [c \in DOMAIN bets \cup {b} |-> IF c = b THEN bet ELSE bets[c]]

AccountsOK(s) ==
  /\ s = [bets |-> s.bets, lamports |-> s.lamports]
  /\ DOMAIN s.bets \subseteq BetKeys
  /\ \A b \in DOMAIN s.bets : s.bets[b] \in Bet
  /\ s.lamports \in [Holders -> Nat]

TypeOK ==
  /\ AccountsOK(ledger) /\ AccountsOK(work)
  /\ executed \in 0 .. MaxIx
  /\ slot \in 0 .. MaxSlot

Init ==
  /\ ledger = [bets     |-> [b \in {} |-> 0],
               lamports |-> [a \in Holders |-> IF a[1] = "wallet" THEN Purse ELSE 0]]
  /\ StartsIdle
  /\ slot = 0

-----------------------------------------------------------------------------
(* What an instruction makes of the accounts s: a set, empty if it fails   *)

Credited(lamports, a, n) == [lamports EXCEPT ![a] = @ + n]
Debited(lamports, a, n)  == [lamports EXCEPT ![a] = @ - n]

\* The system program's transfer.
Transfer(s, from, to, n) ==
  IF n <= s.lamports[from]
  THEN {[s EXCEPT !.lamports = Credited(Debited(s.lamports, from, n), to, n)]}
  ELSE {}

\* Mutant: every face of the die can be picked.
Acceptable_AnyRoll(amount, roll) == amount >= MinBet /\ roll \in 1 .. Faces

\* MIN_ROLL and MAX_ROLL, MIN_BET_LAMPORTS.
Acceptable(amount, roll) == amount >= MinBet /\ roll \in 1 .. MaxRoll

\* Mutant: an open bet is overwritten.
Created_Again(s, b, bet) ==
  IF BetRent <= s.lamports[Wallet(Player(b))]
  THEN {[s EXCEPT !.bets = With(s.bets, b, bet),
                  !.lamports = Debited(s.lamports, Wallet(Player(b)), BetRent)]}
  ELSE {}

\* The account of the bet is created, which the player pays for; an account
\* that exists is not created again.
Created(s, b, bet) ==
  IF b \notin DOMAIN s.bets /\ BetRent <= s.lamports[Wallet(Player(b))]
  THEN {[s EXCEPT !.bets = With(s.bets, b, bet),
                  !.lamports = Debited(s.lamports, Wallet(Player(b)), BetRent)]}
  ELSE {}

Placed(s, b, amount, roll) ==
  IF ~Acceptable(amount, roll) THEN {}
  ELSE UNION {Transfer(t, Wallet(Player(b)), Vault(House(b)), amount) :
              t \in Created(s, b, [slot |-> slot, amount |-> amount, roll |-> roll])}

\* Mutant: the account of the bet stays.
Closed_NotAtAll(s, b) ==
  [s EXCEPT !.lamports = Credited(s.lamports, Wallet(Player(b)), BetRent)]

\* close = player
Closed(s, b) ==
  [s EXCEPT !.bets = Without(s.bets, b),
            !.lamports = Credited(s.lamports, Wallet(Player(b)), BetRent)]

PaidTo(s, b, n) ==
  {Closed(t, b) : t \in Transfer(s, Vault(House(b)), Wallet(Player(b)), n)}

Overdue(bet) == slot - bet.slot > Timeout

Refunded(s, b) ==
  IF b \in DOMAIN s.bets /\ Overdue(s.bets[b])
  THEN PaidTo(s, b, s.bets[b].amount)
  ELSE {}

\* Mutant: the factor is that of the faces, not of the winning ones.
Payout_AllFaces(bet) ==
  {n \in {((bet.amount * (Scale - Edge)) \div bet.roll) \div (Scale \div Faces)} : n \in U64}

\* The picks below bet.roll win.
Payout(bet) ==
  {n \in {((bet.amount * (Scale - Edge)) \div (bet.roll - 1)) \div (Scale \div Faces)} : n \in U64}

Settled(s, b, draw) ==
  IF s.bets[b].roll > draw
  THEN UNION {PaidTo(s, b, n) : n \in Payout(s.bets[b])}
  ELSE {Closed(s, b)}

-----------------------------------------------------------------------------
(* Evidence in the instruction before.  `plain` says that it has exactly   *)
(* the layout the program asks for: one signature with its key and message *)
(* in the same instruction and no accounts; 4 accounts and 33 bytes.       *)

Signature(h, message, sig, plain) ==
  [program |-> "ed25519", plain |-> plain, house |-> h, of |-> message, draw |-> sig]
Entropy(program, b, e, plain) ==
  [program |-> program, plain |-> plain, house |-> House(b), of |-> b, draw |-> e]
NoEvidence == [program |-> "dice", plain |-> FALSE]

\* Bet::to_slice
Message(b, bet) ==
  [player |-> Player(b), seed |-> Seed(b),
   slot |-> bet.slot, amount |-> bet.amount, roll |-> bet.roll]

\* Mutant: the signed message is not compared.
Signed_AnyMessage(s, ix, b, sig) ==
  /\ b \in DOMAIN s.bets
  /\ ix.program = "ed25519" /\ ix.plain
  /\ ix.house = House(b) /\ ix.draw = sig

\* verify_ed25519_signature
Signed(s, ix, b, sig) ==
  /\ b \in DOMAIN s.bets
  /\ ix.program = "ed25519" /\ ix.plain
  /\ ix.house = House(b)
  /\ ix.draw = sig
  /\ ix.of = Message(b, s.bets[b])

\* verify_entropy_commit
Committed(s, ix, b) ==
  /\ b \in DOMAIN s.bets
  /\ ix.program = "dice" /\ ix.plain
  /\ ix.of = b

-----------------------------------------------------------------------------
(* Steps                                                                   *)

Initialize(h, n) ==
  Execute(Transfer(work, Wallet(h), Vault(h), n), NoEvidence)

PlaceBet(b, amount, roll) ==
  Execute(Placed(work, b, amount, roll), NoEvidence)

RefundBet(b) ==
  Execute(Refunded(work, b), NoEvidence)

ResolveBet(b, sig) ==
  /\ Signed(work, prev, b, sig)
  /\ Execute(Settled(work, b, sig), NoEvidence)

\* The house signs; the program looks at the accounts and not at the entropy.
CommitEntropy(b, e, plain) ==
  Execute(IF b \in DOMAIN work.bets THEN {work} ELSE {}, Entropy("dice", b, e, plain))

ResolveFromEntropy(b) ==
  /\ Committed(work, prev, b)
  /\ Execute(Settled(work, b, prev.draw), NoEvidence)

\* The ed25519 program, which cannot be called: a house may have signed any bet,
\* open or not.
Messages == [player : Players, seed : Seeds, slot : 0 .. MaxSlot,
             amount : Stakes, roll : Rolls]
VerifySignature(h, message, sig, plain) ==
  ExecuteOwn({work}, Signature(h, message, sig, plain))

\* Another program, with the data and accounts of a commit_entropy.
LookAlike(b, e) ==
  Execute({work}, Entropy("other", b, e, TRUE))

\* The runtime commits no transaction that leaves an account with less than
\* the rent-exempt minimum, unless with nothing.
RentExempt(s) == \A a \in Holders : s.lamports[a] = 0 \/ s.lamports[a] >= RentMin

CommitTransaction == RentExempt(work) /\ Commit

\* Time passes between transactions.
Tick ==
  /\ executed = 0
  /\ slot < MaxSlot
  /\ slot' = slot + 1
  /\ UNCHANGED <<ledger, work, prev, executed>>

Step ==
  \/ \E h \in Houses :
       \/ \E n \in Funds : Initialize(h, n)
       \/ \E m \in Messages, sig \in Draws, plain \in BOOLEAN : VerifySignature(h, m, sig, plain)
  \/ \E b \in BetKeys :
       \/ \E amount \in Stakes, roll \in Rolls : PlaceBet(b, amount, roll)
       \/ RefundBet(b)
       \/ ResolveFromEntropy(b)
       \/ \E draw \in Draws :
            \/ ResolveBet(b, draw)
            \/ LookAlike(b, draw)
            \/ \E plain \in BOOLEAN : CommitEntropy(b, draw, plain)
  \/ CommitTransaction
  \/ Abort

Next == (Step /\ UNCHANGED slot) \/ Tick

Spec == Init /\ [][Next]_vars

-----------------------------------------------------------------------------
(* Properties *)

Executes == executed' = executed + 1
Ends(b)  == Executes /\ b \in DOMAIN work.bets /\ b \notin DOMAIN work'.bets
Gain(a)  == work'.lamports[a] - work.lamports[a]

\* A bet costs its vault one payment at most: every instruction that takes
\* lamports out of a vault ends one bet of that house, and they go to its player
\* and to nobody else.
OneBetOnePayment ==
  [][\A h \in Houses : Executes /\ Gain(Vault(h)) < 0 =>
       \E b \in BetKeys :
         /\ House(b) = h /\ Ends(b)
         /\ work'.bets = Without(work.bets, b)
         /\ Gain(Wallet(Player(b))) = BetRent - Gain(Vault(h))
         /\ \A a \in Holders \ {Wallet(Player(b)), Vault(h)} : Gain(a) = 0]_vars

\* The evidence for b: its own house's, about this very bet, just before.
Evidence(b, draw) ==
  {Signature(House(b), Message(b, work.bets[b]), draw, TRUE), Entropy("dice", b, draw, TRUE)}

\* A bet ends in one of two ways.  Overdue, with its whole stake; or with the
\* house's evidence for it, with the payout if the pick is above the draw and
\* with nothing if not.  The player's rent comes back either way.
BetEndsByItsTerms ==
  [][\A b \in BetKeys : Ends(b) =>
       LET bet  == work.bets[b]
           paid == Gain(Wallet(Player(b))) - BetRent
       IN  \/ Overdue(bet) /\ paid = bet.amount
           \/ \E draw \in Draws :
                /\ prev \in Evidence(b, draw)
                /\ paid \in IF bet.roll > draw THEN Payout(bet) ELSE {0}]_vars

\* The terms of an open bet.  The winning picks together get the stake back as
\* often as there are faces, less the edge ("House edge: 150 bps applied to
\* winning payouts"), and not a lamport less than the rounding takes; and a
\* winner never gets less than its stake.
Fair(bet) ==
  bet.roll > 1 =>
    \A n \in Payout(bet) :
      LET all(m) == m * (bet.roll - 1) * (Scale \div Faces)
      IN  /\ all(n) <= bet.amount * (Scale - Edge)
          /\ bet.amount * (Scale - Edge) < all(n + 1)
          /\ n >= bet.amount

OpenBetsAreFair ==
  \A s \in {ledger, work} : \A b \in DOMAIN s.bets : Fair(s.bets[b])

\* README.md: refund_bet gives a player whose bet is overdue the full stake.
OverdueBetIsRefundable ==
  \A b \in DOMAIN ledger.bets : Overdue(ledger.bets[b]) => Refunded(ledger, b) # {}
=============================================================================
