---------------------------- MODULE DiceGameBook ----------------------------
(***************************************************************************)
(* DiceGame implements HouseBook, for any one of its houses: the mapping   *)
(* keeps the house's vault and its bets, and forgets the players' wallets, *)
(* the other houses and the instruction before.                            *)
(***************************************************************************)
EXTENDS DiceGame

CONSTANT H           \* the house looked at: any of them

ASSUME HouseAssumption == H \in Houses

BetsOf(s) == [b \in {c \in DOMAIN s.bets : House(c) = H} |-> s.bets[b]]
VaultOf(s) == s.lamports[Vault(H)]

Book == INSTANCE HouseBook WITH
          Keys  <- {b \in BetKeys : House(b) = H},
          vault <- VaultOf(work),
          bets  <- BetsOf(work),
          saved <- <<VaultOf(ledger), BetsOf(ledger)>>

\* Every house keeps its book: whichever instructions, signatures, commits,
\* refunds, rollbacks and other houses' bets come in between, its vault and its
\* bets change together, bet by bet, as HouseBook says.
HouseKeepsItsBook == Book!BookSpec
=============================================================================
