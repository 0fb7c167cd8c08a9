----------------------------- MODULE AmmAccounts -----------------------------
(***************************************************************************)
(* Which accounts the AMM's instructions accept.  Module Amm takes an      *)
(* instruction to name a user and a pool and to be given that pool's and   *)
(* that user's accounts; here a caller passes any accounts there are, and  *)
(* the constraints Anchor checks before the handler runs decide.           *)
(*                                                                         *)
(* An address derived from seeds is a term of the seeds; terms are equal   *)
(* only if the seeds are.  Amounts, fees and locks are in module Amm.      *)
(***************************************************************************)
EXTENDS Naturals, FiniteSets

CONSTANTS Users,     \* who can sign
          Seeds,     \* the seeds pools are initialized with
          Mints,     \* the mints that are not LP mints
          Keypairs,  \* addresses derived from nothing, for token accounts
          MaxExtra   \* bound on the token accounts that are not vaults

ASSUME BoundAssumption == MaxExtra \in Nat

VARIABLES configs,   \* address of an existing Config -> what it says
          tokens     \* address of an existing token account -> mint and owner

vars == <<configs, tokens>>

Token == {"X", "Y"}

ConfigPda(seed)  == <<"config", seed>>
LpPda(config)    == <<"lp", config>>
Ata(mint, owner) == <<"ata", mint, owner>>

\* A PDA's address is known before the account exists.
Configs  == {ConfigPda(s) : s \in Seeds}
AllMints == Mints \cup {LpPda(c) : c \in Configs}
Owners   == Users \cup Configs
Addresses == {Ata(m, o) : m \in AllMints, o \in Owners} \cup Keypairs

\* Derived addresses are nobody's key and no key's address.
ASSUME AddressAssumption ==
  /\ Users \cap Configs = {}
  /\ Keypairs \cap {Ata(m, o) : m \in AllMints, o \in Owners} = {}

\* The LP mint of a pool exists from initialize on.
ExistingMints == Mints \cup {LpPda(c) : c \in DOMAIN configs}

TypeOK ==
  /\ DOMAIN configs \subseteq Configs
  /\ \A c \in DOMAIN configs : /\ configs[c] \in [seed : Seeds, mint : [Token -> AllMints]]
                              /\ c = ConfigPda(configs[c].seed)
  /\ DOMAIN tokens \subseteq Addresses
  /\ \A a \in DOMAIN tokens : tokens[a] \in [mint : ExistingMints, owner : Owners]

Nowhere == [a \in {} |-> 0]
Init == configs = Nowhere /\ tokens = Nowhere

\* New accounts next to the ones there are.
Opened(accounts, new) ==
  [a \in DOMAIN accounts \cup DOMAIN new |-> IF a \in DOMAIN new THEN new[a] ELSE accounts[a]]

Vault(c, t) == Ata(configs[c].mint[t], c)
PoolVaults  == {Vault(c, t) : c \in DOMAIN configs, t \in Token}

-----------------------------------------------------------------------------
(* Constraints: the accounts an instruction may be given for its roles     *)

\* seeds = [CONFIG_SEED, config.seed]
ConfigAccounts == {c \in DOMAIN configs : c = ConfigPda(configs[c].seed)}

\* One account for each token.
Both(SX, SY) == {[t \in Token |-> IF t = "X" THEN x ELSE y] : x \in SX, y \in SY}

\* Mutant: the mints passed are not compared with the pool's.
MintAccounts_NoHasOne(c) == Both(ExistingMints, ExistingMints)

\* has_one = mint_x, has_one = mint_y
MintAccounts(c) ==
  LET HasOne(t) == {m \in ExistingMints : configs[c].mint[t] = m}
  IN  Both(HasOne("X"), HasOne("Y"))

\* seeds = [LP_SEED, config.key()]
LpMints(c) == {m \in ExistingMints : m = LpPda(c)}

\* associated_token::mint, associated_token::authority
IsAta(a, mint, owner) == tokens[a].owner = owner /\ a = Ata(mint, owner)

AtasOf(mint, owner) ==
  LET Accounts(t) == {a \in DOMAIN tokens : IsAta(a, mint[t], owner)}
  IN  Both(Accounts("X"), Accounts("Y"))

\* init_if_needed: an account that does not exist is created as the ATA.
LpAccounts(mint, owner) ==
  {a \in DOMAIN tokens \cup {Ata(mint, owner)} : a \in DOMAIN tokens => IsAta(a, mint, owner)}

PoolRoles(c) ==
  {[config |-> c, mint |-> m, lpMint |-> lp] : m \in MintAccounts(c), lp \in LpMints(c)}

\* BurnLp: no vaults and no token accounts but the LP account.
BurnLpAccounts(u) ==
  UNION {{[user |-> u, pool |-> r, userLp |-> a] : a \in LpAccounts(r.lpMint, u)} :
         r \in UNION {PoolRoles(c) : c \in ConfigAccounts}}

\* Swap: the pool, its vaults and the user's accounts.
SwapAccounts(u) ==
  UNION {{[user |-> u, pool |-> r, vault |-> v, userToken |-> w] :
            v \in AtasOf(r.mint, r.config), w \in AtasOf(r.mint, u)} :
         r \in UNION {PoolRoles(c) : c \in ConfigAccounts}}

\* Deposit: those of a swap and the user's LP account.
DepositAccounts(u) ==
  UNION {{[user |-> u, pool |-> s.pool, vault |-> s.vault, userToken |-> s.userToken, userLp |-> a] :
            a \in LpAccounts(s.pool.lpMint, u)} :
         s \in SwapAccounts(u)}

\* Withdraw and WithdrawWithIntrospection (and the sysvar, whose address is
\* fixed) declare the accounts of Deposit.
WithdrawAccounts(u)  == DepositAccounts(u)
WithdrawWAccounts(u) == DepositAccounts(u)

\* UpdateConfig: the seed is an argument.
UpdateConfigAccounts(seed) ==
  {c \in DOMAIN configs : configs[c].seed = seed /\ c = ConfigPda(seed)}

\* The keys of a burn_lp_tokens, in order; the three programs' are constants.
BurnKeys(a) ==
  <<a.user, a.pool.mint["X"], a.pool.mint["Y"], a.pool.config, a.pool.lpMint, a.userLp>>

\* Mutant: only what a swap and a burn share is compared.
ConfirmBurnAccounts_NoPool(keys, a) ==
  keys[1] = a.user /\ keys[2] = a.pool.mint["X"] /\ keys[3] = a.pool.mint["Y"]

\* confrim_burn_accounts: what withdraw_w_introspection was given for a burn's
\* roles is what the burn was given.
ConfirmBurnAccounts(keys, a) == keys = BurnKeys(a)

-----------------------------------------------------------------------------
(* Steps *)

Extra == DOMAIN tokens \ PoolVaults

\* Mutant: the vaults may exist already (init_if_needed without its checks).
Initialize_OverVaults(seed, mint) ==
  LET c     == ConfigPda(seed)
      vault == {Ata(mint[t], c) : t \in Token}
  IN  /\ c \notin DOMAIN configs
      /\ configs' = Opened(configs, [d \in {c} |-> [seed |-> seed, mint |-> mint]])
      /\ tokens' = Opened(tokens, [a \in vault |-> [mint |-> a[2], owner |-> c]])

\* initialize creates the config, the LP mint and both vaults, or nothing: none
\* of them may exist, and the second vault must not be the first.
Initialize(seed, mint) ==
  LET c     == ConfigPda(seed)
      vault == {Ata(mint[t], c) : t \in Token}
  IN  /\ c \notin DOMAIN configs
      /\ mint["X"] # mint["Y"]
      /\ vault \cap DOMAIN tokens = {}
      /\ configs' = Opened(configs, [d \in {c} |-> [seed |-> seed, mint |-> mint]])
      /\ tokens' = Opened(tokens, [a \in vault |-> [mint |-> a[2], owner |-> c]])

Open(a, mint, owner) ==
  /\ a \notin DOMAIN tokens
  /\ Cardinality(Extra) < MaxExtra
  /\ tokens' = Opened(tokens, [b \in {a} |-> [mint |-> mint, owner |-> owner]])
  /\ UNCHANGED configs

\* deposit (and so the withdrawals, which declare its accounts) and
\* burn_lp_tokens create the user's LP account if there is none.
OpenLpAccount(u) ==
  \E a \in DepositAccounts(u) \cup BurnLpAccounts(u) : Open(a.userLp, a.pool.lpMint, u)

\* Mutant: the seed argument is not compared and stored.
UpdateConfig_SetsSeed(seed) ==
  /\ \E c \in DOMAIN configs : configs' = [configs EXCEPT ![c].seed = seed]
  /\ UNCHANGED tokens

\* swap and update_config open no account and change no mint and no owner.
Swap(u)            == SwapAccounts(u) # {} /\ UNCHANGED vars
UpdateConfig(seed) == UpdateConfigAccounts(seed) # {} /\ UNCHANGED vars

\* Outside the program: anyone may open a token account for anyone, at the
\* associated address or at a new one.
OpenAta(mint, owner)        == Open(Ata(mint, owner), mint, owner)
OpenKeypair(k, mint, owner) == Open(k, mint, owner)

\* Outside the program: the owner of a token account may give it to anybody, or
\* close it when it is empty.  A Config only signs the program's own transfers.
SetAuthority(a, owner) ==
  /\ tokens[a].owner \in Users
  /\ tokens' = [tokens EXCEPT ![a].owner = owner]
  /\ UNCHANGED configs

CloseAccount(a) ==
  /\ tokens[a].owner \in Users
  /\ tokens' = [b \in DOMAIN tokens \ {a} |-> tokens[b]]
  /\ UNCHANGED configs

Next ==
  \/ \E seed \in Seeds, mint \in [Token -> ExistingMints] : Initialize(seed, mint)
  \/ \E seed \in Seeds : UpdateConfig(seed)
  \/ \E u \in Users : OpenLpAccount(u) \/ Swap(u)
  \/ \E mint \in ExistingMints, owner \in Owners :
       \/ OpenAta(mint, owner)
       \/ \E k \in Keypairs : OpenKeypair(k, mint, owner)
  \/ \E a \in DOMAIN tokens :
       \/ \E owner \in Owners : SetAuthority(a, owner)
       \/ CloseAccount(a)

Spec == Init /\ [][Next]_vars

-----------------------------------------------------------------------------
(* Properties *)

\* The accounts of an instruction are no choice of the caller: whatever else
\* exists (other accounts of the same mint and owner, accounts handed to a Config
\* or opened for it, pools on the same mints or on another pool's LP), an
\* instruction of one kind, signer and pool is given the same accounts, and its
\* vaults are the ones initialize made for the pool.
AccountsAreDetermined ==
  \A u \in Users :
    \A A \in {SwapAccounts(u), WithdrawAccounts(u), BurnLpAccounts(u)} : \A a \in A :
      /\ \A b \in A : a.pool.config = b.pool.config => a = b
      /\ "vault" \in DOMAIN a => \A t \in Token : a.vault[t] = Vault(a.pool.config, t)

\* No account plays two parts: the vaults of all pools are different accounts
\* owned by their Configs, and neither token account a user passes is a vault, or
\* somebody else's, or stands for both tokens.
AccountsAreApart ==
  /\ \A c, d \in DOMAIN configs, t, u \in Token : Vault(c, t) = Vault(d, u) => c = d /\ t = u
  /\ \A c \in DOMAIN configs, t \in Token :
       Vault(c, t) \in DOMAIN tokens /\ tokens[Vault(c, t)] = [mint |-> configs[c].mint[t], owner |-> c]
  /\ \A u \in Users : \A a \in SwapAccounts(u) \cup DepositAccounts(u) :
       /\ a.userToken["X"] # a.userToken["Y"]
       /\ \A t \in Token : /\ a.userToken[t] \notin PoolVaults
                            /\ tokens[a.userToken[t]] = [mint |-> a.pool.mint[t], owner |-> u]

\* What confirm_burn compares settles whose burn in which pool it was: the keys
\* of a burn fit a withdrawal exactly if both have one signer and one pool.
BurnKeysNameUserAndPool ==
  \A u, v \in Users : \A b \in BurnLpAccounts(u), w \in WithdrawWAccounts(v) :
    ConfirmBurnAccounts(BurnKeys(b), w) <=> u = v /\ b.pool.config = w.pool.config
=============================================================================
