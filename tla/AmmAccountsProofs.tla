-------------------------- MODULE AmmAccountsProofs --------------------------
(***************************************************************************)
(* The constraints leave the caller of an instruction no choice of         *)
(* accounts, for any number of users, pools, mints and token accounts.     *)
(***************************************************************************)
EXTENDS AmmAccounts, TLAPS

\* What the constraints cannot see and the steps keep: the two mints of a pool
\* differ, its vaults exist and stay its own, and the token account at an
\* associated address is of the mint of that address.
MintsDiffer == \A c \in DOMAIN configs : configs[c].mint["X"] # configs[c].mint["Y"]

VaultsInPlace ==
  \A c \in DOMAIN configs, t \in Token :
    /\ Vault(c, t) \in DOMAIN tokens
    /\ tokens[Vault(c, t)] = [mint |-> configs[c].mint[t], owner |-> c]

AtaMints ==
  \A m \in AllMints, o \in Owners : Ata(m, o) \in DOMAIN tokens => tokens[Ata(m, o)].mint = m

Inv == TypeOK /\ MintsDiffer /\ VaultsInPlace /\ AtaMints

\* The accounts there are for one pool and, with them, for one user.
PoolOf(c) == [config |-> c, mint |-> [t \in Token |-> configs[c].mint[t]], lpMint |-> LpPda(c)]
AtasFor(c, owner) == [t \in Token |-> Ata(configs[c].mint[t], owner)]

\* What is taken from Both has the right element for each token.
LEMMA BothElements ==
  ASSUME NEW SX, NEW SY, NEW f \in Both(SX, SY)
  PROVE  /\ f["X"] \in SX /\ f["Y"] \in SY
         /\ f = [t \in Token |-> f[t]]
         /\ f = [t \in Token |-> IF t = "X" THEN f["X"] ELSE f["Y"]]
  BY DEF Both, Token

\* has_one and the LP seeds determine the mints from the Config.
LEMMA PoolRolesDetermined ==
  ASSUME NEW c, NEW r \in PoolRoles(c)
  PROVE  r = PoolOf(c)
  <1>1. PICK m \in MintAccounts(c), lp \in LpMints(c) : r = [config |-> c, mint |-> m, lpMint |-> lp]
    BY DEF PoolRoles
  <1> DEFINE HasOne(t) == {n \in ExistingMints : configs[c].mint[t] = n}
  <1>2. m \in Both(HasOne("X"), HasOne("Y"))
    BY <1>1 DEF MintAccounts
  <1>3. m["X"] = configs[c].mint["X"] /\ m["Y"] = configs[c].mint["Y"] /\ m = [t \in Token |-> m[t]]
    BY <1>2, BothElements
  <1>4. m = [t \in Token |-> configs[c].mint[t]]
    BY <1>3 DEF Token
  <1> QED
    BY <1>1, <1>4 DEF LpMints, PoolOf

\* The associated-token constraints determine the account of each token, and say
\* that it exists and who owns it.
LEMMA AtasDetermined ==
  ASSUME NEW c, NEW owner, NEW a \in AtasOf(PoolOf(c).mint, owner)
  PROVE  /\ a = AtasFor(c, owner)
         /\ \A t \in Token : a[t] \in DOMAIN tokens /\ tokens[a[t]].owner = owner
  <1> DEFINE mint == PoolOf(c).mint
             Accounts(t) == {b \in DOMAIN tokens : IsAta(b, mint[t], owner)}
  <1>1. a \in Both(Accounts("X"), Accounts("Y"))
    BY DEF AtasOf
  <1>2. \A t \in Token : mint[t] = configs[c].mint[t]
    BY DEF PoolOf
  <1>3. a["X"] \in Accounts("X") /\ a["Y"] \in Accounts("Y") /\ a = [t \in Token |-> a[t]]
    BY <1>1, BothElements
  <1>4. \A t \in Token : a[t] \in Accounts(t)
    BY <1>3 DEF Token
  <1>5. \A t \in Token : a[t] = Ata(configs[c].mint[t], owner)
    BY <1>2, <1>4 DEF IsAta
  <1>6. a = [t \in Token |-> Ata(configs[c].mint[t], owner)]
    BY <1>3, <1>5
  <1> QED
    BY <1>4, <1>6 DEF IsAta, AtasFor

\* So do the accounts of each instruction.
LEMMA SwapAccountsDetermined ==
  ASSUME NEW u, NEW a \in SwapAccounts(u)
  PROVE  \E c \in DOMAIN configs :
           /\ a = [user |-> u, pool |-> PoolOf(c), vault |-> AtasFor(c, c), userToken |-> AtasFor(c, u)]
           /\ \A t \in Token : a.userToken[t] \in DOMAIN tokens /\ tokens[a.userToken[t]].owner = u
  <1>0. PICK c \in ConfigAccounts : \E r \in PoolRoles(c) :
          \E v \in AtasOf(r.mint, r.config), w \in AtasOf(r.mint, u) :
            a = [user |-> u, pool |-> r, vault |-> v, userToken |-> w]
    BY DEF SwapAccounts
  <1>1. PICK r \in PoolRoles(c) :
          \E v \in AtasOf(r.mint, r.config), w \in AtasOf(r.mint, u) :
            a = [user |-> u, pool |-> r, vault |-> v, userToken |-> w]
    BY <1>0
  <1>2. r = PoolOf(c)
    BY PoolRolesDetermined
  <1>3. r.config = c
    BY <1>2 DEF PoolOf
  <1>4. PICK v \in AtasOf(PoolOf(c).mint, c), w \in AtasOf(PoolOf(c).mint, u) :
          a = [user |-> u, pool |-> PoolOf(c), vault |-> v, userToken |-> w]
    BY <1>1, <1>2, <1>3
  <1>5. v = AtasFor(c, c) /\ w = AtasFor(c, u)
    BY AtasDetermined
  <1>6. \A t \in Token : w[t] \in DOMAIN tokens /\ tokens[w[t]].owner = u
    BY AtasDetermined
  <1> QED
    BY <1>4, <1>5, <1>6 DEF ConfigAccounts

LEMMA LpAccountsDetermined ==
  ASSUME NEW mint, NEW u, NEW a \in LpAccounts(mint, u)
  PROVE  a = Ata(mint, u)
  BY DEF LpAccounts, IsAta

LEMMA DepositAccountsDetermined ==
  ASSUME NEW u, NEW a \in DepositAccounts(u)
  PROVE  \E s \in SwapAccounts(u) :
           a = [user |-> u, pool |-> s.pool, vault |-> s.vault, userToken |-> s.userToken,
                userLp |-> Ata(s.pool.lpMint, u)]
  <1>0. PICK s \in SwapAccounts(u) : \E lp \in LpAccounts(s.pool.lpMint, u) :
          a = [user |-> u, pool |-> s.pool, vault |-> s.vault, userToken |-> s.userToken, userLp |-> lp]
    BY DEF DepositAccounts
  <1>1. PICK lp \in LpAccounts(s.pool.lpMint, u) :
          a = [user |-> u, pool |-> s.pool, vault |-> s.vault, userToken |-> s.userToken, userLp |-> lp]
    BY <1>0
  <1>2. lp = Ata(s.pool.lpMint, u)
    BY LpAccountsDetermined
  <1> QED
    BY <1>1, <1>2

LEMMA BurnLpAccountsDetermined ==
  ASSUME NEW u, NEW a \in BurnLpAccounts(u)
  PROVE  \E c \in DOMAIN configs :
           a = [user |-> u, pool |-> PoolOf(c), userLp |-> Ata(LpPda(c), u)]
  <1>0. PICK c \in ConfigAccounts : \E r \in PoolRoles(c) : \E lp \in LpAccounts(r.lpMint, u) :
          a = [user |-> u, pool |-> r, userLp |-> lp]
    BY DEF BurnLpAccounts
  <1>1. PICK r \in PoolRoles(c) : \E lp \in LpAccounts(r.lpMint, u) :
          a = [user |-> u, pool |-> r, userLp |-> lp]
    BY <1>0
  <1>2. r = PoolOf(c)
    BY PoolRolesDetermined
  <1>3. r.lpMint = LpPda(c)
    BY <1>2 DEF PoolOf
  <1>4. PICK lp \in LpAccounts(LpPda(c), u) : a = [user |-> u, pool |-> PoolOf(c), userLp |-> lp]
    BY <1>1, <1>2, <1>3
  <1>5. lp = Ata(LpPda(c), u)
    BY LpAccountsDetermined
  <1> QED
    BY <1>4, <1>5 DEF ConfigAccounts

-----------------------------------------------------------------------------

\* What confirm_burn compares names the user and the pool, and nothing else.
LEMMA BurnKeysDetermined ==
  ASSUME NEW u, NEW v, NEW b \in BurnLpAccounts(u), NEW w \in WithdrawWAccounts(v)
  PROVE  ConfirmBurnAccounts(BurnKeys(b), w) <=> u = v /\ b.pool.config = w.pool.config
  <1>1. PICK c \in DOMAIN configs : b = [user |-> u, pool |-> PoolOf(c), userLp |-> Ata(LpPda(c), u)]
    BY BurnLpAccountsDetermined
  <1>2. PICK s \in SwapAccounts(v) :
          w = [user |-> v, pool |-> s.pool, vault |-> s.vault, userToken |-> s.userToken,
               userLp |-> Ata(s.pool.lpMint, v)]
    BY DepositAccountsDetermined DEF WithdrawWAccounts
  <1>3. PICK d \in DOMAIN configs : s.pool = PoolOf(d)
    BY SwapAccountsDetermined
  <1>4. /\ BurnKeys(b) = <<u, configs[c].mint["X"], configs[c].mint["Y"], c, LpPda(c), Ata(LpPda(c), u)>>
        /\ b.pool.config = c
    BY <1>1 DEF BurnKeys, PoolOf, Token
  <1>5. /\ BurnKeys(w) = <<v, configs[d].mint["X"], configs[d].mint["Y"], d, LpPda(d), Ata(LpPda(d), v)>>
        /\ w.pool.config = d
    BY <1>2, <1>3 DEF BurnKeys, PoolOf, Token
  <1> QED
    BY <1>4, <1>5 DEF ConfirmBurnAccounts

\* In every state, whatever the accounts there are.
THEOREM BurnKeysAlwaysName == Spec => []BurnKeysNameUserAndPool
<1>1. BurnKeysNameUserAndPool
  BY BurnKeysDetermined DEF BurnKeysNameUserAndPool
<1> QED
  BY <1>1, PTL

\* The same accounts for one kind of instruction, signer and pool.
LEMMA OneChoice ==
  ASSUME NEW u
  PROVE  \A A \in {SwapAccounts(u), WithdrawAccounts(u), BurnLpAccounts(u)} : \A a \in A :
           /\ \A b \in A : a.pool.config = b.pool.config => a = b
           /\ "vault" \in DOMAIN a => \A t \in Token : a.vault[t] = Vault(a.pool.config, t)
  <1> DEFINE SwapOf(c) == [user |-> u, pool |-> PoolOf(c), vault |-> AtasFor(c, c),
                           userToken |-> AtasFor(c, u)]
             DepositOf(c) == [user |-> u, pool |-> PoolOf(c), vault |-> AtasFor(c, c),
                              userToken |-> AtasFor(c, u), userLp |-> Ata(LpPda(c), u)]
             BurnOf(c) == [user |-> u, pool |-> PoolOf(c), userLp |-> Ata(LpPda(c), u)]
  <1>1. \A a \in SwapAccounts(u) : \E c \in DOMAIN configs : a = SwapOf(c)
    BY SwapAccountsDetermined
  <1>2. \A a \in WithdrawAccounts(u) : \E c \in DOMAIN configs : a = DepositOf(c)
    <2> SUFFICES ASSUME NEW a \in WithdrawAccounts(u)
                 PROVE  \E c \in DOMAIN configs : a = DepositOf(c)
      OBVIOUS
    <2>1. PICK s \in SwapAccounts(u) :
            a = [user |-> u, pool |-> s.pool, vault |-> s.vault, userToken |-> s.userToken,
                 userLp |-> Ata(s.pool.lpMint, u)]
      BY DepositAccountsDetermined DEF WithdrawAccounts
    <2>2. PICK c \in DOMAIN configs : s = SwapOf(c)
      BY <1>1
    <2>3. s.pool.lpMint = LpPda(c)
      BY <2>2 DEF PoolOf
    <2> QED
      BY <2>1, <2>2, <2>3
  <1>3. \A a \in BurnLpAccounts(u) : \E c \in DOMAIN configs : a = BurnOf(c)
    BY BurnLpAccountsDetermined
  <1>4. ASSUME NEW c
        PROVE  /\ SwapOf(c).pool.config = c /\ DepositOf(c).pool.config = c /\ BurnOf(c).pool.config = c
               /\ \A t \in Token : /\ SwapOf(c).vault[t] = Vault(c, t)
                                    /\ DepositOf(c).vault[t] = Vault(c, t)
               /\ "vault" \notin DOMAIN BurnOf(c)
    BY DEF PoolOf, AtasFor, Vault
  <1> HIDE DEF SwapOf, DepositOf, BurnOf
  <1> QED
    BY <1>1, <1>2, <1>3, <1>4

\* So callers never have a choice.
THEOREM AccountsAlwaysDetermined == Spec => []AccountsAreDetermined
<1>1. AccountsAreDetermined
  BY OneChoice DEF AccountsAreDetermined
<1> QED
  BY <1>1, PTL

-----------------------------------------------------------------------------

\* The derived addresses of the accounts there are, and who signs for them.
LEMMA Derived ==
  ASSUME TypeOK
  PROVE  /\ ExistingMints \subseteq AllMints
         /\ \A c \in DOMAIN configs : /\ c \in Owners /\ c \notin Users
                                      /\ \A t \in Token : configs[c].mint[t] \in AllMints
         /\ \A m \in AllMints, o \in Owners : Ata(m, o) \in Addresses
  BY AddressAssumption DEF TypeOK, ExistingMints, AllMints, Owners, Addresses

\* A Config owns its vaults.
LEMMA VaultOwners ==
  ASSUME VaultsInPlace, NEW c \in DOMAIN configs, NEW t \in Token
  PROVE  tokens[Vault(c, t)].owner = c
  <1>1. tokens[Vault(c, t)] = [mint |-> configs[c].mint[t], owner |-> c]
    BY DEF VaultsInPlace
  <1>2. [mint |-> configs[c].mint[t], owner |-> c].owner = c
    OBVIOUS
  <1> QED
    BY <1>1, <1>2

\* A new account at a free address, which is an associated address only of its
\* own mint.
LEMMA OpenKeepsInv ==
  ASSUME Inv, NEW a \in Addresses, NEW mint \in ExistingMints, NEW owner \in Owners,
         \A m \in AllMints, o \in Owners : a = Ata(m, o) => mint = m,
         Open(a, mint, owner)
  PROVE  Inv'
  <1> DEFINE new == [b \in {a} |-> [mint |-> mint, owner |-> owner]]
  <1>1. /\ a \notin DOMAIN tokens
        /\ tokens' = Opened(tokens, new)
        /\ configs' = configs
    BY DEF Open
  <1>3. /\ DOMAIN tokens' = DOMAIN tokens \cup {a}
        /\ \A b \in DOMAIN tokens : tokens'[b] = tokens[b]
        /\ tokens'[a] = [mint |-> mint, owner |-> owner]
    BY <1>1 DEF Opened
  <1>4. TypeOK'
    BY <1>1, <1>3 DEF Inv, TypeOK, ExistingMints
  <1>5. MintsDiffer'
    BY <1>1 DEF Inv, MintsDiffer
  <1>6. VaultsInPlace'
    BY <1>1, <1>3 DEF Inv, VaultsInPlace, Vault
  <1>7. AtaMints'
    BY <1>3 DEF Inv, AtaMints
  <1> QED
    BY <1>4, <1>5, <1>6, <1>7 DEF Inv

\* A pool comes with two vaults at addresses that were free.
LEMMA InitializeKeepsInv ==
  ASSUME Inv, NEW seed \in Seeds, NEW mint \in [Token -> ExistingMints], Initialize(seed, mint)
  PROVE  Inv'
  <1> DEFINE c == ConfigPda(seed)
             vault == {Ata(mint[t], c) : t \in Token}
             pool == [d \in {c} |-> [seed |-> seed, mint |-> mint]]
             opened == [a \in vault |-> [mint |-> a[2], owner |-> c]]
  <1>1. /\ c \notin DOMAIN configs
        /\ mint["X"] # mint["Y"]
        /\ vault \cap DOMAIN tokens = {}
        /\ configs' = Opened(configs, pool)
        /\ tokens' = Opened(tokens, opened)
    BY DEF Initialize
  <1>2. /\ DOMAIN configs' = DOMAIN configs \cup {c}
        /\ \A d \in DOMAIN configs : configs'[d] = configs[d]
        /\ configs'[c] = [seed |-> seed, mint |-> mint]
    BY <1>1 DEF Opened
  <1>3. /\ DOMAIN tokens' = DOMAIN tokens \cup vault
        /\ \A a \in DOMAIN tokens : tokens'[a] = tokens[a]
        /\ \A a \in vault : tokens'[a] = [mint |-> a[2], owner |-> c]
    <2> HIDE DEF vault
    <2> QED
      BY <1>1 DEF Opened
  <1>4. c \in Configs /\ c \in Owners
    BY DEF Configs, Owners
  <1>5. \A t \in Token : /\ mint[t] \in ExistingMints /\ mint[t] \in AllMints
                          /\ Ata(mint[t], c) \in vault
                          /\ tokens'[Ata(mint[t], c)] = [mint |-> mint[t], owner |-> c]
    BY <1>3, Derived DEF Inv, Ata
  <1>6. \A a \in vault : a \in Addresses /\ a[2] \in ExistingMints
    BY <1>4, <1>5, Derived DEF Inv, Ata
  <1>7. ExistingMints \subseteq ExistingMints'
    BY <1>2 DEF ExistingMints
  <1> HIDE DEF vault
  <1>8. TypeOK'
    <2>1. DOMAIN configs' \subseteq Configs
      BY <1>2, <1>4 DEF Inv, TypeOK
    <2>2. \A d \in DOMAIN configs' : /\ configs'[d] \in [seed : Seeds, mint : [Token -> AllMints]]
                                       /\ d = ConfigPda(configs'[d].seed)
      <3>1. configs'[c] \in [seed : Seeds, mint : [Token -> AllMints]] /\ c = ConfigPda(configs'[c].seed)
        <4>1. mint \in [Token -> AllMints]
          BY Derived DEF Inv
        <4> HIDE DEF c
        <4>2. configs'[c] \in [seed : Seeds, mint : [Token -> AllMints]] /\ configs'[c].seed = seed
          BY <1>2, <4>1
        <4> QED
          BY <4>2 DEF c
      <3>2. \A d \in DOMAIN configs : /\ configs'[d] \in [seed : Seeds, mint : [Token -> AllMints]]
                                       /\ d = ConfigPda(configs'[d].seed)
        BY <1>2 DEF Inv, TypeOK
      <3> QED
        BY <1>2, <3>1, <3>2
    <2>3. DOMAIN tokens' \subseteq Addresses
      BY <1>3, <1>6 DEF Inv, TypeOK
    <2>4. \A a \in DOMAIN tokens' : tokens'[a] \in [mint : ExistingMints', owner : Owners]
      BY <1>3, <1>4, <1>6, <1>7 DEF Inv, TypeOK
    <2> QED
      BY <2>1, <2>2, <2>3, <2>4 DEF TypeOK
  <1>9. MintsDiffer'
    BY <1>1, <1>2 DEF Inv, MintsDiffer
  <1>10. VaultsInPlace'
    <2> SUFFICES ASSUME NEW d \in DOMAIN configs', NEW t \in Token
                 PROVE  LET v == Ata(configs'[d].mint[t], d)
                        IN  v \in DOMAIN tokens' /\ tokens'[v] = [mint |-> configs'[d].mint[t], owner |-> d]
      BY DEF VaultsInPlace, Vault
    <2>1. CASE d = c
      BY <2>1, <1>2, <1>3, <1>5
    <2>2. CASE d \in DOMAIN configs
      BY <2>2, <1>2, <1>3 DEF Inv, VaultsInPlace, Vault
    <2> QED
      BY <2>1, <2>2, <1>2
  <1>11. AtaMints'
    <2> SUFFICES ASSUME NEW m \in AllMints, NEW o \in Owners, Ata(m, o) \in DOMAIN tokens'
                 PROVE  tokens'[Ata(m, o)].mint = m
      BY DEF AtaMints
    <2>1. CASE Ata(m, o) \in DOMAIN tokens
      BY <2>1, <1>3 DEF Inv, AtaMints
    <2>2. CASE Ata(m, o) \in vault
      BY <2>2, <1>3 DEF Ata
    <2> QED
      BY <2>1, <2>2, <1>3
  <1> QED
    BY <1>8, <1>9, <1>10, <1>11 DEF Inv

\* Owners dispose of their accounts; nobody else's key owns a vault.
LEMMA OwnersKeepInv ==
  ASSUME Inv, NEW a \in DOMAIN tokens,
         CloseAccount(a) \/ \E owner \in Owners : SetAuthority(a, owner)
  PROVE  Inv'
  <1>1. configs' = configs
    BY DEF CloseAccount, SetAuthority
  <1>2. /\ DOMAIN tokens' \subseteq DOMAIN tokens
        /\ \A b \in DOMAIN tokens' : tokens'[b] \in [mint : ExistingMints, owner : Owners]
        /\ \A b \in DOMAIN tokens' : tokens'[b].mint = tokens[b].mint
        /\ \A b \in DOMAIN tokens \ {a} : b \in DOMAIN tokens' /\ tokens'[b] = tokens[b]
    BY DEF Inv, TypeOK, CloseAccount, SetAuthority
  <1>3. \A c \in DOMAIN configs, t \in Token : Vault(c, t) # a
    <2>1. tokens[a].owner \in Users
      BY DEF CloseAccount, SetAuthority
    <2>2. \A c \in DOMAIN configs, t \in Token : tokens[Vault(c, t)].owner = c
      BY VaultOwners DEF Inv
    <2>3. \A c \in DOMAIN configs : c \notin Users
      BY Derived DEF Inv
    <2> QED
      BY <2>1, <2>2, <2>3
  <1>4. TypeOK'
    BY <1>1, <1>2 DEF Inv, TypeOK, ExistingMints
  <1>5. MintsDiffer'
    BY <1>1 DEF Inv, MintsDiffer
  <1>6. VaultsInPlace'
    BY <1>1, <1>2, <1>3 DEF Inv, VaultsInPlace, Vault
  <1>7. AtaMints'
    BY <1>2 DEF Inv, AtaMints
  <1> QED
    BY <1>4, <1>5, <1>6, <1>7 DEF Inv

\* The strengthened invariant holds in every state: only initialize and the
\* opening of accounts add anything, and owners take away only what is theirs.
LEMMA InvInductive == Spec => []Inv
<1>1. Init => Inv
  BY DEF Init, Nowhere, Inv, TypeOK, MintsDiffer, VaultsInPlace, AtaMints
<1>2. Inv /\ [Next]_vars => Inv'
  <2> SUFFICES ASSUME Inv, [Next]_vars
               PROVE  Inv'
    OBVIOUS
  <2>0. ExistingMints \subseteq AllMints
    BY Derived DEF Inv
  <2>1. CASE UNCHANGED vars
    BY <2>1 DEF vars, Inv, TypeOK, ExistingMints, MintsDiffer, VaultsInPlace, Vault, AtaMints
  <2>2. ASSUME NEW seed \in Seeds, NEW mint \in [Token -> ExistingMints], Initialize(seed, mint)
        PROVE  Inv'
    BY <2>2, InitializeKeepsInv
  <2>3. ASSUME NEW u \in Users, OpenLpAccount(u)
        PROVE  Inv'
    <3>1. PICK a \in DepositAccounts(u) \cup BurnLpAccounts(u) : Open(a.userLp, a.pool.lpMint, u)
      BY <2>3 DEF OpenLpAccount
    <3>2. \E c \in DOMAIN configs : a.pool = PoolOf(c) /\ a.userLp = Ata(a.pool.lpMint, u)
      <4>1. CASE a \in DepositAccounts(u)
        <5>1. PICK s \in SwapAccounts(u) : a.pool = s.pool /\ a.userLp = Ata(s.pool.lpMint, u)
          BY <4>1, DepositAccountsDetermined
        <5>2. \E c \in DOMAIN configs : s.pool = PoolOf(c)
          BY SwapAccountsDetermined
        <5> QED
          BY <5>1, <5>2
      <4>2. CASE a \in BurnLpAccounts(u)
        BY <4>2, BurnLpAccountsDetermined DEF PoolOf
      <4> QED
        BY <4>1, <4>2
    <3>3. PICK c \in DOMAIN configs : a.pool = PoolOf(c) /\ a.userLp = Ata(a.pool.lpMint, u)
      BY <3>2
    <3>4. a.pool.lpMint \in ExistingMints /\ u \in Owners
      BY <3>3 DEF PoolOf, ExistingMints, Owners
    <3>5. a.userLp \in Addresses
      BY <2>0, <3>3, <3>4 DEF Addresses
    <3>6. \A m \in AllMints, o \in Owners : a.userLp = Ata(m, o) => a.pool.lpMint = m
      BY <3>3 DEF Ata
    <3> QED
      BY <3>1, <3>4, <3>5, <3>6, OpenKeepsInv
  <2>4. ASSUME NEW mint \in ExistingMints, NEW owner \in Owners, OpenAta(mint, owner)
        PROVE  Inv'
    <3>1. Ata(mint, owner) \in Addresses
      BY <2>0 DEF Addresses
    <3>2. \A m \in AllMints, o \in Owners : Ata(mint, owner) = Ata(m, o) => mint = m
      BY DEF Ata
    <3> QED
      BY <2>4, <3>1, <3>2, OpenKeepsInv DEF OpenAta
  <2>5. ASSUME NEW mint \in ExistingMints, NEW owner \in Owners, NEW k \in Keypairs,
               OpenKeypair(k, mint, owner)
        PROVE  Inv'
    <3>1. k \in Addresses /\ \A m \in AllMints, o \in Owners : k # Ata(m, o)
      BY AddressAssumption DEF Addresses
    <3> QED
      BY <2>5, <3>1, OpenKeepsInv DEF OpenKeypair
  <2>6. ASSUME NEW a \in DOMAIN tokens, CloseAccount(a) \/ \E owner \in Owners : SetAuthority(a, owner)
        PROVE  Inv'
    BY <2>6, OwnersKeepInv
  <2> QED
    BY <2>1, <2>2, <2>3, <2>4, <2>5, <2>6 DEF Next, Swap, UpdateConfig
<1> QED
  BY <1>1, <1>2, PTL DEF Spec

\* Every token account keeps an existing mint and a known owner, and a Config its
\* address.
THEOREM TypesPreserved == Spec => []TypeOK
<1>1. Inv => TypeOK
  BY DEF Inv
<1> QED
  BY <1>1, InvInductive, PTL

\* No account plays two parts, in any pool and for any user.
THEOREM AccountsAlwaysApart == Spec => []AccountsAreApart
<1>1. ASSUME Inv
      PROVE  AccountsAreApart
  <2>1. ASSUME NEW c \in DOMAIN configs, NEW d \in DOMAIN configs, NEW t \in Token, NEW u \in Token,
               Vault(c, t) = Vault(d, u)
        PROVE  c = d /\ t = u
    <3>1. c = d /\ configs[c].mint[t] = configs[c].mint[u]
      BY <2>1 DEF Vault, Ata
    <3> QED
      BY <1>1, <3>1 DEF Inv, MintsDiffer, Token
  <2>2. ASSUME NEW u \in Users, NEW a \in SwapAccounts(u)
        PROVE  /\ a.userToken["X"] # a.userToken["Y"]
               /\ \A t \in Token : /\ a.userToken[t] \notin PoolVaults
                                    /\ tokens[a.userToken[t]] = [mint |-> a.pool.mint[t], owner |-> u]
    <3>1. PICK c \in DOMAIN configs :
            /\ a = [user |-> u, pool |-> PoolOf(c), vault |-> AtasFor(c, c), userToken |-> AtasFor(c, u)]
            /\ \A t \in Token : a.userToken[t] \in DOMAIN tokens /\ tokens[a.userToken[t]].owner = u
      BY SwapAccountsDetermined
    <3>2. \A t \in Token : /\ a.userToken[t] = Ata(configs[c].mint[t], u)
                            /\ a.pool.mint[t] = configs[c].mint[t]
      BY <3>1 DEF AtasFor, PoolOf
    <3>3. a.userToken["X"] # a.userToken["Y"]
      BY <1>1, <3>2 DEF Inv, MintsDiffer, Ata, Token
    <3>4. ASSUME NEW t \in Token
          PROVE  a.userToken[t] \notin PoolVaults
      <4>1. \A d \in DOMAIN configs, v \in Token : tokens[Vault(d, v)].owner = d
        BY <1>1, VaultOwners DEF Inv
      <4>2. \A d \in DOMAIN configs : d \notin Users
        BY <1>1, Derived DEF Inv
      <4> QED
        BY <3>1, <4>1, <4>2 DEF PoolVaults
    <3>5. ASSUME NEW t \in Token
          PROVE  tokens[a.userToken[t]] = [mint |-> a.pool.mint[t], owner |-> u]
      <4>1. configs[c].mint[t] \in AllMints /\ u \in Owners
        BY <1>1, Derived DEF Inv, Owners
      <4>2. tokens[a.userToken[t]].mint = a.pool.mint[t]
        BY <1>1, <3>1, <3>2, <4>1 DEF Inv, AtaMints
      <4>3. tokens[a.userToken[t]] \in [mint : ExistingMints, owner : Owners]
        BY <1>1, <3>1 DEF Inv, TypeOK
      <4> QED
        BY <3>1, <4>2, <4>3
    <3> QED
      BY <3>3, <3>4, <3>5
  <2>3. ASSUME NEW u \in Users, NEW a \in DepositAccounts(u)
        PROVE  \E s \in SwapAccounts(u) : a.userToken = s.userToken /\ a.pool = s.pool
    BY DepositAccountsDetermined
  <2> QED
    BY <1>1, <2>1, <2>2, <2>3 DEF AccountsAreApart, Inv, VaultsInPlace
<1> QED
  BY <1>1, InvInductive, PTL
=============================================================================
