CONSTANTS
  Users = {u1, u2}
  Seeds = {s1, s2}
  Mints = {m1, m2, m3}
  Keypairs = {k1}
  MaxExtra = 3
SPECIFICATION Spec
INVARIANTS
  TypeOK
  AccountsAreDetermined
  AccountsAreApart
  BurnKeysNameUserAndPool
SYMMETRY Symmetry
