CONSTANTS
  r1 = r1
  r2 = r2
  r3 = r3
  m1 = m1
  m2 = m2
  s1 = s1
  Accounts = {a1, a2}
  StartAccounts = {a1, a2}
  Requests = {r1, r2}
  Models = {m1}
  Sessions = {s1}
  NoAccount = NoAccount
  NoSession = NoSession
  ModelOf <- OneModel
  SessionOf <- OneSession
  MaxConc = 1
  QueueLimit = 1
  QueueTimeout = 2
  AuthCooldown = 1
  MaxCooldown = 2
  AffinityMaxKeys = 1
  RetryAfters = {1, 3}
  Commands = {"reset"}
  Impatient = {}
SPECIFICATION RetrySpec
SYMMETRY AccountSymmetry
INVARIANTS
  SlotAccounting
  UpstreamWithinLimit
  QueueAccounting
  NoLostWakeup
  RetryPromise
PROPERTIES
  CooldownNeverShortened
  UnbindOnlyOwn
  LedgerSpec
