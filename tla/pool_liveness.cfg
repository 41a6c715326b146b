CONSTANTS
  r1 = r1
  r2 = r2
  r3 = r3
  m1 = m1
  m2 = m2
  s1 = s1
  Accounts = {a1}
  StartAccounts = {}
  Requests = {r1, r2}
  Models = {m1}
  Sessions = {s1}
  NoAccount = NoAccount
  NoSession = NoSession
  ModelOf <- OneModel
  SessionOf <- MixedSessions
  MaxConc = 1
  QueueLimit = 1
  QueueTimeout = 2
  AuthCooldown = 1
  MaxCooldown = 2
  AffinityMaxKeys = 1
  RetryAfters = {1}
  Commands = {"add", "enable", "disable", "reset", "reauthenticated"}
  Impatient = {r1, r2}
SPECIFICATION FairSpec
PROPERTIES
  EveryCallReturns
