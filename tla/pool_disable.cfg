CONSTANTS
  r1 = r1
  r2 = r2
  r3 = r3
  m1 = m1
  m2 = m2
  s1 = s1
  Accounts = {a1}
  StartAccounts = {a1}
  Requests = {r1}
  Models = {m1}
  Sessions = {s1}
  NoAccount = NoAccount
  NoSession = NoSession
  ModelOf <- OneModel
  SessionOf <- NoSessions
  MaxConc = 1
  QueueLimit = 1
  QueueTimeout = 1
  AuthCooldown = 1
  MaxCooldown = 1
  AffinityMaxKeys = 1
  RetryAfters = {1}
  Commands = {"enable", "disable", "reauthenticated"}
  Impatient = {}
SPECIFICATION OperatorSpec
INVARIANTS
  DisableSticks
