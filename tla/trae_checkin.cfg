CONSTANTS
  u1 = u1
  Accounts = {u1, u2}
  None = None
  Logins = {l1, l2}
  LastRemoval = 1
  MaxAttempts = 1
  Settings = {FALSE}
  Gifted = {u1}
  Elsewhere <- ElsewhereOnce
  LastDay = 2
  LastCrash = 1
SYMMETRY LoginsAlike
SPECIFICATION Spec
INVARIANTS
  ClaimsAsPromised
  RewardsAccountedFor
PROPERTY LoginFilesSafe
CHECK_DEADLOCK FALSE
