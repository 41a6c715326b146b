CONSTANTS
  Uids = {u1, u2}
  NoUid = NoUid
  Logins = {l1, l2}
  Names = {1, 2}
  OutsideLabel = 1
  FirstFiles <- MCFirstFiles
  LastBoot = 2
  LastDrop = 1
SPECIFICATION AdmissionSpec
INVARIANT OnceAndOwn
PROPERTY LoginJoins
CHECK_DEADLOCK FALSE
