SPECIFICATION Spec
CONSTANTS
  LastRequest = 3
  LastCall = 2
  MaxTurns = 4
  MaxText = 1
  Buffer = 2
INVARIANTS
  ReplyWellFormed
  CallsAccountedFor
PROPERTIES
  HandOffSurvives
  EveryJobEnds
CHECK_DEADLOCK FALSE
