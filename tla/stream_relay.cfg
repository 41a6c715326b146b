SPECIFICATION Spec
CONSTANTS
  Platforms = {"workbuddy", "trae", "openrouter", "cursor"}
  ToolSlots = {1, 2}
  MaxFrames = 3
  Buffer = 2
INVARIANTS
  WireWellFormed
  ReplyIsWhatWasSaid
PROPERTIES
  EveryReplyEnds
CHECK_DEADLOCK FALSE
