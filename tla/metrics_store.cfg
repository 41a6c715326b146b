CONSTANTS
  Live = {r1, r2}
  Past = {"p1", "p2", "p3", "p4"}
  SeriesCap = 1
  Today = 3
  LastMinute = 2
  LastBoot = 3
  LastDamage = 2
  PastAt <- MCPastAt
  Alternate <- MCAlternate
  FirstMain <- MCFirstMain
  Imports <- MCImports
SPECIFICATION Spec
INVARIANTS CountedOnce FinalSave
PROPERTY FilesKept
SYMMETRY RequestsAlike
CHECK_DEADLOCK FALSE
