CONSTANTS
  Worlds <- KillAndFaultWorlds
  Declared = TRUE
  Retention = 1
  NoSnap = NoSnap
  MaxSnaps = 4
SPECIFICATION Spec
INVARIANT NumbersKept
INVARIANT AsOfIsExact
INVARIANT HistoryIsWhole
