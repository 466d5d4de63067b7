CONSTANTS
  x = x
  y = y
  Write <- MCWrite
  Multi <- MCMulti
  None = None
  Policy = "Strict"
  Modes = {}
  Rules = TRUE
  V11 = TRUE
  Crashes = {"kill"}
  AppendFaults = TRUE
  SyncFaults = FALSE
  SnapFaults = FALSE
  MaxCommits = 3
SPECIFICATION Spec
INVARIANT CrashSafe
