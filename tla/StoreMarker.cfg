CONSTANTS
  x = x
  y = y
  Write <- MCWrite
  Multi <- MCMulti
  None = None
  Policy = "Strict"
  Modes = {"keep", "truncate", "archive"}
  Rules = TRUE
  V11 = TRUE
  Crashes = {"power"}
  AppendFaults = FALSE
  SyncFaults = FALSE
  SnapFaults = FALSE
  MaxCommits = 3
SPECIFICATION Spec
INVARIANT CrashSafe
