CONSTANTS
  x = x
  y = y
  Write <- MCWrite
  Multi <- MCMulti
  None = None
  Policy = "Strict"
  Modes = {"keep", "truncate", "archive"}
  Rules = FALSE
  V11 = TRUE
  Crashes = {"power"}
  AppendFaults = FALSE
  SyncFaults = FALSE
  SnapFaults = TRUE
  MaxCommits = 3
SPECIFICATION Spec
INVARIANT IntentSettledAtAppend
