CONSTANTS
  x = x
  y = y
  Write <- MCWrite
  Multi <- MCMulti
  None = None
  Policy = "Batched"
  Modes = {"keep", "truncate", "archive"}
  Rules = TRUE
  V11 = TRUE
  Crashes = {"kill"}
  AppendFaults = FALSE
  SyncFaults = FALSE
  SnapFaults = TRUE
  MaxCommits = 3
SPECIFICATION Spec
INVARIANT CrashSafe
INVARIANT ReopenIsIdentity
