CONSTANTS
  x = x
  y = y
  Write <- MCWrite
  Multi <- MCMulti
  None = None
  Policy = "Strict"
  Modes = {}
  Rules = FALSE
  V11 = TRUE
  Crashes = {"kill"}
  AppendFaults = FALSE
  SyncFaults = TRUE
  SnapFaults = FALSE
  MaxCommits = 3
SPECIFICATION Spec
INVARIANT ReopenIsIdentity
