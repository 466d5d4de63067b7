CONSTANTS
  x = x
  y = y
  Write <- MCWrite
  Multi <- MCMulti
  None = None
  Policy = "Batched"
  Modes = {}
  Rules = TRUE
  V11 = TRUE
  Crashes = {"kill", "power"}
  AppendFaults = TRUE
  SyncFaults = TRUE
  SnapFaults = FALSE
  MaxCommits = 4
SPECIFICATION Spec
INVARIANT RecoversPrefix
