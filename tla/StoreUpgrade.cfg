CONSTANTS
  x = x
  y = y
  Write <- MCWrite
  Multi <- MCMulti
  None = None
  Policy = "Relaxed"
  Modes = {"upgrade"}
  Rules = TRUE
  V11 = TRUE
  Crashes = {"kill", "power"}
  AppendFaults = FALSE
  SyncFaults = FALSE
  SnapFaults = TRUE
  MaxCommits = 4
SPECIFICATION Spec
SYMMETRY WriteSymmetry
INVARIANT CrashSafe
