CONSTANTS
  x = x
  y = y
  Write <- MCWrite
  Multi <- MCMulti
  None = None
  Policy = "Strict"
  Modes = {"keep", "truncate", "archive", "upgrade"}
  Rules = FALSE
  V11 = TRUE
  Crashes = {"power"}
  AppendFaults = FALSE
  SyncFaults = FALSE
  SnapFaults = TRUE
  MaxCommits = 4
SPECIFICATION Spec
SYMMETRY WriteSymmetry
INVARIANT TypeOK
INVARIANT CrashSafe
INVARIANT ReopenIsIdentity
INVARIANT NoRevivableIntent
