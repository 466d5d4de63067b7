CONSTANTS
  a = a
  b = b
  Proc <- MCProc
  NoProc = NoProc
  Worlds <- TornWorlds
  MaxCommits = 3
SPECIFICATION Spec
SYMMETRY ProcSymmetry
INVARIANT AckedSurvives
