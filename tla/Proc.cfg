CONSTANTS
  a = a
  b = b
  Proc <- MCProc
  NoProc = NoProc
  Worlds <- AllWorlds
  MaxCommits = 3
SPECIFICATION Spec
SYMMETRY ProcSymmetry
INVARIANT WriteIsOnTop
INVARIANT AckedSurvives
INVARIANT ReadIsCurrent
INVARIANT HandleIsPrefix
