CONSTANTS
  k1 = k1
  k2 = k2
  t1 = t1
  t2 = t2
  Keys <- TwoKeys
  Txs <- OneTx
  Legacy = {}
  Snapshotters = {"server", "peer"}
  MaxCommits = 3
  MaxSnaps = 1
SPECIFICATION Spec
SYMMETRY Sym
PROPERTY ConflictsDetected
PROPERTY ConflictsAreReal
CHECK_DEADLOCK FALSE
