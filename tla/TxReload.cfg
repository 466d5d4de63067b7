CONSTANTS
  k1 = k1
  k2 = k2
  t1 = t1
  t2 = t2
  Keys <- OneKey
  Txs <- OneTx
  Legacy = {}
  Snapshotters = {"server", "peer"}
  MaxCommits = 4
  MaxSnaps = 1
SPECIFICATION Spec
PROPERTY NoLostUpdate
CHECK_DEADLOCK FALSE
