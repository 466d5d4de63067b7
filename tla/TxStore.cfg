CONSTANTS
  t1 = t1
  t2 = t2
  t3 = t3
  r1 = r1
  r2 = r2
  Txs <- TwoTxs
  Reqs <- TwoReqs
  MaxOpen = 1
  Idle = 2
  Lifetime = 3
  MaxTime = 6
SPECIFICATION FairSpec
INVARIANT BodyIsInOnePlace
INVARIANT IdleIsRolledBack
INVARIANT WithinLimit
INVARIANT DrainedIsEmpty
PROPERTY SlotsAreFreed
CHECK_DEADLOCK FALSE
