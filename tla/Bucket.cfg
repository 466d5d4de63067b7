CONSTANTS
  Instances = {"a", "b"}
  First = "a"
  Worlds <- BucketWorlds
  RetainN = 1
  MaxLate = 1
  MaxTimeouts = 1
SPECIFICATION Spec
INVARIANT LatestVerifies
INVARIANT ManifestsVerify
PROPERTY OneHistory
PROPERTY CalmlyBuriesNothing
CHECK_DEADLOCK FALSE
