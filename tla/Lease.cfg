CONSTANTS
  a = a
  b = b
  c = c
  Instance <- Pair
  Ttl <- Short
  MaxSane = 9
  MaxSkew = 1
  Services = {"conditional", "ignores_create", "ignores_match", "off"}
  Faults = {"timeout", "freeze", "crash"}
  MaxTime = 3
  MaxLate = 1
SPECIFICATION Spec
SYMMETRY Sym
INVARIANT OneWriter
INVARIANT FailClosed
PROPERTY HolderGoverns
CHECK_DEADLOCK FALSE
