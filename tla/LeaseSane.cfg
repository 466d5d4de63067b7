CONSTANTS
  a = a
  b = b
  c = c
  Instance <- Pair
  Ttl <- Uneven
  MaxSane = 6
  MaxSkew = 0
  Services = {"conditional"}
  Faults = {}
  MaxTime = 5
  MaxLate = 0
SPECIFICATION Spec
INVARIANT OneWriter
CHECK_DEADLOCK FALSE
