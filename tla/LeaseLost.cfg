CONSTANTS
  a = a
  b = b
  c = c
  Instance <- Pair
  Ttl <- Short
  MaxSane = 6
  MaxSkew = 0
  Services = {"conditional"}
  Faults = {"timeout"}
  MaxTime = 2
  MaxLate = 1
SPECIFICATION Spec
PROPERTY LossIsReal
CHECK_DEADLOCK FALSE
