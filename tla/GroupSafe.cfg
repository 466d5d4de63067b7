CONSTANTS
  p1 = p1
  p2 = p2
  b1 = b1
  c1 = c1
  c2 = c2
  r1 = r1
  d1 = d1
  Plain = {p1}
  Bad = {b1}
  Cas = {c1}
  Role = {r1}
  Direct = {d1}
  Faults = {"sync", "cut", "append", "refused", "refresh", "follow"}
  MaxGroup = 4
  Nobody = Nobody
SPECIFICATION Spec
INVARIANT TypeOK
INVARIANT EventsFollowWal
INVARIANT CasOnUnchanged
PROPERTY Implements
CHECK_DEADLOCK FALSE
