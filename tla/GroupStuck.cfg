CONSTANTS
  p1 = p1
  p2 = p2
  b1 = b1
  c1 = c1
  c2 = c2
  r1 = r1
  d1 = d1
  Plain = {p1, p2}
  Bad = {}
  Cas = {}
  Role = {}
  Direct = {}
  Faults = {"sync"}
  MaxGroup = 2
  Nobody = Nobody
SPECIFICATION FairSpec
PROPERTY EveryoneAlwaysAnswered
CHECK_DEADLOCK FALSE
