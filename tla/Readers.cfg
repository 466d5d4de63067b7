CONSTANTS
  c1 = c1
  c2 = c2
  Captures <- TwoCaptures
  Worlds <- AllWorlds
SPECIFICATION FairSpec
INVARIANT OwnWritesSeen
INVARIANT CapturesAdvance
INVARIANT PeersFollowed
PROPERTY CapturesReturn
CHECK_DEADLOCK FALSE
