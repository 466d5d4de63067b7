CONSTANTS
  Worlds <- ShipWorlds
  Modes = {"truncate", "archive", "keep"}
  MaxCommits = 2
  MaxSnaps = 1
  MaxCrashes = 1
SPECIFICATION FairSpec
INVARIANT RestoresPrefix
INVARIANT NumbersItsCommits
INVARIANT VouchedIsDurable
PROPERTY AllShipped
CHECK_DEADLOCK FALSE
