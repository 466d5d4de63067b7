CONSTANTS
  Worlds <- KilledWorlds
  Modes = {"truncate"}
  MaxCommits = 1
  MaxSnaps = 1
  MaxCrashes = 1
SPECIFICATION FairSpec
PROPERTY LosesAtMostTheCadence
CHECK_DEADLOCK FALSE
