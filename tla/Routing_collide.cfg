SPECIFICATION FairSpec
CONSTANTS
  Domains <- CollidingPaths
  RefsUsed <- OwnTwice
  KindsUsed = {"headers"}
  MaxEdits = 0
  MaxFaults = 0
PROPERTIES DifferentPathsRouted
CHECK_DEADLOCK FALSE
