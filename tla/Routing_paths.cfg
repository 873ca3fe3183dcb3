SPECIFICATION FairSpec
CONSTANTS
  Domains <- TwoPaths
  RefsUsed <- OwnTwice
  KindsUsed = {"redirectscheme", "headers"}
  MaxEdits = 1
  MaxFaults = 1
INVARIANTS SettledRouting SettledConditions SettledChains
PROPERTIES NoDanglingRoute EveryEntryRouted
CHECK_DEADLOCK FALSE
