SPECIFICATION FairSpec
CONSTANTS
  Sizes = {1, 2}
  MaxEdits = 3
  MaxClaims = 4
INVARIANTS TypeOK SettledDisk
PROPERTIES DiskConverges
CHECK_DEADLOCK FALSE
