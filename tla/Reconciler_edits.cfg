SPECIFICATION Spec
CONSTANTS
  MaxGen = 2
  MaxUid = 1
  MaxFaults = 1
  ReplicaCounts = {0, 2}
  Active = {"secrets", "deployment"}
  Drifting = {"secrets"}
  StatusTries = 2
INVARIANTS TypeOK PausedIsFrozen SettledChildren SettledStatus
CHECK_DEADLOCK FALSE
