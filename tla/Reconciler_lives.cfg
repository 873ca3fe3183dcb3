SPECIFICATION FairSpec
CONSTANTS
  MaxGen = 1
  MaxUid = 2
  MaxFaults = 1
  ReplicaCounts = {2}
  Active = {"external_secrets_retry", "deployment", "service_monitor"}
  Drifting = {}
  StatusTries = 2
INVARIANTS NoOrphans SettledMetrics
PROPERTIES Converges DeletionCompletes
CHECK_DEADLOCK FALSE
