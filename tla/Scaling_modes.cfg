SPECIFICATION FairScaling
CONSTANTS
  MaxReplicas = 2
  MaxChanges = 3
INVARIANTS  SettledActive
PROPERTIES ManualTakesHold
CHECK_DEADLOCK FALSE
