SPECIFICATION FairScaling
CONSTANTS
  MaxReplicas = 2
  MaxChanges = 2
PROPERTIES AutoscalerControls
CHECK_DEADLOCK FALSE
