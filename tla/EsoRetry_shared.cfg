SPECIFICATION FairSpec
CONSTANTS
  Apps = {a, b}
  Interval = 1
  Second = 1
  MaxFaults = 1
INVARIANTS TypeOK SettledReady
PROPERTIES NudgeGap AccessTakesHold
CHECK_DEADLOCK FALSE
