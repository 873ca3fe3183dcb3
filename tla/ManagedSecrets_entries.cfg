SPECIFICATION FairSpec
CONSTANTS
  Names = {a, b}
  KindsUsed = {"none", "inline", "external", "ref"}
  MaxEdits = 3
  MaxData = 2
INVARIANTS TypeOK SettledRollout SettledEsCondition
PROPERTIES NeverSeizesFromEso ExternalTakesHold
CHECK_DEADLOCK FALSE
