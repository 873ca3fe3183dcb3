SPECIFICATION FairSpec
CONSTANTS
  Apps <- MCApps
  Names <- MCNames
  Contents <- MCContents
  Ports <- MCPorts
  MaxEdits = 3
  MaxFaults = 1
INVARIANTS TypeOK SettledObjects
PROPERTIES NeverSeizes PrunesOnlyOwn EveryAppServed
CHECK_DEADLOCK FALSE
