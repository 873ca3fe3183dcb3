SPECIFICATION Spec
CONSTANTS
  Clients = {c1, c2}
  Names = {w, h}
  Hidden = {h}
  Filled = {}
  Flattened = {w}
  Switched = {w}
  MaxVersion = 4
  MaxData = 1
INVARIANT TypeOK
PROPERTY OnlyTypedChanges
SYMMETRY Symmetry
CHECK_DEADLOCK FALSE
