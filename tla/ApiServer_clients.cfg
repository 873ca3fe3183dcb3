SPECIFICATION Spec
CONSTANTS
  Clients = {c1, c2}
  Names = {s}
  MaxVersion = 4
  MaxData = 1
INVARIANTS TypeOK AtMostOnce
PROPERTIES ServesAtomically NoLostUpdate InlineSurvives
SYMMETRY Symmetry
CHECK_DEADLOCK FALSE
