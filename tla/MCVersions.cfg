CONSTANTS
  Ids = {v1, v2, v3, v4, v5, v6}
  Percents = {0, 10, 100}
  MaxVersions = 6
  NoVersion = NoVersion
SPECIFICATION Spec
CHECK_DEADLOCK FALSE
SYMMETRY Symmetry
INVARIANT TrafficWhole
PROPERTY ImplementsStack
