SPECIFICATION Spec
CONSTANTS
  Connections = {c1, c2, c3}
  Tenants = {t1}
  Streams = {g1, g2}
  MaxConnections = 2
  TTL = 1
  ChunkSize = 2
  MaxTokens = 3
  MaxClock = 2
  Abandons = TRUE
  NoConnection = NoConnection
CHECK_DEADLOCK FALSE
SYMMETRY Symmetry
INVARIANTS ActiveIsHeld CutOnlyWhenClosed EndIsComplete
PROPERTY StopsAtDisconnect
