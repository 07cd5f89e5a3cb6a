SPECIFICATION Spec
CONSTANTS
  Tenants = {a, b}
  MaxKeys = 3
  MaxTime = 5
  Lifetimes = {1}
  Interval = 2
  Grace = 1
  Notice = 0
  NoKey = NoKey
CHECK_DEADLOCK FALSE
INVARIANTS TypeOK ValidAsPromised RevokeAllEnds ActiveKept
