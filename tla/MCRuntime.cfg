SPECIFICATION Spec
CONSTANTS
  Threads = {t1, t2}
  Sids = {s1, s2}
  MaxTurns = 3
  Objects <- MCObjects
  NoObject = NoObject
  NoTurn = NoTurn
  SessionBudget = 1
  DailyBudget = 1
  RequestBudget = 1
  Estimate = 1
  MaxCost = 2
  Orders = {TRUE, FALSE}
CHECK_DEADLOCK FALSE
SYMMETRY Symmetry
INVARIANTS NoLostTurn LedgerExact DailyBound SessionBound
PROPERTY RevivedOnlyByRequest
