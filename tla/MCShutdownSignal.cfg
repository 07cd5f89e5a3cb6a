SPECIFICATION FairSpec
CONSTANTS
  Workers = {w1, w2}
  Callers = {c1}
  Signal = Signal
  Main = c1
  NoFrame = NoFrame
  DrainTimeout = 2
  MaxSignals = 2
  HooksMayRaise = TRUE
CHECK_DEADLOCK FALSE
PROPERTIES HealthMonotone HealthFollowsEvent ShutdownReturns
