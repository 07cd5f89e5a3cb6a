SPECIFICATION FairSpec
CONSTANTS
  Workers = {w1}
  Callers = {c1}
  Signal = Signal
  Main = w1
  NoFrame = NoFrame
  DrainTimeout = 1
  MaxSignals = 1
  HooksMayRaise = FALSE
CHECK_DEADLOCK FALSE
PROPERTY ShutdownReturns
