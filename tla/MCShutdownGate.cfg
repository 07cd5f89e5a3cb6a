SPECIFICATION Spec
CONSTANTS
  Workers = {w1, w2}
  Callers = {c1, c2}
  Signal = Signal
  Main = Main
  NoFrame = NoFrame
  DrainTimeout = 1
  MaxSignals = 0
  HooksMayRaise = TRUE
CHECK_DEADLOCK FALSE
SYMMETRY Symmetry
INVARIANTS Accounting DrainedOnlyLate PersistedWhenDrained StoppedAtLast
PROPERTY ImplementsDrain
