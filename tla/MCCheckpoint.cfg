SPECIFICATION FairSpec
CONSTANTS
  Containers = {c1, c2, c3}
  Steps = 3
  Budget = 4
  Buffer = 2
  MaxFaults = 3
CHECK_DEADLOCK FALSE
INVARIANTS NoStepSkipped RepeatsBounded NothingLeftBehind
PROPERTY Finishes
