SPECIFICATION MCSpec
CONSTANTS
  Parts = {"persistence", "forks"}
  Sids = {s1}
  Clients = {c1, c2}
  Keys = {k1, k2}
  TTLs = {1, 3}
  Extensions = {1}
  MaxTTL = 2
  AutoExtends = {TRUE, FALSE}
  BatchSize = 1
  Second = 2
  MaxClock = 5
  Absent = Absent
  NoRecord = NoRecord
  Sessions = {s1}
  ForkIds = {f1}
  Sizes = {3, 4}
  Needs = {0, 2}
  Strategies = {"first_wins", "best_score", "all", "majority", "custom", "custom without merger"}
  AutoCancels = {TRUE, FALSE}
  MaxForks = 1
  MaxBranches = 3
  Outputs = {"one", "'one'", "two"}
  MaxScore = 1
  Texts = {"1", "2"}
  Text <- MCText
  NoFork = NoFork
  NoOutput = NoOutput
CHECK_DEADLOCK FALSE
SYMMETRY Symmetry
INVARIANTS TTLBounded WinnerWins
PROPERTIES UpdatesMerged EndsForGood CleanupOnlyExpired MergeSettles CleanupLosesNoWork
