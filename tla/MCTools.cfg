SPECIFICATION FairSpec
CONSTANTS
  Tenants = {"a", "b"}
  Tools = {"x"}
  Actions = {"read"}
  Star = "*"
  Grants <- MCGrants
  Patterns <- MCPatterns
  MaxRules = 2
  MaxTime = 1
  Callers = {c1}
  Threads = {r1, r2}
  NoThread = NoThread
CHECK_DEADLOCK FALSE
INVARIANT RateHeld
PROPERTIES AccessMonotone Returns
