SPECIFICATION MCSpec
CONSTANTS
  Endpoints = {star, chat}
  AnyEndpoint = star
  EndpointLimits = {1, 2}
  Windows = {3}
  DefaultLimit = 1
  DefaultWindow = 3
  MaxClock = 7
  NoConfig = NoConfig
  Limiters = {"counters", "log"}
  Quotas = {1, 2}
  DefaultQuota = 1
  Span = 2
CHECK_DEADLOCK FALSE
INVARIANTS BurstBounded LogExact
