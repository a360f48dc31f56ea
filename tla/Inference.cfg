\* Three calls, two permits, an outage at any time, answers that expire.
CONSTANTS
  c1 = c1
  c2 = c2
  c3 = c3
  p1 = p1
  p2 = p2
  Calls = {c1, c2, c3}
  Prompts = {p1, p2}
  PromptOf <- MCPromptOf
  Permits = 2
  MaxAttempts = 2
  FailureLimit = 2
  OpenFor = 1
  CacheTtl = 1
  CacheLimit = 0
  MetricsLimit = 1
  Dropped = 1
SPECIFICATION FairSpec
INVARIANTS
  PermitsAccounted
PROPERTIES
  CallsEnd
  RecoveredServerIsAsked
  FailuresOpenCircuit
CHECK_DEADLOCK FALSE
