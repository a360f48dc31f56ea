\* The runtime, and one request after another for a scenario or a benchmark.
CONSTANTS
  w1 = w1
  w2 = w2
  r1 = r1
  r2 = r2
  Runtime = Runtime
  Ids = {w1, w2}
  MaxQueue = 2999
  Policy <- MCPolicy
  HomeOf <- MCHomeOf
  Requests = {r1}
  Scripts <- MCScripts
  MaxRequests = 1
  FirstListed = w1
  Advice <- MCAdvice
SPECIFICATION FairSpec
INVARIANTS
  ReplicasWithinPolicy
  ResidencyKept
  PlannedUnderIntent
PROPERTIES
  WorkloadsRecover
