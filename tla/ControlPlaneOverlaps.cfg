\* Two gateway calls that may roll back, all interleaved, on two workloads of one deployment, under fairness.
CONSTANTS
  w1 = w1
  w2 = w2
  o1 = o1
  o2 = o2
  o3 = o3
  e1 = e1
  d1 = d1
  Absent = Absent
  WorkloadIds = {w1, w2}
  Ops = {o1, o2}
  Events = {}
  Deployments = {d1}
  DeploymentOf <- SharedDeployment
  MaxReplicas = 2
  FirstVersion = 1
  Kinds = {"CreateReplica", "Rollback"}
  Reviews = {"clear"}
  RollbackTargets = {1}
  Writers = {o1, o2}
SPECIFICATION FairOverlapSpec
INVARIANTS
  ReplicaCap
  LostOnlyThroughTornSnapshots
PROPERTIES
  ApartImplementsVersionedStore
  EveryCallReturns
CHECK_DEADLOCK FALSE
