\* Two gateway calls of every kind and a payment event, all interleaved, on one workload.
CONSTANTS
  w1 = w1
  w2 = w2
  o1 = o1
  o2 = o2
  o3 = o3
  e1 = e1
  d1 = d1
  Absent = Absent
  WorkloadIds = {w1}
  Ops = {o1, o2}
  Events = {e1}
  Deployments = {d1}
  DeploymentOf <- SharedDeployment
  MaxReplicas = 2
  FirstVersion = 1
  Kinds = {"CreateReplica", "ShiftRoute", "Restart", "Rollback"}
  Reviews = {"clear", "approval", "forbidden"}
  RollbackTargets = {1, 2}
  Writers = {o1, o2, e1}
SPECIFICATION OverlapSpec
INVARIANTS
  ReplicaCap
  RejectedLeavesNoTrace
  AuditedExactlyOnce
  VersionCountsUpserts
PROPERTIES
  FinishedCommitExcludes
  ApartImplementsVersionedStore
SYMMETRY CallSymmetry
CHECK_DEADLOCK FALSE
