\* Concurrent calls planned on one version.
CONSTANTS
  w1 = w1
  w2 = w2
  o1 = o1
  o2 = o2
  o3 = o3
  e1 = e1
  d1 = d1
  Absent = Absent
  WorkloadIds = {w1}
  Ops = {o1, o2}
  Events = {}
  Deployments = {d1}
  DeploymentOf <- SharedDeployment
  MaxReplicas = 2
  FirstVersion = 1
  Kinds = {"CreateReplica"}
  Reviews = {"clear"}
  RollbackTargets = {}
  Writers = {o1, o2}
SPECIFICATION OverlapSpec
INVARIANTS
  OneCommitPerVersion
SYMMETRY CallSymmetry
CHECK_DEADLOCK FALSE
