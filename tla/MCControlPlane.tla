--------------------------- MODULE MCControlPlane ---------------------------
EXTENDS ControlPlaneOverlaps, TLC

CONSTANTS w1, w2, o1, o2, o3, e1, d1

\* Every workload id is mapped to one deployment.
SharedDeployment == [id \in WorkloadIds |-> d1]

CallSymmetry == Permutations(Ops)
=============================================================================
