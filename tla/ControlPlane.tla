---------------------------- MODULE ControlPlane ----------------------------
(***************************************************************************)
(* The control plane: gateway calls and payment events over one fabric.    *)
(***************************************************************************)
EXTENDS ActionGateway, PaymentIngest

ASSUME CallsAreNoEvents == Ops \cap Events = {}

vars == <<fabricVars, gatewayVars, ingest>>

Init == FabricInit /\ GatewayInit /\ IngestInit

Plan(o) == Propose(o) /\ UNCHANGED ingest

GatewayStep(o) == Execute(o) /\ UNCHANGED ingest

IngestStep(e) == Ingest(e) /\ UNCHANGED gatewayVars

Next ==
  \/ \E o \in Ops : Plan(o) \/ GatewayStep(o)
  \/ \E e \in Events : IngestStep(e)

\* A call runs on a thread of its own and holds no lock between two steps, so once
\* it has begun it goes on.  Nobody owes the system a proposal or an event.
Fairness ==
  /\ \A o \in Ops : WF_vars(GatewayStep(o))
  /\ \A e \in Events : WF_vars(ingest[e].pc # "idle" /\ IngestStep(e))

Spec == Init /\ [][Next]_vars

FairSpec == Spec /\ Fairness

-----------------------------------------------------------------------------

\* The shape of the state.
TypeOK == FabricTypeOK /\ GatewayTypeOK /\ IngestTypeOK

Succeeded(o) == exec[o].outcome = "Success" /\ exec[o].pc \in {"append", "done"}

\* No reachable replica count, in the map, in a snapshot, in the hands of a call or
\* told to a deployment, exceeds replication.max_replicas (RULE_001 and
\* apply_create_replica test it at different times): two calls may both pass the rule
\* below the cap, and workloads that share a deployment never add up on it.
WithinCap(slot) == slot # Absent => slot.replicas <= MaxReplicas

ReplicaCap ==
  /\ \A id \in WorkloadIds : WithinCap(workloads[id])
  /\ \A v \in DOMAIN snapshots : \A id \in WorkloadIds : WithinCap(snapshots[v][id])
  /\ \A o \in Ops : /\ WithinCap(exec[o].copy)
                    /\ \A id \in WorkloadIds : WithinCap(exec[o].buffer[id])
  /\ \A e \in Events : WithinCap(ingest[e].copy)
  /\ \A d \in Deployments : k8sScale[d] # Absent => k8sScale[d] <= MaxReplicas

\* A call that ends Denied, RequiresApproval or Failed has left its change
\* nowhere: not in the map, not in a snapshot a later ROLLBACK could restore,
\* not in a value another call read ("rejected before mutation", docs/architecture.md).
Traces ==
  UNION ({WritesIn(workloads[id]) : id \in WorkloadIds}
         \cup {WritesIn(snapshots[v][id]) : v \in DOMAIN snapshots, id \in WorkloadIds}
         \cup {WritesIn(exec[o].buffer[id]) : o \in Ops, id \in WorkloadIds}
         \cup {WritesIn(ingest[e].copy) : e \in Events})

RejectedLeavesNoTrace ==
  \A o \in Ops :
    exec[o].outcome \in {"Denied", "RequiresApproval", "Failed"} => o \notin Traces

\* Every return path, the early ones and the failing one with its restore
\* included, appends exactly one record with the call's outcome, as its last step.
RecordsOf(o) == {i \in DOMAIN audit : audit[i].op = o}

AuditedExactlyOnce ==
  \A o \in Ops :
    IF At(o, "done")
      THEN \E i \in DOMAIN audit : /\ RecordsOf(o) = {i}
                                   /\ audit[i].outcome = exec[o].outcome
      ELSE RecordsOf(o) = {}

\* Passing the commit-time check of executor.rs.
Passes(o) == At(o, "occ") /\ exec'[o].pc = "snapRead"

\* No rollback has come as far as its own snapshot, so the counter has only grown.
NoRestore == \A o \in Ops : IsRollback(exec[o].kind) => exec[o].ownSnap = 0

\* What the commit-time check does guarantee while versions only grow: once a call
\* has finished its commit, no other call planned on the same version passes.
FinishedCommitExcludes ==
  [][NoRestore =>
       \A o, q \in Ops :
         /\ Passes(o) /\ Versioned(exec[o].kind)
         /\ Succeeded(q) /\ Versioned(exec[q].kind)
         => exec[o].seen # exec[q].seen]_vars

\* The counter is exactly the number of finished upserts: no increment is lost or
\* made twice, whatever the interleaving ("increments on each upsert_workload",
\* docs/state-management.md).  Restores move the counter and are left out.
Upserted == {o \in Ops : Succeeded(o)}
              \cup {e \in Events : ingest[e].pc = "done" /\ ingest[e].target # Absent}

VersionCountsUpserts == NoRestore => version = FirstVersion + Cardinality(Upserted)

\* A call that passes the commit-time check finds the workloads it was planned on
\* ("Another mutation commits ... REJECT", docs/state-management.md).  It does not hold:
\* an upsert is in before it is counted, and a rollback sets the counter back, so that the next
\* upsert reaches the planned number again.
PlannedOnCurrentState ==
  [][\A o \in Ops : Passes(o) /\ Versioned(exec[o].kind) => exec[o].basis = Contents]_vars

\* At most one action per state_version executes (atomic_concurrency_test.rs).
OneCommitPerVersion ==
  \A o, q \in Ops :
    /\ Succeeded(o) /\ Versioned(exec[o].kind)
    /\ Succeeded(q) /\ Versioned(exec[q].kind)
    /\ exec[o].seen = exec[q].seen
    => o = q

\* A submitted proposal is answered, with its record in the audit store, also when the
\* action fails, kubectl fails, and other calls clear the map or replace the snapshot
\* this call goes back to.
EveryCallReturns == \A o \in Ops : At(o, "proposed") ~> At(o, "done")

=============================================================================
