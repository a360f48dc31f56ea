--------------------------- MODULE ActionGateway ---------------------------
(***************************************************************************)
(* ActionGateway::execute_with_verdict (esa-gateway/src/executor.rs) with  *)
(* the policy rules and the decision verifier it calls, step by step over  *)
(* a StateFabric that other tasks read and write at the same time.         *)
(*                                                                         *)
(* The function is async without awaiting anything, so on the API's        *)
(* multi-threaded runtime a call runs on one thread while other calls run  *)
(* on others: each read or write of the fabric is one step here.           *)
(*                                                                         *)
(* ShiftRoute, MigratePartition and ThrottleWorkload differ only in the    *)
(* fields they write, which the fabric's model does not keep: they are the *)
(* one kind "ShiftRoute".  Intent constraints, risk and confidence do not  *)
(* read the fabric: their joint outcome is the proposal's "review".        *)
(***************************************************************************)
EXTENDS StateFabric, Sequences, FiniteSets

CONSTANTS
  Ops,              \* calls of execute_with_verdict
  Kinds,            \* the action kinds the calls may carry
  Reviews,          \* the review outcomes the proposals may meet
  RollbackTargets,  \* numbers a ROLLBACK may name as target_snapshot
  Deployments,      \* the kubernetes deployments
  DeploymentOf      \* the deployment a workload id is mapped to; ids may share one

ASSUME OpsAreWriters == Ops \subseteq Writers
ASSUME OpsAreFinite == IsFiniteSet(Ops)
ASSUME GatewayParameters ==
  /\ Kinds \subseteq {"CreateReplica", "ShiftRoute", "Restart", "Rollback"}
  /\ Reviews \subseteq {"clear", "approval", "forbidden"}
  /\ RollbackTargets \subseteq Nat \ {0}
  /\ DeploymentOf \in [WorkloadIds -> Deployments]

VARIABLES
  exec,       \* the local state of each call
  audit,      \* the records appended to the AuditStore, in order
  k8sScale    \* the replica count each deployment was last scaled to, Absent before that

gatewayVars == <<exec, audit, k8sScale>>

Steps == {"idle", "proposed", "rule003", "openAudit", "verify", "exists", "occ",
          "snapRead", "snapCopy", "snapPut", "apply", "sync", "insert", "bump",
          "getSnapshot", "clear", "refill", "resetVersion", "list", "scale",
          "append", "done"}

\* What a record says, None before the call has come to it.
Outcomes == {"None", "Success", "Denied", "RequiresApproval", "Failed"}

Versioned(k) == k \in {"CreateReplica", "ShiftRoute"}

IsRollback(k) == k = "Rollback"

Exec ==
  [pc      : Steps,
   kind    : Kinds \cup {"None"},
   target  : WorkloadIds \cup {Absent},
   review  : Reviews \cup {"clear"},
   goal    : Nat,                \* the snapshot version a restore is after
   seen    : Nat,                \* the proposal's state_version
   basis   : [WorkloadIds -> SUBSET Writers],  \* history: the contents it was planned on
   label   : Nat,                \* the audit record's state_version
   ownSnap : Nat,                \* the pre-execution snapshot's version, 0 before it exists
   buffer  : Store,              \* the snapshot being taken or restored
   todo    : SUBSET WorkloadIds, \* the keys an iteration has still to visit
   copy    : Slot,               \* the workload read by get_workload and changed locally
   outcome : Outcomes]

GatewayTypeOK ==
  /\ exec \in [Ops -> Exec]
  /\ \A o \in Ops : /\ exec[o].pc # "idle" => exec[o].target \in WorkloadIds
                    /\ exec[o].pc \in {"sync", "insert"} => exec[o].copy \in Workload
                    /\ exec[o].pc = "scale" => exec[o].todo \subseteq Held(exec[o].buffer)
  /\ audit \in Seq([op : Ops, outcome : Outcomes, stateVersion : Nat])
  /\ k8sScale \in [Deployments -> Nat \cup {Absent}]

Contents == [id \in WorkloadIds |-> WritesIn(workloads[id])]

\* What an agent may ask for.  Only a ROLLBACK names a snapshot and no rule stops
\* it; a restart has no region an intent could forbid.
Reviewable(k) == IF IsRollback(k) THEN {"clear"}
                 ELSE IF k = "Restart" THEN {"clear", "approval"}
                 ELSE {"clear", "approval", "forbidden"}

Proposal ==
  {p \in [kind : Kinds, target : WorkloadIds, review : Reviews,
           goal : RollbackTargets \cup {0}] :
     /\ p.review \in Reviewable(p.kind)
     /\ IsRollback(p.kind) <=> p.goal # 0}

NotCalled ==
  [pc |-> "idle", kind |-> "None", target |-> Absent, review |-> "clear", goal |-> 0,
   seen |-> 0, basis |-> [id \in WorkloadIds |-> {}], label |-> 0, ownSnap |-> 0,
   buffer |-> EmptyStore, todo |-> {}, copy |-> Absent, outcome |-> "None"]

GatewayInit ==
  /\ exec = [o \in Ops |-> NotCalled]
  /\ audit = <<>>
  /\ k8sScale = [d \in Deployments |-> Absent]

-----------------------------------------------------------------------------

At(o, step) == exec[o].pc = step

\* The call's local state becomes l.
Become(o, l) == exec' = [exec EXCEPT ![o] = l]

Goto(o, step) == Become(o, [exec[o] EXCEPT !.pc = step])

\* An early return of the function: only the audit record is left to append.
Conclude(o, outcome) ==
  Become(o, [exec[o] EXCEPT !.pc = "append", !.outcome = outcome])

\* PlanningAgent::plan reads the version its proposal will carry.
Propose(o) ==
  /\ At(o, "idle")
  /\ \E p \in Proposal :
       Become(o, [exec[o] EXCEPT !.pc = "proposed", !.kind = p.kind,
                                 !.target = p.target, !.review = p.review, !.goal = p.goal,
                                 !.seen = version, !.basis = Contents])
  /\ UNCHANGED <<fabricVars, audit, k8sScale>>

AtReplicaCap(slot) == slot # Absent /\ slot.replicas >= MaxReplicas

\* evaluate up to RULE_002: a critical intent violation and RULE_001 deny at once.
EvaluateCap(o) ==
  /\ At(o, "proposed")
  /\ IF \/ exec[o].review = "forbidden"
        \/ exec[o].kind = "CreateReplica" /\ AtReplicaCap(workloads[exec[o].target])
       THEN Become(o, [exec[o] EXCEPT !.pc = "openAudit", !.outcome = "Denied"])
       ELSE Goto(o, "rule003")
  /\ UNCHANGED <<fabricVars, audit, k8sScale>>

\* RULE_003_STALE_STATE, and the verdict the remaining rules leave.
Verdict(o) ==
  IF Versioned(exec[o].kind) /\ exec[o].seen # version THEN "Denied"
  ELSE IF exec[o].review = "approval" THEN "RequiresApproval"
  ELSE "None"

EvaluateStale(o) ==
  /\ At(o, "rule003")
  /\ Become(o, [exec[o] EXCEPT !.pc = "openAudit", !.outcome = Verdict(o)])
  /\ UNCHANGED <<fabricVars, audit, k8sScale>>

\* AuditRecord::new reads the version once more; a verdict other than Allowed ends the call.
OpenAudit(o) ==
  /\ At(o, "openAudit")
  /\ Become(o, [exec[o] EXCEPT !.label = version,
                               !.pc = IF exec[o].outcome = "None" THEN "verify" ELSE "append"])
  /\ UNCHANGED <<fabricVars, audit, k8sScale>>

\* DecisionVerifier::verify, its two reads: bounded drift, then the workload must exist.
VerifyVersion(o) ==
  /\ At(o, "verify")
  /\ IF Versioned(exec[o].kind) => version <= exec[o].seen + 5
       THEN Goto(o, "exists")
       ELSE Conclude(o, "Failed")
  /\ UNCHANGED <<fabricVars, audit, k8sScale>>

VerifyWorkload(o) ==
  /\ At(o, "exists")
  /\ IF IsRollback(exec[o].kind) \/ exec[o].target \in Present
       THEN Goto(o, "occ")
       ELSE Conclude(o, "Failed")
  /\ UNCHANGED <<fabricVars, audit, k8sScale>>

\* Mutant: the verifier's drift bound instead of equality.
OccHoldsWithinDrift(o) == Versioned(exec[o].kind) => version <= exec[o].seen + 5

\* The commit-time check reads the version and lets go of its lock.
OccHolds(o) == Versioned(exec[o].kind) => exec[o].seen = version

\* Mutant: a denial that does not return.
CommitCheckGoesOn(o) ==
  /\ At(o, "occ")
  /\ Become(o, [exec[o] EXCEPT !.pc = "snapRead",
                               !.outcome = IF OccHolds(o) THEN @ ELSE "Denied"])
  /\ UNCHANGED <<fabricVars, audit, k8sScale>>

CommitCheck(o) ==
  /\ At(o, "occ")
  /\ IF OccHolds(o) THEN Goto(o, "snapRead") ELSE Conclude(o, "Denied")
  /\ UNCHANGED <<fabricVars, audit, k8sScale>>

-----------------------------------------------------------------------------
(* create_snapshot: the version first, then the map entry by entry.        *)

SnapshotVersion(o) ==
  /\ At(o, "snapRead")
  /\ Become(o, [exec[o] EXCEPT !.pc = "snapCopy", !.ownSnap = version,
                               !.buffer = EmptyStore, !.todo = WorkloadIds])
  /\ UNCHANGED <<fabricVars, audit, k8sScale>>

SnapshotCopy(o) ==
  /\ At(o, "snapCopy")
  /\ \E id \in exec[o].todo :
       Become(o, [exec[o] EXCEPT !.buffer = [@ EXCEPT ![id] = workloads[id]],
                                 !.todo = @ \ {id},
                                 !.pc = IF exec[o].todo = {id} THEN "snapPut" ELSE "snapCopy"])
  /\ UNCHANGED <<fabricVars, audit, k8sScale>>

SnapshotPut(o) ==
  /\ At(o, "snapPut")
  /\ PutSnapshot(exec[o].ownSnap, exec[o].buffer)
  /\ Goto(o, IF IsRollback(exec[o].kind) THEN "getSnapshot" ELSE "apply")
  /\ UNCHANGED <<workloads, version, audit, k8sScale>>

-----------------------------------------------------------------------------
(* apply_action on one workload: read, change the copy, insert, increment. *)

\* Mutant: the call asks again for the snapshot it could not get.
FailApplyAgain(o) ==
  Become(o, [exec[o] EXCEPT !.pc = "getSnapshot", !.outcome = "Failed"])

\* A failed apply_action restores the pre-execution snapshot.
FailApply(o) ==
  Become(o, [exec[o] EXCEPT !.pc = "getSnapshot", !.goal = exec[o].ownSnap,
                            !.outcome = "Failed"])

\* Mutant: the cap is left to RULE_001.
RaisesReplicasUncapped(o, w) == exec[o].kind = "CreateReplica"

RaisesReplicas(o, w) == exec[o].kind = "CreateReplica" /\ w.replicas < MaxReplicas

\* What apply_create_replica, apply_shift_route and apply_metric_recovery make of the value.
Effect(o, w) ==
  [replicas |-> IF RaisesReplicas(o, w) THEN w.replicas + 1 ELSE w.replicas,
   ver      |-> w.ver + 1,
   writes   |-> w.writes \cup {o}]

Apply(o) ==
  /\ At(o, "apply")
  /\ LET w == workloads[exec[o].target]
     IN  IF w = Absent
           THEN FailApply(o)
           ELSE Become(o, [exec[o] EXCEPT !.copy = Effect(o, w),
                                          !.pc = IF RaisesReplicas(o, w) THEN "sync" ELSE "insert"])
  /\ UNCHANGED <<fabricVars, audit, k8sScale>>

\* Mutant: the replicas of the workloads that share a deployment are added up.
ScaleDeploymentAdds(id, replicas) ==
  LET d == DeploymentOf[id]
  IN  k8sScale' = [k8sScale EXCEPT ![d] = IF @ = Absent THEN replicas ELSE @ + replicas]

\* sync_to_k8s_deployment: the deployment of the id is scaled; a kubectl that fails is ignored.
ScaleDeployment(id, replicas) ==
  \/ k8sScale' = [k8sScale EXCEPT ![DeploymentOf[id]] = replicas]
  \/ UNCHANGED k8sScale

\* It runs before the commit.
SyncDeployment(o) ==
  /\ At(o, "sync")
  /\ ScaleDeployment(exec[o].target, exec[o].copy.replicas)
  /\ Goto(o, "insert")
  /\ UNCHANGED <<fabricVars, audit>>

CommitInsert(o) ==
  /\ At(o, "insert")
  /\ InsertWorkload(exec[o].target, exec[o].copy)
  /\ Goto(o, "bump")
  /\ UNCHANGED <<version, snapshots, audit, k8sScale>>

\* Mutant: the new version is computed from the one the snapshot read.
CommitIncrementFromSnapshot(o) ==
  /\ At(o, "bump")
  /\ version' = exec[o].ownSnap + 1
  /\ Conclude(o, "Success")
  /\ UNCHANGED <<workloads, snapshots, audit, k8sScale>>

CommitIncrement(o) ==
  /\ At(o, "bump")
  /\ IncrementVersion
  /\ Conclude(o, "Success")
  /\ UNCHANGED <<workloads, snapshots, audit, k8sScale>>

-----------------------------------------------------------------------------
(* restore_snapshot, for a ROLLBACK action or after a failed apply_action. *)

Undoing(o) == exec[o].outcome = "Failed"

\* A snapshot that is not there fails a ROLLBACK, and then the call restores its own.
GetSnapshot(o) ==
  /\ At(o, "getSnapshot")
  /\ IF exec[o].goal \in DOMAIN snapshots
       THEN Become(o, [exec[o] EXCEPT !.pc = "clear", !.todo = WorkloadIds,
                                      !.buffer = snapshots[exec[o].goal]])
       ELSE FailApply(o)
  /\ UNCHANGED <<fabricVars, audit, k8sScale>>

\* Mutant: the map is cleared and not filled again.
RestoreClearOnly(o) ==
  /\ At(o, "clear")
  /\ \E id \in exec[o].todo :
       /\ ClearWorkload(id)
       /\ Become(o, [exec[o] EXCEPT !.todo = @ \ {id},
                                    !.pc = IF exec[o].todo = {id} THEN "resetVersion" ELSE "clear"])
  /\ UNCHANGED <<version, snapshots, audit, k8sScale>>

RestoreClear(o) ==
  /\ At(o, "clear")
  /\ \E id \in exec[o].todo :
       /\ ClearWorkload(id)
       /\ IF exec[o].todo # {id}
            THEN Become(o, [exec[o] EXCEPT !.todo = @ \ {id}])
            ELSE Become(o, [exec[o] EXCEPT !.todo = Held(exec[o].buffer),
                                           !.pc = IF Held(exec[o].buffer) = {}
                                                    THEN "resetVersion" ELSE "refill"])
  /\ UNCHANGED <<version, snapshots, audit, k8sScale>>

RestoreInsert(o) ==
  /\ At(o, "refill")
  /\ \E id \in exec[o].todo :
       /\ InsertWorkload(id, exec[o].buffer[id])
       /\ Become(o, [exec[o] EXCEPT !.todo = @ \ {id},
                                    !.pc = IF exec[o].todo = {id} THEN "resetVersion" ELSE "refill"])
  /\ UNCHANGED <<version, snapshots, audit, k8sScale>>

\* Mutant: the failure path returns before the record is appended.
RestoreVersionReturns(o) ==
  /\ At(o, "resetVersion")
  /\ ResetVersion(exec[o].goal)
  /\ Become(o, [exec[o] EXCEPT !.pc = IF Undoing(o) THEN "done" ELSE "list",
                               !.todo = WorkloadIds])
  /\ UNCHANGED <<workloads, snapshots, audit, k8sScale>>

\* Undoing a failed action ends here; a ROLLBACK goes on to the deployments.
RestoreVersion(o) ==
  /\ At(o, "resetVersion")
  /\ ResetVersion(exec[o].goal)
  /\ Become(o, [exec[o] EXCEPT !.pc = IF Undoing(o) THEN "append" ELSE "list",
                               !.todo = WorkloadIds])
  /\ UNCHANGED <<workloads, snapshots, audit, k8sScale>>

\* apply_rollback lists the workloads, entry by entry ...
ListRestored(o) ==
  /\ At(o, "list")
  /\ \E id \in exec[o].todo :
       LET listed == [exec[o].buffer EXCEPT ![id] = workloads[id]]
       IN  Become(o, IF exec[o].todo # {id}
                       THEN [exec[o] EXCEPT !.buffer = listed, !.todo = @ \ {id}]
                       ELSE [exec[o] EXCEPT !.buffer = listed, !.todo = Held(listed),
                                            !.pc = "scale"])
  /\ UNCHANGED <<fabricVars, audit, k8sScale>>

\* ... and scales the deployment of each one it listed, one after the other.
ScaleRestored(o) ==
  /\ At(o, "scale")
  /\ \E id \in exec[o].todo :
       /\ ScaleDeployment(id, exec[o].buffer[id].replicas)
       /\ Become(o, [exec[o] EXCEPT !.todo = @ \ {id}])
  /\ UNCHANGED <<fabricVars, audit>>

RollbackDone(o) ==
  /\ At(o, "scale") /\ exec[o].todo = {}
  /\ Conclude(o, "Success")
  /\ UNCHANGED <<fabricVars, audit, k8sScale>>

AppendAudit(o) ==
  /\ At(o, "append")
  /\ audit' = Append(audit, [op |-> o, outcome |-> exec[o].outcome,
                             stateVersion |-> exec[o].label])
  /\ Become(o, [exec[o] EXCEPT !.pc = "done", !.buffer = EmptyStore, !.copy = Absent,
                               !.basis = NotCalled.basis])
  /\ UNCHANGED <<fabricVars, k8sScale>>

-----------------------------------------------------------------------------

Execute(o) ==
  \/ EvaluateCap(o) \/ EvaluateStale(o) \/ OpenAudit(o)
  \/ VerifyVersion(o) \/ VerifyWorkload(o) \/ CommitCheck(o)
  \/ SnapshotVersion(o) \/ SnapshotCopy(o) \/ SnapshotPut(o)
  \/ Apply(o) \/ SyncDeployment(o) \/ CommitInsert(o) \/ CommitIncrement(o)
  \/ GetSnapshot(o) \/ RestoreClear(o) \/ RestoreInsert(o) \/ RestoreVersion(o)
  \/ ListRestored(o) \/ ScaleRestored(o) \/ RollbackDone(o) \/ AppendAudit(o)

GatewayNext == \E o \in Ops : Propose(o) \/ Execute(o)

=============================================================================
