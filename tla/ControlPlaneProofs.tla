------------------------- MODULE ControlPlaneProofs -------------------------
(***************************************************************************)
(* Type correctness of the control plane, the replica cap, the audit of    *)
(* every call, that a refused call leaves no trace, and what holds as long *)
(* as no rollback is about, for every number of calls, events, workloads,  *)
(* deployments and replicas.  Then, of the same interleavings with a       *)
(* record of whose operations met: that the fabric is a versioned store to *)
(* the operations that meet no other, and the one way a workload is lost.  *)
(***************************************************************************)
EXTENDS ControlPlaneOverlaps, FiniteSetTheorems, TLAPS

\* The initial state has the declared shape.
LEMMA InitTypes == Init => TypeOK
  <1> SUFFICES ASSUME Init PROVE TypeOK
    OBVIOUS
  <1> USE DEF Init, Store, Slot, Workload
  <1>1. FabricTypeOK
    BY SeededVersion, ReplicaBound DEF FabricInit, FabricTypeOK
  <1>2. GatewayTypeOK
    <2>1. exec \in [Ops -> Exec]
      BY DEF GatewayInit, NotCalled, Exec, Steps, Outcomes, EmptyStore
    <2>2. audit \in Seq([op : Ops, outcome : Outcomes, stateVersion : Nat])
      BY DEF GatewayInit
    <2>3. k8sScale \in [Deployments -> Nat \cup {Absent}]
      BY DEF GatewayInit
    <2>4. \A o \in Ops : exec[o].pc = "idle"
      BY DEF GatewayInit, NotCalled
    <2> QED
      BY <2>1, <2>2, <2>3, <2>4 DEF GatewayTypeOK
  <1>3. IngestTypeOK
    BY DEF IngestInit, IngestTypeOK, IngestSteps
  <1> QED
    BY <1>1, <1>2, <1>3 DEF TypeOK

\* The local states of the calls: from its proposal on a call has a target,
\* it commits a workload, and it scales the deployments of workloads it listed.
ProposedCall ==
  {l \in Exec : /\ l.target \in WorkloadIds
                /\ l.pc \in {"sync", "insert"} => l.copy \in Workload
                /\ l.pc = "scale" => l.todo \subseteq Held(l.buffer)}

CallsTyped ==
  /\ exec \in [Ops -> Exec]
  /\ \A o \in Ops : exec[o].pc # "idle" => exec[o] \in ProposedCall

\* A call that becomes a well-typed record leaves exec well-typed.
LEMMA BecomeTypes ==
  ASSUME CallsTyped, NEW o \in Ops, NEW l \in ProposedCall, Become(o, l)
  PROVE  CallsTyped'
  BY DEF Become, CallsTyped, ProposedCall

\* Advancing the program counter, with or without an outcome, keeps the type.
LEMMA ProgressTypes ==
  ASSUME CallsTyped, NEW o \in Ops, exec[o].pc # "idle",
         NEW s \in Steps \ {"sync", "insert", "scale"}, NEW x \in Outcomes
  PROVE  /\ Goto(o, s) => CallsTyped'
         /\ Conclude(o, x) => CallsTyped'
         /\ FailApply(o) => CallsTyped'
  <1>e. exec[o] \in ProposedCall
    BY DEF CallsTyped, ProposedCall
  <1>1. [exec[o] EXCEPT !.pc = s] \in ProposedCall
    BY <1>e DEF Exec, ProposedCall
  <1>2. [exec[o] EXCEPT !.pc = "append", !.outcome = x] \in ProposedCall
    <2> DEFINE l == [exec[o] EXCEPT !.pc = "append", !.outcome = x]
    <2>1. l \in Exec /\ l.target = exec[o].target /\ l.pc = "append"
      BY <1>e DEF Exec, ProposedCall, Steps
    <2> QED
      BY <1>e, <2>1 DEF ProposedCall
  <1>3. [exec[o] EXCEPT !.pc = "getSnapshot", !.goal = exec[o].ownSnap,
                        !.outcome = "Failed"] \in ProposedCall
    <2> DEFINE l == [exec[o] EXCEPT !.pc = "getSnapshot", !.goal = exec[o].ownSnap,
                                    !.outcome = "Failed"]
    <2>1. l \in Exec /\ l.target = exec[o].target /\ l.pc = "getSnapshot"
      BY <1>e, ZenonT(60) DEF Exec, ProposedCall, Steps, Outcomes
    <2> QED
      BY <1>e, <2>1 DEF ProposedCall
  <1> QED
    BY <1>1, <1>2, <1>3, BecomeTypes DEF Goto, Conclude, FailApply

\* A value written to one key keeps the store's type.
LEMMA StoreUpdateTypes ==
  ASSUME NEW s \in Store, NEW id \in WorkloadIds, NEW slot \in Slot
  PROVE  /\ s[id] \in Slot
         /\ [s EXCEPT ![id] = slot] \in Store
  BY DEF Store

\* What an action makes of a workload is a workload.
LEMMA EffectTypes ==
  ASSUME NEW o \in Ops, NEW w \in Workload
  PROVE  Effect(o, w) \in Workload
  BY OpsAreWriters DEF Effect, Workload, RaisesReplicas

\* The workloads a store holds are well-typed.
LEMMA PresentTypes ==
  ASSUME NEW s \in Store, NEW id \in WorkloadIds, s[id] # Absent
  PROVE  s[id] \in Workload
  BY DEF Store, Slot

\* The contents of the map, as a proposal remembers them.
LEMMA ContentsTypes ==
  ASSUME workloads \in Store
  PROVE  Contents \in [WorkloadIds -> SUBSET Writers]
  BY DEF Contents, WritesIn, Store, Slot, Workload

\* A proposal changes the local state of its call only, to a well-typed one.
LEMMA ProposeTypes ==
  ASSUME NEW o \in Ops, FabricTypeOK, GatewayTypeOK, Propose(o)
  PROVE  FabricTypeOK' /\ GatewayTypeOK'
  <1>a. CallsTyped /\ workloads \in Store /\ version \in Nat /\ exec[o] \in Exec
    BY DEF FabricTypeOK, GatewayTypeOK, CallsTyped, ProposedCall
  <1>1. PICK p \in Proposal :
          Become(o, [exec[o] EXCEPT !.pc = "proposed", !.kind = p.kind,
                     !.target = p.target, !.review = p.review, !.goal = p.goal,
                     !.seen = version, !.basis = Contents])
    BY DEF Propose
  <1>2. /\ p.kind \in Kinds /\ p.target \in WorkloadIds
        /\ p.review \in Reviews /\ p.goal \in Nat
    BY <1>1, GatewayParameters DEF Proposal
  <1>3. [exec[o] EXCEPT !.pc = "proposed", !.kind = p.kind, !.target = p.target,
                        !.review = p.review, !.goal = p.goal,
                        !.seen = version, !.basis = Contents] \in ProposedCall
    BY <1>a, <1>2, ContentsTypes, ZenonT(60) DEF Exec, ProposedCall, Steps
  <1>4. CallsTyped'
    BY <1>a, <1>1, <1>3, BecomeTypes
  <1> QED
    BY <1>4 DEF Propose, fabricVars, FabricTypeOK, GatewayTypeOK, CallsTyped, ProposedCall

(***************************************************************************)
(* A step of a running call keeps the types of the fabric and the gateway. *)
(***************************************************************************)
\* What a deployment is scaled to, if kubectl does not fail, is what it was told.
LEMMA ScaleKeeps ==
  ASSUME k8sScale \in [Deployments -> Nat \cup {Absent}], NEW id \in WorkloadIds, NEW n \in Nat,
         ScaleDeployment(id, n)
  PROVE  /\ k8sScale' \in [Deployments -> Nat \cup {Absent}]
         /\ \A d \in Deployments : k8sScale'[d] \in {k8sScale[d], n}
  <1>1. DeploymentOf[id] \in Deployments
    BY GatewayParameters
  <1> QED
    BY <1>1 DEF ScaleDeployment

LEMMA ExecuteTypes ==
  ASSUME NEW o \in Ops, FabricTypeOK, GatewayTypeOK, Execute(o)
  PROVE  FabricTypeOK' /\ GatewayTypeOK'
  <1> DEFINE Records == [op : Ops, outcome : Outcomes, stateVersion : Nat]
             E == CallsTyped
             A == audit \in Seq(Records)
             K == k8sScale \in [Deployments -> Nat \cup {Absent}]
             V == version \in Nat
             W == workloads \in Store
             S == /\ DOMAIN snapshots \subseteq Nat
                  /\ \A v \in DOMAIN snapshots : snapshots[v] \in Store
  <1>a. E /\ A /\ K /\ V /\ W /\ S
    BY DEF FabricTypeOK, GatewayTypeOK, CallsTyped, ProposedCall
  <1>b. SUFFICES E' /\ A' /\ K' /\ V' /\ W' /\ S'
    BY DEF FabricTypeOK, GatewayTypeOK, CallsTyped, ProposedCall
  <1>c. /\ UNCHANGED audit => A'
        /\ UNCHANGED k8sScale => K'
        /\ UNCHANGED version => V'
        /\ UNCHANGED workloads => W'
        /\ UNCHANGED snapshots => S'
    BY <1>a
  <1>d. /\ UNCHANGED <<fabricVars, audit, k8sScale>> => A' /\ K' /\ V' /\ W' /\ S'
        /\ UNCHANGED <<fabricVars, k8sScale>> => K' /\ V' /\ W' /\ S'
        /\ UNCHANGED <<fabricVars, audit>> => A' /\ V' /\ W' /\ S'
    BY <1>c DEF fabricVars
  <1>e. exec[o].pc # "idle"
    <2> USE DEF At
    <2>1. EvaluateCap(o) \/ EvaluateStale(o) \/ OpenAudit(o) \/ VerifyVersion(o)
          \/ VerifyWorkload(o) \/ CommitCheck(o)
            => exec[o].pc # "idle"
      BY DEF EvaluateCap, EvaluateStale, OpenAudit, VerifyVersion, VerifyWorkload, CommitCheck
    <2>2. SnapshotVersion(o) \/ SnapshotCopy(o) \/ SnapshotPut(o) \/ Apply(o) \/ SyncDeployment(o)
            => exec[o].pc # "idle"
      BY DEF SnapshotVersion, SnapshotCopy, SnapshotPut, Apply, SyncDeployment
    <2>3. CommitInsert(o) \/ CommitIncrement(o) \/ GetSnapshot(o) \/ RestoreClear(o)
            => exec[o].pc # "idle"
      BY DEF CommitInsert, CommitIncrement, GetSnapshot, RestoreClear
    <2>4. RestoreInsert(o) \/ RestoreVersion(o) \/ AppendAudit(o) => exec[o].pc # "idle"
      BY DEF RestoreInsert, RestoreVersion, AppendAudit
    <2>5. ListRestored(o) \/ ScaleRestored(o) \/ RollbackDone(o) => exec[o].pc # "idle"
      BY DEF ListRestored, ScaleRestored, RollbackDone
    <2> QED
      BY <2>1, <2>2, <2>3, <2>4, <2>5 DEF Execute
  <1>f. /\ exec[o].pc # "idle" /\ exec[o] \in ProposedCall
        /\ exec[o].kind \in Kinds \cup {"None"} /\ exec[o].target \in WorkloadIds
        /\ exec[o].goal \in Nat /\ exec[o].seen \in Nat
        /\ exec[o].label \in Nat /\ exec[o].ownSnap \in Nat
        /\ exec[o].buffer \in Store /\ exec[o].todo \in SUBSET WorkloadIds
        /\ exec[o].copy \in Slot /\ exec[o].outcome \in Outcomes
    BY <1>a, <1>e DEF Exec, ProposedCall, CallsTyped
  <1>1. CASE EvaluateCap(o)
    <2>1. [exec[o] EXCEPT !.pc = "openAudit", !.outcome = "Denied"] \in ProposedCall
      BY <1>f, ZenonT(60) DEF Exec, ProposedCall, Steps, Outcomes
    <2>2. "rule003" \in Steps \ {"sync", "insert", "scale"} /\ "None" \in Outcomes
      BY DEF Steps, Outcomes
    <2>3. E'
      <3>1. CASE Goto(o, "rule003")
        BY <1>a, <1>f, <2>2, <3>1, ProgressTypes
      <3>2. CASE Become(o, [exec[o] EXCEPT !.pc = "openAudit", !.outcome = "Denied"])
        BY <1>a, <2>1, <3>2, BecomeTypes
      <3> QED
        BY <1>1, <3>1, <3>2 DEF EvaluateCap
    <2> QED
      BY <1>1, <1>d, <2>3 DEF EvaluateCap
  <1>2. CASE EvaluateStale(o)
    <2>1. PICK x \in Outcomes :
            Become(o, [exec[o] EXCEPT !.pc = "openAudit", !.outcome = x])
      BY <1>2 DEF EvaluateStale, Verdict, Outcomes
    <2>2. [exec[o] EXCEPT !.pc = "openAudit", !.outcome = x] \in ProposedCall
      BY <1>f, ZenonT(60) DEF Exec, ProposedCall, Steps
    <2> QED
      BY <1>2, <1>a, <1>d, <2>1, <2>2, BecomeTypes DEF EvaluateStale
  <1>3. CASE OpenAudit(o)
    <2>1. PICK s \in Steps \ {"sync", "insert", "scale"} :
            Become(o, [exec[o] EXCEPT !.label = version, !.pc = s])
      BY <1>3 DEF OpenAudit, Steps
    <2>2. [exec[o] EXCEPT !.label = version, !.pc = s] \in ProposedCall
      BY <1>a, <1>f DEF Exec, ProposedCall
    <2> QED
      BY <1>3, <1>a, <1>d, <2>1, <2>2, BecomeTypes DEF OpenAudit
  <1>4. CASE VerifyVersion(o) \/ VerifyWorkload(o)
    <2>1. {"exists", "occ"} \subseteq Steps \ {"sync", "insert", "scale"} /\ "Failed" \in Outcomes
      BY DEF Steps, Outcomes
    <2>2. E'
      BY <1>4, <1>a, <1>f, <2>1, ProgressTypes DEF VerifyVersion, VerifyWorkload
    <2> QED
      BY <1>4, <1>d, <2>2 DEF VerifyVersion, VerifyWorkload
  <1>5. CASE CommitCheck(o)
    <2>1. "snapRead" \in Steps \ {"sync", "insert", "scale"} /\ "Denied" \in Outcomes
      BY DEF Steps, Outcomes
    <2> QED
      BY <1>5, <1>a, <1>d, <1>f, <2>1, ProgressTypes DEF CommitCheck
  <1>6. CASE SnapshotVersion(o)
    <2>1. EmptyStore \in Store
      BY DEF EmptyStore, Store, Slot
    <2>2. [exec[o] EXCEPT !.pc = "snapCopy", !.ownSnap = version,
                          !.buffer = EmptyStore, !.todo = WorkloadIds] \in ProposedCall
      BY <1>a, <1>f, <2>1, ZenonT(60) DEF Exec, ProposedCall, Steps
    <2> QED
      BY <1>6, <1>a, <1>d, <2>2, BecomeTypes DEF SnapshotVersion
  <1>7. CASE SnapshotCopy(o)
    <2>1. PICK id \in exec[o].todo, s \in Steps \ {"sync", "insert", "scale"} :
            Become(o, [exec[o] EXCEPT !.buffer = [@ EXCEPT ![id] = workloads[id]],
                       !.todo = @ \ {id}, !.pc = s])
      BY <1>7 DEF SnapshotCopy, Steps
    <2>2. [exec[o].buffer EXCEPT ![id] = workloads[id]] \in Store
      BY <1>a, <1>f, StoreUpdateTypes
    <2>3. [exec[o] EXCEPT !.buffer = [@ EXCEPT ![id] = workloads[id]],
                          !.todo = @ \ {id}, !.pc = s] \in ProposedCall
      BY <1>f, <2>2 DEF Exec, ProposedCall
    <2> QED
      BY <1>7, <1>a, <1>d, <2>1, <2>3, BecomeTypes DEF SnapshotCopy
  <1>8. CASE SnapshotPut(o)
    <2>1. PICK s \in Steps \ {"sync", "insert", "scale"} : Goto(o, s)
      BY <1>8 DEF SnapshotPut, Steps
    <2>2. E'
      BY <1>a, <1>f, <2>1, ProgressTypes
    <2>3. S'
      BY <1>8, <1>a, <1>f DEF SnapshotPut, PutSnapshot
    <2> QED
      BY <1>8, <1>c, <2>2, <2>3 DEF SnapshotPut
  <1>9. CASE Apply(o)
    <2> DEFINE w == workloads[exec[o].target]
    <2>1. CASE w = Absent
      <3>1. "done" \in Steps \ {"sync", "insert", "scale"} /\ "Failed" \in Outcomes
        BY DEF Steps, Outcomes
      <3> QED
        BY <1>9, <2>1, <3>1, <1>a, <1>d, <1>f, ProgressTypes DEF Apply
    <2>2. CASE w # Absent
      <3>1. w \in Workload
        BY <1>a, <1>f, <2>2, PresentTypes
      <3>2. PICK s \in {"sync", "insert"} :
              Become(o, [exec[o] EXCEPT !.copy = Effect(o, w), !.pc = s])
        BY <1>9, <2>2 DEF Apply
      <3>3. Effect(o, w) \in Workload /\ Effect(o, w) \in Slot
        BY <3>1, EffectTypes DEF Slot
      <3>4. [exec[o] EXCEPT !.copy = Effect(o, w), !.pc = s] \in ProposedCall
        BY <1>f, <3>2, <3>3 DEF Exec, ProposedCall, Steps
      <3> QED
        BY <1>9, <1>a, <1>d, <3>2, <3>4, BecomeTypes DEF Apply
    <2> QED
      BY <2>1, <2>2
  <1>10. CASE SyncDeployment(o)
    <2>1. exec[o].copy \in Workload
      BY <1>10, <1>f DEF SyncDeployment, At, ProposedCall
    <2>2. [exec[o] EXCEPT !.pc = "insert"] \in ProposedCall
      BY <1>f, <2>1 DEF Exec, ProposedCall, Steps
    <2>3. E'
      BY <1>10, <1>a, <2>2, BecomeTypes DEF SyncDeployment, Goto
    <2>4. K'
      BY <1>10, <1>a, <1>f, <2>1, ScaleKeeps DEF SyncDeployment, Workload
    <2> QED
      BY <1>10, <1>d, <2>3, <2>4 DEF SyncDeployment
  <1>11. CASE CommitInsert(o)
    <2>1. "bump" \in Steps \ {"sync", "insert", "scale"}
      BY DEF Steps
    <2>2. E'
      BY <1>11, <1>a, <1>f, <2>1, ProgressTypes DEF CommitInsert
    <2>3. W'
      BY <1>11, <1>a, <1>f DEF CommitInsert, InsertWorkload, Store
    <2> QED
      BY <1>11, <1>c, <2>2, <2>3 DEF CommitInsert
  <1>12. CASE CommitIncrement(o)
    <2>1. "Success" \in Outcomes /\ "bump" \in Steps \ {"sync", "insert", "scale"}
      BY DEF Outcomes, Steps
    <2>2. E'
      BY <1>12, <1>a, <1>f, <2>1, ProgressTypes DEF CommitIncrement
    <2>3. V'
      BY <1>12, <1>a DEF CommitIncrement, IncrementVersion
    <2> QED
      BY <1>12, <1>c, <2>2, <2>3 DEF CommitIncrement
  <1>13. CASE GetSnapshot(o)
    <2>1. CASE exec[o].goal \in DOMAIN snapshots
      <3>1. [exec[o] EXCEPT !.pc = "clear", !.todo = WorkloadIds,
                            !.buffer = snapshots[exec[o].goal]] \in ProposedCall
        BY <1>a, <1>f, <2>1, ZenonT(60) DEF Exec, ProposedCall, Steps
      <3> QED
        BY <1>13, <1>a, <1>d, <2>1, <3>1, BecomeTypes DEF GetSnapshot
    <2>2. CASE exec[o].goal \notin DOMAIN snapshots
      <3>1. "done" \in Steps \ {"sync", "insert", "scale"} /\ "Failed" \in Outcomes
        BY DEF Steps, Outcomes
      <3> QED
        BY <1>13, <1>a, <1>d, <1>f, <2>2, <3>1, ProgressTypes DEF GetSnapshot
    <2> QED
      BY <2>1, <2>2
  <1>14. CASE RestoreClear(o)
    <2>1. PICK id \in exec[o].todo :
            /\ ClearWorkload(id)
            /\ \/ Become(o, [exec[o] EXCEPT !.todo = @ \ {id}])
               \/ \E s \in Steps \ {"sync", "insert", "scale"} :
                    Become(o, [exec[o] EXCEPT !.todo = Held(exec[o].buffer), !.pc = s])
      BY <1>14 DEF RestoreClear, Steps
    <2>2. [exec[o] EXCEPT !.todo = @ \ {id}] \in ProposedCall
      BY <1>14, <1>f DEF RestoreClear, At, Exec, ProposedCall
    <2>3. ASSUME NEW s \in Steps \ {"sync", "insert", "scale"}
          PROVE  [exec[o] EXCEPT !.todo = Held(exec[o].buffer), !.pc = s] \in ProposedCall
      BY <1>f DEF Exec, ProposedCall, Held
    <2>4. E'
      BY <1>a, <2>1, <2>2, <2>3, BecomeTypes
    <2>5. W'
      BY <1>a, <1>f, <2>1 DEF ClearWorkload, Store, Slot
    <2> QED
      BY <1>14, <1>c, <2>4, <2>5 DEF RestoreClear
  <1>15. CASE RestoreInsert(o)
    <2>1. PICK id \in exec[o].todo, s \in Steps \ {"sync", "insert", "scale"} :
            /\ InsertWorkload(id, exec[o].buffer[id])
            /\ Become(o, [exec[o] EXCEPT !.todo = @ \ {id}, !.pc = s])
      BY <1>15 DEF RestoreInsert, Steps
    <2>2. [exec[o] EXCEPT !.todo = @ \ {id}, !.pc = s] \in ProposedCall
      BY <1>f DEF Exec, ProposedCall
    <2>3. E'
      BY <1>a, <2>1, <2>2, BecomeTypes
    <2>4. W'
      BY <1>a, <1>f, <2>1 DEF InsertWorkload, Store
    <2> QED
      BY <1>15, <1>c, <2>3, <2>4 DEF RestoreInsert
  <1>16. CASE RestoreVersion(o)
    <2>1. PICK s \in Steps \ {"sync", "insert", "scale"} :
            Become(o, [exec[o] EXCEPT !.pc = s, !.todo = WorkloadIds])
      BY <1>16 DEF RestoreVersion, Steps
    <2>2. [exec[o] EXCEPT !.pc = s, !.todo = WorkloadIds] \in ProposedCall
      BY <1>f DEF Exec, ProposedCall
    <2>3. E'
      BY <1>a, <2>1, <2>2, BecomeTypes
    <2>4. V'
      BY <1>16, <1>f DEF RestoreVersion, ResetVersion
    <2> QED
      BY <1>16, <1>c, <2>3, <2>4 DEF RestoreVersion
  <1>17. CASE ListRestored(o)
    <2>1. PICK id \in exec[o].todo :
            LET listed == [exec[o].buffer EXCEPT ![id] = workloads[id]]
            IN  \/ Become(o, [exec[o] EXCEPT !.buffer = listed, !.todo = @ \ {id}])
                \/ Become(o, [exec[o] EXCEPT !.buffer = listed, !.todo = Held(listed),
                                             !.pc = "scale"])
      BY <1>17 DEF ListRestored
    <2> DEFINE listed == [exec[o].buffer EXCEPT ![id] = workloads[id]]
    <2>2. id \in WorkloadIds /\ listed \in Store /\ exec[o].pc = "list"
      BY <1>17, <1>a, <1>f, <2>1, StoreUpdateTypes DEF ListRestored, At
    <2>3. Held(listed) \subseteq WorkloadIds
      BY DEF Held
    <2> HIDE DEF listed
    <2>4. [exec[o] EXCEPT !.buffer = listed, !.todo = @ \ {id}] \in ProposedCall
      BY <1>f, <2>2 DEF Exec, ProposedCall
    <2>5. [exec[o] EXCEPT !.buffer = listed, !.todo = Held(listed), !.pc = "scale"]
            \in ProposedCall
      BY <1>f, <2>2, <2>3 DEF Exec, ProposedCall, Steps
    <2>6. E'
      BY <1>a, <2>1, <2>4, <2>5, BecomeTypes DEF listed
    <2> QED
      BY <1>17, <1>d, <2>6 DEF ListRestored
  <1>18. CASE ScaleRestored(o)
    <2>1. PICK id \in exec[o].todo :
            /\ ScaleDeployment(id, exec[o].buffer[id].replicas)
            /\ Become(o, [exec[o] EXCEPT !.todo = @ \ {id}])
      BY <1>18 DEF ScaleRestored
    <2>2. id \in WorkloadIds /\ exec[o].buffer[id] \in Workload
      BY <1>18, <1>f, <2>1, PresentTypes DEF ScaleRestored, At, ProposedCall, Held
    <2>3. K'
      BY <1>a, <2>1, <2>2, ScaleKeeps DEF Workload
    <2>4. [exec[o] EXCEPT !.todo = @ \ {id}] \in ProposedCall
      BY <1>f DEF Exec, ProposedCall
    <2>5. E'
      BY <1>a, <2>1, <2>4, BecomeTypes
    <2> QED
      BY <1>18, <1>d, <2>3, <2>5 DEF ScaleRestored
  <1>19. CASE RollbackDone(o)
    <2>1. "Success" \in Outcomes /\ "bump" \in Steps \ {"sync", "insert", "scale"}
      BY DEF Outcomes, Steps
    <2>2. E'
      BY <1>19, <1>a, <1>f, <2>1, ProgressTypes DEF RollbackDone
    <2> QED
      BY <1>19, <1>d, <2>2 DEF RollbackDone
  <1>20. CASE AppendAudit(o)
    <2>1. A'
      BY <1>20, <1>a, <1>f DEF AppendAudit
    <2>2. EmptyStore \in Store /\ Absent \in Slot
      BY DEF EmptyStore, Store, Slot
    <2>3. NotCalled.basis \in [WorkloadIds -> SUBSET Writers]
      BY DEF NotCalled
    <2>4. [exec[o] EXCEPT !.pc = "done", !.buffer = EmptyStore, !.copy = Absent,
                          !.basis = NotCalled.basis] \in ProposedCall
      BY <1>f, <2>2, <2>3 DEF Exec, ProposedCall, Steps
    <2> QED
      BY <1>20, <1>a, <1>d, <2>1, <2>4, BecomeTypes DEF AppendAudit
  <1> QED
    BY <1>1, <1>2, <1>3, <1>4, <1>5, <1>6, <1>7, <1>8, <1>9, <1>10, <1>11, <1>12,
       <1>13, <1>14, <1>15, <1>16, <1>17, <1>18, <1>19, <1>20 DEF Execute

(***************************************************************************)
(* A step of a payment event keeps the types of the fabric and its own.    *)
(***************************************************************************)
LEMMA IngestTypes ==
  ASSUME NEW e \in Events, FabricTypeOK, IngestTypeOK, Ingest(e)
  PROVE  FabricTypeOK' /\ IngestTypeOK'
  <1> DEFINE Call == [pc : IngestSteps, target : WorkloadIds \cup {Absent}, copy : Slot]
  <1>a. /\ ingest \in [Events -> Call] /\ ingest[e] \in Call
        /\ workloads \in Store /\ version \in Nat
    BY DEF FabricTypeOK, IngestTypeOK
  <1>1. CASE ReadMatching(e)
    <2>1. CASE ingest' = [ingest EXCEPT ![e].pc = "done"]
      BY <1>1, <2>1, <1>a DEF ReadMatching, IngestTypeOK, FabricTypeOK, fabricVars, IngestSteps
    <2>2. CASE \E id \in Present :
                 ingest' = [ingest EXCEPT ![e] =
                              [pc   |-> "insert", target |-> id,
                               copy |-> [workloads[id] EXCEPT !.writes = @ \cup {e}]]]
      <3>1. PICK id \in Present :
              ingest' = [ingest EXCEPT ![e] =
                           [pc   |-> "insert", target |-> id,
                            copy |-> [workloads[id] EXCEPT !.writes = @ \cup {e}]]]
        BY <2>2
      <3>2. id \in WorkloadIds /\ workloads[id] \in Workload
        BY <1>a, <3>1, PresentTypes DEF Present, Held
      <3>3. [workloads[id] EXCEPT !.writes = @ \cup {e}] \in Slot
        BY <3>2, EventsAreWriters DEF Workload, Slot
      <3> QED
        BY <1>1, <1>a, <3>1, <3>2, <3>3
           DEF ReadMatching, IngestTypeOK, FabricTypeOK, fabricVars, IngestSteps
    <2> QED
      BY <1>1, <2>1, <2>2 DEF ReadMatching
  <1>2. CASE UpsertInsert(e)
    <2>1. ingest[e].target \in WorkloadIds /\ ingest[e].copy \in Slot
      BY <1>2, <1>a DEF UpsertInsert, IngestTypeOK
    <2>2. FabricTypeOK'
      BY <1>2, <2>1, <1>a DEF UpsertInsert, InsertWorkload, FabricTypeOK, Store
    <2> QED
      BY <1>2, <1>a, <2>2 DEF UpsertInsert, IngestTypeOK, IngestSteps
  <1>3. CASE UpsertIncrement(e)
    <2>1. FabricTypeOK'
      BY <1>3, <1>a DEF UpsertIncrement, IncrementVersion, FabricTypeOK
    <2> QED
      BY <1>3, <1>a, <2>1 DEF UpsertIncrement, IngestTypeOK, IngestSteps, Slot
  <1> QED
    BY <1>1, <1>2, <1>3 DEF Ingest

\* Every step of the control plane keeps the types.
LEMMA NextTypes == TypeOK /\ [Next]_vars => TypeOK'
  <1> SUFFICES ASSUME TypeOK, [Next]_vars PROVE TypeOK'
    OBVIOUS
  <1>1. ASSUME NEW o \in Ops, Plan(o) PROVE TypeOK'
    BY <1>1, ProposeTypes DEF Plan, TypeOK, IngestTypeOK
  <1>2. ASSUME NEW o \in Ops, GatewayStep(o) PROVE TypeOK'
    BY <1>2, ExecuteTypes DEF GatewayStep, TypeOK, IngestTypeOK
  <1>3. ASSUME NEW e \in Events, IngestStep(e) PROVE TypeOK'
    BY <1>3, IngestTypes DEF IngestStep, TypeOK, GatewayTypeOK, gatewayVars
  <1>4. CASE UNCHANGED vars
    BY <1>4 DEF vars, fabricVars, gatewayVars, TypeOK, FabricTypeOK, GatewayTypeOK, IngestTypeOK
  <1> QED
    BY <1>1, <1>2, <1>3, <1>4 DEF Next

\* The state keeps its shape: calls past their proposal have a target, a call
\* about to commit carries a workload, snapshots are whole stores.
THEOREM TypeCorrect == Spec => []TypeOK
  <1> QED
    BY InitTypes, NextTypes, PTL DEF Spec

-----------------------------------------------------------------------------
(* The replica cap.  The parts of ReplicaCap are inductive together: what a *)
(* restore brings back was within the cap when it was copied, and an        *)
(* insert writes a copy that was within the cap when it was made.           *)

WithinCapStore(s) == \A id \in WorkloadIds : WithinCap(s[id])

\* An action's effect stays within the cap: the test and the increment are on one copy.
LEMMA EffectWithinCap ==
  ASSUME NEW o \in Ops, NEW w \in Workload, WithinCap(w)
  PROVE  WithinCap(Effect(o, w))
  <1>1. w # Absent /\ w.replicas \in Nat /\ MaxReplicas \in Nat
    BY AbsentIsNoWorkload, ReplicaBound DEF Workload
  <1> QED
    BY <1>1 DEF WithinCap, Effect, RaisesReplicas

LEMMA InitWithinCap == Init => ReplicaCap
  BY AbsentIsNoWorkload, ReplicaBound
     DEF Init, FabricInit, GatewayInit, IngestInit, NotCalled, EmptyStore, ReplicaCap, WithinCap

\* A call whose new local state is within the cap keeps every call within it.
LEMMA BecomeWithinCap ==
  ASSUME CallsTyped, NEW o \in Ops, NEW l, Become(o, l),
         \A q \in Ops : WithinCap(exec[q].copy) /\ WithinCapStore(exec[q].buffer),
         WithinCap(l.copy), WithinCapStore(l.buffer)
  PROVE  (\A q \in Ops : WithinCap(exec[q].copy) /\ WithinCapStore(exec[q].buffer))'
  <1>1. \A q \in Ops : exec'[q] = IF q = o THEN l ELSE exec[q]
    BY DEF Become, CallsTyped
  <1>2. \A q \in Ops : WithinCap(exec'[q].copy) /\ WithinCapStore(exec'[q].buffer)
    BY <1>1
  <1> QED
    BY <1>2 DEF WithinCap, WithinCapStore

\* The local state of a call after a step that copies and applies nothing.
LEMMA ProgressWithinCap ==
  ASSUME CallsTyped, NEW o \in Ops, NEW s, NEW x,
         \A q \in Ops : WithinCap(exec[q].copy) /\ WithinCapStore(exec[q].buffer),
         Goto(o, s) \/ Conclude(o, x) \/ FailApply(o)
  PROVE  (\A q \in Ops : WithinCap(exec[q].copy) /\ WithinCapStore(exec[q].buffer))'
  <1>1. PICK l : /\ Become(o, l)
                 /\ l.copy = exec[o].copy /\ l.buffer = exec[o].buffer
    <2>1. exec[o] \in Exec
      BY DEF CallsTyped
    <2> DEFINE a == [exec[o] EXCEPT !.pc = s]
               b == [exec[o] EXCEPT !.pc = "append", !.outcome = x]
               c == [exec[o] EXCEPT !.pc = "getSnapshot", !.goal = exec[o].ownSnap,
                                    !.outcome = "Failed"]
    <2>2. /\ a.copy = exec[o].copy /\ a.buffer = exec[o].buffer
          /\ b.copy = exec[o].copy /\ b.buffer = exec[o].buffer
          /\ c.copy = exec[o].copy /\ c.buffer = exec[o].buffer
      BY <2>1 DEF Exec
    <2> QED
      BY <2>2 DEF Goto, Conclude, FailApply
  <1>2. WithinCap(l.copy) /\ WithinCapStore(l.buffer)
    BY <1>1
  <1> QED
    BY <1>1, <1>2, BecomeWithinCap

(***************************************************************************)
(* A step of a call keeps the cap.  Apply is where it could be broken, and *)
(* CommitInsert and RestoreInsert where a stale value could break it.      *)
(***************************************************************************)
LEMMA GatewayStepWithinCap ==
  ASSUME NEW o \in Ops, TypeOK, ReplicaCap, Propose(o) \/ Execute(o), UNCHANGED ingest
  PROVE  ReplicaCap'
  <1> DEFINE M == \A id \in WorkloadIds : WithinCap(workloads[id])
             N == \A v \in DOMAIN snapshots : WithinCapStore(snapshots[v])
             C == \A q \in Ops : WithinCap(exec[q].copy) /\ WithinCapStore(exec[q].buffer)
             G == \A e \in Events : WithinCap(ingest[e].copy)
             D == \A d \in Deployments : k8sScale[d] # Absent => k8sScale[d] <= MaxReplicas
  <1>a. /\ CallsTyped /\ workloads \in Store /\ exec[o] \in Exec
        /\ k8sScale \in [Deployments -> Nat \cup {Absent}]
        /\ M /\ N /\ C /\ G /\ D
    BY DEF TypeOK, FabricTypeOK, GatewayTypeOK, ReplicaCap, WithinCapStore, CallsTyped, ProposedCall
  <1>b. SUFFICES M' /\ N' /\ C' /\ D'
    <2>1. G'
      BY <1>a DEF WithinCap
    <2> QED
      BY <2>1 DEF ReplicaCap, WithinCapStore
  <1>c. /\ UNCHANGED workloads => M'
        /\ UNCHANGED snapshots => N'
        /\ UNCHANGED fabricVars => M' /\ N'
        /\ UNCHANGED exec => C'
        /\ UNCHANGED k8sScale => D'
    BY <1>a DEF fabricVars, WithinCap, WithinCapStore
  <1>d. WithinCap(exec[o].copy) /\ WithinCapStore(exec[o].buffer)
    BY <1>a
  <1>1. CASE Propose(o)
    <2>1. PICK p : Become(o, [exec[o] EXCEPT !.pc = "proposed", !.kind = p.kind,
                              !.target = p.target, !.review = p.review, !.goal = p.goal,
                              !.seen = version, !.basis = Contents])
      BY <1>1 DEF Propose
    <2> DEFINE l == [exec[o] EXCEPT !.pc = "proposed", !.kind = p.kind,
                              !.target = p.target, !.review = p.review, !.goal = p.goal,
                              !.seen = version, !.basis = Contents]
    <2>2. l.copy = exec[o].copy /\ l.buffer = exec[o].buffer
      BY <1>a DEF Exec
    <2>3. C'
      <3> HIDE DEF l
      <3> QED
        BY <1>a, <1>d, <2>1, <2>2, BecomeWithinCap DEF l
    <2> QED
      BY <1>1, <1>c, <2>3 DEF Propose, fabricVars
  <1>2. CASE EvaluateCap(o) \/ EvaluateStale(o)
    <2>1. PICK s, x : Goto(o, s) \/ Become(o, [exec[o] EXCEPT !.pc = "openAudit", !.outcome = x])
      BY <1>2 DEF EvaluateCap, EvaluateStale
    <2> DEFINE l == [exec[o] EXCEPT !.pc = "openAudit", !.outcome = x]
    <2>2. l.copy = exec[o].copy /\ l.buffer = exec[o].buffer
      BY <1>a DEF Exec
    <2> HIDE DEF l
    <2>3. C'
      BY <1>a, <1>d, <2>1, <2>2, BecomeWithinCap, ProgressWithinCap DEF l
    <2> QED
      BY <1>2, <1>c, <2>3 DEF EvaluateCap, EvaluateStale, fabricVars
  <1>3. CASE OpenAudit(o)
    <2>1. PICK s : Become(o, [exec[o] EXCEPT !.label = version, !.pc = s])
      BY <1>3 DEF OpenAudit
    <2> DEFINE l == [exec[o] EXCEPT !.label = version, !.pc = s]
    <2>2. l.copy = exec[o].copy /\ l.buffer = exec[o].buffer
      BY <1>a DEF Exec
    <2> HIDE DEF l
    <2>3. C'
      BY <1>a, <1>d, <2>1, <2>2, BecomeWithinCap DEF l
    <2> QED
      BY <1>3, <1>c, <2>3 DEF OpenAudit, fabricVars
  <1>4. CASE VerifyVersion(o) \/ VerifyWorkload(o) \/ CommitCheck(o)
    <2>1. PICK s, x : Goto(o, s) \/ Conclude(o, x)
      BY <1>4 DEF VerifyVersion, VerifyWorkload, CommitCheck
    <2>2. C'
      BY <1>a, <2>1, ProgressWithinCap
    <2> QED
      BY <1>4, <1>c, <2>2 DEF VerifyVersion, VerifyWorkload, CommitCheck, fabricVars
  \* A deployment is told the count of a workload that is within the cap.
  <1>s. ASSUME NEW id \in WorkloadIds, NEW w \in Workload, WithinCap(w),
               ScaleDeployment(id, w.replicas)
        PROVE  D'
    <2>1. w # Absent /\ w.replicas \in Nat
      BY <1>s, AbsentIsNoWorkload DEF Workload
    <2>2. \A d \in Deployments : k8sScale'[d] \in {k8sScale[d], w.replicas}
      BY <1>a, <1>s, <2>1, ScaleKeeps
    <2> QED
      BY <1>a, <1>s, <2>1, <2>2 DEF WithinCap
  <1>5. CASE SnapshotVersion(o)
    <2> DEFINE l == [exec[o] EXCEPT !.pc = "snapCopy", !.ownSnap = version,
                          !.buffer = EmptyStore, !.todo = WorkloadIds]
    <2>1. l.copy = exec[o].copy /\ l.buffer = EmptyStore /\ WithinCapStore(EmptyStore)
      BY <1>a DEF Exec, EmptyStore, WithinCapStore, WithinCap
    <2>2. Become(o, l)
      BY <1>5 DEF SnapshotVersion
    <2> HIDE DEF l
    <2>3. C'
      BY <1>a, <1>d, <2>1, <2>2, BecomeWithinCap
    <2> QED
      BY <1>5, <1>c, <2>3 DEF SnapshotVersion, fabricVars
  <1>6. CASE SnapshotCopy(o)
    <2>0. PICK id \in exec[o].todo : \E s :
            Become(o, [exec[o] EXCEPT !.buffer = [@ EXCEPT ![id] = workloads[id]],
                       !.todo = @ \ {id}, !.pc = s])
      BY <1>6 DEF SnapshotCopy
    <2>1. PICK s :
            Become(o, [exec[o] EXCEPT !.buffer = [@ EXCEPT ![id] = workloads[id]],
                       !.todo = @ \ {id}, !.pc = s])
      BY <2>0
    <2> DEFINE l == [exec[o] EXCEPT !.buffer = [@ EXCEPT ![id] = workloads[id]],
                       !.todo = @ \ {id}, !.pc = s]
    <2>2. l.copy = exec[o].copy /\ l.buffer = [exec[o].buffer EXCEPT ![id] = workloads[id]]
      BY <1>a DEF Exec
    <2>3. id \in WorkloadIds /\ exec[o].buffer \in Store
      BY <1>a, <2>1 DEF Exec
    <2>4. WithinCapStore([exec[o].buffer EXCEPT ![id] = workloads[id]])
      BY <1>a, <1>d, <2>3 DEF WithinCapStore, Store
    <2>5. Become(o, l)
      BY <2>1
    <2> HIDE DEF l
    <2>6. C'
      BY <1>a, <1>d, <2>2, <2>4, <2>5, BecomeWithinCap
    <2> QED
      BY <1>6, <1>c, <2>6 DEF SnapshotCopy, fabricVars
  <1>7. CASE SnapshotPut(o)
    <2>1. PICK s : Goto(o, s)
      BY <1>7 DEF SnapshotPut
    <2>2. C'
      BY <1>a, <2>1, ProgressWithinCap
    <2>3. N'
      BY <1>7, <1>a, <1>d DEF SnapshotPut, PutSnapshot, WithinCapStore, WithinCap
    <2> QED
      BY <1>7, <1>c, <2>2, <2>3 DEF SnapshotPut
  <1>8. CASE Apply(o)
    <2> DEFINE w == workloads[exec[o].target]
    <2>1. CASE w = Absent
      BY <1>8, <2>1, <1>a, <1>c, ProgressWithinCap DEF Apply, fabricVars
    <2>2. CASE w # Absent
      <3>1. PICK s : Become(o, [exec[o] EXCEPT !.copy = Effect(o, w), !.pc = s])
        BY <1>8, <2>2 DEF Apply
      <3>2. exec[o].target \in WorkloadIds
        BY <1>8, <1>a DEF Apply, At, CallsTyped, ProposedCall
      <3>3. WithinCap(Effect(o, w))
        BY <1>a, <2>2, <3>2, PresentTypes, EffectWithinCap
      <3> DEFINE l == [exec[o] EXCEPT !.copy = Effect(o, w), !.pc = s]
      <3>4. l.copy = Effect(o, w) /\ l.buffer = exec[o].buffer
        BY <1>a DEF Exec
      <3>5. Become(o, l)
        BY <3>1
      <3> HIDE DEF l, w
      <3>6. C'
        BY <1>a, <1>d, <3>3, <3>4, <3>5, BecomeWithinCap
      <3> QED
        BY <1>8, <1>c, <3>6 DEF Apply, fabricVars
    <2> QED
      BY <2>1, <2>2
  <1>9. CASE CommitInsert(o)
    <2>1. C'
      BY <1>9, <1>a, ProgressWithinCap DEF CommitInsert
    <2>2. M'
      BY <1>9, <1>a, <1>d DEF CommitInsert, InsertWorkload, Store
    <2> QED
      BY <1>9, <1>c, <2>1, <2>2 DEF CommitInsert
  <1>10. CASE CommitIncrement(o) \/ RollbackDone(o)
    <2>1. C'
      BY <1>10, <1>a, ProgressWithinCap DEF CommitIncrement, RollbackDone
    <2> QED
      BY <1>10, <1>c, <2>1 DEF CommitIncrement, RollbackDone, fabricVars
  <1>11. CASE GetSnapshot(o)
    <2>1. CASE exec[o].goal \in DOMAIN snapshots
      <3> DEFINE l == [exec[o] EXCEPT !.pc = "clear", !.todo = WorkloadIds,
                            !.buffer = snapshots[exec[o].goal]]
      <3>1. l.copy = exec[o].copy /\ l.buffer = snapshots[exec[o].goal] /\ Become(o, l)
        BY <1>11, <1>a, <2>1 DEF GetSnapshot, Exec
      <3> HIDE DEF l
      <3>2. C'
        BY <1>a, <1>d, <2>1, <3>1, BecomeWithinCap
      <3> QED
        BY <1>11, <1>c, <3>2 DEF GetSnapshot, fabricVars
    <2>2. CASE exec[o].goal \notin DOMAIN snapshots
      BY <1>11, <1>a, <1>c, <2>2, ProgressWithinCap DEF GetSnapshot, fabricVars
    <2> QED
      BY <2>1, <2>2
  <1>12. CASE RestoreClear(o)
    <2>0. PICK id \in exec[o].todo : \E t, s :
            /\ ClearWorkload(id)
            /\ \/ Become(o, [exec[o] EXCEPT !.todo = t])
               \/ Become(o, [exec[o] EXCEPT !.todo = t, !.pc = s])
      BY <1>12 DEF RestoreClear
    <2>1. PICK t, s :
            /\ ClearWorkload(id)
            /\ \/ Become(o, [exec[o] EXCEPT !.todo = t])
               \/ Become(o, [exec[o] EXCEPT !.todo = t, !.pc = s])
      BY <2>0
    <2> DEFINE l == [exec[o] EXCEPT !.todo = t]
               m == [exec[o] EXCEPT !.todo = t, !.pc = s]
    <2>2. /\ l.copy = exec[o].copy /\ l.buffer = exec[o].buffer
          /\ m.copy = exec[o].copy /\ m.buffer = exec[o].buffer
      BY <1>a DEF Exec
    <2>3. Become(o, l) \/ Become(o, m)
      BY <2>1
    <2> HIDE DEF l, m
    <2>4. C'
      BY <1>a, <1>d, <2>2, <2>3, BecomeWithinCap
    <2>5. M'
      BY <1>a, <2>1 DEF ClearWorkload, WithinCap, Store
    <2> QED
      BY <1>12, <1>c, <2>4, <2>5 DEF RestoreClear
  <1>13. CASE RestoreInsert(o)
    <2>0. PICK id \in exec[o].todo : \E s :
            /\ InsertWorkload(id, exec[o].buffer[id])
            /\ Become(o, [exec[o] EXCEPT !.todo = @ \ {id}, !.pc = s])
      BY <1>13 DEF RestoreInsert
    <2>1. PICK s :
            /\ InsertWorkload(id, exec[o].buffer[id])
            /\ Become(o, [exec[o] EXCEPT !.todo = @ \ {id}, !.pc = s])
      BY <2>0
    <2> DEFINE l == [exec[o] EXCEPT !.todo = @ \ {id}, !.pc = s]
    <2>2. l.copy = exec[o].copy /\ l.buffer = exec[o].buffer
      BY <1>a DEF Exec
    <2>3. Become(o, l)
      BY <2>1
    <2> HIDE DEF l
    <2>4. C'
      BY <1>a, <1>d, <2>2, <2>3, BecomeWithinCap
    <2>5. M'
      BY <1>a, <1>d, <2>1 DEF InsertWorkload, WithinCapStore, Store
    <2> QED
      BY <1>13, <1>c, <2>4, <2>5 DEF RestoreInsert
  <1>14. CASE RestoreVersion(o) \/ ScaleRestored(o)
    <2>1. PICK s, t : \/ Become(o, [exec[o] EXCEPT !.pc = s, !.todo = WorkloadIds])
                      \/ Become(o, [exec[o] EXCEPT !.todo = t])
      BY <1>14 DEF RestoreVersion, ScaleRestored
    <2>0. ASSUME ScaleRestored(o) PROVE D'
      <3>1. PICK id \in exec[o].todo : ScaleDeployment(id, exec[o].buffer[id].replicas)
        BY <2>0 DEF ScaleRestored
      <3>2. id \in WorkloadIds /\ exec[o].buffer[id] # Absent /\ exec[o].buffer \in Store
        BY <1>a, <2>0, <3>1 DEF ScaleRestored, At, CallsTyped, ProposedCall, Held, Exec
      <3>3. exec[o].buffer[id] \in Workload
        BY <3>2 DEF Store, Slot
      <3>4. WithinCap(exec[o].buffer[id])
        BY <1>d, <3>2 DEF WithinCapStore
      <3> DEFINE w == exec[o].buffer[id]
      <3>5. id \in WorkloadIds /\ w \in Workload /\ WithinCap(w) /\ ScaleDeployment(id, w.replicas)
        BY <3>1, <3>2, <3>3, <3>4
      <3> HIDE DEF w
      <3> QED
        BY <1>s, <3>5
    <2> DEFINE l == [exec[o] EXCEPT !.pc = s, !.todo = WorkloadIds]
               m == [exec[o] EXCEPT !.todo = t]
    <2>2. /\ l.copy = exec[o].copy /\ l.buffer = exec[o].buffer
          /\ m.copy = exec[o].copy /\ m.buffer = exec[o].buffer
      BY <1>a DEF Exec
    <2>3. Become(o, l) \/ Become(o, m)
      BY <2>1
    <2> HIDE DEF l, m
    <2>4. C'
      BY <1>a, <1>d, <2>2, <2>3, BecomeWithinCap
    <2>5. D'
      BY <1>14, <1>c, <2>0 DEF RestoreVersion
    <2> QED
      BY <1>14, <1>c, <2>4, <2>5 DEF RestoreVersion, ScaleRestored, fabricVars
  <1>15. CASE ListRestored(o)
    <2>0. PICK id \in exec[o].todo : \E t, s :
            LET listed == [exec[o].buffer EXCEPT ![id] = workloads[id]]
            IN  \/ Become(o, [exec[o] EXCEPT !.buffer = listed, !.todo = t])
                \/ Become(o, [exec[o] EXCEPT !.buffer = listed, !.todo = t, !.pc = s])
      BY <1>15 DEF ListRestored
    <2>1. PICK t, s :
            LET listed == [exec[o].buffer EXCEPT ![id] = workloads[id]]
            IN  \/ Become(o, [exec[o] EXCEPT !.buffer = listed, !.todo = t])
                \/ Become(o, [exec[o] EXCEPT !.buffer = listed, !.todo = t, !.pc = s])
      BY <2>0
    <2> DEFINE listed == [exec[o].buffer EXCEPT ![id] = workloads[id]]
               l == [exec[o] EXCEPT !.buffer = listed, !.todo = t]
               m == [exec[o] EXCEPT !.buffer = listed, !.todo = t, !.pc = s]
    <2>2. id \in WorkloadIds /\ exec[o].buffer \in Store
      BY <1>a, <2>1 DEF Exec
    <2>3. WithinCapStore(listed)
      BY <1>a, <1>d, <2>2 DEF WithinCapStore, Store
    <2>4. Become(o, l) \/ Become(o, m)
      BY <2>1
    <2> HIDE DEF listed
    <2>5. /\ l.copy = exec[o].copy /\ l.buffer = listed
          /\ m.copy = exec[o].copy /\ m.buffer = listed
      BY <1>a DEF Exec
    <2> HIDE DEF l, m
    <2>6. C'
      BY <1>a, <1>d, <2>3, <2>4, <2>5, BecomeWithinCap
    <2> QED
      BY <1>15, <1>c, <2>6 DEF ListRestored, fabricVars
  <1>16. CASE AppendAudit(o)
    <2> DEFINE l == [exec[o] EXCEPT !.pc = "done", !.buffer = EmptyStore, !.copy = Absent,
                          !.basis = NotCalled.basis]
    <2>1. l.copy = Absent /\ l.buffer = EmptyStore /\ WithinCapStore(EmptyStore) /\ WithinCap(Absent)
      BY <1>a DEF Exec, EmptyStore, WithinCapStore, WithinCap
    <2>2. Become(o, l)
      BY <1>16 DEF AppendAudit
    <2> HIDE DEF l
    <2>3. C'
      BY <1>a, <1>d, <2>1, <2>2, BecomeWithinCap
    <2> QED
      BY <1>16, <1>c, <2>3 DEF AppendAudit, fabricVars
  <1>17. CASE SyncDeployment(o)
    <2>1. Goto(o, "insert") /\ ScaleDeployment(exec[o].target, exec[o].copy.replicas)
          /\ UNCHANGED fabricVars
      BY <1>17 DEF SyncDeployment
    <2>2. exec[o].target \in WorkloadIds /\ exec[o].copy \in Workload
      BY <1>17, <1>a DEF SyncDeployment, At, CallsTyped, ProposedCall
    <2>3. C'
      BY <1>a, <2>1, ProgressWithinCap
    <2>4. D'
      BY <1>d, <1>s, <2>1, <2>2
    <2> QED
      BY <1>c, <2>1, <2>3, <2>4
  <1> QED
    BY <1>1, <1>2, <1>3, <1>4, <1>5, <1>6, <1>7, <1>8, <1>9, <1>10, <1>11, <1>12, <1>13, <1>14,
       <1>15, <1>16, <1>17 DEF Execute

\* A step of a payment event keeps the cap: it copies the replica count it read.
LEMMA IngestStepWithinCap ==
  ASSUME NEW e \in Events, TypeOK, ReplicaCap, Ingest(e), UNCHANGED gatewayVars
  PROVE  ReplicaCap'
  <1> DEFINE M == \A id \in WorkloadIds : WithinCap(workloads[id])
             G == \A f \in Events : WithinCap(ingest[f].copy)
             Call == [pc : IngestSteps, target : WorkloadIds \cup {Absent}, copy : Slot]
  <1>a. /\ workloads \in Store /\ ingest \in [Events -> Call] /\ M /\ G
    BY DEF TypeOK, FabricTypeOK, IngestTypeOK, ReplicaCap
  <1>b. SUFFICES M' /\ G'
    <2>1. UNCHANGED snapshots
      BY DEF Ingest, ReadMatching, UpsertInsert, UpsertIncrement, fabricVars
    <2> QED
      BY <2>1 DEF ReplicaCap, gatewayVars, WithinCap
  <1>1. CASE ReadMatching(e)
    <2>1. ASSUME NEW id \in Present
          PROVE  WithinCap([workloads[id] EXCEPT !.writes = @ \cup {e}])
      <3>1. id \in WorkloadIds /\ workloads[id] \in Workload /\ WithinCap(workloads[id])
        BY <1>a, <2>1, PresentTypes DEF Present, Held
      <3> QED
        BY <3>1, AbsentIsNoWorkload DEF WithinCap, Workload
    <2>2. G'
      BY <1>1, <1>a, <2>1 DEF ReadMatching
    <2> QED
      BY <1>1, <1>a, <2>2 DEF ReadMatching, fabricVars, WithinCap
  <1>2. CASE UpsertInsert(e)
    BY <1>2, <1>a DEF UpsertInsert, InsertWorkload, Store
  <1>3. CASE UpsertIncrement(e)
    BY <1>3, <1>a DEF UpsertIncrement, WithinCap
  <1> QED
    BY <1>1, <1>2, <1>3 DEF Ingest

\* No replica count ever exceeds replication.max_replicas, however the calls,
\* the payment events and the restores interleave, and for any cap.
THEOREM ReplicasBounded == Spec => []ReplicaCap
  <1>1. TypeOK /\ ReplicaCap /\ [Next]_vars => ReplicaCap'
    <2> SUFFICES ASSUME TypeOK, ReplicaCap, [Next]_vars PROVE ReplicaCap'
      OBVIOUS
    <2>1. ASSUME NEW o \in Ops, Plan(o) PROVE ReplicaCap'
      BY <2>1, GatewayStepWithinCap DEF Plan
    <2>2. ASSUME NEW o \in Ops, GatewayStep(o) PROVE ReplicaCap'
      BY <2>2, GatewayStepWithinCap DEF GatewayStep
    <2>3. ASSUME NEW e \in Events, IngestStep(e) PROVE ReplicaCap'
      BY <2>3, IngestStepWithinCap DEF IngestStep
    <2>4. CASE UNCHANGED vars
      BY <2>4 DEF vars, fabricVars, gatewayVars, ReplicaCap, WithinCap
    <2> QED
      BY <2>1, <2>2, <2>3, <2>4 DEF Next
  <1> QED
    BY <1>1, InitWithinCap, TypeCorrect, PTL DEF Spec

-----------------------------------------------------------------------------
(* One record for each call: only the last step of a call appends, and no   *)
(* other ends a call or begins one that has ended.                          *)

\* A call goes on, appends nothing, and is not over.
GoesOn(o) ==
  /\ UNCHANGED audit
  /\ ~At(o, "done") /\ ~At(o, "done")'
  /\ \A q \in Ops \ {o} : exec'[q] = exec[q]

LEMMA StepAppendsOrGoesOn ==
  ASSUME NEW o \in Ops, TypeOK, Propose(o) \/ Execute(o)
  PROVE  AppendAudit(o) \/ GoesOn(o)
  <1>a. /\ DOMAIN exec = Ops
        /\ DOMAIN exec[o] = {"pc", "kind", "target", "review", "goal", "seen", "basis", "label",
                             "ownSnap", "buffer", "todo", "copy", "outcome"}
    BY DEF TypeOK, GatewayTypeOK, Exec
  <1> USE DEF GoesOn, At, Become, Goto, Conclude, FailApply
  <1>1. CASE Propose(o) BY <1>1, <1>a DEF Propose
  <1>2. CASE EvaluateCap(o) BY <1>2, <1>a DEF EvaluateCap
  <1>3. CASE EvaluateStale(o) \/ OpenAudit(o) BY <1>3, <1>a DEF EvaluateStale, OpenAudit
  <1>4. CASE VerifyVersion(o) \/ VerifyWorkload(o) \/ CommitCheck(o)
    BY <1>4, <1>a DEF VerifyVersion, VerifyWorkload, CommitCheck
  <1>5. CASE SnapshotVersion(o) \/ SnapshotCopy(o) \/ SnapshotPut(o)
    BY <1>5, <1>a DEF SnapshotVersion, SnapshotCopy, SnapshotPut
  <1>6. CASE Apply(o) BY <1>6, <1>a DEF Apply
  <1>7. CASE SyncDeployment(o) \/ CommitInsert(o) \/ CommitIncrement(o)
    BY <1>7, <1>a DEF SyncDeployment, CommitInsert, CommitIncrement
  <1>8. CASE GetSnapshot(o) \/ RestoreClear(o) BY <1>8, <1>a DEF GetSnapshot, RestoreClear
  <1>9. CASE RestoreInsert(o) \/ RestoreVersion(o)
    BY <1>9, <1>a DEF RestoreInsert, RestoreVersion
  <1>10. CASE ListRestored(o) BY <1>10, <1>a DEF ListRestored
  <1>11. CASE ScaleRestored(o) \/ RollbackDone(o)
    BY <1>11, <1>a DEF ScaleRestored, RollbackDone
  <1> QED
    BY <1>1, <1>2, <1>3, <1>4, <1>5, <1>6, <1>7, <1>8, <1>9, <1>10, <1>11 DEF Execute

\* The record of a call that ends carries its outcome, and no other call's records change.
LEMMA AppendRecordsOne ==
  ASSUME NEW o \in Ops, TypeOK, AuditedExactlyOnce, AppendAudit(o)
  PROVE  AuditedExactlyOnce'
  <1> DEFINE n == Len(audit) + 1
             record == [op |-> o, outcome |-> exec[o].outcome, stateVersion |-> exec[o].label]
  <1>1. audit \in Seq([op : Ops, outcome : Outcomes, stateVersion : Nat])
    BY DEF TypeOK, GatewayTypeOK
  <1>2. audit' = Append(audit, record)
    BY DEF AppendAudit
  <1>3. /\ DOMAIN audit = 1..Len(audit) /\ DOMAIN audit' = 1..n /\ Len(audit) \in Nat
        /\ \A i \in DOMAIN audit : audit'[i] = audit[i]
        /\ audit'[n] = record
    <2> HIDE DEF record
    <2> QED
      BY <1>1, <1>2
  <1>4. /\ \A q \in Ops \ {o} : exec'[q] = exec[q]
        /\ exec'[o].pc = "done" /\ exec'[o].outcome = exec[o].outcome /\ exec[o].pc # "done"
    BY DEF AppendAudit, Become, At, TypeOK, GatewayTypeOK, Exec
  <1>5. record.op = o /\ record.outcome = exec[o].outcome
    OBVIOUS
  <1> HIDE DEF record, n
  <1>6. ASSUME NEW q \in Ops \ {o}
        PROVE  RecordsOf(q)' = RecordsOf(q)
    BY <1>3, <1>5, <1>6 DEF RecordsOf, n
  <1>7. RecordsOf(o)' = {n}
    <2>1. RecordsOf(o) = {}
      BY <1>4 DEF AuditedExactlyOnce, At
    <2> QED
      BY <1>3, <1>5, <2>1 DEF RecordsOf, n
  <1>8. ASSUME NEW q \in Ops \ {o}
        PROVE  IF exec'[q].pc = "done"
                 THEN \E i \in DOMAIN audit' :
                        RecordsOf(q)' = {i} /\ audit'[i].outcome = exec'[q].outcome
                 ELSE RecordsOf(q)' = {}
    <2>1. DOMAIN audit \subseteq DOMAIN audit'
      BY <1>3 DEF n
    <2> QED
      BY <1>3, <1>4, <1>6, <2>1 DEF AuditedExactlyOnce, At
  <1>9. n \in DOMAIN audit' /\ audit'[n].outcome = exec'[o].outcome
    BY <1>3, <1>4, <1>5 DEF n
  <1> QED
    BY <1>4, <1>7, <1>8, <1>9 DEF AuditedExactlyOnce, At

LEMMA AuditKept ==
  ASSUME TypeOK, AuditedExactlyOnce, UNCHANGED audit,
         \A q \in Ops : \/ exec'[q] = exec[q]
                        \/ exec[q].pc # "done" /\ exec'[q].pc # "done"
  PROVE  AuditedExactlyOnce'
  <1>1. \A q \in Ops : RecordsOf(q)' = RecordsOf(q)
    BY DEF RecordsOf
  <1> QED
    BY <1>1 DEF AuditedExactlyOnce, At

\* Every call that has returned has exactly one record, with its outcome, and one that has not
\* has none, on every path, for any number of calls at once.
THEOREM CallsAudited == Spec => []AuditedExactlyOnce
  <1>1. Init => AuditedExactlyOnce
    BY DEF Init, GatewayInit, NotCalled, AuditedExactlyOnce, RecordsOf, At
  <1>2. TypeOK /\ AuditedExactlyOnce /\ [Next]_vars => AuditedExactlyOnce'
    <2> SUFFICES ASSUME TypeOK, AuditedExactlyOnce, [Next]_vars PROVE AuditedExactlyOnce'
      OBVIOUS
    <2>1. ASSUME NEW o \in Ops, Propose(o) \/ Execute(o) PROVE AuditedExactlyOnce'
      <3>1. CASE AppendAudit(o)
        BY <3>1, AppendRecordsOne
      <3>2. CASE GoesOn(o)
        BY <3>2, AuditKept DEF GoesOn, At
      <3> QED
        BY <2>1, <3>1, <3>2, StepAppendsOrGoesOn
    <2>2. ASSUME NEW e \in Events, IngestStep(e) PROVE AuditedExactlyOnce'
      BY <2>2, AuditKept DEF IngestStep, gatewayVars
    <2>3. CASE UNCHANGED vars
      BY <2>3, AuditKept DEF vars, gatewayVars
    <2> QED
      BY <2>1, <2>2, <2>3 DEF Next, Plan, GatewayStep
  <1> QED
    BY <1>1, <1>2, TypeCorrect, PTL DEF Spec

-----------------------------------------------------------------------------
(* A refused call leaves no trace.  What a call has changed is at first in  *)
(* its own copy; when it is in the map, and may be copied on, the call can  *)
(* only end well.                                                           *)

\* The calls whose change has been inserted: nothing can refuse them any more.
Landed ==
  {o \in Ops : \/ exec[o].pc = "bump" /\ exec[o].outcome = "None"
               \/ exec[o].pc \in {"append", "done"} /\ exec[o].outcome = "Success"}

\* A value that holds the changes of such calls only.
Clean(slot, calls) == WritesIn(slot) \cap Ops \subseteq calls

\* Where a call that has not been refused is.
Unrefused == {"verify", "exists", "occ", "snapRead", "snapCopy", "snapPut", "apply", "sync",
              "insert", "bump"}

LandInv ==
  /\ \A id \in WorkloadIds : Clean(workloads[id], Landed)
  /\ \A v \in DOMAIN snapshots, id \in WorkloadIds : Clean(snapshots[v][id], Landed)
  /\ \A o \in Ops : /\ \A id \in WorkloadIds : Clean(exec[o].buffer[id], Landed)
                    /\ Clean(exec[o].copy, Landed \cup {o})
                    /\ exec[o].pc \in Unrefused => exec[o].outcome = "None"
  /\ \A e \in Events : Clean(ingest[e].copy, Landed)

LEMMA CleanGrows ==
  ASSUME NEW slot, NEW K, NEW L, K \subseteq L, Clean(slot, K)
  PROVE  Clean(slot, L)
  BY DEF Clean

LEMMA AbsentIsClean == \A calls : Clean(Absent, calls)
  BY DEF Clean, WritesIn

LEMMA InitLands == Init => LandInv
  <1> SUFFICES ASSUME Init PROVE LandInv
    OBVIOUS
  <1>1. \A id \in WorkloadIds : WritesIn(workloads[id]) = {}
    BY DEF Init, FabricInit, WritesIn
  <1>2. \A o \in Ops : exec[o] = NotCalled
    BY DEF Init, GatewayInit
  <1>3. \A e \in Events : ingest[e].copy = Absent
    BY DEF Init, IngestInit
  <1>4. DOMAIN snapshots = {}
    BY DEF Init, FabricInit
  <1>5. \A id \in WorkloadIds : Clean(workloads[id], Landed)
    BY <1>1 DEF Clean
  <1>6. ASSUME NEW o \in Ops
        PROVE  /\ \A id \in WorkloadIds : Clean(exec[o].buffer[id], Landed)
               /\ Clean(exec[o].copy, Landed \cup {o})
               /\ exec[o].pc \in Unrefused => exec[o].outcome = "None"
    <2>1. /\ NotCalled.pc = "idle" /\ NotCalled.copy = Absent
          /\ NotCalled.buffer = EmptyStore
      BY DEF NotCalled
    <2>2. \A id \in WorkloadIds : exec[o].buffer[id] = Absent
      BY <1>2, <2>1 DEF EmptyStore
    <2>3. exec[o].copy = Absent /\ exec[o].pc \notin Unrefused
      BY <1>2, <2>1 DEF Unrefused
    <2> QED
      BY <2>2, <2>3, AbsentIsClean
  <1>7. \A e \in Events : Clean(ingest[e].copy, Landed)
    BY <1>3, AbsentIsClean
  <1> QED
    BY <1>4, <1>5, <1>6, <1>7 DEF LandInv

\* A step of a call that leaves clean what it writes, and does not take back a change that
\* has landed.
LEMMA StepLands ==
  ASSUME LandInv, NEW o \in Ops,
         \A q \in Ops \ {o} : exec'[q] = exec[q],
         o \in Landed => o \in Landed',
         Landed \subseteq Landed' =>
           /\ \A id \in WorkloadIds : /\ Clean(workloads'[id], Landed')
                                      /\ Clean(exec'[o].buffer[id], Landed')
           /\ \A v \in DOMAIN snapshots', id \in WorkloadIds : Clean(snapshots'[v][id], Landed')
           /\ Clean(exec'[o].copy, Landed' \cup {o}),
         exec'[o].pc \in Unrefused => exec'[o].outcome = "None",
         UNCHANGED ingest
  PROVE  LandInv'
  <1>1. Landed \subseteq Landed'
    BY DEF Landed
  <1>2. ASSUME NEW q \in Ops
        PROVE  /\ \A id \in WorkloadIds : Clean(exec'[q].buffer[id], Landed')
               /\ Clean(exec'[q].copy, Landed' \cup {q})
               /\ exec'[q].pc \in Unrefused => exec'[q].outcome = "None"
    <2>1. CASE q = o
      BY <1>1, <2>1
    <2>2. CASE q # o
      BY <1>1, <2>2 DEF LandInv, Clean
    <2> QED
      BY <2>1, <2>2
  <1>3. \A e \in Events : Clean(ingest'[e].copy, Landed')
    BY <1>1 DEF LandInv, Clean
  <1>4. /\ \A id \in WorkloadIds : Clean(workloads'[id], Landed')
        /\ \A v \in DOMAIN snapshots', id \in WorkloadIds : Clean(snapshots'[v][id], Landed')
    BY <1>1
  <1> QED
    BY <1>2, <1>3, <1>4 DEF LandInv, Clean, WritesIn

\* A step that copies nothing and touches no value: most of them.
LEMMA QuietStepLands ==
  ASSUME LandInv, NEW o \in Ops, UNCHANGED <<workloads, snapshots, ingest>>,
         \A q \in Ops \ {o} : exec'[q] = exec[q],
         o \in Landed => o \in Landed',
         exec'[o].buffer = exec[o].buffer, exec'[o].copy = exec[o].copy,
         exec'[o].pc \in Unrefused => exec'[o].outcome = "None"
  PROVE  LandInv'
  <1>1. Landed \subseteq Landed'
    BY DEF Landed
  <1>2. /\ \A id \in WorkloadIds : /\ Clean(workloads'[id], Landed')
                                   /\ Clean(exec'[o].buffer[id], Landed')
        /\ \A v \in DOMAIN snapshots', id \in WorkloadIds : Clean(snapshots'[v][id], Landed')
        /\ Clean(exec'[o].copy, Landed' \cup {o})
    BY <1>1 DEF LandInv, Clean
  <1> QED
    BY <1>2, StepLands

LEMMA GatewayStepLands ==
  ASSUME NEW o \in Ops, TypeOK, LandInv, Propose(o) \/ Execute(o), UNCHANGED ingest
  PROVE  LandInv'
  <1>a. /\ DOMAIN exec = Ops
        /\ DOMAIN exec[o] = {"pc", "kind", "target", "review", "goal", "seen", "basis", "label",
                             "ownSnap", "buffer", "todo", "copy", "outcome"}
        /\ exec[o] \in Exec /\ exec[o].buffer \in Store /\ workloads \in Store
    BY DEF TypeOK, FabricTypeOK, GatewayTypeOK, Exec
  <1>b. /\ \A id \in WorkloadIds : Clean(workloads[id], Landed)
        /\ \A v \in DOMAIN snapshots, id \in WorkloadIds : Clean(snapshots[v][id], Landed)
        /\ \A id \in WorkloadIds : Clean(exec[o].buffer[id], Landed)
        /\ Clean(exec[o].copy, Landed \cup {o})
        /\ exec[o].pc \in Unrefused => exec[o].outcome = "None"
    BY DEF LandInv
  <1> USE DEF At, Become, Goto, Conclude, FailApply
  \* Before its change a call has neither landed nor touched a value.
  <1> DEFINE Untouched ==
        /\ \A q \in Ops \ {o} : exec'[q] = exec[q]
        /\ exec'[o].buffer = exec[o].buffer /\ exec'[o].copy = exec[o].copy
        /\ exec[o].pc \notin {"bump", "append", "done"}
        /\ exec'[o].pc \in Unrefused => exec'[o].outcome = "None"
        /\ UNCHANGED <<workloads, snapshots>>
  <1>q. ASSUME Untouched PROVE LandInv'
    <2>1. o \notin Landed
      BY <1>q DEF Landed
    <2> QED
      BY <1>q, <2>1, QuietStepLands
  <1>1. CASE Propose(o)
    <2>1. Untouched
      BY <1>1, <1>a, ZenonT(60) DEF Propose, fabricVars, Unrefused
    <2> QED
      BY <2>1, <1>q
  <1>2. CASE EvaluateCap(o)
    <2>1. Untouched
      BY <1>2, <1>a, ZenonT(60) DEF EvaluateCap, fabricVars, Unrefused
    <2> QED
      BY <2>1, <1>q
  <1>3. CASE EvaluateStale(o) \/ OpenAudit(o)
    <2>1. CASE EvaluateStale(o)
      <3>1. Untouched
        BY <2>1, <1>a DEF EvaluateStale, fabricVars, Unrefused
      <3> QED
        BY <3>1, <1>q
    <2>2. CASE OpenAudit(o)
      <3>1. Untouched
        BY <2>2, <1>a DEF OpenAudit, fabricVars, Unrefused
      <3> QED
        BY <3>1, <1>q
    <2> QED
      BY <1>3, <2>1, <2>2
  <1>4. CASE VerifyVersion(o) \/ VerifyWorkload(o) \/ CommitCheck(o)
    <2>1. exec[o].outcome = "None"
      BY <1>4, <1>b DEF VerifyVersion, VerifyWorkload, CommitCheck, Unrefused
    <2>2. CASE VerifyVersion(o)
      <3>1. Untouched
        BY <2>1, <2>2, <1>a, ZenonT(60) DEF VerifyVersion, fabricVars, Unrefused
      <3> QED
        BY <3>1, <1>q
    <2>3. CASE VerifyWorkload(o)
      <3>1. Untouched
        BY <2>1, <2>3, <1>a, ZenonT(60) DEF VerifyWorkload, fabricVars, Unrefused
      <3> QED
        BY <3>1, <1>q
    <2>4. CASE CommitCheck(o)
      <3>1. Untouched
        BY <2>1, <2>4, <1>a, ZenonT(60) DEF CommitCheck, fabricVars, Unrefused
      <3> QED
        BY <3>1, <1>q
    <2> QED
      BY <1>4, <2>2, <2>3, <2>4
  <1>5. CASE SnapshotVersion(o)
    BY <1>5, <1>a, <1>b, StepLands, AbsentIsClean, CleanGrows
       DEF SnapshotVersion, fabricVars, Landed, Unrefused, EmptyStore, Clean
  <1>6. CASE SnapshotCopy(o)
    <2>1. PICK id \in exec[o].todo :
            exec' = [exec EXCEPT ![o] =
                       [exec[o] EXCEPT !.buffer = [@ EXCEPT ![id] = workloads[id]],
                                       !.todo = @ \ {id},
                                       !.pc = IF exec[o].todo = {id} THEN "snapPut"
                                              ELSE "snapCopy"]]
      BY <1>6 DEF SnapshotCopy
    <2>2. /\ \A q \in Ops \ {o} : exec'[q] = exec[q]
          /\ exec'[o].buffer = [exec[o].buffer EXCEPT ![id] = workloads[id]]
          /\ exec'[o].copy = exec[o].copy /\ exec'[o].outcome = exec[o].outcome
      BY <1>a, <2>1
    <2>3. exec[o].pc = "snapCopy" /\ UNCHANGED fabricVars /\ exec[o].outcome = "None"
      BY <1>6, <1>b DEF SnapshotCopy, Unrefused
    <2>4. o \notin Landed
      BY <2>3 DEF Landed
    <2>5. \A other \in WorkloadIds : \/ exec'[o].buffer[other] = exec[o].buffer[other]
                                     \/ exec'[o].buffer[other] = workloads[other]
      BY <1>a, <2>2 DEF Store
    <2> QED
      BY <1>b, <2>2, <2>3, <2>4, <2>5, StepLands DEF fabricVars, Clean
  <1>7. CASE SnapshotPut(o)
    BY <1>7, <1>a, <1>b, StepLands
       DEF SnapshotPut, PutSnapshot, Landed, Unrefused, Clean
  <1>8. CASE Apply(o)
    <2> DEFINE w == workloads[exec[o].target]
    <2>1. exec[o].pc = "apply" /\ UNCHANGED fabricVars /\ exec[o].outcome = "None"
      BY <1>8, <1>b DEF Apply, Unrefused
    <2>2. CASE w = Absent
      <3>1. Untouched
        BY <1>8, <1>a, <2>1, <2>2, ZenonT(60) DEF Apply, fabricVars, Unrefused
      <3> QED
        BY <3>1, <1>q
    <2>3. CASE w # Absent
      <3>1. /\ \A q \in Ops \ {o} : exec'[q] = exec[q]
            /\ exec'[o].buffer = exec[o].buffer
            /\ exec'[o].copy = Effect(o, w) /\ exec'[o].outcome = exec[o].outcome
        <4>1. PICK s : exec' = [exec EXCEPT ![o] = [exec[o] EXCEPT !.copy = Effect(o, w), !.pc = s]]
          BY <1>8, <2>3 DEF Apply
        <4> QED
          BY <1>a, <4>1
      <3>2. exec[o].target \in WorkloadIds
        BY <2>1 DEF TypeOK, GatewayTypeOK
      <3>3. WritesIn(Effect(o, w)) \subseteq WritesIn(w) \cup {o}
        BY <2>3 DEF WritesIn, Effect
      <3>4. Clean(Effect(o, w), Landed \cup {o})
        BY <1>b, <3>2, <3>3 DEF Clean
      <3>5. o \notin Landed
        BY <2>1 DEF Landed
      <3> QED
        BY <1>b, <2>1, <3>1, <3>4, <3>5, StepLands DEF fabricVars, Clean
    <2> QED
      BY <2>2, <2>3
  <1>9. CASE SyncDeployment(o)
    BY <1>9, <1>a, <1>b, QuietStepLands DEF SyncDeployment, fabricVars, Landed, Unrefused
  <1>10. CASE CommitInsert(o)
    BY <1>10, <1>a, <1>b, StepLands
       DEF CommitInsert, InsertWorkload, Landed, Unrefused, Store, Clean
  <1>11. CASE CommitIncrement(o)
    BY <1>11, <1>a, <1>b, QuietStepLands DEF CommitIncrement, Landed, Unrefused
  <1>12. CASE GetSnapshot(o)
    <2>1. exec[o].pc = "getSnapshot" /\ UNCHANGED fabricVars
      BY <1>12 DEF GetSnapshot
    <2>2. CASE exec[o].goal \in DOMAIN snapshots
      <3>1. /\ \A q \in Ops \ {o} : exec'[q] = exec[q]
            /\ exec'[o].buffer = snapshots[exec[o].goal] /\ exec'[o].copy = exec[o].copy
            /\ exec'[o].pc = "clear"
        BY <1>12, <1>a, <2>2 DEF GetSnapshot
      <3>2. o \notin Landed
        BY <2>1 DEF Landed
      <3> QED
        BY <1>b, <2>1, <2>2, <3>1, <3>2, StepLands DEF fabricVars, Clean, Unrefused
    <2>3. CASE exec[o].goal \notin DOMAIN snapshots
      <3>1. Untouched
        BY <1>12, <1>a, <2>1, <2>3, ZenonT(60) DEF GetSnapshot, fabricVars, Unrefused
      <3> QED
        BY <3>1, <1>q
    <2> QED
      BY <2>2, <2>3
  <1>13. CASE RestoreClear(o)
    <2>1. exec[o].pc = "clear" /\ UNCHANGED snapshots
      BY <1>13 DEF RestoreClear
    <2>2. PICK id \in exec[o].todo : workloads' = [workloads EXCEPT ![id] = Absent]
      BY <1>13 DEF RestoreClear, ClearWorkload
    <2>3. /\ \A q \in Ops \ {o} : exec'[q] = exec[q]
          /\ exec'[o].buffer = exec[o].buffer /\ exec'[o].copy = exec[o].copy
          /\ exec'[o].pc \in {"clear", "refill", "resetVersion"}
      BY <1>13, <1>a, <2>1, ZenonT(60) DEF RestoreClear
    <2>4. o \notin Landed
      BY <2>1 DEF Landed
    <2>5. \A other \in WorkloadIds : \/ workloads'[other] = workloads[other]
                                     \/ workloads'[other] = Absent
      BY <1>a, <2>2 DEF Store
    <2> QED
      BY <1>b, <2>1, <2>3, <2>4, <2>5, StepLands, AbsentIsClean DEF Clean, Unrefused
  <1>14. CASE RestoreInsert(o)
    <2>1. exec[o].pc = "refill" /\ UNCHANGED snapshots
      BY <1>14 DEF RestoreInsert
    <2>2. PICK id \in exec[o].todo : workloads' = [workloads EXCEPT ![id] = exec[o].buffer[id]]
      BY <1>14 DEF RestoreInsert, InsertWorkload
    <2>3. /\ \A q \in Ops \ {o} : exec'[q] = exec[q]
          /\ exec'[o].buffer = exec[o].buffer /\ exec'[o].copy = exec[o].copy
          /\ exec'[o].pc \in {"clear", "refill", "resetVersion"}
      BY <1>14, <1>a, <2>1 DEF RestoreInsert
    <2>4. o \notin Landed
      BY <2>1 DEF Landed
    <2>5. \A other \in WorkloadIds : \/ workloads'[other] = workloads[other]
                                     \/ workloads'[other] = exec[o].buffer[other]
      BY <1>a, <2>2 DEF Store
    <2> QED
      BY <1>b, <2>1, <2>3, <2>4, <2>5, StepLands, AbsentIsClean DEF Clean, Unrefused
  <1>15. CASE RestoreVersion(o)
    BY <1>15, <1>a, <1>b, QuietStepLands DEF RestoreVersion, Landed, Unrefused
  <1>16. CASE ListRestored(o)
    BY <1>16, <1>a, <1>b, StepLands
       DEF ListRestored, fabricVars, Landed, Unrefused, Store, Clean
  <1>17. CASE ScaleRestored(o) \/ RollbackDone(o)
    <2>1. CASE ScaleRestored(o)
      <3>1. Untouched
        BY <2>1, <1>a DEF ScaleRestored, fabricVars, Unrefused
      <3> QED
        BY <3>1, <1>q
    <2>2. CASE RollbackDone(o)
      <3>1. Untouched
        BY <2>2, <1>a DEF RollbackDone, fabricVars, Unrefused
      <3> QED
        BY <3>1, <1>q
    <2> QED
      BY <1>17, <2>1, <2>2
  <1>18. CASE AppendAudit(o)
    BY <1>18, <1>a, <1>b, StepLands, AbsentIsClean
       DEF AppendAudit, fabricVars, Landed, Unrefused, EmptyStore, Clean
  <1> QED
    BY <1>1, <1>2, <1>3, <1>4, <1>5, <1>6, <1>7, <1>8, <1>9, <1>10, <1>11, <1>12, <1>13, <1>14,
       <1>15, <1>16, <1>17, <1>18 DEF Execute

\* A payment event puts its own mark on what it read, and that is no call's.
LEMMA IngestStepLands ==
  ASSUME NEW e \in Events, TypeOK, LandInv, Ingest(e), UNCHANGED gatewayVars
  PROVE  LandInv'
  <1>a. /\ workloads \in Store /\ DOMAIN ingest = Events
        /\ DOMAIN ingest[e] = {"pc", "target", "copy"}
    BY DEF TypeOK, FabricTypeOK, IngestTypeOK
  <1>b. Landed' = Landed /\ exec' = exec
    BY DEF gatewayVars, Landed
  <1>c. SUFFICES /\ \A id \in WorkloadIds : Clean(workloads'[id], Landed)
                 /\ UNCHANGED snapshots
                 /\ \A f \in Events : Clean(ingest'[f].copy, Landed)
    BY <1>b DEF LandInv, Clean, WritesIn
  <1>1. CASE ReadMatching(e)
    <2>1. ASSUME NEW id \in Present
          PROVE  Clean([workloads[id] EXCEPT !.writes = @ \cup {e}], Landed)
      <3>1. id \in WorkloadIds /\ workloads[id] \in Workload /\ Clean(workloads[id], Landed)
        BY <1>a, <2>1, PresentTypes DEF Present, Held, LandInv
      <3>2. [workloads[id] EXCEPT !.writes = @ \cup {e}].writes = workloads[id].writes \cup {e}
        BY <3>1 DEF Workload
      <3> QED
        BY <3>1, <3>2, CallsAreNoEvents, AbsentIsNoWorkload DEF Clean, WritesIn
    <2>2. \A f \in Events : Clean(ingest'[f].copy, Landed)
      BY <1>1, <1>a, <2>1 DEF ReadMatching, LandInv
    <2> QED
      BY <1>1, <2>2 DEF ReadMatching, fabricVars, LandInv
  <1>2. CASE UpsertInsert(e)
    BY <1>2, <1>a DEF UpsertInsert, InsertWorkload, Store, LandInv
  <1>3. CASE UpsertIncrement(e)
    BY <1>3, <1>a, AbsentIsClean DEF UpsertIncrement, LandInv
  <1> QED
    BY <1>1, <1>2, <1>3 DEF Ingest

LEMMA LandHolds == Spec => []LandInv
  <1>1. TypeOK /\ LandInv /\ [Next]_vars => LandInv'
    <2> SUFFICES ASSUME TypeOK, LandInv, [Next]_vars PROVE LandInv'
      OBVIOUS
    <2>1. ASSUME NEW o \in Ops, Plan(o) PROVE LandInv'
      BY <2>1, GatewayStepLands DEF Plan
    <2>2. ASSUME NEW o \in Ops, GatewayStep(o) PROVE LandInv'
      BY <2>2, GatewayStepLands DEF GatewayStep
    <2>3. ASSUME NEW e \in Events, IngestStep(e) PROVE LandInv'
      BY <2>3, IngestStepLands DEF IngestStep
    <2>4. CASE UNCHANGED vars
      <3>1. Landed' = Landed
        BY <2>4 DEF vars, gatewayVars, Landed
      <3> QED
        BY <2>4, <3>1 DEF vars, fabricVars, gatewayVars, LandInv, Clean, WritesIn
    <2> QED
      BY <2>1, <2>2, <2>3, <2>4 DEF Next
  <1> QED
    BY <1>1, InitLands, TypeCorrect, PTL DEF Spec

\* "Rejected before mutation": a call that ends Denied, RequiresApproval or Failed has left its
\* change nowhere it could be read, restored or copied from, whatever ran beside it.
THEOREM RefusalsLeaveNoTrace == Spec => []RejectedLeavesNoTrace
  <1>1. LandInv => RejectedLeavesNoTrace
    <2> SUFFICES ASSUME LandInv, NEW o \in Ops, o \in Traces
                 PROVE  exec[o].outcome \notin {"Denied", "RequiresApproval", "Failed"}
      BY DEF RejectedLeavesNoTrace
    <2>1. \/ \E id \in WorkloadIds : o \in WritesIn(workloads[id])
          \/ \E v \in DOMAIN snapshots, id \in WorkloadIds : o \in WritesIn(snapshots[v][id])
          \/ \E q \in Ops, id \in WorkloadIds : o \in WritesIn(exec[q].buffer[id])
          \/ \E e \in Events : o \in WritesIn(ingest[e].copy)
      BY DEF Traces
    <2>2. o \in Landed
      BY <2>1 DEF LandInv, Clean
    <2> QED
      BY <2>2 DEF Landed
  <1> QED
    BY <1>1, LandHolds, PTL

-----------------------------------------------------------------------------
(* As long as no rollback has come as far as its snapshot, nothing has been *)
(* restored: a call that fails is one whose workload is not there, and only *)
(* a restore takes a workload away.  So the version only grows.             *)

BeforeSnapshot == {"idle", "proposed", "rule003", "openAudit", "verify", "exists", "occ",
                   "snapRead"}
Committing == {"snapRead", "snapCopy", "snapPut", "apply", "sync", "insert", "bump"}
RestoreSteps == {"getSnapshot", "clear", "refill", "resetVersion", "list", "scale"}

\* A call before its own snapshot has changed nothing.
Unspoiled(l) == l.pc \in BeforeSnapshot => l.ownSnap = 0 /\ l.outcome # "Success"

\* A call while nothing is restored; v is the version.
Calm(l, v) ==
  /\ l.pc \notin RestoreSteps
  /\ IsRollback(l.kind) => l.pc \in BeforeSnapshot \cup {"append", "done"}
                           /\ l.outcome # "Success"
  /\ Versioned(l.kind) /\ l.pc \in Committing => l.seen <= v
  /\ Versioned(l.kind) /\ l.outcome = "Success" /\ l.pc \in {"append", "done"} => l.seen < v

CalmInv ==
  /\ \A o \in Ops : Unspoiled(exec[o])
  /\ \A e \in Events : /\ ingest[e].pc = "idle" => ingest[e].target = Absent
                       /\ ingest[e].pc \in {"insert", "bump"} => ingest[e].target # Absent
                       /\ ingest[e].pc = "insert" => ingest[e].copy # Absent
  /\ NoRestore =>
       /\ \A id \in WorkloadIds : workloads[id] # Absent
       /\ \A o \in Ops : Calm(exec[o], version)
       /\ VersionCountsUpserts

LEMMA UpsertedIsFinite ==
  /\ IsFiniteSet(Upserted) /\ Cardinality(Upserted) \in Nat
  <1>1. IsFiniteSet(Ops \cup Events)
    BY OpsAreFinite, EventsAreFinite, FS_Union
  <1>2. Upserted \subseteq Ops \cup Events
    BY DEF Upserted
  <1> QED
    BY <1>1, <1>2, FS_Subset, FS_CardinalityType

LEMMA InitCalm == Init => CalmInv
  <1> SUFFICES ASSUME Init PROVE CalmInv
    OBVIOUS
  <1>1. \A o \in Ops : exec[o] = NotCalled
    BY DEF Init, GatewayInit
  <1>2. \A e \in Events : ingest[e].pc = "idle" /\ ingest[e].target = Absent
    BY DEF Init, IngestInit
  <1>3. \A id \in WorkloadIds : workloads[id] # Absent
    BY AbsentIsNoWorkload, ReplicaBound DEF Init, FabricInit, Workload
  <1>4. NotCalled.pc = "idle" /\ NotCalled.ownSnap = 0 /\ NotCalled.outcome = "None"
        /\ NotCalled.kind = "None"
    BY DEF NotCalled
  <1>5. Upserted = {}
    BY <1>1, <1>2, <1>4 DEF Upserted, Succeeded
  <1>6. VersionCountsUpserts
    BY <1>5, SeededVersion, FS_EmptySet DEF VersionCountsUpserts, Init, FabricInit
  <1> QED
    BY <1>1, <1>2, <1>3, <1>4, <1>6
       DEF CalmInv, Unspoiled, Calm, RestoreSteps, IsRollback, Versioned

\* Every step of a call but the one that counts the version up: what it has to keep.
LEMMA StepCalm ==
  ASSUME CalmInv, NEW o \in Ops,
         \A q \in Ops \ {o} : exec'[q] = exec[q],
         UNCHANGED ingest,
         Unspoiled(exec'[o]),
         IsRollback(exec[o].kind) /\ exec[o].ownSnap # 0
           => IsRollback(exec'[o].kind) /\ exec'[o].ownSnap # 0,
         NoRestore /\ (IsRollback(exec'[o].kind) => exec'[o].ownSnap = 0)
           => /\ version' = version
              /\ \A id \in WorkloadIds : workloads'[id] # Absent
              /\ Calm(exec'[o], version)
              /\ Succeeded(o)' = Succeeded(o)
  PROVE  CalmInv'
  <1>1. NoRestore' => NoRestore /\ (IsRollback(exec'[o].kind) => exec'[o].ownSnap = 0)
    BY DEF NoRestore
  <1>2. \A q \in Ops : Unspoiled(exec'[q])
    BY DEF CalmInv
  <1>3. ASSUME NoRestore'
        PROVE  /\ \A id \in WorkloadIds : workloads'[id] # Absent
               /\ \A q \in Ops : Calm(exec'[q], version')
               /\ VersionCountsUpserts'
    <2>1. Upserted' = Upserted
      BY <1>1, <1>3 DEF Upserted, Succeeded
    <2>2. version' = version /\ VersionCountsUpserts /\ NoRestore
      BY <1>1, <1>3 DEF CalmInv
    <2>3. VersionCountsUpserts'
      BY <2>1, <2>2 DEF VersionCountsUpserts
    <2>4. \A q \in Ops : Calm(exec'[q], version')
      BY <1>1, <1>3, <2>2 DEF CalmInv
    <2> QED
      BY <1>1, <1>3, <2>3, <2>4
  <1>4. \A q \in Ops : Unspoiled(exec[q])'
    BY <1>2 DEF Unspoiled
  <1>5. NoRestore' => \A q \in Ops : Calm(exec[q], version)'
    BY <1>3 DEF Calm
  <1> QED
    BY <1>3, <1>4, <1>5 DEF CalmInv

LEMMA GatewayStepCalm ==
  ASSUME NEW o \in Ops, TypeOK, CalmInv, Propose(o) \/ Execute(o), UNCHANGED ingest
  PROVE  CalmInv'
  <1>a. /\ DOMAIN exec = Ops
        /\ DOMAIN exec[o] = {"pc", "kind", "target", "review", "goal", "seen", "basis", "label",
                             "ownSnap", "buffer", "todo", "copy", "outcome"}
        /\ workloads \in Store /\ version \in Nat /\ exec[o].seen \in Nat
        /\ exec[o].pc # "idle" => exec[o].target \in WorkloadIds
        /\ exec[o].pc = "insert" => exec[o].copy # Absent
    BY AbsentIsNoWorkload DEF TypeOK, FabricTypeOK, GatewayTypeOK, Exec
  <1>b. /\ Unspoiled(exec[o])
        /\ NoRestore => /\ \A id \in WorkloadIds : workloads[id] # Absent
                        /\ Calm(exec[o], version)
    BY DEF CalmInv
  <1> DEFINE l == exec[o]
             m == exec'[o]
             \* A step that changes neither kind nor snapshot, and takes no restore.
             Steady ==
               /\ \A q \in Ops \ {o} : exec'[q] = exec[q]
               /\ m.kind = l.kind /\ m.seen = l.seen /\ m.ownSnap = l.ownSnap
               /\ l.pc \notin {"append", "done"}
  <1>s. ASSUME Steady, Unspoiled(m),
               NoRestore => /\ version' = version
                            /\ \A id \in WorkloadIds : workloads'[id] # Absent
                            /\ Calm(m, version)
                            /\ m.pc \in {"append", "done"} => m.outcome # "Success"
        PROVE  CalmInv'
    BY <1>s, StepCalm DEF Succeeded
  <1> USE DEF At, Become, Goto, Conclude, FailApply, Unspoiled, Calm, BeforeSnapshot,
              Committing, RestoreSteps
  <1>1. CASE Propose(o)
    <2>1. PICK p \in Proposal :
            exec' = [exec EXCEPT ![o] =
                       [l EXCEPT !.pc = "proposed", !.kind = p.kind, !.target = p.target,
                                 !.review = p.review, !.goal = p.goal, !.seen = version,
                                 !.basis = Contents]]
      BY <1>1 DEF Propose
    <2>2. /\ \A q \in Ops \ {o} : exec'[q] = exec[q]
          /\ m.pc = "proposed" /\ m.outcome = l.outcome /\ m.ownSnap = l.ownSnap
      BY <1>a, <2>1
    <2>3. l.pc = "idle" /\ UNCHANGED fabricVars
      BY <1>1 DEF Propose
    <2>4. Unspoiled(m) /\ Calm(m, version) /\ l.ownSnap = 0 /\ Succeeded(o)' = Succeeded(o)
      BY <1>b, <2>2, <2>3 DEF Succeeded
    <2> QED
      BY <1>b, <2>2, <2>3, <2>4, StepCalm DEF fabricVars
  <1>2. CASE EvaluateCap(o)
    <2>1. Steady /\ l.pc = "proposed" /\ m.pc \in {"openAudit", "rule003"} /\ UNCHANGED fabricVars
          /\ m.outcome \in {"Denied", l.outcome}
      BY <1>2, <1>a, ZenonT(60) DEF EvaluateCap
    <2> QED
      BY <1>b, <2>1, <1>s DEF fabricVars
  <1>3. CASE EvaluateStale(o)
    <2>1. Steady /\ l.pc = "rule003" /\ m.pc = "openAudit" /\ UNCHANGED fabricVars
          /\ m.outcome \in {"Denied", "RequiresApproval", "None"}
      BY <1>3, <1>a DEF EvaluateStale, Verdict
    <2> QED
      BY <1>b, <2>1, <1>s DEF fabricVars
  <1>4. CASE OpenAudit(o)
    <2>1. Steady /\ l.pc = "openAudit" /\ m.pc \in {"verify", "append"} /\ UNCHANGED fabricVars
          /\ m.outcome = l.outcome
      BY <1>4, <1>a DEF OpenAudit
    <2> QED
      BY <1>b, <2>1, <1>s DEF fabricVars
  <1>5. CASE VerifyVersion(o)
    <2>1. Steady /\ l.pc = "verify" /\ m.pc \in {"exists", "append"} /\ UNCHANGED fabricVars
          /\ m.outcome \in {"Failed", l.outcome}
      <3>1. \/ exec' = [exec EXCEPT ![o] = [l EXCEPT !.pc = "exists"]]
            \/ exec' = [exec EXCEPT ![o] = [l EXCEPT !.pc = "append", !.outcome = "Failed"]]
        BY <1>5 DEF VerifyVersion
      <3>2. \/ m = [l EXCEPT !.pc = "exists"]
            \/ m = [l EXCEPT !.pc = "append", !.outcome = "Failed"]
        BY <1>a, <3>1
      <3>3. Steady
        BY <1>5, <1>a, <3>1, <3>2 DEF VerifyVersion
      <3> QED
        BY <1>5, <1>a, <3>2, <3>3 DEF VerifyVersion
    <2> QED
      BY <1>b, <2>1, <1>s DEF fabricVars
  <1>6. CASE VerifyWorkload(o)
    <2>1. Steady /\ l.pc = "exists" /\ m.pc \in {"occ", "append"} /\ UNCHANGED fabricVars
          /\ m.outcome \in {"Failed", l.outcome}
      <3>1. \/ exec' = [exec EXCEPT ![o] = [l EXCEPT !.pc = "occ"]]
            \/ exec' = [exec EXCEPT ![o] = [l EXCEPT !.pc = "append", !.outcome = "Failed"]]
        BY <1>6 DEF VerifyWorkload
      <3>2. \/ m = [l EXCEPT !.pc = "occ"]
            \/ m = [l EXCEPT !.pc = "append", !.outcome = "Failed"]
        BY <1>a, <3>1
      <3>3. Steady
        BY <1>6, <1>a, <3>1, <3>2 DEF VerifyWorkload
      <3> QED
        BY <1>6, <1>a, <3>2, <3>3 DEF VerifyWorkload
    <2> QED
      BY <1>b, <2>1, <1>s DEF fabricVars
  <1>7. CASE CommitCheck(o)
    <2>1. CASE OccHolds(o)
      <3>1. Steady /\ l.pc = "occ" /\ m.pc = "snapRead" /\ UNCHANGED fabricVars
            /\ m.outcome = l.outcome
        BY <1>7, <1>a, <2>1 DEF CommitCheck
      <3>2. Versioned(l.kind) => l.seen <= version
        BY <1>a, <2>1 DEF OccHolds
      <3> QED
        BY <1>b, <3>1, <3>2, <1>s DEF fabricVars
    <2>2. CASE ~OccHolds(o)
      <3>1. Steady /\ l.pc = "occ" /\ m.pc = "append" /\ UNCHANGED fabricVars
            /\ m.outcome = "Denied"
        BY <1>7, <1>a, <2>2, ZenonT(60) DEF CommitCheck
      <3> QED
        BY <1>b, <3>1, <1>s DEF fabricVars
    <2> QED
      BY <2>1, <2>2
  <1>8. CASE SnapshotVersion(o)
    <2>1. /\ \A q \in Ops \ {o} : exec'[q] = exec[q]
          /\ m.kind = l.kind /\ m.seen = l.seen /\ m.ownSnap = version /\ m.outcome = l.outcome
          /\ l.pc = "snapRead" /\ m.pc = "snapCopy" /\ UNCHANGED fabricVars
      BY <1>8, <1>a DEF SnapshotVersion
    <2>2. NoRestore => version # 0
      BY UpsertedIsFinite, SeededVersion DEF CalmInv, VersionCountsUpserts
    <2>3. l.ownSnap = 0 /\ l.outcome # "Success" /\ Succeeded(o)' = Succeeded(o)
      BY <1>b, <2>1 DEF Succeeded
    <2> QED
      BY <1>b, <2>1, <2>2, <2>3, StepCalm DEF fabricVars
  <1>9. CASE SnapshotCopy(o)
    <2>1. Steady /\ l.pc = "snapCopy" /\ m.pc \in {"snapCopy", "snapPut"} /\ UNCHANGED fabricVars
      BY <1>9, <1>a DEF SnapshotCopy
    <2> QED
      BY <1>b, <2>1, <1>s DEF fabricVars
  <1>10. CASE SnapshotPut(o)
    <2>1. Steady /\ l.pc = "snapPut" /\ UNCHANGED <<workloads, version>>
          /\ m.pc = IF IsRollback(l.kind) THEN "getSnapshot" ELSE "apply"
      BY <1>10, <1>a DEF SnapshotPut
    <2> QED
      BY <1>b, <2>1, <1>s
  <1>11. CASE Apply(o)
    <2>1. l.pc = "apply" /\ UNCHANGED fabricVars
      BY <1>11 DEF Apply
    <2>2. Steady /\ m.pc \in {"getSnapshot", "sync", "insert"}
          /\ (m.pc = "getSnapshot" => workloads[l.target] = Absent)
      <3>1. CASE workloads[l.target] = Absent
        BY <1>11, <1>a, <2>1, <3>1, ZenonT(60) DEF Apply
      <3>2. CASE workloads[l.target] # Absent
        <4>1. PICK s \in {"sync", "insert"} :
                exec' = [exec EXCEPT ![o] =
                           [l EXCEPT !.copy = Effect(o, workloads[l.target]), !.pc = s]]
          BY <1>11, <3>2 DEF Apply
        <4> QED
          BY <1>a, <2>1, <4>1
      <3> QED
        BY <3>1, <3>2
    <2> QED
      BY <1>a, <1>b, <2>1, <2>2, <1>s DEF fabricVars
  <1>12. CASE SyncDeployment(o)
    <2>1. Steady /\ l.pc = "sync" /\ m.pc = "insert" /\ UNCHANGED fabricVars
      BY <1>12, <1>a DEF SyncDeployment
    <2> QED
      BY <1>b, <2>1, <1>s DEF fabricVars
  <1>13. CASE CommitInsert(o)
    <2>1. Steady /\ l.pc = "insert" /\ m.pc = "bump" /\ UNCHANGED version
      BY <1>13, <1>a DEF CommitInsert
    <2>2. NoRestore => \A id \in WorkloadIds : workloads'[id] # Absent
      BY <1>13, <1>a, <1>b, <2>1 DEF CommitInsert, InsertWorkload, Store
    <2> QED
      BY <1>b, <2>1, <2>2, <1>s
  <1>14. CASE GetSnapshot(o) \/ RestoreClear(o) \/ RestoreInsert(o) \/ RestoreVersion(o)
              \/ ListRestored(o) \/ ScaleRestored(o) \/ RollbackDone(o)
    <2>1. l.pc \in RestoreSteps
      BY <1>14 DEF GetSnapshot, RestoreClear, RestoreInsert, RestoreVersion, ListRestored,
                   ScaleRestored, RollbackDone
    <2>2. ~NoRestore
      BY <1>b, <2>1
    <2>3. /\ \A q \in Ops \ {o} : exec'[q] = exec[q]
          /\ m.kind = l.kind /\ m.ownSnap = l.ownSnap
          /\ m.pc \in RestoreSteps \cup {"append"}
      <3>1. CASE GetSnapshot(o)
        BY <1>a, <3>1, ZenonT(60) DEF GetSnapshot
      <3>2. CASE RestoreClear(o)
        BY <1>a, <3>2, ZenonT(60) DEF RestoreClear
      <3>3. CASE RestoreInsert(o)
        BY <1>a, <3>3 DEF RestoreInsert
      <3>4. CASE RestoreVersion(o)
        BY <1>a, <3>4 DEF RestoreVersion
      <3>5. CASE ListRestored(o)
        BY <1>a, <3>5 DEF ListRestored
      <3>6. CASE ScaleRestored(o)
        BY <1>a, <2>1, <3>6 DEF ScaleRestored
      <3>7. CASE RollbackDone(o)
        BY <1>a, <3>7 DEF RollbackDone
      <3> QED
        BY <1>14, <3>1, <3>2, <3>3, <3>4, <3>5, <3>6, <3>7
    <2> QED
      BY <2>2, <2>3, StepCalm
  <1>15. CASE AppendAudit(o)
    <2>1. /\ \A q \in Ops \ {o} : exec'[q] = exec[q]
          /\ m.kind = l.kind /\ m.seen = l.seen /\ m.ownSnap = l.ownSnap
          /\ m.outcome = l.outcome /\ l.pc = "append" /\ m.pc = "done" /\ UNCHANGED fabricVars
      BY <1>15, <1>a DEF AppendAudit
    <2>2. Succeeded(o)' = Succeeded(o)
      BY <2>1 DEF Succeeded
    <2> QED
      BY <1>b, <2>1, <2>2, StepCalm DEF fabricVars
  <1>16. CASE CommitIncrement(o)
    <2>1. Steady /\ l.pc = "bump" /\ m.pc = "append" /\ m.outcome = "Success"
          /\ UNCHANGED <<workloads, snapshots>> /\ version' = version + 1
      BY <1>16, <1>a DEF CommitIncrement, IncrementVersion
    <2>2. NoRestore' = NoRestore
      BY <2>1 DEF NoRestore
    <2>3. Upserted' = Upserted \cup {o} /\ o \notin Upserted
      BY <2>1, CallsAreNoEvents DEF Upserted, Succeeded
    <2>4. Cardinality(Upserted') = Cardinality(Upserted) + 1 /\ Cardinality(Upserted) \in Nat
      BY <2>3, UpsertedIsFinite, FS_AddElement
    <2>5. VersionCountsUpserts => VersionCountsUpserts'
      BY <1>a, <2>1, <2>2, <2>4, SeededVersion DEF VersionCountsUpserts
    <2>6. \A q \in Ops : exec[q].seen \in Nat
      BY DEF TypeOK, GatewayTypeOK, Exec
    <2>7. NoRestore => \A q \in Ops : Calm(exec'[q], version + 1)
      <3>1. NoRestore => \A q \in Ops : Calm(exec[q], version)
        BY DEF CalmInv
      <3>2. ASSUME NoRestore, NEW q \in Ops
            PROVE  Calm(exec'[q], version + 1)
        <4>1. CASE q = o
          BY <1>a, <1>b, <2>1, <3>2, <4>1
        <4>2. CASE q # o
          BY <1>a, <2>1, <2>6, <3>1, <3>2, <4>2
        <4> QED
          BY <4>1, <4>2
      <3> QED
        BY <3>2
    <2>8. \A q \in Ops : Unspoiled(exec'[q])
      BY <2>1 DEF CalmInv
    <2> QED
      BY <2>1, <2>2, <2>5, <2>7, <2>8 DEF CalmInv
  <1> HIDE DEF At, Become, Goto, Conclude, FailApply
  <1> QED
    BY <1>1, <1>2, <1>3, <1>4, <1>5, <1>6, <1>7, <1>8, <1>9, <1>10, <1>11, <1>12, <1>13, <1>14,
       <1>15, <1>16 DEF Execute

\* Only CommitCheck takes a call from the check to its snapshot.
LEMMA PassingHolds ==
  ASSUME TypeOK, [Next]_vars, NEW o \in Ops, Passes(o), Versioned(exec[o].kind)
  PROVE  exec[o].seen = version
  <1>a. /\ DOMAIN exec = Ops /\ "pc" \in DOMAIN exec[o]
    BY DEF TypeOK, GatewayTypeOK, Exec
  <1>1. exec[o].pc = "occ" /\ exec'[o].pc = "snapRead"
    BY DEF Passes, At
  <1>2. ASSUME NEW p \in Ops, Propose(p) \/ Execute(p)
        PROVE  CommitCheck(o)
    <2>1. \A q \in Ops \ {p} : exec'[q] = exec[q]
      BY <1>2, StepAppendsOrGoesOn DEF GoesOn, AppendAudit, Become, TypeOK, GatewayTypeOK
    <2>2. p = o
      BY <1>1, <2>1
    <2> QED
      BY <1>1, <1>2, <2>2
         DEF At, Propose, Execute, EvaluateCap, EvaluateStale, OpenAudit, VerifyVersion,
             VerifyWorkload, SnapshotVersion, SnapshotCopy, SnapshotPut, Apply, SyncDeployment,
             CommitInsert, CommitIncrement, GetSnapshot, RestoreClear, RestoreInsert,
             RestoreVersion, ListRestored, ScaleRestored, RollbackDone, AppendAudit
  <1>3. exec' # exec
    BY <1>1
  <1>4. CommitCheck(o)
    BY <1>2, <1>3 DEF Next, Plan, GatewayStep, IngestStep, gatewayVars, vars
  <1>5. OccHolds(o)
    BY <1>1, <1>4, <1>a DEF CommitCheck, Conclude, Become
  <1> QED
    BY <1>5 DEF OccHolds

LEMMA IngestStepCalm ==
  ASSUME NEW e \in Events, TypeOK, CalmInv, Ingest(e), UNCHANGED gatewayVars
  PROVE  CalmInv'
  <1>a. /\ workloads \in Store /\ DOMAIN ingest = Events /\ version \in Nat
        /\ \A f \in Events : DOMAIN ingest[f] = {"pc", "target", "copy"}
        /\ ingest[e].pc = "insert" => ingest[e].target \in WorkloadIds
        /\ \A q \in Ops : exec[q].seen \in Nat
    BY DEF TypeOK, FabricTypeOK, GatewayTypeOK, IngestTypeOK, Exec
  <1>b. /\ exec' = exec /\ NoRestore' = NoRestore
        /\ \A o \in Ops : Succeeded(o)' = Succeeded(o)
    BY DEF gatewayVars, NoRestore, Succeeded
  <1>1. CASE ReadMatching(e)
    <2>1. /\ \A f \in Events \ {e} : ingest'[f] = ingest[f]
          /\ \/ /\ ingest'[e].pc = "insert" /\ ingest'[e].target # Absent
                /\ ingest'[e].copy # Absent
             \/ ingest'[e].pc = "done" /\ ingest'[e].target = ingest[e].target
      <3>1. ASSUME NEW id \in Present
            PROVE  id # Absent /\ [workloads[id] EXCEPT !.writes = @ \cup {e}] # Absent
        <4>1. id \in WorkloadIds /\ workloads[id] \in Workload
          BY <1>a, <3>1, PresentTypes DEF Present, Held
        <4>2. e \in Writers
          BY EventsAreWriters
        <4>3. [workloads[id] EXCEPT !.writes = @ \cup {e}] \in Workload
          BY <4>1, <4>2 DEF Workload
        <4> QED
          BY <4>1, <4>3, AbsentIsNoId, AbsentIsNoWorkload
      <3> QED
        BY <1>1, <1>a, <3>1 DEF ReadMatching
    <2>2. ingest[e].pc = "idle" /\ UNCHANGED fabricVars /\ ingest[e].target = Absent
      BY <1>1 DEF ReadMatching, CalmInv
    <2>3. Upserted' = Upserted
      BY <1>b, <2>1, <2>2 DEF Upserted
    <2> QED
      BY <1>b, <2>1, <2>2, <2>3 DEF fabricVars, CalmInv, VersionCountsUpserts
  <1>2. CASE UpsertInsert(e)
    <2>1. /\ \A f \in Events \ {e} : ingest'[f] = ingest[f]
          /\ ingest'[e].pc = "bump" /\ ingest'[e].target = ingest[e].target
          /\ ingest[e].pc = "insert" /\ UNCHANGED version
      BY <1>2, <1>a DEF UpsertInsert
    <2>2. Upserted' = Upserted
      BY <1>b, <2>1 DEF Upserted
    <2>3. workloads' = [workloads EXCEPT ![ingest[e].target] = ingest[e].copy]
      BY <1>2 DEF UpsertInsert, InsertWorkload
    <2>4. ingest[e].copy # Absent
      BY <1>2 DEF UpsertInsert, CalmInv
    <2>5. (\A id \in WorkloadIds : workloads[id] # Absent)
            => \A id \in WorkloadIds : workloads'[id] # Absent
      BY <1>a, <2>3, <2>4 DEF Store
    <2> QED
      BY <1>b, <2>1, <2>2, <2>5 DEF CalmInv, VersionCountsUpserts
  <1>3. CASE UpsertIncrement(e)
    <2>1. /\ \A f \in Events \ {e} : ingest'[f] = ingest[f]
          /\ ingest'[e].pc = "done" /\ ingest'[e].target = ingest[e].target
          /\ ingest[e].pc = "bump" /\ UNCHANGED workloads /\ version' = version + 1
      BY <1>3, <1>a DEF UpsertIncrement, IncrementVersion
    <2>2. Upserted' = Upserted \cup {e} /\ e \notin Upserted
      BY <1>b, <2>1, CallsAreNoEvents DEF Upserted, CalmInv
    <2>3. Cardinality(Upserted') = Cardinality(Upserted) + 1 /\ Cardinality(Upserted) \in Nat
      BY <2>2, UpsertedIsFinite, FS_AddElement
    <2>4. VersionCountsUpserts => VersionCountsUpserts'
      BY <1>a, <1>b, <2>1, <2>3, SeededVersion DEF VersionCountsUpserts
    <2>5. NoRestore => \A q \in Ops : Calm(exec[q], version + 1)
      BY <1>a DEF CalmInv, Calm
    <2> QED
      BY <1>b, <2>1, <2>4, <2>5 DEF CalmInv
  <1> QED
    BY <1>1, <1>2, <1>3 DEF Ingest

LEMMA CalmHolds == Spec => []CalmInv
  <1>1. TypeOK /\ CalmInv /\ [Next]_vars => CalmInv'
    <2> SUFFICES ASSUME TypeOK, CalmInv, [Next]_vars PROVE CalmInv'
      OBVIOUS
    <2>1. ASSUME NEW o \in Ops, Plan(o) \/ GatewayStep(o) PROVE CalmInv'
      BY <2>1, GatewayStepCalm DEF Plan, GatewayStep
    <2>2. ASSUME NEW e \in Events, IngestStep(e) PROVE CalmInv'
      BY <2>2, IngestStepCalm DEF IngestStep
    <2>3. CASE UNCHANGED vars
      <3>1. NoRestore' = NoRestore /\ Upserted' = Upserted
        BY <2>3 DEF vars, gatewayVars, NoRestore, Upserted, Succeeded
      <3> QED
        BY <2>3, <3>1 DEF vars, fabricVars, gatewayVars, CalmInv, VersionCountsUpserts
    <2> QED
      BY <2>1, <2>2, <2>3 DEF Next
  <1> QED
    BY <1>1, InitCalm, TypeCorrect, PTL DEF Spec

\* The counter is the number of finished upserts of calls and payment events, however many of
\* them insert and count at the same time, as long as nothing is rolled back.
THEOREM UpsertsCounted == Spec => []VersionCountsUpserts
  <1>1. CalmInv => VersionCountsUpserts
    BY DEF CalmInv, VersionCountsUpserts
  <1> QED
    BY <1>1, CalmHolds, PTL

\* Two calls planned on one version both commit only if both pass the check before either has
\* finished: what the commit-time check guarantees for any number of calls.
THEOREM FinishedCommitsExclude == Spec => FinishedCommitExcludes
  <1> DEFINE Excludes ==
        NoRestore => \A o, q \in Ops :
                       /\ Passes(o) /\ Versioned(exec[o].kind)
                       /\ Succeeded(q) /\ Versioned(exec[q].kind)
                       => exec[o].seen # exec[q].seen
  <1>1. TypeOK /\ CalmInv /\ [Next]_vars => [Excludes]_vars
    <2> SUFFICES ASSUME TypeOK, CalmInv, [Next]_vars, NoRestore,
                        NEW o \in Ops, NEW q \in Ops, Passes(o), Versioned(exec[o].kind),
                        Succeeded(q), Versioned(exec[q].kind)
                 PROVE  exec[o].seen # exec[q].seen
      OBVIOUS
    <2>1. exec[q].seen < version /\ exec[q].seen \in Nat /\ version \in Nat
      BY DEF CalmInv, Calm, Succeeded, TypeOK, FabricTypeOK, GatewayTypeOK, Exec
    <2>2. exec[o].seen = version
      BY PassingHolds
    <2> QED
      BY <2>1, <2>2
  <1> QED
    BY <1>1, CalmHolds, TypeCorrect, PTL DEF Spec, FinishedCommitExcludes

-----------------------------------------------------------------------------
(* Operations that meet and operations that do not.  While an operation     *)
(* meets no other, what its call holds is exact, so its steps are those of  *)
(* a versioned store, whatever earlier meetings left behind.  And as long   *)
(* as no snapshot is copied while a restore rebuilds the map, whatever else *)
(* meets, a workload that is not in the map is about to be put back by a    *)
(* restore that has it.                                                     *)

Restores == {"clear", "refill", "resetVersion"}

\* A step the versioned store can take, or cannot see.
StoreStep == Promise!Next \/ UNCHANGED Promise!storeVars

\* What a call inside an operation holds, against the map and the version.
CallApart(o) ==
  LET l == exec[o] IN
  /\ l.pc = "snapCopy" =>
       /\ l.ownSnap = version
       /\ \A id \in WorkloadIds \ l.todo : l.buffer[id] = workloads[id]
  /\ l.pc = "snapPut" => l.ownSnap = version /\ l.buffer = workloads
  /\ l.pc \in {"sync", "insert"} =>
       workloads[l.target] # Absent /\ l.copy = Effect(o, workloads[l.target])
  /\ l.pc = "clear" => \A id \in WorkloadIds \ l.todo : workloads[id] = Absent
  /\ l.pc = "refill" => \A id \in WorkloadIds \ l.todo : workloads[id] = l.buffer[id]
  /\ l.pc = "resetVersion" => workloads = l.buffer

EventApart(e) ==
  ingest[e].pc = "insert" =>
    LET w == workloads[ingest[e].target]
    IN  w # Absent /\ ingest[e].copy = [w EXCEPT !.writes = @ \cup {e}]

ApartInv ==
  /\ spoiled \subseteq Acting
  /\ Meeting => Acting \subseteq spoiled
  /\ \A o \in Ops \ spoiled : CallApart(o)
  /\ \A e \in Events \ spoiled : EventApart(e)

\* A copy of the map that has every workload.
Whole(s) == \A id \in WorkloadIds : s[id] # Absent

\* A snapshot has every workload it has come to; a restore has them all.
HoldsAll(l) ==
  /\ l.pc = "snapCopy" => \A id \in WorkloadIds \ l.todo : l.buffer[id] # Absent
  /\ l.pc \in {"snapPut", "clear", "refill", "resetVersion"} => Whole(l.buffer)

\* A restore that has still to put this workload back.
Refills(l, id) == l.pc = "clear" \/ (l.pc = "refill" /\ id \in l.todo)

Lossless ==
  /\ \A v \in DOMAIN snapshots : Whole(snapshots[v])
  /\ \A o \in Ops : HoldsAll(exec[o])
  /\ \A e \in Events : ingest[e].pc = "insert" => ingest[e].copy # Absent
  /\ \A id \in WorkloadIds : workloads[id] = Absent => \E o \in Ops : Refills(exec[o], id)

LossInv == ~torn => Lossless /\ ~Tearing

LEMMA InitApart == OverlapInit => ApartInv /\ LossInv /\ Promise!Init
  <1> SUFFICES ASSUME OverlapInit PROVE ApartInv /\ LossInv /\ Promise!Init
    OBVIOUS
  <1>1. \A o \in Ops : exec[o].pc = "idle"
    BY DEF OverlapInit, Init, GatewayInit, NotCalled
  <1>2. \A e \in Events : ingest[e].pc = "idle"
    BY DEF OverlapInit, Init, IngestInit
  <1>3. Whole(workloads) /\ DOMAIN snapshots = {}
    BY AbsentIsNoWorkload, ReplicaBound DEF OverlapInit, Init, FabricInit, Workload, Whole
  <1>4. Acting = {} /\ ~Meeting /\ Rebuilding = {} /\ Restoring = {} /\ ~Upserting
    BY <1>1, <1>2 DEF Acting, Ingesting, Inside, Meeting, Rebuilding, Restoring, Upserting, At
  <1>5. ApartInv
    BY <1>1, <1>2, <1>4 DEF OverlapInit, ApartInv, CallApart, EventApart
  <1>6. LossInv
    BY <1>1, <1>2, <1>3, <1>4 DEF LossInv, Lossless, HoldsAll, Tearing, Whole
  <1>7. Promise!Init
    BY <1>4 DEF OverlapInit, Init, FabricInit, Promise!Init, EffectiveStore, EffectiveVersion
  <1> QED
    BY <1>5, <1>6, <1>7

\* A call's step leaves the local state of the others alone.
LEMMA OthersKept ==
  ASSUME TypeOK, NEW o \in Ops, Propose(o) \/ Execute(o)
  PROVE  \A q \in Ops \ {o} : exec'[q] = exec[q]
  <1>1. AppendAudit(o) \/ GoesOn(o)
    BY StepAppendsOrGoesOn
  <1>2. DOMAIN exec = Ops
    BY DEF TypeOK, GatewayTypeOK
  <1> QED
    BY <1>1, <1>2 DEF AppendAudit, GoesOn, Become

\* What the versioned store is, seen through the one call that may be inside an operation.
LEMMA EffectiveApart ==
  ASSUME NEW o \in Ops
  PROVE  LET Alone == Acting \subseteq {o} /\ Ingesting = {}
             Seen ==
               /\ EffectiveStore = IF exec[o].pc \in Restores THEN exec[o].buffer ELSE workloads
               /\ EffectiveVersion = IF exec[o].pc \in Restores THEN exec[o].goal
                                     ELSE IF exec[o].pc = "bump" THEN version + 1 ELSE version
         IN  (Alone => Seen) /\ (Alone' => Seen')
  <1> DEFINE Alone == Acting \subseteq {o} /\ Ingesting = {}
             Seen ==
               /\ EffectiveStore = IF exec[o].pc \in Restores THEN exec[o].buffer ELSE workloads
               /\ EffectiveVersion = IF exec[o].pc \in Restores THEN exec[o].goal
                                     ELSE IF exec[o].pc = "bump" THEN version + 1 ELSE version
  <1>1. Alone => Seen
    <2> SUFFICES ASSUME Alone PROVE Seen
      OBVIOUS
    <2>1. Restoring = IF exec[o].pc \in Restores THEN {o} ELSE {}
      BY DEF Restoring, Restores, Acting, Inside
    <2>2. Upserting <=> exec[o].pc = "bump"
      BY DEF Upserting, At, Acting, Inside, Ingesting
    <2>3. exec[o].pc \in Restores => (CHOOSE q \in Restoring : TRUE) = o
      BY <2>1
    <2>4. exec[o].pc \in Restores => exec[o].pc # "bump"
      BY DEF Restores
    <2> QED
      BY <2>1, <2>2, <2>3, <2>4 DEF EffectiveStore, EffectiveVersion
  <1> HIDE DEF Alone, Seen
  <1>2. Alone' => Seen'
    BY <1>1, PTL
  <1> QED
    BY <1>1, <1>2 DEF Alone, Seen

(***************************************************************************)
(* A step of a call: what it holds stays exact, if it was; the versioned   *)
(* store takes a step or none, if nobody else is inside an operation; and  *)
(* no workload is lost, if no snapshot is copied during a restore.         *)
(***************************************************************************)
LEMMA CallStep ==
  ASSUME TypeOK, NEW o \in Ops, Propose(o) \/ Execute(o), UNCHANGED ingest
  PROVE  /\ CallApart(o) => CallApart(o)'
         /\ /\ CallApart(o)
            /\ Acting \subseteq {o} /\ Acting' \subseteq {o} /\ Ingesting = {}
            => StoreStep
         /\ Lossless /\ ~Tearing => Lossless'
  <1> DEFINE l == exec[o]
             m == exec'[o]
             Shown(r, w) == IF r.pc \in Restores THEN r.buffer ELSE w
             Told(r, v) == IF r.pc \in Restores THEN r.goal
                           ELSE IF r.pc = "bump" THEN v + 1 ELSE v
             Alike == /\ Shown(m, workloads') = Shown(l, workloads)
                      /\ Told(m, version') = Told(l, version)
                      /\ UNCHANGED snapshots
             Alone == Acting \subseteq {o} /\ Acting' \subseteq {o} /\ Ingesting = {}
             StaysApart == CallApart(o) => CallApart(o)'
             StoreHolds == CallApart(o) /\ Alone => StoreStep
             LossHolds == Lossless /\ ~Tearing => Lossless'
  <1>a. /\ DOMAIN exec = Ops
        /\ DOMAIN l = {"pc", "kind", "target", "review", "goal", "seen", "basis", "label",
                       "ownSnap", "buffer", "todo", "copy", "outcome"}
        /\ workloads \in Store /\ version \in Nat /\ l.buffer \in Store
        /\ l.todo \in SUBSET WorkloadIds
        /\ l.pc # "idle" => l.target \in WorkloadIds
        /\ l.pc \in {"sync", "insert"} => l.copy \in Workload
    BY DEF TypeOK, FabricTypeOK, GatewayTypeOK, Exec
  <1>b. \A q \in Ops \ {o} : exec'[q] = exec[q]
    BY OthersKept
  <1>c. Lossless => /\ \A v \in DOMAIN snapshots : Whole(snapshots[v])
                    /\ HoldsAll(l)
    BY DEF Lossless
  \* What is left to show of the call that took the step.
  <1>d. ASSUME Lossless /\ ~Tearing =>
                 /\ \A v \in DOMAIN snapshots' : Whole(snapshots'[v])
                 /\ HoldsAll(m)
                 /\ \A id \in WorkloadIds :
                      workloads'[id] = Absent =>
                        Refills(m, id) \/ (workloads[id] = Absent /\ ~Refills(l, id))
        PROVE  LossHolds
    <2> SUFFICES ASSUME Lossless, ~Tearing PROVE Lossless'
      OBVIOUS
    <2>1. \A q \in Ops : HoldsAll(exec[q])'
      <3>1. \A q \in Ops : HoldsAll(exec'[q])
        BY <1>b, <1>d DEF Lossless
      <3> QED
        BY <3>1 DEF HoldsAll, Whole
    <2>2. ASSUME NEW id \in WorkloadIds, workloads'[id] = Absent
          PROVE  \E q \in Ops : Refills(exec'[q], id)
      <3>1. CASE Refills(m, id)
        BY <3>1
      <3>2. CASE workloads[id] = Absent /\ ~Refills(l, id)
        <4>1. PICK q \in Ops : Refills(exec[q], id)
          BY <3>2 DEF Lossless
        <4> QED
          BY <1>b, <3>2, <4>1
      <3> QED
        BY <1>d, <2>2, <3>1, <3>2
    <2>3. \A id \in WorkloadIds : workloads'[id] = Absent => \E q \in Ops : Refills(exec[q], id)'
      BY <2>2 DEF Refills
    <2>4. \A v \in DOMAIN snapshots' : Whole(snapshots[v])'
      BY <1>d DEF Whole
    <2> QED
      BY <2>1, <2>3, <2>4 DEF Lossless
  <1>f. Alone => /\ EffectiveStore = Shown(l, workloads) /\ EffectiveStore' = Shown(m, workloads')
                 /\ EffectiveVersion = Told(l, version) /\ EffectiveVersion' = Told(m, version')
    <2>1. Ingesting' = Ingesting
      BY DEF Ingesting
    <2> QED
      BY <2>1, EffectiveApart
  <1>g. Alike => StoreHolds
    BY <1>f DEF StoreStep, Promise!storeVars
  <1> SUFFICES StaysApart /\ StoreHolds /\ LossHolds
    OBVIOUS
  <1> HIDE DEF StaysApart, StoreHolds, LossHolds, Alone
  <1>q. ASSUME l.pc \notin Inside, m.pc \notin Inside, UNCHANGED fabricVars
        PROVE  StaysApart /\ StoreHolds /\ LossHolds
    <2>1. StaysApart
      BY <1>q DEF StaysApart, CallApart, Inside
    <2>2. Alike
      BY <1>q DEF Inside, Restores, fabricVars
    <2>3. LossHolds
      BY <1>c, <1>d, <1>q DEF HoldsAll, Refills, Inside, fabricVars
    <2> QED
      BY <1>g, <2>1, <2>2, <2>3
  <1> USE DEF At, Become, Goto, Conclude, FailApply
  <1>1. CASE Propose(o) \/ AppendAudit(o)
    <2>1. l.pc \in {"idle", "append"} /\ m.pc \in {"proposed", "done"} /\ UNCHANGED fabricVars
      <3>1. CASE Propose(o)
        BY <1>a, <3>1 DEF Propose
      <3>2. CASE AppendAudit(o)
        BY <1>a, <3>2 DEF AppendAudit
      <3> QED
        BY <1>1, <3>1, <3>2
    <2> QED
      BY <1>q, <2>1 DEF Inside
  <1>2. CASE EvaluateCap(o) \/ EvaluateStale(o) \/ OpenAudit(o)
    <2>1. l.pc \in {"proposed", "rule003", "openAudit"}
          /\ m.pc \in {"openAudit", "rule003", "verify", "append"} /\ UNCHANGED fabricVars
      <3>1. CASE EvaluateCap(o)
        BY <1>a, <3>1 DEF EvaluateCap
      <3>2. CASE EvaluateStale(o)
        BY <1>a, <3>2 DEF EvaluateStale
      <3>3. CASE OpenAudit(o)
        BY <1>a, <3>3 DEF OpenAudit
      <3> QED
        BY <1>2, <3>1, <3>2, <3>3
    <2> QED
      BY <1>q, <2>1 DEF Inside
  <1>3. CASE VerifyVersion(o) \/ VerifyWorkload(o) \/ CommitCheck(o)
    <2>1. l.pc \in {"verify", "exists", "occ"}
          /\ m.pc \in {"exists", "occ", "snapRead", "append"} /\ UNCHANGED fabricVars
      <3>1. \E s \in {"exists", "occ", "snapRead"} :
              exec' \in {[exec EXCEPT ![o] = [l EXCEPT !.pc = s]],
                         [exec EXCEPT ![o] = [l EXCEPT !.pc = "append", !.outcome = "Failed"]],
                         [exec EXCEPT ![o] = [l EXCEPT !.pc = "append", !.outcome = "Denied"]]}
        BY <1>3 DEF VerifyVersion, VerifyWorkload, CommitCheck
      <3>2. \E s \in {"exists", "occ", "snapRead"} :
              m \in {[l EXCEPT !.pc = s], [l EXCEPT !.pc = "append", !.outcome = "Failed"],
                     [l EXCEPT !.pc = "append", !.outcome = "Denied"]}
        BY <1>a, <3>1
      <3>3. m.pc \in {"exists", "occ", "snapRead", "append"}
        BY <1>a, <3>2
      <3> QED
        BY <1>3, <3>3 DEF VerifyVersion, VerifyWorkload, CommitCheck
    <2> QED
      BY <1>q, <2>1 DEF Inside
  <1>4. CASE SnapshotVersion(o)
    <2>1. l.pc = "snapRead" /\ m.pc = "snapCopy" /\ m.ownSnap = version
          /\ m.todo = WorkloadIds /\ UNCHANGED fabricVars
      BY <1>4, <1>a DEF SnapshotVersion
    <2>2. StaysApart
      BY <2>1 DEF StaysApart, CallApart, fabricVars
    <2>3. Alike
      BY <2>1 DEF Restores, fabricVars
    <2>4. LossHolds
      BY <1>c, <1>d, <2>1 DEF HoldsAll, Refills, fabricVars
    <2> QED
      BY <1>g, <2>2, <2>3, <2>4
  <1>5. CASE SnapshotCopy(o)
    <2>1. PICK id \in l.todo :
            exec' = [exec EXCEPT ![o] =
                       [l EXCEPT !.buffer = [@ EXCEPT ![id] = workloads[id]],
                                 !.todo = @ \ {id},
                                 !.pc = IF l.todo = {id} THEN "snapPut" ELSE "snapCopy"]]
      BY <1>5 DEF SnapshotCopy
    <2>2. l.pc = "snapCopy" /\ m.ownSnap = l.ownSnap
          /\ m.buffer = [l.buffer EXCEPT ![id] = workloads[id]] /\ m.todo = l.todo \ {id}
          /\ m.pc = (IF l.todo = {id} THEN "snapPut" ELSE "snapCopy") /\ UNCHANGED fabricVars
      BY <1>5, <1>a, <2>1 DEF SnapshotCopy
    <2>3. CallApart(o) =>
            l.ownSnap = version /\ \A n \in WorkloadIds \ m.todo : m.buffer[n] = workloads[n]
      BY <1>a, <2>2 DEF CallApart, Store
    <2>4. l.todo = {id} => (CallApart(o) => m.buffer = workloads)
      BY <1>a, <2>2, <2>3 DEF Store
    <2>5. StaysApart
      BY <2>2, <2>3, <2>4 DEF StaysApart, CallApart, fabricVars
    <2>6. Alike
      BY <2>2 DEF Restores, fabricVars
    <2>7. LossHolds
      <3>1. Lossless /\ ~Tearing => workloads[id] # Absent
        <4> SUFFICES ASSUME Lossless, ~Tearing, workloads[id] = Absent PROVE FALSE
          OBVIOUS
        <4>1. PICK q \in Ops : Refills(exec[q], id)
          BY <1>a DEF Lossless
        <4> QED
          BY <2>2, <4>1 DEF Tearing, Rebuilding, Refills
      <3>2. Lossless /\ ~Tearing => \A n \in WorkloadIds \ m.todo : m.buffer[n] # Absent
        BY <1>a, <1>c, <2>2, <3>1 DEF HoldsAll, Store
      <3>3. Lossless /\ ~Tearing => HoldsAll(m)
        BY <2>2, <3>2 DEF HoldsAll, Whole
      <3> QED
        BY <1>c, <1>d, <2>2, <3>3 DEF Refills, fabricVars
    <2> QED
      BY <1>g, <2>5, <2>6, <2>7
  <1>6. CASE SnapshotPut(o)
    <2>1. l.pc = "snapPut" /\ m.pc \in {"getSnapshot", "apply"} /\ UNCHANGED <<workloads, version>>
          /\ PutSnapshot(l.ownSnap, l.buffer)
      BY <1>6, <1>a DEF SnapshotPut
    <2>2. StaysApart
      BY <2>1 DEF StaysApart, CallApart
    <2>3. StoreHolds
      <3> SUFFICES ASSUME CallApart(o), Alone PROVE StoreStep
        BY DEF StoreHolds
      <3>1. snapshots' = [v \in DOMAIN snapshots \cup {version} |->
                            IF v = version THEN workloads ELSE snapshots[v]]
        BY <2>1 DEF PutSnapshot, CallApart
      <3>2. EffectiveStore = workloads /\ EffectiveStore' = workloads
            /\ EffectiveVersion = version /\ EffectiveVersion' = version
        BY <1>f, <2>1 DEF Restores
      <3> QED
        BY <3>1, <3>2 DEF StoreStep, Promise!Next, Promise!Save
    <2>4. LossHolds
      BY <1>c, <1>d, <2>1 DEF HoldsAll, Refills, PutSnapshot
    <2> QED
      BY <2>2, <2>3, <2>4
  <1>7. CASE Apply(o)
    <2> DEFINE w == workloads[l.target]
    <2>1. l.pc = "apply" /\ UNCHANGED fabricVars
      BY <1>7 DEF Apply
    <2>2. CASE w = Absent
      <3>1. exec' = [exec EXCEPT ![o] = [l EXCEPT !.pc = "getSnapshot", !.goal = l.ownSnap,
                                                  !.outcome = "Failed"]]
        BY <1>7, <2>2 DEF Apply
      <3>2. m.pc = "getSnapshot"
        BY <1>a, <3>1
      <3> QED
        BY <1>q, <2>1, <3>2 DEF Inside
    <2>3. CASE w # Absent
      <3>1. PICK s \in {"sync", "insert"} :
              exec' = [exec EXCEPT ![o] = [l EXCEPT !.copy = Effect(o, w), !.pc = s]]
        BY <1>7, <2>3 DEF Apply
      <3>2. m.pc = s /\ m.copy = Effect(o, w) /\ m.target = l.target /\ m.kind = l.kind
        BY <1>a, <3>1
      <3>3. Effect(o, w)' = Effect(o, w)
        BY <2>1, <3>2 DEF Effect, RaisesReplicas, fabricVars
      <3>4. StaysApart
        BY <2>1, <2>3, <3>2, <3>3 DEF StaysApart, CallApart, fabricVars
      <3>5. Alike
        BY <2>1, <3>2 DEF Restores, fabricVars
      <3>6. LossHolds
        BY <1>c, <1>d, <2>1, <3>2 DEF HoldsAll, Refills, fabricVars
      <3> QED
        BY <1>g, <3>4, <3>5, <3>6
    <2> QED
      BY <2>2, <2>3
  <1>8. CASE SyncDeployment(o)
    <2>1. l.pc = "sync" /\ m.pc = "insert" /\ m.copy = l.copy /\ m.target = l.target
          /\ m.kind = l.kind /\ UNCHANGED fabricVars
      BY <1>8, <1>a DEF SyncDeployment
    <2>2. StaysApart
      BY <2>1 DEF StaysApart, CallApart, Effect, RaisesReplicas, fabricVars
    <2>3. Alike
      BY <2>1 DEF Restores, fabricVars
    <2>4. LossHolds
      BY <1>c, <1>d, <2>1 DEF HoldsAll, Refills, fabricVars
    <2> QED
      BY <1>g, <2>2, <2>3, <2>4
  <1>9. CASE CommitInsert(o)
    <2> DEFINE w == workloads[l.target]
    <2>1. l.pc = "insert" /\ m.pc = "bump" /\ l.target \in WorkloadIds /\ l.copy \in Workload
          /\ workloads' = [workloads EXCEPT ![l.target] = l.copy]
          /\ UNCHANGED <<version, snapshots>>
      BY <1>9, <1>a DEF CommitInsert, InsertWorkload
    <2>2. workloads'[l.target] = l.copy /\ l.copy # Absent
      BY <1>a, <2>1, AbsentIsNoWorkload DEF Store
    <2>3. StaysApart
      BY <2>1 DEF StaysApart, CallApart
    <2>4. StoreHolds
      <3> SUFFICES ASSUME CallApart(o), Alone PROVE StoreStep
        BY DEF StoreHolds
      <3>1. /\ EffectiveStore = workloads /\ EffectiveStore' = workloads'
            /\ EffectiveVersion = version /\ EffectiveVersion' = version + 1
        BY <1>f, <2>1 DEF Restores
      <3>2. w # Absent /\ l.copy = Effect(o, w)
        BY <2>1 DEF CallApart
      <3>3. w \in Workload
        BY <1>a, <2>1, <3>2, PresentTypes
      <3>4. Promise!Changed(w, l.copy, o)
        BY <3>2, <3>3, ReplicaBound DEF Promise!Changed, Effect, RaisesReplicas, Workload
      <3>5. Promise!Mutate(l.target, o)
        BY <2>1, <2>2, <3>1, <3>2, <3>4 DEF Promise!Mutate
      <3>6. l.target \in WorkloadIds /\ o \in Writers
        BY <2>1, OpsAreWriters
      <3> QED
        BY <3>5, <3>6 DEF StoreStep, Promise!Next
    <2>5. LossHolds
      <3>1. \A id \in WorkloadIds : workloads'[id] = Absent => workloads[id] = Absent
        BY <1>a, <2>1, <2>2 DEF Store
      <3> QED
        BY <1>c, <1>d, <2>1, <3>1 DEF HoldsAll, Refills
    <2> QED
      BY <2>3, <2>4, <2>5
  <1>10. CASE CommitIncrement(o)
    <2>1. l.pc = "bump" /\ m.pc = "append" /\ version' = version + 1
          /\ UNCHANGED <<workloads, snapshots>>
      BY <1>10, <1>a DEF CommitIncrement, IncrementVersion
    <2>2. StaysApart
      BY <2>1 DEF StaysApart, CallApart
    <2>3. Alike
      BY <2>1 DEF Restores
    <2>4. LossHolds
      BY <1>c, <1>d, <2>1 DEF HoldsAll, Refills
    <2> QED
      BY <1>g, <2>2, <2>3, <2>4
  <1>11. CASE GetSnapshot(o)
    <2>1. l.pc = "getSnapshot" /\ UNCHANGED fabricVars
      BY <1>11 DEF GetSnapshot
    <2>2. CASE l.goal \in DOMAIN snapshots
      <3>1. m.pc = "clear" /\ m.buffer = snapshots[l.goal] /\ m.goal = l.goal
            /\ m.todo = WorkloadIds
        <4>1. exec' = [exec EXCEPT ![o] = [l EXCEPT !.pc = "clear", !.todo = WorkloadIds,
                                                    !.buffer = snapshots[l.goal]]]
          BY <1>11, <2>2 DEF GetSnapshot
        <4> QED
          BY <1>a, <4>1
      <3>2. StaysApart
        BY <3>1 DEF StaysApart, CallApart
      <3>3. StoreHolds
        <4> SUFFICES ASSUME CallApart(o), Alone PROVE StoreStep
          BY DEF StoreHolds
        <4>1. /\ EffectiveStore' = snapshots[l.goal] /\ EffectiveVersion' = l.goal
              /\ snapshots' = snapshots
          BY <1>f, <2>1, <3>1 DEF Restores, fabricVars
        <4>2. Promise!Restore(l.goal)
          BY <2>2, <4>1 DEF Promise!Restore
        <4> QED
          BY <2>2, <4>2 DEF StoreStep, Promise!Next
      <3>4. LossHolds
        BY <1>c, <1>d, <2>1, <2>2, <3>1 DEF HoldsAll, Refills, fabricVars
      <3> QED
        BY <3>2, <3>3, <3>4
    <2>3. CASE l.goal \notin DOMAIN snapshots
      <3>1. exec' = [exec EXCEPT ![o] = [l EXCEPT !.pc = "getSnapshot", !.goal = l.ownSnap,
                                                  !.outcome = "Failed"]]
        BY <1>11, <2>3 DEF GetSnapshot
      <3>2. m.pc = "getSnapshot"
        BY <1>a, <3>1
      <3> QED
        BY <1>q, <2>1, <3>2 DEF Inside
    <2> QED
      BY <2>2, <2>3
  <1>12. CASE RestoreClear(o)
    <2>1. l.pc = "clear" /\ UNCHANGED <<version, snapshots>>
      BY <1>12 DEF RestoreClear
    <2>2. PICK id \in l.todo :
            /\ workloads' = [workloads EXCEPT ![id] = Absent]
            /\ exec' = IF l.todo # {id}
                         THEN [exec EXCEPT ![o] = [l EXCEPT !.todo = @ \ {id}]]
                         ELSE [exec EXCEPT ![o] =
                                 [l EXCEPT !.todo = Held(l.buffer),
                                           !.pc = IF Held(l.buffer) = {}
                                                    THEN "resetVersion" ELSE "refill"]]
      BY <1>12 DEF RestoreClear, ClearWorkload
    <2>3. /\ m.buffer = l.buffer /\ m.goal = l.goal
          /\ IF l.todo # {id}
               THEN m.pc = "clear" /\ m.todo = l.todo \ {id}
               ELSE /\ m.pc = IF Held(l.buffer) = {} THEN "resetVersion" ELSE "refill"
                    /\ m.todo = Held(l.buffer)
      <3>1. CASE l.todo # {id}
        BY <1>a, <2>1, <2>2, <3>1
      <3>2. CASE l.todo = {id}
        BY <1>a, <2>2, <3>2
      <3> QED
        BY <3>1, <3>2
    <2>4. StaysApart
      <3> SUFFICES ASSUME CallApart(o) PROVE CallApart(o)'
        BY DEF StaysApart
      <3>1. \A n \in WorkloadIds \ (l.todo \ {id}) : workloads'[n] = Absent
        BY <1>a, <2>1, <2>2 DEF CallApart, Store
      <3>2. \A n \in WorkloadIds \ Held(l.buffer) : l.buffer[n] = Absent
        BY DEF Held
      <3>3. l.todo = {id} /\ Held(l.buffer) = {} => workloads' = l.buffer
        <4> SUFFICES ASSUME l.todo = {id}, Held(l.buffer) = {} PROVE workloads' = l.buffer
          OBVIOUS
        <4>1. workloads' = [n \in WorkloadIds |-> workloads'[n]]
          BY <1>a, <2>2 DEF Store
        <4>2. l.buffer = [n \in WorkloadIds |-> l.buffer[n]]
          BY <1>a DEF Store
        <4>3. \A n \in WorkloadIds : workloads'[n] = l.buffer[n]
          BY <3>1, <3>2
        <4> QED
          BY <4>1, <4>2, <4>3
      <3> QED
        BY <2>3, <3>1, <3>2, <3>3 DEF CallApart
    <2>5. Alike
      BY <2>1, <2>3 DEF Restores
    <2>6. LossHolds
      <3>1. Lossless => Whole(l.buffer) /\ Held(l.buffer) = WorkloadIds /\ WorkloadIds # {}
        BY <1>a, <1>c, <2>1, <2>2 DEF HoldsAll, Held, Whole
      <3>2. Lossless => HoldsAll(m) /\ \A n \in WorkloadIds : Refills(m, n)
        BY <2>3, <3>1 DEF HoldsAll, Refills
      <3> QED
        BY <1>c, <1>d, <2>1, <3>2
    <2> QED
      BY <1>g, <2>4, <2>5, <2>6
  <1>13. CASE RestoreInsert(o)
    <2>1. l.pc = "refill" /\ UNCHANGED <<version, snapshots>>
      BY <1>13 DEF RestoreInsert
    <2>2. PICK id \in l.todo :
            /\ workloads' = [workloads EXCEPT ![id] = l.buffer[id]]
            /\ exec' = [exec EXCEPT ![o] =
                          [l EXCEPT !.todo = @ \ {id},
                                    !.pc = IF l.todo = {id} THEN "resetVersion" ELSE "refill"]]
      BY <1>13 DEF RestoreInsert, InsertWorkload
    <2>3. /\ m.buffer = l.buffer /\ m.goal = l.goal /\ m.todo = l.todo \ {id}
          /\ m.pc = IF l.todo = {id} THEN "resetVersion" ELSE "refill"
      BY <1>a, <2>1, <2>2
    <2>4. StaysApart
      <3> SUFFICES ASSUME CallApart(o) PROVE CallApart(o)'
        BY DEF StaysApart
      <3>1. \A n \in WorkloadIds \ m.todo : workloads'[n] = l.buffer[n]
        BY <1>a, <2>1, <2>2, <2>3 DEF CallApart, Store
      <3>2. l.todo = {id} => workloads' = l.buffer
        <4>1. workloads' = [n \in WorkloadIds |-> workloads'[n]]
          BY <1>a, <2>2 DEF Store
        <4>2. l.buffer = [n \in WorkloadIds |-> l.buffer[n]]
          BY <1>a DEF Store
        <4>3. l.todo = {id} => \A n \in WorkloadIds : workloads'[n] = l.buffer[n]
          BY <2>3, <3>1
        <4> QED
          BY <4>1, <4>2, <4>3
      <3> QED
        BY <2>3, <3>1, <3>2 DEF CallApart
    <2>5. Alike
      BY <2>1, <2>3 DEF Restores
    <2>6. LossHolds
      <3>1. Lossless => Whole(l.buffer)
        BY <1>c, <2>1 DEF HoldsAll
      <3>2. Lossless => HoldsAll(m)
        BY <2>3, <3>1 DEF HoldsAll
      <3>3. Lossless => \A n \in WorkloadIds :
              workloads'[n] = Absent => n # id /\ workloads[n] = Absent
        BY <1>a, <2>2, <3>1 DEF Whole, Store
      <3>4. \A n \in WorkloadIds : n # id => Refills(m, n) \/ ~Refills(l, n)
        BY <2>1, <2>3 DEF Refills
      <3> QED
        BY <1>c, <1>d, <2>1, <3>2, <3>3, <3>4
    <2> QED
      BY <1>g, <2>4, <2>5, <2>6
  <1>14. CASE RestoreVersion(o)
    <2>1. l.pc = "resetVersion" /\ m.pc \in {"append", "list"} /\ version' = l.goal
          /\ UNCHANGED <<workloads, snapshots>>
      BY <1>14, <1>a DEF RestoreVersion, ResetVersion
    <2>2. StaysApart
      BY <2>1 DEF StaysApart, CallApart
    <2>3. CallApart(o) => Alike
      BY <2>1 DEF Restores, CallApart
    <2>4. StoreHolds
      BY <1>g, <2>3 DEF StoreHolds
    <2>5. LossHolds
      BY <1>c, <1>d, <2>1 DEF HoldsAll, Refills
    <2> QED
      BY <2>2, <2>4, <2>5
  <1>15. CASE ListRestored(o)
    <2> DEFINE listed(id) == [l.buffer EXCEPT ![id] = workloads[id]]
    <2>1. l.pc = "list" /\ UNCHANGED fabricVars
      BY <1>15 DEF ListRestored
    <2>2. PICK id \in l.todo :
            exec' = [exec EXCEPT ![o] =
                       IF l.todo # {id}
                         THEN [l EXCEPT !.buffer = listed(id), !.todo = @ \ {id}]
                         ELSE [l EXCEPT !.buffer = listed(id), !.todo = Held(listed(id)),
                                        !.pc = "scale"]]
      BY <1>15 DEF ListRestored
    <2> HIDE DEF listed
    <2>3. m.pc \in {"list", "scale"}
      BY <1>a, <2>1, <2>2, ZenonT(60)
    <2> QED
      BY <1>q, <2>1, <2>3 DEF Inside
  <1>16. CASE ScaleRestored(o) \/ RollbackDone(o)
    <2>1. l.pc = "scale" /\ m.pc \in {"scale", "append"} /\ UNCHANGED fabricVars
      <3>1. CASE ScaleRestored(o)
        BY <1>a, <3>1 DEF ScaleRestored
      <3>2. CASE RollbackDone(o)
        BY <1>a, <3>2 DEF RollbackDone
      <3> QED
        BY <1>16, <3>1, <3>2
    <2> QED
      BY <1>q, <2>1 DEF Inside
  <1> HIDE DEF At, Become, Goto, Conclude, FailApply
  <1> QED
    BY <1>1, <1>2, <1>3, <1>4, <1>5, <1>6, <1>7, <1>8, <1>9, <1>10, <1>11, <1>12, <1>13, <1>14,
       <1>15, <1>16 DEF Execute

(***************************************************************************)
(* A step of a payment event, in the same three respects.                  *)
(***************************************************************************)
LEMMA EventStep ==
  ASSUME TypeOK, NEW e \in Events, Ingest(e), UNCHANGED gatewayVars
  PROVE  /\ \A f \in Events \ {e} : ingest'[f] = ingest[f]
         /\ EventApart(e) => EventApart(e)'
         /\ EventApart(e) /\ Acting \subseteq {e} /\ Acting' \subseteq {e} => StoreStep
         /\ Lossless => Lossless'
  <1> DEFINE l == ingest[e]
             m == ingest'[e]
             Others == \A f \in Events \ {e} : ingest'[f] = ingest[f]
             Told(c, v) == IF c.pc = "bump" THEN v + 1 ELSE v
             Alone == Acting \subseteq {e} /\ Acting' \subseteq {e}
             StaysApart == EventApart(e) => EventApart(e)'
             StoreHolds == EventApart(e) /\ Alone => StoreStep
             LossHolds == Lossless => Lossless'
  <1>a. /\ DOMAIN ingest = Events
        /\ \A f \in Events : DOMAIN ingest[f] = {"pc", "target", "copy"}
        /\ workloads \in Store /\ version \in Nat
        /\ l.pc = "insert" => l.target \in WorkloadIds
    BY DEF TypeOK, FabricTypeOK, IngestTypeOK
  <1>b. exec' = exec
    BY DEF gatewayVars
  <1>d. ASSUME Others, Lossless => (m.pc = "insert" => m.copy # Absent), UNCHANGED snapshots,
               Lossless => \A id \in WorkloadIds : workloads'[id] = Absent => workloads[id] = Absent
        PROVE  LossHolds
    <2> SUFFICES ASSUME Lossless PROVE Lossless'
      OBVIOUS
    <2>1. \A q \in Ops : HoldsAll(exec[q])'
      BY <1>b DEF Lossless, HoldsAll, Whole
    <2>2. \A id \in WorkloadIds : workloads'[id] = Absent => \E q \in Ops : Refills(exec[q], id)'
      BY <1>b, <1>d DEF Lossless, Refills
    <2>3. \A f \in Events : ingest'[f].pc = "insert" => ingest'[f].copy # Absent
      BY <1>d DEF Lossless
    <2>4. \A v \in DOMAIN snapshots' : Whole(snapshots[v])'
      BY <1>d DEF Lossless, Whole
    <2> QED
      BY <2>1, <2>2, <2>3, <2>4 DEF Lossless
  <1>f. ASSUME Others
        PROVE  Alone => /\ EffectiveStore = workloads /\ EffectiveStore' = workloads'
                        /\ EffectiveVersion = Told(l, version)
                        /\ EffectiveVersion' = Told(m, version')
    <2> SUFFICES ASSUME Alone
                 PROVE  /\ EffectiveStore = workloads /\ EffectiveStore' = workloads'
                        /\ EffectiveVersion = Told(l, version)
                        /\ EffectiveVersion' = Told(m, version')
      OBVIOUS
    <2>0. e \notin Ops
      BY CallsAreNoEvents
    <2>1. \A o \in Ops : exec[o].pc \notin Inside
      BY <2>0 DEF Acting
    <2>2. Restoring = {} /\ Restoring' = {}
      BY <1>b, <2>1 DEF Restoring, Inside
    <2>3. \A f \in Events \ {e} : ingest[f].pc # "bump"
      BY DEF Acting, Ingesting
    <2>4. (Upserting <=> l.pc = "bump") /\ (Upserting' <=> m.pc = "bump")
      BY <1>b, <1>f, <2>1, <2>3 DEF Upserting, At, Inside
    <2> QED
      BY <2>2, <2>4 DEF EffectiveStore, EffectiveVersion
  <1> SUFFICES Others /\ StaysApart /\ StoreHolds /\ LossHolds
    OBVIOUS
  <1> HIDE DEF StaysApart, StoreHolds, LossHolds, Alone
  <1>1. CASE ReadMatching(e)
    <2>1. Others /\ l.pc = "idle" /\ m.pc \in {"insert", "done"} /\ UNCHANGED fabricVars
          /\ (m.pc = "insert" =>
                /\ m.target \in Present
                /\ m.copy = [workloads[m.target] EXCEPT !.writes = @ \cup {e}])
      <3>1. CASE ingest' = [ingest EXCEPT ![e].pc = "done"]
        BY <1>1, <1>a, <3>1 DEF ReadMatching
      <3>2. ASSUME NEW id \in Present,
                   ingest' = [ingest EXCEPT ![e] =
                                [pc   |-> "insert", target |-> id,
                                 copy |-> [workloads[id] EXCEPT !.writes = @ \cup {e}]]]
            PROVE  /\ Others /\ m.pc = "insert" /\ m.target \in Present
                   /\ m.copy = [workloads[m.target] EXCEPT !.writes = @ \cup {e}]
        BY <1>a, <3>2
      <3> QED
        BY <1>1, <3>1, <3>2 DEF ReadMatching
    <2>2. StaysApart
      BY <2>1 DEF StaysApart, EventApart, Present, Held, fabricVars
    <2>3. StoreHolds
      BY <1>f, <2>1 DEF StoreHolds, StoreStep, Promise!storeVars, fabricVars
    <2>4. m.pc = "insert" => m.copy # Absent
      <3> SUFFICES ASSUME m.pc = "insert" PROVE m.copy # Absent
        OBVIOUS
      <3> DEFINE w == workloads[m.target]
      <3>1. w \in Workload
        BY <1>a, <2>1, PresentTypes DEF Present, Held
      <3>2. [w EXCEPT !.writes = @ \cup {e}] \in Workload
        BY <3>1, EventsAreWriters DEF Workload
      <3> QED
        BY <2>1, <3>2, AbsentIsNoWorkload
    <2>5. LossHolds
      BY <1>d, <2>1, <2>4 DEF fabricVars
    <2> QED
      BY <2>1, <2>2, <2>3, <2>5
  <1>2. CASE UpsertInsert(e)
    <2> DEFINE w == workloads[l.target]
    <2>1. Others /\ l.pc = "insert" /\ m.pc = "bump" /\ l.target \in WorkloadIds
          /\ workloads' = [workloads EXCEPT ![l.target] = l.copy]
          /\ UNCHANGED <<version, snapshots>>
      BY <1>2, <1>a DEF UpsertInsert, InsertWorkload
    <2>2. workloads'[l.target] = l.copy
      BY <1>a, <2>1 DEF Store
    <2>3. StaysApart
      BY <2>1 DEF StaysApart, EventApart
    <2>4. StoreHolds
      <3> SUFFICES ASSUME EventApart(e), Alone PROVE StoreStep
        BY DEF StoreHolds
      <3>1. w # Absent /\ w \in Workload /\ l.copy = [w EXCEPT !.writes = @ \cup {e}]
        BY <1>a, <2>1, PresentTypes DEF EventApart
      <3>2. /\ l.copy \in Workload /\ l.copy.replicas = w.replicas /\ l.copy.ver = w.ver
            /\ l.copy.writes = w.writes \cup {e}
        BY <3>1, EventsAreWriters DEF Workload
      <3>3. Promise!Changed(w, l.copy, e) /\ l.copy # Absent
        BY <3>1, <3>2, AbsentIsNoWorkload DEF Promise!Changed, Workload
      <3>4. /\ EffectiveStore = workloads /\ EffectiveStore' = workloads'
            /\ EffectiveVersion = version /\ EffectiveVersion' = version + 1
        BY <1>f, <2>1
      <3>5. Promise!Mutate(l.target, e)
        BY <2>1, <2>2, <3>1, <3>3, <3>4 DEF Promise!Mutate
      <3> QED
        BY <2>1, <3>5, EventsAreWriters DEF StoreStep, Promise!Next
    <2>5. LossHolds
      <3>1. Lossless => l.copy # Absent
        BY <2>1 DEF Lossless
      <3>2. Lossless =>
              \A id \in WorkloadIds : workloads'[id] = Absent => workloads[id] = Absent
        BY <1>a, <2>1, <3>1 DEF Store
      <3> QED
        BY <1>d, <2>1, <3>2
    <2> QED
      BY <2>1, <2>3, <2>4, <2>5
  <1>3. CASE UpsertIncrement(e)
    <2>1. Others /\ l.pc = "bump" /\ m.pc = "done" /\ version' = version + 1
          /\ UNCHANGED <<workloads, snapshots>>
      BY <1>3, <1>a DEF UpsertIncrement, IncrementVersion
    <2>2. StaysApart
      BY <2>1 DEF StaysApart, EventApart
    <2>3. StoreHolds
      BY <1>f, <2>1 DEF StoreHolds, StoreStep, Promise!storeVars
    <2>4. LossHolds
      BY <1>d, <2>1
    <2> QED
      BY <2>1, <2>2, <2>3, <2>4
  <1> QED
    BY <1>1, <1>2, <1>3 DEF Ingest

\* Only a call inside an operation changes the fabric.
LEMMA OutsideKeepsFabric ==
  ASSUME NEW o \in Ops, Propose(o) \/ Execute(o), exec[o].pc \notin Inside
  PROVE  UNCHANGED fabricVars
  BY DEF Inside, At, Propose, Execute, EvaluateCap, EvaluateStale, OpenAudit, VerifyVersion,
         VerifyWorkload, CommitCheck, SnapshotVersion, SnapshotCopy, SnapshotPut, Apply,
         SyncDeployment, CommitInsert, CommitIncrement, GetSnapshot, RestoreClear, RestoreInsert,
         RestoreVersion, ListRestored, ScaleRestored, RollbackDone, AppendAudit

\* A step beside an operation under way, by somebody who is inside none before or after it:
\* the versioned store does not see it.
LEMMA BystanderStep ==
  ASSUME UNCHANGED fabricVars, Acting' = Acting,
         \A q \in Ops \cap Acting : exec'[q] = exec[q],
         \A e \in Ingesting : ingest'[e] = ingest[e]
  PROVE  StoreStep
  <1>1. Restoring' = Restoring
    BY DEF Restoring, Acting, Inside, Ingesting
  <1>2. Upserting' = Upserting
    BY CallsAreNoEvents DEF Upserting, Acting, Inside, Ingesting, At
  <1>3. Restoring # {} => (CHOOSE q \in Restoring : TRUE) \in Restoring
    OBVIOUS
  <1>4. \A q \in Restoring : exec'[q] = exec[q]
    BY DEF Restoring, Acting, Inside
  <1>5. EffectiveStore' = EffectiveStore
    BY <1>1, <1>3, <1>4 DEF EffectiveStore, fabricVars
  <1>6. EffectiveVersion' = EffectiveVersion
    BY <1>1, <1>2, <1>3, <1>4 DEF EffectiveVersion, fabricVars
  <1> QED
    BY <1>5, <1>6 DEF StoreStep, Promise!storeVars, fabricVars

\* Whoever is still inside an operation that has met no other saw nothing of a step that
\* somebody else took: nobody else is inside one.
LEMMA UnspoiledSawNothing ==
  ASSUME ApartInv, Record, NEW a, NEW b \in Acting, a # b, b \in Acting', b \notin spoiled'
  PROVE  a \notin Acting /\ a \notin Acting' /\ b \notin spoiled
  <1>1. ~Meeting'
    BY DEF Record
  <1>2. b \notin spoiled
    BY <1>1 DEF Record
  <1>3. ~Meeting
    BY <1>2 DEF ApartInv
  <1>4. a \notin Acting'
    BY <1>1 DEF Meeting
  <1> QED
    BY <1>2, <1>3, <1>4 DEF Meeting

LEMMA RecordKeeps ==
  ASSUME Record
  PROVE  spoiled' \subseteq Acting' /\ (Meeting' => Acting' \subseteq spoiled')
  BY DEF Record

LEMMA UndisturbedMeetsNobody ==
  ASSUME ApartInv, Record, Undisturbed
  PROVE  ~Meeting /\ ~Meeting'
  <1>1. Meeting => Acting # {}
    BY DEF Meeting
  <1>2. Meeting' => Acting' # {}
    BY DEF Meeting
  <1> QED
    BY <1>1, <1>2, RecordKeeps DEF ApartInv, Undisturbed

\* A call's step, with the record of who has met whom: what is exact stays exact, the
\* versioned store takes the undisturbed steps, and no workload is lost.
LEMMA CallKeepsApart ==
  ASSUME TypeOK, ApartInv, NEW o \in Ops, Propose(o) \/ Execute(o), UNCHANGED ingest, Record
  PROVE  /\ ApartInv'
         /\ Undisturbed => StoreStep
         /\ LossInv => LossInv'
  <1>1. \A q \in Ops \ {o} : exec'[q] = exec[q]
    BY OthersKept
  <1>2. \A b : b # o => (b \in Acting <=> b \in Acting')
    BY <1>1 DEF Acting, Ingesting
  <1>3. \A b \in Acting : b # o /\ b \notin spoiled' => UNCHANGED fabricVars /\ b \notin spoiled
    <2> SUFFICES ASSUME NEW b \in Acting, b # o, b \notin spoiled'
                 PROVE  UNCHANGED fabricVars /\ b \notin spoiled
      OBVIOUS
    <2>1. o \notin Acting /\ b \notin spoiled
      BY <1>2, UnspoiledSawNothing
    <2> QED
      BY <2>1, OutsideKeepsFabric DEF Acting
  <1>4. \A q \in Ops : q \notin spoiled' => CallApart(q)'
    <2> SUFFICES ASSUME NEW q \in Ops, q \notin spoiled' PROVE CallApart(q)'
      OBVIOUS
    <2>1. CASE exec'[q].pc \notin Inside
      BY <2>1 DEF CallApart, Inside
    <2>2. CASE exec'[q].pc \in Inside /\ q = o
      <3>1. o \in Acting'
        BY <2>2 DEF Acting
      <3>2. o \notin spoiled
        BY <2>2, <3>1 DEF Record
      <3> QED
        BY <2>2, <3>2, CallStep DEF ApartInv
    <2>3. CASE exec'[q].pc \in Inside /\ q # o
      <3>1. exec'[q] = exec[q] /\ q \in Acting
        BY <1>1, <2>3 DEF Acting
      <3>2. UNCHANGED fabricVars /\ CallApart(q)
        BY <1>3, <2>3, <3>1 DEF ApartInv
      <3> QED
        BY <3>1, <3>2 DEF CallApart, Effect, RaisesReplicas, fabricVars
    <2> QED
      BY <2>1, <2>2, <2>3
  <1>5. \A e \in Events : e \notin spoiled' => EventApart(e)'
    <2> SUFFICES ASSUME NEW e \in Events, e \notin spoiled', ingest[e].pc = "insert"
                 PROVE  EventApart(e)'
      BY DEF EventApart
    <2>1. e \in Acting /\ e # o
      BY CallsAreNoEvents DEF Acting, Ingesting
    <2>2. UNCHANGED fabricVars /\ EventApart(e)
      BY <1>3, <2>1 DEF ApartInv
    <2> QED
      BY <2>2 DEF EventApart, fabricVars
  <1>6. ApartInv'
    <2>1. \A q \in (Ops \ spoiled)' : CallApart(q)'
      BY <1>4
    <2>2. \A e \in (Events \ spoiled)' : EventApart(e)'
      BY <1>5
    <2> QED
      BY <2>1, <2>2, RecordKeeps DEF ApartInv
  <1>7. ASSUME Undisturbed PROVE StoreStep
    <2>1. ~Meeting /\ ~Meeting' /\ CallApart(o)
      BY <1>7, UndisturbedMeetsNobody DEF Undisturbed, ApartInv
    <2>2. CASE Acting \subseteq {o}
      <3>1. Ingesting = {}
        BY <2>2, CallsAreNoEvents DEF Acting, Ingesting
      <3>2. Acting' \subseteq {o}
        BY <1>2, <2>2
      <3> QED
        BY <2>1, <2>2, <3>1, <3>2, CallStep
    <2>3. CASE ~(Acting \subseteq {o})
      <3>1. o \notin Acting /\ o \notin Acting'
        BY <1>2, <2>1, <2>3 DEF Meeting
      <3>2. Acting' = Acting
        BY <1>2, <3>1
      <3>3. UNCHANGED fabricVars
        BY <3>1, OutsideKeepsFabric DEF Acting
      <3>4. \A q \in Ops \cap Acting : exec'[q] = exec[q]
        BY <1>1, <3>1
      <3> QED
        BY <3>2, <3>3, <3>4, BystanderStep
    <2> QED
      BY <2>2, <2>3
  <1>8. ASSUME LossInv PROVE LossInv'
    <2> SUFFICES ASSUME ~torn' PROVE Lossless' /\ ~Tearing'
      BY DEF LossInv
    <2>1. ~torn /\ ~Tearing'
      BY DEF Record
    <2> QED
      BY <1>8, <2>1, CallStep DEF LossInv
  <1> QED
    BY <1>6, <1>7, <1>8

\* The same of a payment event's step.
LEMMA EventKeepsApart ==
  ASSUME TypeOK, ApartInv, NEW e \in Events, Ingest(e), UNCHANGED gatewayVars, Record
  PROVE  /\ ApartInv'
         /\ Undisturbed => StoreStep
         /\ LossInv => LossInv'
  <1>1. exec' = exec /\ e \notin Ops /\ \A f \in Events \ {e} : ingest'[f] = ingest[f]
    BY EventStep, CallsAreNoEvents DEF gatewayVars
  <1>2. \A b : b # e => (b \in Acting <=> b \in Acting')
    BY <1>1 DEF Acting, Ingesting
  <1>o. e \notin Acting => UNCHANGED fabricVars
    BY DEF Ingest, ReadMatching, UpsertInsert, UpsertIncrement, Acting, Ingesting
  <1>3. \A b \in Acting : b # e /\ b \notin spoiled' => UNCHANGED fabricVars /\ b \notin spoiled
    <2> SUFFICES ASSUME NEW b \in Acting, b # e, b \notin spoiled'
                 PROVE  UNCHANGED fabricVars /\ b \notin spoiled
      OBVIOUS
    <2>1. e \notin Acting /\ b \notin spoiled
      BY <1>2, UnspoiledSawNothing
    <2> QED
      BY <1>o, <2>1
  <1>4. \A q \in Ops : q \notin spoiled' => CallApart(q)'
    <2> SUFFICES ASSUME NEW q \in Ops, q \notin spoiled' PROVE CallApart(q)'
      OBVIOUS
    <2>1. CASE exec'[q].pc \notin Inside
      BY <2>1 DEF CallApart, Inside
    <2>2. CASE exec'[q].pc \in Inside
      <3>1. q \in Acting /\ q # e
        BY <1>1, <2>2 DEF Acting
      <3>2. UNCHANGED fabricVars /\ CallApart(q)
        BY <1>3, <3>1 DEF ApartInv
      <3> QED
        BY <1>1, <3>2 DEF CallApart, Effect, RaisesReplicas, fabricVars
    <2> QED
      BY <2>1, <2>2
  <1>5. \A f \in Events : f \notin spoiled' => EventApart(f)'
    <2> SUFFICES ASSUME NEW f \in Events, f \notin spoiled', ingest'[f].pc = "insert"
                 PROVE  EventApart(f)'
      BY DEF EventApart
    <2>1. f \in Acting'
      BY DEF Acting, Ingesting
    <2>2. CASE f = e
      <3>1. f \notin spoiled
        BY <2>1 DEF Record
      <3> QED
        BY <2>2, <3>1, EventStep DEF ApartInv
    <2>3. CASE f # e
      <3>1. f \in Acting
        BY <1>2, <2>1, <2>3
      <3>2. UNCHANGED fabricVars /\ EventApart(f)
        BY <1>3, <2>3, <3>1 DEF ApartInv
      <3> QED
        BY <1>1, <2>3, <3>2 DEF EventApart, fabricVars
    <2> QED
      BY <2>2, <2>3
  <1>6. ApartInv'
    <2>1. \A q \in (Ops \ spoiled)' : CallApart(q)'
      BY <1>4
    <2>2. \A f \in (Events \ spoiled)' : EventApart(f)'
      BY <1>5
    <2> QED
      BY <2>1, <2>2, RecordKeeps DEF ApartInv
  <1>7. ASSUME Undisturbed PROVE StoreStep
    <2>1. ~Meeting /\ ~Meeting' /\ EventApart(e)
      BY <1>7, UndisturbedMeetsNobody DEF Undisturbed, ApartInv
    <2>2. CASE Acting \subseteq {e}
      <3>1. Acting' \subseteq {e}
        BY <1>2, <2>2
      <3> QED
        BY <2>1, <2>2, <3>1, EventStep
    <2>3. CASE ~(Acting \subseteq {e})
      <3>1. e \notin Acting /\ e \notin Acting'
        BY <1>2, <2>1, <2>3 DEF Meeting
      <3>2. Acting' = Acting
        BY <1>2, <3>1
      <3>3. \A f \in Ingesting : ingest'[f] = ingest[f]
        BY <1>1, <3>1 DEF Acting, Ingesting
      <3> QED
        BY <1>1, <1>o, <3>1, <3>2, <3>3, BystanderStep
    <2> QED
      BY <2>2, <2>3
  <1>8. ASSUME LossInv PROVE LossInv'
    <2> SUFFICES ASSUME ~torn' PROVE Lossless' /\ ~Tearing'
      BY DEF LossInv
    <2>1. ~torn /\ ~Tearing'
      BY DEF Record
    <2> QED
      BY <1>8, <2>1, EventStep DEF LossInv
  <1> QED
    BY <1>6, <1>7, <1>8

\* A step of the control plane, or none.
LEMMA StepApart ==
  ASSUME TypeOK, ApartInv, [OverlapNext]_<<vars, history>>
  PROVE  /\ ApartInv'
         /\ [Undisturbed => Promise!Next \/ UNCHANGED Promise!storeVars]_<<vars, history>>
         /\ LossInv => LossInv'
  <1>1. CASE UNCHANGED <<vars, history>>
    <2>1. UNCHANGED <<workloads, version, snapshots, exec, ingest, spoiled, torn>>
      BY <1>1 DEF vars, history, fabricVars, gatewayVars
    <2>2. ApartInv'
      BY <2>1 DEF ApartInv, CallApart, EventApart, Effect, RaisesReplicas, Meeting, Acting,
                  Ingesting
    <2>3. LossInv => LossInv'
      BY <2>1 DEF LossInv, Lossless, Tearing, Rebuilding, At, HoldsAll, Whole, Refills
    <2> QED
      BY <1>1, <2>2, <2>3
  <1>2. CASE OverlapNext
    <2>1. ASSUME NEW o \in Ops, Plan(o) \/ GatewayStep(o)
          PROVE  ApartInv' /\ (Undisturbed => StoreStep) /\ (LossInv => LossInv')
      BY <1>2, <2>1, CallKeepsApart DEF OverlapNext, Plan, GatewayStep
    <2>2. ASSUME NEW e \in Events, IngestStep(e)
          PROVE  ApartInv' /\ (Undisturbed => StoreStep) /\ (LossInv => LossInv')
      BY <1>2, <2>2, EventKeepsApart DEF OverlapNext, IngestStep
    <2> QED
      BY <1>2, <2>1, <2>2 DEF OverlapNext, Next, StoreStep
  <1> QED
    BY <1>1, <1>2

\* The history variables only watch: what holds of the control plane holds here.
LEMMA OverlapTypes == OverlapSpec => []TypeOK
  <1>1. OverlapInit => TypeOK
    BY InitTypes DEF OverlapInit
  <1>2. TypeOK /\ [OverlapNext]_<<vars, history>> => TypeOK'
    BY NextTypes DEF OverlapNext, vars
  <1> QED
    BY <1>1, <1>2, PTL DEF OverlapSpec

LEMMA ApartHolds == OverlapSpec => []ApartInv
  <1>1. OverlapInit => ApartInv
    BY InitApart
  <1>2. TypeOK /\ ApartInv /\ [OverlapNext]_<<vars, history>> => ApartInv'
    BY StepApart
  <1> QED
    BY <1>1, <1>2, OverlapTypes, PTL DEF OverlapSpec

\* However calls, rollbacks and payment events race, a workload falls out of the map only
\* through a snapshot that was copied while a restore rebuilt the map.
THEOREM LostOnlyWhenTorn == OverlapSpec => []LostOnlyThroughTornSnapshots
  <1>1. OverlapInit => LossInv
    BY InitApart
  <1>2. TypeOK /\ ApartInv /\ LossInv /\ [OverlapNext]_<<vars, history>> => LossInv'
    BY StepApart
  <1>3. LossInv => LostOnlyThroughTornSnapshots
    BY DEF LossInv, Lossless, Refills, Rebuilding, LostOnlyThroughTornSnapshots, Present, Held
  <1> QED
    BY <1>1, <1>2, <1>3, OverlapTypes, ApartHolds, PTL DEF OverlapSpec

\* Between operations that meet nobody and in the middle of those that do, every step
\* that leaves none under way having met another is a step of a versioned store or none:
\* an upsert that meets nobody loses no update, a snapshot that meets nobody is the map
\* under its version, a restore that meets nobody brings back both together.
THEOREM ApartIsVersioned == OverlapSpec => ApartImplementsVersionedStore
  <1>1. OverlapInit => Promise!Init
    BY InitApart
  <1>2. TypeOK /\ ApartInv /\ [OverlapNext]_<<vars, history>>
          => [Undisturbed => Promise!Next \/ UNCHANGED Promise!storeVars]_<<vars, history>>
    BY StepApart
  <1> QED
    BY <1>1, <1>2, OverlapTypes, ApartHolds, PTL DEF OverlapSpec, ApartImplementsVersionedStore

=============================================================================
