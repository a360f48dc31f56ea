---------------------------- MODULE StateFabric ----------------------------
(***************************************************************************)
(* The in-memory store of esa-state/src/fabric.rs: a DashMap of workloads, *)
(* one version counter behind its own lock, and snapshots keyed by the     *)
(* version that was read when they were taken.  No lock spans two of the   *)
(* three, so an operation of the fabric that touches two of them is two    *)
(* or more steps; this module gives the steps, and the modules that extend *)
(* it say who takes them and in which order.                               *)
(*                                                                         *)
(* Data: of a workload the model keeps what the control plane decides on   *)
(* (its replica count), the per-workload counter the gateway bumps, and,   *)
(* in place of metrics, region and state, the set of writers whose change  *)
(* the value contains.  A writer that computes its value from a read and   *)
(* inserts it later carries over what it read and nothing else, so the set *)
(* tells a preserved update from a lost one.                               *)
(***************************************************************************)
EXTENDS Naturals

CONSTANTS
  WorkloadIds,    \* keys of the workload map
  Writers,        \* everyone who may write a workload: executions and payment events
  MaxReplicas,    \* replication.max_replicas, which no code path changes
  FirstVersion,   \* the version after seeding: each seeded workload advanced it
  Absent          \* a key the map does not hold

ASSUME ReplicaBound == MaxReplicas \in Nat \ {0}
ASSUME SeededVersion == FirstVersion \in Nat \ {0}

Workload == [replicas : Nat, ver : Nat, writes : SUBSET Writers]

ASSUME AbsentIsNoWorkload == Absent \notin Workload
ASSUME AbsentIsNoId == Absent \notin WorkloadIds

Slot  == Workload \cup {Absent}
Store == [WorkloadIds -> Slot]

VARIABLES
  workloads,      \* the DashMap
  version,        \* the RwLock<u64>
  snapshots       \* the DashMap<u64, StateSnapshot>, a function on the versions it holds

fabricVars == <<workloads, version, snapshots>>

FabricTypeOK ==
  /\ workloads \in Store
  /\ version \in Nat
  /\ DOMAIN snapshots \subseteq Nat
  /\ \A v \in DOMAIN snapshots : snapshots[v] \in Store

FabricInit ==
  /\ workloads \in [WorkloadIds -> [replicas : 1..MaxReplicas, ver : {1}, writes : {{}}]]
  /\ version = FirstVersion
  /\ snapshots = [v \in {} |-> workloads]

EmptyStore == [id \in WorkloadIds |-> Absent]

\* The keys a copy of the map holds.
Held(s) == {id \in WorkloadIds : s[id] # Absent}

Present == Held(workloads)

\* Whose changes a stored value contains.
WritesIn(slot) == IF slot = Absent THEN {} ELSE slot.writes

-----------------------------------------------------------------------------
(* The steps.                                                              *)

\* First half of upsert_workload, and each insert of restore_snapshot.
InsertWorkload(id, w) == workloads' = [workloads EXCEPT ![id] = w]

\* Second half of upsert_workload: increment_version.
IncrementVersion == version' = version + 1

\* DashMap::clear empties the map shard by shard, each under its own lock.
ClearWorkload(id) == workloads' = [workloads EXCEPT ![id] = Absent]

\* create_snapshot's last step.  An earlier snapshot of the same version is replaced.
PutSnapshot(v, s) ==
  snapshots' = [n \in DOMAIN snapshots \cup {v} |-> IF n = v THEN s ELSE snapshots[n]]

\* Mutant: a restore that leaves the counter where it is.
ResetVersionKept(v) == UNCHANGED version

\* restore_snapshot's last step: the counter goes back to the snapshot's version.
ResetVersion(v) == version' = v

=============================================================================
