------------------------ MODULE ControlPlaneOverlaps ------------------------
(***************************************************************************)
(* The control plane with a record of whose operations on the fabric have  *)
(* met.  create_snapshot, restore_snapshot and the read and upsert of a    *)
(* workload are each several steps under separate locks of fabric.rs, and  *)
(* nothing keeps two of them apart.  Both new variables are history: they  *)
(* never hold up a step.                                                   *)
(***************************************************************************)
EXTENDS ControlPlane

VARIABLES
  spoiled,  \* whose operation under way has been under way together with another
  torn      \* whether a snapshot has ever been copied while a restore rebuilt the map

history == <<spoiled, torn>>

\* The steps at which a call is inside an operation of the fabric: what it holds or
\* has half done counts on nobody else being inside one.
Inside == {"snapCopy", "snapPut", "sync", "insert", "bump", "clear", "refill", "resetVersion"}

Ingesting == {e \in Events : ingest[e].pc \in {"insert", "bump"}}

Acting == {o \in Ops : exec[o].pc \in Inside} \cup Ingesting

Meeting == \E a, b \in Acting : a # b

\* Calls between a restore's clear and its last insert.
Rebuilding == {o \in Ops : exec[o].pc \in {"clear", "refill"}}

Tearing == Rebuilding # {} /\ \E o \in Ops : At(o, "snapCopy")

Record ==
  /\ spoiled' = IF Meeting' THEN Acting' ELSE spoiled \cap Acting'
  /\ torn' = (torn \/ Tearing')

OverlapInit == Init /\ spoiled = {} /\ torn = FALSE

OverlapNext == Next /\ Record

OverlapSpec == OverlapInit /\ [][OverlapNext]_<<vars, history>>

FairOverlapSpec == OverlapSpec /\ Fairness

-----------------------------------------------------------------------------

\* A workload falls out of the map in one way only: through a snapshot copied while a
\* restore had cleared the map and not yet filled it (fabric.rs create_snapshot and
\* restore_snapshot).  Restores that race each other, stale upserts, payment events,
\* failed actions and replaced snapshots lose none.
LostOnlyThroughTornSnapshots == ~torn /\ Rebuilding = {} => Present = WorkloadIds

-----------------------------------------------------------------------------
(* Operations that meet no other implement the versioned store, in         *)
(* whatever state earlier meetings left the fabric: an upsert takes effect *)
(* at its insert, a restore when it has the snapshot, a snapshot when it   *)
(* is put.                                                                 *)

Restoring == {o \in Ops : exec[o].pc \in {"clear", "refill", "resetVersion"}}

Upserting ==
  (\E o \in Ops : At(o, "bump")) \/ (\E e \in Events : ingest[e].pc = "bump")

EffectiveStore ==
  IF Restoring = {} THEN workloads ELSE exec[CHOOSE o \in Restoring : TRUE].buffer

EffectiveVersion ==
  IF Restoring # {} THEN exec[CHOOSE o \in Restoring : TRUE].goal
  ELSE IF Upserting THEN version + 1
  ELSE version

Promise == INSTANCE VersionedStore WITH
  Ids <- WorkloadIds, Authors <- Writers, Cap <- MaxReplicas, First <- FirstVersion,
  Missing <- Absent, store <- EffectiveStore, ver <- EffectiveVersion, saved <- snapshots

\* A step that leaves no operation under way having met another.
Undisturbed == spoiled = {} /\ spoiled' = {}

\* However many calls, rollbacks and payment events run, an operation that meets no other
\* is atomic: its upsert loses no update, its snapshot is the store under its version, its
\* restore brings back store and version together.
ApartImplementsVersionedStore ==
  /\ Promise!Init
  /\ [][Undisturbed => Promise!Next \/ UNCHANGED Promise!storeVars]_<<vars, history>>

=============================================================================
