--------------------------- MODULE PaymentIngest ---------------------------
(***************************************************************************)
(* apply_payment_event (esa-api/src/payment.rs), which the webhook, the    *)
(* ingest endpoint and the simulated checkout call: it clones the workload *)
(* list, changes the first match and upserts it, whatever happened to that *)
(* workload in between.  It carries no state_version and is no gateway     *)
(* action.                                                                 *)
(***************************************************************************)
EXTENDS StateFabric, FiniteSets

CONSTANT Events   \* calls of apply_payment_event

ASSUME EventsAreWriters == Events \subseteq Writers
ASSUME EventsAreFinite == IsFiniteSet(Events)

VARIABLE ingest   \* the local state of each call

IngestSteps == {"idle", "insert", "bump", "done"}

IngestTypeOK ==
  /\ ingest \in [Events -> [pc : IngestSteps, target : WorkloadIds \cup {Absent}, copy : Slot]]
  /\ \A e \in Events : ingest[e].pc = "insert" => ingest[e].target \in WorkloadIds

IngestInit == ingest = [e \in Events |-> [pc |-> "idle", target |-> Absent, copy |-> Absent]]

\* list_workloads and the region match; an event that matches nothing changes nothing.
ReadMatching(e) ==
  /\ ingest[e].pc = "idle"
  /\ \/ \E id \in Present :
          ingest' = [ingest EXCEPT ![e] =
                       [pc     |-> "insert", target |-> id,
                        copy   |-> [workloads[id] EXCEPT !.writes = @ \cup {e}]]]
     \/ ingest' = [ingest EXCEPT ![e].pc = "done"]
  /\ UNCHANGED fabricVars

\* upsert_workload, in its two halves.
UpsertInsert(e) ==
  /\ ingest[e].pc = "insert"
  /\ InsertWorkload(ingest[e].target, ingest[e].copy)
  /\ ingest' = [ingest EXCEPT ![e].pc = "bump"]
  /\ UNCHANGED <<version, snapshots>>

UpsertIncrement(e) ==
  /\ ingest[e].pc = "bump"
  /\ IncrementVersion
  /\ ingest' = [ingest EXCEPT ![e].pc = "done", ![e].copy = Absent]
  /\ UNCHANGED <<workloads, snapshots>>

Ingest(e) == ReadMatching(e) \/ UpsertInsert(e) \/ UpsertIncrement(e)

IngestNext == \E e \in Events : Ingest(e)

=============================================================================
