----------------------------- MODULE Telemetry -----------------------------
(***************************************************************************)
(* What a dashboard is shown: the vitals of esa-api/src/vitals.rs, the     *)
(* ticker of main() and publish_metrics_telemetry, which record them, the  *)
(* broadcast channel, and the handshake and the two tasks of a WebSocket   *)
(* client in esa-api/src/websocket.rs.                                     *)
(*                                                                         *)
(* A publisher lists the workloads, records a snapshot, reads the latest   *)
(* one, which another may have recorded from an older list, and sends it.  *)
(* The fabric is a value that changes; it is Empty while a rollback puts   *)
(* back a snapshot of it.  Checkout is another part of the same server;    *)
(* names are told apart so that one module can speak of both.              *)
(***************************************************************************)
EXTENDS SequencesExt, Integers

CONSTANTS
  Views,         \* what a list of workloads can amount to
  Empty,         \* the list without a workload
  Handlers,      \* requests that apply an event and publish
  Ticker,        \* the task of main() that publishes every two seconds
  Clients,       \* WebSocket clients
  MaxSnapshots,  \* of the vitals: 120
  Capacity       \* of the channel: 100

ASSUME EmptyIsNoView == Empty \notin Views
ASSUME TickerIsNoHandler == Ticker \notin Handlers
ASSUME StoresHoldSomething == MaxSnapshots \in Nat \ {0} /\ Capacity \in Nat \ {0}

VARIABLES
  fabric,      \* what a list of the workloads amounts to
  snapshots,   \* the vitals recorded, the newest last
  publisher, seen,  \* each publisher, and the list or message it holds
  client,      \* where each client is
  known,       \* whether it has shown a credential that holds
  queue,       \* the messages sent and not yet received by each client
  shown,       \* the vitals each client shows, Nothing before the first
  production   \* is_production_mode

publisherVars == <<publisher, seen>>
clientVars == <<client, known, queue, shown>>
telemetryVars == <<fabric, snapshots, publisherVars, clientVars, production>>

Nothing == "nothing"
\* What a handler, the runtime or a spike sends beside the vitals.
WorkloadUpdate == "workload_update"
Publishers == Handlers \cup {Ticker}
Open(c) == client[c] = "open"

\* The shape of the state: both stores are bounded, whatever is published and however slow a
\* client is.
TelemetryTypeOK ==
  /\ fabric \in Views \cup {Empty}
  /\ snapshots \in Seq(Views) /\ Len(snapshots) <= MaxSnapshots
  /\ publisher \in [Publishers -> {"idle", "listed", "recorded", "loaded", "update"}]
  /\ seen \in [Publishers -> Views \cup {Empty, Nothing}]
  /\ client \in [Clients -> {"away", "handshake", "open"}]
  /\ known \in [Clients -> BOOLEAN]
  /\ \A c \in Clients : queue[c] \in Seq(Views \cup {WorkloadUpdate}) /\ Len(queue[c]) <= Capacity
  /\ shown \in [Clients -> Views \cup {Nothing}]
  /\ production \in BOOLEAN

TelemetryInit ==
  /\ fabric \in Views
  /\ snapshots = << >>
  /\ publisher = [p \in Publishers |-> "idle"]
  /\ seen = [p \in Publishers |-> Nothing]
  /\ client = [c \in Clients |-> "away"]
  /\ known = [c \in Clients |-> FALSE]
  /\ queue = [c \in Clients |-> << >>]
  /\ shown = [c \in Clients |-> Nothing]
  /\ production \in BOOLEAN

Proceed(p, there, holding) ==
  /\ publisher' = [publisher EXCEPT ![p] = there]
  /\ seen' = [seen EXCEPT ![p] = holding]

\* The newest Limit of a sequence.
Newest(s, limit) == IF Len(s) > limit THEN SubSeq(s, Len(s) - limit + 1, Len(s)) ELSE s

-----------------------------------------------------------------------------
\* list_workloads, by a handler after its event or by the ticker.
List(p) ==
  /\ publisher[p] = "idle"
  /\ Proceed(p, "listed", fabric)
  /\ UNCHANGED <<fabric, snapshots, clientVars, production>>

\* Mutant: a full buffer takes no more.
RecordedUntilFull(view) ==
  IF Len(snapshots) >= MaxSnapshots THEN snapshots ELSE Append(snapshots, view)
\* record_from_workloads: nothing is recorded of an empty list, and the oldest goes.
Recorded(view) == Newest(Append(snapshots, view), MaxSnapshots)

Record(p) ==
  /\ publisher[p] = "listed"
  /\ snapshots' = IF seen[p] = Empty THEN snapshots ELSE Recorded(seen[p])
  /\ Proceed(p, "recorded", Nothing)
  /\ UNCHANGED <<fabric, clientVars, production>>

\* A ticker sleeps when it is done, a handler goes on to the workload it changed.
AfterVitals(p) == IF p = Ticker THEN "idle" ELSE "update"

\* latest(); before the first snapshot there is nothing to send.
Latest(p) ==
  /\ publisher[p] = "recorded"
  /\ IF snapshots = << >> THEN Proceed(p, AfterVitals(p), Nothing)
     ELSE Proceed(p, "loaded", Last(snapshots))
  /\ UNCHANGED <<fabric, snapshots, clientVars, production>>

\* The channel keeps the last messages for each receiver; one that lags goes on with those.
Broadcast(message) ==
  queue' = [c \in Clients |-> IF Open(c) THEN Newest(Append(queue[c], message), Capacity)
                              ELSE queue[c]]

Send(p) ==
  /\ publisher[p] = "loaded"
  /\ Broadcast(seen[p])
  /\ Proceed(p, AfterVitals(p), Nothing)
  /\ UNCHANGED <<fabric, snapshots, client, known, shown, production>>

\* publish_payment_side_effects ends with the workload its event changed.
SendUpdate(h) ==
  /\ publisher[h] = "update"
  /\ Broadcast(WorkloadUpdate)
  /\ Proceed(h, "idle", Nothing)
  /\ UNCHANGED <<fabric, snapshots, client, known, shown, production>>

-----------------------------------------------------------------------------
\* The client is subscribed from now on; what was sent before does not reach it.
Subscribe(c, holds) ==
  /\ client' = [client EXCEPT ![c] = "open"]
  /\ known' = [known EXCEPT ![c] = holds]
  /\ queue' = [queue EXCEPT ![c] = << >>]
  /\ UNCHANGED shown

\* An upgrade with a credential that holds, in a header or, outside production, in the query.
ConnectKnown(c) ==
  /\ client[c] = "away"
  /\ Subscribe(c, TRUE)
  /\ UNCHANGED <<fabric, snapshots, publisherVars, production>>

\* An upgrade without one waits up to five seconds for a first frame; one with a credential
\* that does not hold is answered 401 and changes nothing.
ConnectUnknown(c) ==
  /\ client[c] = "away"
  /\ client' = [client EXCEPT ![c] = "handshake"]
  /\ UNCHANGED <<fabric, snapshots, publisherVars, known, queue, shown, production>>

Hangup(c) ==
  /\ client' = [client EXCEPT ![c] = "away"]
  /\ known' = [known EXCEPT ![c] = FALSE]
  /\ queue' = [queue EXCEPT ![c] = << >>]
  /\ shown' = [shown EXCEPT ![c] = Nothing]

\* Mutant: a client whose frame says nothing is let in everywhere.
GreetAnyone(c) ==
  /\ client[c] = "handshake"
  /\ \E holds \in BOOLEAN : Subscribe(c, holds)
  /\ UNCHANGED <<fabric, snapshots, publisherVars, production>>
\* The frame authenticates the client, or does not, or five seconds pass.  In production the
\* client is closed then; elsewhere it is let in as it is.
Greet(c) ==
  /\ client[c] = "handshake"
  /\ \/ Subscribe(c, TRUE)
     \/ ~production /\ Subscribe(c, FALSE)
     \/ production /\ Hangup(c)
  /\ UNCHANGED <<fabric, snapshots, publisherVars, production>>

\* The send task hands the next message on.
Receive(c) ==
  /\ Open(c)
  /\ queue[c] # << >>
  /\ queue' = [queue EXCEPT ![c] = Tail(@)]
  /\ shown' = [shown EXCEPT ![c] = IF Head(queue[c]) = WorkloadUpdate THEN @ ELSE Head(queue[c])]
  /\ UNCHANGED <<fabric, snapshots, publisherVars, client, known, production>>

\* Either task ends, by a close frame or an error, and takes the other along.
Leave(c) ==
  /\ client[c] # "away"
  /\ Hangup(c)
  /\ UNCHANGED <<fabric, snapshots, publisherVars, production>>

\* The runtime, with every step of a cycle and also when all is well, and a spike: messages
\* that show no vitals and take their room in the channel.
OthersSend ==
  /\ Broadcast(WorkloadUpdate)
  /\ UNCHANGED <<fabric, snapshots, publisherVars, client, known, shown, production>>

\* Any writer of the fabric, and a rollback's moment without workloads.
FabricChanges ==
  /\ fabric' \in Views \cup {Empty}
  /\ UNCHANGED <<snapshots, publisherVars, clientVars, production>>

Publish(p) == Record(p) \/ Latest(p) \/ Send(p)

TelemetryNext ==
  \/ FabricChanges \/ OthersSend
  \/ \E p \in Publishers : List(p) \/ Publish(p)
  \/ \E h \in Handlers : SendUpdate(h)
  \/ \E c \in Clients :
       ConnectKnown(c) \/ ConnectUnknown(c) \/ Greet(c) \/ Receive(c) \/ Leave(c)

TelemetrySpec == TelemetryInit /\ [][TelemetryNext]_telemetryVars

\* The ticker wakes up, publishers that have begun go on, and a client that is connected is
\* sent what is queued for it.  Nobody has to connect, to publish or to change anything.
FairTelemetry ==
  /\ TelemetrySpec
  /\ WF_telemetryVars(List(Ticker))
  /\ \A p \in Publishers : WF_telemetryVars(Publish(p))
  /\ \A h \in Handlers : WF_telemetryVars(SendUpdate(h))
  /\ \A c \in Clients : WF_telemetryVars(Receive(c)) /\ WF_telemetryVars(Greet(c))

-----------------------------------------------------------------------------
\* In production no one listens who has not shown a credential that holds.
ListenersAreKnown == \A c \in Clients : production /\ Open(c) => known[c]

Quiet(view) == fabric = view /\ \A h \in Handlers : publisher[h] = "idle"

\* The client reads as fast as others send: what is pushed out of its channel is vitals, and
\* pushed out by newer ones.
KeepsUp(c) == Len(queue[c]) < Capacity \/ queue[c] \in Seq(Views)

\* Once nothing writes the fabric any more, a client that stays and keeps up comes to show what
\* it is and goes on showing it, although a handler may have recorded, sent, or left in the
\* channel what it read before the last write, and the runtime never stops sending.
DashboardConverges ==
  \A c \in Clients, view \in Views :
    <>[](Quiet(view) /\ Open(c) /\ KeepsUp(c)) => <>[](shown[c] = view)
=============================================================================
