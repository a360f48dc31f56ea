--------------------------- MODULE WebhookIntake ---------------------------
(***************************************************************************)
(* The ways a payment event comes in: the Razorpay webhook, whose          *)
(* process_webhook (esa-razorpay/src/adapter.rs) asks an EventDeduper       *)
(* (dedup.rs) before the event is applied, and the endpoints that apply an *)
(* event at once (razorpay_confirm_payment and ingest_payment_event in     *)
(* esa-api/src/main.rs).  Calls run on many threads; the deduper's         *)
(* DashMap is atomic per operation and is_duplicate makes up to four.      *)
(*                                                                         *)
(* Cache and fabric live in the memory of one process: a restart is the    *)
(* initial state.  Time is what the deduper tells apart: whether an entry  *)
(* is older than its hour.                                                 *)
(***************************************************************************)
EXTENDS Naturals, FiniteSets

CONSTANTS
  Calls,        \* calls of the three endpoints
  Payments,     \* payment ids of the provider
  Names,        \* what may be said of a payment: authorized, captured, ...
  Routes,       \* the routes the calls may come in by
  MAX_ENTRIES   \* the cache size at which old entries are dropped

ASSUME RoutesAreKnown == Routes \subseteq {"webhook", "direct"}
ASSUME CacheHasRoom == MAX_ENTRIES \in Nat \ {0}

VARIABLES
  route,    \* the endpoint each call comes in by
  says,     \* the payment and the event each call is about
  pc,       \* where each call is
  answer,   \* what each call was last answered
  stale,    \* the entries the call's retain is still to drop
  seen,     \* EventDeduper.seen, TRUE for entries less than an hour old
  updates,  \* how often each event has updated a workload
  known     \* history: calls that came in less than an hour after their id was marked

requestVars == <<route, says>>
vars == <<requestVars, pc, answer, stale, seen, updates, known>>

Event == [payment : Payments, name : Names]

\* The shape of the state.
TypeOK ==
  /\ route \in [Calls -> Routes]
  /\ says \in [Calls -> Event]
  /\ pc \in [Calls -> {"idle", "contains", "size", "retain", "insert", "apply", "done"}]
  /\ answer \in [Calls -> {"none", "refused", "duplicate", "accepted"}]
  /\ stale \in [Calls -> SUBSET Payments]
  /\ DOMAIN seen \subseteq Payments
  /\ \A p \in DOMAIN seen : seen[p] \in BOOLEAN
  /\ updates \in [Event -> Nat]
  /\ known \subseteq Calls

Init ==
  /\ route \in [Calls -> Routes]
  /\ says \in [Calls -> Event]
  /\ pc = [c \in Calls |-> "idle"]
  /\ answer = [c \in Calls |-> "none"]
  /\ stale = [c \in Calls |-> {}]
  /\ seen = [p \in {} |-> TRUE]
  /\ updates = [e \in Event |-> 0]
  /\ known = {}

-----------------------------------------------------------------------------

\* The id the deduper is asked about names the payment, not what is said of it.
event_id(c) == says[c].payment

Goto(c, from, to) == pc[c] = from /\ pc' = [pc EXCEPT ![c] = to]

Fresh == {p \in DOMAIN seen : seen[p]}

\* Mutant: the id is marked before the request is let in.
RefuseMarking(c) ==
  /\ pc[c] = "idle"
  /\ answer' = [answer EXCEPT ![c] = "refused"]
  /\ seen' = [p \in DOMAIN seen \cup {event_id(c)} |-> IF p = event_id(c) THEN TRUE ELSE seen[p]]
  /\ UNCHANGED <<requestVars, pc, stale, updates, known>>

\* 429, 401 or 400: nothing has changed and the caller may come again.
Refuse(c) ==
  /\ pc[c] = "idle"
  /\ answer' = [answer EXCEPT ![c] = "refused"]
  /\ UNCHANGED <<requestVars, pc, stale, seen, updates, known>>

\* Rate limit, signature and payload passed, or the caller is authenticated.
Admit(c) ==
  /\ Goto(c, "idle", IF route[c] = "webhook" THEN "contains" ELSE "apply")
  /\ known' = IF event_id(c) \in Fresh THEN known \cup {c} ELSE known
  /\ UNCHANGED <<requestVars, answer, stale, seen, updates>>

\* contains_key: a known id is answered 200 "duplicate".
Contains(c) ==
  /\ IF event_id(c) \in DOMAIN seen
       THEN Goto(c, "contains", "done") /\ answer' = [answer EXCEPT ![c] = "duplicate"]
       ELSE Goto(c, "contains", "size") /\ UNCHANGED answer
  /\ UNCHANGED <<requestVars, stale, seen, updates, known>>

\* Mutant: a full cache is emptied.
SizeClears(c) ==
  /\ Goto(c, "size", "insert")
  /\ seen' = IF Cardinality(DOMAIN seen) >= MAX_ENTRIES THEN [p \in {} |-> TRUE] ELSE seen
  /\ UNCHANGED <<requestVars, answer, stale, updates, known>>

\* A full cache is swept once; the cutoff is taken before the sweep.
Size(c) ==
  /\ IF Cardinality(DOMAIN seen) >= MAX_ENTRIES
       THEN Goto(c, "size", "retain") /\ stale' = [stale EXCEPT ![c] = DOMAIN seen \ Fresh]
       ELSE Goto(c, "size", "insert") /\ UNCHANGED stale
  /\ UNCHANGED <<requestVars, answer, seen, updates, known>>

\* DashMap::retain goes through the map shard by shard and looks at each entry's time
\* when it comes to it: one that was marked again since stays.
Retain(c) ==
  \/ /\ pc[c] = "retain"
     /\ \E p \in stale[c] :
          /\ seen' = [q \in DOMAIN seen \ ({p} \ Fresh) |-> seen[q]]
          /\ stale' = [stale EXCEPT ![c] = @ \ {p}]
     /\ UNCHANGED <<requestVars, pc, answer, updates, known>>
  \/ /\ stale[c] = {}
     /\ Goto(c, "retain", "insert")
     /\ UNCHANGED <<requestVars, answer, stale, seen, updates, known>>

Insert(c) ==
  /\ Goto(c, "insert", "apply")
  /\ seen' = [p \in DOMAIN seen \cup {event_id(c)} |-> IF p = event_id(c) THEN TRUE ELSE seen[p]]
  /\ UNCHANGED <<requestVars, answer, stale, updates, known>>

\* apply_payment_event, of which only that it happened matters here.
ApplyEvent(c) ==
  /\ Goto(c, "apply", "done")
  /\ updates' = [updates EXCEPT ![says[c]] = @ + 1]
  /\ answer' = [answer EXCEPT ![c] = "accepted"]
  /\ UNCHANGED <<requestVars, stale, seen, known>>

Handle(c) ==
  Contains(c) \/ Size(c) \/ Retain(c) \/ Insert(c) \/ ApplyEvent(c)

\* An hour has passed since the entry was made.
Age(p) ==
  /\ p \in Fresh
  /\ seen' = [seen EXCEPT ![p] = FALSE]
  /\ known' = {c \in known : event_id(c) # p}
  /\ UNCHANGED <<requestVars, pc, answer, stale, updates>>

Next ==
  \/ \E c \in Calls : Refuse(c) \/ Admit(c) \/ Handle(c)
  \/ \E p \in Payments : Age(p)

Spec == Init /\ [][Next]_vars

\* The provider repeats what was not answered with 2xx, the limiter's bucket
\* refills, and a handler that was let in awaits nothing.
FairSpec ==
  /\ Spec
  /\ \A c \in Calls : WF_vars(Admit(c)) /\ WF_vars(Handle(c))

-----------------------------------------------------------------------------

\* A webhook that comes in within an hour of its id being marked does not update
\* a workload again, however full the cache was and whoever swept it meanwhile.
Accepting(c) == pc[c] \in {"size", "retain", "insert", "apply"} \/ answer[c] = "accepted"

RecentlySeenIgnored ==
  \A c \in known : route[c] = "webhook" => ~Accepting(c)

\* "duplicate" is never the last word on an event nobody applied, where that is all
\* that is said of its payment: the call that marked the id goes on to apply it.
OnlyEventOfPayment(c) ==
  \A d \in Calls : says[d].payment = says[c].payment => says[d] = says[c]

EveryEventTaken ==
  \A c \in Calls : OnlyEventOfPayment(c) ~> updates[says[c]] > 0

\* "Prevents duplicate webhook events from triggering repeated workload
\* mutations" (dedup.rs): an event updates a workload at most once.  It does not
\* hold: two deliveries may both look before either marks.
UpdatedOncePerEvent == \A e \in Event : updates[e] <= 1

\* "Event already processed" (the handler's answer to a duplicate) is true of
\* the event it is said of: a call of that very event marked the id.
DuplicateMeansProcessed ==
  \A c \in Calls : answer[c] = "duplicate" =>
    \E d \in Calls : says[d] = says[c] /\ Accepting(d)

=============================================================================
