-------------------------- MODULE PaymentLifecycle --------------------------
(***************************************************************************)
(* PaymentEntity::apply_event (esa-core/src/payment_state.rs) under a      *)
(* provider that delivers each of its events at least once, in any order,  *)
(* and again whenever it likes.  apply_event takes &mut self, so one       *)
(* delivery is one step.                                                   *)
(*                                                                         *)
(* payment.captured and order.paid share every arm of the code's match and *)
(* are the one type "captured".  What an event says never changes between  *)
(* two of its deliveries.                                                  *)
(***************************************************************************)
EXTENDS Naturals, FiniteSets

CONSTANTS
  EventIds,   \* the ids of the provider's events
  BlankIds,   \* those that are blank once trimmed
  Amount,     \* amount_minor of the payment
  Refunds,    \* the refund_amount_minor an event may carry
  NoAmount    \* a refund event that carries none

ASSUME BlankIdsAreIds == BlankIds \subseteq EventIds
ASSUME AmountIsMinorUnits == Amount \in Nat
ASSUME RefundsAreAmounts == Refunds \subseteq Nat \cup {NoAmount}
ASSUME NoAmountIsNone == NoAmount \notin Nat

VARIABLES
  event,      \* what the provider says under each id
  state,      \* PaymentState
  refunded,   \* refunded_amount_minor
  seen,       \* events_seen
  answer      \* what the last delivery of each event was answered

vars == <<event, state, refunded, seen, answer>>

States == {"Created", "Authorized", "Captured", "Failed", "PartiallyRefunded",
           "Refunded", "PendingReconciliation"}

Outcomes == {"Applied", "DuplicateIgnored", "LateEventIgnored", "ReconciliationRequired"}

CapturedStates == {"Captured", "PartiallyRefunded", "Refunded"}

\* What a provider may say.
Body == [type : {"authorized", "captured", "failed"}, refund : {NoAmount}]
          \cup [type : {"refund"}, refund : Refunds]

\* The shape of the state; a refund never exceeds the payment ("Refund Bounding").
TypeOK ==
  /\ event \in [EventIds -> Body]
  /\ state \in States
  /\ refunded \in 0..Amount
  /\ seen \subseteq EventIds
  /\ answer \in [EventIds -> Outcomes \cup {"None", "Err"}]

Init ==
  /\ event \in [EventIds -> Body]
  /\ state = "Created"
  /\ refunded = 0
  /\ seen = {}
  /\ answer = [id \in EventIds |-> "None"]

-----------------------------------------------------------------------------

Answer(id, o) == answer' = [answer EXCEPT ![id] = o]

\* A match arm that succeeds: the id is recorded.
Accept(id, s, o) ==
  /\ state' = s
  /\ seen' = seen \cup {id}
  /\ Answer(id, o)
  /\ UNCHANGED event

\* A match arm that leaves the payment as it is, but for the recorded id.
Ignore(id, o) == Accept(id, state, o) /\ UNCHANGED refunded

\* Mutant: events_seen is not consulted.
ReachesAgain(id, type) == id \notin BlankIds /\ event[id].type = type

\* A delivery that reaches the match with an event of this type.
Reaches(id, type) == id \notin BlankIds \cup seen /\ event[id].type = type

Duplicate(id) ==
  /\ id \in seen \ BlankIds
  /\ Answer(id, "DuplicateIgnored")
  /\ UNCHANGED <<event, state, refunded, seen>>

\* Mutant: a late authorization takes a captured payment back.
AuthorizeLate(id) ==
  /\ Reaches(id, "authorized")
  /\ \/ /\ state \in {"Created", "Captured"}
        /\ Accept(id, "Authorized", "Applied") /\ UNCHANGED refunded
     \/ state \notin {"Created", "Captured"} /\ Ignore(id, "DuplicateIgnored")

Authorize(id) ==
  /\ Reaches(id, "authorized")
  /\ \/ state = "Created" /\ Accept(id, "Authorized", "Applied") /\ UNCHANGED refunded
     \/ state = "Failed" /\ Ignore(id, "LateEventIgnored")
     \/ state \notin {"Created", "Failed", "Refunded"} /\ Ignore(id, "DuplicateIgnored")

\* Mutant: a capture after a failure is ignored as late.
CaptureIgnored(id) ==
  /\ Reaches(id, "captured")
  /\ \/ /\ state \in {"Created", "Authorized"}
        /\ Accept(id, "Captured", "Applied") /\ UNCHANGED refunded
     \/ /\ state \notin {"Created", "Authorized", "Refunded"}
        /\ Ignore(id, "LateEventIgnored")

Capture(id) ==
  /\ Reaches(id, "captured")
  /\ \/ /\ state \in {"Created", "Authorized"}
        /\ Accept(id, "Captured", "Applied") /\ UNCHANGED refunded
     \/ /\ state = "Failed"
        /\ Accept(id, "PendingReconciliation", "ReconciliationRequired") /\ UNCHANGED refunded
     \/ /\ state \in {"Captured", "PartiallyRefunded", "PendingReconciliation"}
        /\ Ignore(id, "DuplicateIgnored")

\* Mutant: a delayed failure downgrades a capture.
FailDowngrades(id) ==
  /\ Reaches(id, "failed")
  /\ state \in {"Created", "Authorized", "Captured"}
  /\ Accept(id, "Failed", "Applied")
  /\ UNCHANGED refunded

Fail(id) ==
  /\ Reaches(id, "failed")
  /\ \/ state \in {"Created", "Authorized"} /\ Accept(id, "Failed", "Applied") /\ UNCHANGED refunded
     \/ state \in {"Captured", "PartiallyRefunded"} /\ Ignore(id, "LateEventIgnored")
     \/ state \in {"Failed", "PendingReconciliation"} /\ Ignore(id, "DuplicateIgnored")

Remaining == IF refunded <= Amount THEN Amount - refunded ELSE 0

\* An event that carries no amount refunds what is left.
Due(id) == IF event[id].refund = NoAmount THEN Remaining ELSE event[id].refund

\* Zero refunds and refunds above the balance are errors of the two refundable states.
Refundable(id) == Due(id) # 0 /\ Due(id) <= Remaining

Refund(id) ==
  /\ Reaches(id, "refund")
  /\ \/ /\ state \in {"Created", "Authorized"}
        /\ Accept(id, "PendingReconciliation", "ReconciliationRequired") /\ UNCHANGED refunded
     \/ /\ state \in {"Captured", "PartiallyRefunded"}
        /\ Refundable(id)
        /\ refunded' = refunded + Due(id)
        /\ Accept(id, IF refunded' >= Amount THEN "Refunded" ELSE "PartiallyRefunded", "Applied")
     \/ state \in {"Refunded", "PendingReconciliation"} /\ Ignore(id, "DuplicateIgnored")

\* The code's Err returns, all of them before anything is changed.
Rejected(id) ==
  \/ id \in BlankIds
  \/ /\ id \notin seen
     /\ IF event[id].type = "refund"
          THEN state = "Failed" \/ (state \in {"Captured", "PartiallyRefunded"} /\ ~Refundable(id))
          ELSE state = "Refunded"

Reject(id) ==
  /\ Rejected(id)
  /\ Answer(id, "Err")
  /\ UNCHANGED <<event, state, refunded, seen>>

Deliver(id) ==
  Duplicate(id) \/ Authorize(id) \/ Capture(id) \/ Fail(id) \/ Refund(id) \/ Reject(id)

Next == \E id \in EventIds : Deliver(id)

Spec == Init /\ [][Next]_vars

\* A provider keeps delivering an event until the entity has taken it.
FairSpec == Spec /\ \A id \in EventIds : WF_vars(id \notin seen /\ Deliver(id))

-----------------------------------------------------------------------------

Acknowledged(type) == \E id \in seen : event[id].type = type

Settled == state \in CapturedStates

\* The state and the refunded amount tell one story, in whatever order and
\* how often the events came: money is out exactly in the two refunded states.
RefundStateAgrees ==
  /\ state = "PartiallyRefunded" <=> refunded \in 1..(Amount - 1)
  /\ state = "Refunded" <=> (refunded > 0 /\ refunded = Amount)

\* A capture the entity acknowledged is not forgotten: the payment counts as
\* captured or waits for reconciliation, whatever failures and refunds came
\* before or after it; and it counts as captured only on the word of a capture.
CaptureNeverLost ==
  /\ Acknowledged("captured") => Settled \/ state = "PendingReconciliation"
  /\ Settled => Acknowledged("captured")

\* Every refund taken while the payment is refundable is counted exactly once:
\* each minor unit an event asked for is out, told apart by the event's id, so
\* the refunded amount is the sum over the ids and not over the deliveries.
UnitsOf(id) == {id} \X (1..event[id].refund)

RefundedUnits == UNION {UnitsOf(id) : id \in {i \in seen : event[i].type = "refund"}}

RefundsCountedOnce ==
  state \in {"Captured", "PartiallyRefunded"} => refunded = Cardinality(RefundedUnits)

\* Without a failure or a refund the state is a function of the set of events
\* taken: late and repeated authorizations leave no mark.
StateFollowsEvents ==
  ~Acknowledged("failed") /\ ~Acknowledged("refund") =>
    state = IF Acknowledged("captured") THEN "Captured"
            ELSE IF Acknowledged("authorized") THEN "Authorized"
            ELSE "Created"

\* A payment the code says is settled or set aside stays so, and money moves
\* only out of a settled one ("a delayed failure event must NEVER downgrade a
\* confirmed capture").
Ledger == INSTANCE PaymentLedger WITH
  Total <- Amount, settled <- Settled, returned <- refunded,
  setAside <- (state = "PendingReconciliation")

ImplementsLedger == Ledger!Spec

\* When the provider has a capture to report, the entity comes to count the
\* payment as captured or puts it up for reconciliation, whatever else is
\* delivered in between.
CaptureSettles ==
  (\E id \in EventIds \ BlankIds : event[id].type = "captured")
    ~> (Settled \/ state = "PendingReconciliation")

\* "Refunds of zero or refunds exceeding remaining captured balance are strictly
\* rejected" (the guarantees of apply_event), said of every delivery of a refund
\* that the entity has not taken before.  It does not hold: once everything is
\* refunded, a refund of any amount is answered as a duplicate.
ExcessRefundsRejected ==
  [][\A id \in EventIds \ seen :
       /\ answer'[id] # answer[id]
       /\ event[id].type = "refund" /\ event[id].refund # NoAmount
       /\ Settled /\ event[id].refund \notin 1..(Amount - refunded)
       => answer'[id] = "Err"]_vars

=============================================================================
