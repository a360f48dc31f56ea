----------------------- MODULE PaymentLifecycleProofs -----------------------
(***************************************************************************)
(* What holds of a payment for any number of events, any amount and any    *)
(* refunds, in any order of delivery.                                      *)
(***************************************************************************)
EXTENDS PaymentLifecycle, FiniteSetTheorems, TLAPS

USE DEF Settled, CapturedStates, States, Outcomes

\* What an event says is not touched by its delivery.
LEMMA DeliverKeepsEvents == ASSUME NEW id \in EventIds, Deliver(id) PROVE UNCHANGED event
  BY DEF Deliver, Duplicate, Authorize, Capture, Fail, Refund, Reject, Accept, Ignore

\* A refund that passes the balance test is a positive part of what is left.
LEMMA RefundableIsDue ==
  ASSUME NEW id \in EventIds, TypeOK, event[id].type = "refund", Refundable(id)
  PROVE  Due(id) \in 1..(Amount - refunded)
  <1>1. event[id].refund \in Nat \cup {NoAmount}
    BY RefundsAreAmounts DEF TypeOK, Body
  <1> QED
    BY <1>1, AmountIsMinorUnits DEF Refundable, Due, Remaining, TypeOK

(***************************************************************************)
(* The types, with the refund bound in them.                               *)
(***************************************************************************)
LEMMA DeliverTypes ==
  ASSUME NEW id \in EventIds, TypeOK, Deliver(id)
  PROVE  TypeOK'
  <1> USE DEF TypeOK, Answer, Accept, Ignore, Reaches
  <1>1. CASE Duplicate(id)
    BY <1>1 DEF Duplicate
  <1>2. CASE Authorize(id)
    BY <1>2 DEF Authorize
  <1>3. CASE Capture(id)
    BY <1>3 DEF Capture
  <1>4. CASE Fail(id)
    BY <1>4 DEF Fail
  <1>5. CASE Refund(id)
    <2>1. refunded' \in 0..Amount
      BY <1>5, RefundableIsDue, AmountIsMinorUnits DEF Refund
    <2> QED
      BY <1>5, <2>1 DEF Refund
  <1>6. CASE Reject(id)
    BY <1>6 DEF Reject
  <1> QED
    BY <1>1, <1>2, <1>3, <1>4, <1>5, <1>6 DEF Deliver

\* The shape of the state, and no more refunded than was paid ("Refund Bounding").
THEOREM RefundsBounded == Spec => []TypeOK
  <1>1. Init => TypeOK
    BY AmountIsMinorUnits DEF Init, TypeOK
  <1>2. TypeOK /\ [Next]_vars => TypeOK'
    <2>1. TypeOK /\ UNCHANGED vars => TypeOK'
      BY DEF TypeOK, vars
    <2> QED
      BY <2>1, DeliverTypes DEF Next
  <1> QED
    BY <1>1, <1>2, PTL DEF Spec

(***************************************************************************)
(* RefundStateAgrees is not inductive: that a payment about to be refunded *)
(* has a balance is known only because money out and Captured exclude each *)
(* other.                                                                  *)
(***************************************************************************)
RefundInv ==
  /\ RefundStateAgrees
  /\ refunded > 0 => state \in {"PartiallyRefunded", "Refunded"}

LEMMA DeliverKeepsRefundInv ==
  ASSUME NEW id \in EventIds, TypeOK, RefundInv, Deliver(id)
  PROVE  RefundInv'
  <1> USE DEF TypeOK, RefundInv, RefundStateAgrees, Accept, Ignore
  <1>1. CASE Duplicate(id) \/ Reject(id)
    BY <1>1 DEF Duplicate, Reject
  <1>2. CASE Authorize(id)
    BY <1>2 DEF Authorize
  <1>3. CASE Capture(id)
    BY <1>3 DEF Capture
  <1>4. CASE Fail(id)
    BY <1>4 DEF Fail
  <1>5. CASE Refund(id)
    <2>1. CASE state \in {"Captured", "PartiallyRefunded"}
      <3>1. /\ Due(id) \in 1..(Amount - refunded)
            /\ refunded' = refunded + Due(id)
            /\ state' = IF refunded' >= Amount THEN "Refunded" ELSE "PartiallyRefunded"
        BY <1>5, <2>1, RefundableIsDue DEF Refund, Reaches
      <3> QED
        BY <3>1, AmountIsMinorUnits
    <2>2. CASE state \notin {"Captured", "PartiallyRefunded"}
      BY <1>5, <2>2 DEF Refund
    <2> QED
      BY <2>1, <2>2
  <1> QED
    BY <1>1, <1>2, <1>3, <1>4, <1>5 DEF Deliver

LEMMA RefundInvHolds == Spec => []RefundInv
  <1>1. Init => RefundInv
    BY AmountIsMinorUnits DEF Init, RefundInv, RefundStateAgrees
  <1>2. TypeOK /\ RefundInv /\ [Next]_vars => RefundInv'
    <2>1. RefundInv /\ UNCHANGED vars => RefundInv'
      BY DEF RefundInv, RefundStateAgrees, vars
    <2> QED
      BY <2>1, DeliverKeepsRefundInv DEF Next
  <1> QED
    BY <1>1, <1>2, RefundsBounded, PTL DEF Spec

\* Money is out exactly in the two refunded states, for any amount and any refunds.
THEOREM RefundsAgree == Spec => []RefundStateAgrees
  <1>1. RefundInv => RefundStateAgrees
    BY DEF RefundInv
  <1> QED
    BY <1>1, RefundInvHolds, PTL

(***************************************************************************)
(* An acknowledged capture is never forgotten.                             *)
(***************************************************************************)
LEMMA DeliverKeepsCapture ==
  ASSUME NEW id \in EventIds, TypeOK, CaptureNeverLost, Deliver(id)
  PROVE  CaptureNeverLost'
  <1> USE DEF TypeOK, CaptureNeverLost, Acknowledged, Accept, Ignore, Reaches
  <1>1. UNCHANGED event
    BY DeliverKeepsEvents
  <1>2. CASE Duplicate(id) \/ Reject(id)
    BY <1>1, <1>2 DEF Duplicate, Reject
  <1>3. CASE Authorize(id)
    BY <1>1, <1>3 DEF Authorize
  <1>4. CASE Capture(id)
    BY <1>1, <1>4 DEF Capture
  <1>5. CASE Fail(id)
    BY <1>1, <1>5 DEF Fail
  <1>6. CASE Refund(id)
    BY <1>1, <1>6 DEF Refund
  <1> QED
    BY <1>2, <1>3, <1>4, <1>5, <1>6 DEF Deliver

\* A capture the entity acknowledged keeps counting, or waits for
\* reconciliation, and no payment counts as captured without one.
THEOREM CapturesKept == Spec => []CaptureNeverLost
  <1>1. Init => CaptureNeverLost
    BY DEF Init, CaptureNeverLost, Acknowledged
  <1>2. TypeOK /\ CaptureNeverLost /\ [Next]_vars => CaptureNeverLost'
    <2>1. CaptureNeverLost /\ UNCHANGED vars => CaptureNeverLost'
      BY DEF CaptureNeverLost, Acknowledged, vars
    <2> QED
      BY <2>1, DeliverKeepsCapture DEF Next
  <1> QED
    BY <1>1, <1>2, RefundsBounded, PTL DEF Spec

(***************************************************************************)
(* The entity implements the ledger: every delivery is a settlement, a     *)
(* return of money, a setting aside, or nothing.                           *)
(***************************************************************************)
LEMMA DeliverRefines ==
  ASSUME NEW id \in EventIds, TypeOK, Deliver(id)
  PROVE  [Ledger!Next]_Ledger!ledgerVars
  <1> USE DEF Ledger!ledgerVars, Accept, Ignore, TypeOK
  <1>1. CASE Duplicate(id) \/ Reject(id)
    BY <1>1 DEF Duplicate, Reject
  <1>2. CASE Authorize(id)
    BY <1>2 DEF Authorize
  <1>3. CASE Capture(id)
    BY <1>3 DEF Capture, Ledger!Next, Ledger!Settle, Ledger!SetAside
  <1>4. CASE Fail(id)
    BY <1>4 DEF Fail
  <1>5. CASE Refund(id)
    <2>1. CASE state \in {"Captured", "PartiallyRefunded"}
      <3>1. /\ Due(id) \in 1..(Amount - refunded)
            /\ refunded' = refunded + Due(id)
            /\ state' \in {"Refunded", "PartiallyRefunded"}
        BY <1>5, <2>1, RefundableIsDue DEF Refund, Reaches
      <3>2. Ledger!Return
        BY <2>1, <3>1, AmountIsMinorUnits DEF Ledger!Return
      <3> QED
        BY <3>2 DEF Ledger!Next
    <2>2. CASE state \notin {"Captured", "PartiallyRefunded"}
      BY <1>5, <2>2 DEF Refund, Ledger!Next, Ledger!SetAside
    <2> QED
      BY <2>1, <2>2
  <1> QED
    BY <1>1, <1>2, <1>3, <1>4, <1>5 DEF Deliver

\* Settled once and for good, money back only out of what was settled: the
\* entity does only what the books allow, for any provider.
THEOREM LedgerImplemented == Spec => ImplementsLedger
  <1>1. Init => Ledger!Init
    BY DEF Init, Ledger!Init
  <1>2. TypeOK /\ [Next]_vars => [Ledger!Next]_Ledger!ledgerVars
    <2>1. UNCHANGED vars => UNCHANGED Ledger!ledgerVars
      BY DEF vars, Ledger!ledgerVars
    <2> QED
      BY <2>1, DeliverRefines DEF Next
  <1> QED
    BY <1>1, <1>2, RefundsBounded, PTL DEF Spec, ImplementsLedger, Ledger!Spec

(***************************************************************************)
(* The state tells which kinds of event were taken: the induction needs it *)
(* of every state, also of those an acknowledged failure or refund leads   *)
(* to.                                                                     *)
(***************************************************************************)
StoryInv ==
  /\ state = "Created" => seen = {}
  /\ state = "Authorized" => Acknowledged("authorized") /\ ~Acknowledged("captured")
  /\ state = "Captured" => Acknowledged("captured")
  /\ state = "Failed" => Acknowledged("failed")
  /\ state \in {"PartiallyRefunded", "Refunded"} => Acknowledged("refund")
  /\ state = "PendingReconciliation" => Acknowledged("failed") \/ Acknowledged("refund")

LEMMA DeliverKeepsStory ==
  ASSUME NEW id \in EventIds, TypeOK, StoryInv, Deliver(id)
  PROVE  StoryInv'
  <1> USE DEF TypeOK, StoryInv, Acknowledged, Accept, Ignore, Reaches
  <1>1. UNCHANGED event
    BY DeliverKeepsEvents
  <1>2. CASE Duplicate(id) \/ Reject(id)
    BY <1>1, <1>2 DEF Duplicate, Reject
  <1>3. CASE Authorize(id)
    BY <1>1, <1>3 DEF Authorize
  <1>4. CASE Capture(id)
    BY <1>1, <1>4 DEF Capture
  <1>5. CASE Fail(id)
    BY <1>1, <1>5 DEF Fail
  <1>6. CASE Refund(id)
    BY <1>1, <1>6 DEF Refund
  <1> QED
    BY <1>2, <1>3, <1>4, <1>5, <1>6 DEF Deliver

\* Without a failure or a refund the state is what the set of events taken says, for any
\* number of events and however often and in whatever order they came.
THEOREM StateIsOfTheSet == Spec => []StateFollowsEvents
  <1>1. Init => StoryInv
    BY DEF Init, StoryInv
  <1>2. TypeOK /\ StoryInv /\ [Next]_vars => StoryInv'
    <2>1. StoryInv /\ UNCHANGED vars => StoryInv'
      BY DEF StoryInv, Acknowledged, vars
    <2> QED
      BY <2>1, DeliverKeepsStory DEF Next
  <1>3. TypeOK /\ StoryInv => StateFollowsEvents
    BY DEF TypeOK, StoryInv, StateFollowsEvents, Acknowledged
  <1> QED
    BY <1>1, <1>2, <1>3, RefundsBounded, PTL DEF Spec

(***************************************************************************)
(* The refunded amount counts every refund taken once.  A payment that can *)
(* still be captured has taken none: what the induction needs to know when *)
(* the count begins.                                                       *)
(***************************************************************************)
CountInv ==
  /\ state \in {"Created", "Authorized"} => ~Acknowledged("refund")
  /\ state \in {"Captured", "PartiallyRefunded"} =>
       IsFiniteSet(RefundedUnits) /\ refunded = Cardinality(RefundedUnits)

\* A refund of k minor units adds k units that no other event has.
LEMMA UnitsAreCounted ==
  ASSUME NEW id, NEW k \in Nat
  PROVE  /\ IsFiniteSet({id} \X (1..k))
         /\ Cardinality({id} \X (1..k)) = k
  <1>1. IsFiniteSet({id}) /\ Cardinality({id}) = 1
    BY FS_Singleton
  <1>2. IsFiniteSet(1..k) /\ Cardinality(1..k) = k
    BY FS_Interval
  <1>3. /\ IsFiniteSet({id} \X (1..k))
        /\ Cardinality({id} \X (1..k)) = Cardinality({id}) * Cardinality(1..k)
    BY <1>1, <1>2, FS_Product, Zenon
  <1>4. Cardinality({id}) * Cardinality(1..k) = k
    BY <1>1, <1>2
  <1> QED
    BY <1>3, <1>4

\* Taking the event id leaves the units of the others and adds its own, if it is a refund.
LEMMA UnitsAfter ==
  ASSUME NEW id \in EventIds, UNCHANGED event, seen' = seen \cup {id}
  PROVE  /\ event[id].type # "refund" => RefundedUnits' = RefundedUnits
         /\ event[id].type = "refund" => RefundedUnits' = RefundedUnits \cup UnitsOf(id)
  BY DEF RefundedUnits, UnitsOf

LEMMA RefundIsCounted ==
  ASSUME NEW id \in EventIds, TypeOK, CountInv, Refund(id),
         state \in {"Captured", "PartiallyRefunded"}, state' = "PartiallyRefunded"
  PROVE  IsFiniteSet(RefundedUnits') /\ refunded' = Cardinality(RefundedUnits')
  <1> DEFINE U == RefundedUnits
             V == UnitsOf(id)
  <1>1. /\ id \notin seen /\ event[id].type = "refund" /\ UNCHANGED event
        /\ seen' = seen \cup {id} /\ refunded' = refunded + Due(id)
        /\ Due(id) \in 1..(Amount - refunded) /\ refunded' < Amount
    BY RefundableIsDue, AmountIsMinorUnits DEF Refund, Reaches, Accept, TypeOK
  <1>2. event[id].refund = Due(id) /\ Due(id) \in Nat
    BY <1>1, AmountIsMinorUnits DEF Due, Remaining, TypeOK
  <1>3. IsFiniteSet(V) /\ Cardinality(V) = Due(id)
    BY <1>2, UnitsAreCounted DEF UnitsOf
  <1>4. IsFiniteSet(U) /\ Cardinality(U) = refunded
    BY DEF CountInv
  <1>5. U \cap V = {}
    BY <1>1 DEF RefundedUnits, UnitsOf
  <1>6. IsFiniteSet(U \cup V) /\ Cardinality(U \cup V) = refunded + Due(id)
    <2>1. Cardinality(U \cap V) = 0
      BY <1>5, FS_EmptySet
    <2>2. Cardinality(U \cup V) = Cardinality(U) + Cardinality(V) - Cardinality(U \cap V)
      BY <1>3, <1>4, FS_Union
    <2> QED
      BY <1>2, <1>3, <1>4, <2>1, <2>2, FS_Union DEF TypeOK
  <1>7. RefundedUnits' = U \cup V
    BY <1>1, UnitsAfter
  <1> QED
    BY <1>1, <1>6, <1>7

LEMMA DeliverKeepsCount ==
  ASSUME NEW id \in EventIds, TypeOK, RefundInv, CountInv, Deliver(id)
  PROVE  CountInv'
  <1> USE DEF CountInv, Acknowledged, Accept, Ignore, Reaches
  <1>1. UNCHANGED event
    BY DeliverKeepsEvents
  <1>2. UNCHANGED seen => UNCHANGED RefundedUnits
    BY <1>1 DEF RefundedUnits, UnitsOf
  <1>3. CASE Duplicate(id) \/ Reject(id)
    BY <1>1, <1>2, <1>3 DEF Duplicate, Reject
  <1>4. CASE Authorize(id)
    BY <1>1, <1>4, UnitsAfter DEF Authorize
  <1>5. CASE Capture(id)
    <2>1. CASE state \in {"Created", "Authorized"}
      <3>1. RefundedUnits = {} /\ refunded = 0
        BY <2>1 DEF RefundedUnits, RefundInv, TypeOK
      <3> QED
        BY <1>1, <1>5, <2>1, <3>1, UnitsAfter, FS_EmptySet DEF Capture
    <2>2. CASE state \notin {"Created", "Authorized"}
      BY <1>1, <1>5, <2>2, UnitsAfter DEF Capture
    <2> QED
      BY <2>1, <2>2
  <1>6. CASE Fail(id)
    BY <1>1, <1>6, UnitsAfter DEF Fail
  <1>7. CASE Refund(id)
    <2>1. CASE state \in {"Captured", "PartiallyRefunded"}
      <3>1. state' \in {"Refunded", "PartiallyRefunded"}
        BY <1>7, <2>1 DEF Refund
      <3> QED
        BY <1>7, <2>1, <3>1, RefundIsCounted
    <2>2. CASE state \notin {"Captured", "PartiallyRefunded"}
      BY <1>7, <2>2 DEF Refund
    <2> QED
      BY <2>1, <2>2
  <1> QED
    BY <1>3, <1>4, <1>5, <1>6, <1>7 DEF Deliver

\* The refunded amount is the sum of the refunds taken, each counted once, however often and
\* in whatever order they were delivered, for any amounts.
THEOREM RefundsCounted == Spec => []RefundsCountedOnce
  <1>1. Init => CountInv
    BY DEF Init, CountInv, Acknowledged
  <1>2. TypeOK /\ RefundInv /\ CountInv /\ [Next]_vars => CountInv'
    <2>1. CountInv /\ UNCHANGED vars => CountInv'
      BY DEF CountInv, Acknowledged, RefundedUnits, UnitsOf, vars
    <2> QED
      BY <2>1, DeliverKeepsCount DEF Next
  <1>3. CountInv => RefundsCountedOnce
    BY DEF CountInv, RefundsCountedOnce
  <1> QED
    BY <1>1, <1>2, <1>3, RefundInvHolds, RefundsBounded, PTL DEF Spec

=============================================================================
