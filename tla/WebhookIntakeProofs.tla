------------------------ MODULE WebhookIntakeProofs ------------------------
(***************************************************************************)
(* Proofs about WebhookIntake for any number of calls and payments and any *)
(* size of the cache.                                                      *)
(***************************************************************************)
EXTENDS WebhookIntake, TLAPS

\* Every state is well formed.
THEOREM TypeCorrect == Spec => []TypeOK
  <1>1. Init => TypeOK
    BY DEF Init, TypeOK, Event
  <1>2. TypeOK /\ [Next]_vars => TypeOK'
    <2> SUFFICES ASSUME TypeOK, [Next]_vars PROVE TypeOK'
      OBVIOUS
    <2> USE DEF requestVars, Goto, event_id, Fresh
    <2>1. ASSUME NEW c \in Calls, Refuse(c) PROVE TypeOK'
      BY <2>1 DEF Refuse, TypeOK
    <2>2. ASSUME NEW c \in Calls, Admit(c) PROVE TypeOK'
      BY <2>2 DEF Admit, TypeOK
    <2>3. ASSUME NEW c \in Calls, Contains(c) PROVE TypeOK'
      BY <2>3 DEF Contains, TypeOK
    <2>4. ASSUME NEW c \in Calls, Size(c) PROVE TypeOK'
      BY <2>4 DEF Size, TypeOK
    <2>5. ASSUME NEW c \in Calls, Retain(c) PROVE TypeOK'
      BY <2>5, ZenonT(60) DEF Retain, TypeOK
    <2>6. ASSUME NEW c \in Calls, Insert(c) PROVE TypeOK'
      <3>1. says[c].payment \in Payments
        BY DEF TypeOK, Event
      <3>2. DOMAIN seen' \subseteq Payments /\ \A p \in DOMAIN seen' : seen'[p] \in BOOLEAN
        BY <2>6, <3>1 DEF Insert, TypeOK
      <3> QED
        BY <2>6, <3>2 DEF Insert, TypeOK
    <2>7. ASSUME NEW c \in Calls, ApplyEvent(c) PROVE TypeOK'
      <3>1. updates' \in [Event -> Nat]
        BY <2>7 DEF ApplyEvent, TypeOK
      <3> QED
        BY <2>7, <3>1 DEF ApplyEvent, TypeOK
    <2>8. ASSUME NEW p \in Payments, Age(p) PROVE TypeOK'
      BY <2>8 DEF Age, TypeOK
    <2>9. CASE UNCHANGED vars
      BY <2>9 DEF vars, TypeOK
    <2> QED
      BY <2>1, <2>2, <2>3, <2>4, <2>5, <2>6, <2>7, <2>8, <2>9 DEF Next, Handle
  <1> QED
    BY <1>1, <1>2, PTL DEF Spec

\* Why a call that came in after its id was marked is turned away: until it
\* looks the id up, the entry is there and less than an hour old, and no call
\* that has not begun was accepted.
KnownInv ==
  /\ \A c \in Calls : pc[c] = "idle" => answer[c] # "accepted"
  /\ \A c \in known : route[c] = "webhook" =>
       /\ ~Accepting(c)
       /\ pc[c] = "contains" => event_id(c) \in Fresh
       /\ pc[c] # "idle"

LEMMA NextKnown == TypeOK /\ KnownInv /\ [Next]_vars => KnownInv'
  <1> SUFFICES ASSUME TypeOK, KnownInv, [Next]_vars PROVE KnownInv'
    OBVIOUS
  <1> USE DEF requestVars, Goto, event_id, Fresh, TypeOK, KnownInv, Accepting
  <1>1. ASSUME NEW c \in Calls, Refuse(c) PROVE KnownInv'
    BY <1>1 DEF Refuse
  <1>2. ASSUME NEW c \in Calls, Admit(c) PROVE KnownInv'
    BY <1>2 DEF Admit
  <1>3. ASSUME NEW c \in Calls, Contains(c) PROVE KnownInv'
    BY <1>3 DEF Contains
  <1>4. ASSUME NEW c \in Calls, Size(c) PROVE KnownInv'
    BY <1>4 DEF Size
  <1>5. ASSUME NEW c \in Calls, Retain(c) PROVE KnownInv'
    <2>1. UNCHANGED <<route, says, answer, known>>
      BY <1>5 DEF Retain
    <2>2. Fresh \subseteq Fresh'
      BY <1>5, ZenonT(60) DEF Retain
    <2>3. \A d \in Calls : pc'[d] # pc[d] => pc[d] = "retain" /\ pc'[d] = "insert"
      BY <1>5 DEF Retain
    <2> QED
      BY <2>1, <2>2, <2>3
  <1>6. ASSUME NEW c \in Calls, Insert(c) PROVE KnownInv'
    BY <1>6 DEF Insert
  <1>7. ASSUME NEW c \in Calls, ApplyEvent(c) PROVE KnownInv'
    BY <1>7 DEF ApplyEvent
  <1>8. ASSUME NEW p \in Payments, Age(p) PROVE KnownInv'
    BY <1>8 DEF Age
  <1>9. CASE UNCHANGED vars
    BY <1>9 DEF vars
  <1> QED
    BY <1>1, <1>2, <1>3, <1>4, <1>5, <1>6, <1>7, <1>8, <1>9 DEF Next, Handle

\* A webhook that comes in within an hour of its id being marked is never applied.
THEOREM RecentDuplicatesIgnored == Spec => []RecentlySeenIgnored
  <1>1. Init => KnownInv
    BY DEF Init, KnownInv
  <1>2. KnownInv => RecentlySeenIgnored
    BY DEF KnownInv, RecentlySeenIgnored
  <1> QED
    BY <1>1, <1>2, NextKnown, TypeCorrect, PTL DEF Spec

=============================================================================
