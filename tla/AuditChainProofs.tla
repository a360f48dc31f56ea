-------------------------- MODULE AuditChainProofs --------------------------
(***************************************************************************)
(* The hash chain of the audit store for any number of appends, records    *)
(* and verifications.                                                      *)
(***************************************************************************)
EXTENDS AuditChain, FiniteSetTheorems, TLAPS

\* Hashing onto a hash gives a hash, and the entry hashed can be told from it.
LEMMA HashTypes ==
  ASSUME NEW id \in RecordIds, NEW original \in BOOLEAN, NEW previous \in Hash
  PROVE  /\ calculate_hash(id, original, previous) \in Hash
         /\ ~original => calculate_hash(id, original, previous) # calculate_hash(id, TRUE, previous)
  <1>1. [id |-> id, original |-> original] \in Entry
    BY DEF Entry
  <1>2. calculate_hash(id, original, previous) \in Hash
    BY <1>1 DEF calculate_hash, Hash
  <1>3. calculate_hash(id, original, previous)[Len(previous) + 1] = [id |-> id, original |-> original]
    BY <1>1 DEF calculate_hash, Hash
  <1>4. calculate_hash(id, TRUE, previous)[Len(previous) + 1] = [id |-> id, original |-> TRUE]
    BY DEF calculate_hash, Hash, Entry
  <1>5. ~original => [id |-> id, original |-> original].original
                        # [id |-> id, original |-> TRUE].original
    OBVIOUS
  <1> QED
    BY <1>2, <1>3, <1>4, <1>5

\* A step of an append call keeps the type of its local state.
LEMMA StepTypes ==
  ASSUME append \in [RecordIds -> Call], NEW id \in RecordIds,
         NEW from \in AppendSteps, NEW to \in AppendSteps, Step(id, from, to)
  PROVE  append' \in [RecordIds -> Call]
  <1>1. [append[id] EXCEPT !.pc = to] \in Call
    BY DEF Call
  <1> QED
    BY <1>1 DEF Step, Become

LEMMA PutTypes ==
  ASSUME DOMAIN records \subseteq RecordIds, \A i \in DOMAIN records : records[i] \in Record,
         NEW id \in RecordIds, NEW r \in Record, Put(id, r)
  PROVE  /\ DOMAIN records' = DOMAIN records \cup {id}
         /\ \A i \in DOMAIN records' : records'[i] = IF i = id THEN r ELSE records[i]
         /\ DOMAIN records' \subseteq RecordIds
         /\ \A i \in DOMAIN records' : records'[i] \in Record
  BY DEF Put

LEMMA InitTypes == Init => TypeOK
  <1> SUFFICES ASSUME Init PROVE TypeOK
    OBVIOUS
  <1>1. GENESIS_HASH \in Hash
    BY DEF GENESIS_HASH, Hash
  <1> QED
    BY <1>1 DEF Init, TypeOK, AppendSteps, Call, Verification

LEMMA NextTypes == TypeOK /\ [Next]_vars => TypeOK'
  <1> SUFFICES ASSUME TypeOK, [Next]_vars PROVE TypeOK'
    OBVIOUS
  <1> USE DEF TypeOK, storeVars, lockVars
  <1>a. \A s \in {"start", "order", "link", "push", "store", "trace", "release", "done"} :
          s \in AppendSteps
    BY DEF AppendSteps
  <1>c. ASSUME NEW v \in Verifiers, NEW l \in Verification, verify' = [verify EXCEPT ![v] = l]
        PROVE  verify' \in [Verifiers -> Verification]
    BY <1>c
  <1>1. ASSUME NEW id \in RecordIds, LockHash(id) PROVE TypeOK'
    BY <1>1, <1>a, StepTypes DEF LockHash
  <1>2. ASSUME NEW id \in RecordIds, LockOrder(id) PROVE TypeOK'
    BY <1>2, <1>a, StepTypes DEF LockOrder
  <1>3. ASSUME NEW id \in RecordIds, Link(id) PROVE TypeOK'
    <2>1. [pc |-> "push", previous |-> lastHash] \in Call
      BY <1>a DEF Call
    <2> QED
      BY <1>3, <2>1, HashTypes DEF Link, Become
  <1>4. ASSUME NEW id \in RecordIds, Push(id) PROVE TypeOK'
    BY <1>4, <1>a, StepTypes DEF Push
  <1>5. ASSUME NEW id \in RecordIds, Store(id) PROVE TypeOK'
    <2>1. [original |-> TRUE, previous |-> append[id].previous,
           current |-> calculate_hash(id, TRUE, append[id].previous)] \in Record
      BY HashTypes DEF Record, Call
    <2> QED
      BY <1>5, <1>a, StepTypes, <2>1, PutTypes DEF Store
  <1>6. ASSUME NEW id \in RecordIds, IndexTrace(id) PROVE TypeOK'
    BY <1>6, <1>a, StepTypes, TracesOfRecords DEF IndexTrace
  <1>7. ASSUME NEW id \in RecordIds, Release(id) PROVE TypeOK'
    BY <1>7, <1>a, StepTypes DEF Release
  <1>8. ASSUME NEW id \in RecordIds, Overwrite(id) PROVE TypeOK'
    <2>1. [records[id] EXCEPT !.original = FALSE] \in Record
      BY <1>8 DEF Overwrite, Record
    <2> QED
      BY <1>8, <2>1, PutTypes DEF Overwrite
  <1>9. ASSUME NEW v \in Verifiers, LockRead(v) PROVE TypeOK'
    <2>1. [verify[v] EXCEPT !.pc = "scan", !.altered = Altered] \in Verification
      BY DEF Verification, Altered
    <2> QED
      BY <1>9, <1>c, <2>1 DEF LockRead, Proceed
  <1>10. ASSUME NEW v \in Verifiers, Check(v) PROVE TypeOK'
    <2>1. PICK b \in BOOLEAN, h \in Hash :
            verify' = [verify EXCEPT ![v] =
                         [verify[v] EXCEPT !.next = @ + 1, !.violation = b, !.expected = h]]
      <3> DEFINE id == orderedIds[verify[v].next]
      <3>1. (verify[v].violation \/ Violates(id, verify[v].expected)) \in BOOLEAN
        OBVIOUS
      <3>2. (IF id \in DOMAIN records THEN records[id].current ELSE verify[v].expected) \in Hash
        BY DEF Record, Verification
      <3> QED
        BY <1>10, <3>1, <3>2 DEF Check, Proceed
    <2>2. [verify[v] EXCEPT !.next = @ + 1, !.violation = b, !.expected = h] \in Verification
      <3>1. verify[v] \in Verification /\ verify[v].next + 1 \in Nat \ {0}
        BY DEF Verification
      <3> QED
        BY <3>1 DEF Verification
    <2> QED
      BY <1>10, <1>c, <2>1, <2>2 DEF Check
  <1>11. ASSUME NEW v \in Verifiers, Report(v) PROVE TypeOK'
    <2>1. [verify[v] EXCEPT !.pc = "done"] \in Verification
      BY DEF Verification
    <2> QED
      BY <1>11, <1>c, <2>1 DEF Report, Proceed
  <1>12. CASE UNCHANGED vars
    BY <1>12 DEF vars
  <1> QED
    BY <1>1, <1>2, <1>3, <1>4, <1>5, <1>6, <1>7, <1>8, <1>9, <1>10, <1>11, <1>12
       DEF Next, Appending, Verifying

\* The state keeps its shape.
THEOREM TypeCorrect == Spec => []TypeOK
  BY InitTypes, NextTypes, PTL DEF Spec

-----------------------------------------------------------------------------
(* ChainUnbroken is not inductive: that a record links to the one before   *)
(* it follows from what last_hash was when it was linked, and that from    *)
(* who may hold the two locks.                                             *)

Holding == {"order", "link", "push", "store", "trace", "release"}
Writing == {"link", "push", "store", "trace", "release"}

\* Who holds which lock.
LockInv ==
  /\ \A id \in RecordIds : append[id].pc \in Holding <=> hashLock = id
  /\ \A id \in RecordIds : append[id].pc \in Writing <=> orderWriter = id
  /\ orderWriter # NoOne => orderReaders = {}

\* The current hash of the record ordered at i, the genesis hash before the first.
HashAt(rs, ids, i) == IF i = 0 THEN GENESIS_HASH ELSE rs[ids[i]].current

\* How far each append has come: which records are stored, which are ordered,
\* and that only the append under way has ordered an id without its record, or
\* without its place in the index: the last.
ProgressInv ==
  /\ \A id \in RecordIds :
       id \in DOMAIN records <=> append[id].pc \in {"trace", "release", "done"}
  /\ \A i \in 1..Len(orderedIds) :
       /\ append[orderedIds[i]].pc \in {"store", "trace", "release", "done"}
       /\ append[orderedIds[i]].pc = "store" => i = Len(orderedIds)
  /\ \A id \in RecordIds : append[id].pc \in {"store", "trace"} =>
       Len(orderedIds) > 0 /\ orderedIds[Len(orderedIds)] = id

\* What the hashes are in the middle of an append, and between two of them.
HashInv ==
  /\ (\A id \in RecordIds : append[id].pc \notin {"push", "store"}) =>
       lastHash = HashAt(records, orderedIds, Len(orderedIds))
  /\ \A id \in RecordIds : append[id].pc \in {"push", "store"} =>
       /\ lastHash = calculate_hash(id, TRUE, append[id].previous)
       /\ append[id].previous =
            HashAt(records, orderedIds,
                   IF append[id].pc = "push" THEN Len(orderedIds) ELSE Len(orderedIds) - 1)
  /\ \A i \in 1..Len(orderedIds) : orderedIds[i] \in DOMAIN records =>
       records[orderedIds[i]].previous = HashAt(records, orderedIds, i - 1)

IInv == TypeOK /\ LockInv /\ ProgressInv /\ HashInv

LEMMA InitIInv == Init => IInv
  <1> SUFFICES ASSUME Init PROVE IInv
    OBVIOUS
  <1>1. LockInv
    BY NoOneCalls DEF Init, LockInv, Holding, Writing
  <1>2. ProgressInv
    BY DEF Init, ProgressInv
  <1>3. HashInv
    BY DEF Init, HashInv, HashAt
  <1> QED
    BY <1>1, <1>2, <1>3, InitTypes DEF IInv

\* What a step of an append call does to the program counters.
LEMMA StepCounters ==
  ASSUME append \in [RecordIds -> Call], NEW id \in RecordIds,
         NEW from \in AppendSteps, NEW to \in AppendSteps, Step(id, from, to)
  PROVE  /\ append[id].pc = from
         /\ \A q \in RecordIds : append'[q].pc = IF q = id THEN to ELSE append[q].pc
         /\ \A q \in RecordIds : append'[q].previous = append[q].previous
  <1>1. [append[id] EXCEPT !.pc = to].pc = to
        /\ [append[id] EXCEPT !.pc = to].previous = append[id].previous
    BY DEF Call
  <1> QED
    BY <1>1 DEF Step, Become

\* The locks do exclude: two appends never hold one, nor an append and a verification.
LEMMA NextLocks == TypeOK /\ LockInv /\ [Next]_vars => LockInv'
  <1> SUFFICES ASSUME TypeOK, LockInv, [Next]_vars PROVE LockInv'
    OBVIOUS
  <1> USE NoOneCalls DEF LockInv, Holding, Writing, storeVars, lockVars
  <1>a. append \in [RecordIds -> Call]
    BY DEF TypeOK
  <1>b. \A s \in {"start", "order", "link", "push", "store", "trace", "release", "done"} :
          s \in AppendSteps
    BY DEF AppendSteps
  <1>1. ASSUME NEW id \in RecordIds, LockHash(id) PROVE LockInv'
    BY <1>1, <1>a, <1>b, StepCounters DEF LockHash
  <1>2. ASSUME NEW id \in RecordIds, LockOrder(id) PROVE LockInv'
    BY <1>2, <1>a, <1>b, StepCounters DEF LockOrder
  <1>3. ASSUME NEW id \in RecordIds, Link(id) PROVE LockInv'
    BY <1>3, <1>a, <1>b DEF Link, Become
  <1>4. ASSUME NEW id \in RecordIds, Push(id) PROVE LockInv'
    BY <1>4, <1>a, <1>b, StepCounters DEF Push
  <1>5. ASSUME NEW id \in RecordIds, Store(id) PROVE LockInv'
    BY <1>5, <1>a, <1>b, StepCounters DEF Store
  <1>6. ASSUME NEW id \in RecordIds, IndexTrace(id) PROVE LockInv'
    BY <1>6, <1>a, <1>b, StepCounters DEF IndexTrace
  <1>7. ASSUME NEW id \in RecordIds, Release(id) PROVE LockInv'
    BY <1>7, <1>a, <1>b, StepCounters DEF Release
  <1>8. ASSUME NEW id \in RecordIds, Overwrite(id) PROVE LockInv'
    BY <1>8 DEF Overwrite
  <1>9. ASSUME NEW v \in Verifiers, Verifying(v) PROVE LockInv'
    BY <1>9 DEF Verifying, LockRead, Check, Report
  <1>10. CASE UNCHANGED vars
    BY <1>10 DEF vars
  <1> QED
    BY <1>1, <1>2, <1>3, <1>4, <1>5, <1>6, <1>7, <1>8, <1>9, <1>10 DEF Next, Appending

\* Only one append at a time is between linking its record and releasing its locks.
LEMMA OneWriter ==
  ASSUME LockInv, NEW p \in RecordIds, NEW q \in RecordIds,
         append[p].pc \in Writing, append[q].pc \in Writing
  PROVE  p = q
  BY DEF LockInv

LEMMA NextProgress == TypeOK /\ LockInv /\ ProgressInv /\ [Next]_vars => ProgressInv'
  <1> SUFFICES ASSUME TypeOK, LockInv, ProgressInv, [Next]_vars PROVE ProgressInv'
    OBVIOUS
  <1> USE DEF ProgressInv, storeVars, lockVars
  <1>a. append \in [RecordIds -> Call] /\ orderedIds \in Seq(RecordIds)
    BY DEF TypeOK
  <1>b. \A s \in {"start", "order", "link", "push", "store", "trace", "release", "done"} :
          s \in AppendSteps
    BY DEF AppendSteps
  <1>c. \A i \in 1..Len(orderedIds) : orderedIds[i] \in RecordIds
    BY <1>a
  <1>1. ASSUME NEW id \in RecordIds, LockHash(id) PROVE ProgressInv'
    BY <1>1, <1>a, <1>b, <1>c, StepCounters DEF LockHash
  <1>2. ASSUME NEW id \in RecordIds, LockOrder(id) PROVE ProgressInv'
    BY <1>2, <1>a, <1>b, <1>c, StepCounters DEF LockOrder
  <1>3. ASSUME NEW id \in RecordIds, Link(id) PROVE ProgressInv'
    BY <1>3, <1>a, <1>c DEF Link, Become
  <1>4. ASSUME NEW id \in RecordIds, Push(id) PROVE ProgressInv'
    <2>1. /\ append[id].pc = "push"
          /\ \A q \in RecordIds : append'[q].pc = IF q = id THEN "store" ELSE append[q].pc
      BY <1>4, <1>a, <1>b, StepCounters DEF Push
    <2>2. \A q \in RecordIds : append[q].pc \notin {"store", "trace"}
      BY <2>1, OneWriter DEF Writing
    <2>3. /\ Len(orderedIds') = Len(orderedIds) + 1
          /\ \A i \in 1..Len(orderedIds) : orderedIds'[i] = orderedIds[i]
          /\ orderedIds'[Len(orderedIds) + 1] = id
      BY <1>4, <1>a DEF Push
    <2> QED
      BY <1>4, <1>a, <1>c, <2>1, <2>2, <2>3 DEF Push
  <1>5. ASSUME NEW id \in RecordIds, Store(id) PROVE ProgressInv'
    <2>1. /\ append[id].pc = "store"
          /\ \A q \in RecordIds : append'[q].pc = IF q = id THEN "trace" ELSE append[q].pc
      BY <1>5, <1>a, <1>b, StepCounters DEF Store
    <2>2. \A q \in RecordIds : append[q].pc = "store" => q = id
      BY <2>1, OneWriter DEF Writing
    <2>3. DOMAIN records' = DOMAIN records \cup {id}
      BY <1>5 DEF Store, Put
    <2> QED
      BY <1>5, <1>a, <1>c, <2>1, <2>2, <2>3 DEF Store
  <1>6. ASSUME NEW id \in RecordIds, IndexTrace(id) PROVE ProgressInv'
    BY <1>6, <1>a, <1>b, <1>c, StepCounters DEF IndexTrace
  <1>7. ASSUME NEW id \in RecordIds, Release(id) PROVE ProgressInv'
    BY <1>7, <1>a, <1>b, <1>c, StepCounters DEF Release
  <1>8. ASSUME NEW id \in RecordIds, Overwrite(id) PROVE ProgressInv'
    BY <1>8 DEF Overwrite, Put
  <1>9. ASSUME NEW v \in Verifiers, Verifying(v) PROVE ProgressInv'
    BY <1>9 DEF Verifying, LockRead, Check, Report
  <1>10. CASE UNCHANGED vars
    BY <1>10 DEF vars
  <1> QED
    BY <1>1, <1>2, <1>3, <1>4, <1>5, <1>6, <1>7, <1>8, <1>9, <1>10 DEF Next, Appending

\* The hashes of the records already ordered do not depend on what is appended.
LEMMA NextHashes ==
  TypeOK /\ LockInv /\ ProgressInv /\ HashInv /\ [Next]_vars => HashInv'
  <1> SUFFICES ASSUME TypeOK, LockInv, ProgressInv, HashInv, [Next]_vars PROVE HashInv'
    OBVIOUS
  <1> DEFINE H(i) == HashAt(records, orderedIds, i)
             K(i) == HashAt(records', orderedIds', i)
  <1> USE DEF storeVars, lockVars
  <1>a. append \in [RecordIds -> Call] /\ orderedIds \in Seq(RecordIds) /\ Len(orderedIds) \in Nat
    BY DEF TypeOK
  <1>b. \A s \in {"start", "order", "link", "push", "store", "trace", "release", "done"} :
          s \in AppendSteps
    BY DEF AppendSteps
  <1>c. \A i \in 1..Len(orderedIds) : orderedIds[i] \in RecordIds
    BY <1>a
  \* A step that changes neither hashes nor order and neither enters nor leaves
  \* the two middle steps of an append keeps the invariant.
  <1>d. ASSUME UNCHANGED storeVars,
               \A q \in RecordIds : /\ append'[q].previous = append[q].previous
                                    /\ append'[q].pc # append[q].pc =>
                                         {append[q].pc, append'[q].pc} \cap {"push", "store"} = {}
        PROVE  HashInv'
    BY <1>d DEF HashInv, HashAt
  <1>1. ASSUME NEW id \in RecordIds, LockHash(id) PROVE HashInv'
    BY <1>1, <1>a, <1>b, <1>d, StepCounters DEF LockHash
  <1>2. ASSUME NEW id \in RecordIds, LockOrder(id) PROVE HashInv'
    BY <1>2, <1>a, <1>b, <1>d, StepCounters DEF LockOrder
  <1>3. ASSUME NEW id \in RecordIds, Link(id) PROVE HashInv'
    <2>1. /\ append[id].pc = "link"
          /\ \A q \in RecordIds : append'[q] = IF q = id THEN [pc |-> "push", previous |-> lastHash]
                                               ELSE append[q]
          /\ UNCHANGED <<records, orderedIds>>
          /\ lastHash' = calculate_hash(id, TRUE, lastHash)
      BY <1>3, <1>a DEF Link, Become
    <2>2. \A q \in RecordIds : append[q].pc \notin {"push", "store"}
      BY <2>1, OneWriter DEF Writing
    <2>3. lastHash = H(Len(orderedIds))
      BY <2>2 DEF HashInv
    <2>4. \A i : K(i) = H(i)
      BY <2>1 DEF HashAt
    <2>5. \A q \in RecordIds :
            /\ append'[q].pc \in {"push", "store"} => q = id
            /\ append'[id].pc = "push" /\ append'[id].previous = lastHash
      BY <2>1, <2>2
    <2> QED
      BY <2>1, <2>3, <2>4, <2>5 DEF HashInv
  <1>4. ASSUME NEW id \in RecordIds, Push(id) PROVE HashInv'
    <2>1. /\ append[id].pc = "push"
          /\ \A q \in RecordIds : append'[q].pc = IF q = id THEN "store" ELSE append[q].pc
          /\ \A q \in RecordIds : append'[q].previous = append[q].previous
          /\ UNCHANGED <<records, lastHash>>
      BY <1>4, <1>a, <1>b, StepCounters DEF Push
    <2>2. \A q \in RecordIds : append[q].pc \in {"push", "store"} => q = id
      BY <2>1, OneWriter DEF Writing
    <2>3. /\ Len(orderedIds') = Len(orderedIds) + 1
          /\ \A i \in 1..Len(orderedIds) : orderedIds'[i] = orderedIds[i]
          /\ orderedIds'[Len(orderedIds) + 1] = id
      BY <1>4, <1>a DEF Push
    <2>4. \A i \in 0..Len(orderedIds) : K(i) = H(i)
      BY <2>1, <2>3, <1>a DEF HashAt
    <2>5. id \notin DOMAIN records
      BY <2>1 DEF ProgressInv
    <2>6. append[id].previous = H(Len(orderedIds))
          /\ lastHash = calculate_hash(id, TRUE, append[id].previous)
      BY <2>1 DEF HashInv
    <2>7. \A i \in 1..Len(orderedIds') : orderedIds'[i] \in DOMAIN records' =>
            records'[orderedIds'[i]].previous = K(i - 1)
      <3>1. \A i \in 1..Len(orderedIds') : orderedIds'[i] \in DOMAIN records' =>
              i \in 1..Len(orderedIds) /\ orderedIds'[i] = orderedIds[i]
        BY <2>1, <2>3, <2>5, <1>a
      <3>2. \A i \in 1..Len(orderedIds) : K(i - 1) = H(i - 1)
        BY <2>4, <1>a
      <3> QED
        BY <3>1, <3>2, <2>1 DEF HashInv
    <2>8. \A q \in RecordIds : append'[q].pc \in {"push", "store"} => q = id
      BY <2>1, <2>2
    <2>9. Len(orderedIds') - 1 = Len(orderedIds) /\ K(Len(orderedIds)) = H(Len(orderedIds))
      BY <2>3, <2>4, <1>a
    <2> QED
      BY <2>1, <2>6, <2>7, <2>8, <2>9 DEF HashInv
  <1>5. ASSUME NEW id \in RecordIds, Store(id) PROVE HashInv'
    <2> DEFINE n == Len(orderedIds)
               r == [original |-> TRUE, previous |-> append[id].previous,
                     current |-> calculate_hash(id, TRUE, append[id].previous)]
    <2>1. /\ append[id].pc = "store"
          /\ \A q \in RecordIds : append'[q].pc = IF q = id THEN "trace" ELSE append[q].pc
          /\ UNCHANGED <<orderedIds, lastHash>>
      BY <1>5, <1>a, <1>b, StepCounters DEF Store
    <2>2. \A q \in RecordIds : append'[q].pc \notin {"push", "store"}
      BY <2>1, OneWriter DEF Writing
    <2>3. n > 0 /\ orderedIds[n] = id
      BY <2>1 DEF ProgressInv
    <2>4. \A i \in 1..n : orderedIds[i] = id => i = n
      BY <2>1 DEF ProgressInv
    <2>5. DOMAIN records' = DOMAIN records \cup {id}
          /\ \A i \in DOMAIN records' : records'[i] = IF i = id THEN r ELSE records[i]
      BY <1>5 DEF Store, Put
    <2>6. \A i \in 1..(n - 1) : orderedIds[i] \in DOMAIN records /\ orderedIds[i] # id
      BY <2>4, <1>a, <1>c DEF ProgressInv
    <2>7. \A i \in 0..(n - 1) : K(i) = H(i)
      BY <2>1, <2>5, <2>6, <1>a DEF HashAt
    <2>8. lastHash = calculate_hash(id, TRUE, append[id].previous)
          /\ append[id].previous = H(n - 1)
      BY <2>1 DEF HashInv
    <2>9. K(n) = r.current
      <3>1. records'[id] = r /\ orderedIds'[n] = id
        BY <2>1, <2>3, <2>5
      <3>2. n # 0
        BY <2>3, <1>a
      <3> HIDE DEF r, n
      <3> QED
        BY <3>1, <3>2 DEF HashAt
    <2>10. \A i \in 1..n : orderedIds'[i] \in DOMAIN records' =>
             records'[orderedIds'[i]].previous = K(i - 1)
      <3> SUFFICES ASSUME NEW i \in 1..n
                   PROVE  records'[orderedIds[i]].previous = K(i - 1)
        BY <2>1
      <3>1. K(i - 1) = H(i - 1)
        BY <2>7, <1>a
      <3>2. CASE i = n
        BY <3>1, <3>2, <2>3, <2>5, <2>8
      <3>3. CASE i # n
        <4>1. i \in 1..(n - 1)
          BY <3>3, <1>a
        <4>2. records'[orderedIds[i]] = records[orderedIds[i]]
          BY <4>1, <2>5, <2>6
        <4> QED
          BY <3>1, <4>1, <4>2, <2>6 DEF HashInv
      <3> QED
        BY <3>2, <3>3
    <2> QED
      BY <2>1, <2>2, <2>8, <2>9, <2>10 DEF HashInv
  <1>6. ASSUME NEW id \in RecordIds, IndexTrace(id) PROVE HashInv'
    <2>1. /\ append[id].pc = "trace"
          /\ \A q \in RecordIds : append'[q].pc = IF q = id THEN "release" ELSE append[q].pc
          /\ \A q \in RecordIds : append'[q].previous = append[q].previous
          /\ UNCHANGED <<records, orderedIds, lastHash>>
      BY <1>6, <1>a, <1>b, StepCounters DEF IndexTrace
    <2> QED
      BY <2>1 DEF HashInv, HashAt
  <1>7. ASSUME NEW id \in RecordIds, Release(id) PROVE HashInv'
    BY <1>7, <1>a, <1>b, <1>d, StepCounters DEF Release
  <1>8. ASSUME NEW id \in RecordIds, Overwrite(id) PROVE HashInv'
    <2>1. /\ DOMAIN records' = DOMAIN records
          /\ \A i \in DOMAIN records : /\ records'[i].previous = records[i].previous
                                       /\ records'[i].current = records[i].current
          /\ UNCHANGED <<append, orderedIds, lastHash>>
      <3>1. \A i \in DOMAIN records : records[i] \in Record
        BY DEF TypeOK
      <3> QED
        BY <1>8, <3>1 DEF Overwrite, Put, Record
    <2>2. \A i \in 0..Len(orderedIds) :
            (i # 0 => orderedIds[i] \in DOMAIN records) => K(i) = H(i)
      BY <2>1, <1>a DEF HashAt
    <2>3. \A i \in 1..(Len(orderedIds) - 1) : orderedIds[i] \in DOMAIN records
      BY <1>a, <1>c DEF ProgressInv
    <2>4. \A i \in 0..(Len(orderedIds) - 1) : K(i) = H(i)
      BY <2>2, <2>3, <1>a
    <2>5. Len(orderedIds) > 0 /\ orderedIds[Len(orderedIds)] \notin DOMAIN records
            => append[orderedIds[Len(orderedIds)]].pc = "store"
      BY <1>a, <1>c DEF ProgressInv
    <2>6. (\A q \in RecordIds : append[q].pc \notin {"push", "store"}) =>
            lastHash' = K(Len(orderedIds'))
      BY <2>1, <2>2, <2>5, <1>a, <1>c DEF HashInv
    <2>7. ASSUME NEW q \in RecordIds, append[q].pc = "push"
          PROVE  append[q].previous = K(Len(orderedIds'))
      <3>1. \A p \in RecordIds : append[p].pc # "store"
        BY <2>7, OneWriter DEF Writing
      <3>2. K(Len(orderedIds')) = H(Len(orderedIds))
        BY <3>1, <2>1, <2>2, <2>5, <1>a, <1>c
      <3> QED
        BY <2>7, <3>2 DEF HashInv
    <2>8. ASSUME NEW q \in RecordIds, append[q].pc = "store"
          PROVE  append[q].previous = K(Len(orderedIds') - 1)
      <3>1. Len(orderedIds) > 0
        BY <2>8 DEF ProgressInv
      <3> QED
        <4>1. K(Len(orderedIds) - 1) = H(Len(orderedIds) - 1)
          BY <2>4, <3>1, <1>a
        <4>2. append[q].previous = H(Len(orderedIds) - 1)
          BY <2>8 DEF HashInv
        <4> QED
          BY <4>1, <4>2, <2>1
    <2>9. \A q \in RecordIds : append[q].pc \in {"push", "store"} =>
            lastHash = calculate_hash(q, TRUE, append[q].previous)
      BY DEF HashInv
    <2>10. \A i \in 1..Len(orderedIds) : orderedIds[i] \in DOMAIN records =>
             records'[orderedIds[i]].previous = K(i - 1)
      <3>1. \A i \in 1..Len(orderedIds) : K(i - 1) = H(i - 1)
        BY <2>4, <1>a
      <3> QED
        BY <3>1, <2>1 DEF HashInv
    <2> QED
      BY <2>1, <2>6, <2>7, <2>8, <2>9, <2>10 DEF HashInv
  <1>9. ASSUME NEW v \in Verifiers, Verifying(v) PROVE HashInv'
    BY <1>9, <1>d DEF Verifying, LockRead, Check, Report
  <1>10. CASE UNCHANGED vars
    BY <1>10, <1>d DEF vars
  <1> QED
    BY <1>1, <1>2, <1>3, <1>4, <1>5, <1>6, <1>7, <1>8, <1>9, <1>10 DEF Next, Appending

LEMMA IInvAlways == Spec => []IInv
  BY InitIInv, NextTypes, NextLocks, NextProgress, NextHashes, PTL DEF Spec, IInv

\* The order of the vector is the order of the hashes, in every state, for any
\* number of threads appending at once.
THEOREM ChainNeverBreaks == Spec => []ChainUnbroken
  <1>1. IInv => ChainUnbroken
    <2> SUFFICES ASSUME IInv PROVE ChainUnbroken
      OBVIOUS
    <2>1. \A i \in 1..Len(orderedIds) : orderedIds[i] \in DOMAIN records =>
            records[orderedIds[i]].previous =
              IF i - 1 = 0 THEN GENESIS_HASH ELSE records[orderedIds[i - 1]].current
      BY DEF IInv, HashInv, HashAt
    <2>2. \A i \in 1..Len(orderedIds) : i - 1 = 0 <=> i = 1
      BY DEF IInv, TypeOK
    <2> QED
      BY <2>1, <2>2 DEF ChainUnbroken
  <1> QED
    BY <1>1, IInvAlways, PTL

-----------------------------------------------------------------------------
(* What a verification finds.  While one holds its read lock no append is  *)
(* between its links, so the vector, the records' hashes and last_hash     *)
(* stand still; only update_raw_for_testing may act.                       *)

\* Every stored record is ordered and carries the hash of what was appended.
StoredInv ==
  \A id \in DOMAIN records :
    /\ records[id].current = calculate_hash(id, TRUE, records[id].previous)
    /\ \E i \in 1..Len(orderedIds) : orderedIds[i] = id

\* How far each verification has come and what it has seen.
VerifyInv ==
  \A v \in Verifiers :
    /\ verify[v].pc = "start" =>
         verify[v].next = 1 /\ verify[v].expected = GENESIS_HASH /\ ~verify[v].violation
    /\ verify[v].pc = "scan" =>
         /\ v \in orderReaders
         /\ verify[v].next - 1 <= Len(orderedIds)
         /\ verify[v].expected = HashAt(records, orderedIds, verify[v].next - 1)
         /\ verify[v].altered \subseteq Altered
         /\ \A j \in 1..(verify[v].next - 1) :
              orderedIds[j] \in verify[v].altered => verify[v].violation
    /\ verify[v].violation => Altered # {}
    /\ verify[v].pc = "done" /\ ~verify[v].violation => verify[v].altered = {}

LEMMA NextStored == IInv /\ StoredInv /\ [Next]_vars => StoredInv'
  <1> SUFFICES ASSUME IInv, StoredInv, [Next]_vars PROVE StoredInv'
    OBVIOUS
  <1> USE DEF storeVars, lockVars
  <1>a. /\ append \in [RecordIds -> Call] /\ orderedIds \in Seq(RecordIds)
        /\ DOMAIN records \subseteq RecordIds /\ \A i \in DOMAIN records : records[i] \in Record
    BY DEF IInv, TypeOK
  <1>b. UNCHANGED <<records, orderedIds>> => StoredInv'
    BY DEF StoredInv
  <1>1. ASSUME NEW id \in RecordIds, LockHash(id) \/ LockOrder(id) \/ Link(id) \/ IndexTrace(id) \/ Release(id)
        PROVE  StoredInv'
    BY <1>1, <1>b DEF LockHash, LockOrder, Link, IndexTrace, Release
  <1>2. ASSUME NEW id \in RecordIds, Push(id) PROVE StoredInv'
    <2>1. /\ Len(orderedIds') = Len(orderedIds) + 1
          /\ \A i \in 1..Len(orderedIds) : orderedIds'[i] = orderedIds[i]
      BY <1>2, <1>a DEF Push
    <2>2. \A i \in 1..Len(orderedIds) : i \in 1..Len(orderedIds')
      BY <2>1, <1>a
    <2> QED
      BY <1>2, <2>1, <2>2, ZenonT(60) DEF StoredInv, Push
  <1>3. ASSUME NEW id \in RecordIds, Store(id) PROVE StoredInv'
    <2> DEFINE r == [original |-> TRUE, previous |-> append[id].previous,
                     current |-> calculate_hash(id, TRUE, append[id].previous)]
    <2>1. DOMAIN records' = DOMAIN records \cup {id}
          /\ \A i \in DOMAIN records' : records'[i] = IF i = id THEN r ELSE records[i]
      BY <1>3 DEF Store, Put
    <2>2. append[id].pc = "store" /\ UNCHANGED orderedIds
      BY <1>3 DEF Store, Step
    <2>3. Len(orderedIds) \in 1..Len(orderedIds) /\ orderedIds[Len(orderedIds)] = id
      BY <2>2, <1>a DEF IInv, ProgressInv
    <2>4. records'[id].current = calculate_hash(id, TRUE, records'[id].previous)
      <3>1. /\ r.previous = append[id].previous
            /\ r.current = calculate_hash(id, TRUE, append[id].previous)
        OBVIOUS
      <3> HIDE DEF r
      <3>2. records'[id] = r
        BY <2>1
      <3> QED
        BY <3>1, <3>2
    <2>5. ASSUME NEW i \in DOMAIN records', i # id
          PROVE  i \in DOMAIN records /\ records'[i] = records[i]
      <3> HIDE DEF r
      <3> QED
        BY <2>1, <2>5
    <2> HIDE DEF r
    <2> QED
      BY <2>1, <2>2, <2>3, <2>4, <2>5 DEF StoredInv
  <1>4. ASSUME NEW id \in RecordIds, Overwrite(id) PROVE StoredInv'
    <2>1. /\ DOMAIN records' = DOMAIN records
          /\ \A i \in DOMAIN records : /\ records'[i].previous = records[i].previous
                                       /\ records'[i].current = records[i].current
          /\ UNCHANGED orderedIds
      BY <1>4, <1>a DEF Overwrite, Put, Record
    <2> QED
      BY <2>1 DEF StoredInv
  <1>5. ASSUME NEW v \in Verifiers, Verifying(v) PROVE StoredInv'
    BY <1>5, <1>b DEF Verifying, LockRead, Check, Report
  <1>6. CASE UNCHANGED vars
    BY <1>6, <1>b DEF vars
  <1> QED
    BY <1>1, <1>2, <1>3, <1>4, <1>5, <1>6 DEF Next, Appending

\* While a verification holds its lock every ordered record is stored, and a
\* record violates the chain exactly when it was altered.
LEMMA ReadersSeeRecords ==
  ASSUME IInv, StoredInv, orderReaders # {}, NEW i \in 1..Len(orderedIds)
  PROVE  /\ orderedIds[i] \in DOMAIN records
         /\ Violates(orderedIds[i], HashAt(records, orderedIds, i - 1))
              <=> orderedIds[i] \in Altered
  <1> DEFINE id == orderedIds[i]
  <1>1. id \in RecordIds /\ \A q \in RecordIds : append[q].pc \notin Writing
    BY NoOneCalls DEF IInv, TypeOK, LockInv
  <1>2. id \in DOMAIN records
    BY <1>1 DEF IInv, ProgressInv, Writing
  <1>3. records[id].original \in BOOLEAN /\ records[id].previous \in Hash
    BY <1>2 DEF IInv, TypeOK, Record
  <1>4. /\ records[id].previous = HashAt(records, orderedIds, i - 1)
        /\ records[id].current = calculate_hash(id, TRUE, records[id].previous)
    BY <1>2 DEF IInv, HashInv, StoredInv
  <1>5. records[id].current # calculate_hash(id, records[id].original, records[id].previous)
          <=> ~records[id].original
    BY <1>1, <1>3, <1>4, HashTypes
  <1> HIDE DEF id
  <1> QED
    BY <1>2, <1>4, <1>5 DEF Violates, Altered, id

LEMMA NextVerify ==
  IInv /\ StoredInv /\ VerifyInv /\ [Next]_vars => VerifyInv'
  <1> SUFFICES ASSUME IInv, StoredInv, VerifyInv, [Next]_vars PROVE VerifyInv'
    OBVIOUS
  <1> USE DEF storeVars, lockVars
  <1>a. /\ append \in [RecordIds -> Call] /\ orderedIds \in Seq(RecordIds)
        /\ verify \in [Verifiers -> Verification] /\ Len(orderedIds) \in Nat
        /\ DOMAIN records \subseteq RecordIds /\ \A i \in DOMAIN records : records[i] \in Record
    BY DEF IInv, TypeOK
  <1>b. UNCHANGED <<records, orderedIds, orderReaders, verify>> => VerifyInv'
    BY DEF VerifyInv, Altered
  \* An append that writes does so while nobody reads.
  <1>c. ASSUME NEW id \in RecordIds, append[id].pc \in Writing
        PROVE  orderReaders = {} /\ \A v \in Verifiers : verify[v].pc # "scan"
    <2>1. orderReaders = {}
      BY <1>c, NoOneCalls DEF IInv, LockInv
    <2> QED
      BY <2>1 DEF VerifyInv
  <1>1. ASSUME NEW id \in RecordIds, LockHash(id) \/ LockOrder(id) \/ Link(id) \/ IndexTrace(id) \/ Release(id)
        PROVE  VerifyInv'
    BY <1>1, <1>b DEF LockHash, LockOrder, Link, IndexTrace, Release
  <1>2. ASSUME NEW id \in RecordIds, Push(id) PROVE VerifyInv'
    <2>1. \A v \in Verifiers : verify[v].pc # "scan"
      BY <1>2, <1>c DEF Push, Step, Writing
    <2> QED
      BY <1>2, <2>1 DEF VerifyInv, Push, Altered
  <1>3. ASSUME NEW id \in RecordIds, Store(id) PROVE VerifyInv'
    <2>1. append[id].pc = "store" /\ UNCHANGED <<orderedIds, orderReaders, verify>>
      BY <1>3 DEF Store, Step
    <2>2. \A v \in Verifiers : verify[v].pc # "scan"
      BY <2>1, <1>c DEF Writing
    <2>3. id \notin DOMAIN records
      BY <2>1 DEF IInv, ProgressInv
    <2>4. Altered \subseteq Altered'
      BY <1>3, <2>3 DEF Store, Put, Altered
    <2> QED
      BY <2>1, <2>2, <2>4 DEF VerifyInv
  <1>4. ASSUME NEW id \in RecordIds, Overwrite(id) PROVE VerifyInv'
    <2>1. /\ DOMAIN records' = DOMAIN records
          /\ \A i \in DOMAIN records : records'[i].current = records[i].current
          /\ UNCHANGED <<orderedIds, orderReaders, verify>>
      BY <1>4, <1>a DEF Overwrite, Put, Record
    <2>2. Altered \subseteq Altered'
      BY <1>4, <1>a DEF Overwrite, Put, Altered, Record
    <2>3. ASSUME NEW v \in Verifiers, verify[v].pc = "scan"
          PROVE  HashAt(records', orderedIds', verify[v].next - 1)
                   = HashAt(records, orderedIds, verify[v].next - 1)
      <3>1. /\ verify[v].next \in Nat \ {0} /\ verify[v].next - 1 <= Len(orderedIds)
            /\ orderReaders # {}
        BY <2>3, <1>a DEF VerifyInv, Verification
      <3>2. CASE verify[v].next = 1
        BY <3>2, <2>1 DEF HashAt
      <3>3. CASE verify[v].next # 1
        <4>1. verify[v].next - 1 \in 1..Len(orderedIds)
          BY <3>1, <3>3, <1>a
        <4>2. orderedIds[verify[v].next - 1] \in DOMAIN records
          BY <4>1, <3>1, ReadersSeeRecords
        <4> QED
          BY <4>2, <2>1 DEF HashAt
      <3> QED
        BY <3>2, <3>3
    <2> QED
      BY <2>1, <2>2, <2>3 DEF VerifyInv
  <1>5. ASSUME NEW v \in Verifiers, LockRead(v) PROVE VerifyInv'
    <2> DEFINE l == [verify[v] EXCEPT !.pc = "scan", !.altered = Altered]
    <2>1. /\ l.pc = "scan" /\ l.altered = Altered
          /\ l.next = verify[v].next /\ l.expected = verify[v].expected
          /\ l.violation = verify[v].violation
      BY <1>a DEF Verification
    <2>2. /\ verify[v].pc = "start" /\ orderReaders' = orderReaders \cup {v}
          /\ \A u \in Verifiers : verify'[u] = IF u = v THEN l ELSE verify[u]
          /\ UNCHANGED <<records, orderedIds>>
      BY <1>5, <1>a DEF LockRead, Proceed
    <2>3. Altered' = Altered
      BY <2>2 DEF Altered
    <2> HIDE DEF l
    <2>4. HashAt(records', orderedIds', l.next - 1) = GENESIS_HASH /\ l.next - 1 = 0
      BY <2>1, <2>2 DEF VerifyInv, HashAt
    <2> QED
      BY <2>1, <2>2, <2>3, <2>4, <1>a DEF VerifyInv
  <1>6. ASSUME NEW v \in Verifiers, Check(v) PROVE VerifyInv'
    <2> DEFINE n == verify[v].next
               id == orderedIds[n]
               found == verify[v].violation \/ Violates(id, verify[v].expected)
               h == IF id \in DOMAIN records THEN records[id].current ELSE verify[v].expected
               l == [verify[v] EXCEPT !.next = @ + 1, !.violation = found, !.expected = h]
    <2>1. /\ verify[v].pc = "scan" /\ n \in 1..Len(orderedIds) /\ v \in orderReaders
          /\ verify[v].expected = HashAt(records, orderedIds, n - 1)
      BY <1>6, <1>a DEF Check, VerifyInv, Verification
    <2>2. id \in DOMAIN records /\ (Violates(id, verify[v].expected) <=> id \in Altered)
      BY <2>1, ReadersSeeRecords
    <2>3. /\ l.pc = "scan" /\ l.altered = verify[v].altered /\ l.next = n + 1
          /\ l.expected = records[id].current /\ l.violation = found
      BY <2>1, <2>2, <1>a DEF Verification
    <2>4. /\ \A u \in Verifiers : verify'[u] = IF u = v THEN l ELSE verify[u]
          /\ UNCHANGED <<records, orderedIds, orderReaders>>
      BY <1>6, <1>a DEF Check, Proceed
    <2>5. Altered' = Altered
      BY <2>4 DEF Altered
    <2>6. l.next - 1 = n /\ HashAt(records', orderedIds', l.next - 1) = records[id].current
      <3>1. n \in Nat \ {0} /\ l.next - 1 = n
        BY <2>1, <2>3
      <3>2. HashAt(records', orderedIds', n) = records[id].current
        BY <2>4, <3>1 DEF HashAt
      <3> QED
        BY <3>1, <3>2
    <2>7. found => Altered # {}
      BY <2>2 DEF VerifyInv
    <2>8. \A j \in 1..n : orderedIds[j] \in verify[v].altered => found
      <3>1. \A j \in 1..(n - 1) : orderedIds[j] \in verify[v].altered => verify[v].violation
        BY <2>1 DEF VerifyInv
      <3>2. verify[v].altered \subseteq Altered
        BY <2>1 DEF VerifyInv
      <3>3. \A j \in 1..n : j = n \/ j \in 1..(n - 1)
        BY <2>1
      <3> QED
        BY <3>1, <3>2, <3>3, <2>2
    <2>9. verify[v].altered \subseteq Altered /\ n <= Len(orderedIds)
      BY <2>1 DEF VerifyInv
    <2> HIDE DEF l, found, n, id, h
    <2>10. ASSUME NEW u \in Verifiers
           PROVE  /\ verify'[u].pc = "start" =>
                       /\ verify'[u].next = 1 /\ verify'[u].expected = GENESIS_HASH
                       /\ ~verify'[u].violation
                  /\ verify'[u].pc = "scan" =>
                       /\ u \in orderReaders'
                       /\ verify'[u].next - 1 <= Len(orderedIds')
                       /\ verify'[u].expected = HashAt(records', orderedIds', verify'[u].next - 1)
                       /\ verify'[u].altered \subseteq Altered'
                       /\ \A j \in 1..(verify'[u].next - 1) :
                            orderedIds'[j] \in verify'[u].altered => verify'[u].violation
                  /\ verify'[u].violation => Altered' # {}
                  /\ verify'[u].pc = "done" /\ ~verify'[u].violation => verify'[u].altered = {}
      <3>1. CASE u = v
        BY <3>1, <2>1, <2>3, <2>4, <2>5, <2>6, <2>7, <2>8, <2>9
      <3>2. CASE u # v
        BY <3>2, <2>4, <2>5 DEF VerifyInv
      <3> QED
        BY <3>1, <3>2
    <2> QED
      BY <2>10 DEF VerifyInv
  <1>7. ASSUME NEW v \in Verifiers, Report(v) PROVE VerifyInv'
    <2> DEFINE l == [verify[v] EXCEPT !.pc = "done"]
    <2>1. /\ l.pc = "done" /\ l.altered = verify[v].altered /\ l.violation = verify[v].violation
      BY <1>a DEF Verification
    <2>2. /\ verify[v].pc = "scan" /\ verify[v].next > Len(orderedIds)
          /\ orderReaders' = orderReaders \ {v}
          /\ \A u \in Verifiers : verify'[u] = IF u = v THEN l ELSE verify[u]
          /\ UNCHANGED <<records, orderedIds>>
      BY <1>7, <1>a DEF Report, Proceed
    <2>3. Altered' = Altered
      BY <2>2 DEF Altered
    <2>4. verify[v].next - 1 = Len(orderedIds)
      BY <2>2, <1>a DEF VerifyInv, Verification
    <2>5. ~verify[v].violation => verify[v].altered = {}
      <3>1. \A j \in 1..Len(orderedIds) : orderedIds[j] \in verify[v].altered => verify[v].violation
        BY <2>2, <2>4 DEF VerifyInv
      <3>2. \A q \in verify[v].altered : \E j \in 1..Len(orderedIds) : orderedIds[j] = q
        BY <2>2 DEF VerifyInv, Altered, StoredInv
      <3> QED
        BY <3>1, <3>2
    <2> HIDE DEF l
    <2> QED
      BY <2>1, <2>2, <2>3, <2>5 DEF VerifyInv
  <1>8. CASE UNCHANGED vars
    BY <1>8, <1>b DEF vars
  <1> QED
    BY <1>1, <1>2, <1>3, <1>4, <1>5, <1>6, <1>7, <1>8 DEF Next, Appending, Verifying

\* verify_chain never takes an append that runs beside it for tampering, and
\* reports every record that was altered before it took its lock.
THEOREM VerdictsRight == Spec => []VerdictIsRight
  <1>1. Init => StoredInv /\ VerifyInv
    BY DEF Init, StoredInv, VerifyInv
  <1>2. VerifyInv => VerdictIsRight
    BY DEF VerifyInv, VerdictIsRight
  <1> QED
    BY <1>1, <1>2, IInvAlways, NextStored, NextVerify, PTL DEF Spec

-----------------------------------------------------------------------------
(* The indexes.                                                            *)

\* The hash a verification reports as the latest is the store's last_hash at that
\* moment, although it holds the lock of the vector only: no append is between
\* its link and its record while anybody reads.
THEOREM VerdictIsUpToDate == Spec => []VerifiedUpToLastHash
  <1>1. IInv /\ VerifyInv => VerifiedUpToLastHash
    <2> SUFFICES ASSUME IInv, VerifyInv, NEW v \in Verifiers,
                        verify[v].pc = "scan", verify[v].next > Len(orderedIds)
                 PROVE  verify[v].expected = lastHash
      BY DEF VerifiedUpToLastHash
    <2>1. /\ verify[v].next \in Nat \ {0} /\ Len(orderedIds) \in Nat
          /\ verify[v].next - 1 <= Len(orderedIds)
          /\ verify[v].expected = HashAt(records, orderedIds, verify[v].next - 1)
          /\ orderReaders # {}
      BY DEF IInv, TypeOK, Verification, VerifyInv
    <2>2. verify[v].next - 1 = Len(orderedIds)
      BY <2>1
    <2>3. \A id \in RecordIds : append[id].pc \notin {"push", "store"}
      BY <2>1, NoOneCalls DEF IInv, LockInv, Writing
    <2> QED
      BY <2>1, <2>2, <2>3 DEF IInv, HashInv
  <1>2. Init => StoredInv /\ VerifyInv
    BY DEF Init, StoredInv, VerifyInv
  <1> QED
    BY <1>1, <1>2, IInvAlways, NextStored, NextVerify, PTL DEF Spec

\* What the index by trace holds is stored.
IndexInv == \A t \in Traces : \A i \in 1..Len(byTrace[t]) : byTrace[t][i] \in DOMAIN records

LEMMA NextIndex == IInv /\ IndexInv /\ [Next]_vars => IndexInv'
  <1> SUFFICES ASSUME IInv, IndexInv, [Next]_vars PROVE IndexInv'
    OBVIOUS
  <1> USE DEF storeVars, lockVars
  <1>a. byTrace \in [Traces -> Seq(RecordIds)]
    BY DEF IInv, TypeOK
  <1>b. DOMAIN records \subseteq DOMAIN records' /\ UNCHANGED byTrace => IndexInv'
    BY DEF IndexInv
  <1>1. ASSUME NEW id \in RecordIds, LockHash(id) \/ LockOrder(id) \/ Link(id) \/ Push(id) \/ Release(id)
        PROVE  IndexInv'
    BY <1>1, <1>b DEF LockHash, LockOrder, Link, Push, Release
  <1>2. ASSUME NEW id \in RecordIds, Store(id) \/ Overwrite(id) PROVE IndexInv'
    BY <1>2, <1>b DEF Store, Overwrite, Put
  <1>3. ASSUME NEW id \in RecordIds, IndexTrace(id) PROVE IndexInv'
    <2>1. id \in DOMAIN records /\ UNCHANGED records
      BY <1>3 DEF IndexTrace, Step, IInv, ProgressInv
    <2>2. ASSUME NEW t \in Traces, NEW i \in 1..Len(byTrace'[t])
          PROVE  byTrace'[t][i] \in DOMAIN records
      <3>1. CASE t = TraceOf[id]
        <4>1. byTrace'[t] = Append(byTrace[t], id) /\ byTrace[t] \in Seq(RecordIds)
          BY <1>3, <1>a, <3>1 DEF IndexTrace
        <4> QED
          BY <4>1, <2>1, <2>2 DEF IndexInv
      <3>2. CASE t # TraceOf[id]
        BY <1>3, <1>a, <3>2, <2>2 DEF IndexTrace, IndexInv
      <3> QED
        BY <3>1, <3>2
    <2> QED
      BY <2>1, <2>2 DEF IndexInv
  <1>4. ASSUME NEW v \in Verifiers, Verifying(v) PROVE IndexInv'
    BY <1>4, <1>b DEF Verifying, LockRead, Check, Report
  <1>5. CASE UNCHANGED vars
    BY <1>5, <1>b DEF vars
  <1> QED
    BY <1>1, <1>2, <1>3, <1>4, <1>5 DEF Next, Appending

\* No reader follows an index, or the vector under its lock, to a record that is
\* not there yet.
THEOREM IndexesHold == Spec => []NoDanglingId
  <1>1. IInv /\ StoredInv /\ IndexInv => NoDanglingId
    BY ReadersSeeRecords DEF IndexInv, NoDanglingId
  <1>2. Init => StoredInv /\ IndexInv
    BY DEF Init, StoredInv, IndexInv
  <1> QED
    BY <1>1, <1>2, IInvAlways, NextStored, NextIndex, PTL DEF Spec

-----------------------------------------------------------------------------
(* A record is ordered when it is pushed and indexed when its trace is, once *)
(* each: where its append stands says which of the two it has done.          *)

Places(s, id) == {i \in 1..Len(s) : s[i] = id}

Once(s, id) == \E i : Places(s, id) = {i}

Ordered == {"store", "trace", "release", "done"}
Indexed == {"release", "done"}

OnceInv ==
  \A id \in RecordIds :
    /\ IF append[id].pc \in Ordered THEN Once(orderedIds, id) ELSE Places(orderedIds, id) = {}
    /\ IF append[id].pc \in Indexed THEN Once(byTrace[TraceOf[id]], id)
                                    ELSE Places(byTrace[TraceOf[id]], id) = {}

\* Appending an id adds one place for it and none for another.
LEMMA PlacesAfterAppend ==
  ASSUME NEW s \in Seq(RecordIds), NEW p \in RecordIds, NEW id \in RecordIds
  PROVE  Places(Append(s, p), id) =
           IF id = p THEN Places(s, id) \cup {Len(s) + 1} ELSE Places(s, id)
  <1>1. /\ Len(Append(s, p)) = Len(s) + 1 /\ Len(s) \in Nat
        /\ \A i \in 1..Len(s) : Append(s, p)[i] = s[i]
        /\ Append(s, p)[Len(s) + 1] = p
    OBVIOUS
  <1>2. 1..(Len(s) + 1) = (1..Len(s)) \cup {Len(s) + 1}
    BY <1>1
  <1> QED
    BY <1>1, <1>2 DEF Places

LEMMA NextOnce == TypeOK /\ OnceInv /\ [Next]_vars => OnceInv'
  <1> SUFFICES ASSUME TypeOK, OnceInv, [Next]_vars PROVE OnceInv'
    OBVIOUS
  <1> USE DEF storeVars, lockVars
  <1>a. /\ append \in [RecordIds -> Call] /\ orderedIds \in Seq(RecordIds)
        /\ byTrace \in [Traces -> Seq(RecordIds)]
        /\ \A id \in RecordIds : TraceOf[id] \in Traces
    BY TracesOfRecords DEF TypeOK
  <1>b. \A s \in {"start", "order", "link", "push", "store", "trace", "release", "done"} :
          s \in AppendSteps
    BY DEF AppendSteps
  \* Most steps neither order nor index, and leave every append where it was or between.
  <1>c. ASSUME UNCHANGED <<orderedIds, byTrace>>,
               \A id \in RecordIds : /\ append'[id].pc \in Ordered <=> append[id].pc \in Ordered
                                     /\ append'[id].pc \in Indexed <=> append[id].pc \in Indexed
        PROVE  OnceInv'
    BY <1>c DEF OnceInv, Once, Places
  <1> USE DEF Ordered, Indexed
  <1>1. ASSUME NEW id \in RecordIds, LockHash(id) PROVE OnceInv'
    <2>1. \A q \in RecordIds : append'[q].pc = IF q = id THEN "order" ELSE append[q].pc
      BY <1>1, <1>a, <1>b, StepCounters DEF LockHash
    <2> QED
      BY <1>1, <1>c, <2>1 DEF LockHash, Step
  <1>2. ASSUME NEW id \in RecordIds, LockOrder(id) PROVE OnceInv'
    <2>1. \A q \in RecordIds : append'[q].pc = IF q = id THEN "link" ELSE append[q].pc
      BY <1>2, <1>a, <1>b, StepCounters DEF LockOrder
    <2> QED
      BY <1>2, <1>c, <2>1 DEF LockOrder, Step
  <1>3. ASSUME NEW id \in RecordIds, Link(id) PROVE OnceInv'
    <2>1. \A q \in RecordIds : append'[q].pc = IF q = id THEN "push" ELSE append[q].pc
      BY <1>3, <1>a DEF Link, Become
    <2> QED
      BY <1>3, <1>c, <2>1 DEF Link
  <1>4. ASSUME NEW id \in RecordIds, Push(id) PROVE OnceInv'
    <2>1. /\ append[id].pc = "push"
          /\ \A q \in RecordIds : append'[q].pc = IF q = id THEN "store" ELSE append[q].pc
      BY <1>4, <1>a, <1>b, StepCounters DEF Push
    <2>2. \A q \in RecordIds :
            Places(orderedIds', q) = IF q = id THEN Places(orderedIds, q) \cup {Len(orderedIds) + 1}
                                               ELSE Places(orderedIds, q)
      BY <1>4, <1>a, PlacesAfterAppend DEF Push
    <2>3. Places(orderedIds, id) = {}
      BY <2>1 DEF OnceInv
    <2>4. \A q \in RecordIds : IF append'[q].pc \in Ordered THEN Once(orderedIds', q)
                                                            ELSE Places(orderedIds', q) = {}
      BY <2>1, <2>2, <2>3 DEF OnceInv, Once
    <2>5. \A q \in RecordIds :
            IF append'[q].pc \in Indexed THEN Once(byTrace[TraceOf[q]], q)
                                         ELSE Places(byTrace[TraceOf[q]], q) = {}
      BY <2>1 DEF OnceInv
    <2>6. byTrace' = byTrace
      BY <1>4 DEF Push
    <2> QED
      BY <2>4, <2>5, <2>6 DEF OnceInv
  <1>5. ASSUME NEW id \in RecordIds, Store(id) PROVE OnceInv'
    <2>1. \A q \in RecordIds : append'[q].pc = IF q = id THEN "trace" ELSE append[q].pc
      BY <1>5, <1>a, <1>b, StepCounters DEF Store
    <2> QED
      BY <1>5, <1>c, <2>1 DEF Store, Step
  <1>6. ASSUME NEW id \in RecordIds, IndexTrace(id) PROVE OnceInv'
    <2>1. /\ append[id].pc = "trace"
          /\ \A q \in RecordIds : append'[q].pc = IF q = id THEN "release" ELSE append[q].pc
      BY <1>6, <1>a, <1>b, StepCounters DEF IndexTrace
    <2>2. \A q \in RecordIds :
            byTrace'[TraceOf[q]] = IF TraceOf[q] = TraceOf[id] THEN Append(byTrace[TraceOf[q]], id)
                                                               ELSE byTrace[TraceOf[q]]
      BY <1>6, <1>a DEF IndexTrace
    <2>3. \A q \in RecordIds :
            Places(byTrace'[TraceOf[q]], q) =
              IF q = id THEN Places(byTrace[TraceOf[q]], q) \cup {Len(byTrace[TraceOf[q]]) + 1}
                        ELSE Places(byTrace[TraceOf[q]], q)
      <3> SUFFICES ASSUME NEW q \in RecordIds
                   PROVE  Places(byTrace'[TraceOf[q]], q) =
                            IF q = id
                              THEN Places(byTrace[TraceOf[q]], q) \cup {Len(byTrace[TraceOf[q]]) + 1}
                              ELSE Places(byTrace[TraceOf[q]], q)
        OBVIOUS
      <3> DEFINE s == byTrace[TraceOf[q]]
      <3>1. s \in Seq(RecordIds)
        BY <1>a
      <3>2. byTrace'[TraceOf[q]] = IF TraceOf[q] = TraceOf[id] THEN Append(s, id) ELSE s
        BY <2>2
      <3>3. Places(Append(s, id), q) = IF q = id THEN Places(s, q) \cup {Len(s) + 1} ELSE Places(s, q)
        BY <3>1, PlacesAfterAppend
      <3> HIDE DEF s
      <3> QED
        BY <3>2, <3>3 DEF s
    <2>4. Places(byTrace[TraceOf[id]], id) = {}
      BY <2>1 DEF OnceInv
    <2>5. \A q \in RecordIds :
            IF append'[q].pc \in Indexed THEN Once(byTrace'[TraceOf[q]], q)
                                         ELSE Places(byTrace'[TraceOf[q]], q) = {}
      BY <2>1, <2>3, <2>4 DEF OnceInv, Once
    <2>6. \A q \in RecordIds : IF append'[q].pc \in Ordered THEN Once(orderedIds, q)
                                                            ELSE Places(orderedIds, q) = {}
      BY <2>1 DEF OnceInv
    <2>7. orderedIds' = orderedIds
      BY <1>6 DEF IndexTrace
    <2> QED
      BY <2>5, <2>6, <2>7 DEF OnceInv
  <1>7. ASSUME NEW id \in RecordIds, Release(id) PROVE OnceInv'
    <2>1. \A q \in RecordIds : append'[q].pc = IF q = id THEN "done" ELSE append[q].pc
      BY <1>7, <1>a, <1>b, StepCounters DEF Release
    <2> QED
      BY <1>7, <1>c, <2>1 DEF Release, Step
  <1>8. ASSUME NEW id \in RecordIds, Overwrite(id) PROVE OnceInv'
    BY <1>8, <1>c DEF Overwrite
  <1>9. ASSUME NEW v \in Verifiers, Verifying(v) PROVE OnceInv'
    BY <1>9, <1>c DEF Verifying, LockRead, Check, Report
  <1>10. CASE UNCHANGED vars
    BY <1>10, <1>c DEF vars
  <1> QED
    BY <1>1, <1>2, <1>3, <1>4, <1>5, <1>6, <1>7, <1>8, <1>9, <1>10 DEF Next, Appending

LEMMA InitOnce == Init => OnceInv
  <1> SUFFICES ASSUME Init, NEW id \in RecordIds
               PROVE  /\ append[id].pc = "start"
                      /\ Places(orderedIds, id) = {} /\ Places(byTrace[TraceOf[id]], id) = {}
    BY DEF OnceInv, Ordered, Indexed
  <1>1. orderedIds = <<>> /\ byTrace[TraceOf[id]] = <<>> /\ append[id].pc = "start"
    BY TracesOfRecords DEF Init
  <1> QED
    BY <1>1 DEF Places

\* An append that has returned has left its record once in the vector and once in the index
\* of its trace, whatever other appends did to both in between.
THEOREM ReturnsRecorded == Spec => []ReturnedIsRecorded
  <1>2. IInv /\ OnceInv => ReturnedIsRecorded
    <2> SUFFICES ASSUME IInv, OnceInv, NEW id \in RecordIds, append[id].pc = "done"
                 PROVE  /\ id \in DOMAIN records
                        /\ Occurrences(orderedIds, id) = 1
                        /\ Occurrences(byTrace[TraceOf[id]], id) = 1
      BY DEF ReturnedIsRecorded
    <2>1. id \in DOMAIN records
      BY DEF IInv, ProgressInv
    <2>2. \A s : Once(s, id) => Occurrences(s, id) = 1
      BY FS_Singleton DEF Once, Places, Occurrences
    <2>3. Once(orderedIds, id) /\ Once(byTrace[TraceOf[id]], id)
      BY DEF OnceInv, Ordered, Indexed
    <2> QED
      BY <2>1, <2>2, <2>3
  <1>3. IInv => TypeOK
    BY DEF IInv
  <1> QED
    BY <1>2, <1>3, InitOnce, NextOnce, IInvAlways, PTL DEF Spec

-----------------------------------------------------------------------------
(* The log.  last_hash stands for exactly the records of the vector, except *)
(* that it is ahead by one between a link and its push.                     *)

Commits(hash, ids) ==
  /\ Len(hash) = Len(ids)
  /\ \A i \in 1..Len(ids) : hash[i] = [id |-> ids[i], original |-> TRUE]

CommitInv ==
  /\ (\A id \in RecordIds : append[id].pc # "push") => Commits(lastHash, orderedIds)
  /\ \A id \in RecordIds : append[id].pc = "push" => Commits(append[id].previous, orderedIds)

LEMMA CommitsGrows ==
  ASSUME NEW hash \in Hash, NEW ids \in Seq(RecordIds), NEW id \in RecordIds, Commits(hash, ids)
  PROVE  Commits(calculate_hash(id, TRUE, hash), Append(ids, id))
  <1> DEFINE entry == [id |-> id, original |-> TRUE]
  <1>1. entry \in Entry
    BY DEF Entry
  <1>2. calculate_hash(id, TRUE, hash) = Append(hash, entry)
    BY DEF calculate_hash
  <1> HIDE DEF entry
  <1>3. /\ Len(Append(hash, entry)) = Len(hash) + 1
        /\ \A i \in 1..Len(hash) : Append(hash, entry)[i] = hash[i]
        /\ Append(hash, entry)[Len(hash) + 1] = entry
        /\ Len(hash) \in Nat
    BY <1>1 DEF Hash
  <1>4. /\ Len(Append(ids, id)) = Len(ids) + 1
        /\ \A i \in 1..Len(ids) : Append(ids, id)[i] = ids[i]
        /\ Append(ids, id)[Len(ids) + 1] = id
    OBVIOUS
  <1>5. Len(hash) = Len(ids) /\ \A i \in 1..Len(ids) : hash[i] = [id |-> ids[i], original |-> TRUE]
    BY DEF Commits
  <1>6. ASSUME NEW i \in 1..(Len(ids) + 1)
        PROVE  Append(hash, entry)[i] = [id |-> Append(ids, id)[i], original |-> TRUE]
    <2>1. CASE i \in 1..Len(ids)
      BY <1>3, <1>4, <1>5, <2>1
    <2>2. CASE i = Len(ids) + 1
      <3>1. Append(hash, entry)[i] = entry /\ Append(ids, id)[i] = id
        BY <1>3, <1>4, <1>5, <2>2
      <3> QED
        BY <3>1 DEF entry
    <2>3. i \in 1..Len(ids) \/ i = Len(ids) + 1
      BY <1>3, <1>5
    <2> QED
      BY <2>1, <2>2, <2>3
  <1> QED
    BY <1>2, <1>3, <1>4, <1>5, <1>6 DEF Commits

LEMMA InitCommits == Init => CommitInv
  BY DEF Init, CommitInv, Commits, GENESIS_HASH

LEMMA NextCommits == IInv /\ CommitInv /\ [Next]_vars => CommitInv'
  <1> SUFFICES ASSUME IInv, CommitInv, [Next]_vars PROVE CommitInv'
    OBVIOUS
  <1> USE DEF storeVars, lockVars
  <1>a. /\ append \in [RecordIds -> Call] /\ orderedIds \in Seq(RecordIds) /\ lastHash \in Hash
        /\ \A id \in RecordIds : append[id].previous \in Hash
    BY DEF IInv, TypeOK, Call
  <1>b. \A s \in {"start", "order", "link", "push", "store", "trace", "release", "done"} :
          s \in AppendSteps
    BY DEF AppendSteps
  \* A step that neither hashes nor orders, of an append that is not about to order.
  <1>c. ASSUME UNCHANGED <<orderedIds, lastHash>>,
               \A id \in RecordIds : /\ append'[id].pc = "push" <=> append[id].pc = "push"
                                     /\ append'[id].previous = append[id].previous
        PROVE  CommitInv'
    BY <1>c DEF CommitInv
  <1>1. ASSUME NEW id \in RecordIds, NEW from \in AppendSteps \ {"push"},
               NEW to \in AppendSteps \ {"push"}, Step(id, from, to),
               UNCHANGED <<orderedIds, lastHash>>
        PROVE  CommitInv'
    BY <1>1, <1>a, <1>c, StepCounters
  <1>2. ASSUME NEW id \in RecordIds, Link(id) PROVE CommitInv'
    <2>1. /\ append[id].pc = "link"
          /\ \A q \in RecordIds : append'[q] = IF q = id THEN [pc |-> "push", previous |-> lastHash]
                                               ELSE append[q]
          /\ UNCHANGED orderedIds
      BY <1>2, <1>a DEF Link, Become
    <2>2. \A q \in RecordIds : append[q].pc # "push"
      BY <2>1, OneWriter DEF Writing, IInv
    <2>3. Commits(lastHash, orderedIds)
      BY <2>2 DEF CommitInv
    <2> QED
      BY <2>1, <2>2, <2>3 DEF CommitInv
  <1>3. ASSUME NEW id \in RecordIds, Push(id) PROVE CommitInv'
    <2>1. /\ append[id].pc = "push"
          /\ \A q \in RecordIds : append'[q].pc = IF q = id THEN "store" ELSE append[q].pc
          /\ orderedIds' = Append(orderedIds, id) /\ UNCHANGED lastHash
      BY <1>3, <1>a, <1>b, StepCounters DEF Push
    <2>2. \A q \in RecordIds : append'[q].pc # "push"
      BY <2>1, OneWriter DEF Writing, IInv
    <2>3. lastHash = calculate_hash(id, TRUE, append[id].previous)
      BY <2>1 DEF IInv, HashInv
    <2>4. Commits(append[id].previous, orderedIds)
      BY <2>1 DEF CommitInv
    <2>5. Commits(lastHash, Append(orderedIds, id))
      BY <1>a, <2>3, <2>4, CommitsGrows
    <2> QED
      BY <2>1, <2>2, <2>5 DEF CommitInv
  <1>4. ASSUME NEW id \in RecordIds, Appending(id) PROVE CommitInv'
    BY <1>1, <1>2, <1>3, <1>4, <1>b
       DEF Appending, LockHash, LockOrder, Store, IndexTrace, Release
  <1>5. ASSUME NEW id \in RecordIds, Overwrite(id) PROVE CommitInv'
    BY <1>5, <1>c DEF Overwrite
  <1>6. ASSUME NEW v \in Verifiers, Verifying(v) PROVE CommitInv'
    BY <1>6, <1>c DEF Verifying, LockRead, Check, Report
  <1>7. CASE UNCHANGED vars
    BY <1>7, <1>c DEF vars
  <1> QED
    BY <1>4, <1>5, <1>6, <1>7 DEF Next

-----------------------------------------------------------------------------
(* Every step of an append or of a verification is the one step of the log  *)
(* that its call amounts to, or no step of it.                              *)

Verdicts == [v \in Verifiers |-> Verdict(v)]

LogStep == [Promise!Next]_(Promise!logVars)

LogInv == IInv /\ StoredInv /\ VerifyInv /\ OnceInv /\ CommitInv

LEMMA LogInvAlways == Spec => []LogInv
  <1>1. Init => StoredInv /\ VerifyInv
    BY DEF Init, StoredInv, VerifyInv
  <1>2. IInv => TypeOK
    BY DEF IInv
  <1> QED
    BY <1>1, <1>2, InitOnce, InitCommits, IInvAlways, NextStored, NextVerify, NextOnce,
       NextCommits, PTL DEF Spec, LogInv

LEMMA InitIsLog == Init => Promise!Init
  <1> SUFFICES ASSUME Init PROVE Promise!Init
    OBVIOUS
  <1>1. Unindexed = {}
    BY DEF Init, Unindexed
  <1>2. EffectiveLog = <<>>
    BY <1>1 DEF Init, EffectiveLog
  <1>3. Altered = {}
    BY DEF Init, Altered
  <1>4. \A v \in Verifiers : Verdict(v) = Promise!NotBegun
    BY DEF Init, Verdict, Promise!NotBegun, Promise!Call
  <1> QED
    BY <1>2, <1>3, <1>4 DEF Init, Promise!Init

\* A sequence is its last element after the others.
LEMMA LastAfterOthers ==
  ASSUME NEW S, NEW s \in Seq(S), NEW x \in S
  PROVE  /\ SubSeq(Append(s, x), 1, Len(Append(s, x)) - 1) = s
         /\ Len(s) > 0 /\ s[Len(s)] = x => s = Append(SubSeq(s, 1, Len(s) - 1), x)
  OBVIOUS

\* The append of whom the writer's lock is: nobody else is about to be indexed, and nobody reads.
LEMMA AloneAtWork ==
  ASSUME LogInv, NEW id \in RecordIds, append[id].pc \in Writing
  PROVE  /\ Unindexed = IF append[id].pc \in {"store", "trace"} THEN {id} ELSE {}
         /\ \A v \in Verifiers : verify[v].pc # "scan"
  <1>1. \A q \in RecordIds : append[q].pc \in {"store", "trace"} => q = id
    BY OneWriter DEF LogInv, IInv, Writing
  <1>2. orderReaders = {}
    BY NoOneCalls DEF LogInv, IInv, LockInv
  <1> QED
    BY <1>1, <1>2 DEF Unindexed, LogInv, VerifyInv

LEMMA LogStutters ==
  ASSUME EffectiveLog' = EffectiveLog, byTrace' = byTrace, Altered' = Altered,
         \A v \in Verifiers : Verdict(v)' = Verdict(v)
  PROVE  LogStep
  <1>1. Verdicts' = Verdicts
    BY DEF Verdicts
  <1> QED
    BY <1>1 DEF LogStep, Promise!logVars, Verdicts

\* The steps of an append.
LEMMA AppendsStep ==
  ASSUME LogInv, NEW id \in RecordIds, Appending(id)
  PROVE  LogStep
  <1> USE DEF storeVars, lockVars
  <1>a. /\ append \in [RecordIds -> Call] /\ orderedIds \in Seq(RecordIds)
        /\ byTrace \in [Traces -> Seq(RecordIds)] /\ DOMAIN records \subseteq RecordIds
        /\ TraceOf[id] \in Traces
    BY TracesOfRecords DEF LogInv, IInv, TypeOK
  <1>b. \A s \in {"start", "order", "link", "push", "store", "trace", "release", "done"} :
          s \in AppendSteps
    BY DEF AppendSteps
  <1>c. verify' = verify /\ \A v \in Verifiers : Verdict(v)' = Verdict(v)
    BY DEF Appending, LockHash, LockOrder, Link, Push, Store, IndexTrace, Release, Verdict
  <1>d. UNCHANGED records => Altered' = Altered
    BY DEF Altered
  <1>1. CASE LockHash(id) \/ LockOrder(id) \/ Link(id) \/ Release(id)
    <2>1. \A q \in RecordIds : append'[q].pc \in {"store", "trace"}
                                 <=> append[q].pc \in {"store", "trace"}
      <3>1. CASE LockHash(id) \/ LockOrder(id) \/ Release(id)
        BY <3>1, <1>a, <1>b, StepCounters DEF LockHash, LockOrder, Release
      <3>2. CASE Link(id)
        BY <3>2, <1>a DEF Link, Become
      <3> QED
        BY <1>1, <3>1, <3>2
    <2>2. UNCHANGED <<records, byTrace, orderedIds>>
      BY <1>1 DEF LockHash, LockOrder, Link, Release
    <2>3. EffectiveLog' = EffectiveLog
      BY <2>1, <2>2 DEF EffectiveLog, Unindexed
    <2> QED
      BY <1>c, <1>d, <2>2, <2>3, LogStutters
  <1>2. CASE Push(id)
    <2>1. /\ append[id].pc = "push"
          /\ \A q \in RecordIds : append'[q].pc = IF q = id THEN "store" ELSE append[q].pc
      BY <1>2, <1>a, <1>b, StepCounters DEF Push
    <2>2. Unindexed = {}
      BY <2>1, AloneAtWork DEF Writing
    <2>3. id \in Unindexed'
      BY <2>1 DEF Unindexed
    <2>4. orderedIds' = Append(orderedIds, id) /\ UNCHANGED <<records, byTrace>>
      BY <1>2 DEF Push
    <2>5. EffectiveLog' = EffectiveLog
      BY <1>a, <2>2, <2>3, <2>4, LastAfterOthers DEF EffectiveLog
    <2> QED
      BY <1>c, <1>d, <2>4, <2>5, LogStutters
  <1>3. CASE Store(id)
    <2>1. /\ append[id].pc = "store"
          /\ \A q \in RecordIds : append'[q].pc = IF q = id THEN "trace" ELSE append[q].pc
          /\ UNCHANGED <<byTrace, orderedIds>>
      BY <1>3, <1>a, <1>b, StepCounters DEF Store
    <2>2. EffectiveLog' = EffectiveLog
      BY <2>1 DEF EffectiveLog, Unindexed
    <2>3. id \notin DOMAIN records
      BY <2>1 DEF LogInv, IInv, ProgressInv
    <2>4. Altered' = Altered
      <3>1. /\ DOMAIN records' = DOMAIN records \cup {id} /\ records'[id].original
            /\ \A i \in DOMAIN records : records'[i] = records[i]
        BY <1>3, <2>3 DEF Store, Put
      <3> QED
        BY <2>3, <3>1 DEF Altered
    <2> QED
      BY <1>c, <2>1, <2>2, <2>4, LogStutters
  \* Here the append takes effect.
  <1>4. CASE IndexTrace(id)
    <2>1. /\ append[id].pc = "trace"
          /\ \A q \in RecordIds : append'[q].pc = IF q = id THEN "release" ELSE append[q].pc
          /\ UNCHANGED <<records, orderedIds>>
          /\ byTrace' = [byTrace EXCEPT ![TraceOf[id]] = Append(@, id)]
      BY <1>4, <1>a, <1>b, StepCounters DEF IndexTrace
    <2>2. /\ Unindexed = {id}
          /\ \A v \in Verifiers : verify[v].pc # "scan"
      BY <2>1, AloneAtWork DEF Writing
    <2>3. Unindexed' = {}
      BY <2>1, <2>2 DEF Unindexed
    <2>4. Len(orderedIds) > 0 /\ orderedIds[Len(orderedIds)] = id
      BY <2>1 DEF LogInv, IInv, ProgressInv
    <2>5. /\ EffectiveLog = SubSeq(orderedIds, 1, Len(orderedIds) - 1)
          /\ EffectiveLog' = orderedIds
      BY <2>1, <2>2, <2>3 DEF EffectiveLog
    <2>6. EffectiveLog' = Append(EffectiveLog, id)
      BY <1>a, <2>4, <2>5, LastAfterOthers
    <2>7. \A i \in 1..Len(EffectiveLog) : EffectiveLog[i] # id
      <3>1. PICK place : Places(orderedIds, id) = {place}
        BY <2>1 DEF LogInv, OnceInv, Ordered, Once
      <3>2. Len(orderedIds) \in Places(orderedIds, id)
        BY <1>a, <2>4 DEF Places
      <3>3. Len(EffectiveLog) = Len(orderedIds) - 1
            /\ \A i \in 1..(Len(orderedIds) - 1) : EffectiveLog[i] = orderedIds[i]
        <4>1. Len(orderedIds) - 1 \in Nat
          BY <1>a, <2>4
        <4>2. \A n \in Nat : n <= Len(orderedIds) =>
                /\ Len(SubSeq(orderedIds, 1, n)) = n
                /\ \A i \in 1..n : SubSeq(orderedIds, 1, n)[i] = orderedIds[i]
          BY <1>a
        <4>3. Len(orderedIds) - 1 <= Len(orderedIds)
          BY <1>a
        <4> QED
          BY <4>1, <4>2, <4>3, <2>5
      <3>4. \A i \in 1..(Len(orderedIds) - 1) : i \in 1..Len(orderedIds) /\ i # Len(orderedIds)
        BY <1>a
      <3> QED
        BY <3>1, <3>2, <3>3, <3>4 DEF Places
    <2>8. \A v \in Verifiers : Verdicts[v].step # "scan"
      BY <2>2 DEF Verdicts, Verdict
    <2>9. Altered' = Altered /\ Verdicts' = Verdicts
      BY <1>c, <1>d, <2>1 DEF Verdicts
    <2>10. Promise!Add(id)
      BY <2>1, <2>6, <2>7, <2>8, <2>9 DEF Promise!Add, Promise!Reading, Verdicts
    <2> QED
      BY <2>10 DEF LogStep, Promise!Next
  <1> QED
    BY <1>1, <1>2, <1>3, <1>4 DEF Appending

\* A record may be altered whenever it is stored.
LEMMA OverwriteSteps ==
  ASSUME LogInv, NEW id \in RecordIds, Overwrite(id)
  PROVE  LogStep
  <1>1. UNCHANGED <<append, byTrace, orderedIds, verify>>
    BY DEF Overwrite
  <1>2. EffectiveLog' = EffectiveLog /\ \A v \in Verifiers : Verdict(v)' = Verdict(v)
    BY <1>1 DEF EffectiveLog, Unindexed, Verdict
  <1>3. /\ id \in DOMAIN records \ Altered
        /\ DOMAIN records' = DOMAIN records /\ ~records'[id].original
        /\ \A i \in DOMAIN records \ {id} : records'[i] = records[i]
    BY DEF Overwrite, Put, LogInv, IInv, TypeOK, Record
  <1>4. id \notin Altered /\ Altered' = Altered \cup {id}
    BY <1>3 DEF Altered
  <1>5. Verdicts' = Verdicts
    BY <1>2 DEF Verdicts
  <1>6. Promise!Alter(id)
    BY <1>1, <1>2, <1>4, <1>5 DEF Promise!Alter, Verdicts
  <1> QED
    BY <1>6 DEF LogStep, Promise!Next

\* The steps of a verification: the log stands still under its lock, and the hash it ends
\* with is that of the whole of it.
LEMMA VerificationSteps ==
  ASSUME LogInv, NEW v \in Verifiers, Verifying(v)
  PROVE  LogStep
  <1> USE DEF storeVars, lockVars
  <1>a. UNCHANGED <<append, records, byTrace, orderedIds, lastHash>>
    BY DEF Verifying, LockRead, Check, Report
  <1>b. EffectiveLog' = EffectiveLog /\ Altered' = Altered
    BY <1>a DEF EffectiveLog, Unindexed, Altered
  <1>c. verify \in [Verifiers -> Verification] /\ orderedIds \in Seq(RecordIds)
    BY DEF LogInv, IInv, TypeOK
  <1>1. CASE LockRead(v)
    <2> DEFINE l == [verify[v] EXCEPT !.pc = "scan", !.altered = Altered]
    <2>1. /\ verify[v].pc = "start" /\ verify' = [verify EXCEPT ![v] = l]
      BY <1>1 DEF LockRead, Proceed
    <2>2. l.pc = "scan" /\ l.altered = Altered
      BY <1>c DEF Verification
    <2> HIDE DEF l
    <2>3. \A u \in Verifiers : verify'[u] = IF u = v THEN l ELSE verify[u]
      BY <1>c, <2>1
    <2>4. Verdict(v) = [step |-> "start", since |-> verify[v].altered, violation |-> FALSE,
                        upTo |-> <<>>]
      BY <2>1 DEF Verdict
    <2>5. Verdict(v)' = [step |-> "scan", since |-> Altered, violation |-> FALSE,
                         upTo |-> <<>>]
      BY <2>2, <2>3 DEF Verdict
    <2>7. \A u \in Verifiers \ {v} : Verdict(u)' = Verdict(u)
      BY <2>3 DEF Verdict
    <2>8. Verdicts' = [Verdicts EXCEPT ![v] = Promise!Call("scan", Altered, FALSE, <<>>)]
      BY <2>5, <2>7 DEF Verdicts, Promise!Call
    <2>9. Verdicts[v].step = "start"
      BY <2>4 DEF Verdicts
    <2>10. Promise!Begin(v)
      BY <1>a, <1>b, <2>8, <2>9 DEF Promise!Begin, Verdicts
    <2> QED
      BY <2>10 DEF LogStep, Promise!Next
  <1>2. CASE Check(v)
    <2>1. \E next, violation, expected :
            verify' = [verify EXCEPT ![v] = [verify[v] EXCEPT !.next = next,
                         !.violation = violation, !.expected = expected]]
      BY <1>2 DEF Check, Proceed
    <2>2. /\ verify[v].pc = "scan" /\ verify'[v].pc = "scan"
          /\ verify'[v].altered = verify[v].altered
          /\ \A u \in Verifiers \ {v} : verify'[u] = verify[u]
      BY <1>2, <1>c, <2>1 DEF Check, Verification
    <2>3. \A u \in Verifiers : Verdict(u)' = Verdict(u)
      BY <2>2 DEF Verdict
    <2> QED
      BY <1>a, <1>b, <2>3, LogStutters
  <1>3. CASE Report(v)
    <2> DEFINE l == [verify[v] EXCEPT !.pc = "done"]
               violation == verify[v].violation
    <2>1. /\ verify[v].pc = "scan" /\ verify[v].next > Len(orderedIds)
          /\ verify' = [verify EXCEPT ![v] = l]
      BY <1>3 DEF Report, Proceed
    <2>2. /\ l.pc = "done" /\ l.altered = verify[v].altered /\ l.violation = violation
          /\ l.expected = verify[v].expected /\ violation \in BOOLEAN
      BY <1>c DEF Verification
    <2> HIDE DEF l
    <2>3. \A u \in Verifiers : verify'[u] = IF u = v THEN l ELSE verify[u]
      BY <1>c, <2>1
    \* Nothing is between its link and its push, nor between its push and its index.
    <2>4. \A id \in RecordIds : append[id].pc \notin Writing
      <3>1. orderReaders # {}
        BY <2>1 DEF LogInv, VerifyInv
      <3> QED
        BY <3>1, NoOneCalls DEF LogInv, IInv, LockInv
    <2>5. EffectiveLog = orderedIds
      BY <2>4 DEF EffectiveLog, Unindexed, Writing
    <2>6. verify[v].next - 1 = Len(orderedIds)
      <3>1. verify[v].next \in Nat \ {0} /\ Len(orderedIds) \in Nat
        BY <1>c DEF Verification
      <3>2. verify[v].next - 1 <= Len(orderedIds)
        BY <2>1 DEF LogInv, VerifyInv
      <3> QED
        BY <2>1, <3>1, <3>2
    <2>7. Hashed(verify[v].expected) = EffectiveLog
      <3>1. verify[v].expected = lastHash
        <4>1. verify[v].expected = HashAt(records, orderedIds, Len(orderedIds))
          BY <2>1, <2>6 DEF LogInv, VerifyInv
        <4>2. lastHash = HashAt(records, orderedIds, Len(orderedIds))
          BY <2>4 DEF LogInv, IInv, HashInv, Writing
        <4> QED
          BY <4>1, <4>2
      <3>2. Commits(lastHash, orderedIds)
        BY <2>4 DEF LogInv, CommitInv, Writing
      <3>3. /\ Len(lastHash) = Len(orderedIds)
            /\ \A i \in 1..Len(orderedIds) : lastHash[i].id = orderedIds[i]
        <4>1. \A id : [id |-> id, original |-> TRUE].id = id
          OBVIOUS
        <4>2. \A i \in 1..Len(orderedIds) : lastHash[i] = [id |-> orderedIds[i], original |-> TRUE]
          BY <3>2 DEF Commits
        <4>3. ASSUME NEW i \in 1..Len(orderedIds) PROVE lastHash[i].id = orderedIds[i]
          BY <4>1, <4>2
        <4> QED
          BY <3>2, <4>3 DEF Commits
      <3>4. Hashed(lastHash) = [i \in 1..Len(orderedIds) |-> orderedIds[i]]
        BY <3>3 DEF Hashed
      <3>5. orderedIds = [i \in 1..Len(orderedIds) |-> orderedIds[i]]
        BY <1>c
      <3> QED
        BY <2>5, <3>1, <3>4, <3>5
    \* The verdict is right.
    <2>8. IF violation THEN Altered # {} ELSE verify[v].altered = {}
      <3>1. CASE violation
        BY <3>1 DEF LogInv, VerifyInv
      <3>2. CASE ~violation
        <4>1. \A j \in 1..Len(orderedIds) : orderedIds[j] \notin verify[v].altered
          BY <2>1, <2>6, <3>2 DEF LogInv, VerifyInv
        <4>2. verify[v].altered \subseteq DOMAIN records
          BY <2>1 DEF LogInv, VerifyInv, Altered
        <4> SUFFICES ASSUME NEW id \in verify[v].altered PROVE FALSE
          BY <3>2
        <4>3. \E i \in 1..Len(orderedIds) : orderedIds[i] = id
          BY <4>2 DEF LogInv, StoredInv
        <4> QED
          BY <4>1, <4>3
      <3> QED
        BY <3>1, <3>2
    <2>9. Verdict(v) = [step |-> "scan", since |-> verify[v].altered, violation |-> FALSE,
                        upTo |-> <<>>]
      BY <2>1 DEF Verdict
    <2>10. Verdict(v)' = [step |-> "done", since |-> verify[v].altered,
                          violation |-> violation, upTo |-> EffectiveLog]
      <3>1. verify'[v] = l
        BY <2>3
      <3> QED
        BY <2>2, <2>7, <3>1 DEF Verdict
    <2>12. \A u \in Verifiers \ {v} : Verdict(u)' = Verdict(u)
      BY <2>3 DEF Verdict
    <2>13. Verdicts' = [Verdicts EXCEPT ![v] =
             Promise!Call("done", verify[v].altered, violation, EffectiveLog)]
      BY <2>10, <2>12 DEF Verdicts, Promise!Call
    <2>14. Verdicts[v].step = "scan" /\ Verdicts[v].since = verify[v].altered
      BY <2>9 DEF Verdicts
    <2>15. Promise!Answer(v, violation)
      BY <1>a, <1>b, <2>8, <2>13, <2>14 DEF Promise!Answer, Promise!Reading, Verdicts
    <2> QED
      BY <2>2, <2>15 DEF LogStep, Promise!Next
  <1> QED
    BY <1>1, <1>2, <1>3 DEF Verifying

LEMMA NextIsLog == LogInv /\ [Next]_vars => LogStep
  <1> SUFFICES ASSUME LogInv, [Next]_vars PROVE LogStep
    OBVIOUS
  <1>1. CASE UNCHANGED vars
    <2>1. EffectiveLog' = EffectiveLog /\ Altered' = Altered /\ byTrace' = byTrace
      BY <1>1 DEF vars, storeVars, EffectiveLog, Unindexed, Altered
    <2>2. \A v \in Verifiers : Verdict(v)' = Verdict(v)
      BY <1>1 DEF vars, Verdict
    <2> QED
      BY <2>1, <2>2, LogStutters
  <1> QED
    BY <1>1, AppendsStep, OverwriteSteps, VerificationSteps DEF Next

\* However many appends and verifications run beside each other, each is one step on one log:
\* the refinement of the store, step by step, to what "append record atomically" promises.
THEOREM StoreIsALog == Spec => AppendsAreAtomic
  <1>1. LogInv /\ [Next]_vars => [Promise!Next]_(Promise!logVars)
    BY NextIsLog DEF LogStep
  <1> QED
    BY <1>1, InitIsLog, LogInvAlways, PTL DEF Spec, AppendsAreAtomic, Promise!Spec

\* latest_hash waits for its lock, and what it returns then stands for the records of the log,
\* all of them, as they were appended and in their order: no append is half done, and an
\* overwritten record does not change it.
THEOREM LatestHashIsTheLogs ==
  Spec => [](hashLock = NoOne => EffectiveLog = orderedIds /\ Commits(lastHash, EffectiveLog))
  <1>1. LogInv /\ hashLock = NoOne => EffectiveLog = orderedIds /\ Commits(lastHash, EffectiveLog)
    <2> SUFFICES ASSUME LogInv, hashLock = NoOne
                 PROVE  EffectiveLog = orderedIds /\ Commits(lastHash, EffectiveLog)
      OBVIOUS
    <2>1. \A id \in RecordIds : append[id].pc \notin Holding
      BY NoOneCalls DEF LogInv, IInv, LockInv
    <2>2. EffectiveLog = orderedIds
      BY <2>1 DEF EffectiveLog, Unindexed, Holding
    <2> QED
      BY <2>1, <2>2 DEF LogInv, CommitInv, Holding
  <1> QED
    BY <1>1, LogInvAlways, PTL

=============================================================================
