----------------------------- MODULE AuditChain -----------------------------
(***************************************************************************)
(* AuditStore (esa-core/src/audit.rs): calls of append and of verify_chain *)
(* on many threads.  append holds the write locks of last_hash and then of *)
(* ordered_ids while it fills three concurrent maps; verify_chain holds a  *)
(* read lock of ordered_ids only.                                          *)
(*                                                                         *)
(* A SHA-256 hash is what it was computed from: the hash of a record is    *)
(* the chain of everything hashed before it with the record's own entry at *)
(* the end, so two hashes are equal exactly when their inputs are.  An     *)
(* entry is the record's id and whether the fields calculate_hash covers    *)
(* are the ones it was appended with.                                      *)
(***************************************************************************)
EXTENDS Naturals, Sequences, FiniteSets

CONSTANTS
  RecordIds,   \* the records, one append call each
  Traces,      \* trace ids
  TraceOf,     \* the trace of each record
  Verifiers,   \* calls of verify_chain
  NoOne,       \* the holder of a free lock
  Overwrites   \* how many records update_raw_for_testing overwrites

ASSUME TracesOfRecords == TraceOf \in [RecordIds -> Traces]
ASSUME NoOneCalls == NoOne \notin RecordIds
ASSUME OverwritesAreCounted == Overwrites \in Nat

VARIABLES
  append,      \* the local state of each append call
  records,     \* the DashMap of records, a function on the ids it holds
  byTrace,     \* the index by trace id
  orderedIds,  \* the vector behind the RwLock
  lastHash,    \* the hash behind the other RwLock
  hashLock,    \* the append call holding last_hash
  orderWriter, \* the append call holding ordered_ids
  orderReaders,\* the verify_chain calls holding it
  verify       \* the local state of each verify_chain call

storeVars == <<records, byTrace, orderedIds, lastHash>>
lockVars  == <<hashLock, orderWriter, orderReaders>>
vars      == <<append, storeVars, lockVars, verify>>

AppendSteps == {"start", "order", "link", "push", "store", "trace", "release", "done"}

Entry == [id : RecordIds, original : BOOLEAN]

Hash == Seq(Entry)

GENESIS_HASH == <<>>

calculate_hash(id, original, previous) == Append(previous, [id |-> id, original |-> original])

Record == [original : BOOLEAN, previous : Hash, current : Hash]

Call == [pc : AppendSteps, previous : Hash]

Verification ==
  [pc : {"start", "scan", "done"},
   next : Nat \ {0},               \* the index it checks next
   expected : Hash,                \* the previous hash it expects there
   violation : BOOLEAN,            \* whether it has found one
   altered : SUBSET RecordIds]     \* history: what was altered when it took its lock

\* The shape of the state.
TypeOK ==
  /\ append \in [RecordIds -> Call]
  /\ DOMAIN records \subseteq RecordIds
  /\ \A id \in DOMAIN records : records[id] \in Record
  /\ byTrace \in [Traces -> Seq(RecordIds)]
  /\ orderedIds \in Seq(RecordIds)
  /\ lastHash \in Hash
  /\ hashLock \in RecordIds \cup {NoOne}
  /\ orderWriter \in RecordIds \cup {NoOne}
  /\ orderReaders \subseteq Verifiers
  /\ verify \in [Verifiers -> Verification]

Init ==
  /\ append = [id \in RecordIds |-> [pc |-> "start", previous |-> GENESIS_HASH]]
  /\ records = [id \in {} |-> GENESIS_HASH]
  /\ byTrace = [t \in Traces |-> <<>>]
  /\ orderedIds = <<>>
  /\ lastHash = GENESIS_HASH
  /\ hashLock = NoOne /\ orderWriter = NoOne /\ orderReaders = {}
  /\ verify = [v \in Verifiers |-> [pc |-> "start", next |-> 1, expected |-> GENESIS_HASH,
                                    violation |-> FALSE, altered |-> {}]]

-----------------------------------------------------------------------------
(* append.                                                                 *)

Become(id, l) == append' = [append EXCEPT ![id] = l]

Step(id, from, to) ==
  append[id].pc = from /\ Become(id, [append[id] EXCEPT !.pc = to])

LockHash(id) ==
  /\ Step(id, "start", "order")
  /\ hashLock = NoOne /\ hashLock' = id
  /\ UNCHANGED <<storeVars, orderWriter, orderReaders, verify>>

\* Mutant: the vector is taken although verifications read it.
LockOrderBesideReaders(id) ==
  /\ Step(id, "order", "link")
  /\ orderWriter = NoOne /\ orderWriter' = id
  /\ UNCHANGED <<storeVars, hashLock, orderReaders, verify>>

LockOrder(id) ==
  /\ Step(id, "order", "link")
  /\ orderWriter = NoOne /\ orderReaders = {} /\ orderWriter' = id
  /\ UNCHANGED <<storeVars, hashLock, orderReaders, verify>>

\* Mutant: the guard's hash is read and not written.
LinkKeepsHash(id) ==
  /\ append[id].pc = "link"
  /\ Become(id, [pc |-> "push", previous |-> lastHash])
  /\ UNCHANGED <<storeVars, lockVars, verify>>

\* The guard's hash becomes that of the record, which remembers the one before.
Link(id) ==
  /\ append[id].pc = "link"
  /\ Become(id, [pc |-> "push", previous |-> lastHash])
  /\ lastHash' = calculate_hash(id, TRUE, lastHash)
  /\ UNCHANGED <<records, byTrace, orderedIds, lockVars, verify>>

Push(id) ==
  /\ Step(id, "push", "store")
  /\ orderedIds' = Append(orderedIds, id)
  /\ UNCHANGED <<records, byTrace, lastHash, lockVars, verify>>

Put(id, r) ==
  records' = [i \in DOMAIN records \cup {id} |-> IF i = id THEN r ELSE records[i]]

\* The record carries the two hashes computed when it was linked.
Store(id) ==
  /\ Step(id, "store", "trace")
  /\ Put(id, [original |-> TRUE, previous |-> append[id].previous,
              current |-> calculate_hash(id, TRUE, append[id].previous)])
  /\ UNCHANGED <<byTrace, orderedIds, lastHash, lockVars, verify>>

\* Mutant: the index entry is replaced instead of extended.
IndexTraceReplaces(id) ==
  /\ Step(id, "trace", "release")
  /\ byTrace' = [byTrace EXCEPT ![TraceOf[id]] = <<id>>]
  /\ UNCHANGED <<records, orderedIds, lastHash, lockVars, verify>>

\* by_trace; by_workload is filled next in the same way and is not kept.
IndexTrace(id) ==
  /\ Step(id, "trace", "release")
  /\ byTrace' = [byTrace EXCEPT ![TraceOf[id]] = Append(@, id)]
  /\ UNCHANGED <<records, orderedIds, lastHash, lockVars, verify>>

\* The guards go out of scope.
Release(id) ==
  /\ Step(id, "release", "done")
  /\ hashLock' = NoOne /\ orderWriter' = NoOne
  /\ UNCHANGED <<storeVars, orderReaders, verify>>

Appending(id) ==
  LockHash(id) \/ LockOrder(id) \/ Link(id) \/ Push(id) \/ Store(id) \/ IndexTrace(id) \/ Release(id)

-----------------------------------------------------------------------------

Altered == {id \in DOMAIN records : ~records[id].original}

\* update_raw_for_testing: no lock, and the hashes stay what they were.
Overwrite(id) ==
  /\ id \in DOMAIN records \ Altered
  /\ Cardinality(Altered) < Overwrites
  /\ Put(id, [records[id] EXCEPT !.original = FALSE])
  /\ UNCHANGED <<append, byTrace, orderedIds, lastHash, lockVars, verify>>

-----------------------------------------------------------------------------
(* verify_chain.                                                           *)

Proceed(v, l) == verify' = [verify EXCEPT ![v] = l]

LockRead(v) ==
  /\ verify[v].pc = "start"
  /\ orderWriter = NoOne
  /\ orderReaders' = orderReaders \cup {v}
  /\ Proceed(v, [verify[v] EXCEPT !.pc = "scan", !.altered = Altered])
  /\ UNCHANGED <<append, storeVars, hashLock, orderWriter>>

\* A broken link, a payload that no longer gives its hash, or no record at all.
Violates(id, expected) ==
  \/ id \notin DOMAIN records
  \/ records[id].previous # expected
  \/ records[id].current # calculate_hash(id, records[id].original, records[id].previous)

Check(v) ==
  /\ verify[v].pc = "scan" /\ verify[v].next <= Len(orderedIds)
  /\ LET id == orderedIds[verify[v].next]
     IN  Proceed(v, [verify[v] EXCEPT
           !.next = @ + 1,
           !.violation = @ \/ Violates(id, verify[v].expected),
           !.expected = IF id \in DOMAIN records THEN records[id].current ELSE @])
  /\ UNCHANGED <<append, storeVars, lockVars>>

\* Mutant: a verification that returns and keeps its lock.
ReportHoldingLock(v) ==
  /\ verify[v].pc = "scan" /\ verify[v].next > Len(orderedIds)
  /\ Proceed(v, [verify[v] EXCEPT !.pc = "done"])
  /\ UNCHANGED <<append, storeVars, lockVars>>

Report(v) ==
  /\ verify[v].pc = "scan" /\ verify[v].next > Len(orderedIds)
  /\ Proceed(v, [verify[v] EXCEPT !.pc = "done"])
  /\ orderReaders' = orderReaders \ {v}
  /\ UNCHANGED <<append, storeVars, hashLock, orderWriter>>

Verifying(v) == LockRead(v) \/ Check(v) \/ Report(v)

Next ==
  \/ \E id \in RecordIds : Appending(id) \/ Overwrite(id)
  \/ \E v \in Verifiers : Verifying(v)

Spec == Init /\ [][Next]_vars

\* parking_lot serves the threads that wait for a lock, and a holder goes on.
FairSpec ==
  /\ Spec
  /\ \A id \in RecordIds : WF_vars(Appending(id))
  /\ \A v \in Verifiers : WF_vars(Verifying(v))

-----------------------------------------------------------------------------

\* The chain is unbroken in every state, also while a record is being added:
\* each stored record's previous hash is the current hash of the one ordered
\* before it, so the order of the vector and of the hashes is one order.
ChainUnbroken ==
  \A i \in 1..Len(orderedIds) : orderedIds[i] \in DOMAIN records =>
    records[orderedIds[i]].previous =
      IF i = 1 THEN GENESIS_HASH ELSE records[orderedIds[i - 1]].current

\* verify_chain reports a violation exactly for records altered after they were
\* appended: none is reported while appends run beside it, and whatever was
\* altered before it took its lock is reported.
VerdictIsRight ==
  \A v \in Verifiers : verify[v].pc = "done" =>
    /\ verify[v].violation => Altered # {}
    /\ ~verify[v].violation => verify[v].altered = {}

\* latest_hash of the verdict is the store's last_hash, of the same moment.
VerifiedUpToLastHash ==
  \A v \in Verifiers :
    verify[v].pc = "scan" /\ verify[v].next > Len(orderedIds) => verify[v].expected = lastHash

\* No reader follows an index to a record that is not there yet: get_by_trace
\* reads its index without a lock, list_recent and verify_chain under theirs.
NoDanglingId ==
  /\ \A t \in Traces : \A i \in 1..Len(byTrace[t]) : byTrace[t][i] \in DOMAIN records
  /\ orderReaders # {} => \A i \in 1..Len(orderedIds) : orderedIds[i] \in DOMAIN records

\* A record whose append has returned is ordered and indexed exactly once.
Occurrences(s, id) == Cardinality({i \in 1..Len(s) : s[i] = id})

ReturnedIsRecorded ==
  \A id \in RecordIds : append[id].pc = "done" =>
    /\ id \in DOMAIN records
    /\ Occurrences(orderedIds, id) = 1
    /\ Occurrences(byTrace[TraceOf[id]], id) = 1

\* Appends and verifications that wait for each other's locks all return.
CallsReturn ==
  /\ \A id \in RecordIds : <>(append[id].pc = "done")
  /\ \A v \in Verifiers : <>(verify[v].pc = "done")

-----------------------------------------------------------------------------
(* The calls are those of a log whose appends are atomic.  An append takes *)
(* effect when it fills the index by trace, the last of the structures:    *)
(* until then its id, already the last of the vector, counts for nothing.  *)

Unindexed == {id \in RecordIds : append[id].pc \in {"store", "trace"}}
EffectiveLog ==
  IF Unindexed = {} THEN orderedIds ELSE SubSeq(orderedIds, 1, Len(orderedIds) - 1)

\* The records a hash was computed from.
Hashed(hash) == [i \in 1..Len(hash) |-> hash[i].id]

Verdict(v) ==
  [step |-> verify[v].pc, since |-> verify[v].altered,
   violation |-> verify[v].pc = "done" /\ verify[v].violation,
   upTo |-> IF verify[v].pc = "done" THEN Hashed(verify[v].expected) ELSE <<>>]

Promise == INSTANCE AuditLog WITH
  log <- EffectiveLog, index <- byTrace, altered <- Altered,
  verification <- [v \in Verifiers |-> Verdict(v)]

\* "Append record atomically": however appends and verifications interleave in their seven
\* and three steps, they add to one log and answer for it as if each were one step, and the
\* hash a verification names is that of the log as it is then.
AppendsAreAtomic == Promise!Spec

=============================================================================
