-------------------------- MODULE InferenceProofs --------------------------
(***************************************************************************)
(* Proofs that the semaphore of the language model's client loses no       *)
(* permit and that its stores stay bounded, for any number of callers,     *)
(* prompts and permits and every limit.                                    *)
(***************************************************************************)
EXTENDS InferenceClient, FiniteSetTheorems, TLAPS

\* A call that has not begun has made no attempt, and one that waits to try again has one left.
AttemptsLeft ==
  \A c \in Calls :
    /\ pc[c] \in {"idle", "check", "permit"} => attempts[c] = 0
    /\ pc[c] = "backoff" => attempts[c] < MaxAttempts

\* The type invariant leaves open that a returned permit was taken and that an attempt was
\* left; the count of the permits and AttemptsLeft close it.
IInv == TypeOK /\ PermitsAccounted /\ CacheBounded /\ AttemptsLeft

-----------------------------------------------------------------------------
\* A caller that does not hold a permit begins to: one holder more.
LEMMA HolderAdded ==
  ASSUME NEW c \in Calls, NEW there \in Holding, TypeOK, pc[c] \notin Holding, Goto(c, there)
  PROVE  /\ Cardinality(Holders') = Cardinality(Holders) + 1
         /\ Cardinality(Holders) \in Nat
<1>1. Holders' = Holders \cup {c} BY DEF Holders, Goto, TypeOK
<1>2. c \notin Holders BY DEF Holders
<1>3. IsFiniteSet(Holders) BY CallsAreFinite, FS_Subset DEF Holders
<1> QED BY <1>1, <1>2, <1>3, FS_AddElement, FS_CardinalityType

\* A caller that holds a permit ceases to: one holder less.
LEMMA HolderRemoved ==
  ASSUME NEW c \in Calls, TypeOK, pc[c] \in Holding, Goto(c, "idle")
  PROVE  /\ Cardinality(Holders') = Cardinality(Holders) - 1
         /\ Cardinality(Holders) \in Nat
         /\ Cardinality(Holders) > 0
<1>1. Holders' = Holders \ {c} BY DEF Holders, Goto, TypeOK, Holding
<1>2. c \in Holders BY DEF Holders
<1>3. IsFiniteSet(Holders) BY CallsAreFinite, FS_Subset DEF Holders
<1>4. /\ Cardinality(Holders') = Cardinality(Holders) - 1
      /\ Cardinality(Holders) \in Nat
  BY <1>1, <1>2, <1>3, FS_RemoveElement, FS_CardinalityType
<1>5. Cardinality(Holders) # 0 BY <1>2, <1>3, FS_EmptySet
<1> QED BY <1>4, <1>5

\* A caller that moves on within a set of states keeps what it holds.
LEMMA HoldersKept ==
  ASSUME NEW c \in Calls, NEW there, TypeOK, Goto(c, there), pc[c] \in Holding <=> there \in Holding
  PROVE  Holders' = Holders
BY DEF Holders, Goto, TypeOK

\* A step that touches neither permits nor holders keeps the count.
LEMMA CountKept ==
  ASSUME PermitsAccounted, permits' = permits, Holders' = Holders
  PROVE  PermitsAccounted'
BY DEF PermitsAccounted

\* The count goes on being right when a call returns or is dropped.
LEMMA ReturnCounts ==
  ASSUME NEW c \in Calls, TypeOK, PermitsAccounted, pc[c] \in Holding, Return(c)
  PROVE  PermitsAccounted' /\ permits' \in 0..Permits /\ pc' \in [Calls -> PCs]
         /\ attempts' \in [Calls -> 0..MaxAttempts]
<1>1. /\ Cardinality(Holders') = Cardinality(Holders) - 1
      /\ Cardinality(Holders) \in Nat
      /\ Cardinality(Holders) > 0
  BY HolderRemoved DEF Return
<1>2. permits' = permits + 1 BY DEF Return, Release
<1>3. pc' \in [Calls -> PCs] BY DEF Return, Goto, TypeOK, PCs
<1>4. attempts' \in [Calls -> 0..MaxAttempts] BY LimitsArePositive DEF Return, TypeOK
<1> QED BY <1>1, <1>2, <1>3, <1>4, PermitsArePositive DEF PermitsAccounted, TypeOK

\* An answer that is stored after the entries were counted never leaves more than the limit
\* and itself, whether it is new, replaces another, or clears the cache.
LEMMA StoredBounded ==
  ASSUME NEW p \in Prompts, TypeOK, CacheBounded, cache' = Stored(p)
  PROVE  CacheBounded' /\ cache' \in [Prompts -> {None} \cup 0..CacheTtl]
<1>1. IsFiniteSet(Entries) /\ Cardinality(Entries) \in Nat
  BY PromptsAreFinite, FS_Subset, FS_CardinalityType DEF Entries
<1>2. CASE Cardinality(Entries) > CacheLimit
  <2>1. cache' = [[q \in Prompts |-> None] EXCEPT ![p] = 0] BY <1>2 DEF Stored
  <2>2. Entries' = {p} BY <2>1 DEF Entries, Cached, None
  <2>3. Cardinality(Entries') = 1 BY <2>2, FS_Singleton
  <2> QED BY <2>1, <2>3, StoresAreBounded, TimesArePositive DEF CacheBounded
<1>3. CASE ~(Cardinality(Entries) > CacheLimit)
  <2>1. cache' = [cache EXCEPT ![p] = 0] BY <1>3 DEF Stored
  <2>2. Entries' = Entries \cup {p} BY <2>1 DEF Entries, Cached, None, TypeOK
  <2>3. Cardinality(Entries') <= Cardinality(Entries) + 1
    BY <1>1, <2>2, FS_AddElement, SMTT(20)
  <2>4. Cardinality(Entries') \in Nat BY <1>1, <2>2, FS_AddElement, FS_CardinalityType
  <2> QED BY <1>1, <1>3, <2>1, <2>3, <2>4, StoresAreBounded, TimesArePositive
        DEF CacheBounded, TypeOK
<1> QED BY <1>2, <1>3

-----------------------------------------------------------------------------
LEMMA InitIInv == ASSUME Init PROVE IInv
<1>1. TypeOK
  BY PermitsArePositive, LimitsArePositive, StoresAreBounded, TimesArePositive
  DEF Init, TypeOK, PCs
<1>2. Holders = {} BY DEF Init, Holders, Holding
<1>3. PermitsAccounted BY <1>2, FS_EmptySet, PermitsArePositive DEF Init, PermitsAccounted
<1>4. Entries = {} BY DEF Init, Entries, Cached
<1>5. CacheBounded BY <1>4, FS_EmptySet, StoresAreBounded DEF CacheBounded
<1>6. AttemptsLeft BY DEF Init, AttemptsLeft
<1> QED BY <1>1, <1>3, <1>5, <1>6 DEF IInv

\* Aging keeps every entry an entry.
LEMMA TickKeepsEntries ==
  ASSUME TypeOK, cache' = [p \in Prompts |-> Aged(cache[p])]
  PROVE  Entries' = Entries /\ cache' \in [Prompts -> {None} \cup 0..CacheTtl]
<1>1. ASSUME NEW p \in Prompts
      PROVE  /\ Aged(cache[p]) \in {None} \cup 0..CacheTtl
             /\ Aged(cache[p]) = None <=> cache[p] = None
  BY TimesArePositive DEF TypeOK, Aged, None
<1> QED BY <1>1 DEF Entries, Cached

\* A step of one call that leaves the permits and the cache alone.
LEMMA QuietStep ==
  ASSUME IInv, NEW c \in Calls, NEW there \in PCs, Goto(c, there), UNCHANGED <<permits, cache>>,
         pc[c] \in Holding <=> there \in Holding,
         attempts' \in [Calls -> 0..MaxAttempts],
         \A d \in Calls \ {c} : attempts'[d] = attempts[d],
         there \in {"idle", "check", "permit"} => attempts'[c] = 0,
         there = "backoff" => attempts'[c] < MaxAttempts,
         failures' \in 0..(FailureLimit + 1), circuit' \in {None} \cup 0..OpenFor,
         metrics' \in 0..MetricsLimit, well' \in BOOLEAN
  PROVE  IInv'
<1> USE DEF IInv
<1>1. Holders' = Holders BY HoldersKept
<1>2. PermitsAccounted' BY <1>1, CountKept
<1>3. TypeOK' BY DEF TypeOK, Goto
<1>4. CacheBounded' BY DEF CacheBounded, Entries, Cached
<1>5. AttemptsLeft' BY DEF AttemptsLeft, Goto, TypeOK
<1> QED BY <1>2, <1>3, <1>4, <1>5

\* A call returns or is dropped.
LEMMA ReturnStep ==
  ASSUME IInv, NEW c \in Calls, pc[c] \in Holding, Return(c),
         UNCHANGED <<breakerVars, cache, well>>, metrics' \in 0..MetricsLimit
  PROVE  IInv'
<1> USE DEF IInv
<1>1. /\ PermitsAccounted' /\ permits' \in 0..Permits
      /\ pc' \in [Calls -> PCs] /\ attempts' \in [Calls -> 0..MaxAttempts]
  BY ReturnCounts
<1>2. TypeOK' BY <1>1 DEF TypeOK, breakerVars
<1>3. CacheBounded' BY DEF CacheBounded, Entries, Cached
<1>4. AttemptsLeft' BY DEF AttemptsLeft, Return, Goto, TypeOK
<1> QED BY <1>1, <1>2, <1>3, <1>4

LEMMA NextIInv == ASSUME IInv, [Next]_vars PROVE IInv'
<1> USE DEF IInv
<1>1. CASE UNCHANGED vars
  BY <1>1 DEF vars, callVars, breakerVars, storeVars, TypeOK, PermitsAccounted, Holders,
              CacheBounded, Entries, Cached, AttemptsLeft
<1>2. CASE Turn
  BY <1>2 DEF Turn, callVars, breakerVars, storeVars, TypeOK, PermitsAccounted, Holders,
              CacheBounded, Entries, Cached, AttemptsLeft
<1>3. CASE Tick
  <2>1. Entries' = Entries /\ cache' \in [Prompts -> {None} \cup 0..CacheTtl]
    BY <1>3, TickKeepsEntries DEF Tick
  <2>2. TypeOK' BY <1>3, <2>1, TimesArePositive DEF Tick, TypeOK, callVars, None
  <2>3. Holders' = Holders /\ permits' = permits /\ AttemptsLeft'
    BY <1>3 DEF Tick, Holders, callVars, AttemptsLeft
  <2> QED BY <2>1, <2>2, <2>3, CountKept DEF CacheBounded
<1>4. ASSUME NEW c \in Calls, Begin(c) PROVE IInv'
  <2>1. attempts' \in [Calls -> 0..MaxAttempts] /\ \A d \in Calls : attempts'[d] = attempts[d]
    BY <1>4 DEF Begin, TypeOK
  <2>2. attempts'[c] = 0 BY <1>4, <2>1 DEF Begin, AttemptsLeft
  <2> QED BY <1>4, <2>1, <2>2, QuietStep DEF Begin, Holding, PCs, TypeOK, breakerVars, storeVars
<1>5. ASSUME NEW c \in Calls, Acquire(c) PROVE IInv'
  <2>1. Goto(c, "sent") /\ "sent" \in Holding /\ pc[c] \notin Holding
    BY <1>5 DEF Acquire, Send, Holding
  <2>2. Cardinality(Holders') = Cardinality(Holders) + 1 /\ Cardinality(Holders) \in Nat
    BY <2>1, HolderAdded
  <2>3. PermitsAccounted' /\ permits' \in 0..Permits
    BY <1>5, <2>2, PermitsArePositive DEF Acquire, PermitsAccounted, TypeOK
  <2>4. attempts' \in [Calls -> 0..MaxAttempts]
    <3>1. attempts[c] = 0 BY <1>5 DEF Acquire, AttemptsLeft
    <3>2. attempts' = [attempts EXCEPT ![c] = 1] BY <1>5, <3>1 DEF Acquire, Send, TypeOK
    <3> QED BY <3>2, LimitsArePositive DEF TypeOK
  <2>5. TypeOK'
    BY <1>5, <2>1, <2>3, <2>4 DEF Acquire, Goto, TypeOK, PCs, breakerVars, storeVars
  <2>6. CacheBounded' BY <1>5 DEF Acquire, storeVars, CacheBounded, Entries, Cached
  <2>7. AttemptsLeft' BY <1>5, <2>1 DEF Acquire, Send, Goto, AttemptsLeft, TypeOK
  <2> QED BY <2>3, <2>5, <2>6, <2>7
<1>6. ASSUME NEW c \in Calls, Drop(c) PROVE IInv'
  <2>1. CASE pc[c] = "permit" /\ Goto(c, "idle") /\ UNCHANGED <<attempts, permits>>
    <3>1. attempts'[c] = 0 BY <2>1 DEF AttemptsLeft
    <3> QED BY <1>6, <2>1, <3>1, QuietStep DEF Drop, Holding, PCs, TypeOK, breakerVars, storeVars
  <2>2. CASE pc[c] \in {"sent", "backoff", "body"} /\ Return(c)
    BY <1>6, <2>2, ReturnStep DEF Drop, Holding, TypeOK, storeVars
  <2> QED BY <1>6, <2>1, <2>2 DEF Drop
<1>7. ASSUME NEW c \in Calls, Proceed(c) PROVE IInv'
  <2>1. CASE CheckCircuit(c)
    <3>1. attempts'[c] = 0 BY <2>1 DEF CheckCircuit, AttemptsLeft
    <3>2. PICK next \in {"idle", "permit"} : Goto(c, next) BY <2>1 DEF CheckCircuit
    <3> QED BY <2>1, <3>1, <3>2, QuietStep DEF CheckCircuit, Holding, PCs, TypeOK, breakerVars, storeVars
  <2>2. CASE Respond(c)
    <3>1. PICK next \in Outcomes(c) : Goto(c, next) BY <2>2 DEF Respond
    <3>2. next \in {"reset", "count", "backoff"} /\ (next = "backoff" => attempts[c] < MaxAttempts)
      BY <3>1 DEF Outcomes
    <3> QED BY <2>2, <3>1, <3>2, QuietStep DEF Respond, Holding, PCs, TypeOK, breakerVars, storeVars
  <2>3. CASE Retry(c)
    BY <2>3, QuietStep, LimitsArePositive
    DEF Retry, Send, Holding, PCs, TypeOK, AttemptsLeft, breakerVars, storeVars
  <2>4. CASE ResetFailures(c)
    BY <2>4, QuietStep, LimitsArePositive DEF ResetFailures, Holding, PCs, TypeOK, storeVars
  <2>5. CASE CloseCircuit(c)
    BY <2>5, QuietStep DEF CloseCircuit, Holding, PCs, TypeOK, storeVars
  <2>6. CASE ReadBody(c)
    <3>1. CASE Goto(c, "store") /\ UNCHANGED <<attempts, permits>>
      BY <2>6, <3>1, QuietStep DEF ReadBody, Holding, PCs, TypeOK, breakerVars, storeVars
    <3>2. CASE ~well /\ Return(c)
      BY <2>6, <3>2, ReturnStep DEF ReadBody, Holding, TypeOK, storeVars
    <3> QED BY <2>6, <3>1, <3>2 DEF ReadBody
  <2>7. CASE Store(c)
    <3>1. CacheBounded' /\ cache' \in [Prompts -> {None} \cup 0..CacheTtl]
      BY <2>7, StoredBounded, PromptsAreFinite DEF Store
    <3>2. Holders' = Holders BY <2>7, HoldersKept DEF Store, Holding
    <3>3. PermitsAccounted' BY <2>7, <3>2, CountKept DEF Store
    <3>4. TypeOK' BY <2>7, <3>1 DEF Store, Goto, TypeOK, PCs, Holding, breakerVars
    <3>5. AttemptsLeft' BY <2>7 DEF Store, Goto, AttemptsLeft, TypeOK
    <3> QED BY <3>1, <3>3, <3>4, <3>5
  <2>8. CASE Record(c)
    <3>1. metrics' \in 0..MetricsLimit
      BY <2>8, StoresAreBounded DEF Record, Pushed, TypeOK
    <3> QED BY <2>8, <3>1, ReturnStep DEF Record, Holding
  <2>9. CASE CountFailure(c)
    <3>1. failures' \in 0..(FailureLimit + 1)
      BY <2>9, LimitsArePositive DEF CountFailure, Counted, TypeOK
    <3> QED BY <2>9, <3>1, QuietStep DEF CountFailure, Holding, PCs, TypeOK, storeVars
  <2>10. CASE Trip(c)
    BY <2>10, QuietStep, TimesArePositive DEF Trip, Holding, PCs, TypeOK, storeVars
  <2> QED
    BY <1>7, <2>1, <2>2, <2>3, <2>4, <2>5, <2>6, <2>7, <2>8, <2>9, <2>10 DEF Proceed
<1> QED BY <1>1, <1>2, <1>3, <1>4, <1>5, <1>6, <1>7 DEF Next

LEMMA SpecIInv == Spec => []IInv
<1>1. Init => IInv BY InitIInv
<1>2. IInv /\ [Next]_vars => IInv' BY NextIInv
<1> QED BY <1>1, <1>2, PTL DEF Spec

\* No permit of the semaphore is lost or made up, however the calls that held one ended:
\* by an answer, an error, a body that could not be read, or a caller that went away.
THEOREM PermitsAreAccounted == Spec => []PermitsAccounted
<1>1. IInv => PermitsAccounted BY DEF IInv
<1> QED BY <1>1, SpecIInv, PTL

\* The cache of answers never holds more than its limit and one.
THEOREM CacheIsBounded == Spec => []CacheBounded
<1>1. IInv => CacheBounded BY DEF IInv
<1> QED BY <1>1, SpecIInv, PTL

\* The state has its type: the records are bounded and no call makes an attempt too many.
THEOREM InferenceTypeCorrect == Spec => []TypeOK
<1>1. IInv => TypeOK BY DEF IInv
<1> QED BY <1>1, SpecIInv, PTL
=============================================================================
