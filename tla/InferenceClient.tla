-------------------------- MODULE InferenceClient --------------------------
(***************************************************************************)
(* The client of the language model, OllamaClient in                       *)
(* esa-agents/src/ollama.rs, which the diagnosis agent of every running    *)
(* cycle shares: a cache of answers, a circuit breaker made of an atomic   *)
(* counter and a deadline behind a mutex of its own, and a semaphore held  *)
(* across the request and its retries.  A call may be dropped where it     *)
(* awaits, when the HTTP handler that runs its cycle is dropped.           *)
(*                                                                         *)
(* The model server is external: while it is not well it refuses, throttles*)
(* or answers with a body that cannot be read, as it likes.                *)
(***************************************************************************)
EXTENDS Integers, FiniteSets

CONSTANTS
  Calls,        \* callers of generate_with_agent, each of which may call again
  Prompts,      \* cache keys: model, agent and prompt
  PromptOf,     \* the one each caller asks for; callers may share it
  Permits,      \* of the semaphore: 4
  MaxAttempts,  \* max_attempts: 2
  FailureLimit, \* failures that open the circuit: 5
  OpenFor,      \* ticks it stays open: 30 s
  CacheTtl,     \* ticks an answer is served: 60 s
  CacheLimit,   \* more entries than this clear the cache: 500
  MetricsLimit, \* more records than this drop the oldest: 1000
  Dropped       \* how many the drop takes: 100

ASSUME CallsAreFinite == IsFiniteSet(Calls)
ASSUME PermitsArePositive == Permits \in Nat \ {0}
ASSUME LimitsArePositive == MaxAttempts \in Nat \ {0} /\ FailureLimit \in Nat \ {0}
ASSUME TimesArePositive == OpenFor \in Nat \ {0} /\ CacheTtl \in Nat \ {0}
ASSUME StoresAreBounded ==
  CacheLimit \in Nat /\ MetricsLimit \in Nat /\ Dropped \in 1..(MetricsLimit + 1)
ASSUME PromptsAreFinite == IsFiniteSet(Prompts) /\ PromptOf \in [Calls -> Prompts]

VARIABLES
  pc, attempts,
  permits,   \* free permits of concurrency_semaphore
  failures,  \* consecutive_failures, stopped one above FailureLimit, with which it is compared
  circuit,   \* ticks left of circuit_open_until, 0 when it has passed, or None
  cache,     \* response_cache: the age of each entry, CacheTtl when it is too old, or None
  metrics,   \* records of the cost tracker
  well       \* whether the model server answers every request, and readably

callVars == <<pc, attempts>>
breakerVars == <<failures, circuit>>
storeVars == <<cache, metrics>>
vars == <<callVars, permits, breakerVars, storeVars, well>>

None == -1
Holding == {"sent", "backoff", "reset", "close", "body", "store", "record", "count", "trip", "log"}
PCs == {"idle", "check", "permit"} \cup Holding

\* The shape of the state.
TypeOK ==
  /\ pc \in [Calls -> PCs]
  /\ attempts \in [Calls -> 0..MaxAttempts]
  /\ permits \in 0..Permits
  /\ failures \in 0..(FailureLimit + 1)
  /\ circuit \in {None} \cup 0..OpenFor
  /\ cache \in [Prompts -> {None} \cup 0..CacheTtl]
  /\ metrics \in 0..MetricsLimit
  /\ well \in BOOLEAN

Init ==
  /\ pc = [c \in Calls |-> "idle"]
  /\ attempts = [c \in Calls |-> 0]
  /\ permits = Permits
  /\ failures = 0
  /\ circuit = None
  /\ cache = [p \in Prompts |-> None]
  /\ metrics = 0
  /\ well \in BOOLEAN

Holders == {c \in Calls : pc[c] \in Holding}
Goto(c, there) == pc' = [pc EXCEPT ![c] = there]
\* Mutant: an open circuit waits for a success, whatever the deadline.
IsOpenUntilReset == circuit # None
IsOpen == circuit # None /\ circuit > 0
Cached(p) == cache[p] # None
Entries == {p \in Prompts : Cached(p)}
Hit(p) == Cached(p) /\ cache[p] < CacheTtl

\* An answer that is young enough is returned as it is, and the call ends here, unrecorded.
Begin(c) ==
  /\ pc[c] = "idle"
  /\ ~Hit(PromptOf[c])
  /\ Goto(c, "check")
  /\ UNCHANGED <<attempts, permits, breakerVars, storeVars, well>>

\* The circuit is looked at before the permit is waited for, and not again.
CheckCircuit(c) ==
  /\ pc[c] = "check"
  /\ Goto(c, IF IsOpen THEN "idle" ELSE "permit")
  /\ UNCHANGED <<attempts, permits, breakerVars, storeVars, well>>

Send(c) ==
  /\ attempts' = [attempts EXCEPT ![c] = @ + 1]
  /\ Goto(c, "sent")

Acquire(c) ==
  /\ pc[c] = "permit"
  /\ permits > 0
  /\ permits' = permits - 1
  /\ Send(c)
  /\ UNCHANGED <<breakerVars, storeVars, well>>

\* The scope of _permit ends, by a return or by a drop.
Release == permits' = permits + 1

Return(c) ==
  /\ Goto(c, "idle")
  /\ attempts' = [attempts EXCEPT ![c] = 0]
  /\ Release

\* What the answer to the request leads to: an error in transit and a 429 are tried again.
Outcomes(c) ==
  {"reset"} \cup
  IF well THEN {} ELSE {"count"} \cup IF attempts[c] < MaxAttempts THEN {"backoff"} ELSE {}

Respond(c) ==
  /\ pc[c] = "sent"
  /\ \E next \in Outcomes(c) : Goto(c, next)
  /\ UNCHANGED <<attempts, permits, breakerVars, storeVars, well>>

\* The sleep of 250 ms or more has passed.
Retry(c) ==
  /\ pc[c] = "backoff"
  /\ Send(c)
  /\ UNCHANGED <<permits, breakerVars, storeVars, well>>

ResetFailures(c) ==
  /\ pc[c] = "reset"
  /\ failures' = 0
  /\ Goto(c, "close")
  /\ UNCHANGED <<attempts, permits, circuit, storeVars, well>>

CloseCircuit(c) ==
  /\ pc[c] = "close"
  /\ circuit' = None
  /\ Goto(c, "body")
  /\ UNCHANGED <<attempts, permits, failures, storeVars, well>>

\* A body that cannot be read returns from here: neither counted nor recorded.
ReadBody(c) ==
  /\ pc[c] = "body"
  /\ \/ Goto(c, "store") /\ UNCHANGED <<attempts, permits>>
     \/ ~well /\ Return(c)
  /\ UNCHANGED <<breakerVars, storeVars, well>>

Stored(p) ==
  IF Cardinality(Entries) > CacheLimit
    THEN [[q \in Prompts |-> None] EXCEPT ![p] = 0]
    ELSE [cache EXCEPT ![p] = 0]

Store(c) ==
  /\ pc[c] = "store"
  /\ cache' = Stored(PromptOf[c])
  /\ Goto(c, "record")
  /\ UNCHANGED <<attempts, permits, breakerVars, metrics, well>>

\* The record is pushed, and the oldest are drained when there are too many.
Pushed == IF metrics + 1 > MetricsLimit THEN metrics + 1 - Dropped ELSE metrics + 1

\* record_inference, of an answer or of a failure; the call returns.
Record(c) ==
  /\ pc[c] \in {"record", "log"}
  /\ metrics' = Pushed
  /\ Return(c)
  /\ UNCHANGED <<breakerVars, cache, well>>

Counted == IF failures > FailureLimit THEN failures ELSE failures + 1
\* Mutant: only the very failure that reaches the limit opens the circuit.
OpensOnce(fails) == fails = FailureLimit
Opens(fails) == fails >= FailureLimit

CountFailure(c) ==
  /\ pc[c] = "count"
  /\ failures' = Counted
  /\ Goto(c, IF Opens(Counted) THEN "trip" ELSE "log")
  /\ UNCHANGED <<attempts, permits, circuit, storeVars, well>>

\* Under another lock than the count: a success may have come between the two.
Trip(c) ==
  /\ pc[c] = "trip"
  /\ circuit' = OpenFor
  /\ Goto(c, "log")
  /\ UNCHANGED <<attempts, permits, failures, storeVars, well>>

\* Mutant: a dropped call keeps its permit.
DropKeepsPermit(c) ==
  /\ pc[c] \in {"permit", "sent", "backoff", "body"}
  /\ Goto(c, "idle")
  /\ UNCHANGED <<attempts, permits, breakerVars, storeVars, well>>
\* The caller is dropped while the call awaits; the permit goes with it.
Drop(c) ==
  /\ \/ pc[c] = "permit" /\ Goto(c, "idle") /\ UNCHANGED <<attempts, permits>>
     \/ pc[c] \in {"sent", "backoff", "body"} /\ Return(c)
  /\ UNCHANGED <<breakerVars, storeVars, well>>

Turn == well' = ~well /\ UNCHANGED <<callVars, permits, breakerVars, storeVars>>

Aged(age) == IF age \in 0..(CacheTtl - 1) THEN age + 1 ELSE age

\* Time passes anywhere: the executor may leave a call between two of its steps.
Tick ==
  /\ circuit' = IF circuit > 0 THEN circuit - 1 ELSE circuit
  /\ cache' = [p \in Prompts |-> Aged(cache[p])]
  /\ UNCHANGED <<callVars, permits, failures, metrics, well>>

Proceed(c) ==
  \/ CheckCircuit(c) \/ Respond(c) \/ Retry(c)
  \/ ResetFailures(c) \/ CloseCircuit(c) \/ ReadBody(c) \/ Store(c) \/ Record(c)
  \/ CountFailure(c) \/ Trip(c)

Next ==
  \/ Turn
  \/ Tick
  \/ \E c \in Calls : Begin(c) \/ Acquire(c) \/ Drop(c) \/ Proceed(c)

Spec == Init /\ [][Next]_vars

\* The executor polls what can go on; a request is answered or times out after 25 s; the
\* semaphore serves its waiters in order; time passes.  No call has to be made or dropped.
FairSpec ==
  /\ Spec
  /\ WF_vars(Tick)
  /\ \A c \in Calls : WF_vars(Proceed(c)) /\ SF_vars(Acquire(c))

-----------------------------------------------------------------------------
\* A permit is free or held by a call between its first request and its return, however
\* the call ends: by an answer, a failure, an unreadable body or a drop.
PermitsAccounted == permits + Cardinality(Holders) = Permits

\* The answers kept never exceed the limit by more than the one just stored.
CacheBounded == Cardinality(Entries) <= CacheLimit + 1

\* Every call ends: no wait for a permit, a server or a retry lasts for ever.
CallsEnd == \A c \in Calls : pc[c] = "check" ~> pc[c] = "idle"

\* The circuit does not stay open on a server that has recovered, although the counter
\* stays at its limit until a request succeeds and only the deadline lets one through.
RecoveredServerIsAsked == <>[]well => <>[]~IsOpen

\* The circuit opens again in every outage in which calls go on failing.
FailuresOpenCircuit ==
  (<>[]~well /\ []<>(\E c \in Calls : pc[c] = "log") /\ <>[](\A c \in Calls : pc[c] # "reset"))
    => []<>IsOpen
=============================================================================
