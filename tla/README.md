# TLA+ models of ESA

ESA is a control plane for payment workloads: agents propose actions, a
deterministic gateway checks and executes them on an in-memory state, every
decision goes into a hash-chained audit store, and payment events from providers
move the workloads' load. These modules model the parts of it that keep state
and are reached by several tasks at once, and the pure decisions those parts rest
on; TLC checks them on small instances and TLAPS proves the main theorems for every
size.

The code paths below are relative to `crates/`. `PROJECT.json` maps every
definition to the lines it models, and lists each hazard at its line with the
properties that would catch it.

## 1. Inventory

| Component (code) | State | Operations | Talks to |
|---|---|---|---|
| State fabric (`esa-state/src/fabric.rs`) | a DashMap of workloads, a version behind an RwLock, snapshots by version | upsert, get, list, create/get/restore_snapshot, update_metrics, compare_and_set_version, execute_atomic_mutation | called by everyone |
| Action gateway (`esa-gateway/src/executor.rs`) | none of its own | execute_with_verdict: policy, verification, version check, snapshot, apply, audit | fabric, policy, verifier, audit store, kubectl |
| Policy engine, verifier (`esa-policy/src`) | rules | evaluate (intent constraints, RULE_001..004), verify | fabric, intents |
| Intent manager (`esa-core/src/intent.rs`) | intents by id and by workload | register, deactivate, expire, validate_action | policy, planning |
| Audit store (`esa-core/src/audit.rs`) | records, two indexes, ordered ids, last hash | append, verify_chain, readers, replay | gateway, API |
| Payment lifecycle (`esa-core/src/payment_state.rs`) | state, refunded amount, ids seen | apply_event | nobody calls it outside its tests |
| Amounts and currencies (`payment_state.rs`) | tables | resolve a payment's amount fields, minimums and methods | checkout |
| Payment events (`esa-api/src/payment.rs`) | none of its own | apply_payment_event: list, change, upsert | fabric |
| Razorpay intake (`esa-razorpay/src`, `esa-api/src/main.rs`) | the deduper's cache, a rate limiter | process_webhook, confirm, ingest | payment events |
| Authentication (`esa-api/src/api_keys.rs`) | public keys, when they were fetched and last asked for, a refresh mutex | resolve_key, authenticate_caller, scopes | the identity provider |
| Universal checkout (`esa-api/src/main.rs`) | gateway overrides behind an RwLock, a limiter, the payment mode of the environment | universal_checkout, toggle_gateway, list_gateways | authentication, amounts, payment events |
| Vitals and websocket (`vitals.rs`, `websocket.rs`, `main.rs`) | a ring of snapshots, a broadcast channel, a task pair per client | ticker, publish_metrics_telemetry, handshake, send and receive | fabric, dashboards |
| Orchestrator (`esa-runtime/src/orchestrator.rs`) | statistics | run_forever, run_cycle: observe, diagnose, plan, review, execute | agents, gateway, fabric |
| Agents (`esa-agents/src`) | thresholds | monitor, diagnose (three tiers), plan, safety review | fabric, intents, language model, fluid reasoner |
| Language model client (`esa-agents/src/ollama.rs`) | response cache, circuit breaker, semaphore, ring of records | generate_with_agent | the model server |
| Demo and benchmarks (`main.rs`, `benchmark.rs`, `benchmark_harness.rs`) | the last reports | scenarios, spikes, seeding, trials, comparison, ablations | fabric, orchestrator, gateway |
| Stores without callers (`esa-state/src/store.rs`, `versioning.rs`) | Postgres, atomic counter | save, load; compare_and_swap | tests only |
| CLI, adversarial suite, safety runner, telemetry exporters, frontend, SDK, Python reasoner, deployment | - | - | the API, over HTTP, or fabrics of their own |

**How they interact.** One process on a multi-threaded tokio runtime. The fabric,
the audit store, the intents, the overrides and the deduper are shared through `Arc`.
Except for the broadcast channel to the dashboards there are no messages between
components, only calls. `execute_with_verdict` is `async` and awaits nothing, so two
calls interleave at every access to shared state and a call is never dropped half-way;
authentication, the language model and a cycle's diagnoses do await, and a request that
awaits is dropped when its client goes away. Nothing is persisted: a restart is the
initial state.

**What is hard.** No lock spans two of the fabric's three stores, so each of its
operations is several steps: an upsert inserts and then increments; a snapshot
reads the version and then the entries one by one; a restore empties the live map,
refills it, and then moves the version *back*. The gateway checks the version and
commits in different steps. Payment events, scenarios and benchmarks overwrite a
workload with a value computed from an earlier read, next to the recovery loop. The
deduper looks and marks in two operations. The key cache keeps keys and their time under
two locks and loses the call that refreshes when its client goes away; the language
model's client holds a permit in the same situation. A checkout keeps a read lock across
its decision and its event while operators wait to write. Publishers of telemetry record
and read the latest in two steps. Providers repeat, reorder and delay their events.

**What makes each correct.** *Fabric*: the counter counts upserts; an
operation that meets no other is one of a versioned store, and no race loses a workload
except through a snapshot copied from a map that is being restored. *Gateway*: at most the allowed replicas; a rejected
call changes nothing; a call leaves exactly one audit record with its outcome; what
has finished excludes what was planned before it. *Audit store*: one chain, a verdict
that is neither a false alarm nor blind. *Lifecycle*: refunds counted once and bounded by
the amount, a capture never lost. *Intake*: an event applied at most once, and "duplicate"
only of what was applied. *Key cache*: a withdrawn key is trusted for a bounded time, the
provider is asked once per cooldown. *Checkout*: no order against an override that has
taken effect, below a minimum, without a credential or where money is live. *Telemetry*: a
dashboard comes to show what is there, and nobody unknown listens in production. *Model
client*: no permit is lost and a circuit opens and closes. *Recovery*: replicas and
residency within the workload's policy whatever is written in between, and every workload
that may be recovered is.

## 2. Modules

| Module | Models | State and actions in the code |
|---|---|---|
| `StateFabric` | `fabric.rs` | `workloads`, `version`, `snapshots` are the three fields; its operators are the single atomic accesses the methods make (`InsertWorkload` + `IncrementVersion` are `upsert_workload`; `ClearWorkload`, `InsertWorkload`, `ResetVersion` are `restore_snapshot`) |
| `ActionGateway` | `execute_with_verdict`, the rules and the verifier | `exec[o]` holds a call's local variables and its program counter; one action per shared access, in the order of the code, with every early return; `audit` is what was appended, `k8sScale` what the deployments run: several workloads may share one (`DeploymentOf`), and kubectl may fail each time it is called |
| `PaymentIngest` | `apply_payment_event` | read and change a copy, insert, increment |
| `ControlPlane` | the two above over one fabric | the composition, its fairness and its properties |
| `ControlPlaneOverlaps` | whose operations on the fabric have met | `ControlPlane` with two history variables, which never hold up a step, and the refinement mapping to `VersionedStore` |
| `VersionedStore` | what the fabric promises | abstract: mutate, save, restore, each in one step |
| `PaymentLifecycle` | `PaymentEntity::apply_event` | one action per event type, `Duplicate` and `Reject`; `event` is the provider's side |
| `PaymentLedger` | what a merchant's books may do | abstract: settle once, return no more than settled, set aside |
| `AuditChain` | `AuditStore` | locks are variables; `append` is seven steps, `verify_chain` lock, one check per record, report |
| `AuditLog` | what the audit store promises | abstract: append, alter, begin a verification, answer it, each in one step |
| `WebhookIntake` | `process_webhook`, `EventDeduper`, the direct endpoints | the cache is a function from ids to "less than an hour old"; `is_duplicate` is four operations |
| `JwksCache` | `JwksKeyCache::resolve_key` | one action per lock taken and per await: the fast path, the mutex, the second look, the cooldown, the request, `Load` and `Mark` for the two writes of `load_jwk_set`, `Lookup`; `Drop` where the code awaits; the provider rotates its keys at any time |
| `Authentication` | `authenticate_caller`, the verification of a token, `require_scope` | operators on tokens, claims and configured keys |
| `PaymentAmounts` | currencies, provider minimums, `resolve_with_provider` | operators on the registry's tables |
| `CheckoutMode` | `detect_checkout_mode` | an operator on the nine environment variables, each by the class of its value |
| `Checkout` | `universal_checkout`, `toggle_gateway` | extends the three above; limiter, authentication, lock, decision, event, answer are an action each; a writer that waits keeps readers out |
| `InferenceClient` | `OllamaClient::generate_with_agent` | circuit check, permit, request, retry, the two halves of closing and of tripping the circuit, cache, record; `Drop` where the code awaits |
| `Telemetry` | the vitals, their publishers, the channel and the websocket tasks | listing, recording, reading the latest and sending are a step each; a lagging receiver goes on with the last messages; the runtime, which sends on the same channel in every cycle, may send at any time |
| `Workloads` | what actions, scenarios, payments and controllers make of a workload | operators on metrics, state, region and replicas |
| `RecoveryAgents` | monitor, diagnosis, planning, safety review, policy on a proposal | operators; extends `Workloads` |
| `Recovery` | `run_forever`, `run_cycle`, the demo, payment and benchmark endpoints | `act[a]` is what the task or request is doing; a request runs a script of operations, each with its factor |
| `MC*` | - | model values, symmetry and inputs for TLC |
| `*Proofs` | - | theorems and proofs, one module per component; `CheckoutProofs` ends with those of `Telemetry`, which the same server feeds |

`Recovery` and `ControlPlane` look at the gateway from two sides. `ControlPlane` takes
each access to the fabric by itself, with rollbacks and lost halves of an upsert, and
keeps of a workload its replicas and whose changes it contains. `Recovery` keeps the
metrics, the region, the intents and the agents' decisions and merges what
`ControlPlane` takes apart: the verdict is a step, so is the commit's check with the
read it guards, and so is an upsert.

**Abstractions.** In `ControlPlane` a workload is the replica count, the workload's
own counter and, instead of metrics, region and state, *whose changes the value
contains* (`writes`): a value computed from a read carries what was read, so the set
tells a lost update from a preserved one. `ShiftRoute`, `MigratePartition` and
`ThrottleWorkload` differ only in fields that are not kept there and are one kind. Intent
constraints, risk and confidence read the proposal only; their joint outcome is the
proposal's `review`. In `Recovery` metrics are integers (milliseconds, items, tenths of a
percent), rounded up where the code keeps fractions, which decides the same at thresholds
of whole units. The factor of a spike, a scenario, a comparison or a payment is any number
of tenths, negative and huge ones included, since the endpoints clamp it only for the
latency (`main.rs:1320`, `1337-1347`); NaN and the infinite ones, which JSON cannot carry, are
left out. A queue is a `u64` whose largest value is the constant `MaxQueue`: a cast
from a float saturates there and at zero, and integer arithmetic wraps around as in the
release build. A recommendation the planner does not know is planned for, intent and all,
until the choice of the action comes to nothing. The language model and the fluid reasoner are any of `Advice`. A SHA-256
hash is the sequence it was computed from; a record is its id and whether its hashed
fields are those it was appended with. A message of the dashboards' channel is a view of the
vitals or one that shows none. A webhook's time is whether a cache entry is older
than the deduper's hour; `JwksCache` has a clock that stops at `Horizon`, `InferenceClient`
ages. A token is who signed it, how, and what is wrong with it. `payment.captured` and
`order.paid` share every arm of `apply_event` and are one type. A list of workloads is one
`View` to `Telemetry`. Counters are unbounded in the specifications except where only a
comparison with a limit matters; no run needs a state constraint. `basis`, `known`
(`WebhookIntake`), `trusted`, `spoiled` and `torn` are history: no action of the code's reads
them.

## 3. Runs

Every run finishes within three minutes on two workers.

| Run | Question | Bounds, and why they are enough |
|---|---|---|
| `ControlPlaneRace`: `ReplicaCap`, `RejectedLeavesNoTrace`, `AuditedExactlyOnce`, `VersionCountsUpserts`, `FinishedCommitExcludes`, `ApartImplementsVersionedStore` | what holds of concurrent calls, rollbacks and events | 2 calls of every kind, 1 event, 1 workload, cap 2, all reviews, kubectl may fail. Each hazard is between two actors on one workload; the cap of 2 lets both calls see room for one replica. `VersionCountsUpserts` and `FinishedCommitExcludes` are claimed until a rollback gets as far as its snapshot, because a restore moves the counter |
| `ControlPlaneOverlaps`: `ReplicaCap`, `LostOnlyThroughTornSnapshots`, `ApartImplementsVersionedStore`, `EveryCallReturns` | what becomes of the map when snapshots and restores race, of operations that meet nobody, and of every proposal | 2 replications or rollbacks in every interleaving, 2 workloads on 1 deployment, kubectl may fail. Two workloads are needed for partly done snapshots and restores, two calls for a restore while another copies, and for an undisturbed operation after one that was disturbed |
| `PaymentLifecycle`: `CaptureNeverLost`, `StateFollowsEvents`, `RefundsCountedOnce`, `ImplementsLedger`, `CaptureSettles` | repeated and reordered delivery | 3 events of every content and a blank id, amount 3, refunds none, 0, 1, 2 and 4 (more than the amount). Three events give authorization-capture-refund, failure-capture-refund and capture with two refunds |
| `AuditChain`: `ChainUnbroken`, `ReturnedIsRecorded`, `AppendsAreAtomic`, `CallsReturn` | one chain, and a log whose appends and verdicts are single steps | 3 appends on 2 traces, 2 verifications, 1 overwrite. Three records give a link in the middle. `VerdictIsRight` follows from `AppendsAreAtomic` and is proved by itself |
| `WebhookDedup`: `RecentlySeenIgnored`, `EveryEventTaken` | the cache under load | 3 calls, 2 payments, a cache of one entry, so that a second id finds it full and a third call meets the sweep |
| `JwksCache`: `FetchesSpaced`, `WithdrawnKeysExpire`, `NoFalseMiss`, `CallsAnswered` | what a rotated key set, failing requests and dropped callers may do to callers | 2 calls, 2 keys of one algorithm, tokens that name a key, no key, or a key with the wrong algorithm; TTL 2, cooldown 2, timeout 1, 3 ticks, the longest a withdrawn key can be trusted (TTL + timeout) |
| `Inference`: `PermitsAccounted`, `CallsEnd`, `RecoveredServerIsAsked`, `FailuresOpenCircuit` | outages, retries and dropped callers | 3 calls on 2 permits (one waits), 2 of them with one prompt, 2 attempts, 2 failures to open, 1 tick open, 1 tick in the cache, limits so small that both stores overflow |
| `Checkout`: `OrdersFollowOverrides`, `OrdersAreSound`, `OrdersAreAllowed`, `SimulationIsExplicit`, `RequestsAnswered` | checkouts next to operators | 2 checkouts, 1 operator, the bucket of one. One checkout comes with every credential and with every filling of the three fields around the minimum, every currency class, gateway and method; the other keeps the lock busy. All environments: every class of every variable |
| `Telemetry`: `ListenersAreKnown`, `DashboardConverges` | older views recorded after newer ones, slow clients, other senders | 2 views and none, the ticker, 1 handler, a runtime that sends at any time, 1 client, a ring of 2 and a channel of 3, which a slow client overflows. The client is one that keeps up: what is pushed out of its channel is vitals, by newer ones. Without that the claim is false, since the runtime's messages may push all vitals out |
| `Recovery`: `ReplicasWithinPolicy`, `ResidencyKept`, `PlannedUnderIntent`, `WorkloadsRecover` | recovery next to everything that disturbs it | the runtime and 1 request, which runs any of 10 demo scripts (a skew of 20 fills the queue to its limit `MaxQueue = 2999`, a spike of −0.5 empties it and makes the error rate negative, one is a payment) or 9 trials of the benchmark; advice the planner knows and does not know; 2 workloads, one that may be shifted west when full and one that begins full and whose fallback region is abroad. The trials begin without their resets, which find everything reset; about 740 000 states |

Violation runs, each of one claim of the repository that the code does not keep:

| Run | Claim | What the counterexample shows |
|---|---|---|
| `OneCommitViolated` | `atomic_concurrency_test.rs:110`: exactly one of the workers planned on a version executes | both calls pass the check before either increments. The test passes because its calls rarely overlap there |
| `WebhookLostViolated` | `main.rs:977`: "Event already processed" | the id is the payment's, so a capture after an authorization is taken for a repetition |

**Further claims the code does not keep.** They are stated in the modules and refuted by
TLC within half a minute when the property is put into the configuration named:

- `PlannedOnCurrentState` (`ControlPlane`; `docs/state-management.md:22-30`, a mutation
  after planning makes the proposal stale), `ControlPlaneRace`: an upsert is in the map
  before it is counted (`fabric.rs:66-68`); and a rollback sets the counter back
  (`fabric.rs:124`), so that a later upsert reaches the planned number over a different
  state, for which no two calls need to meet.
- `LostOnlyThroughTornSnapshots` without its `~torn` (`docs/DEMO_WALKTHROUGH.md:80`, "0
  race conditions and 0 unsafe mutations"), `ControlPlaneOverlaps`: a call snapshots the map
  while a rollback has it cleared, and a restore of that snapshot loses what was missing.
- `ExcessRefundsRejected` (`PaymentLifecycle`; `payment_state.rs:749`, refunds above the
  balance are strictly rejected): once `Refunded`, every refund is `DuplicateIgnored` and
  its id recorded.
- `UpdatedOncePerEvent` (`WebhookIntake`; `dedup.rs:7`, duplicates do not trigger repeated
  mutations), `WebhookDedup`: two deliveries between `contains_key` and `insert`.

`CHECK_DEADLOCK FALSE` is set where every call returns once and the system then
rests, or where all may wait for somebody to come. The payment lifecycle and the recovery
loop never rest.

Every property of a passing run has a mutant in `PROJECT.json`: a definition of the
model replaced by the form a plausible bug would give it (the operators commented
"Mutant" in the modules, which no action uses).

The type invariants are not spent a run on: they are proved.

## 4. Fairness

- `ControlPlaneOverlaps!FairOverlapSpec`: a call that runs, and a payment event that has
  begun, goes on. Between two steps neither holds a lock nor awaits, its thread is
  scheduled, and kubectl returns, with or without success. Nobody owes the system a proposal
  or an event.
- `PaymentLifecycle!FairSpec`: a provider delivers an event until the entity has
  taken it.
- `AuditChain!FairSpec`: `parking_lot` hands a lock to a waiting thread eventually
  (its eventual fairness), and a holder goes on.
- `WebhookIntake!FairSpec`: a call that was refused comes again and is let in some
  time (the provider repeats what was not answered with 2xx and the limiter's
  bucket refills); a handler that was let in awaits nothing.
- `JwksCache!FairSpec`: a call that does not wait goes on, a request ends by reqwest's
  timeout of four seconds, and tokio's mutex is handed to whoever waits for it.
- `InferenceClient!FairSpec`: time passes and a call goes on (requests have a timeout),
  weakly; tokio's semaphore is first come first served, so a caller that waits gets a
  permit if permits come free again and again (strong fairness of `Acquire`).
- `Checkout!FairSpec`: a handler that can go on does; a writer that waits keeps new
  readers out, so it needs weak fairness only; a reader that is kept out gets in between
  two toggles (strong fairness of `CheckoutStep`). Nobody has to come back.
- `Telemetry!FairTelemetry`: the ticker wakes up, publishers that have begun go on, and the
  tasks of a client are scheduled. Nobody has to connect, publish or change anything, and the
  runtime may send or not. That a client keeps up with it is a premise of `DashboardConverges`
  and no fairness: tokio drops what a slow one has not read.
- `Recovery!FairSpec`: `run_forever` never ends and a diagnosis times out, so the
  runtime's cycle goes on, and so does a request that was made. Nothing is assumed of
  the reasoners; `WorkloadsRecover` speaks of behaviours in which both are gone for good,
  when the rules of the last tier decide.

## 5. Proofs

All theorems hold for every value of the constants under the modules' named
assumptions: amounts are naturals, or left out by a request; calls, events and requests are
finitely many and differ from each other; a request's script consists of operations; a
workload's policy allows two replicas and its home is in India; model values stand apart (`Absent` is no workload and no id). TLC
evaluates every assumption in the runs.

- `ControlPlaneProofs`: `TypeCorrect` and `ReplicasBounded` (`ReplicaCap`).
  The cap is inductive with the types because it speaks of every place a workload can
  be on its way to the map: the map, the snapshots, the buffers of snapshots and
  restores, and the copies in the hands of calls and events. One case per step; the only
  one that raises a count is `Apply`, whose guard is on the value it raises.
  `CallsAudited` follows from what a call's program counter says of the records.
  `RefusalsLeaveNoTrace` rests on `LandInv`: the marks in any value, wherever it is, are
  those of calls that have got to their insert, and no such call is refused any more.
  `UpsertsCounted` and `FinishedCommitsExclude` rest on `CalmInv`: as long as no rollback has
  its snapshot nobody is at a restore, the version only grows and is ahead of what every
  finished call has seen, and the cardinality of the finished upserts follows the counter.
  The last part is about `OverlapSpec`, with calls, rollbacks, failures and events racing
  in any number. `LostOnlyWhenTorn` (`LostOnlyThroughTornSnapshots`) rests on `LossInv`: as
  long as nothing was torn, every snapshot and every buffer a restore refills from is
  whole, and a workload that is not in the map is still to be put back by some restore. `ApartIsVersioned`
  (`ApartImplementsVersionedStore`) is the refinement, with no assumption that callers take
  turns: it speaks of the steps at which nobody under way has met another, in whatever state
  earlier meetings have left the fabric. `ApartInv` says what such an operation holds against
  the map it was taken from (its buffer is the store of its version, its copy is the workload
  with its own effect, what is refilled so far is the snapshot's). Each step is then the
  store's upsert, snapshot or restore, or one the store cannot see: a restore takes effect
  for the store where its buffer is read, an upsert where it is inserted.
- `PaymentLifecycleProofs`: `RefundsBounded`, `RefundsAgree`, `CapturesKept`,
  `StateIsOfTheSet` (`StateFollowsEvents`, by an invariant that says in which states which
  events have been taken), and `LedgerImplemented` (`Spec => ImplementsLedger`), which maps
  each delivery to a step of the ledger or a stutter. `RefundsCounted`
  (`RefundsCountedOnce`): the sum of the refunds taken is stated as the cardinality of their
  units, so that a delivery adds a set disjoint from those before it and the sum follows by
  the theorems on finite sets.
- `AuditChainProofs`: `TypeCorrect`, `ChainNeverBreaks`, `VerdictsRight`,
  `VerdictIsUpToDate`, `IndexesHold`. The chain alone is not inductive: the invariant adds
  who holds which lock at which step, that ids in the vector are distinct and each has its
  record or is the one being appended, that the last hash is that of the last ordered record
  or of the one in the appender's hands, and what a verification has seen so far.
  `ReturnsRecorded` (`ReturnedIsRecorded`) rests on `OnceInv`: at each step of an append its
  id has one place in the vector, or none before the push, and likewise in its trace's index.
  `StoreIsALog` (`AppendsAreAtomic`): the seven steps of an append are one step of `AuditLog`,
  the one that fills the index by trace; the others change nothing the log shows, and a
  verification answers for the log as it is at the step in which it answers. It rests on
  `LogInv`, which adds to the invariants above that the last hash stands for exactly the vector, except between the
  link and the push, where it is ahead by the record in the appender's hands.
  `LatestHashIsTheLogs`: whenever nobody holds the lock of the last hash, it is the one the
  log's records lead to, in their order. What the log does not show is the index by id, which is filled a step
  before the index by trace: a reader by id may see a record that much earlier.
- `WebhookIntakeProofs`: `TypeCorrect`, `RecentDuplicatesIgnored`.
  The invariant says that the id of a call in `known` is fresh in the cache and that no
  sweep has a fresh id on its list.
- `JwksCacheProofs`: `TypeCorrect`, `WithdrawalsTakeEffect`, `RequestsSpaced`,
  `MissesAreTrue`. The first of the three rests on `KeysInv`: what is in the cache was
  published at most a timeout before `last_fetched`, also between `Load` and `Mark`. It
  holds because the keys are replaced first and stamped second. The others rest on the
  mutex (`LockInv`).
- `InferenceProofs`: `InferenceTypeCorrect`, `PermitsAreAccounted`, `CacheIsBounded`. The
  count of holders is carried through each step by two lemmas on cardinality.
- `CheckoutProofs`: `OverridesRespected` (no toggle while a checkout is between its decision
  and its event), `OrdersEarned` (what the caller turned out to be is what its token earns,
  which is a case analysis of `authenticate_caller`), `SimulationAskedFor`, and
  `OrdersSound` (`OrdersAreSound`): lemmas on the operators of `PaymentAmounts` say that what
  three fields resolve to is what every filled one gives and that a minimum that is found is
  documented for the provider, the currency and the method; a decision that is no refusal
  has both, and an order stays as it was decided. `CheckoutTypeCorrect` is the shape of the
  state, the bucket's bound in it. `ListenersKnown` (`ListenersAreKnown`) and
  `DashboardTypeCorrect`, the bounds of vitals and channel, are about `Telemetry`, which the
  module extends beside `Checkout` (`Telemetry` names its `Init`, `Next` and `Spec` apart for that).
- `RecoveryProofs`: `ReplicasBounded`, `ResidencyHolds`, `IntentsPrecedePlans`, for any
  scripts, requests, advice and policies. The inductive invariant `IndInv` says that every
  workload *and every copy that may still be written back* is sound (replicas within the
  policy, a region of the intent), that a proposal past the policy stays within the intent,
  and that registered intents and planners about to register one are no more than the actors.
  `RecoveryTypeCorrect` carries the metrics through every scenario, payment, controller and
  action (`WrittenIsWorkload`, `AppliedIsWorkload`), for factors that are any number: what is
  rounded, scaled, cast, wrapped around and clamped is a queue that fits its word and an error
  rate of at most 99%, though neither a latency nor an error rate need stay above zero. The
  assumptions are that the word holds at least 2000 and that scripts consist of operations.
  Whatever reaches the commit promises whole numbers and names a region there is, and every
  copy still to be written is a workload.
  The same invariant counts the rounds of a recovery, three at most.

Every safety invariant and action property a passing run checks is stated by one of these
theorems, and so are the three refinements, of `VersionedStore`, `PaymentLedger` and `AuditLog`.

**Model-checked only**: the liveness properties (`EveryCallReturns`, `CaptureSettles`,
`CallsReturn`, `EveryEventTaken`, `CallsAnswered`, `CallsEnd`, `RecoveredServerIsAsked`,
`FailuresOpenCircuit`, `RequestsAnswered`, `DashboardConverges`, `WorkloadsRecover`): they
need fairness and `ENABLED`, which these provers do not reason about. What the races of
section 3 violate is of course not proved either.

## 6. What is not modelled, and why

- `update_metrics`, `compare_and_set_version`, `execute_atomic_mutation` of the fabric,
  `deactivate` and `cleanup_expired` of the intents: no caller outside tests.
- `create_workload` takes any body, so no property of replicas or regions can survive it;
  rollback-demo and BENCH-11 propose a rollback, which any call of `ControlPlane` may be.
- The index by workload of the audit store is filled like the one by trace; decision
  replay (`audit.rs:365-640`), `live_data.rs`, reports and statistics read and format.
- Signatures, JSON, CORS, prompts, token counts, risk scores and measured effects: pure
  functions of data no property tells apart, or floating point.
- The store of issued keys, which no handler fills; the Razorpay HTTP client, its
  environment variables and its limiter, which hold no state of the system's own.
- The Postgres store and the version tracker: no caller outside their tests.
- CLI, adversarial suite and safety runner, exporters, frontend, SDK, Python reasoner,
  deployment: clients, presentation, or drivers over fabrics of their own.

## 7. Observations without a run

- A hash covers identifiers, version, outcome, verdicts and time; `before_state`,
  `after_state`, `execution`, `rollback_status` and `agent_reasoning` can change
  unnoticed (`audit.rs:162-187`).
- After a full refund a late capture or authorization is answered `Err` every time
  and its id is not recorded (`payment_state.rs:1009`).
- The confirm endpoint and the webhook both apply one payment (`main.rs:1137`).
- `docs/PRD_IMPLEMENTATION_CHECKLIST.md:155-164` places deduplication in
  `ingest_payment_event`, which has none (`main.rs:919-941`), and
  `docs/production-readiness/BASELINE_AUDIT.md:108` describes the cache as a
  5000-entry ring buffer; it is a map that is swept by age from 10000 entries on and
  has no upper bound.
- A caller of the key cache that is dropped in the middle of its request has already
  recorded the attempt: the calls that waited for it are refused until the cooldown has
  passed (`api_keys.rs:440-460`), although the provider is well.
- A diagnosis of the fluid reasoner is believed from 0.70 on and the policy wants 0.75: an
  answer in between is refused in every cycle while no other tier is asked
  (`diagnosis.rs:49`).
- The checkout's limiter is asked before the caller is known (`main.rs:2386`); the first
  toggle of a gateway takes it for up although its corridor is degraded (`main.rs:2364`);
  the gateway a checkout fails over to is not asked for its own health (`main.rs:2492`).
- The ablations are run by a reader of their result without the guard the other
  demo endpoints have (`main.rs:1692`).
- The runtime sends on the dashboards' channel in every cycle, also when all is well
  (`orchestrator.rs:82-94`): a client that lags may have the vitals pushed out by them.
- A spike clamps its multiplier for the latency alone and reports the clamped one
  (`main.rs:1320`, `1337-1347`, `1371`).
- Several workloads share a kubernetes deployment and each scales it to its own count
  (`executor.rs:418-423`); a kubectl that fails is neither reported nor repeated
  (`executor.rs:434`), so what a deployment runs and what the fabric records may differ for ever.
- The model client does not count an answer whose body cannot be read (`ollama.rs:160`),
  and a call that failed may open the circuit after another has closed it (`ollama.rs:235`).

## 8. Plan

Done, in this order: the control plane, the payment lifecycle, the audit store, the
webhook intake, the key cache; then the model client, amounts, modes and authentication
with the checkout that uses them, telemetry, and recovery under scenarios and benchmarks;
and the proofs of section 5.

Next, in order:

1. Proofs: an abstract specification of the intake, and that the detailed one implements it.
2. The intents' expiry and cleanup, once something calls them.
