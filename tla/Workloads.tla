----------------------------- MODULE Workloads -----------------------------
(***************************************************************************)
(* The values a workload takes: what an executed action makes of it        *)
(* (esa-gateway/src/executor.rs), what the demo scenarios and the          *)
(* benchmark make of it (esa-api/src/main.rs, benchmark.rs), and the state *)
(* its metrics amount to.                                                  *)
(*                                                                         *)
(* Latencies are in milliseconds, error rates in tenths of a percent, and  *)
(* factors in tenths.  A latency is rounded up after every step, so it is  *)
(* above a threshold of whole milliseconds exactly when the fraction is;   *)
(* p50, p99 and the rate follow p95 and decide nothing.  A queue is a u64: *)
(* a cast of a float saturates, and integer arithmetic wraps around, as in *)
(* the release build that is deployed.  A factor a request brings may be   *)
(* negative, and so may what is multiplied with it.                        *)
(***************************************************************************)
EXTENDS Integers

CONSTANTS
  Ids,          \* the workloads
  MaxQueue,     \* u64::MAX
  Policy,       \* of each: replication.min_replicas and max_replicas, and the first of
                \* locality.fallback_regions
  HomeOf        \* the region each is seeded in

Allowed == {"IndiaSouth", "IndiaWest", "IndiaNorth"}
Regions == Allowed \cup {"UsEast", "EuWest"}
States == {"Healthy", "Overloaded", "Degraded"}

\* What the deltas and limits of the code need to be told apart.
ASSUME QueueIsWide == MaxQueue \in Nat /\ MaxQueue >= 2000
\* The benchmark resets every workload to two replicas.
ASSUME PolicyAllowsTwo ==
  \A id \in Ids :
    /\ Policy[id].min \in 1..2
    /\ Policy[id].max \in Nat /\ Policy[id].max >= 2
    /\ Policy[id].fallback \in Regions
\* seed_demo_data seeds all of them in India.
ASSUME HomesAreAllowed == HomeOf \in [Ids -> Allowed]

Depths == 0 .. MaxQueue
ErrorRates == {rate \in Int : rate <= 990}
Metrics == [p95 : Int, queue : Depths, err : ErrorRates]
Workload ==
  [metrics : Metrics, state : States, region : Regions, replicas : Nat]

Larger(a, b) == IF a > b THEN a ELSE b
Smaller(a, b) == IF a < b THEN a ELSE b
Clamp(low, x, high) == Larger(low, Smaller(x, high))

\* x times a over b, rounded up and to the nearest.
ScaledUp(x, a, b) == (x * a + b - 1) \div b
Rounded(x, a, b) == (2 * x * a + b) \div (2 * b)
Times(x, tenths) == ScaledUp(x, tenths, 10)

\* A float as u64, of a depth times a over b rounded to the nearest; and a u64 as i64.
Depth(x) == Clamp(0, x, MaxQueue)
Scaled(queue, a, b) == Depth(Rounded(queue, a, b))
Wrapped(x) == x % (MaxQueue + 1)
Signed(x) == IF 2 * x > MaxQueue THEN x - (MaxQueue + 1) ELSE x

-----------------------------------------------------------------------------
(* What an action does.                                                    *)

ComputeWorkloadState(m) ==
  IF m.p95 > 300 \/ m.queue > 1500 \/ m.err > 80 THEN "Degraded"
  ELSE IF m.p95 > 250 \/ m.queue > 1000 \/ m.err > 50 THEN "Overloaded"
  ELSE "Healthy"

\* The deltas an action promises are the ones it applies, within bounds.
ApplyExpectedEffect(m, effect) ==
  [p95   |-> Larger(m.p95 + effect.latency, 20),
   queue |-> Larger(Signed(Wrapped(m.queue + effect.queue)), 0),
   err   |-> Clamp(1, m.err + effect.err, 990)]

\* One more replica takes its share of the latency and of the queue.
Spread(m, old) ==
  [m EXCEPT !.p95 = ScaledUp(@, old, old + 1), !.queue = Scaled(@, old, old + 1)]

Finalized(w, m) == [w EXCEPT !.metrics = m, !.state = ComputeWorkloadState(m)]

ApplyCreateReplica(w, cap, effect) ==
  LET after == ApplyExpectedEffect(w.metrics, effect)
  IN  IF w.replicas < cap
        THEN [Finalized(w, Spread(after, w.replicas)) EXCEPT !.replicas = @ + 1]
        ELSE Finalized(w, after)

ApplyShiftRoute(w, to, effect) ==
  [Finalized(w, ApplyExpectedEffect(w.metrics, effect)) EXCEPT !.region = to]

-----------------------------------------------------------------------------
(* What a scenario or a benchmark's controller writes for a workload it    *)
(* has listed; "first" tells the one the list began with.                  *)

Baseline == [p95 |-> 120, queue |-> 150, err |-> 10]

Degrade(w, m) == [w EXCEPT !.metrics = m, !.state = "Degraded"]

\* The scenario of the endpoint leaves the replicas, the benchmark resets them.
HealthyBaseline(w) == [w EXCEPT !.metrics = Baseline, !.state = "Healthy"]
Reset(w) == [HealthyBaseline(w) EXCEPT !.replicas = 2]

Seeded(id) ==
  [metrics |-> Baseline, state |-> "Healthy", region |-> HomeOf[id], replicas |-> 2]

\* The endpoint truncates the queue, and the benchmark rounds it.
Burst(w, mult, queue) ==
  Degrade(w, [p95   |-> ScaledUp(w.metrics.p95, mult * 9, 100),
              queue |-> queue,
              err   |-> Smaller(ScaledUp(w.metrics.err, mult * 15, 100), 150)])
DemoBurst(w, mult) == Burst(w, mult, Depth((w.metrics.queue * mult) \div 10))
BurstSpike(w, mult) == Burst(w, mult, Scaled(w.metrics.queue, mult, 10))

\* trigger_spike clamps the factor of the latency alone, and marks a workload by the factor
\* it was sent, whatever the metrics become.
TriggerSpike(w, mult) ==
  [metrics |-> [p95   |-> ScaledUp(w.metrics.p95, Clamp(10, mult, 200) * 8, 100),
                queue |-> Depth((w.metrics.queue * mult) \div 10),
                err   |-> Smaller(ScaledUp(w.metrics.err, mult * 15, 100), 990)],
   state   |-> IF mult >= 25 THEN "Degraded" ELSE IF mult >= 15 THEN "Overloaded" ELSE w.state,
   region  |-> w.region, replicas |-> w.replicas]

\* The first takes the skew and the others a little; only the first is marked.
RegionalSkew(w, first, skew, rest) ==
  LET factor == IF first THEN skew ELSE rest
      m == [w.metrics EXCEPT !.p95 = Times(@, factor), !.queue = Scaled(@, factor, 10)]
  IN  IF factor > 20 THEN Degrade(w, m) ELSE [w EXCEPT !.metrics = m]

\* Mutant: a failed node takes a replica below the minimum.
NodeFailureAnyReplicas(w, floor) ==
  [Degrade(w, [p95 |-> Times(w.metrics.p95, 22), queue |-> Scaled(w.metrics.queue, 18, 10),
               err |-> Smaller(w.metrics.err * 2, 120)]) EXCEPT !.replicas = @ - 1]
NodeFailure(w, floor) ==
  [Degrade(w, [p95 |-> Times(w.metrics.p95, 22), queue |-> Scaled(w.metrics.queue, 18, 10),
               err |-> Smaller(w.metrics.err * 2, 120)])
     EXCEPT !.replicas = Larger(@ - 1, floor)]

QueueBuildup(w, mult) ==
  Degrade(w, [w.metrics EXCEPT !.p95 = Times(@, 14), !.queue = Scaled(@, mult * 25, 100)])

\* The constraint-violation scenario takes a workload to its cap.
ConstraintViolation(w, cap) ==
  [Degrade(w, [w.metrics EXCEPT !.p95 = 320, !.queue = 800]) EXCEPT !.replicas = cap]

\* apply_payment_event: what a payment of a method and an amount adds to the workload of its
\* region, which is marked when it is too much and never marked well.
PaymentLoad(w, impact) ==
  LET p95 == w.metrics.p95 + ScaledUp(impact, 15, 10)
      queue == Wrapped(w.metrics.queue + Depth(5 * impact))
      err == Smaller(w.metrics.err + ScaledUp(impact, 2, 10), 990)
  IN  [w EXCEPT !.metrics = [p95 |-> p95, queue |-> queue, err |-> err],
                !.state = IF p95 > 250 \/ err > 50 THEN "Degraded"
                          ELSE IF p95 > 180 \/ queue > 400 THEN "Overloaded" ELSE @]

\* B0: a replica, and the metrics a rule is taken to lead to, healthy by decree.
OverRules(w) == w.metrics.p95 > 250 \/ w.metrics.queue > 1000 \/ w.state # "Healthy"
RuleOnly(w, cap) ==
  [metrics  |-> [p95   |-> Larger(ScaledUp(w.metrics.p95, 65, 100), 80),
                 queue |-> Scaled(w.metrics.queue, 4, 10),
                 err   |-> Larger(ScaledUp(w.metrics.err, 8, 10), 10)],
   state    |-> "Healthy", region |-> w.region,
   replicas |-> IF w.replicas < cap THEN w.replicas + 1 ELSE w.replicas]

\* B1: one replica when the ratio to 200 ms asks for more than there are, up to the cap.
OverTarget(w) == w.metrics.p95 > 230 \/ w.metrics.queue > 800 \/ w.state # "Healthy"
Adaptive(w, cap) ==
  LET desired == Smaller(ScaledUp(w.replicas, w.metrics.p95, 200), cap) IN
  [metrics  |-> [p95   |-> Larger(ScaledUp(w.metrics.p95, 72, 100), 90),
                 queue |-> Scaled(w.metrics.queue, 5, 10),
                 err   |-> Larger(ScaledUp(w.metrics.err, 85, 100), 10)],
   state    |-> "Healthy", region |-> w.region,
   replicas |-> IF desired > w.replicas THEN w.replicas + 1 ELSE w.replicas]
=============================================================================
