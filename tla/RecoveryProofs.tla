--------------------------- MODULE RecoveryProofs ---------------------------
(***************************************************************************)
(* Proofs that whatever scenarios, benchmarks and cycles run beside each   *)
(* other, every workload keeps between the bounds of its policy and in the *)
(* allowed regions, and that no cycle's proposal meets the policy without  *)
(* an intent; for any workloads, policies, scripts, requests and advice.   *)
(* At the end, that what they compute of a workload is one again.          *)
(***************************************************************************)
EXTENDS Recovery, FiniteSetTheorems, TLAPS

\* A workload, or a copy of one, that may be written back for id.  The controllers compute a
\* replica count of a latency, so that it is a number is a part of it.
Sound(id, w) ==
  /\ DOMAIN w = {"metrics", "state", "region", "replicas"}
  /\ DOMAIN w.metrics = {"p95", "queue", "err"}
  /\ w.metrics.p95 \in Int
  /\ w.replicas \in Nat
  /\ w.replicas >= Policy[id].min
  /\ w.replicas <= Policy[id].max
  /\ w.region \in Allowed

-----------------------------------------------------------------------------
(* The values: whatever writes a workload writes a sound one.              *)

LEMMA Bounds ==
  ASSUME NEW id \in Ids
  PROVE  /\ Policy[id].min \in 1..2 /\ Policy[id].max \in Nat /\ Policy[id].max >= 2
         /\ HomeOf[id] \in Allowed
BY PolicyAllowsTwo, HomesAreAllowed

LEMMA ScaledUpIsInt ==
  ASSUME NEW x \in Int, NEW a \in Int, NEW b \in Nat, b > 0
  PROVE  ScaledUp(x, a, b) \in Int
<1>1. x * a \in Int OBVIOUS
<1>2. x * a + b - 1 \in Int BY <1>1
<1> HIDE DEF ScaledUp
<1>3. \A y \in Int : y \div b \in Int OBVIOUS
<1> QED BY <1>2, <1>3 DEF ScaledUp

\* The records a scenario writes, field by field: what matters of them are four fields.
LEMMA SoundByFields ==
  ASSUME NEW id, NEW w, Sound(id, w), NEW v,
         DOMAIN v = {"metrics", "state", "region", "replicas"},
         DOMAIN v.metrics = {"p95", "queue", "err"},
         v.metrics.p95 \in Int, v.region = w.region, v.replicas = w.replicas
  PROVE  Sound(id, v)
BY DEF Sound

LEMMA DegradedIsSound ==
  ASSUME NEW id, NEW w, Sound(id, w), NEW m,
         DOMAIN m = {"p95", "queue", "err"}, m.p95 \in Int
  PROVE  Sound(id, Degrade(w, m))
BY DEF Sound, Degrade

LEMMA ReplicasReplaced ==
  ASSUME NEW id, NEW w, Sound(id, w), NEW n \in Nat, n >= Policy[id].min, n <= Policy[id].max
  PROVE  Sound(id, [w EXCEPT !.replicas = n])
BY DEF Sound

LEMMA SkewedIsSound ==
  ASSUME NEW id, NEW w, Sound(id, w), NEW first, NEW skew \in Int, NEW others \in Int
  PROVE  Sound(id, RegionalSkew(w, first, skew, others))
<1> DEFINE factor == IF first THEN skew ELSE others
           m == [w.metrics EXCEPT !.p95 = Times(@, factor), !.queue = Scaled(@, factor, 10)]
<1>1. DOMAIN m = {"p95", "queue", "err"} /\ m.p95 = ScaledUp(w.metrics.p95, factor, 10)
  BY DEF Sound, Times
<1>2. m.p95 \in Int
  <2>1. factor \in Int /\ w.metrics.p95 \in Int BY DEF Sound
  <2>2. \A a \in Int : ScaledUp(w.metrics.p95, a, 10) \in Int BY ScaledUpIsInt DEF Sound
  <2> QED BY <1>1, <2>1, <2>2
<1>3. RegionalSkew(w, first, skew, others) = IF factor > 20 THEN Degrade(w, m)
                                             ELSE [w EXCEPT !.metrics = m]
  BY DEF RegionalSkew
<1> HIDE DEF m, factor
<1>4. Sound(id, [w EXCEPT !.metrics = m]) BY <1>1, <1>2 DEF Sound
<1> QED BY <1>1, <1>2, <1>3, <1>4, DegradedIsSound

LEMMA AdaptedIsSound ==
  ASSUME NEW id \in Ids, NEW w, Sound(id, w)
  PROVE  Sound(id, Adaptive(w, Policy[id].max))
<1> DEFINE scaled == ScaledUp(w.replicas, w.metrics.p95, 200)
           desired == Smaller(scaled, Policy[id].max)
           after == IF desired > w.replicas THEN w.replicas + 1 ELSE w.replicas
           latency == Larger(ScaledUp(w.metrics.p95, 72, 100), 90)
           v == Adaptive(w, Policy[id].max)
<1>1. /\ v.replicas = after /\ v.region = w.region
      /\ DOMAIN v = {"metrics", "state", "region", "replicas"}
      /\ DOMAIN v.metrics = {"p95", "queue", "err"} /\ v.metrics.p95 = latency
  BY DEF Adaptive
<1>2. latency \in Int
  <2>1. ScaledUp(w.metrics.p95, 72, 100) \in Int BY ScaledUpIsInt DEF Sound
  <2> QED BY <2>1 DEF Larger
<1>3. scaled \in Int BY ScaledUpIsInt DEF Sound
<1>4. after \in Nat /\ after >= Policy[id].min /\ after <= Policy[id].max
  <2> HIDE DEF scaled
  <2> QED BY <1>3, Bounds DEF Smaller, Sound
<1> HIDE DEF after, latency, v
<1>5. Sound(id, v) BY <1>1, <1>2, <1>4 DEF Sound
<1> QED BY <1>5 DEF v

LEMMA BurstIsSound ==
  ASSUME NEW id, NEW w, Sound(id, w), NEW mult \in Int, NEW queue
  PROVE  Sound(id, Burst(w, mult, queue))
<1> DEFINE m == [p95   |-> ScaledUp(w.metrics.p95, mult * 9, 100),
                 queue |-> queue,
                 err   |-> Smaller(ScaledUp(w.metrics.err, mult * 15, 100), 150)]
<1>1. Burst(w, mult, queue) = Degrade(w, m) BY DEF Burst
<1>2. DOMAIN m = {"p95", "queue", "err"} /\ m.p95 = ScaledUp(w.metrics.p95, mult * 9, 100)
  OBVIOUS
<1>3. mult * 9 \in Int OBVIOUS
<1>4. ASSUME NEW a \in Int PROVE ScaledUp(w.metrics.p95, a, 100) \in Int
  BY ScaledUpIsInt DEF Sound
<1> HIDE DEF m
<1> QED BY <1>1, <1>2, <1>3, <1>4, DegradedIsSound

LEMMA SpikedIsSound ==
  ASSUME NEW id, NEW w, Sound(id, w), NEW mult \in Int
  PROVE  Sound(id, TriggerSpike(w, mult))
<1> DEFINE v == TriggerSpike(w, mult)
           clamped == Clamp(10, mult, 200) * 8
<1>1. clamped \in Int BY DEF Clamp, Larger, Smaller
<1>2. /\ DOMAIN v = {"metrics", "state", "region", "replicas"}
      /\ DOMAIN v.metrics = {"p95", "queue", "err"}
      /\ v.metrics.p95 = ScaledUp(w.metrics.p95, clamped, 100)
      /\ v.region = w.region /\ v.replicas = w.replicas
  BY DEF TriggerSpike
<1> HIDE DEF v, clamped
<1>3. ScaledUp(w.metrics.p95, clamped, 100) \in Int BY <1>1, ScaledUpIsInt DEF Sound
<1>4. Sound(id, v) BY <1>2, <1>3, SoundByFields
<1> QED BY <1>4 DEF v

LEMMA PaidIsSound ==
  ASSUME NEW id, NEW w, Sound(id, w), NEW impact \in Int
  PROVE  Sound(id, PaymentLoad(w, impact))
<1> DEFINE v == PaymentLoad(w, impact)
<1>1. /\ DOMAIN v = {"metrics", "state", "region", "replicas"}
      /\ DOMAIN v.metrics = {"p95", "queue", "err"}
      /\ v.metrics.p95 = w.metrics.p95 + ScaledUp(impact, 15, 10)
      /\ v.region = w.region /\ v.replicas = w.replicas
  BY DEF PaymentLoad, Sound
<1> HIDE DEF v
<1>2. ScaledUp(impact, 15, 10) \in Int BY ScaledUpIsInt
<1>3. v.metrics.p95 \in Int BY <1>1, <1>2 DEF Sound
<1>4. Sound(id, v) BY <1>1, <1>3, SoundByFields
<1> QED BY <1>4 DEF v

\* What a scenario, a controller or a payment writes of a sound workload is sound, by whatever
\* factor it is multiplied.
LEMMA WrittenIsSound ==
  ASSUME NEW id \in Ids, NEW w, Sound(id, w), NEW do, do.op \in Writing, do.factor \in Int
  PROVE  Sound(id, Written(do, id, w))
<1> DEFINE p95 == w.metrics.p95
           first == id = FirstListed
<1>a. \A a \in Int : ScaledUp(p95, a, 10) \in Int /\ ScaledUp(p95, a, 100) \in Int
  BY ScaledUpIsInt DEF Sound
<1>b. DOMAIN HealthyBaseline(w) = {"metrics", "state", "region", "replicas"}
      /\ Sound(id, HealthyBaseline(w))
  BY DEF HealthyBaseline, Baseline, Sound
<1>1. CASE do.op = "baseline" BY <1>b, <1>1 DEF Written
<1>2. CASE do.op = "reset"
  <2>1. Written(do, id, w) = [HealthyBaseline(w) EXCEPT !.replicas = 2] BY <1>2 DEF Written, Reset
  <2> QED BY <1>b, <2>1, Bounds, ReplicasReplaced
<1>3. CASE do.op = "seed" BY <1>3, Bounds DEF Written, Seeded, Baseline, Sound
<1>4. CASE do.op \in {"demo burst", "burst"}
  <2>1. \E queue : Written(do, id, w) = Burst(w, do.factor, queue)
    BY <1>4 DEF Written, DemoBurst, BurstSpike
  <2> QED BY <2>1, BurstIsSound
<1>5. CASE do.op = "spike"
  <2>1. Written(do, id, w) = TriggerSpike(w, do.factor) BY <1>5 DEF Written
  <2> QED BY <2>1, SpikedIsSound
<1>6. CASE do.op = "skew"
  <2>1. Written(do, id, w) = RegionalSkew(w, first, do.factor, 12) BY <1>6 DEF Written
  <2> QED BY <2>1, SkewedIsSound
<1>7. CASE do.op = "mild skew"
  <2>1. Written(do, id, w) = RegionalSkew(w, first, do.factor, 11) BY <1>7 DEF Written
  <2> QED BY <2>1, SkewedIsSound
<1>8. CASE do.op = "node"
  <2> DEFINE m == [p95 |-> Times(w.metrics.p95, 22), queue |-> Scaled(w.metrics.queue, 18, 10),
                   err |-> Smaller(w.metrics.err * 2, 120)]
             left == Larger(w.replicas - 1, Policy[id].min)
  <2>1. DOMAIN m = {"p95", "queue", "err"} /\ m.p95 \in Int BY <1>a DEF Times
  <2>2. left \in Nat /\ left >= Policy[id].min /\ left <= Policy[id].max
    BY Bounds DEF Larger, Sound
  <2>3. Written(do, id, w) = [Degrade(w, m) EXCEPT !.replicas = Larger(@ - 1, Policy[id].min)]
    BY <1>8 DEF Written, NodeFailure
  <2> HIDE DEF m
  <2>4. Sound(id, Degrade(w, m)) /\ Degrade(w, m).replicas = w.replicas
    BY <2>1, DegradedIsSound DEF Degrade, Sound
  <2>5. Written(do, id, w) = [Degrade(w, m) EXCEPT !.replicas = left] BY <2>3, <2>4
  <2> QED BY <2>2, <2>4, <2>5, ReplicasReplaced
<1>9. CASE do.op = "buildup"
  <2> DEFINE m == [w.metrics EXCEPT !.p95 = Times(@, 14),
                                    !.queue = Scaled(@, do.factor * 25, 100)]
  <2>1. Written(do, id, w) = Degrade(w, m) BY <1>9 DEF Written, QueueBuildup
  <2>2. DOMAIN m = {"p95", "queue", "err"} /\ m.p95 \in Int BY <1>a DEF Times, Sound
  <2> HIDE DEF m
  <2> QED BY <2>1, <2>2, DegradedIsSound
<1>10. CASE do.op = "limit"
  <2> DEFINE m == [w.metrics EXCEPT !.p95 = 320, !.queue = 800]
  <2>1. Written(do, id, w) = [Degrade(w, m) EXCEPT !.replicas = Policy[id].max]
    BY <1>10 DEF Written, ConstraintViolation
  <2>2. DOMAIN m = {"p95", "queue", "err"} /\ m.p95 \in Int BY DEF Sound
  <2> HIDE DEF m
  <2> QED BY <2>1, <2>2, DegradedIsSound, ReplicasReplaced, Bounds
<1>11. CASE do.op = "full" BY <1>11, ReplicasReplaced, Bounds DEF Written
<1>12. CASE do.op = "payment"
  <2>1. Written(do, id, w) = PaymentLoad(w, do.factor) BY <1>12 DEF Written
  <2> QED BY <2>1, PaidIsSound
<1>13. CASE do.op = "B0"
  <2> DEFINE v == RuleOnly(w, Policy[id].max)
  <2>1. /\ DOMAIN v = {"metrics", "state", "region", "replicas"}
        /\ DOMAIN v.metrics = {"p95", "queue", "err"}
        /\ v.metrics.p95 = Larger(ScaledUp(p95, 65, 100), 80)
        /\ v.region = w.region
        /\ v.replicas = IF w.replicas < Policy[id].max THEN w.replicas + 1 ELSE w.replicas
    BY DEF RuleOnly
  <2>2. Larger(ScaledUp(p95, 65, 100), 80) \in Int BY <1>a DEF Larger
  <2>3. Written(do, id, w) = v BY <1>13 DEF Written
  <2> HIDE DEF v
  <2> QED BY <2>1, <2>2, <2>3, Bounds DEF Sound
<1>14. CASE do.op = "B1"
  <2>1. Written(do, id, w) = Adaptive(w, Policy[id].max) BY <1>14 DEF Written
  <2> QED BY <2>1, AdaptedIsSound
<1>15. CASE do.op \in {"touch", "rebalance"} BY <1>15 DEF Written
<1> QED
  BY <1>1, <1>2, <1>3, <1>4, <1>5, <1>6, <1>7, <1>8, <1>9, <1>10, <1>11, <1>12, <1>13, <1>14,
     <1>15 DEF Writing

\* What an action makes of a sound workload is sound if it does not shift it abroad.
LEMMA ApplyIsSound ==
  ASSUME NEW id \in Ids, NEW w, Sound(id, w), NEW proposal, proposal.effect.latency \in Int,
         proposal.kind # "CreateReplica" => proposal.to \in Allowed
  PROVE  Sound(id, Apply(id, proposal, w))
<1> DEFINE effect == proposal.effect
           after == ApplyExpectedEffect(w.metrics, effect)
           spread == Spread(after, w.replicas)
<1>1. DOMAIN after = {"p95", "queue", "err"} /\ after.p95 \in Int
  BY DEF ApplyExpectedEffect, Larger, Sound
<1>2. DOMAIN spread = {"p95", "queue", "err"} /\ spread.p95 \in Int
  <2> HIDE DEF after
  <2>1. DOMAIN spread = {"p95", "queue", "err"}
        /\ spread.p95 = ScaledUp(after.p95, w.replicas, w.replicas + 1)
    BY <1>1 DEF Spread
  <2> QED BY <1>1, <2>1, ScaledUpIsInt DEF Sound
<1>3. \A m : DOMAIN m = {"p95", "queue", "err"} /\ m.p95 \in Int =>
               Sound(id, Finalized(w, m)) /\ Finalized(w, m).replicas = w.replicas
  BY DEF Finalized, Sound
<1>4. Sound(id, Finalized(w, after)) BY <1>1, <1>3
<1>5. CASE proposal.kind = "CreateReplica"
  <2>1. Apply(id, proposal, w) =
          IF w.replicas < Policy[id].max
            THEN [Finalized(w, spread) EXCEPT !.replicas = @ + 1] ELSE Finalized(w, after)
    BY <1>5 DEF Apply, ApplyCreateReplica
  <2> HIDE DEF spread, after
  <2>2. CASE w.replicas < Policy[id].max
    <3>1. Sound(id, Finalized(w, spread)) /\ Finalized(w, spread).replicas = w.replicas
      BY <1>2, <1>3
    <3>2. Apply(id, proposal, w) = [Finalized(w, spread) EXCEPT !.replicas = w.replicas + 1]
      BY <2>1, <2>2, <3>1
    <3>3. /\ w.replicas + 1 \in Nat /\ w.replicas + 1 >= Policy[id].min
          /\ w.replicas + 1 <= Policy[id].max
      BY <2>2, Bounds DEF Sound
    <3> QED BY <3>1, <3>2, <3>3, ReplicasReplaced
  <2>3. CASE ~(w.replicas < Policy[id].max) BY <1>4, <2>1, <2>3
  <2> QED BY <2>2, <2>3
<1>6. CASE proposal.kind # "CreateReplica"
  <2>1. Apply(id, proposal, w) = [Finalized(w, after) EXCEPT !.region = proposal.to]
    BY <1>6 DEF Apply, ApplyShiftRoute
  <2> HIDE DEF after
  <2> QED BY <1>4, <1>6, <2>1 DEF Sound
<1> QED BY <1>5, <1>6

\* What the policy lets execute keeps the workload where it is or shifts it within India, if
\* the workload has an intent.
LEMMA AllowedStaysHome ==
  ASSUME NEW id, NEW proposal, NEW w, NEW current, NEW count,
         Evaluate(id, proposal, w, current, count) = "Allowed",
         proposal.kind # "ShiftRoute" \/ count # 0
  PROVE  /\ proposal.kind = "ShiftRoute" => proposal.to \in Allowed
         /\ proposal.risk # "Critical"
BY DEF Evaluate, Violations

\* The planner proposes nothing, a replica or a route; the review lets no nothing pass.
LEMMA PassingPlans ==
  ASSUME NEW id, NEW w, NEW advice, Passes(Plan(id, w, advice))
  PROVE  /\ Plan(id, w, advice).kind \in {"CreateReplica", "ShiftRoute"}
         /\ Plan(id, w, advice).effect.latency \in Int
<1> DEFINE plan == Plan(id, w, advice)
<1>1. \/ plan = Proposal("ShiftRoute", Policy[id].fallback, Effect(-60, -400, -20),
                         advice.confidence, "Medium", advice.evidence)
      \/ plan = Proposal("CreateReplica", AllowedRegions[1], Effect(-80, -500, -20),
                         advice.confidence, "Low", advice.evidence)
      \/ plan = Proposal("ShiftRoute", FirstOther(w.region), Effect(-40, -200, -10),
                         advice.confidence, "Medium", advice.evidence)
      \/ plan = NoProposal
  BY DEF Plan
<1>2. ~Passes(NoProposal) BY DEF Passes, NoProposal, Proposal
<1> QED BY <1>1, <1>2 DEF Proposal, Effect

-----------------------------------------------------------------------------
(* The inductive invariant.                                                *)

OnScript(l, operations) == l.script # << >> /\ Head(l.script).op \in operations

\* What is on its way through the gateway.  Only a cycle shifts a route, and no restart comes
\* as far as the commit.
InFlight(l) ==
  /\ l.proposal.effect.latency \in Int
  /\ l.proposal.kind \in {"CreateReplica", "ShiftRoute", "RestartWorkload"}
  /\ l.proposal.kind = "ShiftRoute" => OnScript(l, {"cycle"})
  /\ l.proposal.kind = "RestartWorkload" => l.proposal.risk = "Critical"

\* The local state of an actor: whatever it may still write back is sound.
LocalOK(l) ==
  /\ DOMAIN l = {"pc", "script", "round", "list", "found", "id", "advice", "proposal", "copy"}
  /\ l.script \in Seq(Operations)
  /\ l.id \in Ids
  /\ DOMAIN l.list \subseteq Ids /\ \A id \in DOMAIN l.list : Sound(id, l.list[id])
  /\ DOMAIN l.found \subseteq Ids
  /\ l.pc = "write" => OnScript(l, Writing)
  /\ l.pc \in {"diagnose", "read", "version", "register"} => OnScript(l, {"cycle"})
  /\ l.pc = "propose" => OnScript(l, {"rounds"})
  /\ l.pc \in {"evaluate", "commit", "insert"} => OnScript(l, Calls \cup {"rounds", "cycle"})
  /\ l.pc \in {"evaluate", "commit"} => InFlight(l)
  /\ l.pc = "commit" => /\ l.proposal.kind # "RestartWorkload"
                        /\ l.proposal.kind = "ShiftRoute" => l.proposal.to \in Allowed
  /\ l.pc = "insert" => Sound(l.id, l.copy)

\* A cycle at the gateway has an intent.
Intended(l) ==
  l.pc \in {"evaluate", "commit", "insert"} /\ OnScript(l, {"cycle"}) => intents[l.id] > 0

Registering(id) == {a \in Actors : act[a].pc = "register" /\ act[a].id = id}

IndInv ==
  /\ DOMAIN workloads = Ids /\ \A id \in Ids : Sound(id, workloads[id])
  /\ DOMAIN act = Actors /\ \A a \in Actors : LocalOK(act[a]) /\ Intended(act[a])
  /\ intents \in [Ids -> Nat]
  /\ \A id \in Ids : intents[id] + Cardinality(Registering(id)) <= Cardinality(Actors)

LEMMA ActorsAreFinite == IsFiniteSet(Actors)
BY RequestsAreFinite, FS_AddElement DEF Actors

LEMMA Sizes ==
  ASSUME NEW S \in SUBSET Actors
  PROVE  /\ IsFiniteSet(S) /\ Cardinality(S) \in Nat
         /\ Cardinality(S) <= Cardinality(Actors) /\ Cardinality(Actors) \in Nat
BY ActorsAreFinite, FS_Subset, FS_CardinalityType

LEMMA RestIsOK ==
  /\ LocalOK(AtRest) /\ AtRest.pc = "idle"
  /\ \A script \in Seq(Operations) :
       LocalOK(Starting(script)) /\ Starting(script).pc = "begin"
<1>1. /\ DOMAIN AtRest = {"pc", "script", "round", "list", "found", "id", "advice", "proposal",
                          "copy"}
      /\ AtRest.id = FirstListed /\ AtRest.list = << >> /\ AtRest.found = << >>
      /\ AtRest.pc = "idle" /\ AtRest.script = << >>
  BY DEF AtRest
<1>2. DOMAIN << >> = {} /\ << >> \in Seq(Operations) OBVIOUS
<1>3. LocalOK(AtRest) BY <1>1, <1>2, OneIsFirst DEF LocalOK
<1>4. ASSUME NEW script \in Seq(Operations)
      PROVE  LocalOK(Starting(script)) /\ Starting(script).pc = "begin"
  <2> DEFINE l == Starting(script)
  <2>1. /\ DOMAIN l = DOMAIN AtRest /\ l.pc = "begin" /\ l.id = AtRest.id
        /\ l.list = << >> /\ l.found = << >> /\ l.script = script
    BY <1>1 DEF Starting
  <2> HIDE DEF l
  <2>2. LocalOK(l) BY <1>1, <1>2, <2>1, OneIsFirst DEF LocalOK
  <2> QED BY <2>1, <2>2 DEF l
<1> QED BY <1>1, <1>3, <1>4

LEMMA OneCycle == <<Do("cycle")>> \in Seq(Operations)
<1>1. Do("cycle") \in Operations BY DEF Do, By, Operations
<1> QED BY <1>1

LEMMA FinishedIsOK ==
  ASSUME NEW a, LocalOK(act[a]), act[a].script # << >>
  PROVE  LocalOK(Finished(a)) /\ Finished(a).pc \in {"idle", "begin"}
<1> DEFINE rest == IF a = Runtime THEN <<Do("cycle")>> ELSE Tail(act[a].script)
<1>1. Tail(act[a].script) \in Seq(Operations) BY DEF LocalOK
<1>2. rest \in Seq(Operations) BY <1>1, OneCycle
<1>3. Finished(a) = IF rest = << >> THEN AtRest ELSE Starting(rest) BY DEF Finished
<1> HIDE DEF rest
<1> QED BY <1>2, <1>3, RestIsOK

\* One actor moves to a sound local state, and at most writes a sound workload.
LEMMA Moves ==
  ASSUME IndInv, NEW a \in Actors, NEW l, LocalOK(l), Intended(l),
         act' = [act EXCEPT ![a] = l], UNCHANGED intents,
         l.pc = "register" => intents[l.id] = 0,
         \/ UNCHANGED workloads
         \/ \E id \in Ids : \E w : Sound(id, w) /\ workloads' = [workloads EXCEPT ![id] = w]
  PROVE  IndInv'
<1>1. DOMAIN workloads' = Ids /\ \A id \in Ids : Sound(id, workloads'[id]) BY DEF IndInv
<1>2. DOMAIN act' = Actors /\ \A b \in Actors : act'[b] = IF b = a THEN l ELSE act[b]
  BY DEF IndInv
<1>3. \A b \in Actors : LocalOK(act'[b]) /\ Intended(act'[b]) BY <1>2 DEF IndInv
<1>4. \A b \in Actors : Intended(act[b])' BY <1>3 DEF Intended
<1>5. ASSUME NEW id \in Ids
      PROVE  intents'[id] + Cardinality(Registering(id)') <= Cardinality(Actors)
  <2>1. Registering(id)' = {b \in Actors : act'[b].pc = "register" /\ act'[b].id = id}
    BY DEF Registering
  <2>2. intents[id] \in Nat BY DEF IndInv
  <2>3. CASE l.pc = "register" /\ l.id = id
    <3>1. Registering(id)' \subseteq Actors BY <2>1
    <3> QED BY <2>2, <2>3, <3>1, Sizes
  <2>4. CASE ~(l.pc = "register" /\ l.id = id)
    <3>1. Registering(id)' \subseteq Registering(id) BY <1>2, <2>1, <2>4 DEF Registering
    <3>2. Registering(id) \subseteq Actors BY DEF Registering
    <3>3. Cardinality(Registering(id)') <= Cardinality(Registering(id))
      BY <3>1, <3>2, ActorsAreFinite, FS_Subset
    <3>4. /\ Cardinality(Registering(id)) \in Nat /\ Cardinality(Registering(id)') \in Nat
          /\ Cardinality(Actors) \in Nat
      BY <3>1, <3>2, Sizes
    <3>5. intents[id] + Cardinality(Registering(id)) <= Cardinality(Actors) BY DEF IndInv
    <3> QED BY <2>2, <3>3, <3>4, <3>5
  <2> QED BY <2>3, <2>4
<1>6. LocalOK(l)' <=> LocalOK(l) OBVIOUS
<1> QED BY <1>1, <1>2, <1>3, <1>4, <1>5 DEF IndInv

-----------------------------------------------------------------------------
(* The steps.                                                              *)

LEMMA InitIsInd == Init => IndInv
<1> SUFFICES ASSUME Init PROVE IndInv OBVIOUS
<1>1. ASSUME NEW id \in Ids PROVE Sound(id, Seeded(id))
  BY Bounds DEF Seeded, Baseline, Sound
<1>2. \A a \in Actors : act[a] = AtRest \/ act[a] = Starting(<<Do("cycle")>>)
  BY DEF Init, Actors
<1>3. \A a \in Actors : LocalOK(act[a]) /\ act[a].pc \in {"idle", "begin"}
  BY <1>2, OneCycle, RestIsOK
<1>4. \A id \in Ids : Registering(id) = {} BY <1>3 DEF Registering
<1>5. Cardinality({}) = 0 /\ Cardinality(Actors) \in Nat
  BY FS_EmptySet, ActorsAreFinite, FS_CardinalityType
<1>6. intents \in [Ids -> Nat] /\ \A id \in Ids : intents[id] = 0 BY DEF Init
<1>7. ASSUME NEW id \in Ids
      PROVE  intents[id] + Cardinality(Registering(id)) <= Cardinality(Actors)
  <2>1. Cardinality(Registering(id)) = 0 BY <1>4, <1>5
  <2> QED BY <1>5, <1>6, <2>1
<1>8. DOMAIN workloads = Ids /\ \A id \in Ids : Sound(id, workloads[id]) BY <1>1 DEF Init
<1>9. DOMAIN act = Actors BY DEF Init
<1> QED BY <1>3, <1>6, <1>7, <1>8, <1>9 DEF IndInv, Intended

\* What is forgotten when a call of the gateway returns was not to be written.
LEMMA ReturnedIsOK ==
  ASSUME IndInv, NEW a \in Actors,
         OnScript(act[a], Calls \cup {"rounds", "cycle"})
  PROVE  LocalOK(Returned(a)) /\ Returned(a).pc \in {"idle", "begin", "propose", "diagnose"}
<1>1. CASE Doing(a, Calls)
  <2>1. LocalOK(act[a]) /\ act[a].script # << >> BY DEF IndInv, OnScript
  <2> QED BY <1>1, <2>1, FinishedIsOK DEF Returned
<1>2. CASE ~Doing(a, Calls)
  <2> DEFINE l == act[a]
             v == [l EXCEPT !.pc = IF Doing(a, {"rounds"}) THEN "propose" ELSE "diagnose",
                            !.id = FirstListed, !.proposal = NoProposal, !.copy = AtRest.copy]
  <2>1. LocalOK(l) BY DEF IndInv
  <2>2. Returned(a) = v BY <1>2 DEF Returned
  <2>3. /\ DOMAIN v = DOMAIN l /\ v.id = FirstListed /\ v.list = l.list /\ v.found = l.found
        /\ v.script = l.script
        /\ v.pc = IF Doing(a, {"rounds"}) THEN "propose" ELSE "diagnose"
    BY <2>1 DEF LocalOK
  <2>4. /\ v.pc = "diagnose" => OnScript(v, {"cycle"})
        /\ v.pc = "propose" => OnScript(v, {"rounds"})
    BY <1>2, <2>3 DEF OnScript, Doing
  <2> HIDE DEF v
  <2>5. LocalOK(v) /\ v.pc \in {"propose", "diagnose"}
    BY <2>1, <2>3, <2>4, OneIsFirst DEF LocalOK
  <2> QED BY <2>2, <2>5
<1> QED BY <1>1, <1>2

\* The gateway's answer to what an actor proposed leaves its invariant as it is.
LEMMA ReturnKeeps ==
  ASSUME IndInv, NEW a \in Actors, OnScript(act[a], Calls \cup {"rounds", "cycle"}),
         Become(a, Returned(a)), UNCHANGED intents,
         \/ UNCHANGED workloads
         \/ \E id \in Ids : \E w : Sound(id, w) /\ workloads' = [workloads EXCEPT ![id] = w]
  PROVE  IndInv'
<1>1. LocalOK(Returned(a)) /\ Intended(Returned(a)) /\ Returned(a).pc # "register"
  BY ReturnedIsOK DEF Intended
<1> QED BY <1>1, Moves DEF Become

LEMMA FinishKeeps ==
  ASSUME IndInv, NEW a \in Actors, Finish(a), act[a].script # << >>,
         UNCHANGED <<workloads, intents>>
  PROVE  IndInv'
<1>1. LocalOK(act[a]) BY DEF IndInv
<1>2. LocalOK(Finished(a)) /\ Intended(Finished(a)) /\ Finished(a).pc # "register"
  BY <1>1, FinishedIsOK DEF Intended
<1> QED BY <1>2, Moves DEF Finish, Become

LEMMA RequestKeeps == ASSUME IndInv, NEW r \in Requests, Request(r) PROVE IndInv'
<1>1. PICK script \in Scripts : Become(r, Starting(script)) BY DEF Request
<1>2. r \in Actors BY DEF Actors
<1>3. LocalOK(Starting(script)) /\ Starting(script).pc = "begin"
  BY ScriptsAreOperations, RestIsOK
<1>4. Intended(Starting(script)) BY <1>3 DEF Intended
<1> QED BY <1>1, <1>2, <1>3, <1>4, Moves DEF Request, Become

LEMMA DisconnectKeeps == ASSUME IndInv, NEW r \in Requests, Disconnect(r) PROVE IndInv'
<1>1. r \in Actors BY DEF Actors
<1>2. LocalOK(AtRest) /\ AtRest.pc = "idle" BY RestIsOK
<1>3. Intended(AtRest) BY <1>2 DEF Intended
<1> QED BY <1>1, <1>2, <1>3, Moves DEF Disconnect, Become

LEMMA ListKeeps == ASSUME IndInv, NEW a \in Actors, List(a) PROVE IndInv'
<1> DEFINE l == act[a]
<1>1. PICK targets \in Targets(Head(l.script).op) :
        Become(a, [l EXCEPT !.pc = "write", !.list = Restrict(workloads, targets)])
  BY DEF List
<1>2. targets \subseteq Ids BY <1>1, OneIsFirst DEF Targets, FirstInSomeRegion
<1> DEFINE v == [l EXCEPT !.pc = "write", !.list = Restrict(workloads, targets)]
<1>3. LocalOK(l) BY DEF IndInv
<1>4. DOMAIN v = DOMAIN l /\ v.pc = "write" /\ v.list = Restrict(workloads, targets)
      /\ v.id = l.id /\ v.found = l.found /\ v.script = l.script
  BY <1>3 DEF LocalOK
<1>5. DOMAIN v.list = targets /\ \A id \in targets : v.list[id] = workloads[id]
  BY <1>4 DEF Restrict
<1>6. OnScript(v, Writing) BY <1>4 DEF List, Doing, OnScript
<1> HIDE DEF v
<1>7. LocalOK(v) BY <1>2, <1>3, <1>4, <1>5, <1>6 DEF LocalOK, IndInv
<1>8. Intended(v) BY <1>4 DEF Intended
<1>9. act' = [act EXCEPT ![a] = v] BY <1>1 DEF Become, v
<1> QED BY <1>4, <1>7, <1>8, <1>9, Moves DEF List

LEMMA WriteKeeps == ASSUME IndInv, NEW a \in Actors, Write(a) PROVE IndInv'
<1> DEFINE l == act[a]
<1>1. PICK id \in DOMAIN l.list :
        /\ Upsert(id, Written(Head(l.script), id, l.list[id]))
        /\ Become(a, [l EXCEPT !.list = Without(@, id)])
  BY DEF Write
<1> DEFINE v == [l EXCEPT !.list = Without(@, id)]
<1>2. LocalOK(l) /\ l.pc = "write" BY DEF IndInv, Write, At
<1>3. DOMAIN v = DOMAIN l /\ v.pc = "write" /\ v.list = Without(l.list, id)
      /\ v.id = l.id /\ v.found = l.found /\ v.script = l.script
  BY <1>2 DEF LocalOK
<1>4. /\ DOMAIN v.list = DOMAIN l.list \ {id}
      /\ \A other \in DOMAIN v.list : v.list[other] = l.list[other]
  BY <1>3 DEF Without, Restrict
<1>5. OnScript(v, Writing) BY <1>2, <1>3 DEF LocalOK, OnScript
<1>6. id \in Ids /\ Sound(id, l.list[id]) /\ Head(l.script).op \in Writing
  BY <1>1, <1>2 DEF LocalOK, OnScript
<1>7. Head(l.script).factor \in Int
  <2>1. l.script \in Seq(Operations) /\ l.script # << >> BY <1>2 DEF LocalOK, OnScript
  <2>2. Head(l.script) \in Operations BY <2>1
  <2> QED BY <2>2 DEF Operations
<1>8. Sound(id, Written(Head(l.script), id, l.list[id])) BY <1>6, <1>7, WrittenIsSound
<1> HIDE DEF v
<1>9. LocalOK(v) BY <1>2, <1>3, <1>4, <1>5 DEF LocalOK
<1>10. Intended(v) BY <1>3 DEF Intended
<1>11. act' = [act EXCEPT ![a] = v] BY <1>1 DEF Become, v
<1>12. \E one \in Ids : \E w : Sound(one, w) /\ workloads' = [workloads EXCEPT ![one] = w]
  BY <1>1, <1>6, <1>8 DEF Upsert
<1> QED BY <1>3, <1>9, <1>10, <1>11, <1>12, Moves DEF Write

LEMMA ObserveKeeps == ASSUME IndInv, NEW a \in Actors, Observe(a) PROVE IndInv'
<1> DEFINE l == act[a]
           found == [id \in InTrouble |-> Conditions(workloads[id])]
           v == [l EXCEPT !.pc = "diagnose", !.found = found]
<1>1. LocalOK(l) BY DEF IndInv
<1>2. DOMAIN v = DOMAIN l /\ v.pc = "diagnose" /\ v.found = found
      /\ v.id = l.id /\ v.list = l.list /\ v.script = l.script
  BY <1>1 DEF LocalOK
<1>3. DOMAIN found \subseteq Ids BY DEF InTrouble
<1>4. OnScript(v, {"cycle"}) BY <1>2 DEF Observe, Doing, OnScript
<1>5. act' = [act EXCEPT ![a] = v] BY DEF Observe, Become
<1> HIDE DEF v, found
<1>6. LocalOK(v) BY <1>1, <1>2, <1>3, <1>4 DEF LocalOK
<1>7. Intended(v) BY <1>2 DEF Intended
<1> QED BY <1>2, <1>5, <1>6, <1>7, Moves DEF Observe

LEMMA AwaitKeeps == ASSUME IndInv, NEW a \in Actors, AwaitDiagnosis(a) PROVE IndInv'
<1> DEFINE l == act[a]
           onward(id) == [l EXCEPT !.found = Without(@, id)]
           v(id, advice) == [onward(id) EXCEPT !.pc = "read", !.id = id, !.advice = advice]
<1>1. LocalOK(l) /\ l.pc = "diagnose" BY DEF IndInv, AwaitDiagnosis, At
<1>2. PICK id \in DOMAIN l.found :
        act' = [act EXCEPT ![a] = onward(id)]
        \/ \E advice : act' = [act EXCEPT ![a] = v(id, advice)]
  BY DEF AwaitDiagnosis, Become
<1>3. DOMAIN onward(id) = DOMAIN l /\ onward(id).found = Without(l.found, id)
      /\ onward(id).id = l.id /\ onward(id).list = l.list /\ onward(id).script = l.script
      /\ onward(id).pc = "diagnose"
  BY <1>1 DEF LocalOK
<1>4. DOMAIN onward(id).found \subseteq Ids BY <1>1, <1>3 DEF LocalOK, Without, Restrict
<1>5. LocalOK(onward(id)) /\ Intended(onward(id))
  <2> HIDE DEF onward
  <2> QED BY <1>1, <1>3, <1>4 DEF LocalOK, OnScript, Intended
<1>6. ASSUME NEW advice PROVE LocalOK(v(id, advice)) /\ Intended(v(id, advice))
                              /\ v(id, advice).pc = "read"
  <2> DEFINE w == v(id, advice)
  <2>1. DOMAIN w = DOMAIN l /\ w.pc = "read" /\ w.found = onward(id).found /\ w.id = id
        /\ w.list = l.list /\ w.script = l.script
    <3> HIDE DEF onward
    <3> QED BY <1>1, <1>3 DEF LocalOK
  <2>2. id \in Ids BY <1>1, <1>2 DEF LocalOK
  <2> HIDE DEF w, onward
  <2>3. LocalOK(w) /\ Intended(w)
    BY <1>1, <1>4, <2>1, <2>2 DEF LocalOK, OnScript, Intended
  <2> QED BY <2>1, <2>3 DEF w
<1>7. UNCHANGED <<workloads, intents>> BY DEF AwaitDiagnosis
<1>8. CASE act' = [act EXCEPT ![a] = onward(id)]
  <2> HIDE DEF onward
  <2> QED BY <1>3, <1>5, <1>7, <1>8, Moves
<1>9. ASSUME NEW advice, act' = [act EXCEPT ![a] = v(id, advice)] PROVE IndInv'
  <2> HIDE DEF v
  <2> QED BY <1>6, <1>7, <1>9, Moves
<1> HIDE DEF v, onward
<1> QED BY <1>2, <1>8, <1>9

LEMMA ReadKeeps == ASSUME IndInv, NEW a \in Actors, ReadWorkload(a) PROVE IndInv'
<1> DEFINE l == act[a]
           v == [l EXCEPT !.pc = "version", !.copy = workloads[act[a].id]]
<1>1. LocalOK(l) /\ l.pc = "read" BY DEF IndInv, ReadWorkload, At
<1>2. DOMAIN v = DOMAIN l /\ v.pc = "version" /\ v.found = l.found
      /\ v.id = l.id /\ v.list = l.list /\ v.script = l.script
  BY <1>1 DEF LocalOK
<1>3. act' = [act EXCEPT ![a] = v] BY DEF ReadWorkload, Become
<1> HIDE DEF v
<1>4. LocalOK(v) /\ Intended(v) BY <1>1, <1>2 DEF LocalOK, OnScript, Intended
<1> QED BY <1>2, <1>3, <1>4, Moves DEF ReadWorkload

\* What a cycle proposes for a workload goes to the gateway or is dropped.
LEMMA Proposes ==
  ASSUME IndInv, NEW a \in Actors, act[a].pc \in {"version", "register"}, Propose(a)
  PROVE  \E l : /\ LocalOK(l) /\ act' = [act EXCEPT ![a] = l]
                /\ \/ l.pc = "diagnose"
                   \/ l.pc = "evaluate" /\ l.id = act[a].id
<1> DEFINE l == act[a]
           plan == Plan(l.id, l.copy, l.advice)
           forgotten == [l EXCEPT !.copy = AtRest.copy, !.advice = NoAnswer]
           sent == [forgotten EXCEPT !.pc = "evaluate", !.proposal = plan]
           dropped == [forgotten EXCEPT !.pc = "diagnose", !.id = FirstListed]
<1>1. LocalOK(l) /\ OnScript(l, {"cycle"}) BY DEF IndInv, LocalOK
<1>2. CASE Passes(plan)
  <2>1. act' = [act EXCEPT ![a] = sent] BY <1>2 DEF Propose, Become
  <2>2. DOMAIN sent = DOMAIN l /\ sent.pc = "evaluate" /\ sent.proposal = plan
        /\ sent.id = l.id /\ sent.list = l.list /\ sent.found = l.found
        /\ sent.script = l.script
    BY <1>1 DEF LocalOK
  <2>3. plan.kind \in {"CreateReplica", "ShiftRoute"} /\ plan.effect.latency \in Int
    BY <1>2, PassingPlans
  <2> HIDE DEF sent, plan
  <2>4. InFlight(sent) BY <1>1, <2>2, <2>3 DEF InFlight, OnScript
  <2>5. LocalOK(sent) BY <1>1, <2>2, <2>4 DEF LocalOK, OnScript
  <2> QED BY <2>1, <2>2, <2>5
<1>3. CASE ~Passes(plan)
  <2>1. act' = [act EXCEPT ![a] = dropped] BY <1>3 DEF Propose, Become
  <2>2. DOMAIN dropped = DOMAIN l /\ dropped.pc = "diagnose" /\ dropped.id = FirstListed
        /\ dropped.list = l.list /\ dropped.found = l.found /\ dropped.script = l.script
    BY <1>1 DEF LocalOK
  <2> HIDE DEF dropped
  <2>3. LocalOK(dropped) BY <1>1, <2>2, OneIsFirst DEF LocalOK, OnScript
  <2> QED BY <2>1, <2>2, <2>3
<1> QED BY <1>2, <1>3

LEMMA VersionKeeps == ASSUME IndInv, NEW a \in Actors, ReadVersion(a) PROVE IndInv'
<1> DEFINE l == act[a]
           v == [l EXCEPT !.pc = "register"]
<1>1. LocalOK(l) /\ l.pc = "version" /\ l.id \in Ids
  BY DEF IndInv, ReadVersion, At, LocalOK
<1>2. UNCHANGED <<workloads, intents>> BY DEF ReadVersion
<1>3. CASE intents[l.id] = 0
  <2>1. act' = [act EXCEPT ![a] = v] BY <1>3 DEF ReadVersion, Goto, Become
  <2>2. DOMAIN v = DOMAIN l /\ v.pc = "register" /\ v.found = l.found
        /\ v.id = l.id /\ v.list = l.list /\ v.script = l.script
    BY <1>1 DEF LocalOK
  <2> HIDE DEF v
  <2>3. LocalOK(v) /\ Intended(v) BY <1>1, <2>2 DEF LocalOK, OnScript, Intended
  <2> QED BY <1>2, <1>3, <2>1, <2>2, <2>3, Moves
<1>4. CASE intents[l.id] # 0
  <2>1. Propose(a) BY <1>4 DEF ReadVersion
  <2>2. PICK w : /\ LocalOK(w) /\ act' = [act EXCEPT ![a] = w]
                 /\ \/ w.pc = "diagnose"
                    \/ w.pc = "evaluate" /\ w.id = l.id
    BY <1>1, <2>1, Proposes
  <2>3. intents[l.id] \in Nat BY <1>1 DEF IndInv
  <2>4. intents[l.id] > 0 BY <1>4, <2>3
  <2>5. Intended(w) BY <2>2, <2>4 DEF Intended
  <2>6. w.pc # "register" BY <2>2
  <2> QED BY <1>2, <2>2, <2>5, <2>6, Moves
<1> QED BY <1>3, <1>4

LEMMA RegisterKeeps == ASSUME IndInv, NEW a \in Actors, Register(a) PROVE IndInv'
<1> DEFINE l == act[a]
<1>1. LocalOK(l) /\ l.pc = "register" /\ l.id \in Ids BY DEF IndInv, Register, At, LocalOK
<1>2. PICK w : /\ LocalOK(w) /\ act' = [act EXCEPT ![a] = w]
               /\ \/ w.pc = "diagnose"
                  \/ w.pc = "evaluate" /\ w.id = l.id
  BY <1>1, Proposes DEF Register
<1>3. UNCHANGED workloads /\ intents' = [intents EXCEPT ![l.id] = @ + 1] BY DEF Register
<1>4. intents \in [Ids -> Nat] BY DEF IndInv
<1>5. intents' \in [Ids -> Nat] BY <1>1, <1>3, <1>4
<1>6. DOMAIN act' = Actors /\ \A b \in Actors : act'[b] = IF b = a THEN w ELSE act[b]
  BY <1>2 DEF IndInv
<1>7. ASSUME NEW b \in Actors PROVE Intended(act[b])'
  <2>1. \A id \in Ids : intents[id] > 0 => intents'[id] > 0 BY <1>1, <1>3, <1>4
  <2>2. intents'[l.id] > 0 BY <1>1, <1>3, <1>4
  <2>3. CASE b = a BY <1>2, <1>6, <2>2, <2>3 DEF Intended
  <2>4. CASE b # a
    <3>1. LocalOK(act[b]) /\ Intended(act[b]) /\ act'[b] = act[b] BY <1>6, <2>4 DEF IndInv
    <3> QED BY <2>1, <3>1 DEF Intended, LocalOK
  <2> QED BY <2>3, <2>4
<1>8. ASSUME NEW id \in Ids
      PROVE  intents'[id] + Cardinality(Registering(id)') <= Cardinality(Actors)
  <2>1. Registering(id)' = Registering(id) \ {a}
    BY <1>2, <1>6 DEF Registering
  <2>2. Registering(id) \subseteq Actors BY DEF Registering
  <2>3. IsFiniteSet(Registering(id)) /\ Cardinality(Registering(id)) \in Nat
        /\ Cardinality(Registering(id)') \in Nat /\ Cardinality(Actors) \in Nat
    BY <2>1, <2>2, Sizes
  <2>4. intents[id] \in Nat /\ intents'[id] \in Nat
        /\ intents[id] + Cardinality(Registering(id)) <= Cardinality(Actors)
    BY <1>4, <1>5 DEF IndInv
  <2>5. CASE id = l.id
    <3>1. a \in Registering(id) BY <1>1, <2>5 DEF Registering
    <3>2. Cardinality(Registering(id) \ {a}) = Cardinality(Registering(id)) - 1
      BY <2>3, <3>1, FS_RemoveElement
    <3>3. intents'[id] = intents[id] + 1 BY <1>3, <1>4, <2>5
    <3>4. Cardinality(Registering(id)') = Cardinality(Registering(id)) - 1 BY <2>1, <3>2
    <3> QED BY <2>3, <2>4, <3>3, <3>4
  <2>6. CASE id # l.id
    <3>1. Cardinality(Registering(id)') <= Cardinality(Registering(id))
      BY <2>1, <2>3, FS_Subset
    <3>2. intents'[id] = intents[id] BY <1>3, <1>4, <2>6
    <3> QED BY <2>3, <2>4, <3>1, <3>2
  <2> QED BY <2>5, <2>6
<1>9. \A b \in Actors : LocalOK(act'[b]) BY <1>2, <1>6 DEF IndInv
<1>10. DOMAIN workloads' = Ids /\ \A id \in Ids : Sound(id, workloads'[id])
  BY <1>3 DEF IndInv
<1> QED BY <1>5, <1>6, <1>7, <1>8, <1>9, <1>10 DEF IndInv

LEMMA CallKeeps == ASSUME IndInv, NEW a \in Actors, Call(a) PROVE IndInv'
<1> DEFINE l == act[a]
           v == [l EXCEPT !.pc = "evaluate", !.proposal = CallProposal(Head(l.script).op)]
<1>1. LocalOK(l) /\ OnScript(l, Calls) BY DEF IndInv, Call, Doing, OnScript
<1>2. DOMAIN v = DOMAIN l /\ v.pc = "evaluate" /\ v.found = l.found
      /\ v.proposal = CallProposal(Head(l.script).op)
      /\ v.id = l.id /\ v.list = l.list /\ v.script = l.script
  BY <1>1 DEF LocalOK
<1>3. act' = [act EXCEPT ![a] = v] BY DEF Call, Become
<1> HIDE DEF v
<1>4. InFlight(v)
  <2> DEFINE p == CallProposal(Head(l.script).op)
  <2>1. Head(l.script).op \in {"stale call", "capped call", "restart call"}
    BY <1>1 DEF OnScript, Calls
  <2>2. \/ \E to : p = BenchReplica(to)
        \/ \E to : p = Proposal("RestartWorkload", to, Effect(0, 0, 0), 50, "Critical", TRUE)
    BY <2>1 DEF CallProposal
  <2>3. /\ p.effect.latency \in Int /\ p.kind \in {"CreateReplica", "RestartWorkload"}
        /\ p.kind = "RestartWorkload" => p.risk = "Critical"
    <3>1. CASE \E to : p = BenchReplica(to) BY <3>1 DEF BenchReplica, Proposal, Effect
    <3>2. CASE \E to : p = Proposal("RestartWorkload", to, Effect(0, 0, 0), 50, "Critical", TRUE)
      BY <3>2 DEF Proposal, Effect
    <3> HIDE DEF p
    <3> QED BY <2>2, <3>1, <3>2
  <2> HIDE DEF p
  <2>4. v.proposal = p BY <1>2 DEF p
  <2> QED BY <2>3, <2>4 DEF InFlight
<1>5. LocalOK(v) BY <1>1, <1>2, <1>4 DEF LocalOK, OnScript
<1>6. Intended(v) BY <1>1, <1>2 DEF Intended, OnScript, Calls
<1> QED BY <1>2, <1>3, <1>5, <1>6, Moves DEF Call

LEMMA RoundKeeps == ASSUME IndInv, NEW a \in Actors, BeginRound(a) PROVE IndInv'
<1> DEFINE l == act[a]
           v == [l EXCEPT !.pc = "propose", !.list = Restrict(workloads, Unhealthy)]
<1>1. LocalOK(l) /\ OnScript(l, {"rounds"}) BY DEF IndInv, BeginRound, Doing, OnScript
<1>2. DOMAIN v = DOMAIN l /\ v.pc = "propose" /\ v.list = Restrict(workloads, Unhealthy)
      /\ v.id = l.id /\ v.found = l.found /\ v.script = l.script
  BY <1>1 DEF LocalOK
<1>3. DOMAIN v.list \subseteq Ids /\ \A id \in DOMAIN v.list : v.list[id] = workloads[id]
  BY <1>2 DEF Restrict, Unhealthy
<1>4. Finish(a) \/ act' = [act EXCEPT ![a] = v] BY DEF BeginRound, Become
<1> HIDE DEF v
<1>5. LocalOK(v) BY <1>1, <1>2, <1>3 DEF LocalOK, IndInv, OnScript
<1>6. Intended(v) BY <1>2 DEF Intended
<1>7. UNCHANGED <<workloads, intents>> BY DEF BeginRound
<1>8. CASE Finish(a) BY <1>1, <1>7, <1>8, FinishKeeps DEF OnScript
<1>9. CASE act' = [act EXCEPT ![a] = v] BY <1>2, <1>5, <1>6, <1>7, <1>9, Moves
<1> QED BY <1>4, <1>8, <1>9

LEMMA ProposeInRoundKeeps == ASSUME IndInv, NEW a \in Actors, ProposeInRound(a) PROVE IndInv'
<1> DEFINE l == act[a]
<1>1. LocalOK(l) /\ l.pc = "propose" /\ OnScript(l, {"rounds"})
  BY DEF IndInv, ProposeInRound, At, LocalOK
<1>2. PICK id \in DOMAIN l.list :
        Become(a, [l EXCEPT !.pc = "evaluate", !.list = Without(@, id), !.id = id,
                            !.proposal = BenchReplica(l.list[id].region)])
  BY DEF ProposeInRound
<1> DEFINE v == [l EXCEPT !.pc = "evaluate", !.list = Without(@, id), !.id = id,
                          !.proposal = BenchReplica(l.list[id].region)]
<1>3. act' = [act EXCEPT ![a] = v] BY <1>2 DEF Become
<1>4. DOMAIN v = DOMAIN l /\ v.pc = "evaluate" /\ v.list = Without(l.list, id)
      /\ v.id = id /\ v.found = l.found /\ v.script = l.script
      /\ v.proposal = BenchReplica(l.list[id].region)
  BY <1>1 DEF LocalOK
<1>5. /\ DOMAIN v.list = DOMAIN l.list \ {id}
      /\ \A other \in DOMAIN v.list : v.list[other] = l.list[other]
  BY <1>4 DEF Without, Restrict
<1>6. id \in Ids BY <1>1, <1>2 DEF LocalOK
<1> HIDE DEF v
<1>7. InFlight(v) BY <1>4 DEF InFlight, BenchReplica, Proposal, Effect
<1>8. LocalOK(v) BY <1>1, <1>4, <1>5, <1>6, <1>7 DEF LocalOK, OnScript
<1>9. Intended(v) BY <1>1, <1>4 DEF Intended, OnScript
<1> QED BY <1>3, <1>4, <1>8, <1>9, Moves DEF ProposeInRound

LEMMA RoundDoneKeeps == ASSUME IndInv, NEW a \in Actors, RoundDone(a) PROVE IndInv'
<1> DEFINE l == act[a]
           v == [l EXCEPT !.pc = "begin", !.round = @ + 1]
<1>1. LocalOK(l) BY DEF IndInv
<1>2. DOMAIN v = DOMAIN l /\ v.pc = "begin" /\ v.found = l.found
      /\ v.id = l.id /\ v.list = l.list /\ v.script = l.script
  BY <1>1 DEF LocalOK
<1>3. act' = [act EXCEPT ![a] = v] BY DEF RoundDone, Become
<1> HIDE DEF v
<1>4. LocalOK(v) /\ Intended(v) BY <1>1, <1>2 DEF LocalOK, Intended
<1> QED BY <1>2, <1>3, <1>4, Moves DEF RoundDone

LEMMA EvaluateKeeps == ASSUME IndInv, NEW a \in Actors, EvaluatePolicy(a) PROVE IndInv'
<1> DEFINE l == act[a]
           v == [l EXCEPT !.pc = "commit"]
           verdict == Evaluate(l.id, l.proposal, workloads[l.id], fresh[a], intents[l.id])
<1>1. LocalOK(l) /\ Intended(l) /\ l.pc = "evaluate" BY DEF IndInv, EvaluatePolicy, At
<1>2. /\ OnScript(l, Calls \cup {"rounds", "cycle"}) /\ InFlight(l) /\ l.id \in Ids
  BY <1>1 DEF LocalOK
<1>3. UNCHANGED <<workloads, intents>> BY DEF EvaluatePolicy
<1>4. CASE verdict = "Allowed"
  <2>1. act' = [act EXCEPT ![a] = v] BY <1>4 DEF EvaluatePolicy, Goto, Become
  <2>2. DOMAIN v = DOMAIN l /\ v.pc = "commit" /\ v.found = l.found /\ v.proposal = l.proposal
        /\ v.id = l.id /\ v.list = l.list /\ v.script = l.script
    BY <1>1 DEF LocalOK
  <2>3. l.proposal.kind # "ShiftRoute" \/ intents[l.id] # 0
    BY <1>1, <1>2 DEF InFlight, Intended, IndInv
  <2>4. /\ l.proposal.kind = "ShiftRoute" => l.proposal.to \in Allowed
        /\ l.proposal.risk # "Critical"
    BY <1>4, <2>3, AllowedStaysHome
  <2> HIDE DEF v, verdict
  <2>5. InFlight(v) BY <1>2, <2>2 DEF InFlight, OnScript
  <2>6. LocalOK(v) /\ Intended(v)
    BY <1>1, <1>2, <2>2, <2>4, <2>5 DEF LocalOK, OnScript, Intended, InFlight
  <2> QED BY <1>3, <2>1, <2>2, <2>6, Moves
<1>5. CASE verdict # "Allowed"
  <2>1. Become(a, Returned(a)) BY <1>5 DEF EvaluatePolicy
  <2> QED BY <1>2, <1>3, <2>1, ReturnKeeps
<1> QED BY <1>4, <1>5

LEMMA CheckKeeps == ASSUME IndInv, NEW a \in Actors, CommitCheck(a) PROVE IndInv'
<1> DEFINE l == act[a]
           copy == Apply(l.id, l.proposal, workloads[l.id])
           v == [l EXCEPT !.pc = "insert", !.copy = copy]
<1>1. LocalOK(l) /\ Intended(l) /\ l.pc = "commit" BY DEF IndInv, CommitCheck, At
<1>2. /\ OnScript(l, Calls \cup {"rounds", "cycle"}) /\ InFlight(l) /\ l.id \in Ids
  BY <1>1 DEF LocalOK
<1>3. UNCHANGED <<workloads, intents>> BY DEF CommitCheck
<1>4. CASE fresh[a]
  <2>1. act' = [act EXCEPT ![a] = v] BY <1>4 DEF CommitCheck, Become
  <2>2. DOMAIN v = DOMAIN l /\ v.pc = "insert" /\ v.found = l.found /\ v.copy = copy
        /\ v.id = l.id /\ v.list = l.list /\ v.script = l.script
    BY <1>1 DEF LocalOK
  <2>3. l.proposal.kind # "CreateReplica" => l.proposal.to \in Allowed
    BY <1>1, <1>2 DEF LocalOK, InFlight
  <2>4. Sound(l.id, workloads[l.id]) BY <1>2 DEF IndInv
  <2>5. Sound(l.id, copy) BY <1>2, <2>3, <2>4, ApplyIsSound DEF InFlight
  <2> HIDE DEF v, copy
  <2>6. LocalOK(v) BY <1>1, <1>2, <2>2, <2>5 DEF LocalOK, OnScript
  <2>7. Intended(v) BY <1>1, <2>2 DEF Intended, OnScript
  <2> QED BY <1>3, <2>1, <2>2, <2>6, <2>7, Moves
<1>5. CASE ~fresh[a]
  <2>1. Become(a, Returned(a)) BY <1>5 DEF CommitCheck
  <2> QED BY <1>2, <1>3, <2>1, ReturnKeeps
<1> QED BY <1>4, <1>5

LEMMA CommitKeeps == ASSUME IndInv, NEW a \in Actors, CommitUpsert(a) PROVE IndInv'
<1>1. LocalOK(act[a]) /\ act[a].pc = "insert" BY DEF IndInv, CommitUpsert, At
<1>2. /\ OnScript(act[a], Calls \cup {"rounds", "cycle"}) /\ act[a].id \in Ids
      /\ Sound(act[a].id, act[a].copy)
  BY <1>1 DEF LocalOK
<1>3. \E id \in Ids : \E w : Sound(id, w) /\ workloads' = [workloads EXCEPT ![id] = w]
  BY <1>2 DEF CommitUpsert, Upsert
<1> QED BY <1>2, <1>3, ReturnKeeps DEF CommitUpsert

LEMMA CycleKeeps == ASSUME IndInv, NEW a \in Actors, CycleStep(a) PROVE IndInv'
<1>1. CASE CycleDone(a)
  <2>1. act[a].script # << >> BY <1>1 DEF CycleDone, At, IndInv, LocalOK, OnScript
  <2> QED BY <1>1, <2>1, FinishKeeps DEF CycleDone
<1>2. CASE GatewayStep(a)
  BY <1>2, EvaluateKeeps, CheckKeeps, CommitKeeps DEF GatewayStep
<1> QED
  BY <1>1, <1>2, ObserveKeeps, AwaitKeeps, ReadKeeps, VersionKeeps, RegisterKeeps DEF CycleStep

LEMMA RequestStepKeeps == ASSUME IndInv, NEW r \in Requests, RequestStep(r) PROVE IndInv'
<1>1. r \in Actors BY DEF Actors
<1>2. CASE WritingDone(r)
  <2>1. act[r].script # << >> BY <1>1, <1>2 DEF WritingDone, At, IndInv, LocalOK, OnScript
  <2> QED BY <1>1, <1>2, <2>1, FinishKeeps DEF WritingDone
<1>3. CASE Increment(r) BY <1>1, <1>3, FinishKeeps DEF Increment, Doing
<1> QED
  BY <1>1, <1>2, <1>3, ListKeeps, WriteKeeps, CallKeeps, RoundKeeps, ProposeInRoundKeeps,
     RoundDoneKeeps, CycleKeeps
  DEF RequestStep

LEMMA IdleKeeps == ASSUME IndInv, UNCHANGED <<workloads, intents, act>> PROVE IndInv'
BY DEF IndInv, Intended, Registering

THEOREM IndInvHolds == Spec => []IndInv
<1>1. ASSUME IndInv, [Next]_vars PROVE IndInv'
  <2>1. CASE CycleStep(Runtime) BY <1>1, <2>1, CycleKeeps DEF Actors
  <2>2. CASE ReasonersFail BY <1>1, <2>2, IdleKeeps DEF ReasonersFail
  <2>3. CASE \E r \in Requests : Request(r) \/ RequestStep(r) \/ Disconnect(r)
    BY <1>1, <2>3, RequestKeeps, RequestStepKeeps, DisconnectKeeps
  <2>4. CASE UNCHANGED vars BY <1>1, <2>4, IdleKeeps DEF vars
  <2> QED BY <1>1, <2>1, <2>2, <2>3, <2>4 DEF Next
<1> QED BY <1>1, InitIsInd, PTL DEF Spec

-----------------------------------------------------------------------------
(* What it is for.                                                         *)

\* However many scenarios, controllers and cycles write back what they made of what they read,
\* every workload, and every copy still to be written, stays between the bounds of its policy.
THEOREM ReplicasBounded == Spec => []ReplicasWithinPolicy
<1>1. ASSUME IndInv PROVE ReplicasWithinPolicy
  <2>1. \A id \in Ids : \A w : Sound(id, w) => Within(id, w) BY Bounds DEF Sound, Within
  <2> QED BY <1>1, <2>1 DEF IndInv, LocalOK, ReplicasWithinPolicy, At
<1> QED BY <1>1, IndInvHolds, PTL

\* Every workload stays in a region of the default intent, although the policy validates no
\* region of a workload without one and the planner names fallback regions abroad.
THEOREM ResidencyHolds == Spec => []ResidencyKept
<1>1. IndInv => ResidencyKept BY DEF IndInv, Sound, ResidencyKept
<1> QED BY <1>1, IndInvHolds, PTL

\* No proposal of a cycle meets the policy without an intent, and however many cycles find
\* none at once, a workload is left with no more of them than there are actors.
THEOREM IntentsPrecedePlans == Spec => []PlannedUnderIntent
<1>1. ASSUME IndInv PROVE PlannedUnderIntent
  <2>1. \A a \in Actors : AtGateway(a) /\ Doing(a, {"cycle"}) => intents[act[a].id] > 0
    BY <1>1 DEF IndInv, Intended, AtGateway, Doing, OnScript
  <2>2. ASSUME NEW id \in Ids PROVE intents[id] <= Cardinality(Actors)
    <3>1. Registering(id) \subseteq Actors BY DEF Registering
    <3>2. Cardinality(Registering(id)) \in Nat /\ Cardinality(Actors) \in Nat BY <3>1, Sizes
    <3>3. intents[id] \in Nat
          /\ intents[id] + Cardinality(Registering(id)) <= Cardinality(Actors)
      BY <1>1 DEF IndInv
    <3> QED BY <3>2, <3>3
  <2> QED BY <2>1, <2>2 DEF PlannedUnderIntent
<1> QED BY <1>1, IndInvHolds, PTL

-----------------------------------------------------------------------------
(* The shape of the state: a queue fits its word and an error rate is       *)
(* capped, whatever is computed of them and by whatever factor.             *)

LEMMA Quotients ==
  ASSUME NEW x \in Int, NEW b \in Nat, b > 0
  PROVE  x \div b \in Int
OBVIOUS

LEMMA DepthIsDepth == \A x \in Int : Depth(x) \in Depths
BY QueueIsWide DEF Depth, Clamp, Larger, Smaller, Depths

LEMMA ScaledIsDepth ==
  ASSUME NEW x \in Int, NEW a \in Int, NEW b \in Nat, b > 0
  PROVE  Scaled(x, a, b) \in Depths
<1>1. 2 * x * a \in Int OBVIOUS
<1>2. 2 * x * a + b \in Int /\ 2 * b \in Nat /\ 2 * b > 0 BY <1>1
<1>3. Rounded(x, a, b) \in Int BY <1>2, Quotients DEF Rounded
<1> QED BY <1>3, DepthIsDepth DEF Scaled

LEMMA WrappedIsDepth == \A x \in Int : Wrapped(x) \in Depths
<1>1. ASSUME NEW x \in Int, NEW n \in Nat PROVE x % (n + 1) \in Int /\ 0 <= x % (n + 1) /\ x % (n + 1) <= n
  OBVIOUS
<1> QED BY <1>1, QueueIsWide DEF Wrapped, Depths

\* What is left of a depth read as signed is at most half of the word.
LEMMA SignedIsDepth == \A q \in Depths : Larger(Signed(q), 0) \in Depths
BY QueueIsWide DEF Signed, Larger, Depths

\* Whatever factor a latency, a queue or an error rate is multiplied by.
LEMMA ScaledAre ==
  ASSUME NEW x \in Int, NEW a \in Int
  PROVE  /\ ScaledUp(x, a, 10) \in Int /\ ScaledUp(x, a, 100) \in Int
         /\ Scaled(x, a, 10) \in Depths /\ Scaled(x, a, 100) \in Depths
<1>1. 10 \in Nat /\ 10 > 0 /\ 100 \in Nat /\ 100 > 0 OBVIOUS
<1>2. ScaledUp(x, a, 10) \in Int /\ ScaledUp(x, a, 100) \in Int
  BY <1>1, ScaledUpIsInt, Zenon
<1>3. Scaled(x, a, 10) \in Depths /\ Scaled(x, a, 100) \in Depths
  BY <1>1, ScaledIsDepth, Zenon
<1> QED BY <1>2, <1>3

\* The bounds of an error rate that is raised or lowered.
LEMMA CappedRates ==
  ASSUME NEW x \in Int
  PROVE  /\ Smaller(x, 120) \in ErrorRates /\ Smaller(x, 150) \in ErrorRates
         /\ Smaller(x, 990) \in ErrorRates /\ Clamp(1, x, 990) \in ErrorRates
BY DEF Clamp, Larger, Smaller, ErrorRates

LEMMA LoweredRates ==
  ASSUME NEW e \in ErrorRates
  PROVE  /\ Larger(ScaledUp(e, 8, 10), 10) \in ErrorRates
         /\ Larger(ScaledUp(e, 85, 100), 10) \in ErrorRates
<1>1. ScaledUp(e, 8, 10) \in ErrorRates
  <2>1. (e * 8 + 10 - 1) \div 10 \in ErrorRates BY DEF ErrorRates
  <2> QED BY <2>1 DEF ScaledUp
<1>2. ScaledUp(e, 85, 100) \in ErrorRates
  <2>1. (e * 85 + 100 - 1) \div 100 \in ErrorRates BY DEF ErrorRates
  <2> QED BY <2>1 DEF ScaledUp
<1>3. ASSUME NEW y \in ErrorRates PROVE Larger(y, 10) \in ErrorRates BY DEF Larger, ErrorRates
<1> QED BY <1>1, <1>2, <1>3, Zenon

LEMMA MetricsOf ==
  ASSUME NEW l \in Int, NEW q \in Depths, NEW e \in ErrorRates
  PROVE  [p95 |-> l, queue |-> q, err |-> e] \in Metrics
BY DEF Metrics

LEMMA MetricsFields ==
  ASSUME NEW m \in Metrics
  PROVE  /\ m = [p95 |-> m.p95, queue |-> m.queue, err |-> m.err]
         /\ m.p95 \in Int /\ m.queue \in Depths /\ m.err \in ErrorRates
         /\ m.queue \in Int /\ m.err \in Int
<1>1. /\ m = [p95 |-> m.p95, queue |-> m.queue, err |-> m.err]
      /\ m.p95 \in Int /\ m.queue \in Depths /\ m.err \in ErrorRates
  BY DEF Metrics
<1>2. m.queue \in Int BY <1>1 DEF Depths
<1>3. m.err \in Int BY <1>1 DEF ErrorRates
<1> QED BY <1>1, <1>2, <1>3

\* Metrics of another latency and queue.
Loaded(m, l, q) == [m EXCEPT !.p95 = l, !.queue = q]

LEMMA LoadedIsMetrics ==
  ASSUME NEW m \in Metrics, NEW l \in Int, NEW q \in Depths
  PROVE  Loaded(m, l, q) \in Metrics
<1> DEFINE v == Loaded(m, l, q)
<1>1. /\ DOMAIN v = {"p95", "queue", "err"}
      /\ v.p95 = l /\ v.queue = q /\ v.err = m.err
  BY MetricsFields DEF Loaded, Metrics
<1>2. v = [x \in DOMAIN v |-> v[x]] BY DEF Loaded
<1> HIDE DEF v
<1>3. v = [p95 |-> l, queue |-> q, err |-> m.err] BY <1>1, <1>2
<1>4. v \in Metrics BY <1>3, MetricsFields, MetricsOf
<1> QED BY <1>4 DEF v

LEMMA BaselineIsMetrics == Baseline \in Metrics
<1>1. 150 \in Depths BY QueueIsWide DEF Depths
<1>2. 10 \in ErrorRates BY DEF ErrorRates
<1> QED BY <1>1, <1>2, MetricsOf DEF Baseline

LEMMA DegradedIsWorkload ==
  ASSUME NEW w \in Workload, NEW m \in Metrics
  PROVE  Degrade(w, m) \in Workload /\ [w EXCEPT !.metrics = m] \in Workload
BY DEF Workload, Degrade, States

LEMMA WorkloadFields ==
  ASSUME NEW w \in Workload
  PROVE  /\ w.metrics \in Metrics /\ w.replicas \in Nat
         /\ w.region \in Regions /\ w.state \in States
         /\ w.metrics.p95 \in Int /\ w.metrics.queue \in Int /\ w.metrics.err \in Int
         /\ w.metrics.queue \in Depths /\ w.metrics.err \in ErrorRates
<1>1. /\ w.metrics \in Metrics /\ w.replicas \in Nat
      /\ w.region \in Regions /\ w.state \in States
  BY DEF Workload
<1> QED BY <1>1, MetricsFields

LEMMA BurstIsWorkload ==
  ASSUME NEW w \in Workload, NEW mult \in Int, NEW queue \in Depths
  PROVE  Burst(w, mult, queue) \in Workload
<1> DEFINE l == ScaledUp(w.metrics.p95, mult * 9, 100)
           e == ScaledUp(w.metrics.err, mult * 15, 100)
           m == [p95 |-> l, queue |-> queue, err |-> Smaller(e, 150)]
<1>1. mult * 9 \in Int /\ mult * 15 \in Int OBVIOUS
<1>2. l \in Int /\ e \in Int BY <1>1, WorkloadFields, ScaledAre
<1>3. Burst(w, mult, queue) = Degrade(w, m) BY DEF Burst
<1> HIDE DEF l, e
<1>4. m \in Metrics BY <1>2, CappedRates, MetricsOf
<1> HIDE DEF m
<1> QED BY <1>3, <1>4, DegradedIsWorkload

LEMMA SpikedIsWorkload ==
  ASSUME NEW w \in Workload, NEW mult \in Int
  PROVE  TriggerSpike(w, mult) \in Workload
<1> DEFINE clamped == Clamp(10, mult, 200) * 8
           l == ScaledUp(w.metrics.p95, clamped, 100)
           q == (w.metrics.queue * mult) \div 10
           e == ScaledUp(w.metrics.err, mult * 15, 100)
           m == [p95 |-> l, queue |-> Depth(q), err |-> Smaller(e, 990)]
           state == IF mult >= 25 THEN "Degraded" ELSE IF mult >= 15 THEN "Overloaded" ELSE w.state
<1>1. clamped \in Int BY DEF Clamp, Larger, Smaller
<1>2. mult * 15 \in Int OBVIOUS
<1>3. TriggerSpike(w, mult) = [metrics |-> m, state |-> state, region |-> w.region,
                               replicas |-> w.replicas]
  BY DEF TriggerSpike
<1>4. q \in Int
  <2>1. w.metrics.queue * mult \in Int BY WorkloadFields
  <2> QED BY <2>1, Quotients
<1> HIDE DEF clamped, q
<1>5. l \in Int /\ e \in Int BY <1>1, <1>2, WorkloadFields, ScaledAre
<1>6. state \in States BY WorkloadFields DEF States
<1> HIDE DEF l, e
<1>7. m \in Metrics BY <1>4, <1>5, DepthIsDepth, CappedRates, MetricsOf
<1> HIDE DEF m, state
<1> QED BY <1>3, <1>6, <1>7, WorkloadFields DEF Workload

LEMMA SkewedIsWorkload ==
  ASSUME NEW w \in Workload, NEW first, NEW skew \in Int, NEW others \in Int
  PROVE  RegionalSkew(w, first, skew, others) \in Workload
<1> DEFINE factor == IF first THEN skew ELSE others
           m == [w.metrics EXCEPT !.p95 = Times(@, factor), !.queue = Scaled(@, factor, 10)]
<1>1. factor \in Int OBVIOUS
<1>2. RegionalSkew(w, first, skew, others) = IF factor > 20 THEN Degrade(w, m)
                                             ELSE [w EXCEPT !.metrics = m]
  BY DEF RegionalSkew
<1> HIDE DEF factor
<1>3. m = Loaded(w.metrics, ScaledUp(w.metrics.p95, factor, 10),
                 Scaled(w.metrics.queue, factor, 10))
  BY DEF Loaded, Times
<1>4. /\ ScaledUp(w.metrics.p95, factor, 10) \in Int
      /\ Scaled(w.metrics.queue, factor, 10) \in Depths
  BY <1>1, WorkloadFields, ScaledAre
<1> HIDE DEF m
<1>5. m \in Metrics BY <1>3, <1>4, WorkloadFields, LoadedIsMetrics
<1> QED BY <1>2, <1>5, DegradedIsWorkload

LEMMA PaidIsWorkload ==
  ASSUME NEW w \in Workload, NEW impact \in Int
  PROVE  PaymentLoad(w, impact) \in Workload
<1> DEFINE l == w.metrics.p95 + ScaledUp(impact, 15, 10)
           q == Wrapped(w.metrics.queue + Depth(5 * impact))
           e == Smaller(w.metrics.err + ScaledUp(impact, 2, 10), 990)
           m == [p95 |-> l, queue |-> q, err |-> e]
           state == IF l > 250 \/ e > 50 THEN "Degraded"
                    ELSE IF l > 180 \/ q > 400 THEN "Overloaded" ELSE w.state
<1>1. PaymentLoad(w, impact) = [w EXCEPT !.metrics = m, !.state = state]
  BY DEF PaymentLoad, Workload
<1>2. ScaledUp(impact, 15, 10) \in Int /\ ScaledUp(impact, 2, 10) \in Int BY ScaledUpIsInt
<1>3. l \in Int /\ w.metrics.err + ScaledUp(impact, 2, 10) \in Int BY <1>2, WorkloadFields
<1>4. q \in Depths
  <2>1. 5 * impact \in Int OBVIOUS
  <2>2. Depth(5 * impact) \in Int BY <2>1, DepthIsDepth DEF Depths
  <2>3. w.metrics.queue + Depth(5 * impact) \in Int BY <2>2, WorkloadFields
  <2> QED BY <2>3, WrappedIsDepth
<1>5. e \in ErrorRates BY <1>3, CappedRates
<1>6. state \in States BY WorkloadFields DEF States
<1> HIDE DEF l, q, e
<1>7. m \in Metrics BY <1>3, <1>4, <1>5, MetricsOf
<1> HIDE DEF m, state
<1> QED BY <1>1, <1>6, <1>7 DEF Workload

\* Whatever a scenario, a controller or a payment writes of a workload is a workload.
LEMMA WrittenIsWorkload ==
  ASSUME NEW id \in Ids, NEW w \in Workload, NEW do, do.op \in Writing, do.factor \in Int
  PROVE  Written(do, id, w) \in Workload
<1> DEFINE p95 == w.metrics.p95
           queue == w.metrics.queue
           err == w.metrics.err
<1>a. /\ w.metrics \in Metrics /\ p95 \in Int /\ queue \in Int /\ err \in Int
      /\ err \in ErrorRates
      /\ w.replicas \in Nat /\ w.region \in Regions /\ w.state \in States
  BY WorkloadFields
<1>b. Policy[id].min \in 1..2 /\ Policy[id].max \in Nat /\ HomeOf[id] \in Regions
  BY Bounds DEF Regions
<1>c. HealthyBaseline(w) \in Workload
  BY BaselineIsMetrics DEF HealthyBaseline, Workload, States
<1>d. \A n \in Nat : \A v \in Workload : [v EXCEPT !.replicas = n] \in Workload BY DEF Workload
<1> HIDE DEF p95, queue, err
<1>g. \A a \in Int : /\ ScaledUp(p95, a, 10) \in Int /\ ScaledUp(p95, a, 100) \in Int
                     /\ Scaled(queue, a, 10) \in Depths /\ Scaled(queue, a, 100) \in Depths
  BY <1>a, ScaledAre
<1>1. CASE do.op = "baseline" BY <1>c, <1>1 DEF Written
<1>2. CASE do.op = "reset" BY <1>c, <1>d, <1>2 DEF Written, Reset
<1>3. CASE do.op = "seed" BY <1>3, <1>b, BaselineIsMetrics DEF Written, Seeded, Workload, States
<1>4. CASE do.op = "demo burst"
  <2>1. Written(do, id, w) = Burst(w, do.factor, Depth((queue * do.factor) \div 10))
    BY <1>4 DEF Written, DemoBurst, queue
  <2>2. queue * do.factor \in Int BY <1>a
  <2>3. (queue * do.factor) \div 10 \in Int BY <2>2, Quotients
  <2>4. Depth((queue * do.factor) \div 10) \in Depths BY <2>3, DepthIsDepth
  <2> QED BY <2>1, <2>4, BurstIsWorkload
<1>5. CASE do.op = "burst"
  <2>1. Written(do, id, w) = Burst(w, do.factor, Scaled(queue, do.factor, 10))
    BY <1>5 DEF Written, BurstSpike, queue
  <2> QED BY <1>g, <2>1, BurstIsWorkload
<1>6. CASE do.op = "spike"
  <2>1. Written(do, id, w) = TriggerSpike(w, do.factor) BY <1>6 DEF Written
  <2> QED BY <2>1, SpikedIsWorkload
<1>7. CASE do.op \in {"skew", "mild skew"}
  <2>1. \/ Written(do, id, w) = RegionalSkew(w, id = FirstListed, do.factor, 12)
        \/ Written(do, id, w) = RegionalSkew(w, id = FirstListed, do.factor, 11)
    BY <1>7 DEF Written
  <2> QED BY <2>1, SkewedIsWorkload
<1>8. CASE do.op = "node"
  <2> DEFINE m == [p95 |-> Times(p95, 22), queue |-> Scaled(queue, 18, 10),
                   err |-> Smaller(err * 2, 120)]
             n == Larger(w.replicas - 1, Policy[id].min)
  <2>1. Times(p95, 22) \in Int /\ Scaled(queue, 18, 10) \in Depths BY <1>g DEF Times
  <2>2. Smaller(err * 2, 120) \in ErrorRates
    <3>1. err * 2 \in Int BY <1>a
    <3> QED BY <3>1, CappedRates
  <2>3. m \in Metrics BY <2>1, <2>2, MetricsOf
  <2>4. n \in Nat BY <1>a, <1>b DEF Larger
  <2>5. Written(do, id, w) = [Degrade(w, m) EXCEPT !.replicas = n]
    BY <1>8, <1>a DEF Written, NodeFailure, Degrade, Workload, p95, queue, err
  <2> HIDE DEF m, n
  <2> QED BY <1>d, <2>3, <2>4, <2>5, DegradedIsWorkload
<1>9. CASE do.op = "buildup"
  <2> DEFINE much == do.factor * 25
             m == [w.metrics EXCEPT !.p95 = Times(@, 14), !.queue = Scaled(@, much, 100)]
  <2>1. much \in Int OBVIOUS
  <2>2. Written(do, id, w) = Degrade(w, m) BY <1>9 DEF Written, QueueBuildup
  <2> HIDE DEF much
  <2>3. m = Loaded(w.metrics, ScaledUp(p95, 14, 10), Scaled(queue, much, 100))
    BY DEF Loaded, Times, p95, queue
  <2>4. ScaledUp(p95, 14, 10) \in Int /\ Scaled(queue, much, 100) \in Depths BY <1>g, <2>1
  <2> HIDE DEF m
  <2>5. m \in Metrics BY <1>a, <2>3, <2>4, LoadedIsMetrics
  <2> QED BY <2>2, <2>5, DegradedIsWorkload
<1>10. CASE do.op = "limit"
  <2> DEFINE m == [w.metrics EXCEPT !.p95 = 320, !.queue = 800]
  <2>1. m = Loaded(w.metrics, 320, 800) BY DEF Loaded
  <2>2. Written(do, id, w) = [Degrade(w, m) EXCEPT !.replicas = Policy[id].max]
    BY <1>10 DEF Written, ConstraintViolation
  <2> HIDE DEF m
  <2>3. 800 \in Depths BY QueueIsWide DEF Depths
  <2>4. m \in Metrics BY <1>a, <2>1, <2>3, LoadedIsMetrics
  <2>5. Degrade(w, m) \in Workload BY <2>4, DegradedIsWorkload
  <2> QED BY <1>b, <1>d, <2>2, <2>5
<1>11. CASE do.op = "full" BY <1>b, <1>d, <1>11 DEF Written
<1>12. CASE do.op = "payment"
  <2>1. Written(do, id, w) = PaymentLoad(w, do.factor) BY <1>12 DEF Written
  <2> QED BY <2>1, PaidIsWorkload
<1>13. CASE do.op = "B0"
  <2> DEFINE m == [p95   |-> Larger(ScaledUp(p95, 65, 100), 80),
                   queue |-> Scaled(queue, 4, 10),
                   err   |-> Larger(ScaledUp(err, 8, 10), 10)]
             n == IF w.replicas < Policy[id].max THEN w.replicas + 1 ELSE w.replicas
  <2>1. ScaledUp(p95, 65, 100) \in Int /\ Scaled(queue, 4, 10) \in Depths BY <1>g
  <2>2. Larger(ScaledUp(p95, 65, 100), 80) \in Int BY <2>1 DEF Larger
  <2>3. Larger(ScaledUp(err, 8, 10), 10) \in ErrorRates BY <1>a, LoweredRates, Zenon
  <2>4. m \in Metrics BY <2>2, <2>1, <2>3, MetricsOf
  <2>5. n \in Nat BY <1>a
  <2>6. Written(do, id, w) = [metrics |-> m, state |-> "Healthy", region |-> w.region,
                              replicas |-> n]
    BY <1>13 DEF Written, RuleOnly, p95, queue, err
  <2> HIDE DEF m, n
  <2> QED BY <1>a, <2>4, <2>5, <2>6 DEF Workload, States
<1>14. CASE do.op = "B1"
  <2> DEFINE m == [p95   |-> Larger(ScaledUp(p95, 72, 100), 90),
                   queue |-> Scaled(queue, 5, 10),
                   err   |-> Larger(ScaledUp(err, 85, 100), 10)]
             desired == Smaller(ScaledUp(w.replicas, w.metrics.p95, 200), Policy[id].max)
             n == IF desired > w.replicas THEN w.replicas + 1 ELSE w.replicas
  <2>1. ScaledUp(p95, 72, 100) \in Int /\ Scaled(queue, 5, 10) \in Depths BY <1>g
  <2>2. Larger(ScaledUp(p95, 72, 100), 90) \in Int BY <2>1 DEF Larger
  <2>3. Larger(ScaledUp(err, 85, 100), 10) \in ErrorRates BY <1>a, LoweredRates, Zenon
  <2>4. m \in Metrics BY <2>2, <2>1, <2>3, MetricsOf
  <2>5. n \in Nat
    <3> HIDE DEF desired
    <3> QED BY <1>a
  <2>6. Written(do, id, w) = [metrics |-> m, state |-> "Healthy", region |-> w.region,
                              replicas |-> n]
    BY <1>14 DEF Written, Adaptive, p95, queue, err
  <2> HIDE DEF m, n
  <2> QED BY <1>a, <2>4, <2>5, <2>6 DEF Workload, States
<1>15. CASE do.op \in {"touch", "rebalance"} BY <1>15 DEF Written
<1> QED
  BY <1>1, <1>2, <1>3, <1>4, <1>5, <1>6, <1>7, <1>8, <1>9, <1>10, <1>11, <1>12, <1>13, <1>14,
     <1>15 DEF Writing

\* So is what an action makes of it, whatever whole numbers its effect promises.
Effects == [latency : Int, queue : Int, err : Int]

LEMMA AffectedIsMetrics ==
  ASSUME NEW m \in Metrics, NEW effect \in Effects
  PROVE  ApplyExpectedEffect(m, effect) \in Metrics
<1> DEFINE l == Larger(m.p95 + effect.latency, 20)
           q == Larger(Signed(Wrapped(m.queue + effect.queue)), 0)
           e == Clamp(1, m.err + effect.err, 990)
<1>1. effect.latency \in Int /\ effect.queue \in Int /\ effect.err \in Int BY DEF Effects
<1>2. l \in Int BY <1>1, MetricsFields DEF Larger
<1>3. m.queue + effect.queue \in Int /\ m.err + effect.err \in Int BY <1>1, MetricsFields
<1>4. q \in Depths BY <1>3, WrappedIsDepth, SignedIsDepth
<1>5. e \in ErrorRates BY <1>3, CappedRates
<1>6. ApplyExpectedEffect(m, effect) = [p95 |-> l, queue |-> q, err |-> e]
  BY DEF ApplyExpectedEffect
<1> HIDE DEF l, q, e
<1> QED BY <1>2, <1>4, <1>5, <1>6, MetricsOf

LEMMA AppliedIsWorkload ==
  ASSUME NEW id \in Ids, NEW w \in Workload, NEW proposal, proposal.effect \in Effects,
         proposal.to \in Regions
  PROVE  Apply(id, proposal, w) \in Workload
<1> DEFINE after == ApplyExpectedEffect(w.metrics, proposal.effect)
           spread == Spread(after, w.replicas)
<1>1. after \in Metrics BY WorkloadFields, AffectedIsMetrics
<1>2. spread \in Metrics
  <2> HIDE DEF after
  <2> DEFINE n == w.replicas + 1
             l == ScaledUp(after.p95, w.replicas, n)
             q == Scaled(after.queue, w.replicas, n)
  <2>1. w.replicas \in Int /\ n \in Nat /\ n > 0 BY WorkloadFields
  <2>2. spread = Loaded(after, l, q) BY DEF Spread, Loaded
  <2>3. after.p95 \in Int /\ after.queue \in Int BY <1>1, MetricsFields
  <2> HIDE DEF n, spread
  <2>4. l \in Int /\ q \in Depths BY <2>1, <2>3, ScaledUpIsInt, ScaledIsDepth
  <2> HIDE DEF l, q
  <2> QED BY <1>1, <2>2, <2>4, LoadedIsMetrics
<1>3. ASSUME NEW m \in Metrics PROVE Finalized(w, m) \in Workload
  <2>1. ComputeWorkloadState(m) \in States BY DEF ComputeWorkloadState, States
  <2> QED BY <2>1 DEF Finalized, Workload
<1>4. CASE proposal.kind = "CreateReplica"
  <2>1. Apply(id, proposal, w) =
          IF w.replicas < Policy[id].max
            THEN [Finalized(w, spread) EXCEPT !.replicas = @ + 1] ELSE Finalized(w, after)
    BY <1>4 DEF Apply, ApplyCreateReplica
  <2>2. \A v \in Workload : [v EXCEPT !.replicas = @ + 1] \in Workload BY DEF Workload
  <2> HIDE DEF after, spread
  <2> QED BY <1>1, <1>2, <1>3, <2>1, <2>2
<1>5. CASE proposal.kind # "CreateReplica"
  <2>1. Apply(id, proposal, w) = [Finalized(w, after) EXCEPT !.region = proposal.to]
    BY <1>5 DEF Apply, ApplyShiftRoute
  <2> HIDE DEF after
  <2> QED BY <1>1, <1>3, <2>1 DEF Workload
<1> QED BY <1>4, <1>5

-----------------------------------------------------------------------------
(* The shape of what an actor holds.                                       *)

\* Beside what TypeOK says: a call of the gateway has an effect and a region, and a round that
\* has begun is none but the first three.
Typed(l) ==
  /\ l.pc \in Steps
  /\ l.round \in Nat /\ l.round <= 3
  /\ l.pc # "begin" /\ OnScript(l, {"rounds"}) => l.round <= 2
  /\ \A id \in DOMAIN l.list : l.list[id] \in Workload
  /\ l.copy \in Workload
  /\ l.pc \in {"evaluate", "commit"} => l.proposal.effect \in Effects /\ l.proposal.to \in Regions

TypesInv ==
  /\ workloads \in [Ids -> Workload]
  /\ fresh \in [Actors -> BOOLEAN]
  /\ \A a \in Actors : Typed(act[a])
  /\ begun \in Nat /\ begun <= MaxRequests
  /\ reasoners \in BOOLEAN

LEMMA SeededIsWorkload == \A id \in Ids : Seeded(id) \in Workload
<1>1. \A id \in Ids : HomeOf[id] \in Regions BY Bounds DEF Regions
<1> QED BY <1>1, BaselineIsMetrics DEF Seeded, Workload, States

LEMMA RestIsTyped ==
  /\ Typed(AtRest) /\ AtRest.copy \in Workload
  /\ \A script : Typed(Starting(script))
<1>1. /\ DOMAIN AtRest = {"pc", "script", "round", "list", "found", "id", "advice", "proposal",
                          "copy"}
      /\ AtRest.round = 0 /\ AtRest.list = << >> /\ AtRest.script = << >>
      /\ AtRest.pc = "idle" /\ AtRest.copy = Seeded(FirstListed)
  BY DEF AtRest
<1>2. DOMAIN << >> = {} OBVIOUS
<1>3. AtRest.copy \in Workload BY <1>1, OneIsFirst, SeededIsWorkload
<1>4. Typed(AtRest) BY <1>1, <1>2, <1>3 DEF Typed, Steps
<1>5. ASSUME NEW script PROVE Typed(Starting(script))
  <2> DEFINE l == Starting(script)
  <2>1. /\ l.pc = "begin" /\ l.round = 0 /\ l.list = << >> /\ l.script = script
        /\ l.copy = AtRest.copy
    BY <1>1 DEF Starting
  <2> HIDE DEF l
  <2>2. Typed(l) BY <1>2, <1>3, <2>1 DEF Typed, Steps
  <2> QED BY <2>2 DEF l
<1> QED BY <1>3, <1>4, <1>5

LEMMA FinishedIsTyped == \A a \in Actors : Typed(Finished(a))
BY RestIsTyped DEF Finished

LEMMA ReturnedIsTyped ==
  ASSUME IndInv, NEW a \in Actors, Typed(act[a]), act[a].pc # "begin",
         OnScript(act[a], Calls \cup {"rounds", "cycle"})
  PROVE  Typed(Returned(a))
<1>1. CASE Doing(a, Calls) BY <1>1, FinishedIsTyped DEF Returned
<1>2. CASE ~Doing(a, Calls)
  <2> DEFINE l == act[a]
             v == [l EXCEPT !.pc = IF Doing(a, {"rounds"}) THEN "propose" ELSE "diagnose",
                            !.id = FirstListed, !.proposal = NoProposal, !.copy = AtRest.copy]
  <2>1. LocalOK(l) BY DEF IndInv
  <2>2. Returned(a) = v BY <1>2 DEF Returned
  <2>3. /\ v.list = l.list /\ v.script = l.script /\ v.round = l.round
        /\ v.pc \in {"propose", "diagnose"} /\ v.copy = AtRest.copy
    BY <2>1 DEF LocalOK
  <2> HIDE DEF v
  <2>4. Typed(v) BY <2>3, RestIsTyped DEF Typed, Steps, OnScript
  <2> QED BY <2>2, <2>4
<1> QED BY <1>1, <1>2

\* Whatever passes the safety review names an effect and a region of the map.
LEMMA PassingPlansAreTyped ==
  ASSUME NEW id \in Ids, NEW w, NEW advice, Passes(Plan(id, w, advice))
  PROVE  Plan(id, w, advice).effect \in Effects /\ Plan(id, w, advice).to \in Regions
<1> DEFINE plan == Plan(id, w, advice)
<1>1. \/ plan = Proposal("ShiftRoute", Policy[id].fallback, Effect(-60, -400, -20),
                         advice.confidence, "Medium", advice.evidence)
      \/ plan = Proposal("CreateReplica", AllowedRegions[1], Effect(-80, -500, -20),
                         advice.confidence, "Low", advice.evidence)
      \/ plan = Proposal("ShiftRoute", FirstOther(w.region), Effect(-40, -200, -10),
                         advice.confidence, "Medium", advice.evidence)
      \/ plan = NoProposal
  BY DEF Plan
<1>2. ~Passes(NoProposal) BY DEF Passes, NoProposal, Proposal
<1>3. Policy[id].fallback \in Regions BY PolicyAllowsTwo
<1>4. AllowedRegions[1] \in Regions /\ AllowedRegions[2] \in Regions
  BY DEF AllowedRegions, Regions, Allowed
<1>5. FirstOther(w.region) \in Regions BY <1>4 DEF FirstOther
<1>6. /\ Effect(-60, -400, -20) \in Effects /\ Effect(-80, -500, -20) \in Effects
      /\ Effect(-40, -200, -10) \in Effects
  BY DEF Effect, Effects
<1> HIDE DEF plan
<1>7. plan.effect \in Effects /\ plan.to \in Regions
  BY <1>1, <1>2, <1>3, <1>4, <1>5, <1>6 DEF Proposal, plan
<1> QED BY <1>7 DEF plan

\* One actor moves, and whatever it writes has its type.
LEMMA TypedMoves ==
  ASSUME IndInv, TypesInv, NEW a \in Actors, NEW l, Typed(l), act' = [act EXCEPT ![a] = l],
         \/ UNCHANGED workloads
         \/ \E id \in Ids : \E w \in Workload : workloads' = [workloads EXCEPT ![id] = w],
         UNCHANGED fresh \/ NoneFresh \/ fresh' = [fresh EXCEPT ![a] = TRUE],
         UNCHANGED <<begun, reasoners>>
  PROVE  TypesInv'
<1>1. workloads' \in [Ids -> Workload] BY DEF TypesInv
<1>2. fresh' \in [Actors -> BOOLEAN] BY DEF TypesInv, NoneFresh
<1>3. \A b \in Actors : act'[b] = IF b = a THEN l ELSE act[b] BY DEF IndInv
<1>4. \A b \in Actors : Typed(act'[b]) BY <1>3 DEF TypesInv
<1>5. \A b \in Actors : Typed(act[b])' BY <1>4 DEF Typed, OnScript
<1> QED BY <1>1, <1>2, <1>5 DEF TypesInv

LEMMA ReturnTypes ==
  ASSUME IndInv, TypesInv, NEW a \in Actors, act[a].pc # "begin",
         OnScript(act[a], Calls \cup {"rounds", "cycle"}), Become(a, Returned(a)),
         \/ UNCHANGED workloads
         \/ \E id \in Ids : \E w \in Workload : workloads' = [workloads EXCEPT ![id] = w],
         UNCHANGED fresh \/ NoneFresh, UNCHANGED <<begun, reasoners>>
  PROVE  TypesInv'
<1>1. Typed(Returned(a)) BY ReturnedIsTyped DEF TypesInv
<1> QED BY <1>1, TypedMoves DEF Become

LEMMA FinishTypes ==
  ASSUME IndInv, TypesInv, NEW a \in Actors, Finish(a),
         UNCHANGED fresh \/ NoneFresh, UNCHANGED <<workloads, begun, reasoners>>
  PROVE  TypesInv'
<1>1. Typed(Finished(a)) BY FinishedIsTyped DEF TypesInv
<1> QED BY <1>1, TypedMoves DEF Finish, Become

LEMMA RequestTypes ==
  ASSUME IndInv, TypesInv, NEW r \in Requests, Request(r)
  PROVE  TypesInv'
<1>1. PICK script \in Scripts : Become(r, Starting(script)) BY DEF Request
<1>2. Typed(Starting(script)) BY RestIsTyped
<1>3. \A b \in Actors : act'[b] = IF b = r THEN Starting(script) ELSE act[b]
  BY <1>1 DEF Become, IndInv
<1>4. \A b \in Actors : Typed(act'[b]) BY <1>2, <1>3 DEF TypesInv
<1>5. \A b \in Actors : Typed(act[b])' BY <1>4 DEF Typed, OnScript
<1>6. begun' \in Nat /\ begun' <= MaxRequests BY RequestsAreCounted DEF Request, TypesInv
<1> QED BY <1>5, <1>6 DEF Request, TypesInv

LEMMA DisconnectTypes ==
  ASSUME IndInv, TypesInv, NEW r \in Requests, Disconnect(r)
  PROVE  TypesInv'
<1>1. r \in Actors BY DEF Actors
<1> QED BY <1>1, RestIsTyped, TypedMoves DEF Disconnect, Become

LEMMA ListTypes == ASSUME IndInv, TypesInv, NEW a \in Actors, List(a) PROVE TypesInv'
<1> DEFINE l == act[a]
<1>1. PICK targets \in Targets(Head(l.script).op) :
        Become(a, [l EXCEPT !.pc = "write", !.list = Restrict(workloads, targets)])
  BY DEF List
<1>2. targets \subseteq Ids BY <1>1, OneIsFirst DEF Targets, FirstInSomeRegion
<1> DEFINE v == [l EXCEPT !.pc = "write", !.list = Restrict(workloads, targets)]
<1>3. LocalOK(l) /\ Typed(l) BY DEF IndInv, TypesInv
<1>4. /\ v.pc = "write" /\ v.list = Restrict(workloads, targets) /\ v.script = l.script
      /\ v.round = l.round /\ v.copy = l.copy
  BY <1>3 DEF LocalOK
<1>5. \A id \in DOMAIN v.list : v.list[id] \in Workload
  BY <1>2, <1>4 DEF Restrict, TypesInv
<1>6. ~OnScript(v, {"rounds"}) BY <1>4 DEF List, Doing, OnScript, Writing
<1>7. act' = [act EXCEPT ![a] = v] BY <1>1 DEF Become, v
<1> HIDE DEF v
<1>8. Typed(v) BY <1>3, <1>4, <1>5, <1>6 DEF Typed, Steps
<1> QED BY <1>7, <1>8, TypedMoves DEF List

LEMMA WriteTypes == ASSUME IndInv, TypesInv, NEW a \in Actors, Write(a) PROVE TypesInv'
<1> DEFINE l == act[a]
<1>1. PICK id \in DOMAIN l.list :
        /\ Upsert(id, Written(Head(l.script), id, l.list[id]))
        /\ Become(a, [l EXCEPT !.list = Without(@, id)])
  BY DEF Write
<1> DEFINE v == [l EXCEPT !.list = Without(@, id)]
           w == Written(Head(l.script), id, l.list[id])
<1>2. LocalOK(l) /\ Typed(l) /\ l.pc = "write" BY DEF IndInv, TypesInv, Write, At
<1>3. /\ v.pc = "write" /\ v.list = Without(l.list, id) /\ v.script = l.script
      /\ v.round = l.round /\ v.copy = l.copy
  BY <1>2 DEF LocalOK
<1>4. /\ DOMAIN v.list = DOMAIN l.list \ {id}
      /\ \A other \in DOMAIN v.list : v.list[other] = l.list[other]
  BY <1>3 DEF Without, Restrict
<1>5. id \in Ids /\ l.list[id] \in Workload /\ Head(l.script).op \in Writing
  BY <1>1, <1>2 DEF LocalOK, OnScript, Typed
<1>6. Head(l.script).factor \in Int
  <2>1. l.script \in Seq(Operations) /\ l.script # << >> BY <1>2 DEF LocalOK, OnScript
  <2>2. Head(l.script) \in Operations BY <2>1
  <2> QED BY <2>2 DEF Operations
<1>7. w \in Workload BY <1>5, <1>6, WrittenIsWorkload
<1>8. act' = [act EXCEPT ![a] = v] BY <1>1 DEF Become, v
<1>9. workloads' = [workloads EXCEPT ![id] = w] BY <1>1 DEF Upsert
<1> HIDE DEF v, w
<1>10. Typed(v) BY <1>2, <1>3, <1>4 DEF Typed, OnScript
<1>11. \E one \in Ids : \E x \in Workload : workloads' = [workloads EXCEPT ![one] = x]
  BY <1>5, <1>7, <1>9
<1> QED BY <1>8, <1>10, <1>11, TypedMoves DEF Write

LEMMA ObserveTypes == ASSUME IndInv, TypesInv, NEW a \in Actors, Observe(a) PROVE TypesInv'
<1> DEFINE l == act[a]
           v == [l EXCEPT !.pc = "diagnose",
                          !.found = [id \in InTrouble |-> Conditions(workloads[id])]]
<1>1. LocalOK(l) /\ Typed(l) BY DEF IndInv, TypesInv
<1>2. /\ v.pc = "diagnose" /\ v.list = l.list /\ v.script = l.script /\ v.round = l.round
      /\ v.copy = l.copy
  BY <1>1 DEF LocalOK
<1>3. act' = [act EXCEPT ![a] = v] BY DEF Observe, Become
<1> HIDE DEF v
<1>4. ~OnScript(v, {"rounds"}) BY <1>2 DEF Observe, Doing, OnScript
<1>5. Typed(v) BY <1>1, <1>2, <1>4 DEF Typed, Steps
<1> QED BY <1>3, <1>5, TypedMoves DEF Observe

LEMMA AwaitTypes == ASSUME IndInv, TypesInv, NEW a \in Actors, AwaitDiagnosis(a) PROVE TypesInv'
<1> DEFINE l == act[a]
           onward(id) == [l EXCEPT !.found = Without(@, id)]
           v(id, advice) == [onward(id) EXCEPT !.pc = "read", !.id = id, !.advice = advice]
<1>1. LocalOK(l) /\ Typed(l) /\ l.pc = "diagnose" BY DEF IndInv, TypesInv, AwaitDiagnosis, At
<1>2. PICK id \in DOMAIN l.found :
        act' = [act EXCEPT ![a] = onward(id)]
        \/ \E advice : act' = [act EXCEPT ![a] = v(id, advice)]
  BY DEF AwaitDiagnosis, Become
<1>3. /\ DOMAIN onward(id) = DOMAIN l /\ onward(id).pc = "diagnose" /\ onward(id).list = l.list
      /\ onward(id).script = l.script /\ onward(id).round = l.round /\ onward(id).copy = l.copy
  BY <1>1 DEF LocalOK
<1>4. ~OnScript(l, {"rounds"}) BY <1>1 DEF LocalOK, OnScript
<1>5. ASSUME NEW advice PROVE Typed(v(id, advice))
  <2> DEFINE w == v(id, advice)
  <2>1. /\ w.pc = "read" /\ w.list = l.list /\ w.script = l.script /\ w.round = l.round
        /\ w.copy = l.copy
    <3> HIDE DEF onward
    <3> QED BY <1>1, <1>3 DEF LocalOK
  <2> HIDE DEF w, onward
  <2>2. Typed(w) BY <1>1, <1>4, <2>1 DEF Typed, Steps, OnScript
  <2> QED BY <2>2 DEF w
<1> HIDE DEF v, onward
<1>6. Typed(onward(id)) BY <1>1, <1>3 DEF Typed, OnScript
<1>7. \E w : Typed(w) /\ act' = [act EXCEPT ![a] = w] BY <1>2, <1>5, <1>6
<1> QED BY <1>7, TypedMoves DEF AwaitDiagnosis

LEMMA ReadTypes == ASSUME IndInv, TypesInv, NEW a \in Actors, ReadWorkload(a) PROVE TypesInv'
<1> DEFINE l == act[a]
           v == [l EXCEPT !.pc = "version", !.copy = workloads[act[a].id]]
<1>1. LocalOK(l) /\ Typed(l) /\ l.pc = "read" BY DEF IndInv, TypesInv, ReadWorkload, At
<1>2. /\ v.pc = "version" /\ v.list = l.list /\ v.script = l.script /\ v.round = l.round
      /\ v.copy = workloads[l.id]
  BY <1>1 DEF LocalOK
<1>3. act' = [act EXCEPT ![a] = v] BY DEF ReadWorkload, Become
<1>4. workloads[l.id] \in Workload BY <1>1 DEF TypesInv, LocalOK
<1> HIDE DEF v
<1>5. Typed(v) BY <1>1, <1>2, <1>4 DEF Typed, Steps, OnScript
<1> QED BY <1>3, <1>5, TypedMoves DEF ReadWorkload

LEMMA ProposesTypes ==
  ASSUME IndInv, TypesInv, NEW a \in Actors, act[a].pc \in {"version", "register"}, Propose(a)
  PROVE  \E l : Typed(l) /\ act' = [act EXCEPT ![a] = l]
<1> DEFINE l == act[a]
           plan == Plan(l.id, l.copy, l.advice)
           forgotten == [l EXCEPT !.copy = AtRest.copy, !.advice = NoAnswer]
           sent == [forgotten EXCEPT !.pc = "evaluate", !.proposal = plan]
           dropped == [forgotten EXCEPT !.pc = "diagnose", !.id = FirstListed]
<1>1. LocalOK(l) /\ Typed(l) BY DEF IndInv, TypesInv
<1>2. CASE Passes(plan)
  <2>1. act' = [act EXCEPT ![a] = sent] BY <1>2 DEF Propose, Become
  <2>2. /\ sent.pc = "evaluate" /\ sent.proposal = plan /\ sent.list = l.list
        /\ sent.script = l.script /\ sent.round = l.round /\ sent.copy = AtRest.copy
    BY <1>1 DEF LocalOK
  <2>3. plan.effect \in Effects /\ plan.to \in Regions
    BY <1>1, <1>2, PassingPlansAreTyped DEF LocalOK
  <2> HIDE DEF sent, plan
  <2>4. Typed(sent) BY <1>1, <2>2, <2>3, RestIsTyped DEF Typed, Steps, OnScript
  <2> QED BY <2>1, <2>4
<1>3. CASE ~Passes(plan)
  <2>1. act' = [act EXCEPT ![a] = dropped] BY <1>3 DEF Propose, Become
  <2>2. /\ dropped.pc = "diagnose" /\ dropped.list = l.list /\ dropped.script = l.script
        /\ dropped.round = l.round /\ dropped.copy = AtRest.copy
    BY <1>1 DEF LocalOK
  <2> HIDE DEF dropped
  <2>3. Typed(dropped) BY <1>1, <2>2, RestIsTyped DEF Typed, Steps, OnScript
  <2> QED BY <2>1, <2>3
<1> QED BY <1>2, <1>3

LEMMA VersionTypes == ASSUME IndInv, TypesInv, NEW a \in Actors, ReadVersion(a) PROVE TypesInv'
<1> DEFINE l == act[a]
           v == [l EXCEPT !.pc = "register"]
<1>1. LocalOK(l) /\ Typed(l) /\ l.pc = "version" BY DEF IndInv, TypesInv, ReadVersion, At
<1>2. CASE intents[l.id] = 0
  <2>1. act' = [act EXCEPT ![a] = v] BY <1>2 DEF ReadVersion, Goto, Become
  <2>2. /\ v.pc = "register" /\ v.list = l.list /\ v.script = l.script /\ v.round = l.round
        /\ v.copy = l.copy
    BY <1>1 DEF LocalOK
  <2> HIDE DEF v
  <2>3. Typed(v) BY <1>1, <2>2 DEF Typed, Steps, OnScript
  <2> QED BY <2>1, <2>3, TypedMoves DEF ReadVersion
<1>3. CASE intents[l.id] # 0
  <2>1. \E w : Typed(w) /\ act' = [act EXCEPT ![a] = w]
    BY <1>1, <1>3, ProposesTypes DEF ReadVersion
  <2> QED BY <2>1, TypedMoves DEF ReadVersion
<1> QED BY <1>2, <1>3

LEMMA RegisterTypes == ASSUME IndInv, TypesInv, NEW a \in Actors, Register(a) PROVE TypesInv'
<1>1. \E w : Typed(w) /\ act' = [act EXCEPT ![a] = w] BY ProposesTypes DEF Register, At
<1> QED BY <1>1, TypedMoves DEF Register

LEMMA CallTypes == ASSUME IndInv, TypesInv, NEW a \in Actors, Call(a) PROVE TypesInv'
<1> DEFINE l == act[a]
           plan == CallProposal(Head(l.script).op)
           v == [l EXCEPT !.pc = "evaluate", !.proposal = plan]
<1>1. LocalOK(l) /\ Typed(l) /\ OnScript(l, Calls)
  BY DEF IndInv, TypesInv, Call, Doing, OnScript
<1>2. /\ v.pc = "evaluate" /\ v.list = l.list /\ v.script = l.script /\ v.round = l.round
      /\ v.copy = l.copy /\ v.proposal = plan
  BY <1>1 DEF LocalOK
<1>3. act' = [act EXCEPT ![a] = v] BY DEF Call, Become
<1>4. plan.effect \in Effects /\ plan.to \in Regions
  <2>1. Head(l.script).op \in {"stale call", "capped call", "restart call"}
    BY <1>1 DEF OnScript, Calls
  <2>2. workloads[FirstListed].region \in Regions /\ "IndiaSouth" \in Regions
    BY OneIsFirst DEF TypesInv, Workload, Regions, Allowed
  <2>3. \E to \in Regions :
          plan = BenchReplica(to)
          \/ plan = Proposal("RestartWorkload", to, Effect(0, 0, 0), 50, "Critical", TRUE)
    BY <2>1, <2>2 DEF CallProposal
  <2>4. Effect(-80, -500, -20) \in Effects /\ Effect(0, 0, 0) \in Effects
    BY DEF Effect, Effects
  <2> HIDE DEF plan
  <2> QED BY <2>3, <2>4 DEF BenchReplica, Proposal
<1>5. ~OnScript(l, {"rounds"}) BY <1>1 DEF OnScript, Calls
<1> HIDE DEF v, plan
<1>6. Typed(v) BY <1>1, <1>2, <1>4, <1>5 DEF Typed, Steps, OnScript
<1>7. UNCHANGED fresh \/ NoneFresh \/ fresh' = [fresh EXCEPT ![a] = TRUE] BY DEF Call
<1> QED BY <1>3, <1>6, <1>7, TypedMoves DEF Call

LEMMA RoundTypes == ASSUME IndInv, TypesInv, NEW a \in Actors, BeginRound(a) PROVE TypesInv'
<1> DEFINE l == act[a]
           v == [l EXCEPT !.pc = "propose", !.list = Restrict(workloads, Unhealthy)]
<1>1. LocalOK(l) /\ Typed(l) /\ l.script # << >>
  BY DEF IndInv, TypesInv, BeginRound, Doing
<1>2. /\ v.pc = "propose" /\ v.list = Restrict(workloads, Unhealthy) /\ v.script = l.script
      /\ v.round = l.round /\ v.copy = l.copy
  BY <1>1 DEF LocalOK
<1>3. \A id \in DOMAIN v.list : v.list[id] \in Workload
  BY <1>2 DEF Restrict, Unhealthy, TypesInv
<1>4. Finish(a) \/ (act' = [act EXCEPT ![a] = v] /\ l.round # 3) BY DEF BeginRound, Become
<1> HIDE DEF v
<1>5. CASE Finish(a) BY <1>1, <1>5, FinishTypes DEF BeginRound
<1>6. CASE act' = [act EXCEPT ![a] = v] /\ l.round # 3
  <2>1. v.round <= 2 BY <1>1, <1>2, <1>6 DEF Typed
  <2>2. Typed(v) BY <1>1, <1>2, <1>3, <2>1 DEF Typed, Steps
  <2> QED BY <1>6, <2>2, TypedMoves DEF BeginRound
<1> QED BY <1>4, <1>5, <1>6

LEMMA ProposeInRoundTypes ==
  ASSUME IndInv, TypesInv, NEW a \in Actors, ProposeInRound(a) PROVE TypesInv'
<1> DEFINE l == act[a]
<1>1. LocalOK(l) /\ Typed(l) /\ l.pc = "propose" BY DEF IndInv, TypesInv, ProposeInRound, At
<1>2. PICK id \in DOMAIN l.list :
        Become(a, [l EXCEPT !.pc = "evaluate", !.list = Without(@, id), !.id = id,
                            !.proposal = BenchReplica(l.list[id].region)])
  BY DEF ProposeInRound
<1> DEFINE v == [l EXCEPT !.pc = "evaluate", !.list = Without(@, id), !.id = id,
                          !.proposal = BenchReplica(l.list[id].region)]
<1>3. act' = [act EXCEPT ![a] = v] BY <1>2 DEF Become
<1>4. /\ v.pc = "evaluate" /\ v.list = Without(l.list, id) /\ v.script = l.script
      /\ v.round = l.round /\ v.copy = l.copy
      /\ v.proposal = BenchReplica(l.list[id].region)
  BY <1>1 DEF LocalOK
<1>5. \A other \in DOMAIN v.list : v.list[other] \in Workload
  BY <1>1, <1>4 DEF Without, Restrict, Typed
<1>6. l.list[id].region \in Regions
  <2>1. l.list[id] \in Workload BY <1>1, <1>2 DEF Typed
  <2> QED BY <2>1 DEF Workload
<1>7. Effect(-80, -500, -20) \in Effects BY DEF Effect, Effects
<1> HIDE DEF v
<1>8. v.proposal.effect \in Effects /\ v.proposal.to \in Regions
  BY <1>4, <1>6, <1>7 DEF BenchReplica, Proposal
<1>9. Typed(v) BY <1>1, <1>4, <1>5, <1>8 DEF Typed, Steps, OnScript
<1> QED BY <1>3, <1>9, TypedMoves DEF ProposeInRound

LEMMA RoundDoneTypes ==
  ASSUME IndInv, TypesInv, NEW a \in Actors, RoundDone(a) PROVE TypesInv'
<1> DEFINE l == act[a]
           v == [l EXCEPT !.pc = "begin", !.round = @ + 1]
<1>1. LocalOK(l) /\ Typed(l) /\ l.pc = "propose" BY DEF IndInv, TypesInv, RoundDone, At
<1>2. /\ v.pc = "begin" /\ v.list = l.list /\ v.script = l.script /\ v.round = l.round + 1
      /\ v.copy = l.copy
  BY <1>1 DEF LocalOK
<1>3. act' = [act EXCEPT ![a] = v] BY DEF RoundDone, Become
<1> HIDE DEF v
<1>4. l.round <= 2 BY <1>1 DEF LocalOK, Typed
<1>5. v.round \in Nat /\ v.round <= 3 BY <1>1, <1>2, <1>4 DEF Typed
<1>6. Typed(v) BY <1>1, <1>2, <1>5 DEF Typed, Steps, OnScript
<1> QED BY <1>3, <1>6, TypedMoves DEF RoundDone

LEMMA EvaluateTypes ==
  ASSUME IndInv, TypesInv, NEW a \in Actors, EvaluatePolicy(a) PROVE TypesInv'
<1> DEFINE l == act[a]
           v == [l EXCEPT !.pc = "commit"]
<1>1. LocalOK(l) /\ Typed(l) /\ l.pc = "evaluate" BY DEF IndInv, TypesInv, EvaluatePolicy, At
<1>2. /\ v.pc = "commit" /\ v.list = l.list /\ v.script = l.script /\ v.round = l.round
      /\ v.copy = l.copy /\ v.proposal = l.proposal
  BY <1>1 DEF LocalOK
<1>3. act' = [act EXCEPT ![a] = v] \/ Become(a, Returned(a))
  BY DEF EvaluatePolicy, Goto, Become
<1> HIDE DEF v
<1>4. Typed(v) BY <1>1, <1>2 DEF Typed, Steps, OnScript
<1>5. OnScript(l, Calls \cup {"rounds", "cycle"}) BY <1>1 DEF LocalOK
<1>6. UNCHANGED <<workloads, fresh, begun, reasoners>> BY DEF EvaluatePolicy
<1>7. CASE act' = [act EXCEPT ![a] = v] BY <1>4, <1>6, <1>7, TypedMoves
<1>8. CASE Become(a, Returned(a)) BY <1>1, <1>5, <1>6, <1>8, ReturnTypes
<1> QED BY <1>3, <1>7, <1>8

LEMMA CheckTypes == ASSUME IndInv, TypesInv, NEW a \in Actors, CommitCheck(a) PROVE TypesInv'
<1> DEFINE l == act[a]
           copy == Apply(l.id, l.proposal, workloads[l.id])
           v == [l EXCEPT !.pc = "insert", !.copy = copy]
<1>1. LocalOK(l) /\ Typed(l) /\ l.pc = "commit" BY DEF IndInv, TypesInv, CommitCheck, At
<1>2. /\ v.pc = "insert" /\ v.list = l.list /\ v.script = l.script /\ v.round = l.round
      /\ v.copy = copy
  BY <1>1 DEF LocalOK
<1>3. act' = [act EXCEPT ![a] = v] \/ Become(a, Returned(a)) BY DEF CommitCheck, Become
<1>4. copy \in Workload
  <2>1. l.id \in Ids /\ workloads[l.id] \in Workload BY <1>1 DEF LocalOK, TypesInv
  <2>2. l.proposal.effect \in Effects /\ l.proposal.to \in Regions BY <1>1 DEF Typed
  <2> QED BY <2>1, <2>2, AppliedIsWorkload
<1> HIDE DEF v, copy
<1>5. Typed(v) BY <1>1, <1>2, <1>4 DEF Typed, Steps, OnScript
<1>6. OnScript(l, Calls \cup {"rounds", "cycle"}) BY <1>1 DEF LocalOK
<1>7. UNCHANGED <<workloads, fresh, begun, reasoners>> BY DEF CommitCheck
<1>8. CASE act' = [act EXCEPT ![a] = v] BY <1>5, <1>7, <1>8, TypedMoves
<1>9. CASE Become(a, Returned(a)) BY <1>1, <1>6, <1>7, <1>9, ReturnTypes
<1> QED BY <1>3, <1>8, <1>9

LEMMA CommitTypes == ASSUME IndInv, TypesInv, NEW a \in Actors, CommitUpsert(a) PROVE TypesInv'
<1>1. LocalOK(act[a]) /\ Typed(act[a]) /\ act[a].pc = "insert"
  BY DEF IndInv, TypesInv, CommitUpsert, At
<1>2. OnScript(act[a], Calls \cup {"rounds", "cycle"}) /\ act[a].id \in Ids
  BY <1>1 DEF LocalOK
<1>3. \E id \in Ids : \E w \in Workload : workloads' = [workloads EXCEPT ![id] = w]
  BY <1>1, <1>2 DEF CommitUpsert, Upsert, Typed
<1> QED BY <1>1, <1>2, <1>3, ReturnTypes DEF CommitUpsert

LEMMA CycleTypes == ASSUME IndInv, TypesInv, NEW a \in Actors, CycleStep(a) PROVE TypesInv'
<1>1. CASE CycleDone(a)
  <2>1. act[a].script # << >> BY <1>1 DEF CycleDone, At, IndInv, LocalOK, OnScript
  <2> QED BY <1>1, <2>1, FinishTypes DEF CycleDone
<1>2. CASE GatewayStep(a) BY <1>2, EvaluateTypes, CheckTypes, CommitTypes DEF GatewayStep
<1> QED
  BY <1>1, <1>2, ObserveTypes, AwaitTypes, ReadTypes, VersionTypes, RegisterTypes DEF CycleStep

LEMMA RequestStepTypes ==
  ASSUME IndInv, TypesInv, NEW r \in Requests, RequestStep(r) PROVE TypesInv'
<1>1. r \in Actors BY DEF Actors
<1>2. CASE WritingDone(r)
  <2>1. act[r].script # << >> BY <1>1, <1>2 DEF WritingDone, At, IndInv, LocalOK, OnScript
  <2> QED BY <1>1, <1>2, <2>1, FinishTypes DEF WritingDone
<1>3. CASE Increment(r) BY <1>1, <1>3, FinishTypes DEF Increment, Doing
<1> QED
  BY <1>1, <1>2, <1>3, ListTypes, WriteTypes, CallTypes, RoundTypes, ProposeInRoundTypes,
     RoundDoneTypes, CycleTypes
  DEF RequestStep

LEMMA InitTypes == Init => TypesInv
<1> SUFFICES ASSUME Init PROVE TypesInv OBVIOUS
<1>1. workloads \in [Ids -> Workload] BY SeededIsWorkload DEF Init
<1>2. \A a \in Actors : act[a] = AtRest \/ act[a] = Starting(<<Do("cycle")>>) BY DEF Init
<1>3. \A a \in Actors : Typed(act[a]) BY <1>2, RestIsTyped
<1> QED BY <1>1, <1>3, RequestsAreCounted DEF Init, TypesInv

LEMMA IdleTypes ==
  ASSUME TypesInv, UNCHANGED <<workloads, fresh, act, begun>>, reasoners' \in BOOLEAN
  PROVE  TypesInv'
BY DEF TypesInv, Typed, OnScript

\* The shape of the state: whatever is computed of a workload is one again, by whatever factor a
\* request brings, with a queue that fits its word and an error rate of at most 99 percent, and
\* no recovery goes beyond its third round.
THEOREM RecoveryTypeCorrect == Spec => []TypeOK
<1>1. ASSUME IndInv, TypesInv, [Next]_vars PROVE TypesInv'
  <2>1. CASE CycleStep(Runtime) BY <1>1, <2>1, CycleTypes DEF Actors
  <2>2. CASE ReasonersFail BY <1>1, <2>2, IdleTypes DEF ReasonersFail
  <2>3. CASE \E r \in Requests : Request(r) \/ RequestStep(r) \/ Disconnect(r)
    BY <1>1, <2>3, RequestTypes, RequestStepTypes, DisconnectTypes
  <2>4. CASE UNCHANGED vars BY <1>1, <2>4, IdleTypes DEF vars, TypesInv
  <2> QED BY <1>1, <2>1, <2>2, <2>3, <2>4 DEF Next
<1>2. ASSUME IndInv, TypesInv PROVE TypeOK
  <2>1. begun \in 0..MaxRequests BY <1>2, RequestsAreCounted DEF TypesInv
  <2>2. ASSUME NEW a \in Actors PROVE act[a].round \in 0..3
    <3>1. act[a].round \in Nat /\ act[a].round <= 3 BY <1>2 DEF TypesInv, Typed
    <3> QED BY <3>1
  <2> QED BY <1>2, <2>1, <2>2 DEF IndInv, LocalOK, TypesInv, Typed, TypeOK
<1> QED BY <1>1, <1>2, InitTypes, IndInvHolds, PTL DEF Spec
=============================================================================
