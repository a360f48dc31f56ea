------------------------------ MODULE Recovery ------------------------------
(***************************************************************************)
(* The recovery loop of esa-runtime/src/orchestrator.rs over workloads     *)
(* that demo scenarios, benchmarks and payment events of esa-api write at  *)
(* the same time.                                                          *)
(*                                                                         *)
(* A cycle lists the workloads, and for each that is in trouble awaits a   *)
(* diagnosis, plans, and calls the gateway; a benchmark runs a cycle of    *)
(* its own, on the same agents and intents.  Everyone changes a workload   *)
(* by upserting a copy changed since it was read.  ControlPlane takes the  *)
(* gateway's reads one by one, and an upsert's insert apart from its       *)
(* count; here the verdict, the commit's check with the reading it guards, *)
(* and the upsert are a step each.  No one restores a snapshot here, so    *)
(* the version only grows, and what matters of it is whether it is still   *)
(* the one a proposal carries.                                             *)
(***************************************************************************)
EXTENDS RecoveryAgents, FiniteSets, Functions

CONSTANTS
  Runtime,       \* the task of run_forever
  Requests,      \* requests for a scenario, a benchmark or a payment
  Scripts,       \* what a request may do, operation by operation
  MaxRequests,   \* how many of them there are, one after the other or at once
  FirstListed,   \* the workload a list of them begins with
  Advice         \* what the fluid reasoner and the language model may answer

ASSUME RuntimeIsNoRequest == Runtime \notin Requests
ASSUME RequestsAreFinite == IsFiniteSet(Requests)
ASSUME RequestsAreCounted == MaxRequests \in Nat
ASSUME OneIsFirst == FirstListed \in Ids
ASSUME AdviceIsDiagnoses ==
  \A advice \in Advice :
    advice \in [action : Recommendations, confidence : 0..100, evidence : BOOLEAN]

VARIABLES
  workloads,   \* the fabric's workloads
  intents,     \* how many default intents each workload has
  fresh,       \* whether the version is still the one each actor has read
  act,         \* the local state of each actor
  begun,       \* the requests made so far
  reasoners    \* whether the fluid reasoner or the language model may answer

vars == <<workloads, intents, fresh, act, begun, reasoners>>

Actors == Requests \cup {Runtime}

\* Operations that list the workloads and write some of them back.
Writing == {"baseline", "reset", "seed", "demo burst", "burst", "spike", "skew", "mild skew",
            "node", "buildup", "limit", "full", "touch", "payment", "B0", "B1", "rebalance"}
\* Calls of the gateway a safety trial makes, which are to be refused.
Calls == {"stale call", "capped call", "restart call"}
\* An operation with its factor in tenths: a multiplier, a skew, a payment's impact.  The one a
\* request for a spike, a scenario or a comparison brings is any number.
Operations == [op : Writing \cup Calls \cup {"cycle", "rounds", "increment"}, factor : Int]
By(op, factor) == [op |-> op, factor |-> factor]
Do(op) == By(op, 10)

\* What the endpoints and the benchmark harness run, operation by operation.  apply_scenario
\* resets the workloads first.
Scenario(mult) ==
  LET burst(least) == By("burst", Larger(mult, least))
      skew(least) == By("mild skew", Larger(mult, least))
  IN  [steady    |-> <<Do("reset")>>,
       burst     |-> <<Do("reset"), burst(20)>>,
       skew      |-> <<Do("reset"), skew(25)>>,
       node      |-> <<Do("reset"), Do("node")>>,
       buildup   |-> <<Do("reset"), By("buildup", mult)>>,
       burstSkew |-> <<Do("reset"), burst(25), skew(20)>>,
       skewNode  |-> <<Do("reset"), skew(25), Do("node")>>,
       compound  |-> <<Do("reset"), burst(30), skew(20), Do("node")>>]

Controller ==
  [B0 |-> <<Do("B0")>>, B1 |-> <<Do("B1"), Do("rebalance")>>,
   B2 |-> <<Do("cycle"), Do("rounds")>>, fast |-> <<Do("rounds")>>]

PerformanceTrial(scenario, controller) ==
  Scenario(30)[scenario] \o Controller[controller] \o <<Do("reset")>>

\* BENCH-09, 10, 12 to 15; BENCH-11 restores a snapshot, which only ControlPlane does.
SafetyTrial ==
  LET burst == <<Do("reset")>> \o Scenario(30).burst
  IN  [stale    |-> burst \o <<Do("stale call"), Do("reset")>>,
       weak     |-> <<Do("reset")>> \o Scenario(25).buildup \o <<Do("rounds"), Do("reset")>>,
       noAgent  |-> burst \o <<Do("rounds"), Do("reset")>>,
       noModel  |-> burst \o <<Do("rounds"), Do("reset")>>,
       invalid  |-> <<Do("reset"), Do("restart call"), Do("reset")>>,
       capped   |-> <<Do("reset"), Do("full"), Do("capped call"), Do("reset")>>]

ASSUME ScriptsAreOperations == Scripts \subseteq Seq(Operations)

\* The trials of the harness, one after the other; of the comparison; and of the ablations,
\* which a reader of their result runs too when there is none yet.
HarnessTrials(fast) ==
  {PerformanceTrial(scenario, controller) :
     scenario \in DOMAIN Scenario(30), controller \in {"B0", "B1", IF fast THEN "fast" ELSE "B2"}}
    \cup {SafetyTrial[trial] : trial \in DOMAIN SafetyTrial}

\* run_comparison, by the scenario and the multiplier of its request.
Compared(scenario, mult) ==
  CASE scenario = "skew" -> <<Do("reset"), By("mild skew", mult)>>
    [] scenario = "burst" -> <<Do("reset"), By("burst", Larger(mult, 20))>>
    [] scenario = "steady" -> <<Do("reset")>>
    [] OTHER -> <<Do("reset")>> \o (IF mult > 10 THEN <<By("burst", mult)>> ELSE << >>)

Comparison(scenario, mult) ==
  LET before == Compared(scenario, mult)
  IN  before \o Controller.B0 \o before \o Controller.B1 \o before \o Controller.B2
        \o <<Do("reset")>>

Ablations ==
  <<Do("reset")>> \o PerformanceTrial("burst", "B1") \o PerformanceTrial("burst", "B0")
    \o PerformanceTrial("burst", "B2") \o <<Do("reset")>>

\* A task between two operations: it has listed nothing that is left to do, and found nothing.
AtRest ==
  [pc |-> "idle", script |-> << >>, round |-> 0,
   list |-> << >>,                                \* the workloads listed and not yet dealt with
   found |-> << >>,                               \* likewise the conditions found
   id |-> FirstListed, advice |-> NoAnswer,       \* the workload at hand, and its diagnosis
   proposal |-> NoProposal, copy |-> Seeded(FirstListed)]

Starting(script) == [AtRest EXCEPT !.pc = "begin", !.script = script]

Init ==
  /\ workloads = [id \in Ids |-> Seeded(id)]
  /\ intents = [id \in Ids |-> 0]
  /\ fresh = [a \in Actors |-> FALSE]
  /\ act = [a \in Actors |-> IF a = Runtime THEN Starting(<<Do("cycle")>>) ELSE AtRest]
  /\ begun = 0
  /\ reasoners \in BOOLEAN

-----------------------------------------------------------------------------
At(a, pc) == act[a].pc = pc
Doing(a, operations) == act[a].script # << >> /\ Head(act[a].script).op \in operations
Become(a, local) == act' = [act EXCEPT ![a] = local]
Goto(a, pc) == Become(a, [act[a] EXCEPT !.pc = pc])

Without(f, id) == Restrict(f, DOMAIN f \ {id})

\* The operation is over; what it read is forgotten.  run_forever sleeps, and starts over.
Finished(a) ==
  LET rest == IF a = Runtime THEN <<Do("cycle")>> ELSE Tail(act[a].script)
  IN  IF rest = << >> THEN AtRest ELSE Starting(rest)
Finish(a) == Become(a, Finished(a))

Request(r) ==
  /\ At(r, "idle")
  /\ begun < MaxRequests
  /\ \E script \in Scripts : Become(r, Starting(script))
  /\ begun' = begun + 1
  /\ UNCHANGED <<workloads, intents, fresh, reasoners>>

-----------------------------------------------------------------------------
(* Scenarios, the benchmark's scenarios and controllers, and payments.     *)

\* The value an operation writes back for a workload it has listed.
Written(do, id, w) ==
  LET cap == Policy[id].max
      first == id = FirstListed
  IN  CASE do.op = "baseline" -> HealthyBaseline(w)
        [] do.op = "reset" -> Reset(w)
        [] do.op = "seed" -> Seeded(id)
        [] do.op = "demo burst" -> DemoBurst(w, do.factor)
        [] do.op = "burst" -> BurstSpike(w, do.factor)
        [] do.op = "spike" -> TriggerSpike(w, do.factor)
        [] do.op = "skew" -> RegionalSkew(w, first, do.factor, 12)
        [] do.op = "mild skew" -> RegionalSkew(w, first, do.factor, 11)
        [] do.op = "node" -> NodeFailure(w, Policy[id].min)
        [] do.op = "buildup" -> QueueBuildup(w, do.factor)
        [] do.op = "limit" -> ConstraintViolation(w, cap)
        [] do.op = "full" -> [w EXCEPT !.replicas = cap]
        [] do.op = "payment" -> PaymentLoad(w, do.factor)
        [] do.op = "B0" -> RuleOnly(w, cap)
        [] do.op = "B1" -> Adaptive(w, cap)
        [] do.op \in {"touch", "rebalance"} -> w

\* The workload a payment is for is the first in its region, if there is one.
FirstInSomeRegion ==
  {id \in Ids : workloads[id].region = workloads[FirstListed].region => id = FirstListed}

\* Whom it may write: a failing node is one, and so is a hot workload if there is any.
Targets(op) ==
  CASE op \in {"limit", "full", "touch"} -> {{FirstListed}}
    [] op = "node" -> {{id} : id \in Ids}
    [] op = "rebalance" -> {{id} : id \in Ids} \cup {{}}
    [] op = "payment" -> {{id} : id \in FirstInSomeRegion} \cup {{}}
    [] op = "B0" -> {{id \in Ids : OverRules(workloads[id])}}
    [] op = "B1" -> {{id \in Ids : OverTarget(workloads[id])}}
    [] OTHER -> {Ids}

List(a) ==
  /\ At(a, "begin") /\ Doing(a, Writing)
  /\ \E targets \in Targets(Head(act[a].script).op) :
       Become(a, [act[a] EXCEPT !.pc = "write", !.list = Restrict(workloads, targets)])
  /\ UNCHANGED <<workloads, intents, fresh, begun, reasoners>>

\* upsert_workload counts the version up: none that was read before is the current one any more.
Upsert(id, w) == workloads' = [workloads EXCEPT ![id] = w]
NoneFresh == fresh' = [b \in Actors |-> FALSE]

Write(a) ==
  /\ At(a, "write")
  /\ \E id \in DOMAIN act[a].list :
       /\ Upsert(id, Written(Head(act[a].script), id, act[a].list[id]))
       /\ Become(a, [act[a] EXCEPT !.list = Without(@, id)])
  /\ NoneFresh
  /\ UNCHANGED <<intents, begun, reasoners>>

WritingDone(a) ==
  /\ At(a, "write") /\ act[a].list = << >>
  /\ Finish(a)
  /\ UNCHANGED <<workloads, intents, fresh, begun, reasoners>>

\* The stale-state scenario counts the version up by itself.
Increment(a) ==
  /\ At(a, "begin") /\ Doing(a, {"increment"})
  /\ NoneFresh
  /\ Finish(a)
  /\ UNCHANGED <<workloads, intents, begun, reasoners>>

-----------------------------------------------------------------------------
(* A cycle: observe once, then one workload after the other.               *)

InTrouble == {id \in Ids : Conditions(workloads[id]) # {}}

Observe(a) ==
  /\ At(a, "begin") /\ Doing(a, {"cycle"})
  /\ Become(a, [act[a] EXCEPT !.pc = "diagnose",
                              !.found = [id \in InTrouble |-> Conditions(workloads[id])]])
  /\ UNCHANGED <<workloads, intents, fresh, begun, reasoners>>

\* What either of the two may answer; both time out.
Answers == {NoAnswer} \cup (IF reasoners THEN Advice ELSE {})

\* The next workload of the map, in no particular order, when its diagnosis has come; without
\* a recommendation the cycle goes on to the next.  A recommendation the planner does not know
\* is planned for as any other, up to the choice of the action, and comes to nothing there.
AwaitDiagnosis(a) ==
  /\ At(a, "diagnose")
  /\ \E id \in DOMAIN act[a].found, fluid \in Answers, model \in Answers :
       LET advice == Diagnose(fluid, model, act[a].found[id])
           onward == [act[a] EXCEPT !.found = Without(@, id)]
       IN  Become(a, IF advice.action \in Recommendations \ {"nothing"}
                       THEN [onward EXCEPT !.pc = "read", !.id = id, !.advice = advice]
                       ELSE onward)
  /\ UNCHANGED <<workloads, intents, fresh, begun, reasoners>>

CycleDone(a) ==
  /\ At(a, "diagnose") /\ act[a].found = << >>
  /\ Finish(a)
  /\ UNCHANGED <<workloads, intents, fresh, begun, reasoners>>

\* The client of a benchmark goes away while a diagnosis is awaited: the request ends there.
Disconnect(r) ==
  /\ At(r, "diagnose") /\ act[r].found # << >>
  /\ Become(r, AtRest)
  /\ UNCHANGED <<workloads, intents, fresh, begun, reasoners>>

\* plan() reads the workload, and after it the version and whether there is an intent.
ReadWorkload(a) ==
  /\ At(a, "read")
  /\ Become(a, [act[a] EXCEPT !.pc = "version", !.copy = workloads[act[a].id]])
  /\ UNCHANGED <<workloads, intents, fresh, begun, reasoners>>

\* The proposal goes to the gateway if the safety review lets it.
Propose(a) ==
  LET proposal == Plan(act[a].id, act[a].copy, act[a].advice)
      forgotten == [act[a] EXCEPT !.copy = AtRest.copy, !.advice = NoAnswer]
  IN  Become(a, IF Passes(proposal)
                  THEN [forgotten EXCEPT !.pc = "evaluate", !.proposal = proposal]
                  ELSE [forgotten EXCEPT !.pc = "diagnose", !.id = FirstListed])

\* Mutant: a workload without an intent is planned for as it is.
ReadVersionNoIntent(a) ==
  /\ At(a, "version")
  /\ fresh' = [fresh EXCEPT ![a] = TRUE]
  /\ Propose(a)
  /\ UNCHANGED <<workloads, intents, begun, reasoners>>
ReadVersion(a) ==
  /\ At(a, "version")
  /\ fresh' = [fresh EXCEPT ![a] = TRUE]
  /\ IF intents[act[a].id] = 0 THEN Goto(a, "register") ELSE Propose(a)
  /\ UNCHANGED <<workloads, intents, begun, reasoners>>

\* create_default_intent, on what was read before.
Register(a) ==
  /\ At(a, "register")
  /\ intents' = [intents EXCEPT ![act[a].id] = @ + 1]
  /\ Propose(a)
  /\ UNCHANGED <<workloads, fresh, begun, reasoners>>

-----------------------------------------------------------------------------
(* A benchmark's own calls of the gateway.                                 *)

BenchReplica(to) == Proposal("CreateReplica", to, Effect(-80, -500, -20), 90, "Low", TRUE)

\* A safety trial's one call is about the first of the list: a replica proposed on the version
\* it counts up itself, one more than the cap, or a restart, which carries no version.
CallProposal(op) ==
  CASE op = "stale call" -> BenchReplica(workloads[FirstListed].region)
    [] op = "capped call" -> BenchReplica("IndiaSouth")
    [] op = "restart call" ->
         Proposal("RestartWorkload", workloads[FirstListed].region, Effect(0, 0, 0), 50,
                  "Critical", TRUE)

Call(a) ==
  /\ At(a, "begin") /\ Doing(a, Calls)
  /\ LET op == Head(act[a].script).op IN
       /\ Become(a, [act[a] EXCEPT !.pc = "evaluate", !.proposal = CallProposal(op)])
       /\ \/ op = "stale call" /\ NoneFresh
          \/ op = "capped call" /\ fresh' = [fresh EXCEPT ![a] = TRUE]
          \/ op = "restart call" /\ UNCHANGED fresh
  /\ UNCHANGED <<workloads, intents, begun, reasoners>>

\* A recovery's rounds, three at most.
Unhealthy == {id \in Ids : workloads[id].state # "Healthy"}

BeginRound(a) ==
  /\ At(a, "begin") /\ Doing(a, {"rounds"})
  /\ IF Unhealthy = {} \/ act[a].round = 3 THEN Finish(a)
     ELSE Become(a, [act[a] EXCEPT !.pc = "propose", !.list = Restrict(workloads, Unhealthy)])
  /\ UNCHANGED <<workloads, intents, fresh, begun, reasoners>>

ProposeInRound(a) ==
  /\ At(a, "propose")
  /\ \E id \in DOMAIN act[a].list :
       Become(a, [act[a] EXCEPT !.pc = "evaluate", !.list = Without(@, id), !.id = id,
                    !.proposal = BenchReplica(act[a].list[id].region)])
  /\ fresh' = [fresh EXCEPT ![a] = TRUE]
  /\ UNCHANGED <<workloads, intents, begun, reasoners>>

RoundDone(a) ==
  /\ At(a, "propose") /\ act[a].list = << >>
  /\ Become(a, [act[a] EXCEPT !.pc = "begin", !.round = @ + 1])
  /\ UNCHANGED <<workloads, intents, fresh, begun, reasoners>>

-----------------------------------------------------------------------------
(* execute_with_verdict, its policy in one step.                           *)

\* The call has returned, with whatever verdict, and its caller goes on.
Returned(a) ==
  IF Doing(a, Calls) THEN Finished(a) ELSE
    [act[a] EXCEPT !.pc = IF Doing(a, {"rounds"}) THEN "propose" ELSE "diagnose",
                   !.id = FirstListed, !.proposal = NoProposal, !.copy = AtRest.copy]

\* Mutant: whoever is refused gives up what is left to do.
EvaluatePolicyOrGiveUp(a) ==
  /\ At(a, "evaluate")
  /\ IF Evaluate(act[a].id, act[a].proposal, workloads[act[a].id], fresh[a],
                 intents[act[a].id]) = "Allowed"
       THEN Goto(a, "commit")
       ELSE Become(a, [Returned(a) EXCEPT !.found = << >>])
  /\ UNCHANGED <<workloads, intents, fresh, begun, reasoners>>
EvaluatePolicy(a) ==
  /\ At(a, "evaluate")
  /\ IF Evaluate(act[a].id, act[a].proposal, workloads[act[a].id], fresh[a],
                 intents[act[a].id]) = "Allowed"
       THEN Goto(a, "commit")
       ELSE Become(a, Returned(a))
  /\ UNCHANGED <<workloads, intents, fresh, begun, reasoners>>

\* The verifier's bounded drift, which never fails where equality holds, and the commit's
\* check; then the workload is read again and changed.
CommitCheck(a) ==
  /\ At(a, "commit")
  /\ Become(a, IF fresh[a]
                 THEN [act[a] EXCEPT !.pc = "insert",
                         !.copy = Apply(act[a].id, act[a].proposal, workloads[act[a].id])]
                 ELSE Returned(a))
  /\ UNCHANGED <<workloads, intents, fresh, begun, reasoners>>

CommitUpsert(a) ==
  /\ At(a, "insert")
  /\ Upsert(act[a].id, act[a].copy)
  /\ NoneFresh
  /\ Become(a, Returned(a))
  /\ UNCHANGED <<intents, begun, reasoners>>

-----------------------------------------------------------------------------
ReasonersFail ==
  /\ reasoners
  /\ reasoners' = FALSE
  /\ UNCHANGED <<workloads, intents, fresh, act, begun>>

GatewayStep(a) == EvaluatePolicy(a) \/ CommitCheck(a) \/ CommitUpsert(a)

CycleStep(a) ==
  Observe(a) \/ AwaitDiagnosis(a) \/ CycleDone(a) \/ ReadWorkload(a) \/ ReadVersion(a)
  \/ Register(a) \/ GatewayStep(a)

RequestStep(r) ==
  List(r) \/ Write(r) \/ WritingDone(r) \/ Increment(r) \/ Call(r)
  \/ BeginRound(r) \/ ProposeInRound(r) \/ RoundDone(r) \/ CycleStep(r)

Next ==
  \/ CycleStep(Runtime) \/ ReasonersFail
  \/ \E r \in Requests : Request(r) \/ RequestStep(r) \/ Disconnect(r)

Spec == Init /\ [][Next]_vars

\* The runtime sleeps and goes on for ever, and every request that is made goes on: what it
\* awaits answers or times out.
FairSpec ==
  /\ Spec
  /\ WF_vars(CycleStep(Runtime))
  /\ \A r \in Requests : WF_vars(RequestStep(r))

-----------------------------------------------------------------------------
Steps == {"idle", "begin", "write", "diagnose", "read", "version", "register",
          "propose", "evaluate", "commit", "insert"}

\* The shape of the state.
TypeOK ==
  /\ workloads \in [Ids -> Workload]
  /\ intents \in [Ids -> Nat]
  /\ fresh \in [Actors -> BOOLEAN]
  /\ \A a \in Actors :
       /\ act[a].pc \in Steps
       /\ act[a].script \in Seq(Operations)
       /\ act[a].round \in 0..3
       /\ DOMAIN act[a].list \subseteq Ids
       /\ DOMAIN act[a].found \subseteq Ids
       /\ \A id \in DOMAIN act[a].list : act[a].list[id] \in Workload
       /\ act[a].id \in Ids
       /\ act[a].copy \in Workload
  /\ begun \in 0..MaxRequests
  /\ reasoners \in BOOLEAN

\* Between the two bounds of its policy a workload has at any time any number of replicas,
\* and so has every copy that may still be written back, although a scenario, a controller and
\* the gateway each write what they made of a number they read earlier.
Within(id, w) == w.replicas \in Policy[id].min .. Policy[id].max
ReplicasWithinPolicy ==
  /\ \A id \in Ids : Within(id, workloads[id])
  /\ \A a \in Actors :
       /\ \A id \in DOMAIN act[a].list : Within(id, act[a].list[id])
       /\ At(a, "insert") => Within(act[a].id, act[a].copy)

\* No workload leaves the regions its intent allows, not even the one whose own fallback
\* region is abroad and which the planner would shift there when it is at its cap.
ResidencyKept == \A id \in Ids : workloads[id].region \in Allowed

\* The policy validates nothing of a workload without an intent; a cycle's proposal never meets
\* it like that, and two cycles that both find none leave no more of them than there are cycles.
AtGateway(a) == act[a].pc \in {"evaluate", "commit", "insert"}
PlannedUnderIntent ==
  /\ \A a \in Actors : AtGateway(a) /\ Doing(a, {"cycle"}) => intents[act[a].id] > 0
  /\ \A id \in Ids : intents[id] <= Cardinality(Actors)

\* Once the scenarios and benchmarks are over and neither reasoner answers, every workload
\* comes to be well and stays so: whatever the last of them left behind, and although another
\* workload may be refused every action, in every cycle.
Recoverable == {id \in Ids : Policy[id].fallback \in Allowed}
Well(id) == Conditions(workloads[id]) = {}
WorkloadsRecover ==
  \A id \in Recoverable : <>[]~reasoners => <>[]Well(id)
=============================================================================
