--------------------------- MODULE RecoveryAgents ---------------------------
(***************************************************************************)
(* What the agents of esa-agents and the policy engine make of what they   *)
(* are given: the monitor's conditions, the diagnosis of its three tiers,  *)
(* the planner's proposal, the safety review, and the verdict on intents   *)
(* and rules.  All of it is a function of values read before; who reads    *)
(* them, and when, is in Recovery.  Confidences are in percent.            *)
(***************************************************************************)
EXTENDS Workloads, Sequences

\* MonitorAgent::observe, for one workload.
Conditions(w) ==
  {c \in {"latency", "queue", "errors", "degraded"} :
     \/ c = "latency" /\ w.metrics.p95 > 250
     \/ c = "queue" /\ w.metrics.queue > 1000
     \/ c = "errors" /\ w.metrics.err > 50
     \/ c = "degraded" /\ w.state \in {"Degraded", "Overloaded"}}

\* A diagnosis: what it recommends, how sure it is, whether it names any evidence.
Recommendations == {"CREATE_REPLICA", "SHIFT_ROUTE", "anything else", "nothing"}
Diagnosis(action, confidence, evidence) ==
  [action |-> action, confidence |-> confidence, evidence |-> evidence]

\* No answer in time, none at all, or none that parses.
NoAnswer == Diagnosis("unavailable", 0, FALSE)

RuleBased(conditions) ==
  IF {"latency", "queue"} \subseteq conditions THEN Diagnosis("CREATE_REPLICA", 85, TRUE)
  ELSE IF "latency" \in conditions THEN Diagnosis("CREATE_REPLICA", 75, TRUE)
  ELSE IF conditions # {} THEN Diagnosis("CREATE_REPLICA", 80, TRUE)
  ELSE Diagnosis("nothing", 60, FALSE)

\* The fluid reasoner is believed from 0.7 on, the language model always; rules come last.
Diagnose(fluid, model, conditions) ==
  IF fluid # NoAnswer /\ fluid.confidence >= 70 THEN fluid
  ELSE IF model # NoAnswer THEN model
  ELSE RuleBased(conditions)

-----------------------------------------------------------------------------
\* create_default_intent is the only intent a workload ever has: India, rollback required, and
\* approval for what is risky.
AllowedRegions == <<"IndiaSouth", "IndiaWest", "IndiaNorth">>

FirstOther(region) == IF AllowedRegions[1] # region THEN AllowedRegions[1] ELSE AllowedRegions[2]

Effect(latency, queue, err) == [latency |-> latency, queue |-> queue, err |-> err]

\* What is proposed; "to" is the region it names.
Proposal(kind, to, effect, confidence, risk, evidence) ==
  [kind |-> kind, to |-> to, effect |-> effect, confidence |-> confidence, risk |-> risk,
   rollback |-> TRUE, evidence |-> evidence]
NoProposal == Proposal("none", "IndiaSouth", Effect(0, 0, 0), 0, "Low", FALSE)

\* PlanningAgent::plan on the workload it has read, under an intent.  A workload at its cap is
\* shifted to its own fallback region, which no intent is asked about here.
Plan(id, w, diagnosis) ==
  CASE diagnosis.action = "CREATE_REPLICA" /\ w.replicas >= Policy[id].max ->
         Proposal("ShiftRoute", Policy[id].fallback, Effect(-60, -400, -20),
                  diagnosis.confidence, "Medium", diagnosis.evidence)
    [] diagnosis.action = "CREATE_REPLICA" /\ w.replicas < Policy[id].max ->
         Proposal("CreateReplica", AllowedRegions[1], Effect(-80, -500, -20),
                  diagnosis.confidence, "Low", diagnosis.evidence)
    [] diagnosis.action = "SHIFT_ROUTE" ->
         Proposal("ShiftRoute", FirstOther(w.region), Effect(-40, -200, -10),
                  diagnosis.confidence, "Medium", diagnosis.evidence)
    [] OTHER -> NoProposal

\* SafetyAgent::review: the action can be undone and evidence is given for it.
Passes(proposal) == proposal.rollback /\ proposal.evidence

-----------------------------------------------------------------------------
\* Mutant: the allowed regions are not looked at.
ViolationsNoRegion(proposal, intents) ==
  IF intents = 0 THEN {} ELSE
    {severity \in {"warning", "violation"} :
       \/ severity = "warning" /\ proposal.risk \in {"High", "Critical"}
       \/ severity = "violation" /\ ~proposal.rollback}
\* ConstraintValidator::validate_action: nothing is validated without an active intent.
Violations(proposal, intents) ==
  IF intents = 0 THEN {} ELSE
    {severity \in {"warning", "violation"} :
       \/ severity = "warning" /\ proposal.risk \in {"High", "Critical"}
       \/ severity = "violation" /\ (proposal.to \notin Allowed \/ ~proposal.rollback)}

\* PolicyEngine::evaluate: the intents, then RULE_001 to RULE_004 in order; the first denial
\* or stale version ends it, a need for approval is remembered.  A restart carries no version.
Evaluate(id, proposal, w, fresh, intents) ==
  IF proposal.kind = "CreateReplica" /\ w.replicas >= Policy[id].max THEN "Denied"
  ELSE IF proposal.kind # "RestartWorkload" /\ ~fresh THEN "StaleState"
  ELSE IF \/ "violation" \in Violations(proposal, intents)
          \/ proposal.risk \in {"High", "Critical"}
          \/ proposal.confidence < 75
         THEN "RequiresApproval"
  ELSE "Allowed"

Apply(id, proposal, w) ==
  IF proposal.kind = "CreateReplica"
    THEN ApplyCreateReplica(w, Policy[id].max, proposal.effect)
    ELSE ApplyShiftRoute(w, proposal.to, proposal.effect)
=============================================================================
