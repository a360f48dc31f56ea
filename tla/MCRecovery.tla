----------------------------- MODULE MCRecovery -----------------------------
EXTENDS Recovery

CONSTANTS w1, w2, r1, r2

\* One workload may go to the west when it is full; the other begins full, and may go only abroad.
MCPolicy ==
  [id \in Ids |-> IF id = w1 THEN [min |-> 2, max |-> 3, fallback |-> "IndiaWest"]
                  ELSE [min |-> 1, max |-> 2, fallback |-> "UsEast"]]
MCHomeOf == [id \in Ids |-> "IndiaSouth"]

MCAdvice ==
  {Diagnosis("CREATE_REPLICA", 90, TRUE), Diagnosis("CREATE_REPLICA", 72, TRUE),
   Diagnosis("SHIFT_ROUTE", 90, TRUE), Diagnosis("SHIFT_ROUTE", 90, FALSE),
   Diagnosis("anything else", 90, TRUE), Diagnosis("nothing", 90, TRUE)}

\* Scenarios of the demo with factors that are ordinary, negative, and so large that the queue
\* is at its limit; a payment; and trials of the benchmark.  A trial ends with a reset, so the
\* trials before it leave nothing behind, and the resets it begins with are left out: they would
\* find every workload as it is seeded.
MCDemo ==
  {<<Do("baseline")>>, <<By("demo burst", 30)>>, <<By("skew", 35)>>, <<By("skew", 200)>>,
   <<Do("limit")>>, <<Do("seed")>>, <<By("spike", 25)>>, <<By("spike", -5)>>,
   <<By("payment", 25)>>, <<Do("increment"), Do("increment"), Do("touch")>>}
MCTrials ==
  {PerformanceTrial("burst", "B0"), PerformanceTrial("skew", "B1"),
   PerformanceTrial("node", "B2"), PerformanceTrial("skew", "B2"), SafetyTrial.weak,
   SafetyTrial.stale, SafetyTrial.noAgent, SafetyTrial.invalid, SafetyTrial.capped}
ASSUME TrialsAreTheHarnesss == MCTrials \subseteq HarnessTrials(TRUE) \cup HarnessTrials(FALSE)

WithoutResets(trial) ==
  SubSeq(trial, CHOOSE i \in DOMAIN trial :
                  /\ trial[i].op # "reset"
                  /\ \A j \in 1 .. i - 1 : trial[j].op = "reset", Len(trial))
MCScripts == MCDemo \cup {WithoutResets(trial) : trial \in MCTrials}
=============================================================================
