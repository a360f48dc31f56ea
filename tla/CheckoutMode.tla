---------------------------- MODULE CheckoutMode ----------------------------
(***************************************************************************)
(* How the API server decides whether it may pretend to take money,        *)
(* detect_checkout_mode in esa-api/src/main.rs.  It reads nine environment *)
(* variables; each counts by the class its value falls into.               *)
(***************************************************************************)

SimValues == {"absent", "unreadable", "invalid", "on", "off"}
ModeValues == {"absent", "unreadable", "invalid", "live", "sandbox"}
EnvironmentValues == ModeValues \cup {"dev"}
ProviderValues == {"unreadable", "invalid", "live", "test"}

\* The environment: ESA_ENABLE_SIMULATED_CHECKOUT, ESA_PAYMENT_MODE, ENVIRONMENT, and the
\* classes that occur among the six <PROVIDER>_MODE variables that are set.
Environments ==
  [sim : SimValues, esa : ModeValues, environment : EnvironmentValues,
   providers : SUBSET ProviderValues]

Malformed(env) ==
  LET bad == {"unreadable", "invalid"}
  IN  \/ env.sim \in bad \/ env.esa \in bad \/ env.environment \in bad
      \/ env.providers \cap bad # {}

LiveAnywhere(env) ==
  env.environment = "live" \/ env.esa = "live" \/ "live" \in env.providers

AsksForSandbox(env) == env.esa = "sandbox" \/ env.environment = "sandbox"

\* Mutant: the opt-in to simulation is looked at before the live settings.
DetectCheckoutModeOptInFirst(env) ==
  CASE Malformed(env) -> "Misconfigured"
    [] ~Malformed(env) /\ env.sim = "on" -> "Simulated"
    [] ~Malformed(env) /\ env.sim # "on" /\ LiveAnywhere(env) -> "Live"
    [] OTHER -> "Unconfigured"

\* Live settings win over every opt-in, and a malformed one over both.
DetectCheckoutMode(env) ==
  IF Malformed(env) THEN "Misconfigured"
  ELSE IF LiveAnywhere(env) THEN "Live"
  ELSE IF env.sim = "off" /\ AsksForSandbox(env) THEN "Misconfigured"
  ELSE IF env.sim = "on" \/ AsksForSandbox(env) THEN "Simulated"
  ELSE "Unconfigured"

Modes == {"Live", "Misconfigured", "Unconfigured", "Simulated"}

IsProductionMode(mode) == mode \in {"Live", "Misconfigured"}

\* Spikes, resets, seeds, benchmarks and failovers on demand.
IsDemoMutationAllowed(mode) == ~IsProductionMode(mode) /\ mode = "Simulated"
=============================================================================
