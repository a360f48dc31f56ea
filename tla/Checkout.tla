------------------------------ MODULE Checkout ------------------------------
(***************************************************************************)
(* universal_checkout, toggle_gateway and list_gateways of                 *)
(* esa-api/src/main.rs, as concurrent requests on the gateway overrides,   *)
(* the rate limiter and the state of the workload that stands for the      *)
(* Razorpay corridor.  A checkout reads the overrides under a lock it      *)
(* keeps until it returns, past the application of its simulated event.    *)
(*                                                                         *)
(* The corridor changes at any time: payment events, recovery and          *)
(* scenarios write it (ControlPlane).  The environment does not change     *)
(* while the server runs, so its mode is worked out once, at the start.    *)
(***************************************************************************)
EXTENDS PaymentAmounts, CheckoutMode, Authentication

CONSTANTS
  Callers,      \* requests to check out; each may be made again
  Operators,    \* requests to toggle a gateway
  Gateways,     \* the gateways whose overrides are followed, "razorpay" among them
  RequestsOf,   \* what each caller may ask for
  HeadersOf,    \* the credentials each caller and operator may come with
  Boots,        \* the environments the server may start in
  Burst, Rate   \* of the checkout limiter: 60, and 30 a second

ASSUME RazorpayIsFollowed == "razorpay" \in Gateways
ASSUME LimiterIsPositive == Burst \in Nat \ {0} /\ Rate \in Nat \ {0}
ASSUME ActorsDiffer == Callers \cap Operators = {}
ASSUME BootsAreEnvironments == Boots \subseteq Environments
ASSUME HeadersHoldTokens ==
  \A a \in Callers \cup Operators : \A headers \in HeadersOf[a] :
    \A token \in {headers.bearer, headers.apiKey} :
      /\ token.form \in {"none", "key", "jwt"}
      /\ token.form = "jwt" => token.claims \in Claims

ASSUME RequestsHoldAmounts ==
  \A c \in Callers : \A request \in RequestsOf[c] :
    {request.minor, request.legacy, request.cents} \subseteq Nat \cup {NoAmount}

VARIABLES
  env,        \* the environment the server starts in, NoEnvironment from then on
  mode,       \* what detect_checkout_mode makes of it
  overrides,  \* gateway_overrides: "up", "down", or "none" when there is none
  degraded,   \* whether the corridor's workload is Degraded or Overloaded
  tokens,     \* what is left in the limiter's bucket
  pc,
  caller,     \* who each request turned out to be, while that matters
  trusted,    \* history: whether the credential each request came with holds
  order       \* the order of each checkout between its decision and its event

vars == <<env, mode, overrides, degraded, tokens, pc, caller, trusted, order>>

\* The credentials that may pay: a configured API key, or a token with good claims that is
\* signed with the key configured for its algorithm.
Holds(token) ==
  \/ token.form = "key" /\ \E slot \in DOMAIN Config.keys : Config.keys[slot] = token.key
  \/ /\ token.form = "jwt"
     /\ token.claims = "good"
     /\ <<token.alg, token.signer>> \in
          {<<"HS256", "secret">>, <<"RS256", "rsa">>, <<"RS256", "provider">>,
           <<"ES256", "ec">>, <<"ES256", "provider">>}

Unread == "unread"
NoEnvironment == [sim |-> "read", esa |-> "read", environment |-> "read", providers |-> {}]
Nobody == Denied("missing")
Actors == Callers \cup Operators
Routes == {"razorpay", "stripe", "phonepe", "cashfree", "paytm", "adyen"}

\* Between its read of the overrides and its return a checkout holds the read lock.
Reading == {"decided", "applied"}

\* The shape of the state.
TypeOK ==
  /\ mode = Unread <=> env \in Boots
  /\ mode \in Modes \cup {Unread}
  /\ overrides \in [Gateways -> {"up", "down", "none"}]
  /\ degraded \in BOOLEAN
  /\ tokens \in 0..Burst
  /\ pc \in [Actors -> {"idle", "authenticate", "authorize", "route", "toggle", "queued"}
                        \cup Reading]
  /\ trusted \in [Actors -> BOOLEAN]
  /\ \A a \in Actors : caller[a].scopes \subseteq AdminScopes

Outcome(error, gateway, method, amount) ==
  [error |-> error, gateway |-> gateway, method |-> method, amount |-> amount]
Refused(error) == Outcome(error, "none", NoMethod, 0)
NoOrder == [made |-> Refused("none")]

Init ==
  /\ env \in Boots
  /\ mode = Unread
  /\ overrides = [g \in Gateways |-> "none"]
  /\ degraded \in BOOLEAN
  /\ tokens = Burst
  /\ pc = [a \in Actors |-> "idle"]
  /\ caller = [a \in Actors |-> Nobody]
  /\ trusted = [a \in Actors |-> FALSE]
  /\ order = [c \in Callers |-> NoOrder]

\* The server starts; every request from then on finds the same mode.
Start ==
  /\ mode = Unread
  /\ env' = NoEnvironment
  /\ mode' = DetectCheckoutMode(env)
  /\ UNCHANGED <<overrides, degraded, tokens, pc, caller, trusted, order>>

Goto(a, there) == pc' = [pc EXCEPT ![a] = there]

\* The response is sent; what the request knew is gone.
Respond(a) ==
  /\ Goto(a, "idle")
  /\ caller' = [caller EXCEPT ![a] = Nobody]
  /\ trusted' = [trusted EXCEPT ![a] = FALSE]

-----------------------------------------------------------------------------
\* Whether a gateway counts as up: its override, or else, for Razorpay, its corridor.
IsHealthy(gateway) ==
  CASE overrides[gateway] = "up" -> TRUE
    [] overrides[gateway] = "down" -> FALSE
    [] OTHER -> gateway = "razorpay" => ~degraded

Route(gateway, failover) == [gateway |-> gateway, failover |-> failover]

\* Of the gateways only Razorpay is asked for its health, and PhonePe stands in for it.
Routing(requested, currency) ==
  IF requested = "auto" /\ currency \in {"USD", "EUR"} THEN Route("stripe", FALSE)
  ELSE IF requested \notin {"auto", "razorpay"} THEN Route(requested, FALSE)
  ELSE IF IsHealthy("razorpay") THEN Route("razorpay", FALSE)
  ELSE Route("phonepe", TRUE)

\* The method of the request, or the provider's documented default, or "" for an error.
MethodFor(request, gateway) ==
  CASE request.method = "all" -> NoMethod
    [] request.method \notin {"all", NoMethod} -> request.method
    [] request.method = NoMethod /\ request.currency # "INR" /\ gateway = "stripe" -> "card"
    [] request.method = NoMethod /\ request.currency = "INR"
         /\ gateway \in {"razorpay", "phonepe", "cashfree"} -> "upi"
    [] OTHER -> NoMethod

ModeError ==
  [Live |-> "live", Misconfigured |-> "misconfigured", Unconfigured |-> "unconfigured",
   Simulated |-> "none"]

\* What the rest of the handler decides, from the currency to the payment mode, in its order.
Decision(request) ==
  LET route == Routing(request.gateway, request.currency)
      method == MethodFor(request, route.gateway)
      resolved == ResolveWithProvider(request.minor, request.legacy, request.cents,
                                      request.currency, route.gateway, method)
  IN  IF ~Supported(request.currency) THEN Refused("currency")
      ELSE IF request.gateway \notin Routes \cup {"auto"} THEN Refused("gateway")
      ELSE IF method = NoMethod THEN Refused("method")
      ELSE IF resolved.error # "none" THEN Refused(resolved.error)
      ELSE IF ModeError[mode] # "none" THEN Refused(ModeError[mode])
      ELSE Outcome("none", route.gateway, method, resolved.amount)

\* The region whose workload the simulated event is about.
RegionOf(gateway) ==
  CASE gateway \in {"razorpay", "phonepe", "cashfree"} -> "IndiaSouth"
    [] gateway = "paytm" -> "IndiaNorth"
    [] OTHER -> "IndiaWest"

-----------------------------------------------------------------------------
\* The bucket is asked first, before anyone knows who the caller is.
CheckLimit(c) ==
  /\ pc[c] = "idle"
  /\ mode # Unread
  /\ tokens > 0
  /\ tokens' = tokens - 1
  /\ Goto(c, "authenticate")
  /\ UNCHANGED <<env, mode, overrides, degraded, caller, trusted, order>>

\* A request to toggle has no limiter.
AskToToggle(o) ==
  /\ pc[o] = "idle"
  /\ mode # Unread
  /\ Goto(o, "authenticate")
  /\ UNCHANGED <<env, mode, overrides, degraded, tokens, caller, trusted, order>>

\* authenticate_caller awaits the identity provider's key when it needs one.
Authenticate(a) ==
  /\ pc[a] = "authenticate"
  /\ \E headers \in HeadersOf[a], jwks \in {"found", "unavailable"} :
       /\ caller' = [caller EXCEPT ![a] = AuthenticateCaller(headers, jwks)]
       /\ trusted' = [trusted EXCEPT ![a] = Holds(ExtractToken(headers))]
  /\ Goto(a, "authorize")
  /\ UNCHANGED <<env, mode, overrides, degraded, tokens, order>>

\* The client goes away while its request awaits the key.
Disconnect(a) ==
  /\ pc[a] = "authenticate"
  /\ Respond(a)
  /\ UNCHANGED <<env, mode, overrides, degraded, tokens, order>>

MayGoOn(a) == HasScope(caller[a], IF a \in Callers THEN "payments:write" ELSE "gateways:toggle")

\* 401 and 403 end the request; the scopes are not asked for again.
Authorize(a) ==
  /\ pc[a] = "authorize"
  /\ \/ /\ MayGoOn(a)
        /\ Goto(a, IF a \in Callers THEN "route" ELSE "toggle")
        /\ caller' = [caller EXCEPT ![a] = Nobody]
        /\ UNCHANGED trusted
     \/ ~MayGoOn(a) /\ Respond(a)
  /\ UNCHANGED <<env, mode, overrides, degraded, tokens, order>>

Toggled(g) == IF overrides[g] = "down" THEN "up" ELSE "down"

\* The write lock is free while no checkout holds the read lock.
LockFree == \A c \in Callers : pc[c] \notin Reading

\* A writer that finds readers queues, and no reader takes the lock before it.
Queue(o) ==
  /\ pc[o] = "toggle"
  /\ ~LockFree
  /\ Goto(o, "queued")
  /\ UNCHANGED <<env, mode, overrides, degraded, tokens, caller, trusted, order>>

\* Mutant: the checkouts read the overrides and let go of the lock.
ToggleAnyTime(o) ==
  /\ pc[o] \in {"toggle", "queued"}
  /\ \E g \in Gateways : overrides' = [overrides EXCEPT ![g] = Toggled(g)]
  /\ Respond(o)
  /\ UNCHANGED <<env, mode, degraded, tokens, order>>
\* Mutant: a checkout holds the lock from its arrival on.
ToggleWhenIdle(o) ==
  /\ pc[o] \in {"toggle", "queued"}
  /\ \A c \in Callers : pc[c] = "idle"
  /\ \E g \in Gateways : overrides' = [overrides EXCEPT ![g] = Toggled(g)]
  /\ Respond(o)
  /\ UNCHANGED <<env, mode, degraded, tokens, order>>
\* What is toggled is the override alone: without one a gateway counts as up, even when its
\* corridor is degraded.
Toggle(o) ==
  /\ pc[o] \in {"toggle", "queued"}
  /\ LockFree
  /\ \E g \in Gateways : overrides' = [overrides EXCEPT ![g] = Toggled(g)]
  /\ Respond(o)
  /\ UNCHANGED <<env, mode, degraded, tokens, order>>

\* The read lock is taken, and the corridor read, before the decision; an error drops it.
Decide(c) ==
  /\ pc[c] = "route"
  /\ \A o \in Operators : pc[o] # "queued"
  /\ \E request \in RequestsOf[c] :
       LET made == Decision(request) IN
       \/ /\ made.error = "none"
          /\ order' = [order EXCEPT ![c] = [asked |-> request, made |-> made]]
          /\ Goto(c, "decided")
          /\ UNCHANGED <<caller, trusted>>
       \/ /\ made.error # "none"
          /\ Respond(c)
          /\ UNCHANGED order
  /\ UNCHANGED <<env, mode, overrides, degraded, tokens>>

\* apply_payment_event moves the load of a workload of the region; Razorpay's corridor is the
\* one of India South, and its state may come out either way.
ApplyEvent(c) ==
  /\ pc[c] = "decided"
  /\ IF RegionOf(order[c].made.gateway) = "IndiaSouth" THEN degraded' \in BOOLEAN
     ELSE UNCHANGED degraded
  /\ Goto(c, "applied")
  /\ UNCHANGED <<env, mode, overrides, tokens, caller, trusted, order>>

\* The telemetry is published (Telemetry) and the order returned: the lock goes.
Confirm(c) ==
  /\ pc[c] = "applied"
  /\ order' = [order EXCEPT ![c] = NoOrder]
  /\ Respond(c)
  /\ UNCHANGED <<env, mode, overrides, degraded, tokens>>

\* Another writer of the fabric.
CorridorChanges ==
  /\ degraded' = ~degraded
  /\ UNCHANGED <<env, mode, overrides, tokens, pc, caller, trusted, order>>

Smaller(a, b) == IF a < b THEN a ELSE b

\* A unit of time refills the bucket.
Refill ==
  /\ tokens < Burst
  /\ tokens' = Smaller(Burst, tokens + Rate)
  /\ UNCHANGED <<env, mode, overrides, degraded, pc, caller, trusted, order>>

CheckoutStep(c) == Decide(c) \/ ApplyEvent(c) \/ Confirm(c)

Next ==
  \/ Start \/ CorridorChanges \/ Refill
  \/ \E a \in Actors : Authenticate(a) \/ Disconnect(a) \/ Authorize(a)
  \/ \E c \in Callers : CheckLimit(c) \/ CheckoutStep(c)
  \/ \E o \in Operators : AskToToggle(o) \/ Queue(o) \/ Toggle(o)

Spec == Init /\ [][Next]_vars

\* A handler that can go on does; a reader that the lock keeps turning away gets in, since
\* operators leave it time between two toggles.
FairSpec ==
  /\ Spec
  /\ WF_vars(Start)
  /\ \A a \in Actors : WF_vars(Authenticate(a)) /\ WF_vars(Authorize(a))
  /\ \A c \in Callers : SF_vars(CheckoutStep(c))
  /\ \A o \in Operators : WF_vars(Queue(o) \/ Toggle(o))

-----------------------------------------------------------------------------
Ordered(c) == pc[c] \in Reading

\* An order that is being placed still goes to a gateway the overrides allow: no toggle takes
\* effect between the decision and the order's event, so an operator who has been told that
\* Razorpay is down sees no later event of it.
OrdersFollowOverrides ==
  \A c \in Callers : Ordered(c) =>
    /\ order[c].made.gateway = "razorpay" => overrides["razorpay"] # "down"
    /\ (order[c].made.gateway = "phonepe" /\ order[c].asked.gateway # "phonepe")
         => overrides["razorpay"] # "up"

\* The money of an order: the amount of every field the request filled, no less than what the
\* gateway it was routed to documents for its currency and a method it takes.
Given(request) == {request.minor, request.legacy, request.cents} \ {NoAmount}
OrdersAreSound ==
  \A c \in Callers : Ordered(c) =>
    LET asked == order[c].asked
        made == order[c].made
    IN  /\ Given(asked) = {made.amount}
        /\ Canonical[made.method] \in Methods(made.gateway)
        /\ \E p \in Policies :
             /\ p.provider = made.gateway /\ p.currency = asked.currency
             /\ p.method \in {"all", Canonical[made.method]}
             /\ p.minimum <= made.amount

\* Nobody places an order, and no event moves the corridor for one, unless the credential it
\* came with holds and the server may pretend to take money.
OrdersAreAllowed ==
  \A c \in Callers : Ordered(c) => trusted[c] /\ mode = "Simulated"

\* The server pretends to take money only where it is told to, nothing is live and nothing is
\* malformed or contradictory.
SimulationIsExplicit ==
  [][mode' = "Simulated" /\ mode # "Simulated" =>
       /\ env.sim = "on" \/ "sandbox" \in {env.esa, env.environment}
       /\ "live" \notin {env.esa, env.environment} \cup env.providers
       /\ {"invalid", "unreadable"}
            \cap ({env.sim, env.esa, env.environment} \cup env.providers) = {}
       /\ env.sim # "off"]_vars

\* A request that was let in is answered, and an operator's toggle is not kept waiting for
\* ever by checkouts that come one after the other.
RequestsAnswered ==
  \A a \in Actors : pc[a] = "authenticate" ~> pc[a] = "idle"
=============================================================================
