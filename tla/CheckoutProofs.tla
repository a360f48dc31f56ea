--------------------------- MODULE CheckoutProofs ---------------------------
(***************************************************************************)
(* Proofs that a checkout's order respects the overrides as long as it is  *)
(* being placed, that its money is what was asked for and what its gateway *)
(* takes, that only a caller with a credential that holds places one, and  *)
(* only where money is pretended, and that pretending is asked for; for    *)
(* any callers, operators, requests, credentials and environment.  At the  *)
(* end, the dashboard that the same server feeds: who listens to it, and   *)
(* the bounds of what it keeps.                                            *)
(***************************************************************************)
EXTENDS Checkout, Telemetry, TLAPS

-----------------------------------------------------------------------------
(* The pure parts: what a decision, a credential and an environment imply. *)

\* A decision that is no refusal is about the gateway Routing says, a method and an amount that
\* could be found, and is made in the simulated mode.
LEMMA DecisionsAreOutcomes ==
  ASSUME NEW request, Decision(request).error = "none", mode \in Modes
  PROVE  LET gateway == Routing(request.gateway, request.currency).gateway
             method == MethodFor(request, gateway)
             resolved == ResolveWithProvider(request.minor, request.legacy, request.cents,
                                             request.currency, gateway, method)
         IN  /\ method # NoMethod
             /\ resolved.error = "none"
             /\ mode = "Simulated"
             /\ Decision(request) = Outcome("none", gateway, method, resolved.amount)
<1> DEFINE gateway == Routing(request.gateway, request.currency).gateway
           method == MethodFor(request, gateway)
           resolved == ResolveWithProvider(request.minor, request.legacy, request.cents,
                                           request.currency, gateway, method)
<1>1. \A error : Refused(error).error = error BY DEF Refused, Outcome
<1>2. Decision(request) =
        IF ~Supported(request.currency) THEN Refused("currency")
        ELSE IF request.gateway \notin Routes \cup {"auto"} THEN Refused("gateway")
        ELSE IF method = NoMethod THEN Refused("method")
        ELSE IF resolved.error # "none" THEN Refused(resolved.error)
        ELSE IF ModeError[mode] # "none" THEN Refused(ModeError[mode])
        ELSE Outcome("none", gateway, method, resolved.amount)
  BY DEF Decision
<1>3. /\ method # NoMethod
      /\ resolved.error = "none"
      /\ ModeError[mode] = "none"
      /\ Decision(request) = Outcome("none", gateway, method, resolved.amount)
  <2> HIDE DEF method, resolved, gateway
  <2> QED BY <1>1, <1>2
<1>4. mode = "Simulated" BY <1>3 DEF ModeError, Modes
<1> QED BY <1>3, <1>4

\* Routing names Razorpay only if the overrides allow it, and PhonePe in its place only if they
\* do not insist on Razorpay.
LEMMA RoutingFollowsOverrides ==
  ASSUME NEW requested, NEW currency
  PROVE  LET gateway == Routing(requested, currency).gateway IN
           /\ gateway = "razorpay" => overrides["razorpay"] # "down"
           /\ gateway = "phonepe" /\ requested # "phonepe" => overrides["razorpay"] # "up"
BY DEF Routing, Route, IsHealthy

\* A credential that is taken holds.
LEMMA TakenCredentialsHold ==
  ASSUME NEW a \in Actors, NEW headers \in HeadersOf[a], NEW jwks \in {"found", "unavailable"},
         AuthenticateCaller(headers, jwks).error = "none"
  PROVE  Holds(ExtractToken(headers))
<1> DEFINE token == ExtractToken(headers)
<1>1. /\ token.form \in {"none", "key", "jwt"}
      /\ token.form = "jwt" => token.claims \in Claims
  BY HeadersHoldTokens DEF ExtractToken, Actors
<1>2. \A error : Denied(error).error = error BY DEF Denied
<1>3. CASE token.form = "none"
  <2>1. AuthenticateCaller(headers, jwks) = Denied("missing") BY <1>3 DEF AuthenticateCaller
  <2> QED BY <1>2, <2>1
<1>4. CASE token.form = "key"
  <2>1. Matching(token.key) # {}
    <3>1. AuthenticateCaller(headers, jwks)
            = IF Matching(token.key) # {} THEN Granted(KeyScopes(token.key)) ELSE Denied("key")
      BY <1>4 DEF AuthenticateCaller
    <3> QED BY <1>2, <3>1
  <2>2. PICK i \in 1..3 : Config.keys[KeySlots[i]] = token.key BY <2>1 DEF Matching
  <2>3. KeySlots[i] \in DOMAIN Config.keys BY <2>2, ConfigIsEnvironment DEF KeySlots
  <2> QED BY <1>4, <2>2, <2>3 DEF Holds
<1>5. CASE token.form = "jwt"
  <2>1. VerifyJwt(token, jwks) = "none"
    <3>1. AuthenticateCaller(headers, jwks)
            = IF VerifyJwt(token, jwks) = "none" THEN Granted(JwtScopes(token.role))
              ELSE Denied(VerifyJwt(token, jwks))
      BY <1>5 DEF AuthenticateCaller
    <3> QED BY <1>2, <3>1
  <2> DEFINE found == DecodingKey(token.alg, jwks)
  <2>2. found.error = "none" /\ token.signer = found.key /\ token.claims = "good"
    <3> HIDE DEF found, token
    <3>1. VerifyJwt(token, jwks) =
            IF ~Config.issuer THEN "issuer"
            ELSE IF found.error # "none" THEN found.error
            ELSE IF token.signer # found.key THEN "signature"
            ELSE IF token.claims # "good" THEN token.claims
            ELSE "none"
      BY DEF VerifyJwt, found
    <3> QED BY <1>1, <1>5, <2>1, <3>1 DEF Claims
  <2>3. <<token.alg, token.signer>> \in
          {<<"HS256", "secret">>, <<"RS256", "rsa">>, <<"RS256", "provider">>,
           <<"ES256", "ec">>, <<"ES256", "provider">>}
    <3> HIDE DEF token
    <3>1. CASE token.alg = "HS256"
      BY <2>2, <3>1, ConfigIsEnvironment DEF DecodingKey, NoKey, FoundKey
    <3>2. CASE token.alg = "RS256"
      BY <2>2, <3>2, ConfigIsEnvironment DEF DecodingKey, PublicKey, NoKey, FoundKey
    <3>3. CASE token.alg = "ES256"
      BY <2>2, <3>3, ConfigIsEnvironment DEF DecodingKey, PublicKey, NoKey, FoundKey
    <3>4. CASE token.alg \notin {"HS256", "RS256", "ES256"}
      BY <2>2, <3>4 DEF DecodingKey, NoKey, FoundKey
    <3> QED BY <3>1, <3>2, <3>3, <3>4
  <2> QED BY <1>5, <2>2, <2>3 DEF Holds
<1> QED BY <1>1, <1>3, <1>4, <1>5

-----------------------------------------------------------------------------
(* The money of a decision.                                                *)

\* What a request's three fields resolve to is what every filled one says.
LEMMA ResolvedIsGiven ==
  ASSUME NEW request, Resolved(request.minor, request.legacy, request.cents).error = "none",
         NEW n, n = Resolved(request.minor, request.legacy, request.cents).amount
  PROVE  Given(request) = {n} /\ n # NoAmount
<1> DEFINE legacy == Or(request.legacy, request.cents)
           all == Or(request.minor, legacy)
<1>1. \A error : Rejected(error).error = error BY DEF Rejected
<1>2. /\ ~Conflict(request.legacy, request.cents) /\ ~Conflict(request.minor, legacy)
      /\ all # NoAmount
      /\ Resolved(request.minor, request.legacy, request.cents) = Accepted(all)
  <2> HIDE DEF all, legacy
  <2>1. Resolved(request.minor, request.legacy, request.cents) =
          IF Conflict(request.legacy, request.cents) \/ Conflict(request.minor, legacy)
            THEN Rejected("conflict")
          ELSE IF all = NoAmount THEN Rejected("missing") ELSE Accepted(all)
    BY DEF Resolved, all, legacy
  <2> QED BY <1>1, <2>1
<1>3. n = all BY <1>2 DEF Accepted
<1>4. \A amount \in {request.minor, request.legacy, request.cents} :
        amount # NoAmount => amount = all
  BY <1>2 DEF Conflict, Or
<1>5. all \in {request.minor, request.legacy, request.cents} BY DEF Or
<1> QED
  <2> HIDE DEF all
  <2> QED BY <1>2, <1>3, <1>4, <1>5 DEF Given

\* A documented minimum is that of a policy about the provider, the currency and the method.
LEMMA MinimumIsDocumented ==
  ASSUME NEW currency, NEW provider, NEW method, method # NoMethod,
         MinimumFor(currency, provider, method).error = "none"
  PROVE  /\ Canonical[method] \in Methods(provider)
         /\ \E p \in Policies :
              /\ p.provider = provider /\ p.currency = currency
              /\ p.method \in {"all", Canonical[method]}
              /\ p.minimum = MinimumFor(currency, provider, method).amount
<1> DEFINE matching == Applicable(currency, provider, method)
           least == CHOOSE p \in matching : TRUE
           named == method \in DOMAIN Canonical /\ Canonical[method] \in Methods(provider)
<1>1. /\ named /\ matching # {}
      /\ MinimumFor(currency, provider, method) = [error |-> "none", amount |-> least.minimum]
  <2>1. MinimumFor(currency, provider, method) =
          IF (method # NoMethod /\ ~named) \/ matching = {} THEN Unsupported
          ELSE [error |-> "none", amount |-> least.minimum]
    BY DEF MinimumFor
  <2>2. Unsupported.error # "none" BY DEF Unsupported
  <2> HIDE DEF named, matching, least
  <2> QED BY <2>1, <2>2
<1>2. least \in matching BY <1>1
<1>3. /\ least \in Policies /\ least.provider = provider /\ least.currency = currency
      /\ least.method = "all" \/ least.method = Canonical[method]
  <2> HIDE DEF least
  <2> QED BY <1>2 DEF Applicable
<1>4. MinimumFor(currency, provider, method).amount = least.minimum
  <2> HIDE DEF least, named, matching
  <2> QED BY <1>1
<1> HIDE DEF least, matching
<1> QED BY <1>1, <1>3, <1>4

LEMMA MinimumsAreNumbers == \A p \in Policies : p.minimum \in Int
<1>1. \A c \in DOMAIN StripeMinimum : StripeMinimum[c] \in Int BY DEF StripeMinimum
<1> QED BY <1>1 DEF Policies, Policy

\* What a decision that is no refusal says of the money.
Sound(asked, made) ==
  /\ Given(asked) = {made.amount}
  /\ Canonical[made.method] \in Methods(made.gateway)
  /\ \E p \in Policies :
       /\ p.provider = made.gateway /\ p.currency = asked.currency
       /\ p.method \in {"all", Canonical[made.method]}
       /\ p.minimum <= made.amount

LEMMA DecisionsAreSound ==
  ASSUME NEW c \in Callers, NEW request \in RequestsOf[c], Decision(request).error = "none",
         mode \in Modes
  PROVE  Sound(request, Decision(request))
<1> DEFINE gateway == Routing(request.gateway, request.currency).gateway
           method == MethodFor(request, gateway)
           found == Resolved(request.minor, request.legacy, request.cents)
           n == found.amount
           least == MinimumFor(request.currency, gateway, method)
           resolved == ResolveWithProvider(request.minor, request.legacy, request.cents,
                                           request.currency, gateway, method)
           made == Decision(request)
<1>1. /\ method # NoMethod /\ resolved.error = "none"
      /\ made = Outcome("none", gateway, method, resolved.amount)
  BY DecisionsAreOutcomes
<1>2. made.gateway = gateway /\ made.method = method /\ made.amount = resolved.amount
  <2> HIDE DEF made, gateway, method, resolved
  <2> QED BY <1>1 DEF Outcome
<1>3. /\ found.error = "none" /\ least.error = "none" /\ ~(n < least.amount)
      /\ resolved = Accepted(n)
  <2> HIDE DEF resolved, found, least, n, gateway, method, made
  <2>1. resolved = IF found.error # "none" THEN found
                   ELSE NewWithPolicy(n, request.currency, gateway, method)
    BY DEF ResolveWithProvider, resolved, found, n
  <2>2. NewWithPolicy(n, request.currency, gateway, method) =
          IF ~Supported(request.currency) THEN Rejected("currency")
          ELSE IF least.error # "none" THEN least
          ELSE IF n < least.amount THEN Rejected("below minimum")
          ELSE Accepted(n)
    BY DEF NewWithPolicy, least
  <2>4. found.error = "none" BY <1>1, <2>1
  <2>5. resolved = NewWithPolicy(n, request.currency, gateway, method) BY <2>1, <2>4
  <2>6. resolved.error = "none" BY <1>1
  <2>7. Supported(request.currency)
    <3>1. SUFFICES ASSUME ~Supported(request.currency) PROVE FALSE OBVIOUS
    <3>2. resolved = Rejected("currency") BY <2>2, <2>5, <3>1
    <3> QED BY <2>6, <3>2 DEF Rejected
  <2>8. least.error = "none" BY <2>2, <2>5, <2>6, <2>7
  <2>9. ~(n < least.amount)
    <3>1. SUFFICES ASSUME n < least.amount PROVE FALSE OBVIOUS
    <3>2. resolved = Rejected("below minimum") BY <2>2, <2>5, <2>7, <2>8, <3>1
    <3> QED BY <2>6, <3>2 DEF Rejected
  <2>10. resolved = Accepted(n) BY <2>2, <2>5, <2>7, <2>8, <2>9
  <2> QED BY <2>4, <2>8, <2>9, <2>10
<1>4. Given(request) = {n} /\ n # NoAmount
  <2> HIDE DEF n
  <2>1. n = Resolved(request.minor, request.legacy, request.cents).amount BY DEF n
  <2> QED BY <1>3, <2>1, ResolvedIsGiven
<1>5. made.amount = n
  <2> HIDE DEF resolved, n, made
  <2> QED BY <1>2, <1>3 DEF Accepted
<1>6. n \in Int
  <2> HIDE DEF n
  <2>1. n \in {request.minor, request.legacy, request.cents} BY <1>4 DEF Given
  <2> QED BY <2>1, <1>4, RequestsHoldAmounts
<1>7. /\ Canonical[method] \in Methods(gateway)
      /\ \E p \in Policies :
           /\ p.provider = gateway /\ p.currency = request.currency
           /\ p.method \in {"all", Canonical[method]}
           /\ p.minimum = least.amount
  <2> HIDE DEF method, gateway
  <2> QED BY <1>1, <1>3, MinimumIsDocumented
<1> HIDE DEF made, n, least, gateway, method
<1>8. PICK p \in Policies :
        /\ p.provider = gateway /\ p.currency = request.currency
        /\ p.method \in {"all", Canonical[method]}
        /\ p.minimum = least.amount
  BY <1>7
<1>9. p.minimum <= n BY <1>3, <1>6, <1>8, MinimumsAreNumbers
<1>10. Sound(request, made) BY <1>2, <1>4, <1>5, <1>7, <1>8, <1>9 DEF Sound
<1> QED BY <1>10 DEF made

LEMMA ModesAreModes == ASSUME NEW e PROVE DetectCheckoutMode(e) \in Modes
BY DEF DetectCheckoutMode, Modes

-----------------------------------------------------------------------------
(* The invariant.                                                          *)

\* Until the server has read its environment there is no request.
ModeKnown ==
  /\ mode \in Modes \cup {Unread}
  /\ \A a \in Actors : pc[a] # "idle" => mode \in Modes

\* Whoever was told that a caller is known may trust it, and goes on only then.
TrustEarned ==
  \A c \in Callers :
    /\ pc[c] = "authorize" /\ caller[c].error = "none" => trusted[c]
    /\ pc[c] \in {"route"} \cup Reading => trusted[c]

Simulating == \A c \in Callers : Ordered(c) => mode = "Simulated"

\* The functions have the domains that make an EXCEPT an assignment.
Domains ==
  /\ DOMAIN pc = Actors /\ DOMAIN caller = Actors /\ DOMAIN trusted = Actors
  /\ DOMAIN order = Callers

IInv == Domains /\ ModeKnown /\ TrustEarned /\ Simulating /\ OrdersFollowOverrides

LEMMA InitInvariant == Init => IInv
BY DEF Init, IInv, Domains, ModeKnown, TrustEarned, Simulating, OrdersFollowOverrides, Ordered,
       Reading, Actors

\* A request that ends leaves the others as they are.
LEMMA RespondKeeps ==
  ASSUME IInv, NEW a \in Actors, Respond(a), UNCHANGED <<mode, overrides>>,
         \A c \in Callers : c # a => order'[c] = order[c], DOMAIN order' = Callers
  PROVE  IInv'
BY DEF IInv, Domains, ModeKnown, TrustEarned, Simulating, OrdersFollowOverrides, Ordered,
       Reading, Actors, Respond, Goto

LEMMA StartKeeps == ASSUME IInv, Start PROVE IInv'
<1>1. mode' \in Modes BY ModesAreModes DEF Start
<1>2. Unread \notin Modes BY DEF Unread, Modes
<1>3. \A a \in Actors : pc[a] = "idle" BY <1>2 DEF IInv, ModeKnown, Start
<1> QED
  BY <1>1, <1>3 DEF IInv, Domains, ModeKnown, TrustEarned, Simulating, OrdersFollowOverrides,
     Ordered, Reading, Actors, Start

\* What is known of a credential is what authenticate_caller makes of it.
LEMMA AuthenticateKeeps == ASSUME IInv, NEW a \in Actors, Authenticate(a) PROVE IInv'
<1>1. PICK headers \in HeadersOf[a], jwks \in {"found", "unavailable"} :
        /\ caller' = [caller EXCEPT ![a] = AuthenticateCaller(headers, jwks)]
        /\ trusted' = [trusted EXCEPT ![a] = Holds(ExtractToken(headers))]
  BY DEF Authenticate
<1>2. caller'[a].error = "none" => trusted'[a]
  BY <1>1, TakenCredentialsHold DEF IInv, Domains
<1> QED
  BY <1>1, <1>2 DEF IInv, Domains, ModeKnown, TrustEarned, Simulating, OrdersFollowOverrides,
     Ordered, Reading, Actors, Authenticate, Goto

\* A caller goes on only if it is known.
LEMMA AuthorizeKeeps == ASSUME IInv, NEW a \in Actors, Authorize(a) PROVE IInv'
<1>1. CASE ~MayGoOn(a)
  BY <1>1, RespondKeeps DEF Authorize, IInv, Domains
<1>2. CASE MayGoOn(a)
  <2>1. caller[a].error = "none" BY <1>2 DEF MayGoOn, HasScope
  <2> QED
    BY <1>2, <2>1, ActorsDiffer DEF IInv, Domains, ModeKnown, TrustEarned, Simulating,
       OrdersFollowOverrides, Ordered, Reading, Actors, Authorize, Goto
<1> QED BY <1>1, <1>2

\* No order is between its decision and its return when a toggle takes effect.
LEMMA ToggleKeeps == ASSUME IInv, NEW o \in Operators, Toggle(o) PROVE IInv'
BY ActorsDiffer DEF IInv, Domains, ModeKnown, TrustEarned, Simulating, OrdersFollowOverrides,
   Ordered, Reading, Actors, Toggle, LockFree, Respond, Goto

\* An order that is decided goes where the overrides of that moment allow.
LEMMA DecideKeeps == ASSUME IInv, NEW c \in Callers, Decide(c) PROVE IInv'
<1>1. PICK request \in RequestsOf[c] :
        \/ /\ Decision(request).error = "none"
           /\ order' = [order EXCEPT ![c] = [asked |-> request, made |-> Decision(request)]]
           /\ Goto(c, "decided")
           /\ UNCHANGED <<caller, trusted>>
        \/ Respond(c) /\ UNCHANGED order
  BY DEF Decide
<1>2. CASE Respond(c) /\ UNCHANGED order
  BY <1>2, RespondKeeps DEF Decide, IInv, Domains, Actors
<1>3. CASE /\ Decision(request).error = "none"
           /\ order' = [order EXCEPT ![c] = [asked |-> request, made |-> Decision(request)]]
           /\ Goto(c, "decided")
           /\ UNCHANGED <<caller, trusted>>
  <2>1. mode \in Modes BY DEF IInv, ModeKnown, Decide, Actors
  <2>2. /\ Decision(request).gateway = Routing(request.gateway, request.currency).gateway
        /\ mode = "Simulated"
    BY <1>3, <2>1, DecisionsAreOutcomes DEF Outcome
  <2>3. order'[c].made = Decision(request) /\ order'[c].asked = request
    BY <1>3 DEF IInv, Domains
  <2>4. /\ order'[c].made.gateway = "razorpay" => overrides["razorpay"] # "down"
        /\ (order'[c].made.gateway = "phonepe" /\ order'[c].asked.gateway # "phonepe")
              => overrides["razorpay"] # "up"
    BY <2>2, <2>3, RoutingFollowsOverrides
  <2>5. \A d \in Callers : d # c => order'[d] = order[d] /\ pc'[d] = pc[d]
    BY <1>3 DEF IInv, Domains, Goto, Actors
  <2>6. trusted[c] /\ trusted' = trusted BY <1>3 DEF IInv, TrustEarned, Decide
  <2>7. pc'[c] = "decided" BY <1>3 DEF IInv, Domains, Goto, Actors
  <2>8. Domains' BY <1>3 DEF IInv, Domains, Goto
  <2>9. UNCHANGED <<mode, overrides, caller>> BY <1>3 DEF Decide
  <2>10. OrdersFollowOverrides'
    BY <2>4, <2>5, <2>9 DEF IInv, OrdersFollowOverrides, Ordered, Reading
  <2>11. TrustEarned'
    BY <2>5, <2>6, <2>7, <2>9 DEF IInv, TrustEarned, Reading
  <2>12. Simulating' /\ ModeKnown'
    BY <1>3, <2>1, <2>2, <2>9 DEF IInv, Simulating, ModeKnown
  <2> QED BY <2>8, <2>10, <2>11, <2>12 DEF IInv
<1> QED BY <1>1, <1>2, <1>3

LEMMA ConfirmKeeps == ASSUME IInv, NEW c \in Callers, Confirm(c) PROVE IInv'
BY RespondKeeps DEF Confirm, IInv, Domains, Actors

\* The steps that neither decide nor authenticate anything.
LEMMA OthersKeep ==
  ASSUME IInv,
         \/ CorridorChanges \/ Refill
         \/ \E a \in Actors : Disconnect(a)
         \/ \E c \in Callers : CheckLimit(c) \/ ApplyEvent(c)
         \/ \E o \in Operators : AskToToggle(o) \/ Queue(o)
         \/ UNCHANGED vars
  PROVE  IInv'
<1> USE DEF IInv, Domains, ModeKnown, TrustEarned, Simulating, OrdersFollowOverrides, Ordered,
            Reading, Actors
<1>0. \A x : x \in Modes \cup {Unread} /\ x # Unread => x \in Modes OBVIOUS
<1>1. CASE CorridorChanges BY <1>1 DEF CorridorChanges
<1>2. CASE Refill BY <1>2 DEF Refill
<1>3. CASE \E a \in Actors : Disconnect(a) BY <1>3, RespondKeeps DEF Disconnect
<1>4. CASE \E c \in Callers : CheckLimit(c) BY <1>0, <1>4 DEF CheckLimit, Goto
<1>5. CASE \E c \in Callers : ApplyEvent(c) BY <1>5 DEF ApplyEvent, Goto
<1>6. CASE \E o \in Operators : AskToToggle(o) BY <1>0, <1>6, ActorsDiffer DEF AskToToggle, Goto
<1>7. CASE \E o \in Operators : Queue(o) BY <1>7, ActorsDiffer DEF Queue, Goto
<1>8. CASE UNCHANGED vars BY <1>8 DEF vars
<1> QED BY <1>1, <1>2, <1>3, <1>4, <1>5, <1>6, <1>7, <1>8

LEMMA Invariant == Spec => []IInv
<1>1. IInv /\ [Next]_vars => IInv'
  BY StartKeeps, AuthenticateKeeps, AuthorizeKeeps, ToggleKeeps, DecideKeeps, ConfirmKeeps,
     OthersKeep DEF Next, CheckoutStep
<1> QED BY InitInvariant, <1>1, PTL DEF Spec

\* An order that is being placed was so before the step, or is what a decision just made.
LEMMA OrdersComeFromDecisions ==
  ASSUME IInv, [Next]_vars, NEW c \in Callers, Ordered(c)'
  PROVE  \/ Ordered(c) /\ order'[c] = order[c]
         \/ Sound(order'[c].asked, order'[c].made)
<1> USE DEF Ordered, Reading
<1>a. Domains /\ c \in Actors BY DEF IInv, Actors
<1>1. CASE \E a \in Actors : Authenticate(a) \/ Disconnect(a) \/ Authorize(a)
  BY <1>1, <1>a DEF Authenticate, Disconnect, Authorize, Respond, Goto, Domains
<1>2. CASE Start \/ CorridorChanges \/ Refill \/ UNCHANGED vars
  BY <1>2 DEF Start, CorridorChanges, Refill, vars
<1>3. CASE \E o \in Operators : AskToToggle(o) \/ Queue(o) \/ Toggle(o)
  BY <1>3, <1>a DEF AskToToggle, Queue, Toggle, Respond, Goto, Domains
<1>4. CASE \E d \in Callers : CheckLimit(d) \/ ApplyEvent(d) \/ Confirm(d)
  BY <1>4, <1>a DEF CheckLimit, ApplyEvent, Confirm, Respond, Goto, Domains
<1>5. ASSUME NEW d \in Callers, Decide(d)
      PROVE  \/ pc[c] \in Reading /\ order'[c] = order[c]
             \/ Sound(order'[c].asked, order'[c].made)
  <2>1. PICK request \in RequestsOf[d] :
          \/ /\ Decision(request).error = "none"
             /\ order' = [order EXCEPT ![d] = [asked |-> request, made |-> Decision(request)]]
             /\ Goto(d, "decided")
          \/ Respond(d) /\ UNCHANGED order
    BY <1>5 DEF Decide
  <2>2. CASE Respond(d) /\ UNCHANGED order
    BY <2>2, <1>a DEF Respond, Goto, Domains
  <2>3. CASE /\ Decision(request).error = "none"
             /\ order' = [order EXCEPT ![d] = [asked |-> request, made |-> Decision(request)]]
             /\ Goto(d, "decided")
    <3>1. CASE c # d BY <2>3, <3>1, <1>a DEF Goto, Domains
    <3>2. CASE c = d
      <4>1. order'[c].asked = request /\ order'[c].made = Decision(request)
        BY <2>3, <3>2, <1>a DEF Domains
      <4>2. mode \in Modes BY <1>5 DEF IInv, ModeKnown, Decide, Actors
      <4>3. Sound(request, Decision(request)) BY <2>3, <4>2, DecisionsAreSound
      <4> QED BY <4>1, <4>3
    <3> QED BY <3>1, <3>2
  <2> QED BY <2>1, <2>2, <2>3
<1> QED BY <1>1, <1>2, <1>3, <1>4, <1>5 DEF Next, CheckoutStep

-----------------------------------------------------------------------------
\* No order goes against an override that has taken effect, however many checkouts and
\* operators there are: the lock of universal_checkout spans decision and event.
THEOREM OverridesRespected == Spec => []OrdersFollowOverrides
BY Invariant, PTL DEF IInv

\* Orders are for callers whose credential holds, and only in the simulated mode.
THEOREM OrdersEarned == Spec => []OrdersAreAllowed
<1>1. IInv => OrdersAreAllowed
  BY DEF IInv, TrustEarned, Simulating, OrdersAreAllowed, Ordered
<1> QED BY Invariant, <1>1, PTL

\* The simulated mode is asked for, and nothing is live, malformed or against it: what
\* detect_checkout_mode makes of any environment.
THEOREM SimulationAskedFor == Spec => SimulationIsExplicit
<1> DEFINE Explicit ==
      mode' = "Simulated" /\ mode # "Simulated" =>
        /\ env.sim = "on" \/ "sandbox" \in {env.esa, env.environment}
        /\ "live" \notin {env.esa, env.environment} \cup env.providers
        /\ {"invalid", "unreadable"}
             \cap ({env.sim, env.esa, env.environment} \cup env.providers) = {}
        /\ env.sim # "off"
<1>1. DetectCheckoutMode(env) = "Simulated" =>
        /\ ~Malformed(env) /\ ~LiveAnywhere(env)
        /\ ~(env.sim = "off" /\ AsksForSandbox(env))
        /\ env.sim = "on" \/ AsksForSandbox(env)
  BY DEF DetectCheckoutMode
<1>2. Start => Explicit
  BY <1>1 DEF Start, Malformed, LiveAnywhere, AsksForSandbox
<1>3. [Next]_vars => Start \/ mode' = mode
  BY DEF Next, vars, Authenticate, Disconnect, Authorize, CheckLimit, CheckoutStep, Decide,
     ApplyEvent, Confirm, AskToToggle, Queue, Toggle, CorridorChanges, Refill
<1>4. [Next]_vars => [Explicit]_vars BY <1>2, <1>3
<1> QED BY <1>4, PTL DEF Spec, SimulationIsExplicit

\* No order is placed for an amount that a filled field contradicts, below the minimum its
\* gateway documents, or with a method the gateway does not take: whatever may be asked.
THEOREM OrdersSound == Spec => []OrdersAreSound
<1> DEFINE SoundInv == \A c \in Callers : Ordered(c) => Sound(order[c].asked, order[c].made)
<1>1. Init => SoundInv BY DEF Init, Ordered, Reading, Actors
<1>2. IInv /\ SoundInv /\ [Next]_vars => SoundInv'
  <2> SUFFICES ASSUME IInv, SoundInv, [Next]_vars, NEW c \in Callers, Ordered(c)'
               PROVE  Sound(order'[c].asked, order'[c].made)
    BY DEF Sound
  <2>1. CASE Ordered(c) /\ order'[c] = order[c] BY <2>1
  <2> QED BY <2>1, OrdersComeFromDecisions
<1>3. SoundInv => OrdersAreSound BY DEF OrdersAreSound, Sound
<1> HIDE DEF SoundInv
<1> QED BY Invariant, <1>1, <1>2, <1>3, PTL DEF Spec
-----------------------------------------------------------------------------
(* The shape of the state.                                                 *)

\* Whatever comes with a request, nobody is granted a scope that an administrator has not.
LEMMA ScopesAreKnown ==
  ASSUME NEW a \in Actors, NEW headers \in HeadersOf[a], NEW jwks \in {"found", "unavailable"}
  PROVE  AuthenticateCaller(headers, jwks).scopes \subseteq AdminScopes
<1> DEFINE token == ExtractToken(headers)
<1>1. token.form \in {"none", "key", "jwt"} BY HeadersHoldTokens DEF ExtractToken, Actors
<1>2. \A error : Denied(error).scopes \subseteq AdminScopes BY DEF Denied
<1>3. \A scopes : Granted(scopes).scopes = scopes BY DEF Granted
<1>4. \A role : JwtScopes(role) \subseteq AdminScopes BY DEF JwtScopes, AdminScopes
<1>5. KeyScopes(token.key) \subseteq AdminScopes
  <2> DEFINE M == Matching(token.key)
             first == CHOOSE i \in M : \A j \in M : i <= j
  <2>1. CASE M = {} BY <2>1 DEF KeyScopes
  <2>2. CASE M # {}
    <3>1. M \subseteq 1..3 BY DEF Matching
    <3> HIDE DEF M
    <3>2. \E i \in M : \A j \in M : i <= j
      <4>1. CASE 1 \in M BY <3>1, <4>1
      <4>2. CASE 1 \notin M /\ 2 \in M BY <3>1, <4>2
      <4>3. CASE 1 \notin M /\ 2 \notin M
        <5>1. PICK k \in M : TRUE BY <2>2
        <5>2. \A j \in M : j = 3 BY <3>1, <4>3
        <5> QED BY <5>1, <5>2
      <4> QED BY <4>1, <4>2, <4>3
    <3>3. first \in 1..3 BY <3>1, <3>2
    <3>4. KeySlots[first] \in {"live", "test", "universal"}
      <4> HIDE DEF first
      <4> QED BY <3>3 DEF KeySlots
    <3>5. KeyScopes(token.key) = SlotScopes[KeySlots[first]] BY <2>2 DEF KeyScopes, M
    <3> HIDE DEF first
    <3> QED BY <3>4, <3>5 DEF SlotScopes, UserScopes, AdminScopes
  <2> QED BY <2>1, <2>2
<1>6. \/ \E error : AuthenticateCaller(headers, jwks) = Denied(error)
      \/ \E role : AuthenticateCaller(headers, jwks) = Granted(JwtScopes(role))
      \/ AuthenticateCaller(headers, jwks) = Granted(KeyScopes(token.key))
  <2>1. CASE token.form = "none" BY <2>1 DEF AuthenticateCaller
  <2>2. CASE token.form = "jwt" BY <2>2 DEF AuthenticateCaller
  <2>3. CASE token.form = "key" BY <2>3 DEF AuthenticateCaller
  <2> QED BY <1>1, <2>1, <2>2, <2>3
<1> HIDE DEF token
<1> QED BY <1>2, <1>3, <1>4, <1>5, <1>6

LEMMA TypesHoldAtFirst == Init => TypeOK
<1> SUFFICES ASSUME Init PROVE TypeOK OBVIOUS
<1>1. \A a \in Actors : caller[a] = Nobody /\ trusted[a] = FALSE BY DEF Init
<1>2. Nobody.scopes = {} BY DEF Nobody, Denied
<1>3. tokens \in 0..Burst BY LimiterIsPositive DEF Init
<1>4. mode \in Modes \cup {Unread} /\ (mode = Unread <=> env \in Boots) BY DEF Init
<1> QED BY <1>1, <1>2, <1>3, <1>4 DEF Init, TypeOK

LEMMA TypesKept == ASSUME IInv, TypeOK, [Next]_vars PROVE TypeOK'
<1> DEFINE Places == {"idle", "authenticate", "authorize", "route", "toggle", "queued"} \cup Reading
           RequestsTyped == /\ pc \in [Actors -> Places]
                            /\ trusted \in [Actors -> BOOLEAN]
                            /\ \A a \in Actors : caller[a].scopes \subseteq AdminScopes
<1>a. RequestsTyped /\ DOMAIN caller = Actors BY DEF TypeOK, IInv, Domains
<1>b. {"authenticate", "authorize", "route", "toggle", "queued", "idle", "decided", "applied"} = Places
  BY DEF Reading
<1>c. Callers \subseteq Actors /\ Operators \subseteq Actors BY DEF Actors
<1>d. ASSUME NEW a \in Actors, Respond(a) PROVE RequestsTyped'
  BY <1>a, <1>b, <1>d DEF Respond, Goto, Nobody, Denied
<1>e. ASSUME NEW a \in Actors, NEW there \in Places, Goto(a, there), UNCHANGED <<caller, trusted>>
      PROVE  RequestsTyped'
  BY <1>a, <1>e DEF Goto
<1>f. ASSUME UNCHANGED <<pc, caller, trusted>> PROVE RequestsTyped'
  BY <1>a, <1>f
<1>g. ASSUME RequestsTyped', UNCHANGED <<env, mode, overrides>>, degraded' \in BOOLEAN,
             tokens' \in 0..Burst
      PROVE  TypeOK'
  BY <1>g DEF TypeOK
<1>h. degraded \in BOOLEAN /\ tokens \in 0..Burst BY DEF TypeOK
<1> HIDE DEF RequestsTyped
<1>1. CASE Start
  <2>1. env' \notin Boots
    <3>1. \A e \in Environments : e.sim # "read" BY DEF Environments, SimValues
    <3> QED BY <1>1, <3>1, BootsAreEnvironments DEF Start, NoEnvironment
  <2>2. mode' \in Modes /\ mode' # Unread BY <1>1, ModesAreModes DEF Start, Modes, Unread
  <2>3. RequestsTyped' BY <1>1, <1>f DEF Start
  <2> QED BY <1>1, <2>1, <2>2, <2>3 DEF Start, TypeOK, RequestsTyped
<1>2. CASE CorridorChanges
  BY <1>2, <1>f, <1>g, <1>h DEF CorridorChanges
<1>3. CASE Refill
  <2>1. tokens' \in 0..Burst BY <1>3, <1>h, LimiterIsPositive DEF Refill, Smaller
  <2> QED BY <1>3, <2>1, <1>f, <1>g, <1>h DEF Refill
<1>4. ASSUME NEW a \in Actors, Authenticate(a) PROVE TypeOK'
  <2>1. PICK headers \in HeadersOf[a], jwks \in {"found", "unavailable"} :
          /\ caller' = [caller EXCEPT ![a] = AuthenticateCaller(headers, jwks)]
          /\ trusted' = [trusted EXCEPT ![a] = Holds(ExtractToken(headers))]
    BY <1>4 DEF Authenticate
  <2>2. AuthenticateCaller(headers, jwks).scopes \subseteq AdminScopes BY ScopesAreKnown
  <2>3. Holds(ExtractToken(headers)) \in BOOLEAN BY DEF Holds
  <2>4. pc' \in [Actors -> Places] BY <1>4, <1>a, <1>b DEF Authenticate, Goto, RequestsTyped
  <2>5. trusted' \in [Actors -> BOOLEAN]
    BY <1>a, <2>1, <2>3 DEF RequestsTyped
  <2>6. \A b \in Actors : caller'[b].scopes \subseteq AdminScopes
    BY <1>a, <2>1, <2>2 DEF RequestsTyped
  <2>7. RequestsTyped' BY <2>4, <2>5, <2>6 DEF RequestsTyped
  <2> QED BY <1>4, <1>g, <1>h, <2>7 DEF Authenticate
<1>5. ASSUME NEW a \in Actors, Disconnect(a) PROVE TypeOK'
  BY <1>5, <1>d, <1>g, <1>h DEF Disconnect
<1>6. ASSUME NEW a \in Actors, Authorize(a) PROVE TypeOK'
  <2>1. CASE Respond(a) BY <1>6, <2>1, <1>d, <1>g, <1>h DEF Authorize
  <2>2. CASE /\ Goto(a, IF a \in Callers THEN "route" ELSE "toggle")
             /\ caller' = [caller EXCEPT ![a] = Nobody]
             /\ UNCHANGED trusted
    <3>1. RequestsTyped' BY <1>a, <1>b, <2>2 DEF Goto, Nobody, Denied, RequestsTyped
    <3> QED BY <1>6, <3>1, <1>g, <1>h DEF Authorize
  <2> QED BY <1>6, <2>1, <2>2 DEF Authorize
<1>7. ASSUME NEW c \in Callers, CheckLimit(c) PROVE TypeOK'
  <2>1. tokens' \in 0..Burst BY <1>7, <1>h, LimiterIsPositive DEF CheckLimit
  <2>2. RequestsTyped' BY <1>7, <1>b, <1>c, <1>e DEF CheckLimit
  <2> QED BY <1>7, <2>1, <2>2, <1>g, <1>h DEF CheckLimit
<1>8. ASSUME NEW c \in Callers, CheckoutStep(c) PROVE TypeOK'
  <2>1. CASE Decide(c)
    <3>1. Respond(c) \/ (Goto(c, "decided") /\ UNCHANGED <<caller, trusted>>)
      BY <2>1 DEF Decide
    <3>2. RequestsTyped' BY <3>1, <1>b, <1>c, <1>d, <1>e
    <3> QED BY <2>1, <3>2, <1>g, <1>h DEF Decide
  <2>2. CASE ApplyEvent(c)
    <3>1. RequestsTyped' BY <2>2, <1>b, <1>c, <1>e DEF ApplyEvent
    <3>2. degraded' \in BOOLEAN BY <2>2, <1>h DEF ApplyEvent
    <3> QED BY <2>2, <3>1, <3>2, <1>g, <1>h DEF ApplyEvent
  <2>3. CASE Confirm(c) BY <2>3, <1>c, <1>d, <1>g, <1>h DEF Confirm
  <2> QED BY <1>8, <2>1, <2>2, <2>3 DEF CheckoutStep
<1>9. ASSUME NEW o \in Operators, AskToToggle(o) \/ Queue(o) PROVE TypeOK'
  <2>1. RequestsTyped' BY <1>9, <1>b, <1>c, <1>e DEF AskToToggle, Queue
  <2> QED BY <1>9, <2>1, <1>g, <1>h DEF AskToToggle, Queue
<1>10. ASSUME NEW o \in Operators, Toggle(o) PROVE TypeOK'
  <2>1. RequestsTyped' BY <1>10, <1>c, <1>d DEF Toggle
  <2>2. overrides' \in [Gateways -> {"up", "down", "none"}]
    <3>1. PICK g \in Gateways : overrides' = [overrides EXCEPT ![g] = Toggled(g)]
      BY <1>10 DEF Toggle
    <3>2. Toggled(g) \in {"up", "down", "none"} BY DEF Toggled
    <3> QED BY <3>1, <3>2 DEF TypeOK
  <2> QED BY <1>10, <2>1, <2>2 DEF Toggle, TypeOK, RequestsTyped
<1>11. CASE UNCHANGED vars BY <1>11, <1>f, <1>g, <1>h DEF vars
<1> QED BY <1>1, <1>2, <1>3, <1>4, <1>5, <1>6, <1>7, <1>8, <1>9, <1>10, <1>11 DEF Next

\* The shape of the checkout's state: above all the limiter's bucket never holds more than its
\* burst, and nobody turns out to have scopes that are none.
THEOREM CheckoutTypeCorrect == Spec => []TypeOK
BY Invariant, TypesHoldAtFirst, TypesKept, PTL DEF Spec

-----------------------------------------------------------------------------
(* The dashboard of the same server: the vitals, the channel and its       *)
(* clients, Telemetry.                                                     *)

\* The newest of a sequence are a sequence of as many.
LEMMA NewestIsBounded ==
  ASSUME NEW S, NEW s \in Seq(S), NEW limit \in Nat \ {0}
  PROVE  /\ Newest(s, limit) \in Seq(S)
         /\ Len(Newest(s, limit)) <= limit
<1>1. CASE Len(s) <= limit BY <1>1 DEF Newest
<1>2. CASE Len(s) > limit
  <2> DEFINE first == Len(s) - limit + 1
  <2>1. Newest(s, limit) = SubSeq(s, first, Len(s)) BY <1>2 DEF Newest
  <2>2. first \in 1..Len(s) BY <1>2
  <2>3. SubSeq(s, first, Len(s)) \in Seq(S)
    <3>1. \A i \in first..Len(s) : s[i] \in S BY <2>2
    <3> HIDE DEF first
    <3> QED BY <2>2, <3>1
  <2>4. Len(SubSeq(s, first, Len(s))) = limit BY <1>2, <2>2
  <2> QED BY <2>1, <2>3, <2>4
<1> QED BY <1>1, <1>2

\* What a publisher may hold: at the channel's door a view that was recorded, before that
\* maybe none.
HoldsViews ==
  \A p \in Publishers :
    /\ publisher[p] = "listed" => seen[p] \in Views \cup {Empty}
    /\ publisher[p] = "loaded" => seen[p] \in Views

DashboardInv ==
  /\ TelemetryTypeOK /\ DOMAIN queue = Clients
  /\ HoldsViews
  /\ ListenersAreKnown

LEMMA DashboardInit == TelemetryInit => DashboardInv
BY StoresHoldSomething DEF TelemetryInit, DashboardInv, TelemetryTypeOK, HoldsViews,
   ListenersAreKnown, Open, Publishers, Nothing

\* Whatever is sent, no channel outgrows its capacity.
LEMMA BroadcastKeeps ==
  ASSUME DashboardInv, NEW message \in Views \cup {WorkloadUpdate}, Broadcast(message)
  PROVE  /\ DOMAIN queue' = Clients
         /\ \A c \in Clients : /\ queue'[c] \in Seq(Views \cup {WorkloadUpdate})
                               /\ Len(queue'[c]) <= Capacity
<1> USE DEF DashboardInv, TelemetryTypeOK
<1> SUFFICES ASSUME NEW c \in Clients
             PROVE  /\ queue'[c] \in Seq(Views \cup {WorkloadUpdate})
                    /\ Len(queue'[c]) <= Capacity
  BY DEF Broadcast
<1> DEFINE S == Views \cup {WorkloadUpdate}
           longer == Append(queue[c], message)
<1>1. longer \in Seq(S) OBVIOUS
<1>2. queue'[c] \in {queue[c], Newest(longer, Capacity)} BY DEF Broadcast
<1>3. Newest(longer, Capacity) \in Seq(S) /\ Len(Newest(longer, Capacity)) <= Capacity
  <2> HIDE DEF S, longer
  <2> QED BY <1>1, NewestIsBounded, StoresHoldSomething
<1> QED BY <1>2, <1>3

\* A publisher's steps: whatever is recorded was listed, whatever is sent was recorded, and
\* neither store grows past its bound.
LEMMA PublishersKeep ==
  ASSUME DashboardInv, NEW p \in Publishers,
         \/ List(p) \/ Publish(p)
         \/ p \in Handlers /\ SendUpdate(p)
  PROVE  DashboardInv'
<1> USE DEF DashboardInv, TelemetryTypeOK, HoldsViews
<1>a. AfterVitals(p) \in {"idle", "update"} BY DEF AfterVitals
<1>b. /\ MaxSnapshots \in Nat \ {0} /\ Capacity \in Nat \ {0}
      /\ p \in Handlers => p # Ticker
  BY StoresHoldSomething, TickerIsNoHandler
\* A publisher moves on; the others stay.
<1>d. ASSUME NEW there \in {"idle", "listed", "recorded", "loaded", "update"},
             NEW holding \in Views \cup {Empty, Nothing}, Proceed(p, there, holding),
             there = "listed" => holding \in Views \cup {Empty},
             there = "loaded" => holding \in Views
      PROVE  /\ publisher' \in [Publishers ->
                                  {"idle", "listed", "recorded", "loaded", "update"}]
             /\ seen' \in [Publishers -> Views \cup {Empty, Nothing}]
             /\ HoldsViews'
  BY <1>d DEF Proceed
<1>1. CASE List(p)
  <2>1. Proceed(p, "listed", fabric) BY <1>1 DEF List
  <2>2. UNCHANGED <<fabric, snapshots, client, known, queue, shown, production>>
    BY <1>1 DEF List, clientVars
  <2>3. /\ publisher' \in [Publishers ->
                             {"idle", "listed", "recorded", "loaded", "update"}]
        /\ seen' \in [Publishers -> Views \cup {Empty, Nothing}]
        /\ HoldsViews'
    BY <1>d, <2>1
  <2> QED BY <2>2, <2>3 DEF ListenersAreKnown, Open
<1>2. CASE Record(p)
  <2>1. Proceed(p, "recorded", Nothing) BY <1>2 DEF Record
  <2>2. UNCHANGED <<fabric, client, known, queue, shown, production>>
    BY <1>2 DEF Record, clientVars
  <2>3. /\ publisher' \in [Publishers ->
                             {"idle", "listed", "recorded", "loaded", "update"}]
        /\ seen' \in [Publishers -> Views \cup {Empty, Nothing}]
        /\ HoldsViews'
    BY <1>d, <2>1
  <2>4. snapshots' \in Seq(Views) /\ Len(snapshots') <= MaxSnapshots
    <3>1. CASE seen[p] = Empty BY <1>2, <3>1 DEF Record
    <3>2. CASE seen[p] # Empty
      <4>1. seen[p] \in Views BY <1>2, <3>2 DEF Record
      <4>2. Append(snapshots, seen[p]) \in Seq(Views) BY <4>1
      <4>3. snapshots' = Newest(Append(snapshots, seen[p]), MaxSnapshots)
        BY <1>2, <3>2 DEF Record, Recorded
      <4> QED BY <1>b, <4>2, <4>3, NewestIsBounded
    <3> QED BY <3>1, <3>2
  <2> QED BY <2>2, <2>3, <2>4 DEF ListenersAreKnown, Open
<1>3. CASE Latest(p)
  <2>1. UNCHANGED <<fabric, snapshots, client, known, queue, shown, production>>
    BY <1>3 DEF Latest, clientVars
  <2>2. \/ Proceed(p, AfterVitals(p), Nothing)
        \/ snapshots # << >> /\ Proceed(p, "loaded", snapshots[Len(snapshots)])
    BY <1>3 DEF Latest, Last
  <2>3. snapshots # << >> => snapshots[Len(snapshots)] \in Views OBVIOUS
  <2>4. /\ publisher' \in [Publishers ->
                             {"idle", "listed", "recorded", "loaded", "update"}]
        /\ seen' \in [Publishers -> Views \cup {Empty, Nothing}]
        /\ HoldsViews'
    BY <1>a, <1>d, <2>2, <2>3
  <2> QED BY <2>1, <2>4 DEF ListenersAreKnown, Open
<1>4. CASE Send(p) \/ (p \in Handlers /\ SendUpdate(p))
  <2>1. UNCHANGED <<fabric, snapshots, client, known, shown, production>>
    BY <1>4 DEF Send, SendUpdate
  <2>2. \E message \in Views \cup {WorkloadUpdate} : Broadcast(message)
    BY <1>4 DEF Send, SendUpdate
  <2>3. \E there \in {"idle", "update"} : Proceed(p, there, Nothing)
    BY <1>4, <1>a DEF Send, SendUpdate
  <2>4. /\ publisher' \in [Publishers ->
                             {"idle", "listed", "recorded", "loaded", "update"}]
        /\ seen' \in [Publishers -> Views \cup {Empty, Nothing}]
        /\ HoldsViews'
    BY <1>d, <2>3
  <2>5. /\ DOMAIN queue' = Clients
        /\ \A c \in Clients : /\ queue'[c] \in Seq(Views \cup {WorkloadUpdate})
                              /\ Len(queue'[c]) <= Capacity
    BY <2>2, BroadcastKeeps
  <2> QED BY <2>1, <2>4, <2>5 DEF ListenersAreKnown, Open
<1> QED BY <1>1, <1>2, <1>3, <1>4 DEF Publish

\* A client's steps: it is let in with a credential that holds, or outside production.
LEMMA ClientsKeep ==
  ASSUME DashboardInv, NEW c \in Clients,
         \/ ConnectKnown(c) \/ ConnectUnknown(c) \/ Greet(c)
         \/ Receive(c) \/ Leave(c)
  PROVE  DashboardInv'
<1> USE DEF DashboardInv, TelemetryTypeOK
<1>a. UNCHANGED <<fabric, snapshots, publisher, seen, production>>
  BY DEF ConnectKnown, ConnectUnknown, Greet, Receive,
     Leave, publisherVars
<1>b. HoldsViews' BY <1>a DEF HoldsViews
<1> USE DEF ListenersAreKnown, Open
<1>1. CASE \E holds \in BOOLEAN :
             /\ Subscribe(c, holds)
             /\ holds \/ ~production
  <2>1. << >> \in Seq(Views \cup {WorkloadUpdate}) /\ Len(<< >>) <= Capacity
    BY StoresHoldSomething
  <2> QED BY <1>a, <1>b, <1>1, <2>1 DEF Subscribe
<1>2. CASE Hangup(c)
  <2>1. << >> \in Seq(Views \cup {WorkloadUpdate}) /\ Len(<< >>) <= Capacity
    BY StoresHoldSomething
  <2> QED BY <1>a, <1>b, <1>2, <2>1 DEF Hangup
<1>3. CASE ConnectUnknown(c) BY <1>a, <1>b, <1>3 DEF ConnectUnknown
<1>4. CASE Receive(c)
  <2>1. /\ Head(queue[c]) \in Views \cup {WorkloadUpdate}
        /\ Tail(queue[c]) \in Seq(Views \cup {WorkloadUpdate})
        /\ Len(Tail(queue[c])) <= Capacity
    BY <1>4, StoresHoldSomething DEF Receive
  <2>2. /\ queue' = [queue EXCEPT ![c] = Tail(queue[c])]
        /\ shown' \in [Clients -> Views \cup {Nothing}]
        /\ UNCHANGED <<client, known>>
    BY <1>4, <2>1 DEF Receive
  <2> QED BY <1>a, <1>b, <2>1, <2>2
<1> QED
  BY <1>1, <1>2, <1>3, <1>4 DEF ConnectKnown, Greet, Leave

LEMMA DashboardHolds == TelemetrySpec => []DashboardInv
<1>1. DashboardInv /\ [TelemetryNext]_telemetryVars => DashboardInv'
  <2> SUFFICES ASSUME DashboardInv, [TelemetryNext]_telemetryVars PROVE DashboardInv'
    OBVIOUS
  <2> USE DEF DashboardInv, TelemetryTypeOK, HoldsViews, ListenersAreKnown,
              Open
  <2>1. CASE FabricChanges
    BY <2>1 DEF FabricChanges, publisherVars, clientVars
  <2>2. CASE OthersSend
    <3>1. Broadcast(WorkloadUpdate) BY <2>2 DEF OthersSend
    <3>2. UNCHANGED <<fabric, snapshots, publisher, seen, client, known, shown, production>>
      BY <2>2 DEF OthersSend, publisherVars
    <3>3. /\ DOMAIN queue' = Clients
          /\ \A c \in Clients : /\ queue'[c] \in Seq(Views \cup {WorkloadUpdate})
                                /\ Len(queue'[c]) <= Capacity
      BY <3>1, BroadcastKeeps
    <3> QED BY <3>2, <3>3
  <2>3. CASE UNCHANGED telemetryVars
    BY <2>3 DEF telemetryVars, publisherVars, clientVars
  <2> HIDE DEF DashboardInv
  <2> QED
    BY <2>1, <2>2, <2>3, PublishersKeep, ClientsKeep DEF TelemetryNext, Publishers
<1> QED BY DashboardInit, <1>1, PTL DEF TelemetrySpec

\* The shape of the dashboard's state: neither the vitals nor what a client has yet to receive
\* outgrows its bound, however many publish and however slow the client is.
THEOREM DashboardTypeCorrect == TelemetrySpec => []TelemetryTypeOK
BY DashboardHolds, PTL DEF DashboardInv

\* In production no client listens that has not shown a credential that holds, whatever order
\* its handshake, its frames and the publishers' messages take.
THEOREM ListenersKnown == TelemetrySpec => []ListenersAreKnown
BY DashboardHolds, PTL DEF DashboardInv
=============================================================================
