--------------------------- MODULE PaymentAmounts ---------------------------
(***************************************************************************)
(* The money of a payment, Currency and PaymentAmount in                   *)
(* esa-core/src/payment_state.rs: the registry of currencies, the minimum  *)
(* each provider documents, and the resolution of the three amount fields  *)
(* a request may carry.  Codes and methods come trimmed and in one case.   *)
(***************************************************************************)
EXTENDS Integers

NoAmount == -1   \* a field the request leaves out
NoMethod == ""   \* the empty method is the one left out

\* SUPPORTED_CURRENCY_REGISTRY: each currency and its decimal places.
Registry == [INR |-> 2, USD |-> 2, EUR |-> 2, GBP |-> 2, JPY |-> 0, SGD |-> 2,
             AED |-> 2, CAD |-> 2, AUD |-> 2, CHF |-> 2, HKD |-> 2]
Supported(currency) == currency \in DOMAIN Registry

Policy(provider, currency, method, minimum) ==
  [provider |-> provider, currency |-> currency, method |-> method, minimum |-> minimum]

StripeMinimum == [USD |-> 50, EUR |-> 50, GBP |-> 30, JPY |-> 50, SGD |-> 50, AED |-> 200,
                  CAD |-> 50, AUD |-> 50, CHF |-> 50, HKD |-> 400, INR |-> 50]

\* PROVIDER_MINIMUM_POLICIES.  At most one is about a provider and a currency, so the first
\* that matches is the one that matches.
Policies ==
  {Policy(p, "INR", "all", 100) : p \in {"razorpay", "phonepe", "cashfree"}}
    \cup {Policy("stripe", c, "card", StripeMinimum[c]) : c \in DOMAIN StripeMinimum}

\* The universal policies of a currency agree.
DefaultMinimum(currency) ==
  LET universal == {p \in Policies : p.currency = currency /\ p.method = "all"}
  IN  IF universal = {} THEN 1 ELSE (CHOOSE p \in universal : TRUE).minimum

\* The methods known, each under its canonical name.
Canonical == [card |-> "card", credit |-> "card", debit |-> "card", upi |-> "upi",
              netbanking |-> "netbanking", nb |-> "netbanking", wallet |-> "wallet"]
Methods(provider) ==
  CASE provider = "stripe" -> {"card"}
    [] provider \in {"razorpay", "phonepe", "cashfree"} -> {"card", "upi", "netbanking", "wallet"}
    [] OTHER -> {}

\* The policies that apply: a method that is left out matches the universal ones only.
Applicable(currency, provider, method) ==
  {p \in Policies :
     /\ p.currency = currency
     /\ p.provider = provider
     /\ p.method = "all" \/ (method # NoMethod /\ p.method = Canonical[method])}

Unsupported == [error |-> "unsupported", amount |-> 0]

\* minimum_amount_for_provider: an unknown method, "all" among them, or one the provider does
\* not take has no minimum.
MinimumFor(currency, provider, method) ==
  LET known == method \in DOMAIN Canonical /\ Canonical[method] \in Methods(provider)
      matching == Applicable(currency, provider, method)
  IN  IF (method # NoMethod /\ ~known) \/ matching = {} THEN Unsupported
      ELSE [error |-> "none", amount |-> (CHOOSE p \in matching : TRUE).minimum]

Rejected(error) == [error |-> error, amount |-> 0]
Accepted(amount) == [error |-> "none", amount |-> amount]

\* PaymentAmount::new
NewAmount(amount, currency) ==
  IF ~Supported(currency) THEN Rejected("currency")
  ELSE IF amount < DefaultMinimum(currency) THEN Rejected("below minimum")
  ELSE Accepted(amount)

\* Mutant: an amount one below the minimum is let through.
NewWithPolicyLoose(amount, currency, provider, method) ==
  LET least == MinimumFor(currency, provider, method)
  IN  IF ~Supported(currency) THEN Rejected("currency")
      ELSE IF least.error # "none" THEN least
      ELSE IF amount + 1 < least.amount THEN Rejected("below minimum")
      ELSE Accepted(amount)

\* PaymentAmount::new_with_provider_policy
NewWithPolicy(amount, currency, provider, method) ==
  LET least == MinimumFor(currency, provider, method)
  IN  IF ~Supported(currency) THEN Rejected("currency")
      ELSE IF least.error # "none" THEN least
      ELSE IF amount < least.amount THEN Rejected("below minimum")
      ELSE Accepted(amount)

Or(first, second) == IF first # NoAmount THEN first ELSE second

\* Two fields of which both are there and differ.
Conflict(one, other) == one # NoAmount /\ other # NoAmount /\ one # other

\* What resolve_from_all_inputs and its variants make of the three fields, before the amount
\* is held against a minimum.
Resolved(minor, legacy, cents) ==
  IF Conflict(legacy, cents) \/ Conflict(minor, Or(legacy, cents)) THEN Rejected("conflict")
  ELSE IF Or(minor, Or(legacy, cents)) = NoAmount THEN Rejected("missing")
  ELSE Accepted(Or(minor, Or(legacy, cents)))

ResolveFromAllInputs(minor, legacy, cents, currency) ==
  LET resolved == Resolved(minor, legacy, cents)
  IN  IF resolved.error # "none" THEN resolved ELSE NewAmount(resolved.amount, currency)

ResolveFromInputs(minor, legacy, currency) ==
  ResolveFromAllInputs(minor, legacy, NoAmount, currency)

ResolveWithProvider(minor, legacy, cents, currency, provider, method) ==
  LET resolved == Resolved(minor, legacy, cents)
  IN  IF resolved.error # "none" THEN resolved
      ELSE NewWithPolicy(resolved.amount, currency, provider, method)
=============================================================================
