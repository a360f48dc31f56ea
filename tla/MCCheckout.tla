----------------------------- MODULE MCCheckout -----------------------------
EXTENDS Checkout

CONSTANTS c1, c2, op

\* An RSA key and a provider, no shared secret, and the three API keys.
MCConfig ==
  [secret |-> "absent", rsaPem |-> "rsa", ecPem |-> "blank", issuer |-> TRUE,
   keys |-> [live |-> "kl", test |-> "kt", universal |-> "ku"]]

Headers(bearer, apiKey) == [bearer |-> bearer, apiKey |-> apiKey]
Bearer(token) == Headers(token, NoToken)

\* The first caller comes with anything, the second with the test key, and the operator with
\* a key that may toggle or the one that may not.
AnyHeaders ==
  {Bearer(t) : t \in {NoToken} \cup {Key(k) : k \in {"kl", "kt", "ku", "wrong"}}
     \cup {Jwt(alg, signer, claims, "authenticated") :
             alg \in Algorithms, signer \in {"secret", "rsa", "provider"},
             claims \in {"good", "expired"}}
     \cup {Jwt("ES256", "provider", "good", "admin")}}
    \cup {Headers(NoToken, Key("kt")), Headers(Key("wrong"), Key("kt"))}
MCHeadersOf ==
  [a \in Actors |-> CASE a = c1 -> AnyHeaders
                      [] a = c2 -> {Bearer(Key("kt"))}
                      [] a = op -> {Bearer(Key("kl")), Bearer(Key("ku"))}]

Request(minor, legacy, cents, currency, gateway, method) ==
  [minor |-> minor, legacy |-> legacy, cents |-> cents,
   currency |-> currency, gateway |-> gateway, method |-> method]
Plain == Request(100, NoAmount, NoAmount, "INR", "auto", NoMethod)

\* Every way to fill the three fields, around the minimum, and every way to name a currency,
\* a gateway and a method.
MCRequestsOf ==
  [a \in Callers |-> IF a = c2 THEN {Plain} ELSE
     {Request(minor, legacy, cents, "INR", "auto", NoMethod) :
        minor \in {NoAmount, 99, 100}, legacy \in {NoAmount, 99, 100}, cents \in {NoAmount, 100}}
     \cup {Request(100, NoAmount, NoAmount, currency, gateway, method) :
             currency \in {"INR", "USD", "XXX"},
             gateway \in {"auto", "razorpay", "stripe", "paytm", "bogus"},
             method \in {NoMethod, "all", "credit", "upi", "crypto"}}
     \cup {Request(minor, NoAmount, NoAmount, currency, "stripe", NoMethod) :
             minor \in {49, 50, 399, 400}, currency \in {"USD", "HKD"}}]
=============================================================================
