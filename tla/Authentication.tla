--------------------------- MODULE Authentication ---------------------------
(***************************************************************************)
(* Who a caller of the API is, esa-api/src/api_keys.rs: a signed token of  *)
(* the identity provider, or an API key the environment configures, and    *)
(* the scopes each brings.  Hashes are compared, so that a key equals a    *)
(* configured one or does not.  The signature check itself is external: it *)
(* holds when the token was signed with the key it is checked with.        *)
(*                                                                         *)
(* Config is the part of the environment read here: the signing keys (an   *)
(* empty value is "blank", one that is no key "bad"), whether an issuer can*)
(* be told, and the three API keys.  JwksCache is where a provider's key   *)
(* comes from: a call of resolve_key finds one or fails.                   *)
(***************************************************************************)
EXTENDS Integers

CONSTANT Config

ASSUME ConfigIsEnvironment ==
  /\ Config.secret \in {"absent", "blank", "secret"}
  /\ Config.rsaPem \in {"absent", "blank", "bad", "rsa"}
  /\ Config.ecPem \in {"absent", "blank", "bad", "ec"}
  /\ Config.issuer \in BOOLEAN
  /\ DOMAIN Config.keys = {"live", "test", "universal"}

Algorithms == {"HS256", "RS256", "ES256", "other"}
\* What is wrong with the claims of a token, if anything; each is an error of its own.
Claims == {"good", "expired", "early", "audience", "issuer", "subject"}

NoToken == [form |-> "none"]
Key(k) == [form |-> "key", key |-> k]
Jwt(alg, signer, claims, role) ==
  [form |-> "jwt", alg |-> alg, signer |-> signer, claims |-> claims, role |-> role]

\* A bearer token goes before an X-API-Key; a malformed Authorization header counts as none.
ExtractToken(headers) ==
  IF headers.bearer # NoToken THEN headers.bearer ELSE headers.apiKey

-----------------------------------------------------------------------------
FoundKey(key) == [error |-> "none", key |-> key]
NoKey(error) == [error |-> error, key |-> "none"]

\* A PEM from the environment, or else the identity provider's key.
PublicKey(pem, jwks) ==
  CASE pem = "bad" -> NoKey("signature")
    [] pem \in {"absent", "blank"} -> IF jwks = "found" THEN FoundKey("provider") ELSE NoKey("discovery")
    [] OTHER -> FoundKey(pem)

\* The key a token is checked with, by the algorithm its header names.
DecodingKey(alg, jwks) ==
  CASE alg = "HS256" -> IF Config.secret = "absent" THEN NoKey("algorithm")
                        ELSE IF Config.secret = "blank" THEN NoKey("signature")
                        ELSE FoundKey(Config.secret)
    [] alg = "RS256" -> PublicKey(Config.rsaPem, jwks)
    [] alg = "ES256" -> PublicKey(Config.ecPem, jwks)
    [] OTHER -> NoKey("algorithm")

\* The error of verify_supabase_jwt_with_key, "none" when the token holds.
VerifyJwt(token, jwks) ==
  LET found == DecodingKey(token.alg, jwks)
  IN  IF ~Config.issuer THEN "issuer"
      ELSE IF found.error # "none" THEN found.error
      ELSE IF token.signer # found.key THEN "signature"
      ELSE IF token.claims # "good" THEN token.claims
      ELSE "none"

UserScopes == {"payments:write", "payments:read", "telemetry:read", "gateways:toggle"}
AdminScopes == UserScopes \cup {"workloads:write", "admin"}
JwtScopes(role) == IF role \in {"service_role", "admin"} THEN AdminScopes ELSE UserScopes

\* The API keys of the environment, in the order they are tried, with their scopes.
KeySlots == <<"live", "test", "universal">>
SlotScopes ==
  [live |-> UserScopes \cup {"workloads:write"},
   test |-> UserScopes,
   universal |-> {"payments:write", "payments:read", "telemetry:read"}]
Matching(key) == {i \in 1..3 : Config.keys[KeySlots[i]] = key}

\* verify_configured_api_key: the first slot that holds the key, or the empty set.
KeyScopes(key) ==
  IF Matching(key) = {} THEN {}
  ELSE SlotScopes[KeySlots[CHOOSE i \in Matching(key) : \A j \in Matching(key) : i <= j]]

Denied(error) == [error |-> error, scopes |-> {}]
Granted(scopes) == [error |-> "none", scopes |-> scopes]

\* authenticate_caller: a token with the form of a signed one is never tried as an API key.
AuthenticateCaller(headers, jwks) ==
  LET token == ExtractToken(headers)
  IN  CASE token.form = "none" -> Denied("missing")
        [] token.form = "jwt" ->
             IF VerifyJwt(token, jwks) = "none" THEN Granted(JwtScopes(token.role))
             ELSE Denied(VerifyJwt(token, jwks))
        [] token.form = "key" ->
             IF Matching(token.key) # {} THEN Granted(KeyScopes(token.key)) ELSE Denied("key")

\* is_key_authorized_async: any credential that holds, whatever its scopes.
IsKeyAuthorized(token, jwks) ==
  \/ token.form = "jwt" /\ VerifyJwt(token, jwks) = "none"
  \/ token.form = "key" /\ Matching(token.key) # {}

\* Mutant: a token that fails to verify is let through as if nothing were wrong with it.
HasScopeAnonymous(caller, scope) ==
  caller.error # "none" \/ caller.scopes \cap {scope, "admin", "*"} # {}
\* What the handlers ask of a caller.
HasScope(caller, scope) == caller.error = "none" /\ caller.scopes \cap {scope, "admin", "*"} # {}
=============================================================================
