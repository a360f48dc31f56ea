---------------------------- MODULE MCJwksCache ----------------------------
EXTENDS JwksCache

CONSTANTS c1, c2, c3, k1, k2

\* Both keys are of one algorithm, so that a token without a kid can be ambiguous.
MCAlgOf == [k \in Kids |-> "RS256"]
MCTokens == {[kid |-> k1, alg |-> "RS256"], [kid |-> NoKid, alg |-> "RS256"],
             [kid |-> k2, alg |-> "ES256"]}
=============================================================================
