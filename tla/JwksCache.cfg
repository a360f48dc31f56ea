\* Two calls, two keys that come and go, every outcome of a request, under fairness.
CONSTANTS
  c1 = c1
  c2 = c2
  c3 = c3
  k1 = k1
  k2 = k2
  NoKid = NoKid
  NoCall = NoCall
  Calls = {c1, c2}
  Kids = {k1, k2}
  Algs = {"RS256", "ES256"}
  AlgOf <- MCAlgOf
  Tokens <- MCTokens
  TTL = 2
  COOLDOWN = 2
  TIMEOUT = 1
  Horizon = 3
SPECIFICATION FairSpec
INVARIANTS
  FetchesSpaced
PROPERTIES
  WithdrawnKeysExpire
  NoFalseMiss
  CallsAnswered
CHECK_DEADLOCK FALSE
