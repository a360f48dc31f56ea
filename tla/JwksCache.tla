----------------------------- MODULE JwksCache -----------------------------
(***************************************************************************)
(* The cache of the identity provider's public keys, JwksKeyCache in       *)
(* esa-api/src/api_keys.rs, through which every request with a signed      *)
(* token goes.  Calls of resolve_key run concurrently; each access to the  *)
(* keys, to last_fetched and to last_attempt takes a lock of its own, and  *)
(* a tokio mutex, held across the network, lets one call refresh at a time.*)
(* A call may be dropped where it awaits, when its client goes away.       *)
(*                                                                         *)
(* The provider is external: it withdraws and publishes keys at any time,  *)
(* and a request to it takes up to TIMEOUT ticks or fails.  A tick is long *)
(* next to the code between two awaits, so time passes only while every    *)
(* call waits for the mutex or the network.                                *)
(***************************************************************************)
EXTENDS Integers

CONSTANTS
  Calls,     \* calls of resolve_key on the process's one cache
  Kids,      \* key ids; a provider does not use one for a second algorithm
  Algs,      \* RS256 and ES256
  AlgOf,     \* the algorithm of each key
  Tokens,    \* the token headers calls may come with
  NoKid,     \* the header names no key
  NoCall,    \* nobody holds the mutex
  TTL, COOLDOWN, TIMEOUT,  \* in ticks
  Horizon    \* bound: the clock stops here

ASSUME KeysHaveAlgorithms == AlgOf \in [Kids -> Algs] /\ NoKid \notin Kids
ASSUME TokensAreHeaders == Tokens \subseteq [kid : Kids \cup {NoKid}, alg : Algs]
ASSUME NoCallIsNone == NoCall \notin Calls
ASSUME TimesArePositive == TTL \in Nat \ {0} /\ COOLDOWN \in Nat /\ TIMEOUT \in Nat
ASSUME HorizonIsTime == Horizon \in Nat
Errors == {"none", "refused", "unknown", "unavailable", "dropped"}
ASSUME ErrorsAreNotKeys == Errors \cap Kids = {}

VARIABLES
  keys,         \* the keys of the cache
  lastFetched,  \* when they were fetched, or Never
  lastAttempt,  \* when a fetch was last begun, or Never
  holder,       \* the call that holds refresh_lock
  configured,   \* whether there is a URL to fetch from
  pc, token, answer,
  fresh,        \* is_fresh_after of each call
  started,      \* when each call's fetch began, or Never
  reply,        \* the keys on their way to each call
  absentSince,  \* since when the provider does not publish a key, Never if it does
  clock

cacheVars == <<keys, lastFetched, lastAttempt, configured>>
callVars == <<token, fresh, started, reply>>
worldVars == <<absentSince, clock>>
vars == <<cacheVars, holder, pc, answer, callVars, worldVars>>

Never == -1
Awaiting == {"idle", "wait", "fetch", "reply", "done"}
Holding == {"recheck", "rematch", "attempt", "fetch", "reply", "mark", "lookup"}

\* The shape of the state; no time lies ahead of the clock.
TypeOK ==
  /\ keys \subseteq Kids
  /\ clock \in Nat
  /\ lastFetched \in Never..clock /\ lastAttempt \in Never..clock
  /\ holder \in Calls \cup {NoCall}
  /\ configured \in BOOLEAN
  /\ pc \in [Calls -> Awaiting \cup Holding \cup {"check", "match"}]
  /\ token \in [Calls -> Tokens]
  /\ answer \in [Calls -> Errors \cup Kids]
  /\ fresh \in [Calls -> BOOLEAN]
  /\ started \in [Calls -> Never..clock]
  /\ reply \in [Calls -> SUBSET Kids]
  /\ absentSince \in [Kids -> Never..clock]

Init ==
  /\ keys = {} /\ lastFetched = Never /\ lastAttempt = Never
  /\ holder = NoCall
  /\ configured \in BOOLEAN
  /\ pc = [c \in Calls |-> "idle"]
  /\ token \in [Calls -> Tokens]
  /\ answer = [c \in Calls |-> "none"]
  /\ fresh = [c \in Calls |-> FALSE]
  /\ started = [c \in Calls |-> Never]
  /\ reply = [c \in Calls |-> {}]
  /\ absentSince \in [Kids -> {Never, 0}]
  /\ clock = 0

-----------------------------------------------------------------------------

At(c, s) == pc[c] = s
Goto(c, s) == pc' = [pc EXCEPT ![c] = s] /\ UNCHANGED answer

\* The call returns; its locals and its guard, if it holds one, are dropped.
Return(c, a) ==
  /\ pc' = [pc EXCEPT ![c] = "done"]
  /\ answer' = [answer EXCEPT ![c] = a]
  /\ holder' = IF holder = c THEN NoCall ELSE holder
  /\ fresh' = [fresh EXCEPT ![c] = FALSE]
  /\ reply' = [reply EXCEPT ![c] = {}]
  /\ UNCHANGED <<token, started>>

\* Every failed refresh ends in one of two errors.
Fail(c) == Return(c, IF fresh[c] THEN "unknown" ELSE "unavailable")

\* Mutant: a key set is still good when its time is up.
IsFreshInclusive == lastFetched # Never /\ clock - lastFetched <= TTL

IsFresh == lastFetched # Never /\ clock - lastFetched < TTL

\* match_candidate: by id, or by algorithm where the token names no key.
Candidates(t) == {k \in keys : AlgOf[k] = t.alg /\ t.kid \in {k, NoKid}}
Mismatch(t) == t.kid \in keys /\ AlgOf[t.kid] # t.alg
Ambiguous(t) == \E j, k \in Candidates(t) : j # k
Missing(t) == Candidates(t) = {} /\ ~Mismatch(t)

\* A lookup that decides the call, unless the key is missing.
Decide(c) ==
  \/ \E k \in Kids : Candidates(token[c]) = {k} /\ Return(c, k)
  \/ (Mismatch(token[c]) \/ Ambiguous(token[c])) /\ Return(c, "refused")

Start(c) ==
  /\ At(c, "idle")
  /\ Goto(c, "check")
  /\ UNCHANGED <<cacheVars, holder, callVars, worldVars>>

\* The fast path, without the mutex: last_fetched is read, then the keys.
CheckFresh(c) ==
  /\ At(c, "check")
  /\ Goto(c, IF IsFresh THEN "match" ELSE "wait")
  /\ UNCHANGED <<cacheVars, holder, callVars, worldVars>>

Match(c) ==
  /\ At(c, "match")
  /\ \/ Decide(c)
     \/ Missing(token[c]) /\ Goto(c, "wait") /\ UNCHANGED <<holder, callVars>>
  /\ UNCHANGED <<cacheVars, worldVars>>

Acquire(c) ==
  /\ At(c, "wait")
  /\ holder = NoCall
  /\ holder' = c
  /\ Goto(c, "recheck")
  /\ UNCHANGED <<cacheVars, callVars, worldVars>>

\* Mutant: the cache is not looked at again.
RecheckSkipped(c) ==
  /\ At(c, "recheck")
  /\ fresh' = [fresh EXCEPT ![c] = IsFresh]
  /\ Goto(c, "attempt")
  /\ UNCHANGED <<cacheVars, holder, token, started, reply, worldVars>>

\* Another call may have refreshed while this one waited.
Recheck(c) ==
  /\ At(c, "recheck")
  /\ fresh' = [fresh EXCEPT ![c] = IsFresh]
  /\ Goto(c, IF IsFresh THEN "rematch" ELSE "attempt")
  /\ UNCHANGED <<cacheVars, holder, token, started, reply, worldVars>>

Rematch(c) ==
  /\ At(c, "rematch")
  /\ \/ Decide(c)
     \/ Missing(token[c]) /\ Goto(c, "attempt") /\ UNCHANGED <<holder, callVars>>
  /\ UNCHANGED <<cacheVars, worldVars>>

CoolingDown == lastAttempt # Never /\ clock - lastAttempt < COOLDOWN

\* Mutant: a call waits for the cooldown to pass.
NoAttemptWaits(c) ==
  /\ At(c, "attempt")
  /\ ~configured \/ CoolingDown
  /\ IF configured THEN Goto(c, "wait") /\ holder' = NoCall /\ UNCHANGED callVars ELSE Fail(c)
  /\ UNCHANGED <<cacheVars, worldVars>>

\* No URL, or an attempt less than a cooldown ago.
NoAttempt(c) ==
  /\ At(c, "attempt")
  /\ ~configured \/ CoolingDown
  /\ Fail(c)
  /\ UNCHANGED <<cacheVars, worldVars>>

\* Mutant: the attempt is recorded when it succeeds (by nobody, here).
BeginFetchUnrecorded(c) ==
  /\ At(c, "attempt")
  /\ configured /\ ~CoolingDown
  /\ started' = [started EXCEPT ![c] = clock]
  /\ Goto(c, "fetch")
  /\ UNCHANGED <<cacheVars, holder, token, fresh, reply, worldVars>>

\* The attempt counts whatever comes of it.
BeginFetch(c) ==
  /\ At(c, "attempt")
  /\ configured /\ ~CoolingDown
  /\ lastAttempt' = clock
  /\ started' = [started EXCEPT ![c] = clock]
  /\ Goto(c, "fetch")
  /\ UNCHANGED <<keys, lastFetched, configured, holder, token, fresh, reply, worldVars>>

Published == {k \in Kids : absentSince[k] = Never}

\* The provider answers with the keys it has at that moment.
Respond(c) ==
  /\ At(c, "fetch")
  /\ reply' = [reply EXCEPT ![c] = Published]
  /\ Goto(c, "reply")
  /\ UNCHANGED <<cacheVars, holder, token, fresh, started, worldVars>>

\* No connection, no answer in time, an error status, or a body that is not a
\* key set with a key of use.
FetchFails(c) ==
  /\ pc[c] \in {"fetch", "reply"}
  /\ Fail(c)
  /\ UNCHANGED <<cacheVars, worldVars>>

\* load_jwk_set replaces the keys, and in a second step
Load(c) ==
  /\ At(c, "reply")
  /\ keys' = reply[c]
  /\ Goto(c, "mark")
  /\ UNCHANGED <<lastFetched, lastAttempt, configured, holder, callVars, worldVars>>

\* records when.
Mark(c) ==
  /\ At(c, "mark")
  /\ lastFetched' = clock
  /\ Goto(c, "lookup")
  /\ UNCHANGED <<keys, lastAttempt, configured, holder, callVars, worldVars>>

Lookup(c) ==
  /\ At(c, "lookup")
  /\ \/ Decide(c)
     \/ Missing(token[c]) /\ Return(c, "unknown")
  /\ UNCHANGED <<cacheVars, worldVars>>

\* The client goes away and the handler's future is dropped.
Drop(c) ==
  /\ pc[c] \in {"wait", "fetch", "reply"}
  /\ Return(c, "dropped")
  /\ UNCHANGED <<cacheVars, worldVars>>

\* External: the provider rotates its keys.
Rotate(S) ==
  /\ S # Published
  /\ absentSince' = [k \in Kids |-> IF k \in S THEN Never
                                    ELSE IF k \in Published THEN clock ELSE absentSince[k]]
  /\ UNCHANGED <<cacheVars, holder, pc, answer, callVars, clock>>

\* External: time passes, up to the end of every pending request.
Tick ==
  /\ clock < Horizon
  /\ \A c \in Calls :
       /\ pc[c] \in Awaiting
       /\ pc[c] \in {"fetch", "reply"} => clock < started[c] + TIMEOUT
  /\ clock' = clock + 1
  /\ UNCHANGED <<cacheVars, holder, pc, answer, callVars, absentSince>>

Resolve(c) ==
  \/ CheckFresh(c) \/ Match(c)
  \/ Acquire(c) \/ Recheck(c) \/ Rematch(c)
  \/ NoAttempt(c) \/ BeginFetch(c)
  \/ Respond(c) \/ FetchFails(c) \/ Load(c) \/ Mark(c) \/ Lookup(c)

Next ==
  \/ \E c \in Calls : Start(c) \/ Resolve(c) \/ Drop(c)
  \/ \E S \in SUBSET Kids : Rotate(S)
  \/ Tick

Spec == Init /\ [][Next]_vars

\* A call that is not waiting goes on, its request ends at the latest by the
\* client's timeout, and the mutex is handed to whoever waits for it.
FairSpec == Spec /\ \A c \in Calls : WF_vars(Resolve(c))

-----------------------------------------------------------------------------

\* A token is not accepted by a key the provider has withdrawn for longer than
\* the keys live and a request lasts, whichever call loaded the key, whatever
\* loads and failures came between, and however the calls are interleaved.
Trusts(c, k) == pc[c] # "done" /\ pc'[c] = "done" /\ answer'[c] = k

WithdrawnKeysExpire ==
  [][\A c \in Calls, k \in Kids : Trusts(c, k) =>
       k \in Published \/ clock - absentSince[k] < TTL + TIMEOUT]_vars

\* The provider is asked at most once per cooldown, counting the requests that
\* failed and those whose caller went away.
FetchesSpaced ==
  \A c, d \in Calls :
    c # d /\ started[c] # Never /\ started[d] # Never =>
      started[c] >= started[d] + COOLDOWN \/ started[d] >= started[c] + COOLDOWN

\* Callers that find the cache cold together share one request: no call is told
\* that its key is unknown or that a refresh is on cooldown while the cache is
\* fresh and has the key, whoever brought it.
NoFalseMiss ==
  [][\A c \in Calls :
       answer'[c] # answer[c] /\ answer'[c] \in {"unknown", "unavailable"} =>
         ~IsFresh \/ Missing(token[c])]_vars

\* A request with a token is answered, cooldown and failures notwithstanding.
CallsAnswered == \A c \in Calls : At(c, "check") ~> At(c, "done")

=============================================================================
