-------------------------- MODULE JwksCacheProofs --------------------------
(***************************************************************************)
(* Proofs about JwksCache for any number of calls, any keys and tokens, and *)
(* any time to live, cooldown, timeout and horizon.                        *)
(***************************************************************************)
EXTENDS JwksCache, TLAPS

\* Where a call may return from, and what it may say.
Answers == Errors \cup Kids
Returns(c) ==
  \E a \in Answers : Return(c, a) /\ UNCHANGED <<cacheVars, worldVars>>

\* A lookup that decides returns the one key that fits, or refuses the token.
LEMMA DecideReturns ==
  ASSUME NEW c \in Calls, Decide(c)
  PROVE  \/ \E k \in Kids : Candidates(token[c]) = {k} /\ Return(c, k)
         \/ Return(c, "refused")
  BY DEF Decide

\* A return keeps the shape of the state.
LEMMA ReturnTypes ==
  ASSUME TypeOK, NEW c \in Calls, NEW a \in Answers, Return(c, a), UNCHANGED <<cacheVars, worldVars>>
  PROVE  TypeOK'
  <1>1. holder' \in Calls \cup {NoCall}
    BY DEF Return, TypeOK
  <1>2. pc' \in [Calls -> Awaiting \cup Holding \cup {"check", "match"}]
    BY DEF Return, TypeOK, Awaiting
  <1>3. answer' \in [Calls -> Errors \cup Kids]
    BY DEF Return, TypeOK, Answers
  <1>4. fresh' \in [Calls -> BOOLEAN] /\ reply' \in [Calls -> SUBSET Kids]
    BY DEF Return, TypeOK
  <1> QED
    BY <1>1, <1>2, <1>3, <1>4 DEF Return, TypeOK, cacheVars, worldVars

\* A refresh that fails returns one of two errors.
LEMMA FailReturns ==
  ASSUME NEW c \in Calls, Fail(c)
  PROVE  \E a \in {"unknown", "unavailable"} : Return(c, a)
  BY DEF Fail

\* The steps of a call that end it, by where it was.
Ending(c) == Drop(c) \/ NoAttempt(c) \/ FetchFails(c) \/ Lookup(c)
Looking(c) == Match(c) \/ Rematch(c)

\* Every way a call ends is a return that leaves the cache alone.
LEMMA EndingReturns ==
  ASSUME NEW c \in Calls, Ending(c)
  PROVE  Returns(c)
  <1> USE DEF Answers, Errors, Returns
  <1>1. CASE Drop(c)
    BY <1>1 DEF Drop
  <1>2. CASE NoAttempt(c)
    BY <1>2, FailReturns DEF NoAttempt
  <1>3. CASE FetchFails(c)
    BY <1>3, FailReturns DEF FetchFails
  <1>4. CASE Lookup(c)
    BY <1>4, DecideReturns DEF Lookup
  <1> QED
    BY <1>1, <1>2, <1>3, <1>4 DEF Ending

\* Where a lookup that does not end the call leads.
LEMMA LookingCases ==
  ASSUME NEW c \in Calls, Looking(c)
  PROVE  \/ Returns(c)
         \/ /\ \/ At(c, "match") /\ Goto(c, "wait")
               \/ At(c, "rematch") /\ Missing(token[c]) /\ Goto(c, "attempt")
            /\ UNCHANGED <<cacheVars, holder, callVars, worldVars>>
  <1>1. Decide(c) /\ UNCHANGED <<cacheVars, worldVars>> => Returns(c)
    BY DecideReturns DEF Returns, Answers, Errors
  <1> QED
    BY <1>1 DEF Looking, Match, Rematch

-----------------------------------------------------------------------------

\* The initial states have the shape.
LEMMA InitTypes == Init => TypeOK
  BY DEF Init, TypeOK, Errors, Awaiting, Never

\* Every step keeps it.
LEMMA NextTypes == TypeOK /\ [Next]_vars => TypeOK'
  <1> SUFFICES ASSUME TypeOK, [Next]_vars PROVE TypeOK'
    OBVIOUS
  <1> USE DEF At, Goto, cacheVars, callVars, worldVars, Awaiting, Holding
  <1>1. ASSUME NEW c \in Calls, Start(c) PROVE TypeOK'
    BY <1>1 DEF Start, TypeOK
  <1>2. ASSUME NEW c \in Calls, CheckFresh(c) PROVE TypeOK'
    BY <1>2 DEF CheckFresh, TypeOK
  <1>3. ASSUME NEW c \in Calls, Looking(c) PROVE TypeOK'
    <2>1. CASE Returns(c)
      BY <2>1, ReturnTypes DEF Returns
    <2>2. CASE /\ Goto(c, "wait") \/ Goto(c, "attempt")
               /\ UNCHANGED <<cacheVars, holder, callVars, worldVars>>
      BY <2>2 DEF TypeOK
    <2> QED
      BY <1>3, <2>1, <2>2, LookingCases
  <1>4. ASSUME NEW c \in Calls, Acquire(c) PROVE TypeOK'
    BY <1>4 DEF Acquire, TypeOK
  <1>5. ASSUME NEW c \in Calls, Recheck(c) PROVE TypeOK'
    BY <1>5 DEF Recheck, IsFresh, TypeOK
  <1>6. ASSUME NEW c \in Calls, BeginFetch(c) PROVE TypeOK'
    BY <1>6 DEF BeginFetch, TypeOK, Never
  <1>7. ASSUME NEW c \in Calls, Respond(c) PROVE TypeOK'
    BY <1>7 DEF Respond, Published, TypeOK
  <1>8. ASSUME NEW c \in Calls, Load(c) PROVE TypeOK'
    BY <1>8 DEF Load, TypeOK
  <1>9. ASSUME NEW c \in Calls, Mark(c) PROVE TypeOK'
    BY <1>9 DEF Mark, TypeOK, Never
  <1>10. ASSUME NEW c \in Calls, Ending(c) PROVE TypeOK'
    BY <1>10, EndingReturns, ReturnTypes DEF Returns
  <1>11. ASSUME NEW S \in SUBSET Kids, Rotate(S) PROVE TypeOK'
    BY <1>11 DEF Rotate, TypeOK, Never
  <1>12. CASE Tick
    BY <1>12 DEF Tick, TypeOK, Never
  <1>13. CASE UNCHANGED vars
    BY <1>13 DEF vars, TypeOK
  <1> QED
    BY <1>1, <1>2, <1>3, <1>4, <1>5, <1>6, <1>7, <1>8, <1>9, <1>10, <1>11, <1>12, <1>13
       DEF Next, Resolve, Ending, Looking

\* The state keeps its shape, and no recorded time lies ahead of the clock.
THEOREM TypeCorrect == Spec => []TypeOK
  BY InitTypes, NextTypes, PTL DEF Spec

-----------------------------------------------------------------------------
(* WithdrawnKeysExpire speaks of one step.  What it rests on: the keys of   *)
(* the cache were published at most a request's time before last_fetched,  *)
(* also between Load and Mark, when last_fetched still speaks of the keys  *)
(* before them; and who looks a key up found that time less than a TTL ago *)
(* and no tick has come since.                                             *)

\* The mutex is held by the one call that is past it.
LockInv == \A c \in Calls : pc[c] \in Holding <=> holder = c

\* The keys of K were all published at time t, or later.
PublishedAt(K, t) == \A k \in K : k \in Published \/ absentSince[k] >= t

KeysInv ==
  /\ PublishedAt(keys, lastFetched - TIMEOUT)
  /\ \A c \in Calls : pc[c] = "reply" => PublishedAt(reply[c], started[c])
  /\ \A c \in Calls : pc[c] = "mark" => PublishedAt(keys, started[c])
  /\ \A c \in Calls : pc[c] \in {"fetch", "reply", "mark"} => clock <= started[c] + TIMEOUT
  /\ \A c \in Calls : pc[c] \in {"match", "rematch", "lookup"} => IsFresh

\* No call has the mutex at first.
LEMMA InitLocks == Init => LockInv
  BY NoCallIsNone, ZenonT(60) DEF Init, LockInv, Holding

\* Two calls are never past the mutex together.
LEMMA NextLocks == TypeOK /\ LockInv /\ [Next]_vars => LockInv'
  <1> SUFFICES ASSUME TypeOK, LockInv, [Next]_vars PROVE LockInv'
    OBVIOUS
  <1> USE NoCallIsNone DEF LockInv, Holding, At, Goto, TypeOK
  <1>r. ASSUME NEW c \in Calls, Returns(c) PROVE LockInv'
    BY <1>r DEF Returns, Return
  <1>1. ASSUME NEW c \in Calls, Start(c) \/ CheckFresh(c) PROVE LockInv'
    BY <1>1 DEF Start, CheckFresh
  <1>2. ASSUME NEW c \in Calls, Looking(c) PROVE LockInv'
    BY <1>2, <1>r, LookingCases
  <1>3. ASSUME NEW c \in Calls, Acquire(c) PROVE LockInv'
    BY <1>3 DEF Acquire
  <1>4. ASSUME NEW c \in Calls, Recheck(c) \/ BeginFetch(c) PROVE LockInv'
    BY <1>4 DEF Recheck, BeginFetch
  <1>5. ASSUME NEW c \in Calls, Respond(c) \/ Load(c) \/ Mark(c) PROVE LockInv'
    BY <1>5 DEF Respond, Load, Mark
  <1>6. ASSUME NEW c \in Calls, Ending(c) PROVE LockInv'
    BY <1>6, <1>r, EndingReturns
  <1>7. CASE (\E S \in SUBSET Kids : Rotate(S)) \/ Tick \/ UNCHANGED vars
    BY <1>7 DEF Rotate, Tick, vars
  <1> QED
    BY <1>1, <1>2, <1>3, <1>4, <1>5, <1>6, <1>7 DEF Next, Resolve, Ending, Looking

\* Nothing was fetched at first.
LEMMA InitKeys == Init => KeysInv
  BY DEF Init, KeysInv, PublishedAt

\* A rotation does not make a key absent since before the rotation.
LEMMA RotateKeeps ==
  ASSUME TypeOK, NEW S \in SUBSET Kids, Rotate(S), NEW K \in SUBSET Kids,
         NEW t \in Int, t <= clock, PublishedAt(K, t)
  PROVE  PublishedAt(K, t)'
  BY DEF TypeOK, Rotate, PublishedAt, Published, Never

\* The keys are as old as last_fetched says, give or take a request.
LEMMA NextKeys == TypeOK /\ LockInv /\ KeysInv /\ [Next]_vars => KeysInv'
  <1> SUFFICES ASSUME TypeOK, LockInv, KeysInv, [Next]_vars PROVE KeysInv'
    OBVIOUS
  <1> USE TimesArePositive DEF At, Goto, cacheVars, callVars, worldVars
  <1>q. \A K, t : UNCHANGED absentSince => (PublishedAt(K, t)' <=> PublishedAt(K, t))
    BY DEF PublishedAt, Published
  <1>f. UNCHANGED <<lastFetched, clock>> => (IsFresh' <=> IsFresh)
    BY DEF IsFresh
  <1>r. ASSUME NEW c \in Calls, Returns(c) PROVE KeysInv'
    BY <1>r, <1>f DEF Returns, Return, KeysInv, PublishedAt, Published, TypeOK
  <1>1. ASSUME NEW c \in Calls, Start(c) \/ CheckFresh(c) PROVE KeysInv'
    BY <1>1, <1>f DEF Start, CheckFresh, KeysInv, PublishedAt, Published, TypeOK
  <1>2. ASSUME NEW c \in Calls, Looking(c) PROVE KeysInv'
    <2>1. CASE /\ Goto(c, "wait") \/ Goto(c, "attempt")
               /\ UNCHANGED <<cacheVars, holder, callVars, worldVars>>
      BY <2>1, <1>f DEF KeysInv, PublishedAt, Published, TypeOK
    <2> QED
      BY <1>2, <1>r, <2>1, LookingCases
  <1>3. ASSUME NEW c \in Calls, Acquire(c) \/ Recheck(c) PROVE KeysInv'
    BY <1>3, <1>f DEF Acquire, Recheck, KeysInv, PublishedAt, Published, TypeOK
  <1>4. ASSUME NEW c \in Calls, BeginFetch(c) PROVE KeysInv'
    BY <1>4, <1>f DEF BeginFetch, KeysInv, PublishedAt, Published, TypeOK, Never
  <1>5. ASSUME NEW c \in Calls, Respond(c) PROVE KeysInv'
    BY <1>5, <1>f DEF Respond, KeysInv, PublishedAt, Published, TypeOK
  <1>6. ASSUME NEW c \in Calls, Load(c) PROVE KeysInv'
    BY <1>6, <1>f DEF Load, LockInv, Holding, KeysInv, PublishedAt, Published, TypeOK, Never
  <1>7. ASSUME NEW c \in Calls, Mark(c) PROVE KeysInv'
    BY <1>7 DEF Mark, KeysInv, PublishedAt, Published, TypeOK, IsFresh, Never
  <1>8. ASSUME NEW c \in Calls, Ending(c) PROVE KeysInv'
    BY <1>8, <1>r, EndingReturns
  <1>9. ASSUME NEW S \in SUBSET Kids, Rotate(S) PROVE KeysInv'
    BY <1>9, <1>f, RotateKeeps DEF Rotate, KeysInv, TypeOK, Never
  <1>10. CASE Tick
    BY <1>10, <1>q DEF Tick, Awaiting, KeysInv, TypeOK
  <1>11. CASE UNCHANGED vars
    BY <1>11, <1>f DEF vars, KeysInv, PublishedAt, Published
  <1> QED
    BY <1>1, <1>2, <1>3, <1>4, <1>5, <1>6, <1>7, <1>8, <1>9, <1>10, <1>11
       DEF Next, Resolve, Ending, Looking

\* Who trusts a key has just found it in a fresh cache.
LEMMA TrustedIsFresh ==
  ASSUME TypeOK, KeysInv, [Next]_vars, NEW c \in Calls, NEW k \in Kids, Trusts(c, k)
  PROVE  k \in keys /\ IsFresh
  <1> USE DEF At, Goto, Trusts, TypeOK, Never
  <1>1. ASSUME NEW d \in Calls, Match(d) \/ Rematch(d) \/ Lookup(d) PROVE k \in keys /\ IsFresh
    <2>1. d = c /\ Decide(c)
      BY <1>1, ErrorsAreNotKeys DEF Match, Rematch, Lookup, Decide, Return, Errors
    <2>2. k \in keys
      BY <2>1, ErrorsAreNotKeys DEF Decide, Return, Candidates, Errors
    <2> QED
      BY <1>1, <2>1, <2>2 DEF Match, Rematch, Lookup, KeysInv
  <1>2. ASSUME NEW d \in Calls, Drop(d) \/ NoAttempt(d) \/ FetchFails(d) PROVE FALSE
    BY <1>2, FailReturns, ErrorsAreNotKeys DEF Drop, NoAttempt, FetchFails, Fail, Return, Errors
  <1>3. ASSUME NEW d \in Calls, Start(d) \/ CheckFresh(d) \/ Acquire(d) \/ Recheck(d) PROVE FALSE
    BY <1>3 DEF Start, CheckFresh, Acquire, Recheck
  <1>4. ASSUME NEW d \in Calls, BeginFetch(d) \/ Respond(d) \/ Load(d) \/ Mark(d) PROVE FALSE
    BY <1>4 DEF BeginFetch, Respond, Load, Mark
  <1>5. CASE (\E S \in SUBSET Kids : Rotate(S)) \/ Tick \/ UNCHANGED vars
    BY <1>5 DEF Rotate, Tick, vars
  <1> QED
    BY <1>1, <1>2, <1>3, <1>4, <1>5 DEF Next, Resolve

\* No key outlives its withdrawal by a TTL and a request.
THEOREM WithdrawalsTakeEffect == Spec => WithdrawnKeysExpire
  <1> DEFINE A == \A c \in Calls, k \in Kids : Trusts(c, k) =>
                    k \in Published \/ clock - absentSince[k] < TTL + TIMEOUT
  <1>1. TypeOK /\ KeysInv /\ [Next]_vars => [A]_vars
    <2> SUFFICES ASSUME TypeOK, KeysInv, [Next]_vars, NEW c \in Calls, NEW k \in Kids, Trusts(c, k)
                 PROVE  k \in Published \/ clock - absentSince[k] < TTL + TIMEOUT
      OBVIOUS
    <2>1. k \in keys /\ IsFresh
      BY TrustedIsFresh
    <2> QED
      BY <2>1, TimesArePositive DEF KeysInv, PublishedAt, IsFresh, TypeOK, Never
  <1> QED
    BY <1>1, TypeCorrect, InitLocks, NextLocks, InitKeys, NextKeys, PTL DEF Spec, WithdrawnKeysExpire

-----------------------------------------------------------------------------
(* Fetches are spaced because no fetch began after last_attempt.           *)

SpacedInv == FetchesSpaced /\ \A c \in Calls : started[c] <= lastAttempt

\* No more than one request per cooldown reaches the provider.
THEOREM RequestsSpaced == Spec => []FetchesSpaced
  <1>1. Init => SpacedInv
    BY DEF Init, SpacedInv, FetchesSpaced, Never
  <1>2. TypeOK /\ SpacedInv /\ [Next]_vars => SpacedInv'
    <2> SUFFICES ASSUME TypeOK, SpacedInv, [Next]_vars PROVE SpacedInv'
      OBVIOUS
    <2> USE DEF SpacedInv, FetchesSpaced, cacheVars, callVars, worldVars
    <2>1. ASSUME NEW c \in Calls, BeginFetch(c) PROVE SpacedInv'
      BY <2>1, TimesArePositive DEF BeginFetch, CoolingDown, TypeOK, Never
    <2>2. CASE UNCHANGED <<started, lastAttempt>>
      BY <2>2
    <2>3. ASSUME NEW c \in Calls, Ending(c) \/ Looking(c) PROVE UNCHANGED <<started, lastAttempt>>
      BY <2>3, EndingReturns, LookingCases DEF Returns, Return
    <2>4. ASSUME NEW c \in Calls, Start(c) \/ CheckFresh(c) \/ Acquire(c) \/ Recheck(c)
          PROVE  UNCHANGED <<started, lastAttempt>>
      BY <2>4 DEF Start, CheckFresh, Acquire, Recheck
    <2>5. ASSUME NEW c \in Calls, Respond(c) \/ Load(c) \/ Mark(c)
          PROVE  UNCHANGED <<started, lastAttempt>>
      BY <2>5 DEF Respond, Load, Mark
    <2>6. CASE (\E S \in SUBSET Kids : Rotate(S)) \/ Tick \/ UNCHANGED vars
      BY <2>6 DEF Rotate, Tick, vars
    <2> QED
      BY <2>1, <2>2, <2>3, <2>4, <2>5, <2>6 DEF Next, Resolve, Ending, Looking
  <1>3. SpacedInv => FetchesSpaced
    BY DEF SpacedInv
  <1> QED
    BY <1>1, <1>2, <1>3, TypeCorrect, PTL DEF Spec

-----------------------------------------------------------------------------
(* No call misses what another has brought: what a call saw under the mutex *)
(* holds until it lets go, except that fresh keys may grow old.            *)

MissInv == \A c \in Calls : pc[c] \in {"attempt", "fetch", "reply"} => ~IsFresh \/ Missing(token[c])

\* What a lookup finds depends on the keys only.
LEMMA SameMisses ==
  ASSUME NEW c \in Calls, UNCHANGED <<keys, token>>
  PROVE  Missing(token[c])' <=> Missing(token[c])
  BY DEF Missing, Mismatch, Candidates

\* A call that goes on without the cache still could not use it.
LEMMA NextMiss == TypeOK /\ LockInv /\ MissInv /\ [Next]_vars => MissInv'
  <1> SUFFICES ASSUME TypeOK, LockInv, MissInv, [Next]_vars PROVE MissInv'
    OBVIOUS
  <1> USE DEF At, Goto, cacheVars, callVars, worldVars
  <1>f. UNCHANGED <<lastFetched, clock>> => (IsFresh' <=> IsFresh)
    BY DEF IsFresh
  <1>r. ASSUME NEW c \in Calls, Returns(c) PROVE MissInv'
    BY <1>r, <1>f, SameMisses DEF Returns, Return, MissInv, TypeOK
  <1>1. ASSUME NEW c \in Calls, Start(c) \/ CheckFresh(c) \/ Acquire(c) PROVE MissInv'
    BY <1>1, <1>f, SameMisses DEF Start, CheckFresh, Acquire, MissInv, TypeOK
  <1>2. ASSUME NEW c \in Calls, Looking(c) PROVE MissInv'
    <2>1. CASE /\ \/ Goto(c, "wait")
                  \/ Missing(token[c]) /\ Goto(c, "attempt")
               /\ UNCHANGED <<cacheVars, holder, callVars, worldVars>>
      BY <2>1, <1>f, SameMisses DEF MissInv, TypeOK
    <2> QED
      BY <1>2, <1>r, <2>1, LookingCases
  <1>3. ASSUME NEW c \in Calls, Recheck(c) PROVE MissInv'
    BY <1>3, <1>f, SameMisses DEF Recheck, MissInv, TypeOK
  <1>4. ASSUME NEW c \in Calls, BeginFetch(c) \/ Respond(c) PROVE MissInv'
    BY <1>4, <1>f, SameMisses DEF BeginFetch, Respond, MissInv, TypeOK
  <1>5. ASSUME NEW c \in Calls, Load(c) \/ Mark(c) PROVE MissInv'
    <2>1. \A d \in Calls : pc'[d] \notin {"attempt", "fetch", "reply"}
      BY <1>5 DEF Load, Mark, LockInv, Holding, TypeOK
    <2> QED
      BY <2>1 DEF MissInv
  <1>6. ASSUME NEW c \in Calls, Ending(c) PROVE MissInv'
    BY <1>6, <1>r, EndingReturns
  <1>7. CASE (\E S \in SUBSET Kids : Rotate(S)) \/ UNCHANGED vars
    BY <1>7, <1>f, SameMisses DEF Rotate, vars, MissInv
  <1>8. CASE Tick
    <2>1. ~IsFresh => ~IsFresh'
      BY <1>8, TimesArePositive DEF Tick, IsFresh, TypeOK, Never
    <2> QED
      BY <1>8, <2>1, SameMisses DEF Tick, MissInv
  <1> QED
    BY <1>1, <1>2, <1>3, <1>4, <1>5, <1>6, <1>7, <1>8 DEF Next, Resolve, Ending, Looking

\* Callers of a cold cache share the one request, its outcome included.
THEOREM MissesAreTrue == Spec => NoFalseMiss
  <1> DEFINE Misses(c) == answer'[c] # answer[c] /\ answer'[c] \in {"unknown", "unavailable"}
             A == \A c \in Calls : Misses(c) => ~IsFresh \/ Missing(token[c])
  <1>1. Init => MissInv
    BY DEF Init, MissInv
  <1>2. TypeOK /\ MissInv /\ [Next]_vars => [A]_vars
    <2> SUFFICES ASSUME TypeOK, MissInv, [Next]_vars, NEW c \in Calls, Misses(c)
                 PROVE  ~IsFresh \/ Missing(token[c])
      OBVIOUS
    <2> USE DEF At, Goto, TypeOK
    <2>1. ASSUME NEW d \in Calls, Match(d) \/ Rematch(d) \/ Lookup(d)
          PROVE  ~IsFresh \/ Missing(token[c])
      BY <2>1, ErrorsAreNotKeys DEF Match, Rematch, Lookup, Decide, Return, Errors
    <2>2. ASSUME NEW d \in Calls, NoAttempt(d) \/ FetchFails(d)
          PROVE  ~IsFresh \/ Missing(token[c])
      BY <2>2, FailReturns DEF NoAttempt, FetchFails, Return, MissInv
    <2>3. ASSUME NEW d \in Calls, Drop(d) PROVE FALSE
      BY <2>3 DEF Drop, Return
    <2>4. ASSUME NEW d \in Calls, Start(d) \/ CheckFresh(d) \/ Acquire(d) \/ Recheck(d) PROVE FALSE
      BY <2>4 DEF Start, CheckFresh, Acquire, Recheck
    <2>5. ASSUME NEW d \in Calls, BeginFetch(d) \/ Respond(d) \/ Load(d) \/ Mark(d) PROVE FALSE
      BY <2>5 DEF BeginFetch, Respond, Load, Mark
    <2>6. CASE (\E S \in SUBSET Kids : Rotate(S)) \/ Tick \/ UNCHANGED vars
      BY <2>6 DEF Rotate, Tick, vars
    <2> QED
      BY <2>1, <2>2, <2>3, <2>4, <2>5, <2>6 DEF Next, Resolve
  <1> QED
    BY <1>1, <1>2, TypeCorrect, InitLocks, NextLocks, NextMiss, PTL DEF Spec, NoFalseMiss

=============================================================================
