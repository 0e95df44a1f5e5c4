------------------------ MODULE MerchantLookupProofs ------------------------
(***************************************************************************)
(* Proofs about MerchantLookup for any number of requests and any timing   *)
(* that meets TimingAssumption, however late a grant of the lock is seen,  *)
(* and about MerchantService, which puts the lookup behind the circuit     *)
(* breaker, for any breaker settings.                                      *)
(*                                                                         *)
(* What the lock does for the fallback is a matter of time: a request in   *)
(* the fallback owns a lock as old as its grant, or has outlived it.       *)
(* Freshness of "not found" follows the absence from the legacy reply      *)
(* through the background write into the entry, each hop adding at most    *)
(* its deadline.                                                           *)
(*                                                                         *)
(* The breaker only restricts a lookup: a step of the service is a step of *)
(* the lookup or none, so what holds of every lookup holds behind it.      *)
(***************************************************************************)
EXTENDS MerchantService, TLAPS

\* No step outlives its deadline, and nothing is counted before the merchant is known.
Punctual ==
    /\ \A r \in Requests :
         /\ pc[r] = "granted" => age[r] <= ReplyDelay /\ held[r] = age[r]
         /\ pc[r] = "calling" => age[r] <= LegacyTimeout /\ held[r] <= ReplyDelay + age[r]
         /\ pc[r] = "releasing" => age[r] <= ReleaseTimeout
         /\ fill[r] # "none" => fillAge[r] <= FillTimeout
    /\ entry = "absent" => entryAge < NegativeTTL
    /\ ~known => since = 0

\* A request in the fallback owns the lock, which is as old as the grant, or the lock's TTL is
\* over; requests that share the fallback differ by a TTL.
Owned ==
    /\ \A r \in Requests :
         InFallback(r) => held[r] >= LockTTL \/ (lock = r /\ lockAge = held[r])
    /\ FallbacksAreSpaced

\* Every piece of evidence of absence dates from before the merchant was known.
Dated ==
    /\ \A r \in Requests :
         /\ pc[r] \notin {"calling", "releasing"} => got[r] = "none"
         /\ pc[r] = "calling" /\ got[r] = "absent" => since <= age[r]
         /\ pc[r] = "releasing" /\ got[r] = "absent" => since <= LegacyTimeout + age[r]
         /\ fill[r] = "absent" => since <= LegacyTimeout + fillAge[r]
    /\ entry = "absent" => since <= LegacyTimeout + FillTimeout + entryAge

IInv == TypeOK /\ Punctual /\ Owned /\ Dated

LEMMA InitOK == Init => IInv
<1> SUFFICES ASSUME Init PROVE IInv
  OBVIOUS
<1> USE TimingAssumption DEF Init
<1>1. TypeOK
  <2>1. lock \in Requests \cup {Free, Orphan} /\ entry \in {"none", "merchant", "absent"}
    OBVIOUS
  <2>2. 0 \in 0..Staleness /\ 0 \in 0..NegativeTTL /\ 0 \in 0..LockTTL /\ 0 \in 0..FillTimeout
    BY DEF Staleness
  <2>3. row \in BOOLEAN /\ known \in BOOLEAN
    OBVIOUS
  <2>4. /\ pc \in [Requests -> PCs] /\ age \in [Requests -> Nat] /\ held \in [Requests -> Nat]
        /\ got \in [Requests -> Replies] /\ answer \in [Requests -> Answers]
    BY DEF PCs, Replies, Answers
  <2>5. fill \in [Requests -> {"none", "merchant", "absent"}] /\ fillAge \in [Requests -> 0..FillTimeout]
    BY <2>2
  <2> QED
    BY <2>1, <2>2, <2>3, <2>4, <2>5 DEF TypeOK
<1>2. Punctual
  BY DEF Punctual
<1>3. Owned /\ Dated
  BY DEF Owned, Dated, InFallback, FallbacksAreSpaced
<1> QED
  BY <1>1, <1>2, <1>3 DEF IInv

USE DEF redisVars, worldVars, fillVars, stepVars, InFallback

\* The types are kept by every step.
LEMMA TypeStep == IInv /\ [Next]_vars => TypeOK'
<1> SUFFICES ASSUME IInv, [Next]_vars PROVE TypeOK'
  OBVIOUS
<1> USE TimingAssumption DEF IInv, TypeOK, PCs, Replies, Answers
<1>1. ASSUME NEW r \in Requests, Ask(r) PROVE TypeOK'
  BY <1>1 DEF Ask, Goto
<1>2. ASSUME NEW r \in Requests, ReadCache(r) PROVE TypeOK'
  BY <1>2 DEF ReadCache, CacheHit, AnswerTo, CacheError, Return, Goto
<1>3. ASSUME NEW r \in Requests, ReadRow(r) PROVE TypeOK'
  BY <1>3 DEF ReadRow, FillAsync, Return, Goto
<1>4. ASSUME NEW r \in Requests, AcquireMerchantLock(r) PROVE TypeOK'
  BY <1>4 DEF AcquireMerchantLock, SetLock, Contend, Return, Goto
<1>5. ASSUME NEW r \in Requests, WaitForMerchantFill(r) PROVE TypeOK'
  BY <1>5 DEF WaitForMerchantFill, CacheHit, AnswerTo, WaitTimesOut, CacheError, Return, Goto
<1>6. ASSUME NEW r \in Requests, CallLegacy(r) PROVE TypeOK'
  BY <1>6 DEF CallLegacy, Goto
<1>7. ASSUME NEW r \in Requests, LegacyDecides(r) PROVE TypeOK'
  BY <1>7 DEF LegacyDecides
<1>8. ASSUME NEW r \in Requests, LegacyReturns(r) PROVE TypeOK'
  BY <1>8 DEF LegacyReturns, FillAsync, Goto
<1>9. ASSUME NEW r \in Requests, Release(r) PROVE TypeOK'
  BY <1>9 DEF Release, ReleaseMerchantLock, AnswerTo, Return, Goto
<1>10. ASSUME NEW r \in Requests, FillLands(r) PROVE TypeOK'
  BY <1>10 DEF FillLands
<1>11. ASSUME NEW r \in Requests, Die(r) PROVE TypeOK'
  BY <1>11 DEF Die, Return, Goto
<1>12. CASE DeleteMerchant
  BY <1>12 DEF DeleteMerchant
<1>13. CASE Register \/ CreateMerchant
  BY <1>13 DEF Register, CreateMerchant
<1>14. CASE Tick
  BY <1>14 DEF Tick, LockExpires, EntryExpires, Staleness, Timed
<1>15. CASE UNCHANGED vars
  BY <1>15 DEF vars
<1> QED
  BY <1>1, <1>2, <1>3, <1>4, <1>5, <1>6, <1>7, <1>8, <1>9, <1>10, <1>11, <1>12, <1>13, <1>14,
     <1>15 DEF Next, GetMerchant

\* Deadlines are met: Tick waits for every step under way.
LEMMA PunctualStep == IInv /\ [Next]_vars => Punctual'
<1> SUFFICES ASSUME IInv, [Next]_vars PROVE Punctual'
  OBVIOUS
<1> USE TimingAssumption DEF IInv, TypeOK, Punctual
<1>1. ASSUME NEW r \in Requests, Ask(r) PROVE Punctual'
  BY <1>1 DEF Ask, Goto
<1>2. ASSUME NEW r \in Requests, ReadCache(r) PROVE Punctual'
  BY <1>2 DEF ReadCache, CacheHit, AnswerTo, CacheError, Return, Goto
<1>3. ASSUME NEW r \in Requests, ReadRow(r) PROVE Punctual'
  BY <1>3 DEF ReadRow, FillAsync, Return, Goto
<1>4. ASSUME NEW r \in Requests, AcquireMerchantLock(r) PROVE Punctual'
  BY <1>4 DEF AcquireMerchantLock, SetLock, Contend, Return, Goto
<1>5. ASSUME NEW r \in Requests, WaitForMerchantFill(r) PROVE Punctual'
  BY <1>5 DEF WaitForMerchantFill, CacheHit, AnswerTo, WaitTimesOut, CacheError, Return, Goto
<1>6. ASSUME NEW r \in Requests, CallLegacy(r) PROVE Punctual'
  BY <1>6 DEF CallLegacy, Goto
<1>7. ASSUME NEW r \in Requests, LegacyDecides(r) PROVE Punctual'
  BY <1>7 DEF LegacyDecides
<1>8. ASSUME NEW r \in Requests, LegacyReturns(r) PROVE Punctual'
  BY <1>8 DEF LegacyReturns, FillAsync, Goto
<1>9. ASSUME NEW r \in Requests, Release(r) PROVE Punctual'
  BY <1>9 DEF Release, ReleaseMerchantLock, AnswerTo, Return, Goto
<1>10. ASSUME NEW r \in Requests, FillLands(r) PROVE Punctual'
  BY <1>10 DEF FillLands
<1>11. ASSUME NEW r \in Requests, Die(r) PROVE Punctual'
  BY <1>11 DEF Die, Return, Goto
<1>12. CASE DeleteMerchant
  BY <1>12 DEF DeleteMerchant
<1>13. CASE Register \/ CreateMerchant
  BY <1>13 DEF Register, CreateMerchant
<1>14. CASE Tick
  BY <1>14 DEF Tick, DeadlineAhead, Timed, EntryExpires
<1>15. CASE UNCHANGED vars
  BY <1>15 DEF vars
<1> QED
  BY <1>1, <1>2, <1>3, <1>4, <1>5, <1>6, <1>7, <1>8, <1>9, <1>10, <1>11, <1>12, <1>13, <1>14,
     <1>15 DEF Next, GetMerchant

\* The lock of a request in the fallback falls to its TTL only, not to another's release.
LEMMA OwnedStep == IInv /\ [Next]_vars => Owned'
<1> SUFFICES ASSUME IInv, [Next]_vars PROVE Owned'
  OBVIOUS
<1> USE TimingAssumption DEF IInv, TypeOK, Owned, FallbacksAreSpaced
<1>1. ASSUME NEW r \in Requests, Ask(r) PROVE Owned'
  BY <1>1 DEF Ask, Goto
<1>2. ASSUME NEW r \in Requests, ReadCache(r) PROVE Owned'
  BY <1>2 DEF ReadCache, CacheHit, AnswerTo, CacheError, Return, Goto
<1>3. ASSUME NEW r \in Requests, ReadRow(r) PROVE Owned'
  BY <1>3 DEF ReadRow, FillAsync, Return, Goto
<1>4. ASSUME NEW r \in Requests, AcquireMerchantLock(r) PROVE Owned'
  BY <1>4 DEF AcquireMerchantLock, SetLock, Contend, Return, Goto
<1>5. ASSUME NEW r \in Requests, WaitForMerchantFill(r) PROVE Owned'
  BY <1>5 DEF WaitForMerchantFill, CacheHit, AnswerTo, WaitTimesOut, CacheError, Return, Goto
<1>6. ASSUME NEW r \in Requests, CallLegacy(r) PROVE Owned'
  BY <1>6 DEF CallLegacy, Goto
<1>7. ASSUME NEW r \in Requests, LegacyDecides(r) PROVE Owned'
  BY <1>7 DEF LegacyDecides
<1>8. ASSUME NEW r \in Requests, LegacyReturns(r) PROVE Owned'
  BY <1>8 DEF LegacyReturns, FillAsync, Goto
<1>9. ASSUME NEW r \in Requests, Release(r) PROVE Owned'
  BY <1>9 DEF Release, ReleaseMerchantLock, AnswerTo, Return, Goto
<1>10. ASSUME NEW r \in Requests, FillLands(r) PROVE Owned'
  BY <1>10 DEF FillLands
<1>11. ASSUME NEW r \in Requests, Die(r) PROVE Owned'
  BY <1>11 DEF Die, Return, Goto
<1>12. CASE DeleteMerchant
  BY <1>12 DEF DeleteMerchant
<1>13. CASE Register \/ CreateMerchant
  BY <1>13 DEF Register, CreateMerchant
<1>14. CASE Tick
  BY <1>14 DEF Tick, DeadlineAhead, Timed, LockExpires
<1>15. CASE UNCHANGED vars
  BY <1>15 DEF vars
<1> QED
  BY <1>1, <1>2, <1>3, <1>4, <1>5, <1>6, <1>7, <1>8, <1>9, <1>10, <1>11, <1>12, <1>13, <1>14,
     <1>15 DEF Next, GetMerchant

\* Evidence of absence ages with the knowledge it lacks.
LEMMA DatedStep == IInv /\ [Next]_vars => Dated'
<1> SUFFICES ASSUME IInv, [Next]_vars PROVE Dated'
  OBVIOUS
<1> USE TimingAssumption DEF IInv, TypeOK, Punctual, Dated
<1>1. ASSUME NEW r \in Requests, Ask(r) PROVE Dated'
  BY <1>1 DEF Ask, Goto
<1>2. ASSUME NEW r \in Requests, ReadCache(r) PROVE Dated'
  BY <1>2 DEF ReadCache, CacheHit, AnswerTo, CacheError, Return, Goto
<1>3. ASSUME NEW r \in Requests, ReadRow(r) PROVE Dated'
  BY <1>3 DEF ReadRow, FillAsync, Return, Goto
<1>4. ASSUME NEW r \in Requests, AcquireMerchantLock(r) PROVE Dated'
  BY <1>4 DEF AcquireMerchantLock, SetLock, Contend, Return, Goto
<1>5. ASSUME NEW r \in Requests, WaitForMerchantFill(r) PROVE Dated'
  BY <1>5 DEF WaitForMerchantFill, CacheHit, AnswerTo, WaitTimesOut, CacheError, Return, Goto
<1>6. ASSUME NEW r \in Requests, CallLegacy(r) PROVE Dated'
  BY <1>6 DEF CallLegacy, Goto
<1>7. ASSUME NEW r \in Requests, LegacyDecides(r) PROVE Dated'
  <2>1. PICK v \in {IF known THEN "merchant" ELSE "absent", "error"} : got' = [got EXCEPT ![r] = v]
    BY <1>7 DEF LegacyDecides
  <2>2. v = "absent" => ~known
    BY <2>1, Zenon
  <2>3. v = "absent" => since <= age[r]
    BY <2>2
  <2> QED
    BY <1>7, <2>1, <2>3 DEF LegacyDecides
<1>8. ASSUME NEW r \in Requests, LegacyReturns(r) PROVE Dated'
  BY <1>8 DEF LegacyReturns, FillAsync, Goto
<1>9. ASSUME NEW r \in Requests, Release(r) PROVE Dated'
  BY <1>9 DEF Release, ReleaseMerchantLock, AnswerTo, Return, Goto
<1>10. ASSUME NEW r \in Requests, FillLands(r) PROVE Dated'
  BY <1>10 DEF FillLands
<1>11. ASSUME NEW r \in Requests, Die(r) PROVE Dated'
  BY <1>11 DEF Die, Return, Goto
<1>12. CASE DeleteMerchant
  BY <1>12 DEF DeleteMerchant
<1>13. CASE Register \/ CreateMerchant
  BY <1>13 DEF Register, CreateMerchant
<1>14. CASE Tick
  <2> USE <1>14 DEF Tick, DeadlineAhead, Timed, EntryExpires
  <2>1. since' \in Nat /\ since' <= since + 1
    BY DEF Staleness
  <2>2. ASSUME NEW s \in Requests, pc[s] = "calling", got[s] = "absent" PROVE since' <= age'[s]
    BY <2>1, <2>2
  <2>3. ASSUME NEW s \in Requests, pc[s] = "releasing", got[s] = "absent"
        PROVE  since' <= LegacyTimeout + age'[s]
    BY <2>1, <2>3
  <2>4. ASSUME NEW s \in Requests, fill[s] = "absent" PROVE since' <= LegacyTimeout + fillAge'[s]
    BY <2>1, <2>4
  <2>5. entry' = "absent" => since' <= LegacyTimeout + FillTimeout + entryAge'
    BY <2>1
  <2> QED
    BY <2>2, <2>3, <2>4, <2>5
<1>15. CASE UNCHANGED vars
  BY <1>15 DEF vars
<1> QED
  BY <1>1, <1>2, <1>3, <1>4, <1>5, <1>6, <1>7, <1>8, <1>9, <1>10, <1>11, <1>12, <1>13, <1>14,
     <1>15 DEF Next, GetMerchant

-----------------------------------------------------------------------------
\* The strengthened invariant holds throughout.
LEMMA Invariance == Spec => []IInv
<1>1. IInv /\ [Next]_vars => IInv'
  BY TypeStep, PunctualStep, OwnedStep, DatedStep DEF IInv
<1> QED
  BY InitOK, <1>1, PTL DEF Spec

\* Every variable of a lookup keeps its type, whatever the deadlines.
THEOREM TypeCorrect == Spec => []TypeOK
<1>1. IInv => TypeOK
  BY DEF IInv
<1> QED
  BY Invariance, <1>1, PTL

\* Lookups that call the legacy system for one merchant at the same time were granted the lock
\* of GetMerchant at least MerchantLockTTL apart: for any number of requests, any deadlines, and
\* grants seen as late as may be, the lock gives way to its TTL and to nothing else.
THEOREM FallbacksApart == Spec => []FallbacksAreSpaced
<1>1. IInv => FallbacksAreSpaced
  BY DEF IInv, Owned
<1> QED
  BY Invariance, <1>1, PTL

\* Were a grant always seen so early that the legacy call ends within the lock's TTL, which a
\* REDIS_READ_TIMEOUT below 1 s would do, one request at a time would call the legacy system.
THEOREM TimelyGrantsExclude ==
    ASSUME ReplyDelay + LegacyTimeout < LockTTL
    PROVE  Spec => []OneFallback
<1>1. IInv => OneFallback
  BY TimingAssumption DEF IInv, TypeOK, Punctual, Owned, FallbacksAreSpaced, OneFallback
<1> QED
  BY Invariance, <1>1, PTL

\* GetMerchant answers "not found" only if the legacy system did not know the merchant less
\* than LegacyTimeout + FillTimeout + NegativeTTL ago.
THEOREM NotFoundFresh == Spec => NotFoundIsRecent
<1> DEFINE Late == \A r \in Requests :
        answer'[r] = "notFound" /\ answer[r] # "notFound" => since < Staleness
<1>1. ASSUME IInv, [Next]_vars PROVE Late
  <2> USE TimingAssumption DEF IInv, TypeOK, Punctual, Dated, Staleness, Return, Goto, AnswerTo
  <2>1. ASSUME NEW r \in Requests, ReadCache(r) \/ WaitForMerchantFill(r) PROVE Late
    BY <1>1, <2>1 DEF ReadCache, WaitForMerchantFill, CacheHit, CacheError, WaitTimesOut
  <2>2. ASSUME NEW r \in Requests, Release(r) PROVE Late
    BY <1>1, <2>2 DEF Release
  <2>3. ASSUME NEW r \in Requests,
               Ask(r) \/ ReadRow(r) \/ AcquireMerchantLock(r) \/ Die(r)
        PROVE  Late
    BY <1>1, <2>3 DEF Ask, ReadRow, AcquireMerchantLock, Contend, Die
  <2>4. ASSUME NEW r \in Requests,
               CallLegacy(r) \/ LegacyDecides(r) \/ LegacyReturns(r) \/ FillLands(r)
        PROVE  Late
    BY <2>4 DEF CallLegacy, LegacyDecides, LegacyReturns, FillLands
  <2>5. CASE DeleteMerchant \/ Register \/ CreateMerchant \/ Tick \/ UNCHANGED vars
    BY <2>5 DEF DeleteMerchant, Register, CreateMerchant, Tick, vars
  <2> QED
    BY <1>1, <2>1, <2>2, <2>3, <2>4, <2>5 DEF Next, GetMerchant
<1>2. IInv /\ [Next]_vars => [Late]_vars
  BY <1>1
<1> QED
  BY Invariance, <1>2, PTL DEF Spec, NotFoundIsRecent

-----------------------------------------------------------------------------
(* Behind the circuit breaker *)

\* Every step of the service is a step of MerchantLookup or leaves the lookups alone.
LEMMA ServiceStep == [ServiceNext]_serviceVars => [Next]_vars
<1> SUFFICES ASSUME [ServiceNext]_serviceVars PROVE [Next]_vars
  OBVIOUS
<1>1. ASSUME NEW r \in Requests, GuardedLookup(r) PROVE GetMerchant(r)
  BY <1>1 DEF GuardedLookup, BeginCall, InnerDecides, EndCall, GetMerchant
<1>2. CASE ProcessDies
  BY <1>2, LocalAssumption DEF ProcessDies, Next
<1>3. ASSUME NEW o \in Others, OtherLookup(o) PROVE UNCHANGED vars
  BY <1>3 DEF OtherLookup
<1>4. CASE ServiceTick
  BY <1>4 DEF ServiceTick, Next
<1>5. CASE UNCHANGED serviceVars
  BY <1>5 DEF serviceVars
<1> QED
  BY <1>1, <1>2, <1>3, <1>4, <1>5 DEF ServiceNext, Next

\* GetMerchant with its reader behind the CircuitBreakingMerchantClient behaves like GetMerchant
\* with some legacy reader: the breaker refuses calls but adds no behaviour of its own, whatever
\* the other lookups of the process do to it and whenever the process dies.
THEOREM ServiceImplementsLookup == ServiceSpec => Spec
<1>1. ServiceInit => Init
  BY DEF ServiceInit
<1> QED
  BY <1>1, ServiceStep, PTL DEF ServiceSpec, Spec

\* Behind the breaker, too, the types hold, fallbacks for one merchant are a lock's TTL apart and
\* "not found" is stale by less than the deadlines and the negative TTL together.
THEOREM ServiceKeepsPromises == ServiceSpec => []TypeOK /\ []FallbacksAreSpaced /\ NotFoundIsRecent
BY ServiceImplementsLookup, TypeCorrect, FallbacksApart, NotFoundFresh, PTL

(***************************************************************************)
(* The breaker's view of the lookup and the lookup agree, so that no call  *)
(* is recorded twice or refused after it was made.                         *)
(***************************************************************************)
InStep ==
    /\ pc[Local] = "calling" <=> caller[Local] # "idle"
    /\ Blocked(Local) => got[Local] = "none"

BreakerInv ==
    /\ Breaker!TypeOK
    /\ Breaker!ClosedBelowThreshold
    /\ Breaker!ProbesBelongToHalfOpen

ServiceInv == IInv /\ InStep /\ BreakerInv

\* A new breaker is closed, with nothing counted.
LEMMA NewBreaker == Breaker!Init => BreakerInv
BY SettingsAssumption
   DEF Breaker!Init, BreakerInv, Breaker!TypeOK, Breaker!ClosedBelowThreshold,
       Breaker!ProbesBelongToHalfOpen, Breaker!States, Breaker!CallerStates

\* The breaker's own operations keep its counters and its state in agreement.
LEMMA BreakerOperations ==
    ASSUME BreakerInv, NEW c \in {Local} \cup Others,
           Breaker!Admit(c) \/ Breaker!Block(c) \/ Breaker!CallSucceeds(c) \/ Breaker!CallFails(c)
    PROVE  BreakerInv'
<1> USE SettingsAssumption
        DEF BreakerInv, Breaker!TypeOK, Breaker!ClosedBelowThreshold,
            Breaker!ProbesBelongToHalfOpen, Breaker!States, Breaker!CallerStates
<1>1. CASE Breaker!Admit(c)
  BY <1>1 DEF Breaker!Admit, Breaker!allowRequest
<1>2. CASE Breaker!Block(c)
  BY <1>2 DEF Breaker!Block
<1>3. CASE Breaker!CallSucceeds(c)
  BY <1>3 DEF Breaker!CallSucceeds, Breaker!recordSuccess
<1>4. CASE Breaker!CallFails(c)
  BY <1>4 DEF Breaker!CallFails, Breaker!recordFailure
<1> QED
  BY <1>1, <1>2, <1>3, <1>4

\* Steps of the service keep the breaker sound: a refused call is not recorded, and a new
\* process starts with a new breaker.
LEMMA BreakerStep == BreakerInv /\ [ServiceNext]_serviceVars => BreakerInv'
<1> SUFFICES ASSUME BreakerInv, [ServiceNext]_serviceVars PROVE BreakerInv'
  OBVIOUS
<1>1. ASSUME UNCHANGED breakerVars PROVE BreakerInv'
  BY <1>1 DEF breakerVars, BreakerInv, Breaker!TypeOK, Breaker!ClosedBelowThreshold,
              Breaker!ProbesBelongToHalfOpen
<1>2. ASSUME NEW r \in Requests, GuardedLookup(r) PROVE BreakerInv'
  <2>1. CASE BeginCall(r)
    BY <1>1, <2>1, BreakerOperations DEF BeginCall
  <2>2. CASE EndCall(r)
    <3>1. CASE /\ caller' = [caller EXCEPT ![r] = "idle"]
               /\ UNCHANGED <<state, failureCount, successCount, openAge>>
      BY <3>1 DEF BreakerInv, Breaker!TypeOK, Breaker!ClosedBelowThreshold,
                  Breaker!ProbesBelongToHalfOpen, Breaker!CallerStates
    <3> QED
      BY <1>1, <2>2, <3>1, BreakerOperations DEF EndCall
  <2> QED
    BY <1>1, <1>2, <2>1, <2>2 DEF GuardedLookup, InnerDecides
<1>3. ASSUME NEW o \in Others, OtherLookup(o) PROVE BreakerInv'
  BY <1>3, BreakerOperations DEF OtherLookup, OtherCall
<1>4. CASE ProcessDies
  BY <1>4, SettingsAssumption
     DEF ProcessDies, BreakerInv, Breaker!TypeOK, Breaker!ClosedBelowThreshold,
         Breaker!ProbesBelongToHalfOpen, Breaker!States, Breaker!CallerStates
<1>5. CASE ServiceTick
  <2>1. CASE Breaker!Tick
    BY <2>1, SettingsAssumption
       DEF Breaker!Tick, BreakerInv, Breaker!TypeOK, Breaker!ClosedBelowThreshold,
           Breaker!ProbesBelongToHalfOpen
  <2> QED
    BY <1>1, <1>5, <2>1 DEF ServiceTick
<1> QED
  BY <1>1, <1>2, <1>3, <1>4, <1>5 DEF ServiceNext, serviceVars

\* The lookup is in its legacy call exactly while the breaker has admitted or refused it.
LEMMA InStepStep == ServiceInv /\ [ServiceNext]_serviceVars => InStep'
<1> SUFFICES ASSUME ServiceInv, [ServiceNext]_serviceVars PROVE InStep'
  OBVIOUS
<1> USE LocalAssumption
<1>a. /\ pc \in [Requests -> PCs] /\ got \in [Requests -> Replies]
      /\ DOMAIN caller = {Local} \cup Others
  BY DEF ServiceInv, IInv, TypeOK, BreakerInv, Breaker!TypeOK
<1>b. InStep /\ (pc[Local] # "calling" /\ pc[Local] # "releasing" => got[Local] = "none")
  BY DEF ServiceInv, IInv, Dated
<1> USE DEF InStep, Blocked
<1>1. ASSUME UNCHANGED <<pc, got, breakerVars>> PROVE InStep'
  BY <1>1, <1>b DEF breakerVars
<1>2. ASSUME NEW r \in Requests, GuardedLookup(r) PROVE InStep'
  <2>1. CASE BeginCall(r)
    BY <1>a, <1>b, <2>1 DEF BeginCall, CallLegacy, Goto, breakerVars, Breaker!Admit, Breaker!Block
  <2>2. CASE InnerDecides(r)
    BY <1>a, <1>b, <2>2 DEF InnerDecides, LegacyDecides, breakerVars
  <2>3. CASE EndCall(r)
    BY <1>a, <1>b, <2>3 DEF EndCall, LegacyReturns, Goto, breakerVars, Breaker!CallSucceeds,
                             Breaker!CallFails
  <2>4. CASE /\ ReadCache(r) \/ ReadRow(r) \/ AcquireMerchantLock(r) \/ WaitForMerchantFill(r)
                \/ Release(r)
             /\ UNCHANGED breakerVars
    BY <1>a, <1>b, <2>4
       DEF ReadCache, ReadRow, AcquireMerchantLock, WaitForMerchantFill, Release, CacheHit,
           CacheError, WaitTimesOut, Contend, Return, Goto, breakerVars
  <2> QED
    BY <1>2, <2>1, <2>2, <2>3, <2>4 DEF GuardedLookup
<1>3. ASSUME NEW r \in Requests, Ask(r) \/ FillLands(r), UNCHANGED breakerVars PROVE InStep'
  BY <1>a, <1>b, <1>3 DEF Ask, FillLands, Goto, breakerVars
<1>4. ASSUME NEW r \in Requests \ {Local}, Die(r), UNCHANGED breakerVars PROVE InStep'
  BY <1>a, <1>b, <1>4 DEF Die, Return, Goto, breakerVars
<1>5. ASSUME NEW o \in Others, OtherLookup(o) PROVE InStep'
  BY <1>a, <1>b, <1>5 DEF OtherLookup, OtherCall, vars, Breaker!Admit, Breaker!CallSucceeds,
                           Breaker!CallFails
<1>6. CASE ProcessDies
  BY <1>a, <1>b, <1>6 DEF ProcessDies, Die, Return, Goto, vars
<1>7. CASE (DeleteMerchant \/ Register \/ CreateMerchant) /\ UNCHANGED breakerVars
  BY <1>1, <1>7 DEF DeleteMerchant, Register, CreateMerchant
<1>8. CASE ServiceTick
  BY <1>b, <1>8 DEF ServiceTick, Tick, Breaker!Tick, breakerVars
<1>9. CASE UNCHANGED serviceVars
  BY <1>1, <1>9 DEF serviceVars, vars
<1> QED
  BY <1>2, <1>3, <1>4, <1>5, <1>6, <1>7, <1>8, <1>9 DEF ServiceNext

\* The breaker that serves all lookups of a process stays sound through late results, refused
\* calls and deaths of the process (circuitbreaker.go under bridge.go), and it agrees with the
\* lookup: a call it refused never reached the legacy system, and every call it admitted is
\* under way until its result is recorded.
THEOREM BreakerServesLookups == ServiceSpec => [](BreakerInv /\ InStep)
<1>1. ServiceInit => ServiceInv
  <2> SUFFICES ASSUME ServiceInit PROVE ServiceInv
    OBVIOUS
  <2>1. InStep
    BY LocalAssumption DEF ServiceInit, Init, Breaker!Init, InStep, Blocked
  <2> QED
    BY <2>1, InitOK, NewBreaker DEF ServiceInit, ServiceInv
<1>2. ServiceInv /\ [ServiceNext]_serviceVars => ServiceInv'
  <2>1. IInv /\ [Next]_vars => IInv'
    BY TypeStep, PunctualStep, OwnedStep, DatedStep DEF IInv
  <2> QED
    BY <2>1, ServiceStep, BreakerStep, InStepStep DEF ServiceInv
<1>3. ServiceInv => BreakerInv /\ InStep
  BY DEF ServiceInv
<1> QED
  BY <1>1, <1>2, <1>3, PTL DEF ServiceSpec
=============================================================================
