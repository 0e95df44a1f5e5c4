--------------------------- MODULE MerchantLookup ---------------------------
(***************************************************************************)
(* Service.GetMerchant of internal/service/merchant for one merchant id:   *)
(* Redis, then PostgreSQL, then the legacy system under a Redis lock, with *)
(* the cache filled in the background.  Keys of different merchants never  *)
(* meet, so one merchant stands for all.                                   *)
(*                                                                         *)
(* Time matters here: the lock's TTL, the deadline of the legacy call and  *)
(* the TTL of a negative entry decide what is correct.  Tick advances a    *)
(* common clock, and never past the deadline of a step under way.  The     *)
(* code has LockTTL 3 s, LegacyTimeout 2 s, ReleaseTimeout 2 s,            *)
(* FillTimeout 2 s, NegativeTTL 10 s and a wait of 750 ms.  The lock ages  *)
(* from the moment Redis grants it, the legacy deadline from the moment    *)
(* the code sees the grant; ReplyDelay, the time between the two, is       *)
(* bounded by REDIS_READ_TIMEOUT alone, which is 3 s unless configured.    *)
(*                                                                         *)
(* The legacy reader is any MerchantReader: it finds the merchant, says it *)
(* does not exist, or fails (an outage, the open circuit breaker, or the   *)
(* NoopMerchantClient that main wires today).                              *)
(***************************************************************************)
EXTENDS Naturals, FiniteSets

CONSTANTS Requests,         \* concurrent GetMerchant calls
          LockTTL,          \* MerchantLockTTL
          LegacyTimeout,    \* deadline of the legacy call
          ReleaseTimeout,   \* deadline of the deferred lock release
          FillTimeout,      \* deadline of a background cache write
          NegativeTTL,      \* MerchantNegativeTTL
          WaitTimeout,      \* merchantLockWaitTimeout
          ReplyDelay,       \* how late the grant of the lock may be seen: REDIS_READ_TIMEOUT
          Free,             \* no lock
          Orphan            \* a lock whose token nobody remembers

ASSUME TimingAssumption ==
    /\ {LockTTL, LegacyTimeout, ReleaseTimeout, FillTimeout} \subseteq Nat
    /\ {NegativeTTL, WaitTimeout, ReplyDelay} \subseteq Nat
    /\ NegativeTTL > 0
    /\ ReleaseTimeout < FillTimeout + NegativeTTL
    /\ Free # Orphan
    /\ Requests \cap {Free, Orphan} = {}

\* How long a lookup may still miss the merchant: a reply decided just before it was
\* registered, cached as late as the code allows, for as long as a negative entry lives.
Staleness == LegacyTimeout + FillTimeout + NegativeTTL

VARIABLES entry,     \* the merchant's Redis entry
          entryAge,  \* time since a negative entry was written
          lock,      \* who holds lock:merchant:<id>
          lockAge,   \* time since the lock was set
          row,       \* the merchant is in PostgreSQL
          since,     \* time since the legacy system knows the merchant; 0 if it does not
          known,     \* the legacy system knows the merchant
          pc,        \* pc[r]: where request r is
          age,       \* age[r]: time request r has spent in a timed step
          held,      \* held[r]: time since Redis granted the lock for the fallback r is in
          got,       \* got[r]: what the legacy system told request r
          answer,    \* answer[r]: the last answer given to r
          fill,      \* fill[r]: the background write request r started
          fillAge    \* fillAge[r]: its age

vars == <<entry, entryAge, lock, lockAge, row, since, known, pc, age, held, got, answer, fill, fillAge>>

PCs == {"idle", "cache", "db", "lock", "wait", "granted", "calling", "releasing"}
Answers == {"none", "found", "notFound", "inProgress", "error"}
Replies == {"none", "merchant", "absent", "error"}

Init ==
    /\ entry = "none" /\ entryAge = 0
    /\ lock = Free /\ lockAge = 0
    /\ row = FALSE /\ known = FALSE /\ since = 0
    /\ pc = [r \in Requests |-> "idle"]
    /\ age = [r \in Requests |-> 0]
    /\ held = [r \in Requests |-> 0]
    /\ got = [r \in Requests |-> "none"]
    /\ answer = [r \in Requests |-> "none"]
    /\ fill = [r \in Requests |-> "none"]
    /\ fillAge = [r \in Requests |-> 0]

redisVars == <<entry, entryAge, lock, lockAge>>
worldVars == <<row, since, known>>
fillVars == <<fill, fillAge>>
stepVars == <<pc, age, held>>

\* The legacy call goes on with the lock its request was granted.
Goto(r, p) ==
    /\ pc' = [pc EXCEPT ![r] = p]
    /\ age' = [age EXCEPT ![r] = 0]
    /\ held' = [held EXCEPT ![r] = IF p = "calling" THEN @ ELSE 0]

\* The lookup returns a to its caller.
Return(r, a) ==
    /\ Goto(r, "idle")
    /\ answer' = [answer EXCEPT ![r] = a]
    /\ got' = [got EXCEPT ![r] = "none"]

-----------------------------------------------------------------------------
(* One lookup *)

\* A lookup starts.  Its slot is free once its last background write ended.
Ask(r) ==
    /\ pc[r] = "idle" /\ fill[r] = "none"
    /\ Goto(r, "cache")
    /\ answer' = [answer EXCEPT ![r] = "none"]
    /\ UNCHANGED <<got, redisVars, worldVars, fillVars>>

\* What the caller is told when Redis or the legacy system says v.
AnswerTo(v) ==
    IF v = "merchant" THEN "found" ELSE IF v = "absent" THEN "notFound" ELSE "error"

\* cache.GetMerchant answers a hit with the merchant and a negative hit with sql.ErrNoRows.
CacheHit(r) ==
    /\ entry # "none"
    /\ Return(r, AnswerTo(entry))

CacheError(r, a) == Return(r, a)

ReadCache(r) ==
    /\ pc[r] = "cache"
    /\ \/ CacheHit(r)
       \/ entry = "none" /\ Goto(r, "db") /\ UNCHANGED <<answer, got>>
       \/ CacheError(r, "error")
    /\ UNCHANGED <<redisVars, worldVars, fillVars>>

\* The goroutine of cacheMerchantAsync or cacheMerchantNotFoundAsync.
FillAsync(r, v) ==
    /\ fill' = [fill EXCEPT ![r] = v]
    /\ fillAge' = [fillAge EXCEPT ![r] = 0]

ReadRow(r) ==
    /\ pc[r] = "db"
    /\ \/ row /\ FillAsync(r, "merchant") /\ Return(r, "found")
       \/ ~row /\ Goto(r, "lock") /\ UNCHANGED <<answer, got, fillVars>>
       \/ Return(r, "error") /\ UNCHANGED fillVars
    /\ UNCHANGED <<redisVars, worldVars>>

SetLock(holder) ==
    /\ lock' = holder
    /\ lockAge' = 0

\* Mutant: SET instead of SETNX keeps the holder's lock but renews its TTL.
ContendRenews(r) ==
    /\ lock # Free
    /\ Goto(r, "wait")
    /\ lockAge' = 0
    /\ UNCHANGED <<lock, answer, got>>

\* The lock is another's.
Contend(r) ==
    /\ lock # Free
    /\ Goto(r, "wait")
    /\ UNCHANGED <<lock, lockAge, answer, got>>

\* SETNX.  When only the reply is lost, the lock is set and its token forgotten: the error is
\* returned, or the Redis client tries again and finds the key taken.
AcquireMerchantLock(r) ==
    /\ pc[r] = "lock"
    /\ \/ /\ lock = Free
          /\ SetLock(r)
          /\ Goto(r, "granted")
          /\ UNCHANGED <<answer, got>>
       \/ Contend(r)
       \/ /\ \/ lock = Free /\ SetLock(Orphan)
             \/ UNCHANGED <<lock, lockAge>>
          /\ Return(r, "error")
       \/ /\ lock = Free
          /\ SetLock(Orphan)
          /\ Goto(r, "wait")
          /\ UNCHANGED <<answer, got>>
    /\ UNCHANGED <<entry, entryAge, worldVars, fillVars>>

\* Mutant: the wait has no deadline.
WaitNeverTimesOut(r) == FALSE /\ CacheError(r, "inProgress")

\* waitForMerchantFill: a poll that finds nothing changes nothing, and the deadline, like a
\* Redis error, ends the wait with ErrLookupInProgress.
WaitTimesOut(r) == CacheError(r, "inProgress")

WaitForMerchantFill(r) ==
    /\ pc[r] = "wait"
    /\ CacheHit(r) \/ WaitTimesOut(r)
    /\ UNCHANGED <<redisVars, worldVars, fillVars>>

\* The grant arrives and the legacy call begins.
CallLegacy(r) ==
    /\ pc[r] = "granted"
    /\ Goto(r, "calling")
    /\ UNCHANGED <<got, answer, redisVars, worldVars, fillVars>>

\* The legacy system decides; the reply is still on its way.
LegacyDecides(r) ==
    /\ pc[r] = "calling" /\ got[r] = "none"
    /\ \E v \in {IF known THEN "merchant" ELSE "absent", "error"} : got' = [got EXCEPT ![r] = v]
    /\ UNCHANGED <<stepVars, answer, redisVars, worldVars, fillVars>>

\* Mutant: an outage is cached like an authoritative absence.
LegacyReturnsCachesOutage(r) ==
    /\ pc[r] = "calling"
    /\ Goto(r, "releasing")
    /\ FillAsync(r, IF got[r] = "merchant" THEN "merchant" ELSE "absent")
    /\ UNCHANGED <<got, answer, redisVars, worldVars>>

\* legacy.GetMerchant returns: its reply, or an error by the deadline.  Only an authoritative
\* reply is cached, before the deferred release runs.
LegacyReturns(r) ==
    /\ pc[r] = "calling"
    /\ Goto(r, "releasing")
    /\ \/ got[r] \in {"merchant", "absent"} /\ FillAsync(r, got[r]) /\ UNCHANGED got
       \/ got' = [got EXCEPT ![r] = "error"] /\ UNCHANGED fillVars
    /\ UNCHANGED <<answer, redisVars, worldVars>>

\* Mutant: DEL without comparing the token.
ReleaseAnyLock(r) == lock' = Free /\ lockAge' = 0

\* Compare the token and delete.
ReleaseMerchantLock(r) ==
    IF lock = r THEN lock' = Free /\ lockAge' = 0
                ELSE UNCHANGED <<lock, lockAge>>

\* The deferred release, whose error is ignored, and the answer.
Release(r) ==
    /\ pc[r] = "releasing"
    /\ \/ ReleaseMerchantLock(r)
       \/ /\ lock' = IF lock = r THEN Orphan ELSE lock
          /\ UNCHANGED lockAge
    /\ Return(r, AnswerTo(got[r]))
    /\ UNCHANGED <<entry, entryAge, worldVars, fillVars>>

\* The process serving r dies, and with it r's background write.
Die(r) ==
    /\ pc[r] # "idle" \/ fill[r] # "none"
    /\ Return(r, "error")
    /\ lock' = IF lock = r THEN Orphan ELSE lock
    /\ fill' = [fill EXCEPT ![r] = "none"]
    /\ fillAge' = [fillAge EXCEPT ![r] = 0]
    /\ UNCHANGED <<entry, entryAge, lockAge, worldVars>>

-----------------------------------------------------------------------------
(* The cache and the world *)

\* SetMerchant or SetMerchantNotFound lands, or fails by its deadline.
FillLands(r) ==
    /\ fill[r] # "none"
    /\ \/ entry' = fill[r] /\ entryAge' = 0
       \/ UNCHANGED <<entry, entryAge>>
    /\ fill' = [fill EXCEPT ![r] = "none"]
    /\ fillAge' = [fillAge EXCEPT ![r] = 0]
    /\ UNCHANGED <<lock, lockAge, worldVars, stepVars, got, answer>>

\* POST /internal/cache/invalidate, or the end of a positive entry's 24 h.
DeleteMerchant ==
    /\ entry # "none"
    /\ entry' = "none" /\ entryAge' = 0
    /\ UNCHANGED <<lock, lockAge, worldVars, stepVars, got, answer, fillVars>>

\* The merchant is registered with the legacy system.
Register ==
    /\ ~known
    /\ known' = TRUE
    /\ UNCHANGED <<row, since, redisVars, stepVars, got, answer, fillVars>>

\* resolveMerchant copies a merchant the legacy system knows into PostgreSQL.
CreateMerchant ==
    /\ known /\ ~row
    /\ row' = TRUE
    /\ UNCHANGED <<known, since, redisVars, stepVars, got, answer, fillVars>>

InFallback(r) == pc[r] \in {"granted", "calling"}
Timed(r) == pc[r] \in {"granted", "calling", "releasing", "wait"}

\* The deadline of the step request r is in has not come.
DeadlineAhead(r) ==
    /\ pc[r] = "granted" => age[r] < ReplyDelay
    /\ pc[r] = "calling" => age[r] < LegacyTimeout
    /\ pc[r] = "releasing" => age[r] < ReleaseTimeout
    /\ pc[r] = "wait" => age[r] < WaitTimeout

\* Mutant: the lock is set without a TTL.
LockNeverExpires == FALSE

LockExpires == lock # Free /\ lockAge + 1 >= LockTTL
EntryExpires == entry = "absent" /\ entryAge + 1 >= NegativeTTL

Tick ==
    /\ \A r \in Requests : DeadlineAhead(r)
    /\ \A r \in Requests : fill[r] # "none" => fillAge[r] < FillTimeout
    /\ age' = [r \in Requests |-> IF Timed(r) THEN age[r] + 1 ELSE 0]
    /\ held' = [r \in Requests |-> IF InFallback(r) THEN held[r] + 1 ELSE 0]
    /\ fillAge' = [r \in Requests |-> IF fill[r] # "none" THEN fillAge[r] + 1 ELSE 0]
    /\ lock' = IF LockExpires THEN Free ELSE lock
    /\ lockAge' = IF lock = Free \/ LockExpires THEN 0 ELSE lockAge + 1
    /\ entry' = IF EntryExpires THEN "none" ELSE entry
    /\ entryAge' = IF entry = "absent" /\ ~EntryExpires THEN entryAge + 1 ELSE 0
    /\ since' = IF known /\ since < Staleness THEN since + 1 ELSE since
    /\ UNCHANGED <<row, known, pc, got, answer, fill>>

GetMerchant(r) ==
    \/ ReadCache(r) \/ ReadRow(r) \/ AcquireMerchantLock(r) \/ WaitForMerchantFill(r)
    \/ CallLegacy(r) \/ LegacyDecides(r) \/ LegacyReturns(r) \/ Release(r)

Next ==
    \/ \E r \in Requests : Ask(r) \/ GetMerchant(r) \/ FillLands(r) \/ Die(r)
    \/ DeleteMerchant \/ Register \/ CreateMerchant \/ Tick

Spec == Init /\ [][Next]_vars

\* Every call of the code ends by its deadline, and time does not stop.
FairSpec ==
    /\ Spec
    /\ \A r \in Requests : WF_vars(GetMerchant(r)) /\ WF_vars(FillLands(r))
    /\ SF_vars(Tick)

-----------------------------------------------------------------------------
(* Properties *)

TypeOK ==
    /\ entry \in {"none", "merchant", "absent"}
    /\ entryAge \in 0..NegativeTTL
    /\ lock \in Requests \cup {Free, Orphan}
    /\ lockAge \in 0..LockTTL
    /\ row \in BOOLEAN /\ known \in BOOLEAN
    /\ since \in 0..Staleness
    /\ pc \in [Requests -> PCs]
    /\ age \in [Requests -> Nat]
    /\ held \in [Requests -> Nat]
    /\ got \in [Requests -> Replies]
    /\ answer \in [Requests -> Answers]
    /\ fill \in [Requests -> {"none", "merchant", "absent"}]
    /\ fillAge \in [Requests -> 0..FillTimeout]

\* What the lock gives whatever the deadlines: requests that are in the fallback at the same
\* time were granted the lock at least LockTTL apart.  A second fallback for one merchant
\* begins only when the first has outlived its lock; no late release, lost reply or death lets
\* one in earlier.
FallbacksAreSpaced ==
    \A r, s \in Requests :
        InFallback(r) /\ InFallback(s) /\ r # s =>
            held[r] >= held[s] + LockTTL \/ held[s] >= held[r] + LockTTL

\* cache_strategies.md: "Only one request is allowed to perform fallback work."
OneFallback ==
    \A r, s \in Requests : pc[r] = "calling" /\ pc[s] = "calling" => r = s

\* An answer "not found" is stale by less than the legacy deadline, the write deadline and the
\* negative TTL together: outages are not cached as absence and negative entries die.
NotFoundIsRecent ==
    [][\A r \in Requests :
         answer'[r] = "notFound" /\ answer[r] # "notFound" => since < Staleness]_vars

\* No lock blocks lookups for good, be its holder dead or its release lost.
LockIsReleased == []<>(lock = Free)

\* Every lookup is answered, the ones that wait for another's fill included.
LookupsAnswered == \A r \in Requests : pc[r] # "idle" ~> pc[r] = "idle"
=============================================================================
