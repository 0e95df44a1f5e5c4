--------------------------- MODULE CircuitBreaker ---------------------------
(***************************************************************************)
(* The circuit breaker in front of the legacy merchant lookup              *)
(* (internal/legacy/circuitbreaker.go), shared by every goroutine that     *)
(* serves a request.  The mutex makes allowRequest, recordSuccess and      *)
(* recordFailure atomic, one at a time; the protected operation runs       *)
(* between them with the mutex released, so a caller's result is recorded  *)
(* in whatever state the breaker has reached by then.                      *)
(*                                                                         *)
(* Time is counted in ticks: openAge is time.Since(openedAt), capped at    *)
(* OpenTimeout, where the code stops telling ages apart.  In the same way  *)
(* failureCount is capped at FailureThreshold: the code only compares it   *)
(* with >= and resets it.                                                  *)
(***************************************************************************)
EXTENDS Integers

CONSTANTS Callers,            \* goroutines that call through the breaker
          FailureThreshold,
          SuccessThreshold,
          OpenTimeout         \* in ticks

\* NewCircuitBreaker replaces every non-positive setting by a default.
ASSUME ThresholdAssumption ==
    /\ FailureThreshold \in Nat \ {0}
    /\ SuccessThreshold \in Nat \ {0}
    /\ OpenTimeout \in Nat \ {0}

VARIABLES state, failureCount, successCount, openAge, caller

vars == <<state, failureCount, successCount, openAge, caller>>

States == {"CLOSED", "OPEN", "HALF_OPEN"}
CallerStates == {"idle", "calling", "blocked"}

-----------------------------------------------------------------------------
\* NewCircuitBreaker: closed, counters and openedAt at their zero values; the
\* zero openedAt lies further back than any timeout.
Init ==
    /\ state = "CLOSED"
    /\ failureCount = 0
    /\ successCount = 0
    /\ openAge = OpenTimeout
    /\ caller = [c \in Callers |-> "idle"]

\* Mutant: the breaker closes instead of half-opening.
allowRequestCloses ==
    IF state # "OPEN"
    THEN UNCHANGED <<state, successCount>>
    ELSE openAge >= OpenTimeout /\ state' = "CLOSED" /\ successCount' = 0

\* Mutant: the elapsed time has to exceed the timeout, never reaching it.
allowRequestNeverExpires ==
    IF state # "OPEN"
    THEN UNCHANGED <<state, successCount>>
    ELSE openAge > OpenTimeout /\ state' = "HALF_OPEN" /\ successCount' = 0

\* The request is admitted (allowRequest returns nil).
allowRequest ==
    \/ /\ state # "OPEN"
       /\ UNCHANGED <<state, successCount>>
    \/ /\ state = "OPEN"
       /\ openAge >= OpenTimeout
       /\ state' = "HALF_OPEN"
       /\ successCount' = 0

\* Mutant: the threshold test is > instead of >=.
recordSuccessOffByOne ==
    IF state = "HALF_OPEN"
    THEN IF successCount + 1 > SuccessThreshold
         THEN state' = "CLOSED" /\ failureCount' = 0 /\ successCount' = 0
         ELSE successCount' = successCount + 1 /\ UNCHANGED <<state, failureCount>>
    ELSE failureCount' = 0 /\ UNCHANGED <<state, successCount>>

\* Mutant: closing the breaker forgets to reset failureCount.
recordSuccessKeepsFailures ==
    IF state = "HALF_OPEN"
    THEN IF successCount + 1 >= SuccessThreshold
         THEN state' = "CLOSED" /\ successCount' = 0 /\ UNCHANGED failureCount
         ELSE successCount' = successCount + 1 /\ UNCHANGED <<state, failureCount>>
    ELSE failureCount' = 0 /\ UNCHANGED <<state, successCount>>

recordSuccess ==
    \/ /\ state = "HALF_OPEN"
       /\ successCount + 1 >= SuccessThreshold
       /\ state' = "CLOSED"
       /\ failureCount' = 0
       /\ successCount' = 0
    \/ /\ state = "HALF_OPEN"
       /\ successCount + 1 < SuccessThreshold
       /\ successCount' = successCount + 1
       /\ UNCHANGED <<state, failureCount>>
    \/ /\ state # "HALF_OPEN"      \* OPEN too: a late answer
       /\ failureCount' = 0
       /\ UNCHANGED <<state, successCount>>

\* Mutant: tripping leaves the probe counter as it was.
recordFailureKeepsSuccesses ==
    IF failureCount + 1 >= FailureThreshold
    THEN /\ state' = "OPEN" /\ failureCount' = FailureThreshold
         /\ openAge' = 0 /\ UNCHANGED successCount
    ELSE failureCount' = failureCount + 1 /\ UNCHANGED <<state, successCount, openAge>>

recordFailure ==
    \/ /\ failureCount + 1 >= FailureThreshold
       /\ failureCount' = FailureThreshold
       /\ state' = "OPEN"
       /\ openAge' = 0
       /\ successCount' = 0
    \/ /\ failureCount + 1 < FailureThreshold
       /\ failureCount' = failureCount + 1
       /\ UNCHANGED <<state, successCount, openAge>>

-----------------------------------------------------------------------------
\* Execute and ExecuteWithValue: admission, then the operation outside the lock.
Admit(c) ==
    /\ caller[c] # "calling"
    /\ allowRequest
    /\ caller' = [caller EXCEPT ![c] = "calling"]
    /\ UNCHANGED <<failureCount, openAge>>

\* Mutant: an open breaker may refuse a request whatever time has passed.
BlockIgnoresTimeout(c) ==
    /\ caller[c] # "calling"
    /\ state = "OPEN"
    /\ caller' = [caller EXCEPT ![c] = "blocked"]
    /\ UNCHANGED <<state, failureCount, successCount, openAge>>

\* allowRequest returns ErrCircuitOpen; the operation is not called.
Block(c) ==
    /\ caller[c] # "calling"
    /\ state = "OPEN"
    /\ openAge < OpenTimeout
    /\ caller' = [caller EXCEPT ![c] = "blocked"]
    /\ UNCHANGED <<state, failureCount, successCount, openAge>>

CallSucceeds(c) ==
    /\ caller[c] = "calling"
    /\ recordSuccess
    /\ caller' = [caller EXCEPT ![c] = "idle"]
    /\ UNCHANGED openAge

\* Any error counts, ErrNotFound of an unknown merchant included.
CallFails(c) ==
    /\ caller[c] = "calling"
    /\ recordFailure
    /\ caller' = [caller EXCEPT ![c] = "idle"]

Tick ==
    /\ openAge < OpenTimeout
    /\ openAge' = openAge + 1
    /\ UNCHANGED <<state, failureCount, successCount, caller>>

Next ==
    \/ \E c \in Callers : Admit(c) \/ Block(c) \/ CallSucceeds(c) \/ CallFails(c)
    \/ Tick

Spec == Init /\ [][Next]_vars

\* Time passes, every call returns (the HTTP client has a timeout), and some
\* request keeps arriving.
Fairness ==
    /\ WF_vars(Tick)
    /\ \A c \in Callers : WF_vars(CallSucceeds(c) \/ CallFails(c))
    /\ \A c \in Callers : WF_vars(Admit(c))

FairSpec == Spec /\ Fairness

-----------------------------------------------------------------------------
\* Every variable keeps its type; a probe counter at its threshold would
\* mean that the breaker failed to close.
TypeOK ==
    /\ state \in States
    /\ failureCount \in 0..FailureThreshold
    /\ successCount \in 0..(SuccessThreshold - 1)
    /\ openAge \in 0..OpenTimeout
    /\ caller \in [Callers -> CallerStates]

\* A closed breaker has at least one failure left before it opens: whatever the order
\* in which late results of earlier calls are recorded, CLOSED is never entered
\* or kept with the failure threshold already reached.
ClosedBelowThreshold == state = "CLOSED" => failureCount < FailureThreshold

\* Successes are counted for the current half-open period only: no success
\* recorded before a re-opening helps to close the breaker after it.
ProbesBelongToHalfOpen == successCount # 0 => state = "HALF_OPEN"

\* The breaker closes only from HALF_OPEN, and half-opens only from OPEN with
\* the open timeout elapsed since the last failure that (re)opened it.
LegalTransitions ==
    [][ /\ (state = "OPEN" /\ state' # "OPEN") => state' = "HALF_OPEN" /\ openAge = OpenTimeout
        /\ (state = "CLOSED" /\ state' # "CLOSED") => state' = "OPEN" ]_vars

\* circuitbreaker_test.go: "Failure in HalfOpen should transition back to Open".
HalfOpenFailureReopens ==
    [][ \A c \in Callers : state = "HALF_OPEN" /\ CallFails(c) => state' = "OPEN" ]_vars

\* Once failures cease for good, the breaker closes and stays closed: late
\* answers, blocked requests and half-open periods cannot keep it open.
Recovers ==
    <>[][ \A c \in Callers : ~ CallFails(c) ]_vars => <>[](state = "CLOSED")
=============================================================================
