------------------------ MODULE CircuitBreakerProofs ------------------------
(***************************************************************************)
(* Proofs about CircuitBreaker for any set of callers and any thresholds.  *)
(***************************************************************************)
EXTENDS CircuitBreaker, TLAPS

(***************************************************************************)
(* The counters and the state agree; inductive as it stands.               *)
(***************************************************************************)
CounterInv == TypeOK /\ ClosedBelowThreshold /\ ProbesBelongToHalfOpen

\* Init establishes the counter invariant.
LEMMA CounterInit == Init => CounterInv
BY ThresholdAssumption
   DEF Init, CounterInv, TypeOK, ClosedBelowThreshold, ProbesBelongToHalfOpen,
       States, CallerStates

\* Every step preserves the counter invariant.
LEMMA CounterStep == CounterInv /\ [Next]_vars => CounterInv'
<1> SUFFICES ASSUME CounterInv, [Next]_vars
             PROVE  CounterInv'
  OBVIOUS
<1> USE ThresholdAssumption
        DEF CounterInv, TypeOK, ClosedBelowThreshold, ProbesBelongToHalfOpen,
            States, CallerStates
<1>1. ASSUME NEW c \in Callers, Admit(c)
      PROVE  CounterInv'
  BY <1>1 DEF Admit, allowRequest
<1>2. ASSUME NEW c \in Callers, Block(c)
      PROVE  CounterInv'
  BY <1>2 DEF Block
<1>3. ASSUME NEW c \in Callers, CallSucceeds(c)
      PROVE  CounterInv'
  BY <1>3 DEF CallSucceeds, recordSuccess
<1>4. ASSUME NEW c \in Callers, CallFails(c)
      PROVE  CounterInv'
  BY <1>4 DEF CallFails, recordFailure
<1>5. CASE Tick
  BY <1>5 DEF Tick
<1>6. CASE UNCHANGED vars
  BY <1>6 DEF vars
<1>. QED
  BY <1>1, <1>2, <1>3, <1>4, <1>5, <1>6 DEF Next

\* Types are preserved by every interleaving of calls (circuitbreaker.go, the
\* whole state guarded by mu), in particular a probe counter below its threshold.
THEOREM TypeCorrect == Spec => []TypeOK
<1>1. CounterInv => TypeOK
  BY DEF CounterInv
<1>. QED
  BY <1>1, CounterInit, CounterStep, PTL DEF Spec

\* CLOSED always leaves a failure to spend, however late earlier calls record theirs.
THEOREM ClosedHasFailuresLeft == Spec => []ClosedBelowThreshold
<1>1. CounterInv => ClosedBelowThreshold
  BY DEF CounterInv
<1>. QED
  BY <1>1, CounterInit, CounterStep, PTL DEF Spec

\* Successes are only counted in the current half-open period: none of an earlier one is left
\* over to close the breaker, however late a call that began in it records its result.
THEOREM ProbesAreCurrent == Spec => []ProbesBelongToHalfOpen
<1>1. CounterInv => ProbesBelongToHalfOpen
  BY DEF CounterInv
<1>. QED
  BY <1>1, CounterInit, CounterStep, PTL DEF Spec

\* The breaker closes only through HALF_OPEN, and half-opens only from OPEN after
\* the timeout (allowRequest, recordSuccess, recordFailure taken together).
THEOREM OnlyLegalTransitions == Spec => LegalTransitions
<1> DEFINE Legal ==
       /\ (state = "OPEN" /\ state' # "OPEN") => state' = "HALF_OPEN" /\ openAge = OpenTimeout
       /\ (state = "CLOSED" /\ state' # "CLOSED") => state' = "OPEN"
<1>1. CounterInv /\ [Next]_vars => [Legal]_vars
  <2> SUFFICES ASSUME CounterInv, Next
               PROVE  Legal
    OBVIOUS
  <2> USE ThresholdAssumption DEF CounterInv, TypeOK
  <2>1. ASSUME NEW c \in Callers, Admit(c)
        PROVE  Legal
    BY <2>1 DEF Admit, allowRequest
  <2>2. ASSUME NEW c \in Callers, Block(c)
        PROVE  Legal
    BY <2>2 DEF Block
  <2>3. ASSUME NEW c \in Callers, CallSucceeds(c)
        PROVE  Legal
    BY <2>3 DEF CallSucceeds, recordSuccess
  <2>4. ASSUME NEW c \in Callers, CallFails(c)
        PROVE  Legal
    BY <2>4 DEF CallFails, recordFailure
  <2>5. CASE Tick
    BY <2>5 DEF Tick
  <2>. QED
    BY <2>1, <2>2, <2>3, <2>4, <2>5 DEF Next
<1>. QED
  BY <1>1, CounterInit, CounterStep, PTL DEF Spec, LegalTransitions

-----------------------------------------------------------------------------
(***************************************************************************)
(* With one caller at a time, the only call in flight outside CLOSED is    *)
(* the probe that half-opened the breaker, so no late success can erase    *)
(* the failures that opened it.                                            *)
(***************************************************************************)
SequentialInv ==
    /\ CounterInv
    /\ state # "CLOSED" => failureCount = FailureThreshold
    /\ state = "OPEN" => \A c \in Callers : caller[c] # "calling"

\* With a single caller every step preserves the sequential invariant.
LEMMA SequentialStep ==
    ASSUME \A c, d \in Callers : c = d
    PROVE  SequentialInv /\ [Next]_vars => SequentialInv'
<1> SUFFICES ASSUME SequentialInv, [Next]_vars
             PROVE  SequentialInv'
  OBVIOUS
<1>0. CounterInv'
  BY CounterStep DEF SequentialInv
<1> USE <1>0, ThresholdAssumption
        DEF SequentialInv, CounterInv, TypeOK, States, CallerStates
<1>1. ASSUME NEW c \in Callers, Admit(c)
      PROVE  SequentialInv'
  BY <1>1 DEF Admit, allowRequest
<1>2. ASSUME NEW c \in Callers, Block(c)
      PROVE  SequentialInv'
  BY <1>2 DEF Block
<1>3. ASSUME NEW c \in Callers, CallSucceeds(c)
      PROVE  SequentialInv'
  BY <1>3 DEF CallSucceeds, recordSuccess
<1>4. ASSUME NEW c \in Callers, CallFails(c)
      PROVE  SequentialInv'
  BY <1>4 DEF CallFails, recordFailure
<1>5. CASE Tick
  BY <1>5 DEF Tick
<1>6. CASE UNCHANGED vars
  BY <1>6 DEF vars
<1>. QED
  BY <1>1, <1>2, <1>3, <1>4, <1>5, <1>6 DEF Next

\* What circuitbreaker_test.go states, "Failure in HalfOpen should transition
\* back to Open", holds for every threshold when calls do not overlap (and only
\* then: the late-success run refutes it with two callers).
THEOREM SequentialHalfOpenFailureReopens ==
    ASSUME \A c, d \in Callers : c = d
    PROVE  Spec => HalfOpenFailureReopens
<1> DEFINE Reopens ==
       \A c \in Callers : state = "HALF_OPEN" /\ CallFails(c) => state' = "OPEN"
<1>1. Init => SequentialInv
  BY CounterInit DEF Init, SequentialInv
<1>2. SequentialInv /\ [Next]_vars => [Reopens]_vars
  BY ThresholdAssumption
     DEF SequentialInv, CounterInv, TypeOK, CallFails, recordFailure
<1>. QED
  BY <1>1, <1>2, SequentialStep, PTL DEF Spec, HalfOpenFailureReopens
=============================================================================
