--------------------------- MODULE WorkQueueProofs ---------------------------
(***************************************************************************)
(* Proofs about WorkQueueHistory, for any jobs, workers, retry limit and   *)
(* bounds on faults.                                                       *)
(***************************************************************************)
EXTENDS WorkQueueHistory, WorkQueueFacts

-----------------------------------------------------------------------------
\* Every step keeps the types.
LEMMA TypeStep == TypeOK /\ [Next]_vars => TypeOK'
<1> SUFFICES ASSUME TypeOK, [Next]_vars
             PROVE  TypeOK'
  OBVIOUS
<1> USE QueueAssumption DEF TypeOK, QueueTypeOK, ConsumerStates
<1>1. ASSUME NEW j \in Jobs, Publish(j)
      PROVE  TypeOK'
  BY <1>1, FreshFacts, PutFacts DEF Publish, Enqueue
<1>2. ASSUME NEW w \in Workers, StartJob(w)
      PROVE  TypeOK'
  <2>1. PICK m \in Msg : /\ ready[m] > 0
                         /\ ready' = Take(ready, m)
                         /\ delivery' = [delivery EXCEPT ![w] = m]
    BY <1>2 DEF StartJob, Deliver
  <2>2. ready' \in [Msg -> Nat] /\ m.job \in Jobs
    BY <2>1, TakeFacts, RetryFacts
  <2>3. delivery'[w] = m
    BY <2>1
  <2>. QED
    BY <1>2, <2>1, <2>2, <2>3 DEF StartJob, Deliver
<1>3. ASSUME NEW w \in Workers, HandlerOK(w)
      PROVE  TypeOK'
  BY <1>3, HoldsMessage, RetryFacts DEF HandlerOK, Return
<1>4. ASSUME NEW w \in Workers, HandlerFails(w)
      PROVE  TypeOK'
  BY <1>4, HoldsMessage, RetryFacts DEF HandlerFails, Return
<1>5. ASSUME NEW w \in Workers, Settle(w), UNCHANGED history
      PROVE  TypeOK'
  <2> USE <1>5 DEF history, Finish
  <2>1. CASE AckDone(w)
    BY <2>1 DEF AckDone
  <2>2. CASE DeadLetterMalformed(w)
    BY <2>2, HoldsMessage, PutFacts DEF DeadLetterMalformed
  <2>3. CASE DeadLetter(w)
    BY <2>3, HoldsMessage, PutFacts DEF DeadLetter
  <2>4. CASE PublishRetry(w)
    BY <2>4, HoldsMessage, RetryFacts, PutFacts DEF PublishRetry
  <2>5. CASE AckRetried(w)
    BY <2>5 DEF AckRetried
  <2>6. CASE NackRequeue(w)
    BY <2>6, HoldsMessage, PutFacts DEF NackRequeue, Fault
  <2>7. CASE SettleOnClosed(w)
    BY <2>7 DEF SettleOnClosed
  <2>. QED
    BY <2>1, <2>2, <2>3, <2>4, <2>5, <2>6, <2>7 DEF Settle
<1>6. ASSUME NEW w \in Workers, Reconnect(w), UNCHANGED history
      PROVE  TypeOK'
  BY <1>6 DEF Reconnect, history
<1>7. ASSUME NEW w \in Workers, SessionLost(w), UNCHANGED history
      PROVE  TypeOK'
  BY <1>7, HoldsMessage, PutFacts DEF SessionLost, Requeued, Fault, history
<1>8. ASSUME NEW w \in Workers, Crash(w), UNCHANGED history
      PROVE  TypeOK'
  BY <1>8, HoldsMessage, PutFacts DEF Crash, Requeued, Fault, history
<1>9. ASSUME NEW m \in Msg, RetryExpires(m), UNCHANGED history
      PROVE  TypeOK'
  BY <1>9, TakeFacts, PutFacts DEF RetryExpires, history
<1>10. ASSUME BrokerRestart, UNCHANGED history
       PROVE  TypeOK'
  BY <1>10, EmptyFacts DEF BrokerRestart, history
<1>11. CASE UNCHANGED vars
  BY <1>11 DEF vars, queueVars, history
<1>. QED
  BY <1>1, <1>2, <1>3, <1>4, <1>5, <1>6, <1>7, <1>8, <1>9, <1>10, <1>11 DEF Next

\* Init has the right types.
LEMMA TypeInit == Init => TypeOK
BY QueueAssumption, EmptyFacts
   DEF Init, QueueInit, TypeOK, QueueTypeOK, ConsumerStates

\* Queue contents, deliveries and counters keep their types in every behaviour of
\* publisher, consumer loops and broker.
THEOREM TypeCorrect == Spec => []TypeOK
BY TypeInit, TypeStep, PTL DEF Spec

-----------------------------------------------------------------------------
(***************************************************************************)
(* The header of a message never claims more retries than its job has had  *)
(* failures: the strengthening that makes DeadOnlyAfterExhaustion          *)
(* inductive.  A worker about to settle a failure has one more to show.    *)
(***************************************************************************)
QueuedCountHonest ==
    \A m \in Msg : ready[m] > 0 \/ retrying[m] > 0 => fails[m.job] >= m.retries

DeliveredCountHonest ==
    \A w \in Workers :
        /\ consumer[w] # "waiting" => fails[delivery[w].job] >= delivery[w].retries
        /\ consumer[w] = "failed" => fails[delivery[w].job] >= delivery[w].retries + 1

CountInv ==
    TypeOK /\ QueuedCountHonest /\ DeliveredCountHonest /\ DeadOnlyAfterExhaustion

\* Every step keeps the counts honest.
LEMMA CountStep == CountInv /\ [Next]_vars => CountInv'
<1> SUFFICES ASSUME CountInv, [Next]_vars
             PROVE  CountInv'
  OBVIOUS
<1>0. TypeOK /\ TypeOK'
  BY TypeStep DEF CountInv
<1> USE <1>0, QueueAssumption
        DEF CountInv, QueuedCountHonest, DeliveredCountHonest, DeadOnlyAfterExhaustion,
            TypeOK, QueueTypeOK
<1>1. ASSUME NEW j \in Jobs, Publish(j)
      PROVE  CountInv'
  <2> DEFINE fresh == [job |-> j, retries |-> 0]
  <2>1. \A m \in Msg : ready'[m] > 0 => m = fresh \/ ready[m] > 0
    BY <1>1, FreshFacts, PutFacts DEF Publish, Enqueue
  <2>2. fails[fresh.job] >= fresh.retries
    BY FreshFacts
  <2>3. QueuedCountHonest'
    BY <1>1, <2>1, <2>2 DEF Publish, Enqueue
  <2>. QED
    BY <1>1, <2>3 DEF Publish, Enqueue
<1>2. ASSUME NEW w \in Workers, StartJob(w)
      PROVE  CountInv'
  <2>1. PICK m \in Msg : /\ ready[m] > 0
                         /\ ready' = Take(ready, m)
                         /\ delivery' = [delivery EXCEPT ![w] = m]
    BY <1>2 DEF StartJob, Deliver
  <2>2. \A n \in Msg : ready'[n] > 0 => ready[n] > 0
    BY <2>1, TakeFacts
  <2>. QED
    BY <1>2, <2>1, <2>2, RetryFacts DEF StartJob, Deliver
<1>3. ASSUME NEW w \in Workers, HandlerOK(w)
      PROVE  CountInv'
  BY <1>3 DEF HandlerOK, Return
<1>4. ASSUME NEW w \in Workers, HandlerFails(w)
      PROVE  CountInv'
  <2>1. delivery[w] \in Msg /\ delivery[w].job \in Jobs /\ delivery[w].retries \in Nat
    BY <1>4, HoldsMessage, RetryFacts DEF HandlerFails, Return
  <2>2. /\ \A j \in Jobs : fails'[j] >= fails[j]
        /\ fails'[delivery[w].job] = fails[delivery[w].job] + 1
    BY <1>4, <2>1 DEF HandlerFails
  <2>3. QueuedCountHonest' /\ DeadOnlyAfterExhaustion'
    BY <1>4, <2>2, RetryFacts DEF HandlerFails, Return
  <2>4. DeliveredCountHonest'
    <3> SUFFICES ASSUME NEW v \in Workers, consumer'[v] # "waiting"
                 PROVE  /\ fails'[delivery[v].job] >= delivery[v].retries
                        /\ consumer'[v] = "failed" =>
                              fails'[delivery[v].job] >= delivery[v].retries + 1
      BY <1>4 DEF HandlerFails, Return
    <3>1. consumer[v] # "waiting"
      BY <1>4 DEF HandlerFails, Return
    <3>2. delivery[v].job \in Jobs /\ delivery[v].retries \in Nat
      BY <3>1, HoldsMessage, RetryFacts
    <3>3. CASE v = w
      BY <3>1, <3>3, <2>1, <2>2
    <3>4. CASE v # w
      BY <1>4, <3>1, <3>2, <3>4, <2>2 DEF HandlerFails, Return
    <3>. QED
      BY <3>3, <3>4
  <2>. QED
    BY <2>3, <2>4
<1>5. ASSUME NEW w \in Workers, Settle(w), UNCHANGED history
      PROVE  CountInv'
  <2> USE <1>5 DEF history, Finish
  <2>1. CASE AckDone(w)
    BY <2>1 DEF AckDone
  <2>2. CASE DeadLetterMalformed(w)
    BY <2>2, HoldsMessage, PutFacts DEF DeadLetterMalformed
  <2>3. CASE DeadLetter(w)
    <3>1. /\ delivery[w] \in Msg
          /\ delivery[w].retries = MaxRetries
          /\ fails[delivery[w].job] >= MaxRetries + 1
      BY <2>3, HoldsMessage, RetryFacts DEF DeadLetter
    <3>2. \A m \in Msg : dead'[m] > 0 => m = delivery[w] \/ dead[m] > 0
      BY <2>3, <3>1, PutFacts DEF DeadLetter
    <3>3. DeadOnlyAfterExhaustion'
      BY <2>3, <3>1, <3>2 DEF DeadLetter
    <3>4. QueuedCountHonest' /\ DeliveredCountHonest'
      BY <2>3 DEF DeadLetter
    <3>. QED
      BY <3>3, <3>4
  <2>4. CASE PublishRetry(w)
    <3> DEFINE copy == Retry(delivery[w])
    <3>1. /\ delivery[w] \in Msg
          /\ copy \in Msg
          /\ fails[copy.job] >= copy.retries
      BY <2>4, HoldsMessage, RetryFacts DEF PublishRetry
    <3>2. \A m \in Msg : retrying'[m] > 0 => m = copy \/ retrying[m] > 0
      BY <2>4, <3>1, PutFacts DEF PublishRetry
    <3>3. QueuedCountHonest'
      BY <2>4, <3>1, <3>2 DEF PublishRetry
    <3>4. DeliveredCountHonest' /\ DeadOnlyAfterExhaustion'
      BY <2>4 DEF PublishRetry
    <3>. QED
      BY <3>3, <3>4
  <2>5. CASE AckRetried(w)
    BY <2>5 DEF AckRetried
  <2>6. CASE NackRequeue(w)
    <3>1. /\ delivery[w] \in Msg
          /\ fails[delivery[w].job] >= delivery[w].retries
      BY <2>6, HoldsMessage DEF NackRequeue
    <3>2. \A m \in Msg : ready'[m] > 0 => m = delivery[w] \/ ready[m] > 0
      BY <2>6, <3>1, PutFacts DEF NackRequeue
    <3>3. QueuedCountHonest'
      BY <2>6, <3>1, <3>2 DEF NackRequeue
    <3>4. DeliveredCountHonest' /\ DeadOnlyAfterExhaustion'
      BY <2>6 DEF NackRequeue
    <3>. QED
      BY <3>3, <3>4
  <2>7. CASE SettleOnClosed(w)
    BY <2>7 DEF SettleOnClosed
  <2>. QED
    BY <2>1, <2>2, <2>3, <2>4, <2>5, <2>6, <2>7 DEF Settle
<1>6. ASSUME NEW w \in Workers, Reconnect(w), UNCHANGED history
      PROVE  CountInv'
  BY <1>6 DEF Reconnect, history
<1>7. ASSUME NEW w \in Workers, SessionLost(w), UNCHANGED history
      PROVE  CountInv'
  BY <1>7, HoldsMessage, PutFacts DEF SessionLost, Requeued, history
<1>8. ASSUME NEW w \in Workers, Crash(w), UNCHANGED history
      PROVE  CountInv'
  BY <1>8, HoldsMessage, PutFacts DEF Crash, Requeued, history
<1>9. ASSUME NEW m \in Msg, RetryExpires(m), UNCHANGED history
      PROVE  CountInv'
  BY <1>9, TakeFacts, PutFacts DEF RetryExpires, history
<1>10. ASSUME BrokerRestart, UNCHANGED history
       PROVE  CountInv'
  BY <1>10, EmptyFacts DEF BrokerRestart, history
<1>11. CASE UNCHANGED vars
  BY <1>11 DEF vars, queueVars, history
<1>. QED
  BY <1>1, <1>2, <1>3, <1>4, <1>5, <1>6, <1>7, <1>8, <1>9, <1>10, <1>11 DEF Next

\* runSession dead-letters a well-formed job only after 1 + maxRetryAttempts failed
\* runs of its handler, although counts travel in headers that faults can replay.
THEOREM DeadLettersAreExhausted == Spec => []DeadOnlyAfterExhaustion
<1>1. Init => CountInv
  BY TypeInit, EmptyFacts
     DEF Init, QueueInit, CountInv, QueuedCountHonest, DeliveredCountHonest,
         DeadOnlyAfterExhaustion
<1>2. CountInv => DeadOnlyAfterExhaustion
  BY DEF CountInv
<1>. QED
  BY <1>1, <1>2, CountStep, PTL DEF Spec

-----------------------------------------------------------------------------
\* What still guarantees that job j will be worked on or is parked.
Kept(j) == j \in handled \/ Queued(j) \/ \E w \in Workers : HeldBy(w, j)

\* A job stays kept in a step that puts a message of worker w's job into a queue,
\* removes nothing from the queues and touches no other worker's holding.
LEMMA HandedOver ==
    ASSUME NEW j \in Jobs, Kept(j), UNCHANGED handled,
           NEW w \in Workers, NEW m \in Msg, m.job = delivery[w].job,
           ready'[m] > 0 \/ retrying'[m] > 0 \/ dead'[m] > 0,
           \A n \in Msg : (ready[n] > 0 \/ retrying[n] > 0 \/ dead[n] > 0) =>
                          (ready'[n] > 0 \/ retrying'[n] > 0 \/ dead'[n] > 0),
           \A v \in Workers : v # w /\ HeldBy(v, j) => HeldBy(v, j)'
    PROVE  Kept(j)'
<1>1. Queued(j) => Queued(j)'
  BY DEF Queued
<1>2. HeldBy(w, j) => Queued(j)'
  BY DEF HeldBy, Queued
<1>. QED
  BY <1>1, <1>2 DEF Kept

\* Short of a broker restart, no step makes a published job disappear.
LEMMA VanishStep == TypeOK /\ NoJobVanishes /\ [Next]_vars => NoJobVanishes'
<1> SUFFICES ASSUME TypeOK, NoJobVanishes, [Next]_vars, restarts' = 0,
                    NEW j \in published'
             PROVE  Kept(j)'
  BY DEF NoJobVanishes, Kept
<1>0. TypeOK'
  BY TypeStep
<1> USE <1>0, QueueAssumption DEF TypeOK, QueueTypeOK
<1>a. ASSUME restarts = 0, j \in published
      PROVE  j \in Jobs /\ Kept(j)
  BY <1>a DEF NoJobVanishes, Kept
<1>1. ASSUME NEW i \in Jobs, Publish(i)
      PROVE  Kept(j)'
  <2> USE <1>1 DEF Publish, Enqueue
  <2>1. CASE j = i
    BY <2>1, FreshFacts, PutFacts DEF Kept, Queued
  <2>2. CASE j # i
    BY <2>2, <1>a, FreshFacts, PutFacts DEF Kept, Queued, HeldBy
  <2>. QED
    BY <2>1, <2>2
<1>2. ASSUME NEW w \in Workers, StartJob(w)
      PROVE  Kept(j)'
  <2>1. PICK m \in Msg : /\ ready[m] > 0
                         /\ ready' = Take(ready, m)
                         /\ delivery' = [delivery EXCEPT ![w] = m]
    BY <1>2 DEF StartJob, Deliver
  <2>2. \A n \in Msg : n # m /\ ready[n] > 0 => ready'[n] > 0
    BY <2>1, TakeFacts
  <2>3. HeldBy(w, m.job)'
    BY <1>2, <2>1 DEF HeldBy, StartJob, Deliver
  <2>4. \A v \in Workers : HeldBy(v, j) => HeldBy(v, j)'
    BY <1>2, <2>1 DEF HeldBy, StartJob, Deliver
  <2>. QED
    BY <1>2, <1>a, <2>2, <2>3, <2>4 DEF Kept, Queued, StartJob, Deliver
<1>3. ASSUME NEW w \in Workers, HandlerOK(w)
      PROVE  Kept(j)'
  BY <1>3, <1>a DEF Kept, Queued, HeldBy, HandlerOK, Return
<1>4. ASSUME NEW w \in Workers, HandlerFails(w)
      PROVE  Kept(j)'
  BY <1>4, <1>a DEF Kept, Queued, HeldBy, HandlerFails, Return
<1>5. ASSUME NEW w \in Workers, Settle(w), UNCHANGED history
      PROVE  Kept(j)'
  <2> USE <1>5 DEF history, Finish
  <2>0. j \in Jobs /\ Kept(j)
    BY <1>a DEF Settle, AckDone, DeadLetterMalformed, DeadLetter, PublishRetry,
                AckRetried, NackRequeue, SettleOnClosed
  <2>1. CASE AckDone(w)
    BY <2>1, <2>0 DEF Kept, Queued, HeldBy, AckDone
  <2>2. CASE DeadLetterMalformed(w)
    <3>1. delivery[w] \in Msg /\ delivery[w].job = delivery[w].job
      BY <2>2, HoldsMessage DEF DeadLetterMalformed
    <3>2. /\ dead'[delivery[w]] > 0
          /\ \A n \in Msg : dead[n] > 0 => dead'[n] > 0
      BY <2>2, <3>1, PutFacts DEF DeadLetterMalformed
    <3>3. \A v \in Workers : v # w /\ HeldBy(v, j) => HeldBy(v, j)'
      BY <2>2 DEF HeldBy, DeadLetterMalformed
    <3>4. \A n \in Msg : (ready[n] > 0 \/ retrying[n] > 0 \/ dead[n] > 0) =>
                          (ready'[n] > 0 \/ retrying'[n] > 0 \/ dead'[n] > 0)
      BY <2>2, <3>2 DEF DeadLetterMalformed
    <3>. QED
      BY <2>0, <3>1, <3>2, <3>3, <3>4, HandedOver
  <2>3. CASE DeadLetter(w)
    <3>1. delivery[w] \in Msg /\ delivery[w].job = delivery[w].job
      BY <2>3, HoldsMessage DEF DeadLetter
    <3>2. /\ dead'[delivery[w]] > 0
          /\ \A n \in Msg : dead[n] > 0 => dead'[n] > 0
      BY <2>3, <3>1, PutFacts DEF DeadLetter
    <3>3. \A v \in Workers : v # w /\ HeldBy(v, j) => HeldBy(v, j)'
      BY <2>3 DEF HeldBy, DeadLetter
    <3>4. \A n \in Msg : (ready[n] > 0 \/ retrying[n] > 0 \/ dead[n] > 0) =>
                          (ready'[n] > 0 \/ retrying'[n] > 0 \/ dead'[n] > 0)
      BY <2>3, <3>2 DEF DeadLetter
    <3>. QED
      BY <2>0, <3>1, <3>2, <3>3, <3>4, HandedOver
  <2>4. CASE PublishRetry(w)
    <3>1. Retry(delivery[w]) \in Msg /\ Retry(delivery[w]).job = delivery[w].job
      BY <2>4, HoldsMessage, RetryFacts DEF PublishRetry
    <3>2. /\ retrying'[Retry(delivery[w])] > 0
          /\ \A n \in Msg : retrying[n] > 0 => retrying'[n] > 0
      BY <2>4, <3>1, PutFacts DEF PublishRetry
    <3>3. \A v \in Workers : v # w /\ HeldBy(v, j) => HeldBy(v, j)'
      BY <2>4 DEF HeldBy, PublishRetry
    <3>4. \A n \in Msg : (ready[n] > 0 \/ retrying[n] > 0 \/ dead[n] > 0) =>
                          (ready'[n] > 0 \/ retrying'[n] > 0 \/ dead'[n] > 0)
      BY <2>4, <3>2 DEF PublishRetry
    <3>. QED
      BY <2>0, <3>1, <3>2, <3>3, <3>4, HandedOver
  <2>5. CASE AckRetried(w)
    BY <2>5, <2>0 DEF Kept, Queued, HeldBy, AckRetried
  <2>6. CASE NackRequeue(w)
    <3>1. delivery[w] \in Msg /\ delivery[w].job = delivery[w].job
      BY <2>6, HoldsMessage DEF NackRequeue
    <3>2. /\ ready'[delivery[w]] > 0
          /\ \A n \in Msg : ready[n] > 0 => ready'[n] > 0
      BY <2>6, <3>1, PutFacts DEF NackRequeue
    <3>3. \A v \in Workers : v # w /\ HeldBy(v, j) => HeldBy(v, j)'
      BY <2>6 DEF HeldBy, NackRequeue
    <3>4. \A n \in Msg : (ready[n] > 0 \/ retrying[n] > 0 \/ dead[n] > 0) =>
                          (ready'[n] > 0 \/ retrying'[n] > 0 \/ dead'[n] > 0)
      BY <2>6, <3>2 DEF NackRequeue
    <3>. QED
      BY <2>0, <3>1, <3>2, <3>3, <3>4, HandedOver
  <2>7. CASE SettleOnClosed(w)
    BY <2>7, <2>0 DEF Kept, Queued, HeldBy, SettleOnClosed
  <2>. QED
    BY <2>1, <2>2, <2>3, <2>4, <2>5, <2>6, <2>7 DEF Settle
<1>6. ASSUME NEW w \in Workers, Reconnect(w), UNCHANGED history
      PROVE  Kept(j)'
  BY <1>6, <1>a DEF Kept, Queued, HeldBy, Reconnect, history
<1>7. ASSUME NEW w \in Workers, SessionLost(w), UNCHANGED history
      PROVE  Kept(j)'
  <2>0. j \in Jobs /\ Kept(j) /\ UNCHANGED handled
    BY <1>7, <1>a DEF SessionLost, history
  <2>1. CASE live[w] /\ consumer[w] # "waiting"
    <3>1. /\ delivery[w] \in Msg
          /\ ready'[delivery[w]] > 0
          /\ \A n \in Msg : ready[n] > 0 => ready'[n] > 0
      BY <1>7, <2>1, HoldsMessage, PutFacts DEF SessionLost, Requeued
    <3>2. \A v \in Workers : v # w /\ HeldBy(v, j) => HeldBy(v, j)'
      BY <1>7 DEF HeldBy, SessionLost
    <3>3. \A n \in Msg : (ready[n] > 0 \/ retrying[n] > 0 \/ dead[n] > 0) =>
                          (ready'[n] > 0 \/ retrying'[n] > 0 \/ dead'[n] > 0)
      BY <1>7, <3>1 DEF SessionLost
    <3>. QED
      BY <2>0, <3>1, <3>2, <3>3, HandedOver
  <2>2. CASE ~ (live[w] /\ consumer[w] # "waiting")
    BY <1>7, <2>0, <2>2 DEF Kept, Queued, HeldBy, SessionLost, Requeued
  <2>. QED
    BY <2>1, <2>2
<1>8. ASSUME NEW w \in Workers, Crash(w), UNCHANGED history
      PROVE  Kept(j)'
  <2>0. j \in Jobs /\ Kept(j) /\ UNCHANGED handled
    BY <1>8, <1>a DEF Crash, history
  <2>1. CASE live[w] /\ consumer[w] # "waiting"
    <3>1. /\ delivery[w] \in Msg
          /\ ready'[delivery[w]] > 0
          /\ \A n \in Msg : ready[n] > 0 => ready'[n] > 0
      BY <1>8, <2>1, HoldsMessage, PutFacts DEF Crash, Requeued
    <3>2. \A v \in Workers : v # w /\ HeldBy(v, j) => HeldBy(v, j)'
      BY <1>8 DEF HeldBy, Crash
    <3>3. \A n \in Msg : (ready[n] > 0 \/ retrying[n] > 0 \/ dead[n] > 0) =>
                          (ready'[n] > 0 \/ retrying'[n] > 0 \/ dead'[n] > 0)
      BY <1>8, <3>1 DEF Crash
    <3>. QED
      BY <2>0, <3>1, <3>2, <3>3, HandedOver
  <2>2. CASE ~ (live[w] /\ consumer[w] # "waiting")
    BY <1>8, <2>0, <2>2 DEF Kept, Queued, HeldBy, Crash, Requeued
  <2>. QED
    BY <2>1, <2>2
<1>9. ASSUME NEW m \in Msg, RetryExpires(m), UNCHANGED history
      PROVE  Kept(j)'
  BY <1>9, <1>a, TakeFacts, PutFacts DEF Kept, Queued, HeldBy, RetryExpires, history
<1>10. ASSUME BrokerRestart, UNCHANGED history
       PROVE  Kept(j)'
  BY <1>10 DEF BrokerRestart
<1>11. CASE UNCHANGED vars
  BY <1>11, <1>a DEF Kept, Queued, HeldBy, vars, queueVars, history
<1>. QED
  BY <1>1, <1>2, <1>3, <1>4, <1>5, <1>6, <1>7, <1>8, <1>9, <1>10, <1>11 DEF Next

\* Retry copy before acknowledgement, requeue on a closed channel and dead-lettering
\* together never drop a published job while the broker stays up.
THEOREM JobsAreKept == Spec => []NoJobVanishes
<1>1. Init => NoJobVanishes
  BY DEF Init, NoJobVanishes
<1>. QED
  BY <1>1, TypeInit, TypeStep, VanishStep, PTL DEF Spec

-----------------------------------------------------------------------------
(***************************************************************************)
(* How often a job is run.  A copy of its message with x-retry-count r may *)
(* still be run MaxRetries + 1 - r times; a worker that holds it, and can  *)
(* still publish a retry copy, may cause one run less.  A run, a retry or  *)
(* an acknowledgement uses these up, and only a fault adds some: at most   *)
(* MaxRetries + 1, those of the message it puts back.                      *)
(***************************************************************************)

\* The runs left to the holders in D, the first of them at the count h[x].
Attempts(D, h) == {t \in D \X (0..MaxRetries) : h[t[1]] <= t[2]}

\* One holder more has its runs left on top.
LEMMA AddAttempts ==
    ASSUME NEW D, NEW x, x \notin D, NEW h, h[x] \in 0..(MaxRetries + 1),
           IsFiniteSet(Attempts(D, h))
    PROVE  /\ IsFiniteSet(Attempts(D \cup {x}, h))
           /\ Cardinality(Attempts(D \cup {x}, h)) =
                 Cardinality(Attempts(D, h)) + (MaxRetries + 1 - h[x])
<1>. DEFINE A == Attempts(D, h)
            B == {x} \X (h[x]..MaxRetries)
<1>1. MaxRetries \in Nat
  BY QueueAssumption
<1>2. Attempts(D \cup {x}, h) = A \cup B
  BY <1>1 DEF Attempts
<1>3. A \cap B = {} /\ IsFiniteSet(A)
  BY DEF Attempts
<1>4. IsFiniteSet(B) /\ Cardinality(B) = MaxRetries + 1 - h[x]
  <2>1. /\ IsFiniteSet(h[x]..MaxRetries)
        /\ Cardinality(h[x]..MaxRetries) = MaxRetries + 1 - h[x]
    <3>. DEFINE a == h[x]
    <3>1. a \in Int /\ MaxRetries \in Int /\ a <= MaxRetries + 1
      BY <1>1
    <3>. HIDE DEF a
    <3>2. /\ IsFiniteSet(a..MaxRetries)
          /\ Cardinality(a..MaxRetries) = IF a > MaxRetries THEN 0 ELSE MaxRetries - a + 1
      BY <3>1, FS_Interval
    <3>3. Cardinality(a..MaxRetries) = MaxRetries + 1 - a
      BY <1>1, <3>1, <3>2
    <3>. QED
      BY <3>2, <3>3 DEF a
  <2>2. IsFiniteSet({x}) /\ Cardinality({x}) = 1
    BY FS_Singleton
  <2>3. IsFiniteSet(B) /\ Cardinality(B) = Cardinality({x}) * Cardinality(h[x]..MaxRetries)
    BY <2>1, <2>2, FS_Product
  <2>. QED
    BY <1>1, <2>1, <2>2, <2>3
<1>5. /\ IsFiniteSet(A \cup B)
      /\ Cardinality(A \cup B) = Cardinality(A) + Cardinality(B) - Cardinality(A \cap B)
  <2>. HIDE DEF A, B
  <2>. QED
    BY <1>3, <1>4, FS_Union
<1>6. Cardinality(A \cap B) = 0 /\ Cardinality(A) \in Nat
  BY <1>3, FS_EmptySet, FS_CardinalityType
<1>7. /\ IsFiniteSet(A \cup B)
      /\ Cardinality(A \cup B) = Cardinality(A) + (MaxRetries + 1 - h[x])
  <2>. HIDE DEF A, B
  <2>. QED
    BY <1>1, <1>4, <1>5, <1>6
<1>. QED
  BY <1>2, <1>7

\* One holder less takes its runs away.
LEMMA RemoveAttempts ==
    ASSUME NEW D, NEW x \in D, NEW h, h[x] \in 0..(MaxRetries + 1),
           IsFiniteSet(Attempts(D, h))
    PROVE  /\ IsFiniteSet(Attempts(D \ {x}, h))
           /\ Cardinality(Attempts(D \ {x}, h)) + (MaxRetries + 1 - h[x]) =
                 Cardinality(Attempts(D, h))
<1>1. IsFiniteSet(Attempts(D \ {x}, h))
  <2>1. Attempts(D \ {x}, h) \subseteq Attempts(D, h)
    BY DEF Attempts
  <2>. QED
    BY <2>1, FS_Subset
<1>2. (D \ {x}) \cup {x} = D /\ x \notin D \ {x}
  OBVIOUS
<1>3. Cardinality(Attempts((D \ {x}) \cup {x}, h)) =
         Cardinality(Attempts(D \ {x}, h)) + (MaxRetries + 1 - h[x])
  BY <1>1, <1>2, AddAttempts
<1>. QED
  BY <1>1, <1>2, <1>3

\* The runs left depend on the counts of the holders only.
LEMMA SameAttempts ==
    ASSUME NEW D, NEW g, NEW h, \A x \in D : g[x] = h[x]
    PROVE  Attempts(D, g) = Attempts(D, h)
BY DEF Attempts

\* The runs left in a queue, by the count in the header of each copy.
Level == [t \in Msg \X Nat |-> t[1].retries]
QueuedRuns(q, j) == Attempts(Copies(q, j), Level)

\* The runs left to the workers that may still pass the job on.
Holding(j) == {w \in Workers : HeldBy(w, j)}
HeldLevel == [w \in Workers |-> delivery[w].retries + 1]
HeldRuns(j) == Attempts(Holding(j), HeldLevel)

\* A copy's level is the count of its message.
LEMMA LevelFacts ==
    ASSUME NEW m \in Msg, NEW i \in Nat
    PROVE  /\ Level[<<m, i>>] = m.retries
           /\ Level[<<m, i>>] \in 0..(MaxRetries + 1)
           /\ MaxRetries \in Nat
<1>1. Level[<<m, i>>] = m.retries
  BY DEF Level
<1>. QED
  BY <1>1, RetryFacts, QueueAssumption

\* A message put into a queue brings the runs it has left.
LEMMA PutRuns ==
    ASSUME NEW q \in [Msg -> Nat], NEW m \in Msg, NEW j, IsFiniteSet(QueuedRuns(q, j))
    PROVE  /\ IsFiniteSet(QueuedRuns(Put(q, m), j))
           /\ m.job = j => Cardinality(QueuedRuns(Put(q, m), j)) =
                              Cardinality(QueuedRuns(q, j)) + (MaxRetries + 1 - m.retries)
           /\ m.job # j => Cardinality(QueuedRuns(Put(q, m), j)) = Cardinality(QueuedRuns(q, j))
<1>. DEFINE new == <<m, q[m] + 1>>
            D == Copies(q, j)
<1>1. /\ Level[new] = m.retries /\ Level[new] \in 0..(MaxRetries + 1)
  BY LevelFacts
<1>2. CASE m.job = j
  <2>1. new \notin D /\ Copies(Put(q, m), j) = D \cup {new}
    BY <1>2, PutCopy
  <2>2. IsFiniteSet(Attempts(D, Level))
    BY DEF QueuedRuns
  <2>3. /\ IsFiniteSet(Attempts(D \cup {new}, Level))
        /\ Cardinality(Attempts(D \cup {new}, Level)) =
              Cardinality(Attempts(D, Level)) + (MaxRetries + 1 - Level[new])
    <3>. HIDE DEF D, new
    <3>. QED
      BY <1>1, <2>1, <2>2, AddAttempts
  <2>. QED
    BY <1>1, <1>2, <2>1, <2>3 DEF QueuedRuns
<1>3. CASE m.job # j
  <2>1. Copies(Put(q, m), j) = Copies(q, j)
    BY <1>3, PutCopy
  <2>2. QueuedRuns(Put(q, m), j) = QueuedRuns(q, j)
    BY <2>1 DEF QueuedRuns
  <2>. QED
    BY <1>3, <2>2
<1>. QED
  BY <1>2, <1>3

\* A message taken from a queue takes the runs it has left with it.
LEMMA TakeRuns ==
    ASSUME NEW q \in [Msg -> Nat], NEW m \in Msg, q[m] > 0, NEW j, IsFiniteSet(QueuedRuns(q, j))
    PROVE  /\ IsFiniteSet(QueuedRuns(Take(q, m), j))
           /\ m.job = j => Cardinality(QueuedRuns(Take(q, m), j)) + (MaxRetries + 1 - m.retries) =
                              Cardinality(QueuedRuns(q, j))
           /\ m.job # j => Cardinality(QueuedRuns(Take(q, m), j)) = Cardinality(QueuedRuns(q, j))
<1>. DEFINE old == <<m, q[m]>>
            D == Copies(q, j)
<1>1. /\ Level[old] = m.retries /\ Level[old] \in 0..(MaxRetries + 1)
  BY LevelFacts
<1>2. CASE m.job = j
  <2>1. old \in D /\ Copies(Take(q, m), j) = D \ {old}
    BY <1>2, TakeCopy
  <2>2. IsFiniteSet(Attempts(D, Level))
    BY DEF QueuedRuns
  <2>3. /\ IsFiniteSet(Attempts(D \ {old}, Level))
        /\ Cardinality(Attempts(D \ {old}, Level)) + (MaxRetries + 1 - Level[old]) =
              Cardinality(Attempts(D, Level))
    <3>. HIDE DEF D, old
    <3>. QED
      BY <1>1, <2>1, <2>2, RemoveAttempts
  <2>. QED
    BY <1>1, <1>2, <2>1, <2>3 DEF QueuedRuns
<1>3. CASE m.job # j
  <2>1. Copies(Take(q, m), j) = Copies(q, j)
    <3>1. \A n \in Msg : n.job = j => Take(q, m)[n] = q[n]
      BY <1>3 DEF Take
    <3>. QED
      BY <3>1 DEF Copies
  <2>2. QueuedRuns(Take(q, m), j) = QueuedRuns(q, j)
    BY <2>1 DEF QueuedRuns
  <2>. QED
    BY <1>3, <2>2
<1>. QED
  BY <1>2, <1>3

\* An empty queue leaves no runs.
LEMMA NoRuns ==
    ASSUME NEW q \in [Msg -> Nat], NEW j, \A m \in Msg : m.job = j => q[m] = 0
    PROVE  IsFiniteSet(QueuedRuns(q, j)) /\ Cardinality(QueuedRuns(q, j)) = 0
<1>1. QueuedRuns(q, j) = {}
  BY NoCopies DEF QueuedRuns, Attempts
<1>. QED
  BY <1>1, FS_EmptySet

\* A step of one worker takes up the job, gives it up, or leaves the runs of its holders alone.
LEMMA HolderMoves ==
    ASSUME TypeOK, TypeOK', NEW j \in Jobs, NEW w \in Workers, IsFiniteSet(HeldRuns(j)),
           \A v \in Workers \ {w} : /\ live'[v] = live[v] /\ consumer'[v] = consumer[v]
                                    /\ delivery'[v] = delivery[v]
    PROVE  /\ HeldBy(w, j) /\ ~HeldBy(w, j)' =>
                 /\ IsFiniteSet(HeldRuns(j)')
                 /\ Cardinality(HeldRuns(j)') + (MaxRetries - delivery[w].retries) =
                       Cardinality(HeldRuns(j))
           /\ ~HeldBy(w, j) /\ HeldBy(w, j)' =>
                 /\ IsFiniteSet(HeldRuns(j)')
                 /\ Cardinality(HeldRuns(j)') =
                       Cardinality(HeldRuns(j)) + (MaxRetries - delivery'[w].retries)
           /\ (HeldBy(w, j)' <=> HeldBy(w, j)) /\ (HeldBy(w, j) => delivery'[w] = delivery[w]) =>
                 HeldRuns(j)' = HeldRuns(j)
<1>. DEFINE D == Holding(j)
            E == Holding(j)'
            g == HeldLevel
            h == HeldLevel'
<1>1. \A v \in Workers : g[v] = delivery[v].retries + 1 /\ h[v] = delivery'[v].retries + 1
  BY DEF HeldLevel
<1>2. \A v \in Workers \ {w} : (v \in D <=> v \in E) /\ g[v] = h[v]
  <2>1. ASSUME NEW v \in Workers \ {w} PROVE HeldBy(v, j)' <=> HeldBy(v, j)
    BY DEF HeldBy
  <2>. QED
    BY <1>1, <2>1 DEF Holding
<1>3. D \subseteq Workers /\ E \subseteq Workers /\ (w \in D <=> HeldBy(w, j)) /\ (w \in E <=> HeldBy(w, j)')
  BY DEF Holding
<1>4. MaxRetries \in Nat
  BY QueueAssumption
<1>5. /\ HeldBy(w, j) => g[w] = delivery[w].retries + 1 /\ delivery[w].retries \in 0..MaxRetries
      /\ HeldBy(w, j)' => h[w] = delivery'[w].retries + 1 /\ delivery'[w].retries \in 0..MaxRetries
  <2>1. HeldBy(w, j) => delivery[w].retries \in 0..MaxRetries
    BY HoldsMessage, RetryFacts DEF HeldBy, TypeOK
  <2>2. HeldBy(w, j)' => delivery'[w].retries \in 0..MaxRetries
    <3>1. HeldBy(w, j)' => delivery'[w] \in Msg
      BY DEF HeldBy, TypeOK, QueueTypeOK
    <3>. QED
      BY <3>1, RetryFacts
  <2>. QED
    BY <1>1, <2>1, <2>2
<1>6. IsFiniteSet(Attempts(D, g)) /\ Attempts(D, g) = HeldRuns(j) /\ Attempts(E, h) = HeldRuns(j)'
  BY DEF HeldRuns
<1>7. ASSUME HeldBy(w, j), ~HeldBy(w, j)'
      PROVE  /\ IsFiniteSet(HeldRuns(j)')
             /\ Cardinality(HeldRuns(j)') + (MaxRetries - delivery[w].retries) =
                   Cardinality(HeldRuns(j))
  <2>. HIDE DEF D, E, g, h
  <2>1. E = D \ {w} /\ w \in D /\ \A x \in E : g[x] = h[x]
    BY <1>2, <1>3, <1>7
  <2>2. Attempts(E, g) = Attempts(E, h)
    BY <2>1, SameAttempts
  <2>3. g[w] \in 0..(MaxRetries + 1)
    BY <1>4, <1>5, <1>7
  <2>4. /\ IsFiniteSet(Attempts(E, g))
        /\ Cardinality(Attempts(E, g)) + (MaxRetries + 1 - g[w]) = Cardinality(Attempts(D, g))
    BY <1>6, <2>1, <2>3, RemoveAttempts
  <2>5. MaxRetries + 1 - g[w] = MaxRetries - delivery[w].retries
    BY <1>4, <1>5, <1>7
  <2>. QED
    BY <1>6, <2>2, <2>4, <2>5
<1>8. ASSUME ~HeldBy(w, j), HeldBy(w, j)'
      PROVE  /\ IsFiniteSet(HeldRuns(j)')
             /\ Cardinality(HeldRuns(j)') =
                   Cardinality(HeldRuns(j)) + (MaxRetries - delivery'[w].retries)
  <2>. HIDE DEF D, E, g, h
  <2>1. E = D \cup {w} /\ w \notin D /\ \A x \in D : g[x] = h[x]
    BY <1>2, <1>3, <1>8
  <2>2. Attempts(D, g) = Attempts(D, h)
    BY <2>1, SameAttempts
  <2>3. h[w] \in 0..(MaxRetries + 1)
    BY <1>4, <1>5, <1>8
  <2>4. /\ IsFiniteSet(Attempts(E, h))
        /\ Cardinality(Attempts(E, h)) = Cardinality(Attempts(D, h)) + (MaxRetries + 1 - h[w])
    BY <1>6, <2>1, <2>2, <2>3, AddAttempts
  <2>5. MaxRetries + 1 - h[w] = MaxRetries - delivery'[w].retries
    BY <1>4, <1>5, <1>8
  <2>. QED
    BY <1>6, <2>2, <2>4, <2>5
<1>9. ASSUME HeldBy(w, j)' <=> HeldBy(w, j), HeldBy(w, j) => delivery'[w] = delivery[w]
      PROVE  HeldRuns(j)' = HeldRuns(j)
  <2>1. E = D
    BY <1>2, <1>3, <1>9
  <2>2. \A x \in D : g[x] = h[x]
    BY <1>1, <1>2, <1>3, <1>9
  <2>. HIDE DEF D, E, g, h
  <2>. QED
    BY <1>6, <2>1, <2>2, SameAttempts
<1>. QED
  BY <1>7, <1>8, <1>9

\* Nothing is known of a job before it is published: no queue and no worker has it, and no
\* handler has run on it.
OnlyPublished ==
    /\ \A m \in Msg : ready[m] > 0 \/ retrying[m] > 0 => m.job \in published
    /\ \A w \in Workers : consumer[w] # "waiting" => delivery[w].job \in published
    /\ \A j \in Jobs : j \notin published => runs[j] = 0

\* Every step keeps it so.
LEMMA OnlyPublishedStep == TypeOK /\ OnlyPublished /\ [Next]_vars => OnlyPublished'
<1> SUFFICES ASSUME TypeOK, OnlyPublished, [Next]_vars
             PROVE  OnlyPublished'
  OBVIOUS
<1> USE QueueAssumption DEF OnlyPublished, TypeOK, QueueTypeOK
<1>1. ASSUME NEW j \in Jobs, Publish(j)
      PROVE  OnlyPublished'
  <2> DEFINE fresh == [job |-> j, retries |-> 0]
  <2>1. \A m \in Msg : ready'[m] > 0 => m = fresh \/ ready[m] > 0
    BY <1>1, FreshFacts, PutFacts DEF Publish, Enqueue
  <2>. QED
    BY <1>1, <2>1 DEF Publish, Enqueue
<1>2. ASSUME NEW w \in Workers, StartJob(w)
      PROVE  OnlyPublished'
  <2>1. PICK m \in Msg : /\ ready[m] > 0
                         /\ ready' = Take(ready, m)
                         /\ delivery' = [delivery EXCEPT ![w] = m]
    BY <1>2 DEF StartJob, Deliver
  <2>2. \A n \in Msg : ready'[n] > 0 => ready[n] > 0
    BY <2>1, TakeFacts
  <2>3. m.job \in published /\ delivery'[w] = m /\ UNCHANGED <<published, retrying>>
    BY <1>2, <2>1 DEF StartJob, Deliver
  <2>4. \A j \in Jobs : j \notin published => runs'[j] = 0
    BY <1>2, <2>3 DEF StartJob
  <2>. QED
    BY <1>2, <2>1, <2>2, <2>3, <2>4 DEF StartJob, Deliver
<1>3. ASSUME NEW w \in Workers, HandlerOK(w) \/ HandlerFails(w)
      PROVE  OnlyPublished'
  BY <1>3 DEF HandlerOK, HandlerFails, Return
<1>5. ASSUME NEW w \in Workers, Settle(w), UNCHANGED history
      PROVE  OnlyPublished'
  <2> USE <1>5 DEF history, Finish
  <2>1. CASE AckDone(w) \/ DeadLetterMalformed(w) \/ DeadLetter(w) \/ AckRetried(w) \/ SettleOnClosed(w)
    BY <2>1 DEF AckDone, DeadLetterMalformed, DeadLetter, AckRetried, SettleOnClosed
  <2>2. CASE PublishRetry(w)
    <3> DEFINE copy == Retry(delivery[w])
    <3>1. copy \in Msg /\ copy.job \in published
      BY <2>2, HoldsMessage, RetryFacts DEF PublishRetry
    <3>2. \A m \in Msg : retrying'[m] > 0 => m = copy \/ retrying[m] > 0
      BY <2>2, <3>1, PutFacts DEF PublishRetry
    <3>. QED
      BY <2>2, <3>1, <3>2 DEF PublishRetry
  <2>3. CASE NackRequeue(w)
    <3>1. delivery[w] \in Msg /\ delivery[w].job \in published
      BY <2>3, HoldsMessage DEF NackRequeue
    <3>2. \A m \in Msg : ready'[m] > 0 => m = delivery[w] \/ ready[m] > 0
      BY <2>3, <3>1, PutFacts DEF NackRequeue
    <3>. QED
      BY <2>3, <3>1, <3>2 DEF NackRequeue
  <2>. QED
    BY <2>1, <2>2, <2>3 DEF Settle
<1>6. ASSUME NEW w \in Workers, Reconnect(w) \/ SessionLost(w) \/ Crash(w), UNCHANGED history
      PROVE  OnlyPublished'
  <2>1. CASE Reconnect(w)
    BY <1>6, <2>1 DEF Reconnect, history
  <2>2. CASE SessionLost(w)
    BY <1>6, <2>2, HoldsMessage, PutFacts DEF SessionLost, Requeued, history
  <2>3. CASE Crash(w)
    BY <1>6, <2>3, HoldsMessage, PutFacts DEF Crash, Requeued, history
  <2>. QED
    BY <1>6, <2>1, <2>2, <2>3
<1>9. ASSUME NEW m \in Msg, RetryExpires(m), UNCHANGED history
      PROVE  OnlyPublished'
  BY <1>9, TakeFacts, PutFacts DEF RetryExpires, history
<1>10. ASSUME BrokerRestart, UNCHANGED history
       PROVE  OnlyPublished'
  BY <1>10, EmptyFacts DEF BrokerRestart, history
<1>11. CASE UNCHANGED vars
  BY <1>11 DEF vars, queueVars, history
<1>. QED
  BY <1>1, <1>2, <1>3, <1>5, <1>6, <1>9, <1>10, <1>11 DEF Next

-----------------------------------------------------------------------------
\* The runs left of job j can be counted.
RunsFinite(j) ==
    /\ IsFiniteSet(QueuedRuns(ready, j)) /\ IsFiniteSet(QueuedRuns(retrying, j))
    /\ IsFiniteSet(HeldRuns(j))

\* The runs job j has had and those it may still have.
TotalRuns(j) ==
    runs[j] + Cardinality(QueuedRuns(ready, j)) + Cardinality(QueuedRuns(retrying, j))
            + Cardinality(HeldRuns(j))

RunsInv ==
    /\ OnlyPublished
    /\ \A j \in Jobs : RunsFinite(j) /\ TotalRuns(j) <= (faults + 1) * (MaxRetries + 1)

\* A step adds no runs, or it is a fault and adds those of one message.
PaidByFault(j) ==
    /\ RunsFinite(j)'
    /\ \/ faults' = faults /\ TotalRuns(j)' <= TotalRuns(j)
       \/ faults' = faults + 1 /\ TotalRuns(j)' <= TotalRuns(j) + (MaxRetries + 1)

\* The parts of the total are numbers.
LEMMA TotalFacts ==
    ASSUME TypeOK, NEW j \in Jobs, RunsFinite(j)
    PROVE  /\ runs[j] \in Nat /\ Cardinality(QueuedRuns(ready, j)) \in Nat
           /\ Cardinality(QueuedRuns(retrying, j)) \in Nat /\ Cardinality(HeldRuns(j)) \in Nat
           /\ MaxRetries \in Nat
BY FS_CardinalityType, QueueAssumption DEF TypeOK, RunsFinite

\* Starting a handler moves one run from the future to the past.
LEMMA StartPays ==
    ASSUME TypeOK, TypeOK', NEW j \in Jobs, RunsFinite(j), NEW w \in Workers, StartJob(w)
    PROVE  PaidByFault(j)
<1>1. PICK m \in Msg : /\ ready[m] > 0
                       /\ ready' = Take(ready, m)
                       /\ delivery' = [delivery EXCEPT ![w] = m]
  BY DEF StartJob, Deliver
<1>2. /\ delivery'[w] = m /\ consumer[w] = "waiting" /\ consumer'[w] = "handling" /\ live[w] /\ live'[w]
      /\ UNCHANGED <<retrying, faults>> /\ m.job \in Jobs /\ m.retries \in 0..MaxRetries
      /\ \A v \in Workers \ {w} : live'[v] = live[v] /\ consumer'[v] = consumer[v] /\ delivery'[v] = delivery[v]
  BY <1>1, RetryFacts DEF StartJob, Deliver, TypeOK, QueueTypeOK
<1>3. /\ ~HeldBy(w, j) /\ (HeldBy(w, j)' <=> m.job = j)
  BY <1>2 DEF HeldBy
<1>4. runs'[j] = IF m.job = j THEN runs[j] + 1 ELSE runs[j]
  BY <1>2 DEF StartJob, TypeOK
<1>5. /\ IsFiniteSet(QueuedRuns(ready', j))
      /\ m.job = j => Cardinality(QueuedRuns(ready', j)) + (MaxRetries + 1 - m.retries) =
                         Cardinality(QueuedRuns(ready, j))
      /\ m.job # j => Cardinality(QueuedRuns(ready', j)) = Cardinality(QueuedRuns(ready, j))
  <2>1. ready \in [Msg -> Nat] /\ IsFiniteSet(QueuedRuns(ready, j))
    BY DEF TypeOK, QueueTypeOK, RunsFinite
  <2>. QED
    BY <1>1, <2>1, TakeRuns
<1>6. /\ IsFiniteSet(HeldRuns(j)')
      /\ m.job = j => Cardinality(HeldRuns(j)') = Cardinality(HeldRuns(j)) + (MaxRetries - m.retries)
      /\ m.job # j => HeldRuns(j)' = HeldRuns(j)
  <2>1. IsFiniteSet(HeldRuns(j))
    BY DEF RunsFinite
  <2>2. CASE m.job = j
    BY <1>2, <1>3, <2>1, <2>2, HolderMoves
  <2>3. CASE m.job # j
    BY <1>2, <1>3, <2>1, <2>3, HolderMoves
  <2>. QED
    BY <2>2, <2>3
<1>7. QueuedRuns(retrying', j) = QueuedRuns(retrying, j)
  BY <1>2
<1>8. RunsFinite(j)'
  BY <1>5, <1>6, <1>7 DEF RunsFinite
<1>9. TotalRuns(j)' <= TotalRuns(j)
  <2>0. Cardinality(QueuedRuns(ready', j)) \in Nat
    BY <1>5, FS_CardinalityType
  <2>1. CASE m.job = j
    BY <1>2, <1>4, <1>5, <1>6, <1>7, <2>0, <2>1, TotalFacts DEF TotalRuns
  <2>2. CASE m.job # j
    BY <1>2, <1>4, <1>5, <1>6, <1>7, <2>2, TotalFacts DEF TotalRuns
  <2>. QED
    BY <2>1, <2>2
<1>. QED
  BY <1>2, <1>8, <1>9 DEF PaidByFault

\* Only worker w's channel, state and delivery may change.
OnlyWorker(w) ==
    \A v \in Workers \ {w} :
        live'[v] = live[v] /\ consumer'[v] = consumer[v] /\ delivery'[v] = delivery[v]

\* A worker that takes up nothing adds no runs.
LEMMA NoneTakenUp ==
    ASSUME TypeOK, TypeOK', NEW j \in Jobs, IsFiniteSet(HeldRuns(j)), NEW w \in Workers, OnlyWorker(w),
           HeldBy(w, j)' => HeldBy(w, j) /\ delivery'[w] = delivery[w]
    PROVE  /\ IsFiniteSet(HeldRuns(j)')
           /\ Cardinality(HeldRuns(j)') \in Nat
           /\ Cardinality(HeldRuns(j)') <= Cardinality(HeldRuns(j))
<1>0. \A v \in Workers \ {w} : /\ live'[v] = live[v] /\ consumer'[v] = consumer[v]
                               /\ delivery'[v] = delivery[v]
  BY DEF OnlyWorker
<1>1. Cardinality(HeldRuns(j)) \in Nat /\ MaxRetries \in Nat
  BY FS_CardinalityType, QueueAssumption
<1>2. CASE HeldBy(w, j) /\ ~HeldBy(w, j)'
  <2>1. /\ IsFiniteSet(HeldRuns(j)')
        /\ Cardinality(HeldRuns(j)') + (MaxRetries - delivery[w].retries) = Cardinality(HeldRuns(j))
    BY <1>0, <1>2, HolderMoves
  <2>2. Cardinality(HeldRuns(j)') \in Nat
    BY <2>1, FS_CardinalityType
  <2>3. delivery[w].retries \in 0..MaxRetries
    BY <1>2, HoldsMessage, RetryFacts DEF HeldBy, TypeOK
  <2>. QED
    BY <1>1, <2>1, <2>2, <2>3
<1>3. CASE (HeldBy(w, j)' <=> HeldBy(w, j)) /\ (HeldBy(w, j) => delivery'[w] = delivery[w])
  <2>1. HeldRuns(j)' = HeldRuns(j)
    BY <1>0, <1>3, HolderMoves
  <2>. QED
    BY <1>1, <2>1
<1>. QED
  BY <1>2, <1>3

\* A handler that returns and a delivery that is settled without a new copy add no runs.
LEMMA SettledPays ==
    ASSUME TypeOK, TypeOK', NEW j \in Jobs, RunsFinite(j), NEW w \in Workers, OnlyWorker(w),
           HeldBy(w, j)' => HeldBy(w, j) /\ delivery'[w] = delivery[w],
           UNCHANGED <<ready, retrying, runs, faults>>
    PROVE  PaidByFault(j)
<1>1. /\ IsFiniteSet(HeldRuns(j)') /\ Cardinality(HeldRuns(j)') \in Nat
      /\ Cardinality(HeldRuns(j)') <= Cardinality(HeldRuns(j))
  BY NoneTakenUp DEF RunsFinite
<1>2. RunsFinite(j)'
  BY <1>1 DEF RunsFinite
<1>3. TotalRuns(j)' <= TotalRuns(j)
  BY <1>1, TotalFacts DEF TotalRuns
<1>. QED
  BY <1>2, <1>3 DEF PaidByFault

\* A fault that puts a message back pays for all its runs.
LEMMA RequeuedPays ==
    ASSUME TypeOK, TypeOK', NEW j \in Jobs, RunsFinite(j), NEW w \in Workers, OnlyWorker(w),
           HeldBy(w, j)' => HeldBy(w, j) /\ delivery'[w] = delivery[w],
           UNCHANGED <<retrying, runs>>, faults' = faults + 1,
           \/ ready' = ready
           \/ delivery[w] \in Msg /\ ready' = Put(ready, delivery[w])
    PROVE  PaidByFault(j)
<1>1. /\ IsFiniteSet(HeldRuns(j)') /\ Cardinality(HeldRuns(j)') \in Nat
      /\ Cardinality(HeldRuns(j)') <= Cardinality(HeldRuns(j))
  BY NoneTakenUp DEF RunsFinite
<1>2. /\ IsFiniteSet(QueuedRuns(ready', j)) /\ Cardinality(QueuedRuns(ready', j)) \in Nat
      /\ Cardinality(QueuedRuns(ready', j)) <= Cardinality(QueuedRuns(ready, j)) + (MaxRetries + 1)
  <2>1. CASE ready' = ready
    BY <2>1, TotalFacts DEF RunsFinite
  <2>2. CASE delivery[w] \in Msg /\ ready' = Put(ready, delivery[w])
    <3>. DEFINE m == delivery[w]
    <3>1. ready \in [Msg -> Nat] /\ IsFiniteSet(QueuedRuns(ready, j))
      BY DEF TypeOK, QueueTypeOK, RunsFinite
    <3>2. m \in Msg /\ m.retries \in 0..MaxRetries /\ ready' = Put(ready, m)
      BY <2>2, RetryFacts
    <3>. HIDE DEF m
    <3>3. /\ IsFiniteSet(QueuedRuns(ready', j))
          /\ \/ Cardinality(QueuedRuns(ready', j)) =
                   Cardinality(QueuedRuns(ready, j)) + (MaxRetries + 1 - m.retries)
             \/ Cardinality(QueuedRuns(ready', j)) = Cardinality(QueuedRuns(ready, j))
      BY <3>1, <3>2, PutRuns
    <3>4. Cardinality(QueuedRuns(ready', j)) \in Nat
      BY <3>3, FS_CardinalityType
    <3>. QED
      BY <3>2, <3>3, <3>4, TotalFacts
  <2>. QED
    BY <2>1, <2>2
<1>3. RunsFinite(j)'
  BY <1>1, <1>2 DEF RunsFinite
<1>4. TotalRuns(j)' <= TotalRuns(j) + (MaxRetries + 1)
  BY <1>1, <1>2, TotalFacts DEF TotalRuns
<1>. QED
  BY <1>3, <1>4 DEF PaidByFault

\* A retry copy has the runs its original would have had left.
LEMMA RetryPays ==
    ASSUME TypeOK, TypeOK', NEW j \in Jobs, RunsFinite(j), NEW w \in Workers, PublishRetry(w),
           UNCHANGED history
    PROVE  PaidByFault(j)
<1>. DEFINE m == delivery[w]
            copy == Retry(m)
<1>1. /\ m \in Msg /\ copy \in Msg /\ copy.job = m.job /\ copy.retries = m.retries + 1
      /\ m.retries \in 0..MaxRetries /\ retrying' = Put(retrying, copy)
  BY HoldsMessage, RetryFacts DEF PublishRetry, TypeOK
<1>2. /\ UNCHANGED <<ready, runs, faults, delivery, live>>
      /\ \A v \in Workers \ {w} : /\ live'[v] = live[v] /\ consumer'[v] = consumer[v]
                                  /\ delivery'[v] = delivery[v]
      /\ (HeldBy(w, j) <=> m.job = j) /\ ~HeldBy(w, j)'
  BY DEF PublishRetry, history, HeldBy, TypeOK, QueueTypeOK
<1>. HIDE DEF copy
<1>3. /\ IsFiniteSet(QueuedRuns(retrying', j))
      /\ m.job = j => Cardinality(QueuedRuns(retrying', j)) =
                         Cardinality(QueuedRuns(retrying, j)) + (MaxRetries + 1 - copy.retries)
      /\ m.job # j => Cardinality(QueuedRuns(retrying', j)) = Cardinality(QueuedRuns(retrying, j))
  <2>1. retrying \in [Msg -> Nat] /\ IsFiniteSet(QueuedRuns(retrying, j))
    BY DEF TypeOK, QueueTypeOK, RunsFinite
  <2>. QED
    BY <1>1, <2>1, PutRuns
<1>4. /\ IsFiniteSet(HeldRuns(j)')
      /\ m.job = j => Cardinality(HeldRuns(j)') + (MaxRetries - m.retries) = Cardinality(HeldRuns(j))
      /\ m.job # j => HeldRuns(j)' = HeldRuns(j)
  <2>1. IsFiniteSet(HeldRuns(j))
    BY DEF RunsFinite
  <2>2. CASE m.job = j
    BY <1>2, <2>1, <2>2, HolderMoves
  <2>3. CASE m.job # j
    BY <1>2, <2>1, <2>3, HolderMoves
  <2>. QED
    BY <2>2, <2>3
<1>5. RunsFinite(j)'
  BY <1>2, <1>3, <1>4 DEF RunsFinite
<1>6. Cardinality(HeldRuns(j)') \in Nat
  BY <1>4, FS_CardinalityType
<1>7. TotalRuns(j)' <= TotalRuns(j)
  <2>1. CASE m.job = j
    BY <1>1, <1>2, <1>3, <1>4, <1>6, <2>1, TotalFacts DEF TotalRuns
  <2>2. CASE m.job # j
    BY <1>2, <1>3, <1>4, <2>2, TotalFacts DEF TotalRuns
  <2>. QED
    BY <2>1, <2>2
<1>. QED
  BY <1>2, <1>5, <1>7 DEF PaidByFault

\* An expired retry message takes its runs along to the primary queue.
LEMMA ExpiryPays ==
    ASSUME TypeOK, NEW j \in Jobs, RunsFinite(j), NEW m \in Msg, RetryExpires(m), UNCHANGED history
    PROVE  PaidByFault(j)
<1>1. /\ ready' = Put(ready, m) /\ retrying' = Take(retrying, m) /\ retrying[m] > 0
      /\ UNCHANGED <<runs, faults, delivery, consumer, live>>
      /\ ready \in [Msg -> Nat] /\ retrying \in [Msg -> Nat]
      /\ IsFiniteSet(QueuedRuns(ready, j)) /\ IsFiniteSet(QueuedRuns(retrying, j))
  BY DEF RetryExpires, history, TypeOK, QueueTypeOK, RunsFinite
<1>2. HeldRuns(j)' = HeldRuns(j)
  BY <1>1 DEF HeldRuns, Holding, HeldBy, HeldLevel
<1>3. /\ IsFiniteSet(QueuedRuns(ready', j))
      /\ m.job = j => Cardinality(QueuedRuns(ready', j)) =
                         Cardinality(QueuedRuns(ready, j)) + (MaxRetries + 1 - m.retries)
      /\ m.job # j => Cardinality(QueuedRuns(ready', j)) = Cardinality(QueuedRuns(ready, j))
  BY <1>1, PutRuns
<1>4. /\ IsFiniteSet(QueuedRuns(retrying', j))
      /\ m.job = j => Cardinality(QueuedRuns(retrying', j)) + (MaxRetries + 1 - m.retries) =
                         Cardinality(QueuedRuns(retrying, j))
      /\ m.job # j => Cardinality(QueuedRuns(retrying', j)) = Cardinality(QueuedRuns(retrying, j))
  BY <1>1, TakeRuns
<1>5. RunsFinite(j)'
  BY <1>2, <1>3, <1>4 DEF RunsFinite
<1>6. Cardinality(QueuedRuns(retrying', j)) \in Nat /\ m.retries \in 0..MaxRetries
  BY <1>4, FS_CardinalityType, RetryFacts
<1>7. TotalRuns(j)' <= TotalRuns(j)
  <2>1. CASE m.job = j
    BY <1>1, <1>2, <1>3, <1>4, <1>6, <2>1, TotalFacts DEF TotalRuns
  <2>2. CASE m.job # j
    BY <1>1, <1>2, <1>3, <1>4, <2>2, TotalFacts DEF TotalRuns
  <2>. QED
    BY <2>1, <2>2
<1>. QED
  BY <1>1, <1>5, <1>7 DEF PaidByFault

\* A job nobody has leaves no runs.
LEMMA NobodyRuns ==
    ASSUME NEW j, ready \in [Msg -> Nat], retrying \in [Msg -> Nat],
           \A m \in Msg : m.job = j => ready[m] = 0 /\ retrying[m] = 0,
           \A w \in Workers : ~HeldBy(w, j)
    PROVE  /\ RunsFinite(j)
           /\ Cardinality(QueuedRuns(ready, j)) = 0
           /\ Cardinality(QueuedRuns(retrying, j)) = 0
           /\ Cardinality(HeldRuns(j)) = 0
<1>1. HeldRuns(j) = {}
  BY DEF HeldRuns, Holding, Attempts
<1>2. IsFiniteSet(HeldRuns(j)) /\ Cardinality(HeldRuns(j)) = 0
  BY <1>1, FS_EmptySet
<1>. QED
  BY <1>2, NoRuns DEF RunsFinite

\* A broker restart takes all runs away.
LEMMA RestartPays ==
    ASSUME TypeOK, TypeOK', NEW j \in Jobs, RunsFinite(j), BrokerRestart, UNCHANGED history
    PROVE  PaidByFault(j)
<1>1. /\ \A m \in Msg : ready'[m] = 0 /\ retrying'[m] = 0
      /\ \A w \in Workers : ~live'[w]
      /\ UNCHANGED <<runs, faults>>
  BY EmptyFacts DEF BrokerRestart, history
<1>2. /\ IsFiniteSet(QueuedRuns(ready', j)) /\ Cardinality(QueuedRuns(ready', j)) = 0
      /\ IsFiniteSet(QueuedRuns(retrying', j)) /\ Cardinality(QueuedRuns(retrying', j)) = 0
  BY <1>1, NoRuns DEF TypeOK, QueueTypeOK
<1>3. HeldRuns(j)' = {}
  BY <1>1 DEF HeldRuns, Holding, HeldBy, Attempts
<1>4. IsFiniteSet(HeldRuns(j)') /\ Cardinality(HeldRuns(j)') = 0
  BY <1>3, FS_EmptySet
<1>5. RunsFinite(j)'
  BY <1>2, <1>4 DEF RunsFinite
<1>6. TotalRuns(j)' <= TotalRuns(j)
  BY <1>1, <1>2, <1>4, TotalFacts DEF TotalRuns
<1>. QED
  BY <1>1, <1>5, <1>6 DEF PaidByFault

\* Publishing gives the job the runs of its one message.
LEMMA PublishRuns ==
    ASSUME TypeOK, OnlyPublished, NEW j \in Jobs, RunsFinite(j), NEW i \in Jobs, Publish(i)
    PROVE  /\ RunsFinite(j)' /\ faults' = faults
           /\ i # j => TotalRuns(j)' = TotalRuns(j)
           /\ i = j => TotalRuns(j)' = MaxRetries + 1
<1>. DEFINE fresh == [job |-> i, retries |-> 0]
<1>1. /\ ready' = Put(ready, fresh) /\ UNCHANGED <<retrying, delivery, consumer, live, faults, runs>>
      /\ ready \in [Msg -> Nat] /\ retrying \in [Msg -> Nat] /\ IsFiniteSet(QueuedRuns(ready, j))
      /\ i \notin published
  BY DEF Publish, Enqueue, TypeOK, QueueTypeOK, RunsFinite
<1>2. fresh \in Msg /\ fresh.job = i /\ fresh.retries = 0
  BY FreshFacts
<1>. HIDE DEF fresh
<1>3. /\ IsFiniteSet(QueuedRuns(ready', j))
      /\ i = j => Cardinality(QueuedRuns(ready', j)) =
                     Cardinality(QueuedRuns(ready, j)) + (MaxRetries + 1 - fresh.retries)
      /\ i # j => Cardinality(QueuedRuns(ready', j)) = Cardinality(QueuedRuns(ready, j))
  BY <1>1, <1>2, PutRuns
<1>4. HeldRuns(j)' = HeldRuns(j)
  BY <1>1 DEF HeldRuns, Holding, HeldBy, HeldLevel
<1>5. RunsFinite(j)'
  BY <1>1, <1>3, <1>4 DEF RunsFinite
<1>6. i # j => TotalRuns(j)' = TotalRuns(j)
  BY <1>1, <1>3, <1>4 DEF TotalRuns
<1>7. ASSUME i = j PROVE TotalRuns(j)' = MaxRetries + 1
  <2>1. \A m \in Msg : m.job = j => ready[m] = 0 /\ retrying[m] = 0
    BY <1>1, <1>7 DEF OnlyPublished
  <2>2. \A w \in Workers : ~HeldBy(w, j)
    BY <1>1, <1>7 DEF OnlyPublished, HeldBy
  <2>3. runs[j] = 0
    BY <1>1, <1>7 DEF OnlyPublished
  <2>4. /\ Cardinality(QueuedRuns(ready, j)) = 0 /\ Cardinality(QueuedRuns(retrying, j)) = 0
        /\ Cardinality(HeldRuns(j)) = 0
    BY <1>1, <2>1, <2>2, NobodyRuns
  <2>. QED
    BY <1>1, <1>2, <1>3, <1>4, <1>7, <2>3, <2>4, TotalFacts DEF TotalRuns
<1>. QED
  BY <1>1, <1>5, <1>6, <1>7

\* Every step but a publication is paid for.
LEMMA StepPays ==
    ASSUME TypeOK, TypeOK', [Next]_vars, NEW j \in Jobs, RunsFinite(j), ~\E i \in Jobs : Publish(i)
    PROVE  PaidByFault(j)
<1>1. ASSUME NEW w \in Workers, StartJob(w) PROVE PaidByFault(j)
  BY <1>1, StartPays
<1>2. ASSUME NEW w \in Workers, HandlerOK(w) \/ HandlerFails(w) PROVE PaidByFault(j)
  <2>1. OnlyWorker(w) /\ UNCHANGED <<ready, retrying, runs, faults>>
    BY <1>2 DEF HandlerOK, HandlerFails, Return, OnlyWorker, TypeOK, QueueTypeOK
  <2>2. HeldBy(w, j)' => HeldBy(w, j) /\ delivery'[w] = delivery[w]
    BY <1>2 DEF HandlerOK, HandlerFails, Return, HeldBy, TypeOK, QueueTypeOK
  <2>. QED
    BY <2>1, <2>2, SettledPays
<1>3. ASSUME NEW w \in Workers, UNCHANGED history,
             \/ AckDone(w) \/ DeadLetterMalformed(w) \/ DeadLetter(w) \/ AckRetried(w)
             \/ SettleOnClosed(w)
      PROVE  PaidByFault(j)
  <2>0. Finish(w) /\ UNCHANGED <<ready, retrying, runs, faults>>
    BY <1>3 DEF AckDone, DeadLetterMalformed, DeadLetter, AckRetried, SettleOnClosed, history
  <2>1. OnlyWorker(w) /\ ~HeldBy(w, j)'
    BY <2>0 DEF Finish, OnlyWorker, HeldBy, TypeOK, QueueTypeOK
  <2>. QED
    BY <2>0, <2>1, SettledPays
<1>4. ASSUME NEW w \in Workers, PublishRetry(w), UNCHANGED history PROVE PaidByFault(j)
  BY <1>4, RetryPays
<1>5. ASSUME NEW w \in Workers, NackRequeue(w) \/ SessionLost(w) \/ Crash(w), UNCHANGED history
      PROVE  PaidByFault(j)
  <2>1. OnlyWorker(w) /\ UNCHANGED <<retrying, runs>> /\ faults' = faults + 1
    BY <1>5 DEF NackRequeue, SessionLost, Crash, Finish, Fault, OnlyWorker, history, TypeOK, QueueTypeOK
  <2>2. ~HeldBy(w, j)'
    BY <1>5 DEF NackRequeue, SessionLost, Crash, Finish, HeldBy, TypeOK, QueueTypeOK
  <2>3. \/ ready' = ready
        \/ delivery[w] \in Msg /\ ready' = Put(ready, delivery[w])
    BY <1>5, HoldsMessage DEF NackRequeue, SessionLost, Crash, Requeued, TypeOK
  <2>. QED
    BY <2>1, <2>2, <2>3, RequeuedPays
<1>6. ASSUME NEW w \in Workers, Reconnect(w), UNCHANGED history PROVE PaidByFault(j)
  <2>1. OnlyWorker(w) /\ ~HeldBy(w, j)' /\ UNCHANGED <<ready, retrying, runs, faults>>
    BY <1>6 DEF Reconnect, OnlyWorker, HeldBy, history, TypeOK, QueueTypeOK
  <2>. QED
    BY <2>1, SettledPays
<1>7. ASSUME NEW m \in Msg, RetryExpires(m), UNCHANGED history PROVE PaidByFault(j)
  BY <1>7, ExpiryPays
<1>8. ASSUME BrokerRestart, UNCHANGED history PROVE PaidByFault(j)
  BY <1>8, RestartPays
<1>9. CASE UNCHANGED vars
  <2>1. /\ RunsFinite(j)' /\ TotalRuns(j)' = TotalRuns(j) /\ faults' = faults
    BY <1>9 DEF vars, queueVars, history, RunsFinite, TotalRuns, HeldRuns, Holding, HeldBy, HeldLevel
  <2>2. TotalRuns(j) \in Nat
    BY TotalFacts DEF TotalRuns
  <2>. QED
    BY <2>1, <2>2 DEF PaidByFault
<1>. QED
  BY <1>1, <1>2, <1>3, <1>4, <1>5, <1>6, <1>7, <1>8, <1>9 DEF Next, Settle

\* Every step keeps the total within the bound.
LEMMA RunsStep == TypeOK /\ RunsInv /\ [Next]_vars => RunsInv'
<1>. SUFFICES ASSUME TypeOK, RunsInv, [Next]_vars, NEW j \in Jobs
              PROVE  RunsFinite(j)' /\ TotalRuns(j)' <= (faults' + 1) * (MaxRetries + 1)
  BY OnlyPublishedStep DEF RunsInv
<1>. DEFINE K == MaxRetries + 1
<1>1. /\ TypeOK' /\ OnlyPublished /\ RunsFinite(j) /\ TotalRuns(j) <= (faults + 1) * K
      /\ TotalRuns(j) \in Nat /\ faults \in Nat /\ K \in Nat
  BY TypeStep, TotalFacts, QueueAssumption DEF RunsInv, TypeOK, QueueTypeOK, TotalRuns
<1>2. (faults + 1) * K >= K /\ (faults + 1 + 1) * K = (faults + 1) * K + K
  <2>. HIDE DEF K
  <2>. QED
    BY <1>1
<1>3. CASE \E i \in Jobs : Publish(i)
  <2>1. PICK i \in Jobs : Publish(i)
    BY <1>3
  <2>2. /\ RunsFinite(j)' /\ faults' = faults
        /\ TotalRuns(j)' = TotalRuns(j) \/ TotalRuns(j)' = K
    BY <1>1, <2>1, PublishRuns
  <2>. QED
    BY <1>1, <1>2, <2>2
<1>4. CASE ~\E i \in Jobs : Publish(i)
  <2>1. PaidByFault(j)
    BY <1>1, <1>4, StepPays
  <2>2. RunsFinite(j)' /\ TotalRuns(j)' \in Nat
    <3>1. RunsFinite(j)'
      BY <2>1 DEF PaidByFault
    <3>2. /\ runs'[j] \in Nat /\ Cardinality(QueuedRuns(ready', j)) \in Nat
          /\ Cardinality(QueuedRuns(retrying', j)) \in Nat /\ Cardinality(HeldRuns(j)') \in Nat
      BY <1>1, <3>1, FS_CardinalityType DEF RunsFinite, TypeOK
    <3>. QED
      BY <3>1, <3>2 DEF TotalRuns
  <2>. QED
    BY <1>1, <1>2, <2>1, <2>2 DEF PaidByFault
<1>. QED
  BY <1>3, <1>4

\* A handler runs at most MaxRetries + 1 times on a job for the message that was published and
\* for each fault that put one back: a retry copy and the original it replaces are never both
\* left to run, and an acknowledged delivery runs no more, for any workers and retry limit.
THEOREM RunsAreBounded == Spec => []RunsBoundedByFaults
<1>1. Init => RunsInv
  <2>. SUFFICES ASSUME Init PROVE RunsInv
    OBVIOUS
  <2>1. OnlyPublished
    BY EmptyFacts DEF Init, QueueInit, OnlyPublished
  <2>2. ASSUME NEW j \in Jobs PROVE RunsFinite(j) /\ TotalRuns(j) <= (faults + 1) * (MaxRetries + 1)
    <3>1. /\ RunsFinite(j) /\ Cardinality(QueuedRuns(ready, j)) = 0
          /\ Cardinality(QueuedRuns(retrying, j)) = 0 /\ Cardinality(HeldRuns(j)) = 0
      BY EmptyFacts, NobodyRuns DEF Init, QueueInit, HeldBy
    <3>2. runs[j] = 0 /\ faults = 0 /\ MaxRetries \in Nat
      BY QueueAssumption DEF Init, QueueInit
    <3>. QED
      BY <3>1, <3>2 DEF TotalRuns
  <2>. QED
    BY <2>1, <2>2 DEF RunsInv
<1>2. TypeOK /\ RunsInv => RunsBoundedByFaults
  <2>. SUFFICES ASSUME TypeOK, RunsInv, NEW j \in Jobs
                PROVE  runs[j] <= (faults + 1) * (MaxRetries + 1)
    BY DEF RunsBoundedByFaults
  <2>. DEFINE b == (faults + 1) * (MaxRetries + 1)
  <2>1. TotalRuns(j) <= b /\ b \in Nat /\ RunsFinite(j)
    BY QueueAssumption DEF RunsInv, TypeOK, QueueTypeOK
  <2>. HIDE DEF b
  <2>2. runs[j] <= b
    BY <2>1, TotalFacts DEF TotalRuns
  <2>. QED
    BY <2>2 DEF b
<1>. QED
  BY <1>1, <1>2, TypeInit, TypeStep, RunsStep, PTL DEF Spec
=============================================================================
