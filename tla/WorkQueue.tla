----------------------------- MODULE WorkQueue -----------------------------
(***************************************************************************)
(* The RabbitMQ work queue of internal/queue: a publisher, the primary,    *)
(* retry and dead-letter queues of one job kind, and the consumer loops    *)
(* (RunQRISPaymentWorker, RunTransferWorker) that run a handler on each    *)
(* delivery and settle it by hand.  The two job kinds use disjoint queues  *)
(* with the same topology and the same loop, so one instance stands for    *)
(* either.                                                                 *)
(*                                                                         *)
(* A message is its job and the x-retry-count header.  Queues are bags:    *)
(* nothing in the code relies on their order, which redelivery and the     *)
(* retry detour break anyway.  A message a consumer has prefetched and not *)
(* started counts as still ready: losing the session puts it back there.   *)
(*                                                                         *)
(* The broker is external and modelled from how the code uses it: manual   *)
(* acknowledgement, so that an unsettled delivery returns to the queue     *)
(* when its channel closes; a message that sets no delivery mode, which a  *)
(* broker restart loses although its queue is durable; a retry queue whose *)
(* expired messages are dead-lettered to the primary queue.                *)
(***************************************************************************)
EXTENDS Integers

CONSTANTS Jobs,          \* what messages are about
          Workers,       \* consumer loops
          Malformed,     \* jobs whose body is not valid JSON for the handler
          MaxRetries,    \* maxRetryAttempts
          MaxFaults,     \* bound on injected faults
          MaxRestarts,   \* bound on broker restarts
          NoMsg          \* what an idle worker holds

Msg == [job : Jobs, retries : 0..MaxRetries]

ASSUME QueueAssumption ==
    /\ Malformed \subseteq Jobs
    /\ MaxRetries \in Nat \ {0}
    /\ MaxFaults \in Nat
    /\ MaxRestarts \in Nat
    /\ NoMsg \notin Msg

VARIABLES ready,      \* the primary queue
          retrying,   \* the retry queue
          dead,       \* the dead-letter queue
          delivery,   \* delivery[w]: the message worker w works on
          consumer,   \* consumer[w]: where worker w is in runSession's loop
          live,       \* live[w]: worker w's channel is open
          faults,     \* faults injected so far
          restarts    \* broker restarts so far

queueVars == <<ready, retrying, dead, delivery, consumer, live, faults, restarts>>

ConsumerStates == {"waiting", "handling", "succeeded", "failed", "acking"}

Put(q, m) == [q EXCEPT ![m] = @ + 1]
Take(q, m) == [q EXCEPT ![m] = @ - 1]

\* Mutant: publishRetry copies the headers without raising the count.
RetryUncounted(m) == m

Retry(m) == [m EXCEPT !.retries = @ + 1]
\* Mutant: >= instead of > drops the last retry.
ExhaustedEarly(m) == m.retries + 1 >= MaxRetries

Exhausted(m) == m.retries + 1 > MaxRetries

-----------------------------------------------------------------------------
EmptyQueue == [m \in Msg |-> 0]

QueueInit ==
    /\ ready = EmptyQueue
    /\ retrying = EmptyQueue
    /\ dead = EmptyQueue
    /\ delivery = [w \in Workers |-> NoMsg]
    /\ consumer = [w \in Workers |-> "waiting"]
    /\ live = [w \in Workers |-> TRUE]
    /\ faults = 0
    /\ restarts = 0

\* publishJSON: the message starts with x-retry-count 0.
Enqueue(j) ==
    /\ ready' = Put(ready, [job |-> j, retries |-> 0])
    /\ UNCHANGED <<retrying, dead, delivery, consumer, live, faults, restarts>>

Fault ==
    /\ faults < MaxFaults
    /\ faults' = faults + 1

-----------------------------------------------------------------------------
(* runSession, one delivery at a time. *)

Deliver(w) ==
    /\ live[w]
    /\ consumer[w] = "waiting"
    /\ \E m \in Msg :
          /\ ready[m] > 0
          /\ ready' = Take(ready, m)
          /\ delivery' = [delivery EXCEPT ![w] = m]
    /\ consumer' = [consumer EXCEPT ![w] = "handling"]
    /\ UNCHANGED <<retrying, dead, live, faults, restarts>>

\* The handler returned: the outcome decides how the delivery is settled.  It
\* may return long after the channel that carried the delivery has closed.
\* Whether a fault made it fail is the handler's business.
Return(w, outcome) ==
    /\ consumer[w] = "handling"
    /\ delivery[w].job \notin Malformed
    /\ consumer' = [consumer EXCEPT ![w] = outcome]
    /\ UNCHANGED <<ready, retrying, dead, delivery, live, restarts>>

\* Mutant: the loop goes on to the next delivery with the old one still in hand.
FinishKeepsDelivery(w) ==
    /\ consumer' = [consumer EXCEPT ![w] = "waiting"]
    /\ UNCHANGED <<delivery, live, restarts>>

\* The worker is done with its delivery and waits for the next one.
Finish(w) ==
    /\ consumer' = [consumer EXCEPT ![w] = "waiting"]
    /\ delivery' = [delivery EXCEPT ![w] = NoMsg]
    /\ UNCHANGED <<live, restarts>>

\* Mutant: a finished job is put back instead of acknowledged.
AckDoneRequeues(w) ==
    /\ live[w]
    /\ consumer[w] = "succeeded"
    /\ Finish(w)
    /\ ready' = Put(ready, delivery[w])
    /\ UNCHANGED <<retrying, dead, faults>>

AckDone(w) ==
    /\ live[w]
    /\ consumer[w] = "succeeded"
    /\ Finish(w)
    /\ UNCHANGED <<ready, retrying, dead, faults>>

\* A body json.Unmarshal rejects is never handled or retried.
DeadLetterMalformed(w) ==
    /\ live[w]
    /\ consumer[w] = "handling"
    /\ delivery[w].job \in Malformed
    /\ dead' = Put(dead, delivery[w])
    /\ Finish(w)
    /\ UNCHANGED <<ready, retrying, faults>>

DeadLetter(w) ==
    /\ live[w]
    /\ consumer[w] = "failed"
    /\ Exhausted(delivery[w])
    /\ dead' = Put(dead, delivery[w])
    /\ Finish(w)
    /\ UNCHANGED <<ready, retrying, faults>>

\* publishRetry puts a copy with a higher count on the retry queue; the
\* original is acknowledged by a second frame on the same channel.
PublishRetry(w) ==
    /\ live[w]
    /\ consumer[w] = "failed"
    /\ ~ Exhausted(delivery[w])
    /\ retrying' = Put(retrying, Retry(delivery[w]))
    /\ consumer' = [consumer EXCEPT ![w] = "acking"]
    /\ UNCHANGED <<ready, dead, delivery, live, faults, restarts>>

\* Mutant: the original is put back although its retry copy was published.
AckRetriedRequeues(w) ==
    /\ live[w]
    /\ consumer[w] = "acking"
    /\ Finish(w)
    /\ ready' = Put(ready, delivery[w])
    /\ UNCHANGED <<retrying, dead, faults>>

AckRetried(w) ==
    /\ live[w]
    /\ consumer[w] = "acking"
    /\ Finish(w)
    /\ UNCHANGED <<ready, retrying, dead, faults>>

\* publishRetry failed: Nack puts the original back, its count unchanged.
NackRequeue(w) ==
    /\ live[w]
    /\ consumer[w] = "failed"
    /\ ~ Exhausted(delivery[w])
    /\ Fault
    /\ ready' = Put(ready, delivery[w])
    /\ Finish(w)
    /\ UNCHANGED <<retrying, dead>>

\* On a closed channel every settlement fails and is given up; the loop then
\* finds its delivery channel closed.
SettleOnClosed(w) ==
    /\ ~ live[w]
    /\ \/ consumer[w] \in {"succeeded", "failed", "acking"}
       \/ consumer[w] = "handling" /\ delivery[w].job \in Malformed
    /\ Finish(w)
    /\ UNCHANGED <<ready, retrying, dead, faults>>

\* What runSession does with a delivery once the handler is done.
Settle(w) ==
    \/ AckDone(w)
    \/ DeadLetterMalformed(w)
    \/ DeadLetter(w)
    \/ PublishRetry(w)
    \/ AckRetried(w)
    \/ NackRequeue(w)
    \/ SettleOnClosed(w)

\* The reconnect loop of Run*Worker: a new connection, channel and consumer.
Reconnect(w) ==
    /\ ~ live[w]
    /\ consumer[w] = "waiting"
    /\ live' = [live EXCEPT ![w] = TRUE]
    /\ UNCHANGED <<ready, retrying, dead, delivery, consumer, faults, restarts>>

-----------------------------------------------------------------------------
(* The broker and its faults. *)

\* Mutant: Consume with autoAck, so that nothing is unsettled.
RequeuedNever(w) == UNCHANGED ready

\* The unsettled delivery of a closing channel returns to the primary queue.
Requeued(w) ==
    ready' = IF live[w] /\ consumer[w] # "waiting" THEN Put(ready, delivery[w]) ELSE ready

\* The connection drops; a running handler does not notice and goes on.
SessionLost(w) ==
    /\ live[w]
    /\ Fault
    /\ live' = [live EXCEPT ![w] = FALSE]
    /\ Requeued(w)
    /\ UNCHANGED <<retrying, dead, delivery, consumer, restarts>>

\* The process dies and the handler with it.
Crash(w) ==
    /\ live[w] \/ consumer[w] # "waiting"
    /\ Fault
    /\ live' = [live EXCEPT ![w] = FALSE]
    /\ Requeued(w)
    /\ consumer' = [consumer EXCEPT ![w] = "waiting"]
    /\ delivery' = [delivery EXCEPT ![w] = NoMsg]
    /\ UNCHANGED <<retrying, dead, restarts>>

\* Mutant: the retry queue is declared without its dead-letter routing.
RetryExpiresDropped(m) ==
    /\ retrying[m] > 0
    /\ retrying' = Take(retrying, m)
    /\ UNCHANGED <<ready, dead, delivery, consumer, live, faults, restarts>>

\* The message's Expiration passed: dead-lettered to the primary queue.
RetryExpires(m) ==
    /\ retrying[m] > 0
    /\ retrying' = Take(retrying, m)
    /\ ready' = Put(ready, m)
    /\ UNCHANGED <<dead, delivery, consumer, live, faults, restarts>>

\* Messages are transient: a broker restart empties the durable queues.
BrokerRestart ==
    /\ restarts < MaxRestarts
    /\ restarts' = restarts + 1
    /\ ready' = EmptyQueue
    /\ retrying' = EmptyQueue
    /\ dead' = EmptyQueue
    /\ live' = [w \in Workers |-> FALSE]
    /\ UNCHANGED <<delivery, consumer, faults>>

QueueTypeOK ==
    /\ ready \in [Msg -> Nat]
    /\ retrying \in [Msg -> Nat]
    /\ dead \in [Msg -> Nat]
    /\ delivery \in [Workers -> Msg \cup {NoMsg}]
    /\ consumer \in [Workers -> ConsumerStates]
    /\ live \in [Workers -> BOOLEAN]
    /\ faults \in 0..MaxFaults
    /\ restarts \in 0..MaxRestarts
    /\ \A w \in Workers : consumer[w] = "waiting" <=> delivery[w] = NoMsg
=============================================================================
