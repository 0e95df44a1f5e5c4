--------------------------- MODULE PaymentPipeline ---------------------------
(***************************************************************************)
(* The payment path end to end: API handlers (PaymentIntake), the work     *)
(* queue (WorkQueue), workers (PaymentWorker) and status reads             *)
(* (StatusReads) around PostgreSQL and Redis (TransactionStore).  This is  *)
(* how internal/bridge wires them: handlers and workers share nothing but  *)
(* the tables, the cache and the queue.                                    *)
(***************************************************************************)
EXTENDS PaymentIntake, PaymentWorker, StatusReads

VARIABLES stopping,     \* the process has got SIGINT or SIGTERM
          interrupted   \* history: runs the signal cut off once they could have paid

processVars == <<stopping, interrupted>>
vars == <<queueVars, storeVars, intakeVars, workerVars, reader, processVars>>

Init ==
    /\ QueueInit /\ StoreInit /\ IntakeInit /\ WorkerInit /\ ReaderInit
    /\ stopping = FALSE /\ interrupted = 0

\* API handlers are not told to stop: ListenAndServe is never shut down.
IntakeStep(c) ==
    /\ CreateTransaction(c) \/ IntakeCrash(c) \/ \E r \in Requests : Submit(c, r)
    /\ UNCHANGED <<workerVars, reader, processVars>>

\* Jobs run under the context the signal cancels.
RunHandler(w) ==
    \/ ~stopping /\ (HandleQRISPayment(w) \/ HandleTransfer(w)) /\ UNCHANGED interrupted
    \/ /\ stopping
       /\ CancelHandler(w)
       /\ interrupted' = IF stage[w] = "start" THEN interrupted ELSE interrupted + 1
       /\ UNCHANGED faults

\* A worker loop that waits takes the signal or a delivery, whichever select picks.
HandlerStep(w) ==
    /\ \/ RunHandler(w)
       \/ (StartJob(w) \/ JobTimesOut(w) \/ WorkerCrash(w)) /\ UNCHANGED interrupted
    /\ UNCHANGED <<intakeVars, reader, stopping>>

\* What the queue does by itself; a running handler is not told.
Consume(w) ==
    /\ AckDone(w) \/ DeadLetter(w) \/ PublishRetry(w) \/ AckRetried(w)
       \/ NackRequeue(w) \/ SettleOnClosed(w)
    /\ UNCHANGED <<storeVars, intakeVars, workerVars, reader, processVars>>

\* runSession returns on ctx.Done and closes its channel.
LoopEnds(w) ==
    /\ stopping
    /\ live[w] /\ consumer[w] = "waiting"
    /\ live' = [live EXCEPT ![w] = FALSE]
    /\ UNCHANGED <<ready, retrying, dead, delivery, consumer, faults, restarts>>

\* Mutant: the reconnect loop does not look at its context.
ReconnectAlways(w) == Reconnect(w)

\* The reconnect loop ends with its context.
ReconnectUnlessStopping(w) == ~stopping /\ Reconnect(w)

Session(w) ==
    /\ ReconnectUnlessStopping(w) \/ SessionLost(w) \/ LoopEnds(w)
    /\ UNCHANGED <<storeVars, intakeVars, workerVars, reader, processVars>>

Broker ==
    /\ BrokerRestart \/ \E m \in Msg : RetryExpires(m)
    /\ UNCHANGED <<storeVars, intakeVars, workerVars, reader, processVars>>

ReaderStep(r) ==
    /\ GetStatus(r) \/ \E k \in Keys : Ask(r, k) \/ GetDetail(r, k)
    /\ UNCHANGED <<intakeVars, workerVars, processVars>>

Expiry(k) ==
    /\ CacheExpires(k)
    /\ UNCHANGED <<queueVars, intakeVars, workerVars, reader, processVars>>

\* The signal.  It counts as a fault: it cancels whatever the workers are doing.
Stop ==
    /\ ~stopping
    /\ Fault
    /\ stopping' = TRUE
    /\ UNCHANGED <<queueRest, storeVars, intakeVars, workerVars, reader, interrupted>>

\* The process, still serving requests without any worker, is killed and started again.
Restart ==
    /\ stopping
    /\ \A w \in Workers : ~live[w] /\ consumer[w] = "waiting"
    /\ stopping' = FALSE
    /\ intake' = [c \in Clients |-> CutOff(intake[c])]
    /\ merchant' = [c \in Clients |-> NoMerchant]
    /\ UNCHANGED <<queueVars, storeVars, request, replaying, lost, catalogueVars, workerVars,
                   reader, interrupted>>

Next ==
    \/ \E c \in Clients : IntakeStep(c)
    \/ \E w \in Workers : HandlerStep(w) \/ Consume(w) \/ Session(w)
    \/ Broker
    \/ \E r \in Readers : ReaderStep(r)
    \/ \E k \in Keys : Expiry(k)
    \/ Stop \/ Restart

Spec == Init /\ [][Next]_vars

\* Handlers run to their end (database, Redis and legacy calls time out, jobs
\* after 15 s), the broker delivers and expires, sessions are re-established
\* after 3 s, cache entries expire after 30 s, and a loop that is told to stop
\* does.  Faults, stopping and starting again are never obliged.
Fairness ==
    /\ \A c \in Clients :
          WF_vars(CreateTransaction(c) /\ UNCHANGED <<workerVars, reader, processVars>>)
    /\ \A w \in Workers :
          /\ WF_vars(StartJob(w) /\ UNCHANGED <<intakeVars, reader, processVars>>)
          /\ WF_vars(RunHandler(w) /\ UNCHANGED <<intakeVars, reader, stopping>>)
          /\ WF_vars(Consume(w))
          /\ WF_vars((ReconnectUnlessStopping(w) \/ LoopEnds(w)) /\ Session(w))
    /\ \A m \in Msg : WF_vars(RetryExpires(m) /\ Broker)
    /\ \A r \in Readers : WF_vars(GetStatus(r) /\ ReaderStep(r))
    /\ \A k \in Keys : WF_vars(Expiry(k))

FairSpec == Spec /\ Fairness

-----------------------------------------------------------------------------
(* Safety. *)

\* Every component's state keeps its type, and a worker's handler is somewhere
\* exactly while its consumer loop waits for it.
TypeOK ==
    /\ QueueTypeOK /\ StoreTypeOK /\ IntakeTypeOK /\ WorkerTypeOK /\ ReaderTypeOK
    /\ stopping \in BOOLEAN /\ interrupted \in Nat

\* c inserted the row of its key.
Creator(c) == intake[c] \in Creating \cup {"created", "aborted"}

\* However retries of a request interleave, one of them at most gets past the
\* insert: a key is published, and its payment asked for, by one handler only.
OneCreator ==
    \A c, d \in Clients : Creator(c) /\ Creator(d) /\ Key(c) = Key(d) => c = d

\* Whoever is told that a payment was accepted, as created or as a replay, asked
\* for exactly the payment that is stored under the key, destination included.
AcceptedAsStored ==
    \A c \in Clients :
        /\ intake[c] = "created" => body[Key(c)] = request[c]
        /\ intake[c] = "replayed" => SamePayment(body[Key(c)], request[c])

\* Every QRIS payment names the catalogue's one row of the merchant it was asked for, however
\* the requests that resolved the merchant raced to insert that row or failed half way.
PayeeIsCatalogued ==
    \A k \in Keys :
        status[k] # "absent" /\ body[k].kind = "qris" =>
            /\ payee[k] # NoMerchant
            /\ payee[k] = merchants[CodeOf[body[k].target]]

\* A QRIS request that is refused as a conflict does ask for another payment: the same one
\* asked for again is never refused, be its merchant named by id, by code or otherwise.
QRISConflictMeansMismatch ==
    \A c \in Clients :
        intake[c] = "conflict" /\ request[c].kind = "qris" => ~SamePayment(body[Key(c)], request[c])

\* No row, no cache entry and no status answer says SUCCESS before legacy has
\* executed the payment, and legacy executes only what has been accepted.
SuccessIsPaid ==
    /\ \A k \in Keys : status[k] = "SUCCESS" \/ cached[k] = "SUCCESS" => ledger[k] > 0
    /\ \A r \in Readers : reader[r].seen = "SUCCESS" => ledger[reader[r].key] > 0
    /\ \A k \in Keys : ledger[k] > 0 => status[k] # "absent"

\* A payment is executed once, plus at most once for every fault and for every run that a
\* signal cut off after its legacy call could have begun: retries, redeliveries and
\* duplicate requests add no execution of their own.
ExecutionsBoundedByFaults == \A k \in Keys : ledger[k] <= 1 + faults + interrupted

\* Without faults, a payment reported FAILED has not been executed.
FailedNotPaidWithoutFault ==
    faults = 0 => \A k \in Keys : status[k] = "FAILED" => ledger[k] = 0

\* Some copy of k's message waits in a queue.
InQueue(k) == \E m \in Msg : m.job = k /\ (ready[m] > 0 \/ retrying[m] > 0)

Parked(k) == \E m \in Msg : m.job = k /\ dead[m] > 0

\* A row that is still PROCESSING has somebody working on it, unless its creator
\* was stopped by an error after the insert, its message was lost with the broker
\* or in publishing, or it was given up to the dead-letter queue.
ProcessingHasOwner ==
    \A k \in Keys : status[k] = "PROCESSING" =>
        \/ \E c \in Clients : intake[c] \in Creating \ {"enqueued"} /\ Key(c) = k
        \/ InQueue(k) \/ Parked(k)
        \/ \E w \in Workers : consumer[w] # "waiting" /\ Job(w) = k
        \/ restarts > 0 \/ k \in lost
        \/ \E c \in Clients : intake[c] = "aborted" /\ Key(c) = k

Contract == INSTANCE TransactionContract WITH executed <- ledger

\* The whole pipeline implements the contract of TransactionContract: in every
\* interleaving and under every fault, a stored request never changes, nothing
\* is executed that was not accepted, SUCCESS follows an execution and no row
\* goes back to PROCESSING.
ImplementsContract == Contract!Spec

-----------------------------------------------------------------------------
(* Liveness. *)

\* Once a client has been told that its payment is accepted, the row settles,
\* through worker faults, retries and redeliveries, unless the message was lost
\* or exhausted its retries.  A process that has been told to stop accepts payments
\* all the same; they settle if it does not stay stopped.
AcceptedSettles ==
    (<>[]~stopping) =>
        \A c \in Clients, k \in Keys :
            intake[c] = "created" /\ Key(c) = k ~>
                status[k] \in Settled \/ Parked(k) \/ restarts > 0 \/ k \in lost

\* A stop comes to an end: every worker loop leaves, with jobs in the queue and retries coming
\* back to it, and none of them reconnects.
WorkersStop == <>[]stopping => <>[](\A w \in Workers : ~live[w])

\* In the end Redis agrees with the row or holds nothing, for good: a status that
\* a slow background fill wrote over a newer one does not survive, however many
\* status requests go on arriving.
CacheConverges ==
    \A k \in Keys : <>[](cached[k] \in {"none", status[k]})

-----------------------------------------------------------------------------
(* What the repository's documents say and the code does not guarantee. *)

\* worker.go: the worker "finalizes queued QRIS transactions".
FinalResultStable ==
    [][ \A k \in Keys : status[k] \in Settled => status'[k] = status[k] ]_vars

\* auth_flow.md: legacy executes the transaction or returns an authoritative
\* failed result, and DANTE stores the result.
FailedMeansNotPaid == \A k \in Keys : status[k] = "FAILED" => ledger[k] = 0

\* qris.go: the conflict error "reports a mismatched request under an existing
\* idempotency key".
ConflictMeansMismatch ==
    \A c \in Clients : intake[c] = "conflict" => ~SamePayment(body[Key(c)], request[c])
=============================================================================
