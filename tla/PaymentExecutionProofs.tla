----------------------- MODULE PaymentExecutionProofs -----------------------
(***************************************************************************)
(* More proofs about PaymentPipeline: when a payment may be said to be     *)
(* paid, that the pipeline implements TransactionContract, who still works *)
(* on an unsettled payment, and how often a payment is executed.           *)
(***************************************************************************)
EXTENDS PaymentPipelineProofs

\* What one step of worker w's handler does to the tables, the cache and the bank.
LEMMA HandlerWrites ==
    ASSUME TypeInv, NEW w \in Workers, HandlerStep(w)
    PROVE  /\ UNCHANGED <<body, reader>>
           /\ \/ UNCHANGED <<status, ledger>>
              \/ /\ stage[w] = "update" /\ UNCHANGED ledger
                 /\ status' = [status EXCEPT ![Job(w)] = outcome[w]]
              \/ stage[w] = "execute" /\ UNCHANGED status /\ Executes(w)
           /\ \/ UNCHANGED cached
              \/ stage[w] = "cache" /\ cached' = [cached EXCEPT ![Job(w)] = outcome[w]]
           /\ \A v \in Workers : outcome'[v] # "none" =>
                 /\ Job(v)' = Job(v)
                 /\ outcome'[v] = outcome[v] \/ (v = w /\ stage[w] = "execute")
           /\ \A v \in Workers : outcome'[v] = "SUCCESS" =>
                 outcome[v] = "SUCCESS" \/ (v = w /\ Executes(w))
<1>0. UNCHANGED reader /\ outcome \in [Workers -> {"none"} \cup Settled]
      /\ delivery \in [Workers -> Msg \cup {NoMsg}]
  BY DEF HandlerStep, TypeInv, TypeOK, WorkerTypeOK, QueueTypeOK
<1> USE <1>0 DEF Unwritten, storeVars, queueRest, Works, Fails, Vacate, HandlerReturns, Return, Proceed, Job
<1>1. CASE StartJob(w)
  <2>1. outcome[w] = "none"
    BY <1>1 DEF StartJob, Deliver, TypeInv, TypeOK, WorkerTypeOK
  <2>. QED
    BY <1>1, <2>1 DEF StartJob, Deliver
<1>2. CASE WorkerCrash(w)
  BY <1>2 DEF WorkerCrash, Crash
<1>3. CASE RecordStarted(w)
  BY <1>3 DEF RecordStarted, CreateTransactionEvent
<1>4. CASE ExecutePayment(w)
  <2>1. "ok" \notin RefusedResults("OTHER")
    BY LegacyFacts DEF Refusals
  <2>. QED
    BY <1>4, <2>1 DEF ExecutePayment, Outcome
<1>5. CASE UpdateRow(w)
  BY <1>5 DEF UpdateRow, UpdateTransactionStatus
<1>6. CASE CacheOutcome(w)
  BY <1>6 DEF CacheOutcome, SetTransactionStatus
<1>7. CASE DropBalance(w) \/ RecordOutcome(w)
  BY <1>7 DEF DropBalance, RecordOutcome, CreateTransactionEvent
<1>8. CASE CancelHandler(w)
  BY <1>8 DEF CancelHandler, CreateTransactionEvent, UpdateTransactionStatus, SetTransactionStatus
<1>. QED
  BY <1>1, <1>2, <1>3, <1>4, <1>5, <1>6, <1>7, <1>8, HandlerCases DEF Handle

\* Consumer loops and broker leave a running handler and what it works on alone.
LEMMA QueueKeepsHandlers ==
    ASSUME TypeInv, Broker \/ \E w \in Workers : Consume(w) \/ Session(w),
           NEW v \in Workers, consumer[v] = "handling"
    PROVE  consumer'[v] = "handling" /\ delivery'[v] = delivery[v]
<1>0. /\ consumer \in [Workers -> ConsumerStates] /\ delivery \in [Workers -> Msg \cup {NoMsg}]
      /\ Malformed = {}
  BY RequestAssumption DEF TypeInv, TypeOK, QueueTypeOK
<1>1. ASSUME NEW w \in Workers, Consume(w)
      PROVE  consumer'[v] = "handling" /\ delivery'[v] = delivery[v]
  BY <1>0, <1>1 DEF Consume, AckDone, DeadLetter, PublishRetry, AckRetried, NackRequeue,
                    SettleOnClosed, Finish
<1>2. ASSUME NEW w \in Workers, Session(w)
      PROVE  consumer'[v] = "handling" /\ delivery'[v] = delivery[v]
  BY <1>2 DEF Session, ReconnectUnlessStopping, Reconnect, SessionLost, LoopEnds
<1>3. CASE Broker
  BY <1>3 DEF Broker, BrokerRestart, RetryExpires
<1>. QED
  BY <1>1, <1>2, <1>3

\* The message PublishJob sends for key k.
Fresh(k) == [job |-> k, retries |-> 0]

\* What one step of c's handler does to the row, the cache and the queue.
LEMMA IntakeEffects ==
    ASSUME TypeInv, NEW c \in Clients, IntakeStep(c)
    PROVE  /\ UNCHANGED <<retrying, dead, delivery, consumer, live, restarts, workerVars, reader,
                          stopping, interrupted>>
           /\ faults' = faults \/ faults' = faults + 1
           /\ \/ UNCHANGED ready
              \/ /\ intake[c] = "publish" /\ intake'[c] = "enqueued"
                 /\ ready' = Put(ready, Fresh(Key(c))) /\ UNCHANGED faults
           /\ \/ UNCHANGED status
              \/ intake[c] = "insert" /\ InsertRow(request[c])
              \/ intake[c] = "markFailed" /\ status' = [status EXCEPT ![Key(c)] = "FAILED"]
           /\ \/ UNCHANGED cached
              \/ \E v \in {"PROCESSING", "FAILED"} :
                    intake[c] \in Creating /\ cached' = [cached EXCEPT ![Key(c)] = v]
<1>0. UNCHANGED <<workerVars, reader, stopping, interrupted>> /\ intake \in [Clients -> IntakeStates]
  BY DEF IntakeStep, processVars, TypeInv, TypeOK, IntakeTypeOK
<1> USE <1>0 DEF Unwritten, Reads, Writes, Works, Fails, Fault, Goto, storeVars, queueRest
<1>1. ASSUME NEW r \in Requests, Submit(c, r)
      PROVE  UNCHANGED <<ready, retrying, dead, delivery, consumer, live, faults, restarts, status, cached>>
  BY <1>1 DEF Submit
<1>2. CASE IntakeCrash(c)
  BY <1>2 DEF IntakeCrash
<1>3. CASE CreateTransaction(c)
  <2>1. CASE Lookup(c) \/ CompareTransfer(c) \/ CompareEvents(c) \/ Resolve(c)
    BY <2>1 DEF Lookup, CompareTransfer, CompareEvents, Resolve
  <2>2. CASE FindMerchant(c) \/ GetQrisMerchant(c) \/ ReloadMerchant(c)
    BY <2>2 DEF FindMerchant, GetQrisMerchant, ReloadMerchant
  <2>3. CASE CreateMerchant(c)
    BY <2>3 DEF CreateMerchant
  <2>4. CASE Insert(c)
    <3>1. CASE InsertTransaction(c)
      <4>1. InsertRow(request[c]) /\ UNCHANGED cached
        BY <3>1 DEF InsertTransaction, InsertRow
      <4>. QED
        BY <2>4, <4>1 DEF Insert
    <3>2. CASE NoInsert
      BY <2>4, <3>2 DEF Insert, NoInsert
    <3>. QED
      BY <2>4, <3>1, <3>2 DEF Insert
  <2>5. CASE RecordCreated(c) \/ RecordEnqueued(c) \/ RecordQueueError(c)
    BY <2>5 DEF RecordCreated, RecordEnqueued, RecordQueueError, CreateTransactionEvent
  <2>6. CASE CacheProcessing(c) \/ CachePublishFailed(c)
    BY <2>6 DEF CacheProcessing, CachePublishFailed, SetTransactionStatus, Creating
  <2>7. CASE MarkPublishFailed(c)
    BY <2>7 DEF MarkPublishFailed, UpdateTransactionStatus
  <2>8. CASE PublishJob(c)
    BY <2>8 DEF PublishJob, Enqueue, Fresh
  <2>. QED
    BY <1>3, <2>1, <2>2, <2>3, <2>4, <2>5, <2>6, <2>7, <2>8
       DEF CreateTransaction, QRISCreateTransaction, TransferCreateTransaction, ResolveMerchant,
           Accept
<1>. QED
  BY <1>1, <1>2, <1>3 DEF IntakeStep

\* What one step of a status request does.
LEMMA ReaderEffects ==
    ASSUME TypeInv, NEW r \in Readers, ReaderStep(r)
    PROVE  /\ UNCHANGED <<ready, retrying, dead, delivery, consumer, live, restarts, body, status,
                          intakeVars, workerVars, stopping, interrupted>>
           /\ faults' = faults \/ faults' = faults + 1
           /\ \/ UNCHANGED cached
              \/ cached' = [cached EXCEPT ![reader[r].key] = reader[r].seen]
           /\ \A q \in Readers \ {r} : reader'[q] = reader[q]
           /\ reader'[r].seen = "SUCCESS" =>
                 \/ reader[r].seen = "SUCCESS" /\ reader'[r].key = reader[r].key
                 \/ \E k \in Keys : /\ reader'[r].key = k
                                    /\ status[k] = "SUCCESS" \/ cached[k] = "SUCCESS"
<1>0. reader \in [Readers -> Reading] /\ reader[r].key \in Keys
  BY DEF TypeInv, TypeOK, ReaderTypeOK, Reading
<1>1. UNCHANGED <<intakeVars, workerVars, stopping, interrupted>>
  BY DEF ReaderStep, processVars
<1> USE <1>0, <1>1 DEF Unwritten, Works, Fails, Fault, storeVars, queueRest, Reading
<1>2. ASSUME NEW k \in Keys, Ask(r, k)
      PROVE  /\ UNCHANGED <<ready, retrying, dead, delivery, consumer, live, restarts, body, status,
                            cached, faults>>
             /\ \A q \in Readers \ {r} : reader'[q] = reader[q]
             /\ reader'[r].seen = "none"
  BY <1>2 DEF Ask
<1>3. ASSUME NEW k \in Keys, GetDetail(r, k)
      PROVE  /\ UNCHANGED <<ready, retrying, dead, delivery, consumer, live, restarts, body, status,
                            cached, faults>>
             /\ \A q \in Readers \ {r} : reader'[q] = reader[q]
             /\ reader'[r].seen = status[k] /\ reader'[r].key = k
  BY <1>3 DEF GetDetail
<1>4. CASE ReadCache(r)
  BY <1>4 DEF ReadCache, Sees
<1>5. CASE ReadRow(r)
  BY <1>5 DEF ReadRow, Sees
<1>6. CASE FillCache(r)
  BY <1>6 DEF FillCache, SetTransactionStatus
<1>. QED
  BY <1>2, <1>3, <1>4, <1>5, <1>6 DEF ReaderStep, GetStatus

-----------------------------------------------------------------------------
(***************************************************************************)
(* SUCCESS is written to a row, to the cache and into an answer from four  *)
(* places, each of which got it from another one.  The source is the       *)
(* outcome in a worker's hand, which the strengthening adds.               *)
(***************************************************************************)
PaidInv ==
    /\ SuccessIsPaid
    /\ \A w \in Workers : outcome[w] = "SUCCESS" => ledger[Job(w)] > 0

\* Every step keeps SUCCESS behind the execution.
LEMMA PaidStep == TypeInv /\ PaidInv /\ [Next]_vars => PaidInv'
<1> SUFFICES ASSUME TypeInv, PaidInv, [Next]_vars
             PROVE  PaidInv'
  OBVIOUS
<1>0. /\ ledger \in [Keys -> Nat] /\ status \in [Keys -> RowStatus] /\ cached \in [Keys -> CachedStatus]
      /\ \A r \in Readers : reader[r].key \in Keys
      /\ \A c \in Clients : intake[c] # "idle" => Key(c) \in Keys
  BY RequestFacts
     DEF TypeInv, TypeOK, WorkerTypeOK, StoreTypeOK, ReaderTypeOK, Reading, IntakeTypeOK, Key
<1>a. ASSUME NEW w \in Workers, stage[w] # "idle"
      PROVE  Job(w) \in Keys /\ status[Job(w)] # "absent"
  BY <1>a, HoldsMessage, RetryFacts
     DEF TypeInv, TypeOK, WorkerTypeOK, HandledExist, Job, Keys
<1> USE DEF PaidInv, SuccessIsPaid
<1>1. ASSUME NEW c \in Clients, IntakeStep(c)
      PROVE  PaidInv'
  <2>1. UNCHANGED <<ledger, outcome, delivery, reader>>
    BY <1>1, IntakeEffects DEF workerVars
  <2>2. \A k \in Keys : /\ status'[k] = "SUCCESS" => status[k] = "SUCCESS"
                        /\ status[k] # "absent" => status'[k] # "absent"
    BY <1>0, <1>1, IntakeEffects DEF InsertRow, Key
  <2>3. \A k \in Keys : cached'[k] = "SUCCESS" => cached[k] = "SUCCESS"
    BY <1>0, <1>1, IntakeEffects DEF Creating
  <2>. QED
    BY <1>0, <2>1, <2>2, <2>3 DEF Job
<1>2. ASSUME NEW w \in Workers, HandlerStep(w)
      PROVE  PaidInv'
  <2>1. \A k \in Keys : ledger'[k] >= ledger[k] /\ ledger'[k] \in Nat
    BY <1>0, <1>2, HandlerWrites DEF Executes
  <2>2. \A k \in Keys : /\ ledger'[k] > 0 => status[k] # "absent"
                        /\ status[k] # "absent" => status'[k] # "absent"
    <3>1. stage[w] = "update" => outcome[w] \in Settled
      BY DEF TypeInv, TypeOK, WorkerTypeOK
    <3>. QED
      BY <1>0, <1>2, <1>a, <3>1, HandlerWrites DEF Executes, Settled
  <2>3. \A k \in Keys : status'[k] = "SUCCESS" => ledger'[k] > 0
    BY <1>0, <1>2, <1>a, <2>1, HandlerWrites
  <2>4. \A k \in Keys : cached'[k] = "SUCCESS" => ledger'[k] > 0
    BY <1>0, <1>2, <1>a, <2>1, HandlerWrites
  <2>5. \A r \in Readers : reader'[r].seen = "SUCCESS" => ledger'[reader'[r].key] > 0
    BY <1>0, <1>2, <2>1, HandlerWrites
  <2>6. ASSUME NEW v \in Workers, outcome'[v] = "SUCCESS"
        PROVE  ledger'[Job(v)'] > 0
    <3>1. Job(v)' = Job(v) /\ stage[v] # "idle"
          /\ (outcome[v] = "SUCCESS" \/ (v = w /\ Executes(w)))
      BY <1>2, <2>6, HandlerWrites DEF TypeInv, TypeOK, WorkerTypeOK
    <3>2. Job(v) \in Keys
      BY <3>1, <1>a
    <3>3. Executes(w) /\ v = w => ledger'[Job(v)] = ledger[Job(v)] + 1
      BY <1>0, <3>2 DEF Executes
    <3>. QED
      BY <1>0, <2>1, <3>1, <3>2, <3>3
  <2>. QED
    BY <2>2, <2>3, <2>4, <2>5, <2>6
<1>3. ASSUME Broker \/ \E w \in Workers : Consume(w) \/ Session(w)
      PROVE  PaidInv'
  <2>1. UNCHANGED <<ledger, outcome, status, cached, reader>>
    BY <1>3 DEF Broker, Consume, Session, storeVars, workerVars
  <2>2. \A v \in Workers : outcome[v] = "SUCCESS" => Job(v)' = Job(v)
    BY <1>3, QueueKeepsHandlers DEF TypeInv, TypeOK, WorkerTypeOK, Job
  <2>. QED
    BY <2>1, <2>2
<1>4. ASSUME NEW r \in Readers, ReaderStep(r)
      PROVE  PaidInv'
  <2>1. UNCHANGED <<ledger, outcome, status, delivery>>
    BY <1>4, ReaderEffects DEF workerVars
  <2>2. \A k \in Keys : cached'[k] = "SUCCESS" => ledger[k] > 0
    BY <1>0, <1>4, ReaderEffects
  <2>3. \A q \in Readers : reader'[q].seen = "SUCCESS" => ledger[reader'[q].key] > 0
    BY <1>0, <1>4, ReaderEffects
  <2>. QED
    BY <2>1, <2>2, <2>3 DEF Job
<1>5. ASSUME NEW k \in Keys, Expiry(k)
      PROVE  PaidInv'
  BY <1>0, <1>5 DEF Expiry, CacheExpires, SetTransactionStatus, workerVars, queueVars, Job
<1>6. CASE Stop \/ Restart \/ UNCHANGED vars
  BY <1>6 DEF Stop, Restart, vars, queueVars, queueRest, storeVars, workerVars, Job
<1>. QED
  BY <1>1, <1>2, <1>3, <1>4, <1>5, <1>6 DEF Next

\* Nothing is paid, and nothing said to be, at first.
LEMMA PaidInit == Init => PaidInv
BY DEF Init, StoreInit, WorkerInit, ReaderInit, PaidInv, SuccessIsPaid

\* A worker, the cache, a background fill or a status answer says SUCCESS only of a payment
\* legacy has executed, and legacy executes only payments that have a row.
THEOREM SuccessFollowsPayment == Spec => []SuccessIsPaid
<1>1. PaidInv => SuccessIsPaid
  BY DEF PaidInv
<1>. QED
  BY <1>1, TypeInit, TypeStep, PaidInit, PaidStep, PTL DEF Spec

-----------------------------------------------------------------------------
\* Every step of the pipeline is a step of the contract or leaves its state alone.
LEMMA ContractStep ==
    TypeInv /\ PaidInv /\ [Next]_vars => [Contract!Next]_(Contract!vars)
<1> SUFFICES ASSUME TypeInv, PaidInv, [Next]_vars
             PROVE  Contract!Next \/ UNCHANGED <<body, status, ledger>>
  BY DEF Contract!vars
<1>0. \A c \in Clients : intake[c] # "idle" => request[c] \in Requests /\ Key(c) \in Keys
  BY RequestFacts DEF TypeInv, TypeOK, IntakeTypeOK, Key
<1>1. ASSUME NEW c \in Clients, IntakeStep(c)
      PROVE  Contract!Next \/ UNCHANGED <<body, status, ledger>>
  <2>0. UNCHANGED ledger
    BY <1>1, IntakeEffects DEF workerVars
  <2>1. CASE intake[c] = "insert" /\ InsertRow(request[c])
    <3>1. Contract!Open(Key(c))
      BY <1>0, <2>0, <2>1 DEF Contract!Open, InsertRow, Key
    <3>. QED
      BY <1>0, <2>1, <3>1 DEF Contract!Next
  <2>2. CASE intake[c] = "markFailed" /\ status' = [status EXCEPT ![Key(c)] = "FAILED"]
    <3>1. UNCHANGED body /\ status[Key(c)] # "absent"
      BY <1>1, <2>2, IntakeWrites DEF NoneCreated, TypeInv, AcceptedExist, Found, Creating
    <3>2. Contract!Settle(Key(c), "FAILED")
      BY <2>0, <2>2, <3>1 DEF Contract!Settle
    <3>. QED
      BY <1>0, <2>2, <3>2 DEF Contract!Next
  <2>3. CASE UNCHANGED status
    <3>1. UNCHANGED body
      <4>1. ~ InsertTransaction(c) \/ intake[c] # "insert"
        BY <1>0, <2>3 DEF InsertTransaction, InsertRow, Key, TypeInv, TypeOK, StoreTypeOK
      <4>. QED
        BY <1>1, <4>1, IntakeWrites DEF NoneCreated
    <3>. QED
      BY <2>0, <2>3, <3>1
  <2>. QED
    BY <1>1, <2>1, <2>2, <2>3, IntakeEffects
<1>2. ASSUME NEW w \in Workers, HandlerStep(w)
      PROVE  Contract!Next \/ UNCHANGED <<body, status, ledger>>
  <2>0. UNCHANGED body
    BY <1>2, HandlerWrites
  <2>1. stage[w] # "idle" => Job(w) \in Keys /\ status[Job(w)] # "absent"
    BY HoldsMessage, RetryFacts DEF TypeInv, TypeOK, WorkerTypeOK, HandledExist, Job, Keys
  <2>2. CASE /\ stage[w] = "update" /\ UNCHANGED ledger
             /\ status' = [status EXCEPT ![Job(w)] = outcome[w]]
    <3>1. outcome[w] \in {"SUCCESS", "FAILED"} /\ (outcome[w] = "SUCCESS" => ledger[Job(w)] > 0)
      BY <2>2 DEF TypeInv, TypeOK, WorkerTypeOK, Settled, PaidInv
    <3>2. Contract!Settle(Job(w), outcome[w])
      BY <2>0, <2>1, <2>2, <3>1 DEF Contract!Settle
    <3>. QED
      BY <2>1, <2>2, <3>1, <3>2 DEF Contract!Next
  <2>3. CASE stage[w] = "execute" /\ UNCHANGED status /\ Executes(w)
    <3>1. Contract!Execute(Job(w))
      BY <2>0, <2>1, <2>3 DEF Contract!Execute, Executes
    <3>. QED
      BY <2>1, <2>3, <3>1 DEF Contract!Next
  <2>. QED
    BY <1>2, <2>0, <2>2, <2>3, HandlerWrites
<1>3. ASSUME NEW r \in Readers, ReaderStep(r)
      PROVE  UNCHANGED <<body, status, ledger>>
  BY <1>3, ReaderEffects DEF workerVars
<1>4. ASSUME \/ Broker \/ Stop \/ Restart \/ UNCHANGED vars
             \/ \E w \in Workers : Consume(w) \/ Session(w)
             \/ \E k \in Keys : Expiry(k)
      PROVE  UNCHANGED <<body, status, ledger>>
  BY <1>4 DEF Broker, Stop, Restart, Consume, Session, Expiry, CacheExpires, SetTransactionStatus,
              vars, storeVars, workerVars
<1>. QED
  BY <1>1, <1>2, <1>3, <1>4 DEF Next

\* API handlers, queue, workers, readers and every fault together implement the contract: a
\* key is opened once for one request, only what is opened is executed, SUCCESS follows an
\* execution and nothing is unsettled.
THEOREM PipelineImplementsContract == Spec => ImplementsContract
<1>1. Init => Contract!Init
  BY DEF Init, StoreInit, WorkerInit, Contract!Init
<1>. QED
  BY <1>1, TypeInit, TypeStep, PaidInit, PaidStep, ContractStep, PTL
     DEF Spec, ImplementsContract, Contract!Spec

-----------------------------------------------------------------------------
(***************************************************************************)
(* Who works on an unsettled payment.  A worker whose channel has closed   *)
(* still runs, but its message is back in the queue, and one that has      *)
(* published a retry has handed the payment on: only a worker that has     *)
(* neither counts.  A worker that reports success has settled the row.     *)
(***************************************************************************)
HeldBy(w, k) == live[w] /\ consumer[w] \in {"handling", "failed"} /\ Job(w) = k

Held(k) == InQueue(k) \/ Parked(k) \/ \E w \in Workers : HeldBy(w, k)

Owned(k) ==
    \/ Held(k)
    \/ restarts > 0 \/ k \in lost
    \/ \E c \in Clients : intake[c] \in (Creating \ {"enqueued"}) \cup {"aborted"} /\ Key(c) = k

SuccessSettles ==
    \A w \in Workers :
        stage[w] \in {"cache", "balance", "event"} \/ consumer[w] = "succeeded" =>
            status[Job(w)] \in Settled

OwnerInv == SuccessSettles /\ \A k \in Keys : status[k] = "PROCESSING" => Owned(k)

\* A payment stays held in a step that puts a message of worker w's job into a queue, removes
\* no other and touches no other worker's holding.
LEMMA HandedOn ==
    ASSUME NEW k \in Keys, Held(k), NEW w \in Workers, NEW m \in Msg, m.job = Job(w),
           ready'[m] > 0 \/ retrying'[m] > 0 \/ dead'[m] > 0,
           \A n \in Msg : (ready[n] > 0 \/ retrying[n] > 0 \/ dead[n] > 0) =>
                          (ready'[n] > 0 \/ retrying'[n] > 0 \/ dead'[n] > 0),
           \A v \in Workers : v # w /\ HeldBy(v, k) => HeldBy(v, k)'
    PROVE  Held(k)'
<1>1. InQueue(k) \/ Parked(k) => (InQueue(k) \/ Parked(k))'
  BY DEF InQueue, Parked
<1>2. HeldBy(w, k) => (InQueue(k) \/ Parked(k))'
  BY DEF HeldBy, InQueue, Parked
<1>. QED
  BY <1>1, <1>2 DEF Held

\* A closing channel puts its unsettled delivery back.
LEMMA RequeuedHeld ==
    ASSUME TypeInv, NEW k \in Keys, Held(k), NEW w \in Workers, Requeued(w),
           UNCHANGED <<retrying, dead>>,
           \A v \in Workers : v # w /\ HeldBy(v, k) => HeldBy(v, k)'
    PROVE  Held(k)'
<1>0. QueueTypeOK
  BY DEF TypeInv, TypeOK
<1>1. CASE live[w] /\ consumer[w] # "waiting"
  <2>1. delivery[w] \in Msg /\ delivery[w].job = Job(w)
    BY <1>0, <1>1, HoldsMessage DEF Job
  <2>2. ready'[delivery[w]] > 0 /\ \A n \in Msg : ready[n] > 0 => ready'[n] > 0
    BY <1>0, <1>1, <2>1, PutFacts DEF Requeued, QueueTypeOK
  <2>. QED
    BY <2>1, <2>2, HandedOn
<1>2. CASE ~ (live[w] /\ consumer[w] # "waiting")
  <2>1. ready' = ready /\ ~ HeldBy(w, k)
    BY <1>2 DEF Requeued, HeldBy
  <2>. QED
    BY <2>1 DEF Held, InQueue, Parked
<1>. QED
  BY <1>1, <1>2

\* Short of a broker restart, consumer loops and broker keep every payment held: a retry copy
\* is published before the original is acknowledged, and a closed channel puts it back.
LEMMA HeldStepQueue ==
    ASSUME TypeInv,
           (Broker /\ ~BrokerRestart) \/ \E w \in Workers : Consume(w) \/ Session(w),
           NEW k \in Keys, Held(k)
    PROVE  Held(k)'
<1>0. QueueTypeOK /\ consumer \in [Workers -> ConsumerStates] /\ UNCHANGED workerVars
  BY DEF TypeInv, TypeOK, QueueTypeOK, Broker, Consume, Session
<1>1. ASSUME NEW w \in Workers, Consume(w)
      PROVE  Held(k)'
  <2> USE DEF Finish
  <2>1. CASE AckDone(w) \/ AckRetried(w) \/ SettleOnClosed(w)
    <3>1. UNCHANGED <<ready, retrying, dead>> /\ ~ HeldBy(w, k)
      BY <2>1, RequestAssumption DEF AckDone, AckRetried, SettleOnClosed, HeldBy
    <3>2. \A v \in Workers : v # w /\ HeldBy(v, k) => HeldBy(v, k)'
      <4>1. Finish(w) /\ UNCHANGED <<live, restarts>>
        BY <2>1 DEF AckDone, AckRetried, SettleOnClosed
      <4>. QED
        BY <1>0, <4>1 DEF HeldBy, Job, QueueTypeOK
    <3>. QED
      BY <3>1, <3>2 DEF Held, InQueue, Parked
  <2>2. CASE DeadLetter(w)
    <3>1. delivery[w] \in Msg /\ delivery[w].job = Job(w)
      BY <1>0, <2>2, HoldsMessage DEF DeadLetter, Job
    <3>2. dead'[delivery[w]] > 0 /\ \A n \in Msg : dead[n] > 0 => dead'[n] > 0
      BY <1>0, <2>2, <3>1, PutFacts DEF DeadLetter, QueueTypeOK
    <3>3. \A v \in Workers : v # w /\ HeldBy(v, k) => HeldBy(v, k)'
      BY <1>0, <2>2 DEF HeldBy, DeadLetter, Job
    <3>4. UNCHANGED <<ready, retrying>>
      BY <2>2 DEF DeadLetter
    <3>. QED
      BY <3>1, <3>2, <3>3, <3>4, HandedOn
  <2>3. CASE PublishRetry(w)
    <3>1. Retry(delivery[w]) \in Msg /\ Retry(delivery[w]).job = Job(w)
      BY <1>0, <2>3, HoldsMessage, RetryFacts DEF PublishRetry, Job
    <3>2. /\ retrying'[Retry(delivery[w])] > 0
          /\ \A n \in Msg : retrying[n] > 0 => retrying'[n] > 0
      BY <1>0, <2>3, <3>1, PutFacts DEF PublishRetry, QueueTypeOK
    <3>3. \A v \in Workers : v # w /\ HeldBy(v, k) => HeldBy(v, k)'
      BY <1>0, <2>3 DEF HeldBy, PublishRetry, Job
    <3>4. UNCHANGED <<ready, dead>>
      BY <2>3 DEF PublishRetry
    <3>. QED
      BY <3>1, <3>2, <3>3, <3>4, HandedOn
  <2>4. CASE NackRequeue(w)
    <3>1. delivery[w] \in Msg /\ delivery[w].job = Job(w)
      BY <1>0, <2>4, HoldsMessage DEF NackRequeue, Job
    <3>2. ready'[delivery[w]] > 0 /\ \A n \in Msg : ready[n] > 0 => ready'[n] > 0
      BY <1>0, <2>4, <3>1, PutFacts DEF NackRequeue, QueueTypeOK
    <3>3. \A v \in Workers : v # w /\ HeldBy(v, k) => HeldBy(v, k)'
      BY <1>0, <2>4 DEF HeldBy, NackRequeue, Job
    <3>4. UNCHANGED <<retrying, dead>>
      BY <2>4 DEF NackRequeue
    <3>. QED
      BY <3>1, <3>2, <3>3, <3>4, HandedOn
  <2>. QED
    BY <1>1, <2>1, <2>2, <2>3, <2>4 DEF Consume
<1>2. ASSUME NEW w \in Workers, Session(w)
      PROVE  Held(k)'
  <2>1. CASE Reconnect(w) \/ LoopEnds(w)
    <3>1. /\ UNCHANGED <<ready, retrying, dead, consumer, delivery>>
          /\ \A v \in Workers : HeldBy(v, k) => live'[v]
      BY <1>0, <2>1 DEF Reconnect, LoopEnds, QueueTypeOK, HeldBy
    <3>. QED
      BY <3>1 DEF Held, InQueue, Parked, HeldBy, Job
  <2>2. CASE SessionLost(w)
    <3>1. Requeued(w) /\ UNCHANGED <<retrying, dead>>
      BY <2>2 DEF SessionLost
    <3>2. \A v \in Workers : v # w /\ HeldBy(v, k) => HeldBy(v, k)'
      BY <2>2 DEF SessionLost, HeldBy, Job
    <3>. QED
      BY <3>1, <3>2, RequeuedHeld
  <2>. QED
    BY <1>2, <2>1, <2>2 DEF Session, ReconnectUnlessStopping
<1>3. ASSUME NEW m \in Msg, RetryExpires(m)
      PROVE  Held(k)'
  <2>1. /\ ready'[m] > 0
        /\ \A n \in Msg : ready[n] > 0 => ready'[n] > 0
        /\ \A n \in Msg : n # m /\ retrying[n] > 0 => retrying'[n] > 0
    BY <1>0, <1>3, TakeFacts, PutFacts DEF RetryExpires, QueueTypeOK
  <2>. QED
    <3>1. InQueue(k) => InQueue(k)'
      BY <2>1 DEF InQueue
    <3>2. UNCHANGED <<dead, live, consumer, delivery>>
      BY <1>3 DEF RetryExpires
    <3>. QED
      BY <3>1, <3>2 DEF Held, Parked, HeldBy, Job
<1>. QED
  BY <1>1, <1>2, <1>3 DEF Broker

\* What a running handler does to the consumer loop: nothing until it returns, and it reports
\* success only after the row has been updated.
LEMMA HandlerReports ==
    ASSUME TypeInv, NEW w \in Workers,
           stage[w] # "idle", Handle(w) \/ CancelHandler(w)
    PROVE  /\ UNCHANGED <<ready, retrying, dead, delivery, live, restarts>>
           /\ \/ UNCHANGED consumer
              \/ consumer' = [consumer EXCEPT ![w] = "failed"] /\ stage'[w] = "idle"
              \/ /\ consumer' = [consumer EXCEPT ![w] = "succeeded"] /\ stage'[w] = "idle"
                 /\ stage[w] = "event" /\ UNCHANGED status
           /\ \A v \in Workers : v # w => stage'[v] = stage[v]
           /\ \/ stage'[w] \in {"idle", "execute", "update"}
              \/ stage[w] = "update" /\ status' = [status EXCEPT ![Job(w)] = outcome[w]]
              \/ stage[w] \in {"cache", "balance"} /\ UNCHANGED status
<1>0. stage \in [Workers -> Stages] /\ consumer \in [Workers -> ConsumerStates]
  BY DEF TypeInv, TypeOK, WorkerTypeOK, QueueTypeOK
<1> USE <1>0 DEF Unwritten, storeVars, queueRest, Works, Fails, Vacate, HandlerReturns, Return, Proceed
<1>1. CASE RecordStarted(w)
  BY <1>1 DEF RecordStarted, CreateTransactionEvent
<1>2. CASE ExecutePayment(w)
  BY <1>2 DEF ExecutePayment
<1>3. CASE UpdateRow(w)
  BY <1>3 DEF UpdateRow, UpdateTransactionStatus
<1>4. CASE CacheOutcome(w)
  BY <1>4 DEF CacheOutcome, SetTransactionStatus
<1>5. CASE DropBalance(w)
  BY <1>5 DEF DropBalance
<1>6. CASE RecordOutcome(w)
  BY <1>6 DEF RecordOutcome, CreateTransactionEvent
<1>7. CASE CancelHandler(w)
  BY <1>7 DEF CancelHandler
<1>. QED
  BY <1>1, <1>2, <1>3, <1>4, <1>5, <1>6, <1>7 DEF Handle

\* A worker keeps a payment held until it has settled it, and takes it over from the queue.
LEMMA HeldStepHandler ==
    ASSUME TypeInv, SuccessSettles, NEW w \in Workers, HandlerStep(w), NEW k \in Keys, Held(k)
    PROVE  Held(k)' \/ status'[k] \in Settled
<1>0. QueueTypeOK /\ stage \in [Workers -> Stages]
  BY DEF TypeInv, TypeOK, WorkerTypeOK
<1>1. CASE StartJob(w)
  <2>1. PICK m \in Msg : /\ ready[m] > 0
                         /\ ready' = Take(ready, m)
                         /\ delivery' = [delivery EXCEPT ![w] = m]
    BY <1>1 DEF StartJob, Deliver
  <2>2. /\ live[w] /\ consumer[w] = "waiting" /\ UNCHANGED <<retrying, dead, live>>
        /\ consumer' = [consumer EXCEPT ![w] = "handling"]
    BY <1>1 DEF StartJob, Deliver
  <2>3. \A n \in Msg : n # m /\ ready[n] > 0 => ready'[n] > 0
    BY <1>0, <2>1, TakeFacts DEF QueueTypeOK
  <2>4. m.job = k => HeldBy(w, k)'
    BY <1>0, <2>1, <2>2 DEF HeldBy, Job, QueueTypeOK
  <2>5. \A v \in Workers : HeldBy(v, k) => HeldBy(v, k)'
    BY <1>0, <2>1, <2>2 DEF HeldBy, Job, QueueTypeOK
  <2>6. InQueue(k) => m.job = k \/ InQueue(k)'
    BY <2>2, <2>3 DEF InQueue
  <2>7. Parked(k) => Parked(k)'
    BY <2>2 DEF Parked
  <2>. QED
    BY <2>4, <2>5, <2>6, <2>7 DEF Held
<1>2. CASE WorkerCrash(w)
  <2>1. Requeued(w) /\ UNCHANGED <<retrying, dead>>
    BY <1>2 DEF WorkerCrash, Crash
  <2>2. \A v \in Workers : v # w /\ HeldBy(v, k) => HeldBy(v, k)'
    BY <1>0, <1>2 DEF WorkerCrash, Crash, HeldBy, Job, QueueTypeOK
  <2>. QED
    BY <2>1, <2>2, RequeuedHeld
<1>3. CASE stage[w] # "idle" /\ (Handle(w) \/ CancelHandler(w))
  <2>1. UNCHANGED <<ready, retrying, dead, delivery, live>>
    BY <1>3, HandlerReports
  <2>2. consumer[w] = "handling"
    BY <1>3 DEF TypeInv, TypeOK, WorkerTypeOK
  <2>3. CASE consumer' = [consumer EXCEPT ![w] = "succeeded"]
    <3>1. Job(w) = k => status'[k] \in Settled
      BY <1>0, <1>3, <2>2, <2>3, HandlerReports DEF SuccessSettles, QueueTypeOK
    <3>2. \A v \in Workers : v # w /\ HeldBy(v, k) => HeldBy(v, k)'
      BY <1>0, <2>1, <2>3 DEF HeldBy, Job, QueueTypeOK
    <3>3. HeldBy(w, k) => status'[k] \in Settled
      BY <3>1 DEF HeldBy
    <3>. QED
      BY <2>1, <3>2, <3>3 DEF Held, InQueue, Parked
  <2>4. CASE UNCHANGED consumer \/ consumer' = [consumer EXCEPT ![w] = "failed"]
    <3>1. \A v \in Workers : HeldBy(v, k) => HeldBy(v, k)'
      BY <1>0, <2>1, <2>2, <2>4 DEF HeldBy, Job, QueueTypeOK
    <3>. QED
      BY <2>1, <3>1 DEF Held, InQueue, Parked
  <2>. QED
    BY <1>3, <2>3, <2>4, HandlerReports
<1>. QED
  BY <1>1, <1>2, <1>3, HandlerCases

\* How c's handler, as the creator of a row, goes on: the order of its steps after the insert.
CreatorMoves(c) ==
    \/ intake[c] = "insert" /\ intake'[c] \in {"record", "aborted"} /\ InsertRow(request[c])
    \/ intake[c] \in Creating /\ intake'[c] = "aborted" /\ UNCHANGED ready
    \/ intake[c] = "record" /\ intake'[c] = "cache" /\ UNCHANGED ready
    \/ intake[c] = "cache" /\ intake'[c] = "publish" /\ UNCHANGED ready
    \/ intake[c] = "publish" /\ intake'[c] = "enqueued" /\ ready' = Put(ready, Fresh(Key(c)))
    \/ /\ intake[c] = "publish" /\ intake'[c] = "enqueued" /\ UNCHANGED ready
       /\ Key(c) \in lost' /\ faults' = faults + 1
    \/ intake[c] = "publish" /\ intake'[c] = "markFailed" /\ UNCHANGED ready /\ faults' = faults + 1
    \/ intake[c] = "enqueued" /\ intake'[c] = "created" /\ UNCHANGED ready
    \/ /\ intake[c] \in {"markFailed", "cacheFailed"} /\ UNCHANGED ready
       /\ intake'[c] \in {"cacheFailed", "queueError"}

\* A handler is the creator of a row from its insert on and in no other way.
LEMMA IntakeControl ==
    ASSUME TypeInv, NEW c \in Clients, IntakeStep(c)
    PROVE  /\ lost \subseteq lost'
           /\ \/ ~Creator(c) /\ ~Creator(c)' /\ UNCHANGED <<ready, status>>
              \/ CreatorMoves(c)
<1>0. intake \in [Clients -> IntakeStates]
  BY DEF TypeInv, TypeOK, IntakeTypeOK
<1> USE <1>0 DEF Unwritten, Reads, Writes, Works, Fails, Fault, Goto, storeVars, queueRest, catalogueVars,
                 Creator, Creating, CreatorMoves
<1>1. ASSUME NEW r \in Requests, Submit(c, r)
      PROVE  lost \subseteq lost' /\ ~Creator(c) /\ ~Creator(c)' /\ UNCHANGED <<ready, status>>
  BY <1>1 DEF Submit
<1>2. CASE IntakeCrash(c)
  BY <1>2 DEF IntakeCrash, AfterInsert, CutOff, Answers
<1>3. CASE CreateTransaction(c)
  <2>1. CASE Lookup(c) \/ CompareTransfer(c) \/ CompareEvents(c) \/ Resolve(c)
    BY <2>1 DEF Lookup, CompareTransfer, CompareEvents, Resolve
  <2>2. CASE FindMerchant(c) \/ GetQrisMerchant(c) \/ ReloadMerchant(c)
    BY <2>2 DEF FindMerchant, GetQrisMerchant, ReloadMerchant, Resolved
  <2>3. CASE CreateMerchant(c)
    BY <2>3 DEF CreateMerchant, InsertMerchant, Resolved
  <2>4. CASE Insert(c)
    BY <2>4 DEF Insert, AfterInsert, NoInsert, InsertTransaction
  <2>5. CASE RecordCreated(c) \/ RecordEnqueued(c) \/ RecordQueueError(c)
    BY <2>5 DEF RecordCreated, RecordEnqueued, RecordQueueError
  <2>6. CASE CacheProcessing(c) \/ CachePublishFailed(c) \/ MarkPublishFailed(c)
    BY <2>6 DEF CacheProcessing, CachePublishFailed, MarkPublishFailed
  <2>7. CASE PublishJob(c)
    BY <2>7 DEF PublishJob, Enqueue, Fresh
  <2>. QED
    BY <1>3, <2>1, <2>2, <2>3, <2>4, <2>5, <2>6, <2>7
       DEF CreateTransaction, QRISCreateTransaction, TransferCreateTransaction, ResolveMerchant,
           Accept
<1>. QED
  BY <1>1, <1>2, <1>3 DEF IntakeStep

\* A payment that is settled stays so.
LEMMA SettledStays ==
    ASSUME TypeInv, [Next]_vars, NEW k \in Keys, status[k] \in Settled
    PROVE  status'[k] \in Settled
<1>0. status \in [Keys -> RowStatus]
  BY DEF TypeInv, TypeOK, StoreTypeOK
<1>1. ASSUME NEW c \in Clients, IntakeStep(c)
      PROVE  status'[k] \in Settled
  BY <1>0, <1>1, IntakeEffects DEF InsertRow, Settled, Key
<1>2. ASSUME NEW w \in Workers, HandlerStep(w)
      PROVE  status'[k] \in Settled
  <2>1. stage[w] = "update" => outcome[w] \in Settled
    BY DEF TypeInv, TypeOK, WorkerTypeOK
  <2>. QED
    BY <1>0, <1>2, <2>1, HandlerWrites
<1>3. ASSUME NEW r \in Readers, ReaderStep(r)
      PROVE  status'[k] \in Settled
  BY <1>3, ReaderEffects
<1>4. CASE \/ Broker \/ Stop \/ Restart \/ UNCHANGED vars
           \/ \E w \in Workers : Consume(w) \/ Session(w)
           \/ \E j \in Keys : Expiry(j)
  BY <1>4 DEF Broker, Stop, Restart, Consume, Session, Expiry, CacheExpires, SetTransactionStatus,
              vars, storeVars
<1>. QED
  BY <1>1, <1>2, <1>3, <1>4 DEF Next

\* A handler that has updated its row leaves it settled for whoever comes next.
LEMMA SuccessSettlesStep ==
    ASSUME TypeInv, SuccessSettles, [Next]_vars
    PROVE  SuccessSettles'
<1> DEFINE Past(v) == stage[v] \in {"cache", "balance", "event"} \/ consumer[v] = "succeeded"
<1> SUFFICES ASSUME NEW v \in Workers, Past(v)'
             PROVE  status'[Job(v)'] \in Settled
  BY DEF SuccessSettles
<1>0. QueueTypeOK /\ WorkerTypeOK /\ stage \in [Workers -> Stages] /\ status \in [Keys -> RowStatus]
  BY DEF TypeInv, TypeOK, WorkerTypeOK, StoreTypeOK
<1>a. ASSUME Past(v), delivery'[v] = delivery[v]
      PROVE  status'[Job(v)'] \in Settled
  <2>1. consumer[v] # "waiting"
    BY <1>0, <1>a DEF WorkerTypeOK
  <2>2. Job(v) \in Keys /\ Job(v)' = Job(v)
    BY <1>0, <1>a, <2>1, HoldsMessage, RetryFacts DEF Job, Keys
  <2>. QED
    BY <1>a, <2>2, SettledStays DEF SuccessSettles
<1>1. ASSUME NEW w \in Workers, HandlerStep(w)
      PROVE  status'[Job(v)'] \in Settled
  <2>1. CASE StartJob(w)
    <3>1. v # w
      BY <1>0, <2>1 DEF StartJob, Deliver, QueueTypeOK
    <3>2. UNCHANGED <<stage[v], consumer[v], delivery[v]>>
      BY <1>0, <2>1, <3>1 DEF StartJob, Deliver, QueueTypeOK
    <3>. QED
      BY <1>a, <3>2
  <2>2. CASE WorkerCrash(w)
    <3>1. v # w
      BY <1>0, <2>2 DEF WorkerCrash, Crash, Vacate, QueueTypeOK
    <3>2. UNCHANGED <<stage[v], consumer[v], delivery[v]>>
      BY <1>0, <2>2, <3>1 DEF WorkerCrash, Crash, Vacate, QueueTypeOK
    <3>. QED
      BY <1>a, <3>2
  <2>3. CASE stage[w] # "idle" /\ (Handle(w) \/ CancelHandler(w))
    <3>0. UNCHANGED delivery
      BY <2>3, HandlerReports
    <3>1. CASE v # w
      <4>1. UNCHANGED <<stage[v], consumer[v]>>
        BY <1>0, <2>3, <3>1, HandlerReports DEF QueueTypeOK
      <4>. QED
        BY <1>a, <3>0, <4>1
    <3>2. CASE v = w /\ ~ Past(v)
      <4>1. consumer[w] = "handling" /\ Job(w) \in Keys
        BY <1>0, <2>3, HoldsMessage, RetryFacts DEF WorkerTypeOK, Job, Keys
      <4>2. stage[w] = "update" /\ status' = [status EXCEPT ![Job(w)] = outcome[w]]
        BY <1>0, <2>3, <3>2, <4>1, HandlerReports DEF QueueTypeOK
      <4>3. outcome[w] \in Settled
        BY <1>0, <4>2 DEF WorkerTypeOK
      <4>. QED
        BY <1>0, <3>0, <3>2, <4>1, <4>2, <4>3 DEF Job
    <3>. QED
      BY <1>a, <3>0, <3>1, <3>2
  <2>. QED
    BY <1>1, <2>1, <2>2, <2>3, HandlerCases
<1>2. CASE Broker \/ \E w \in Workers : Consume(w) \/ Session(w)
  <2>1. UNCHANGED stage
    BY <1>2 DEF Broker, Consume, Session, workerVars
  <2>2. CASE consumer[v] = "handling"
    BY <1>2, <1>a, <2>1, <2>2, QueueKeepsHandlers
  <2>3. CASE consumer[v] # "handling"
    <3>1. stage[v] = "idle" /\ consumer'[v] = "succeeded"
      BY <1>0, <2>1, <2>3 DEF WorkerTypeOK
    <3>2. UNCHANGED <<consumer[v], delivery[v]>>
      BY <1>0, <1>2, <3>1
         DEF Broker, BrokerRestart, RetryExpires, Consume, AckDone, DeadLetter, PublishRetry,
             AckRetried, NackRequeue, SettleOnClosed, Finish, Session, ReconnectUnlessStopping,
             Reconnect, SessionLost, LoopEnds, QueueTypeOK
    <3>. QED
      BY <1>a, <3>1, <3>2
  <2>. QED
    BY <2>2, <2>3
<1>3. ASSUME NEW c \in Clients, IntakeStep(c)
      PROVE  status'[Job(v)'] \in Settled
  BY <1>3, <1>a, IntakeEffects DEF workerVars
<1>4. ASSUME NEW r \in Readers, ReaderStep(r)
      PROVE  status'[Job(v)'] \in Settled
  BY <1>4, <1>a, ReaderEffects DEF workerVars
<1>5. CASE Stop \/ Restart \/ UNCHANGED vars \/ \E j \in Keys : Expiry(j)
  BY <1>5, <1>a DEF Stop, Restart, Expiry, vars, queueVars, queueRest, workerVars
<1>. QED
  BY <1>1, <1>2, <1>3, <1>4, <1>5 DEF Next

\* A handler that is still creating the payment of key k, or was stopped by an error.
Opener(c, k) == intake[c] \in (Creating \ {"enqueued"}) \cup {"aborted"} /\ Key(c) = k

\* A handler passes its payment on to the queue, or loses it, or stops with an error.
LEMMA OwnedStepIntake ==
    ASSUME TypeInv, NEW c \in Clients, IntakeStep(c), NEW k \in Keys,
           status'[k] = "PROCESSING", status[k] = "PROCESSING" => Owned(k)
    PROVE  Owned(k)'
<1>0. /\ ready \in [Msg -> Nat] /\ status \in [Keys -> RowStatus]
      /\ intake[c] # "idle" => Key(c) \in Keys /\ Key(c)' = Key(c)
  BY IntakeMoves, RequestFacts DEF TypeInv, TypeOK, QueueTypeOK, StoreTypeOK, IntakeTypeOK, Key
<1>1. /\ UNCHANGED <<retrying, dead, delivery, consumer, live, restarts>>
      /\ lost \subseteq lost'
  BY IntakeEffects, IntakeControl
<1>2. CASE status[k] # "PROCESSING"
  <2>1. intake[c] = "insert" /\ Key(c) = k /\ InsertRow(request[c])
    BY <1>0, <1>2, IntakeEffects DEF InsertRow, Key
  <2>2. intake'[c] \in {"record", "aborted"}
    <3>1. status' # status
      BY <1>0, <1>2
    <3>. QED
      BY <2>1, <3>1, IntakeControl DEF CreatorMoves, Creating
  <2>3. Opener(c, k)'
    BY <1>0, <2>1, <2>2 DEF Opener, Creating
  <2>. QED
    BY <2>3 DEF Owned, Opener
<1>3. CASE Held(k)
  <2>1. \A m \in Msg : ready[m] > 0 => ready'[m] > 0
    <3>1. CASE UNCHANGED ready
      BY <3>1
    <3>2. CASE intake[c] = "publish" /\ ready' = Put(ready, Fresh(Key(c)))
      BY <1>0, <3>2, FreshFacts, PutFacts DEF Fresh, Keys
    <3>. QED
      BY <3>1, <3>2, IntakeEffects
  <2>2. Held(k)'
    BY <1>1, <1>3, <2>1 DEF Held, InQueue, Parked, HeldBy, Job
  <2>. QED
    BY <2>2 DEF Owned
<1>4. CASE restarts > 0 \/ k \in lost
  BY <1>1, <1>4 DEF Owned
<1>5. ASSUME NEW d \in Clients, Opener(d, k)
      PROVE  Owned(k)'
  <2>1. CASE d # c
    <3>1. Opener(d, k)'
      BY <1>5, <2>1, IntakeMoves DEF Opener, SameHandler, Key
    <3>. QED
      BY <3>1 DEF Owned, Opener
  <2>2. CASE d = c
    <3>0. intake[c] # "idle" /\ Key(c) = k /\ Creator(c)
      BY <1>5, <2>2 DEF Opener, Creator, Creating
    <3>1. CASE intake'[c] = "enqueued" /\ ready' = Put(ready, Fresh(Key(c)))
      <4>1. Fresh(k) \in Msg /\ Fresh(k).job = k /\ ready'[Fresh(k)] > 0
        BY <1>0, <3>0, <3>1, FreshFacts, PutFacts DEF Fresh, Keys
      <4>. QED
        BY <4>1 DEF Owned, Held, InQueue
    <3>2. CASE Key(c) \in lost'
      BY <3>0, <3>2 DEF Owned
    <3>3. CASE intake'[c] \in (Creating \ {"enqueued"}) \cup {"aborted"}
      <4>1. Opener(c, k)'
        BY <1>0, <3>0, <3>3 DEF Opener
      <4>. QED
        BY <4>1 DEF Owned, Opener
    <3>. QED
      BY <1>5, <2>2, <3>0, <3>1, <3>2, <3>3, IntakeControl DEF CreatorMoves, Opener, Creating
  <2>. QED
    BY <2>1, <2>2
<1>. QED
  BY <1>2, <1>3, <1>4, <1>5 DEF Owned, Opener

\* Every step keeps somebody at work on an unsettled payment.
LEMMA OwnerStep == TypeInv /\ OwnerInv /\ [Next]_vars => OwnerInv'
<1> SUFFICES ASSUME TypeInv, OwnerInv, [Next]_vars
             PROVE  OwnerInv'
  OBVIOUS
<1>0. SuccessSettles /\ SuccessSettles' /\ restarts \in Nat
  BY SuccessSettlesStep, QueueAssumption DEF OwnerInv, TypeInv, TypeOK, QueueTypeOK
<1> SUFFICES ASSUME NEW k \in Keys, status'[k] = "PROCESSING"
             PROVE  Owned(k)'
  BY <1>0 DEF OwnerInv
<1>1. ASSUME NEW c \in Clients, IntakeStep(c)
      PROVE  Owned(k)'
  BY <1>1, OwnedStepIntake DEF OwnerInv
<1>2. ASSUME UNCHANGED status
      PROVE  Owned(k)
  BY <1>2 DEF OwnerInv
<1>3. ASSUME UNCHANGED <<restarts, intakeVars>>, Owned(k), Held(k) => Held(k)'
      PROVE  Owned(k)'
  BY <1>3 DEF Owned, intakeVars, Key
<1>4. ASSUME NEW w \in Workers, HandlerStep(w)
      PROVE  Owned(k)'
  <2>0. Settled = {"SUCCESS", "FAILED"} /\ status \in [Keys -> RowStatus]
    BY DEF Settled, TypeInv, TypeOK, StoreTypeOK
  <2>1. status[k] = "PROCESSING"
    <3>1. stage[w] = "update" => outcome[w] # "PROCESSING"
      BY <2>0 DEF TypeInv, TypeOK, WorkerTypeOK
    <3>. QED
      BY <1>4, <2>0, <3>1, HandlerWrites
  <2>2. UNCHANGED <<restarts, intakeVars>>
    <3>1. UNCHANGED intakeVars
      BY <1>4 DEF HandlerStep
    <3>2. UNCHANGED restarts
      BY <1>4, HandlerCases, HandlerReports DEF StartJob, Deliver, WorkerCrash, Crash
    <3>. QED
      BY <3>1, <3>2
  <2>3. Held(k) => Held(k)'
    BY <1>0, <1>4, <2>0, HeldStepHandler
  <2>. QED
    BY <1>3, <2>1, <2>2, <2>3 DEF OwnerInv
<1>5. ASSUME (Broker /\ ~BrokerRestart) \/ \E w \in Workers : Consume(w) \/ Session(w)
      PROVE  Owned(k)'
  <2>1. UNCHANGED <<status, intakeVars>>
    BY <1>5 DEF Broker, Consume, Session, storeVars
  <2>2. UNCHANGED restarts
    BY <1>5 DEF Broker, RetryExpires, Consume, AckDone, DeadLetter, PublishRetry, AckRetried, NackRequeue,
                SettleOnClosed, Finish, Session, ReconnectUnlessStopping, Reconnect, SessionLost,
                LoopEnds
  <2>3. Held(k) => Held(k)'
    BY <1>5, HeldStepQueue
  <2>. QED
    BY <1>2, <1>3, <2>1, <2>2, <2>3
<1>6. CASE BrokerRestart
  BY <1>0, <1>6 DEF BrokerRestart, Owned
<1>7. CASE Restart
  <2>1. UNCHANGED <<status, restarts, lost, request>> /\ (Held(k) => Held(k)')
    BY <1>7 DEF Restart, storeVars, queueVars, Held, InQueue, Parked, HeldBy, Job
  <2>2. \A d \in Clients : Opener(d, k) => Opener(d, k)'
    BY <1>7 DEF Restart, Opener, CutOff, Answers, Creating, Key
  <2>. QED
    BY <1>2, <2>1, <2>2 DEF Owned, Opener
<1>8. ASSUME NEW r \in Readers, ReaderStep(r)
      PROVE  Owned(k)'
  BY <1>2, <1>3, <1>8, ReaderEffects DEF Held, InQueue, Parked, HeldBy, Job
<1>9. CASE Stop \/ UNCHANGED vars \/ \E j \in Keys : Expiry(j)
  <2>1. UNCHANGED <<status, restarts, intakeVars, ready, retrying, dead, delivery, consumer, live>>
    BY <1>9 DEF Stop, Expiry, CacheExpires, SetTransactionStatus, vars, queueVars, queueRest, storeVars
  <2>. QED
    BY <1>2, <1>3, <2>1 DEF Held, InQueue, Parked, HeldBy, Job
<1>. QED
  BY <1>1, <1>4, <1>5, <1>6, <1>7, <1>8, <1>9 DEF Next

\* No payment is unsettled at first.
LEMMA OwnerInit == Init => OwnerInv
BY DEF Init, StoreInit, QueueInit, WorkerInit, OwnerInv, SuccessSettles

\* No unsettled payment is forgotten: a retry copy is published before the original is
\* acknowledged, a closed channel puts its delivery back, and a row without anybody at work on
\* it was left by an error its client saw, a message loss or a broker restart.
THEOREM UnsettledIsOwned == Spec => []ProcessingHasOwner
<1>1. TypeInv /\ OwnerInv => ProcessingHasOwner
  BY DEF OwnerInv, Owned, Held, HeldBy, ProcessingHasOwner
<1>. QED
  BY <1>1, TypeInit, TypeStep, OwnerInit, OwnerStep, PTL DEF Spec

-----------------------------------------------------------------------------
(***************************************************************************)
(* How often a payment is executed.  Every copy of its message that waits  *)
(* and every worker that may still call legacy on it, or will have it      *)
(* retried, stands for one execution to come.  Together with the           *)
(* executions there have been they are what the payment has used up.  Only *)
(* its one publication, a fault or an interrupted run adds to that; every  *)
(* other step passes an execution to come on, uses it or drops it.         *)
(***************************************************************************)
MayExecute(w) == consumer[w] = "failed" \/ stage[w] \in {"start", "execute"}

Busy(k) == {w \in Workers : MayExecute(w) /\ Job(w) = k}

Counted(k) ==
    IsFiniteSet(Copies(ready, k)) /\ IsFiniteSet(Copies(retrying, k)) /\ IsFiniteSet(Busy(k))

Spent(k) ==
    ledger[k] + Cardinality(Copies(ready, k)) + Cardinality(Copies(retrying, k))
              + Cardinality(Busy(k))

Debt == faults + interrupted

\* The message of key k has not been published yet.
Unsent(k) ==
    \/ status[k] = "absent"
    \/ \E c \in Clients : intake[c] \in {"record", "cache", "publish"} /\ Key(c) = k

\* The queue or a worker has got hold of it.
Afloat(k) == InQueue(k) \/ \E w \in Workers : consumer[w] # "waiting" /\ Job(w) = k

UnsentIsIdle ==
    \A k \in Keys : Unsent(k) =>
        status[k] \in {"absent", "PROCESSING"} /\ ledger[k] = 0 /\ ~Afloat(k)

SpentInv ==
    /\ UnsentIsIdle
    /\ \A k \in Keys : Counted(k) /\ Spent(k) <= 1 + Debt

\* How many workers are busy with k after a step that changes one of them.
LEMMA BusyMoves ==
    ASSUME NEW k, IsFiniteSet(Busy(k)), NEW w \in Workers,
           \A v \in Workers : v # w => (v \in Busy(k)' <=> v \in Busy(k))
    PROVE  /\ IsFiniteSet(Busy(k)')
           /\ (w \in Busy(k) <=> w \in Busy(k)') =>
                 Cardinality(Busy(k)') = Cardinality(Busy(k))
           /\ w \in Busy(k) /\ w \notin Busy(k)' =>
                 Cardinality(Busy(k)') = Cardinality(Busy(k)) - 1
           /\ w \notin Busy(k) /\ w \in Busy(k)' =>
                 Cardinality(Busy(k)') = Cardinality(Busy(k)) + 1
<1>0. Busy(k) \subseteq Workers /\ Busy(k)' \subseteq Workers
  BY DEF Busy
<1>1. CASE w \in Busy(k) <=> w \in Busy(k)'
  <2>1. Busy(k)' = Busy(k)
    BY <1>0, <1>1
  <2>. QED
    BY <1>1, <2>1
<1>2. CASE w \in Busy(k) /\ w \notin Busy(k)'
  <2>1. Busy(k)' = Busy(k) \ {w}
    BY <1>0, <1>2
  <2>2. IsFiniteSet(Busy(k) \ {w}) /\ Cardinality(Busy(k) \ {w}) = Cardinality(Busy(k)) - 1
    BY <1>2, FS_RemoveElement
  <2>. QED
    BY <1>2, <2>1, <2>2
<1>3. CASE w \notin Busy(k) /\ w \in Busy(k)'
  <2>1. Busy(k)' = Busy(k) \cup {w}
    BY <1>0, <1>3
  <2>2. IsFiniteSet(Busy(k) \cup {w}) /\ Cardinality(Busy(k) \cup {w}) = Cardinality(Busy(k)) + 1
    BY <1>3, FS_AddElement
  <2>. QED
    BY <1>3, <2>1, <2>2
<1>. QED
  BY <1>1, <1>2, <1>3

\* What a running handler uses up: it executes the payment only while it may, and gives up the
\* right to when it has; to get it back, by failing later, takes a fault or a signal.
LEMMA HandlerSpends ==
    ASSUME TypeInv, NEW w \in Workers, HandlerStep(w), ~ StartJob(w), ~ WorkerCrash(w)
    PROVE  /\ stage[w] # "idle" /\ (Handle(w) \/ CancelHandler(w))
           /\ Debt' = Debt \/ Debt' = Debt + 1
           /\ UNCHANGED ledger \/ (Executes(w) /\ MayExecute(w))
           /\ Debt' = Debt =>
                \/ UNCHANGED ledger /\ (MayExecute(w)' => MayExecute(w))
                \/ Executes(w) /\ ~MayExecute(w)'
<1>0. /\ stage \in [Workers -> Stages] /\ consumer \in [Workers -> ConsumerStates]
      /\ stage[w] # "idle" => consumer[w] = "handling"
      /\ faults \in Nat /\ interrupted \in Nat
  BY QueueAssumption DEF TypeInv, TypeOK, WorkerTypeOK, QueueTypeOK
<1> USE <1>0 DEF MayExecute, Debt
<1>1. CASE CancelHandler(w)
  <2>1. /\ stage[w] # "idle"
        /\ consumer' = [consumer EXCEPT ![w] = "failed"]
        /\ UNCHANGED ledger \/ (stage[w] = "execute" /\ Executes(w))
    BY <1>1 DEF CancelHandler, HandlerReturns, Return
  <2>2. CASE Fault /\ UNCHANGED interrupted
    BY <1>1, <2>1, <2>2 DEF Fault
  <2>3. CASE UNCHANGED faults /\ interrupted' = IF stage[w] = "start" THEN interrupted ELSE interrupted + 1
    BY <1>1, <2>1, <2>3
  <2>4. CASE Handle(w) /\ UNCHANGED interrupted
    <3>1. Fault \/ (UNCHANGED faults /\ stage[w] = "start")
      BY <2>1, <2>4, <1>0
         DEF Handle, RecordStarted, ExecutePayment, UpdateRow, CacheOutcome, DropBalance,
             RecordOutcome, Works, Fails, Proceed, HandlerReturns, Return, queueRest
    <3>. QED
      BY <1>1, <2>1, <2>2, <2>4, <3>1
  <2>. QED
    BY <2>2, <2>3, <2>4
       DEF HandlerStep, RunHandler, HandleQRISPayment, HandleTransfer, JobTimesOut
<1>2. CASE ~ CancelHandler(w)
  <2>0. stage[w] # "idle" /\ Handle(w) /\ UNCHANGED interrupted
    BY <1>2 DEF HandlerStep, RunHandler, HandleQRISPayment, HandleTransfer, JobTimesOut
  <2> USE <2>0 DEF Works, Fails, Fault, Proceed, HandlerReturns, Return, Vacate, queueRest
  <2>1. CASE RecordStarted(w)
    BY <2>1 DEF RecordStarted
  <2>2. CASE ExecutePayment(w)
    BY <2>2 DEF ExecutePayment
  <2>3. CASE UpdateRow(w)
    BY <2>3 DEF UpdateRow
  <2>4. CASE CacheOutcome(w)
    BY <2>4 DEF CacheOutcome
  <2>5. CASE DropBalance(w)
    BY <2>5 DEF DropBalance
  <2>6. CASE RecordOutcome(w)
    BY <2>6 DEF RecordOutcome
  <2>. QED
    BY <2>1, <2>2, <2>3, <2>4, <2>5, <2>6 DEF Handle
<1>. QED
  BY <1>1, <1>2

\* The step adds no more to what k has used up than it adds faults and interrupted runs.
PaidFor(k) == Counted(k)' /\ Spent(k)' + Debt <= Spent(k) + Debt'

\* The numbers that are compared are numbers.
LEMMA CountFacts ==
    ASSUME TypeInv, NEW k \in Keys, Counted(k)
    PROVE  /\ ledger[k] \in Nat /\ faults \in Nat /\ interrupted \in Nat /\ Debt \in Nat
           /\ Cardinality(Copies(ready, k)) \in Nat
           /\ Cardinality(Copies(retrying, k)) \in Nat
           /\ Cardinality(Busy(k)) \in Nat
           /\ Spent(k) \in Nat
BY QueueAssumption, FS_CardinalityType
   DEF TypeInv, TypeOK, QueueTypeOK, WorkerTypeOK, Counted, Spent, Debt

\* A step that leaves queues, workers and executions alone uses nothing up.
LEMMA SpentFrame ==
    ASSUME TypeInv, NEW k \in Keys, Counted(k), Debt' \in Nat, Debt' >= Debt,
           UNCHANGED <<ready, retrying, delivery, consumer, stage, ledger>>
    PROVE  PaidFor(k)
<1>1. Busy(k)' = Busy(k)
  BY DEF Busy, MayExecute, Job
<1>2. Counted(k)' /\ Spent(k)' = Spent(k)
  BY <1>1 DEF Counted, Spent
<1>. QED
  BY <1>2, CountFacts DEF PaidFor

\* A worker that starts on a message takes its execution over from the queue, and one that
\* crashes leaves at most the copy that its closed channel puts back.
LEMMA SpentHandler ==
    ASSUME TypeInv, NEW w \in Workers, HandlerStep(w), NEW k \in Keys, Counted(k)
    PROVE  PaidFor(k)
<1>0. /\ QueueTypeOK /\ stage \in [Workers -> Stages] /\ ledger \in [Keys -> Nat]
      /\ consumer[w] = "waiting" => stage[w] = "idle"
      /\ UNCHANGED retrying
  <2>1. UNCHANGED retrying
    BY HandlerCases, HandlerReports DEF StartJob, Deliver, WorkerCrash, Crash
  <2>. QED
    BY <2>1 DEF TypeInv, TypeOK, WorkerTypeOK
<1>1. CASE StartJob(w)
  <2>1. PICK m \in Msg : /\ ready[m] > 0
                         /\ ready' = Take(ready, m)
                         /\ delivery' = [delivery EXCEPT ![w] = m]
    BY <1>1 DEF StartJob, Deliver
  <2>2. /\ consumer[w] = "waiting" /\ stage[w] = "idle"
        /\ consumer' = [consumer EXCEPT ![w] = "handling"]
        /\ stage' = [stage EXCEPT ![w] = "start"]
        /\ UNCHANGED <<ledger, faults>>
    BY <1>0, <1>1 DEF StartJob, Deliver
  <2>3. /\ \A v \in Workers : v # w => (v \in Busy(k)' <=> v \in Busy(k))
        /\ w \notin Busy(k) /\ (w \in Busy(k)' <=> m.job = k)
    BY <1>0, <2>1, <2>2 DEF Busy, MayExecute, Job, QueueTypeOK
  <2>4. UNCHANGED interrupted
    BY <1>0, <2>2 DEF HandlerStep, RunHandler, CancelHandler
  <2>5. /\ IsFiniteSet(Busy(k)')
        /\ m.job = k => Cardinality(Busy(k)') = Cardinality(Busy(k)) + 1
        /\ m.job # k => Cardinality(Busy(k)') = Cardinality(Busy(k))
    BY <2>3, BusyMoves DEF Counted
  <2>6. /\ IsFiniteSet(Copies(ready', k))
        /\ m.job = k => Cardinality(Copies(ready', k)) = Cardinality(Copies(ready, k)) - 1
        /\ m.job # k => Cardinality(Copies(ready', k)) = Cardinality(Copies(ready, k))
    BY <1>0, <2>1, TakeCopies DEF Counted, QueueTypeOK
  <2>7. Spent(k)' = Spent(k) /\ Counted(k)' /\ Debt' = Debt
    BY <1>0, <2>2, <2>4, <2>5, <2>6, CountFacts DEF Spent, Counted, Debt
  <2>. QED
    BY <2>7, CountFacts DEF PaidFor
<1>2. CASE WorkerCrash(w)
  <2>1. /\ Requeued(w) /\ faults' = faults + 1 /\ UNCHANGED ledger
        /\ delivery' = [delivery EXCEPT ![w] = NoMsg]
        /\ consumer' = [consumer EXCEPT ![w] = "waiting"]
        /\ stage' = [stage EXCEPT ![w] = "idle"]
    BY <1>2 DEF WorkerCrash, Crash, Vacate, Fault
  <2>2. interrupted' \in Nat /\ interrupted' >= interrupted
    BY CountFacts DEF HandlerStep, RunHandler
  <2>3. /\ \A v \in Workers : v # w => (v \in Busy(k)' <=> v \in Busy(k))
        /\ w \notin Busy(k)'
    BY <1>0, <2>1 DEF Busy, MayExecute, Job, QueueTypeOK
  <2>4. IsFiniteSet(Busy(k)') /\ Cardinality(Busy(k)') <= Cardinality(Busy(k))
    BY <2>3, BusyMoves, CountFacts DEF Counted
  <2>5. /\ IsFiniteSet(Copies(ready', k))
        /\ Cardinality(Copies(ready', k)) <= Cardinality(Copies(ready, k)) + 1
    <3>1. CASE live[w] /\ consumer[w] # "waiting"
      <4>1. delivery[w] \in Msg /\ ready' = Put(ready, delivery[w])
        BY <1>0, <2>1, <3>1, HoldsMessage DEF Requeued
      <4>. QED
        BY <1>0, <4>1, PutCopies, CountFacts DEF Counted, QueueTypeOK
    <3>2. CASE UNCHANGED ready
      BY <3>2, CountFacts DEF Counted
    <3>. QED
      BY <2>1, <3>1, <3>2 DEF Requeued
  <2>6. Cardinality(Busy(k)') \in Nat /\ Cardinality(Copies(ready', k)) \in Nat
    BY <2>4, <2>5, FS_CardinalityType
  <2>. QED
    BY <1>0, <2>1, <2>2, <2>4, <2>5, <2>6, CountFacts DEF PaidFor, Spent, Counted, Debt
<1>3. CASE ~ StartJob(w) /\ ~ WorkerCrash(w)
  <2>0. stage[w] # "idle" /\ (Handle(w) \/ CancelHandler(w))
    BY <1>3, HandlerSpends
  <2>1. /\ UNCHANGED <<ready, delivery>>
        /\ \A v \in Workers : v # w => stage'[v] = stage[v] /\ consumer'[v] = consumer[v]
    BY <1>0, <2>0, HandlerReports DEF QueueTypeOK
  <2>2. /\ \A v \in Workers : v # w => (v \in Busy(k)' <=> v \in Busy(k))
        /\ w \in Busy(k) <=> MayExecute(w) /\ Job(w) = k
        /\ w \in Busy(k)' <=> MayExecute(w)' /\ Job(w) = k
    BY <2>1 DEF Busy, MayExecute, Job
  <2>3. /\ IsFiniteSet(Busy(k)') /\ Cardinality(Busy(k)') \in Nat
        /\ (w \in Busy(k) <=> w \in Busy(k)') => Cardinality(Busy(k)') = Cardinality(Busy(k))
        /\ w \in Busy(k) /\ w \notin Busy(k)' => Cardinality(Busy(k)') = Cardinality(Busy(k)) - 1
        /\ w \notin Busy(k) /\ w \in Busy(k)' => Cardinality(Busy(k)') = Cardinality(Busy(k)) + 1
    BY <2>2, BusyMoves, FS_CardinalityType DEF Counted
  <2>4. /\ ledger'[k] = ledger[k] \/ ledger'[k] = ledger[k] + 1
        /\ ledger'[k] # ledger[k] => Executes(w) /\ Job(w) = k /\ MayExecute(w)
        /\ UNCHANGED ledger => ledger'[k] = ledger[k]
    BY <1>0, <1>3, HandlerSpends DEF Executes
  <2>5. ledger'[k] + Cardinality(Busy(k)') + Debt <= ledger[k] + Cardinality(Busy(k)) + Debt'
    <3>1. CASE Debt' = Debt + 1
      <4>1. ledger'[k] + Cardinality(Busy(k)') <= ledger[k] + Cardinality(Busy(k)) + 1
        BY <2>2, <2>3, <2>4, CountFacts
      <4>. QED
        BY <2>3, <2>4, <3>1, <4>1, CountFacts
    <3>2. CASE Debt' = Debt
      <4>1. ledger'[k] + Cardinality(Busy(k)') <= ledger[k] + Cardinality(Busy(k))
        BY <1>3, <2>2, <2>3, <2>4, <3>2, HandlerSpends, CountFacts
      <4>. QED
        BY <2>3, <2>4, <3>2, <4>1, CountFacts
    <3>. QED
      BY <1>3, <3>1, <3>2, HandlerSpends
  <2>6. Debt' \in Nat
    BY <1>3, HandlerSpends, CountFacts
  <2>. QED
    BY <1>0, <2>1, <2>3, <2>4, <2>5, <2>6, CountFacts DEF PaidFor, Spent, Counted
<1>. QED
  BY <1>1, <1>2, <1>3

\* The consumer loops and the broker pass executions to come on or drop them; a copy too many
\* takes a lost session or a failed publication of a retry, which are faults.
LEMMA SpentQueue ==
    ASSUME TypeInv, Broker \/ \E w \in Workers : Consume(w) \/ Session(w),
           NEW k \in Keys, Counted(k)
    PROVE  PaidFor(k)
<1>0. /\ QueueTypeOK /\ UNCHANGED <<stage, ledger, interrupted>>
      /\ \A w \in Workers : consumer[w] # "handling" => stage[w] = "idle"
      /\ ready \in [Msg -> Nat] /\ retrying \in [Msg -> Nat]
      /\ consumer \in [Workers -> ConsumerStates]
      /\ delivery \in [Workers -> Msg \cup {NoMsg}]
  BY DEF TypeInv, TypeOK, QueueTypeOK, WorkerTypeOK, Broker, Consume, Session, workerVars, processVars
<1>1. ASSUME NEW w \in Workers, Consume(w)
      PROVE  PaidFor(k)
  <2> DEFINE Others == \A v \in Workers : v # w => (v \in Busy(k)' <=> v \in Busy(k))
  <2>a. ASSUME Finish(w) PROVE Others
    BY <1>0, <2>a DEF Finish, Busy, MayExecute, Job
  <2>b. ASSUME consumer'[w] \in {"waiting", "acking"}, consumer[w] # "handling"
        PROVE  w \notin Busy(k)'
    BY <1>0, <2>b DEF Busy, MayExecute
  <2>c. Malformed = {}
    BY RequestAssumption
  <2>1. CASE AckDone(w) \/ AckRetried(w) \/ SettleOnClosed(w) \/ DeadLetter(w)
    <3>1. Finish(w) /\ consumer[w] # "handling" /\ UNCHANGED <<ready, retrying, faults>>
      BY <2>1, <2>c DEF AckDone, AckRetried, SettleOnClosed, DeadLetter
    <3>2. w \notin Busy(k)'
      BY <1>0, <2>b, <3>1 DEF Finish
    <3>3. IsFiniteSet(Busy(k)') /\ Cardinality(Busy(k)') <= Cardinality(Busy(k))
          /\ Cardinality(Busy(k)') \in Nat
      BY <2>a, <3>1, <3>2, BusyMoves, CountFacts, FS_CardinalityType DEF Counted
    <3>. QED
      BY <1>0, <3>1, <3>3, CountFacts DEF PaidFor, Spent, Counted, Debt
  <2>2. CASE PublishRetry(w)
    <3>1. /\ consumer[w] = "failed" /\ consumer' = [consumer EXCEPT ![w] = "acking"]
          /\ retrying' = Put(retrying, Retry(delivery[w])) /\ ~ Exhausted(delivery[w])
          /\ UNCHANGED <<ready, delivery, faults>>
      BY <2>2 DEF PublishRetry
    <3>2. Retry(delivery[w]) \in Msg /\ Retry(delivery[w]).job = Job(w)
      BY <1>0, <3>1, HoldsMessage, RetryFacts DEF Job
    <3>3. /\ Others
          /\ w \notin Busy(k)' /\ (w \in Busy(k) <=> Job(w) = k)
      BY <1>0, <2>b, <3>1 DEF Busy, MayExecute, Job
    <3>4. /\ IsFiniteSet(Busy(k)')
          /\ Job(w) = k => Cardinality(Busy(k)') = Cardinality(Busy(k)) - 1
          /\ Job(w) # k => Cardinality(Busy(k)') = Cardinality(Busy(k))
      BY <3>3, BusyMoves DEF Counted
    <3>5. /\ IsFiniteSet(Copies(retrying', k))
          /\ Job(w) = k => Cardinality(Copies(retrying', k)) = Cardinality(Copies(retrying, k)) + 1
          /\ Job(w) # k => Cardinality(Copies(retrying', k)) = Cardinality(Copies(retrying, k))
      BY <1>0, <3>1, <3>2, PutCopies DEF Counted
    <3>6. Counted(k)' /\ Spent(k)' = Spent(k) /\ Debt' = Debt
      BY <1>0, <3>1, <3>4, <3>5, CountFacts DEF Spent, Counted, Debt
    <3>. QED
      BY <3>6, CountFacts DEF PaidFor
  <2>3. CASE NackRequeue(w)
    <3>1. /\ Finish(w) /\ consumer[w] = "failed" /\ ready' = Put(ready, delivery[w])
          /\ UNCHANGED retrying /\ faults' = faults + 1
      BY <2>3 DEF NackRequeue, Fault
    <3>2. delivery[w] \in Msg
      BY <1>0, <3>1, HoldsMessage
    <3>3. w \notin Busy(k)'
      BY <1>0, <2>b, <3>1 DEF Finish
    <3>4. /\ IsFiniteSet(Busy(k)') /\ Cardinality(Busy(k)') <= Cardinality(Busy(k))
          /\ Cardinality(Busy(k)') \in Nat
      BY <2>a, <3>1, <3>3, BusyMoves, CountFacts, FS_CardinalityType DEF Counted
    <3>5. /\ IsFiniteSet(Copies(ready', k)) /\ Cardinality(Copies(ready', k)) \in Nat
          /\ Cardinality(Copies(ready', k)) <= Cardinality(Copies(ready, k)) + 1
      <4>1. /\ IsFiniteSet(Copies(Put(ready, delivery[w]), k))
            /\ \/ Cardinality(Copies(Put(ready, delivery[w]), k)) = Cardinality(Copies(ready, k))
               \/ Cardinality(Copies(Put(ready, delivery[w]), k)) = Cardinality(Copies(ready, k)) + 1
        BY <1>0, <3>2, PutCopies DEF Counted
      <4>. QED
        BY <3>1, <4>1, CountFacts
    <3>. QED
      BY <1>0, <3>1, <3>4, <3>5, CountFacts DEF PaidFor, Spent, Counted, Debt
  <2>. QED
    BY <1>1, <2>1, <2>2, <2>3 DEF Consume
<1>2. ASSUME NEW w \in Workers, Session(w)
      PROVE  PaidFor(k)
  <2>1. CASE Reconnect(w) \/ LoopEnds(w)
    <3>1. UNCHANGED <<ready, retrying, delivery, consumer, faults>>
      BY <2>1 DEF Reconnect, LoopEnds
    <3>. QED
      BY <1>0, <3>1, SpentFrame, CountFacts DEF Debt
  <2>2. CASE SessionLost(w)
    <3>1. Requeued(w) /\ faults' = faults + 1 /\ UNCHANGED <<retrying, delivery, consumer>>
      BY <2>2 DEF SessionLost, Fault
    <3>2. Busy(k)' = Busy(k)
      BY <1>0, <3>1 DEF Busy, MayExecute, Job
    <3>3. /\ IsFiniteSet(Copies(ready', k)) /\ Cardinality(Copies(ready', k)) \in Nat
          /\ Cardinality(Copies(ready', k)) <= Cardinality(Copies(ready, k)) + 1
      <4>1. CASE live[w] /\ consumer[w] # "waiting"
        <5>1. delivery[w] \in Msg /\ ready' = Put(ready, delivery[w])
          BY <1>0, <3>1, <4>1, HoldsMessage DEF Requeued
        <5>2. /\ IsFiniteSet(Copies(Put(ready, delivery[w]), k))
              /\ \/ Cardinality(Copies(Put(ready, delivery[w]), k)) = Cardinality(Copies(ready, k))
                 \/ Cardinality(Copies(Put(ready, delivery[w]), k)) = Cardinality(Copies(ready, k)) + 1
          BY <1>0, <5>1, PutCopies DEF Counted
        <5>. QED
          BY <5>1, <5>2, CountFacts
      <4>2. CASE UNCHANGED ready
        BY <4>2, CountFacts DEF Counted
      <4>. QED
        BY <3>1, <4>1, <4>2 DEF Requeued
    <3>. QED
      BY <1>0, <3>1, <3>2, <3>3, CountFacts DEF PaidFor, Spent, Counted, Debt
  <2>. QED
    BY <1>2, <2>1, <2>2 DEF Session, ReconnectUnlessStopping
<1>3. ASSUME NEW m \in Msg, RetryExpires(m)
      PROVE  PaidFor(k)
  <2>1. /\ retrying[m] > 0 /\ retrying' = Take(retrying, m) /\ ready' = Put(ready, m)
        /\ UNCHANGED <<delivery, consumer, faults>>
    BY <1>3 DEF RetryExpires
  <2>2. Busy(k)' = Busy(k)
    BY <1>0, <2>1 DEF Busy, MayExecute, Job
  <2>3. /\ IsFiniteSet(Copies(retrying', k))
        /\ m.job = k => Cardinality(Copies(retrying', k)) = Cardinality(Copies(retrying, k)) - 1
        /\ m.job # k => Cardinality(Copies(retrying', k)) = Cardinality(Copies(retrying, k))
    BY <1>0, <2>1, TakeCopies DEF Counted
  <2>4. /\ IsFiniteSet(Copies(ready', k))
        /\ m.job = k => Cardinality(Copies(ready', k)) = Cardinality(Copies(ready, k)) + 1
        /\ m.job # k => Cardinality(Copies(ready', k)) = Cardinality(Copies(ready, k))
    <3>1. ready \in [Msg -> Nat] /\ IsFiniteSet(Copies(ready, k)) /\ ready' = Put(ready, m)
      BY <1>0, <2>1 DEF Counted
    <3>. QED
      BY <3>1, PutCopies
  <2>5. Cardinality(Copies(ready', k)) + Cardinality(Copies(retrying', k))
           = Cardinality(Copies(ready, k)) + Cardinality(Copies(retrying, k))
        /\ Cardinality(Copies(ready', k)) \in Int /\ Cardinality(Copies(retrying', k)) \in Int
    BY <2>3, <2>4, CountFacts
  <2>6. Counted(k)' /\ Spent(k)' = Spent(k) /\ Debt' = Debt
    BY <1>0, <2>1, <2>2, <2>3, <2>4, <2>5, CountFacts DEF Spent, Counted, Debt
  <2>. QED
    BY <2>6, CountFacts DEF PaidFor
<1>4. CASE BrokerRestart
  <2>1. ready' = EmptyQueue /\ retrying' = EmptyQueue /\ UNCHANGED <<delivery, consumer, faults>>
    BY <1>4 DEF BrokerRestart
  <2>2. Busy(k)' = Busy(k)
    BY <1>0, <2>1 DEF Busy, MayExecute, Job
  <2>3. IsFiniteSet(Copies(EmptyQueue, k)) /\ Cardinality(Copies(EmptyQueue, k)) = 0
    BY EmptyFacts, NoCopies
  <2>. QED
    BY <1>0, <2>1, <2>2, <2>3, CountFacts DEF PaidFor, Spent, Counted, Debt
<1>. QED
  BY <1>1, <1>2, <1>3, <1>4 DEF Broker

\* Every step uses up at most what it pays for, but for the publication of the payment.
LEMMA SpentStep ==
    ASSUME TypeInv, [Next]_vars, NEW k \in Keys, Counted(k)
    PROVE  \/ PaidFor(k)
           \/ /\ Counted(k)' /\ Spent(k)' = Spent(k) + 1 /\ Debt' = Debt
              /\ \E c \in Clients : intake[c] = "publish" /\ Key(c) = k
<1>0. ready \in [Msg -> Nat] /\ faults \in Nat /\ interrupted \in Nat
  BY CountFacts DEF TypeInv, TypeOK, QueueTypeOK
<1>1. ASSUME NEW c \in Clients, IntakeStep(c), UNCHANGED ready
      PROVE  PaidFor(k)
  <2>1. /\ UNCHANGED <<retrying, delivery, consumer, stage, ledger, interrupted>>
        /\ faults' = faults \/ faults' = faults + 1
    BY <1>1, IntakeEffects DEF workerVars
  <2>. QED
    BY <1>0, <1>1, <2>1, SpentFrame DEF Debt
<1>2. ASSUME NEW c \in Clients, IntakeStep(c), ready' # ready
      PROVE  \/ PaidFor(k)
             \/ /\ Counted(k)' /\ Spent(k)' = Spent(k) + 1 /\ Debt' = Debt
                /\ intake[c] = "publish" /\ Key(c) = k
  <2>1. /\ UNCHANGED <<retrying, delivery, consumer, stage, ledger, interrupted>>
        /\ intake[c] = "publish" /\ ready' = Put(ready, Fresh(Key(c))) /\ UNCHANGED faults
    BY <1>2, IntakeEffects DEF workerVars
  <2>2. Fresh(Key(c)) \in Msg /\ Fresh(Key(c)).job = Key(c)
    BY <2>1, RequestFacts, FreshFacts DEF TypeInv, TypeOK, IntakeTypeOK, Key, Keys, Fresh
  <2>3. Busy(k)' = Busy(k)
    BY <2>1 DEF Busy, MayExecute, Job
  <2>4. /\ IsFiniteSet(Copies(ready', k))
        /\ Key(c) = k => Cardinality(Copies(ready', k)) = Cardinality(Copies(ready, k)) + 1
        /\ Key(c) # k => Cardinality(Copies(ready', k)) = Cardinality(Copies(ready, k))
    <3>1. IsFiniteSet(Copies(ready, k))
      BY DEF Counted
    <3>. QED
      BY <1>0, <2>1, <2>2, <3>1, PutCopies
  <2>5. Counted(k)' /\ Debt' = Debt
    BY <2>1, <2>3, <2>4 DEF Counted, Debt
  <2>6. CASE Key(c) = k
    BY <2>1, <2>3, <2>4, <2>5, <2>6, CountFacts DEF Spent
  <2>7. CASE Key(c) # k
    <3>1. Spent(k)' = Spent(k)
      BY <2>1, <2>3, <2>4, <2>7 DEF Spent
    <3>. QED
      BY <2>5, <3>1, CountFacts DEF PaidFor
  <2>. QED
    BY <2>6, <2>7
<1>3. ASSUME NEW r \in Readers, ReaderStep(r)
      PROVE  PaidFor(k)
  <2>1. /\ UNCHANGED <<ready, retrying, delivery, consumer, stage, ledger, interrupted>>
        /\ faults' = faults \/ faults' = faults + 1
    BY <1>3, ReaderEffects DEF workerVars
  <2>. QED
    BY <1>0, <2>1, SpentFrame DEF Debt
<1>4. ASSUME Stop \/ Restart \/ UNCHANGED vars \/ \E j \in Keys : Expiry(j)
      PROVE  PaidFor(k)
  <2>1. /\ UNCHANGED <<ready, retrying, delivery, consumer, stage, ledger, interrupted>>
        /\ faults' = faults \/ faults' = faults + 1
    BY <1>4 DEF Stop, Restart, Expiry, Fault, vars, queueVars, queueRest, workerVars, processVars
  <2>. QED
    BY <1>0, <2>1, SpentFrame DEF Debt
<1>. QED
  BY <1>1, <1>2, <1>3, <1>4, SpentHandler, SpentQueue DEF Next

\* Workers, consumer loops and broker only pass on what is afloat.
LEMMA AfloatBefore ==
    ASSUME TypeInv, NEW k \in Keys, Afloat(k)',
           Broker \/ \E w \in Workers : HandlerStep(w) \/ Consume(w) \/ Session(w)
    PROVE  Afloat(k)
<1>0. /\ QueueTypeOK
      /\ ready \in [Msg -> Nat] /\ retrying \in [Msg -> Nat]
      /\ consumer \in [Workers -> ConsumerStates] /\ delivery \in [Workers -> Msg \cup {NoMsg}]
  BY DEF TypeInv, TypeOK, QueueTypeOK
<1> DEFINE InHand(v) == consumer[v] # "waiting" /\ Job(v) = k
<1>a. ASSUME NEW w \in Workers, Requeued(w), UNCHANGED retrying, InQueue(k)'
      PROVE  Afloat(k)
  <2>1. CASE live[w] /\ consumer[w] # "waiting"
    <3>1. delivery[w] \in Msg /\ \A n \in Msg : ready'[n] > 0 => n = delivery[w] \/ ready[n] > 0
      BY <1>0, <1>a, <2>1, HoldsMessage, PutFacts DEF Requeued
    <3>. QED
      BY <1>a, <2>1, <3>1 DEF Afloat, InQueue, Job
  <2>2. CASE UNCHANGED ready
    BY <1>a, <2>2 DEF Afloat, InQueue
  <2>. QED
    BY <1>a, <2>1, <2>2 DEF Requeued
<1>b. ASSUME UNCHANGED <<ready, retrying>>, \A v \in Workers : InHand(v)' => InHand(v)
      PROVE  Afloat(k)
  BY <1>b DEF Afloat, InQueue
<1>1. ASSUME NEW w \in Workers, HandlerStep(w)
      PROVE  Afloat(k)
  <2>1. CASE StartJob(w)
    <3>1. PICK m \in Msg : /\ ready[m] > 0
                           /\ ready' = Take(ready, m)
                           /\ delivery' = [delivery EXCEPT ![w] = m]
      BY <2>1 DEF StartJob, Deliver
    <3>2. UNCHANGED retrying /\ consumer' = [consumer EXCEPT ![w] = "handling"]
      BY <2>1 DEF StartJob, Deliver
    <3>3. \A n \in Msg : ready'[n] > 0 => ready[n] > 0
      BY <1>0, <3>1, TakeFacts
    <3>4. \A v \in Workers : InHand(v)' => InHand(v) \/ m.job = k
      BY <1>0, <3>1, <3>2 DEF Job
    <3>5. InQueue(k)' \/ m.job = k => InQueue(k)
      BY <3>1, <3>2, <3>3 DEF InQueue
    <3>. QED
      BY <3>4, <3>5 DEF Afloat
  <2>2. CASE WorkerCrash(w)
    <3>1. /\ Requeued(w) /\ UNCHANGED retrying
          /\ consumer' = [consumer EXCEPT ![w] = "waiting"]
          /\ delivery' = [delivery EXCEPT ![w] = NoMsg]
      BY <2>2 DEF WorkerCrash, Crash
    <3>2. \A v \in Workers : InHand(v)' => InHand(v)
      BY <1>0, <3>1 DEF Job
    <3>. QED
      BY <1>a, <3>1, <3>2 DEF Afloat
  <2>3. CASE stage[w] # "idle" /\ (Handle(w) \/ CancelHandler(w))
    <3>1. UNCHANGED <<ready, retrying, delivery>>
      BY <2>3, HandlerReports
    <3>2. \A v \in Workers : consumer'[v] # "waiting" => consumer[v] # "waiting"
      BY <1>0, <2>3, HandlerReports DEF TypeInv, TypeOK, WorkerTypeOK
    <3>. QED
      BY <1>b, <3>1, <3>2 DEF Job
  <2>. QED
    BY <1>1, <2>1, <2>2, <2>3, HandlerCases
<1>2. ASSUME NEW w \in Workers, Consume(w)
      PROVE  Afloat(k)
  <2>a. ASSUME Finish(w) PROVE \A v \in Workers : InHand(v)' => InHand(v)
    BY <1>0, <2>a DEF Finish, Job
  <2>1. CASE AckDone(w) \/ AckRetried(w) \/ SettleOnClosed(w) \/ DeadLetter(w)
    <3>1. Finish(w) /\ UNCHANGED <<ready, retrying>>
      BY <2>1 DEF AckDone, AckRetried, SettleOnClosed, DeadLetter
    <3>. QED
      BY <1>b, <2>a, <3>1
  <2>2. CASE NackRequeue(w)
    <3>1. /\ Finish(w) /\ consumer[w] # "waiting" /\ UNCHANGED retrying
          /\ live[w] /\ ready' = Put(ready, delivery[w])
      BY <2>2 DEF NackRequeue
    <3>. QED
      BY <1>a, <2>a, <3>1 DEF Afloat, Requeued
  <2>3. CASE PublishRetry(w)
    <3>1. /\ consumer[w] # "waiting" /\ UNCHANGED <<ready, delivery>>
          /\ ~ Exhausted(delivery[w]) /\ retrying' = Put(retrying, Retry(delivery[w]))
          /\ consumer' = [consumer EXCEPT ![w] = "acking"]
      BY <2>3 DEF PublishRetry
    <3>2. Retry(delivery[w]) \in Msg /\ Retry(delivery[w]).job = Job(w)
      BY <1>0, <3>1, HoldsMessage, RetryFacts DEF Job
    <3>3. \A n \in Msg : retrying'[n] > 0 => n = Retry(delivery[w]) \/ retrying[n] > 0
      BY <1>0, <3>1, <3>2, PutFacts
    <3>4. InQueue(k)' => InQueue(k) \/ InHand(w)
      BY <3>1, <3>2, <3>3 DEF InQueue
    <3>5. \A v \in Workers : InHand(v)' => InHand(v)
      BY <1>0, <3>1 DEF Job
    <3>. QED
      BY <3>4, <3>5 DEF Afloat
  <2>. QED
    BY <1>2, <2>1, <2>2, <2>3 DEF Consume
<1>3. ASSUME NEW w \in Workers, Session(w)
      PROVE  Afloat(k)
  <2>1. UNCHANGED <<retrying, consumer, delivery>> /\ (Requeued(w) \/ UNCHANGED ready)
    BY <1>3 DEF Session, ReconnectUnlessStopping, Reconnect, LoopEnds, SessionLost
  <2>. QED
    BY <1>a, <2>1 DEF Afloat, InQueue, Job
<1>4. ASSUME NEW m \in Msg, RetryExpires(m)
      PROVE  Afloat(k)
  <2>1. /\ retrying[m] > 0 /\ UNCHANGED <<consumer, delivery>>
        /\ \A n \in Msg : ready'[n] > 0 \/ retrying'[n] > 0 => ready[n] > 0 \/ retrying[n] > 0
    BY <1>0, <1>4, TakeFacts, PutFacts DEF RetryExpires
  <2>. QED
    BY <2>1 DEF Afloat, InQueue, Job
<1>5. CASE BrokerRestart
  BY <1>5, EmptyFacts DEF BrokerRestart, Afloat, InQueue, Job
<1>. QED
  BY <1>1, <1>2, <1>3, <1>4, <1>5 DEF Broker

\* A payment that has not been published is in nobody's hands but its creator's.
LEMMA UnsentStep ==
    ASSUME TypeInv, AcceptInv, UnsentIsIdle, [Next]_vars
    PROVE  UnsentIsIdle'
<1> SUFFICES ASSUME NEW k \in Keys, Unsent(k)'
             PROVE  /\ status'[k] \in {"absent", "PROCESSING"}
                    /\ ledger'[k] = 0
                    /\ ~Afloat(k)'
  BY DEF UnsentIsIdle
<1>0. /\ status \in [Keys -> RowStatus] /\ ledger \in [Keys -> Nat] /\ ready \in [Msg -> Nat]
      /\ stage \in [Workers -> Stages]
  BY DEF TypeInv, TypeOK, StoreTypeOK, WorkerTypeOK, QueueTypeOK
<1> DEFINE Was == status[k] \in {"absent", "PROCESSING"} /\ ledger[k] = 0 /\ ~Afloat(k)
<1>1. ASSUME NEW c \in Clients, IntakeStep(c)
      PROVE  status'[k] \in {"absent", "PROCESSING"} /\ ledger'[k] = 0 /\ ~Afloat(k)'
  <2>0. /\ UNCHANGED <<retrying, delivery, consumer, ledger>>
        /\ \A d \in Clients : d # c => intake'[d] = intake[d] /\ Key(d)' = Key(d)
        /\ intake[c] # "idle" => Key(c) \in Keys /\ Key(c)' = Key(c)
    BY <1>1, IntakeEffects, IntakeMoves, RequestFacts DEF workerVars, SameHandler, Key
  <2>1. Unsent(k)
    <3>1. CASE status'[k] = "absent"
      BY <1>0, <1>1, <3>1, IntakeEffects DEF InsertRow, Unsent, Key
    <3>2. ASSUME NEW d \in Clients, intake'[d] \in {"record", "cache", "publish"}, Key(d)' = k
          PROVE  Unsent(k)
      <4>1. CASE d # c
        BY <2>0, <3>2, <4>1 DEF Unsent
      <4>2. CASE d = c
        <5>1. \/ intake[c] \in {"record", "cache"}
              \/ intake[c] = "insert" /\ InsertRow(request[c])
          BY <1>1, <3>2, <4>2, IntakeControl DEF CreatorMoves, Creator, Creating
        <5>2. Key(c) = k
          BY <2>0, <3>2, <4>2, <5>1
        <5>. QED
          BY <5>1, <5>2 DEF Unsent, InsertRow, Key
      <4>. QED
        BY <4>1, <4>2
    <3>. QED
      BY <3>1, <3>2 DEF Unsent
  <2>2. Was
    BY <2>1 DEF UnsentIsIdle
  <2>3. ASSUME intake[c] \in {"publish", "markFailed"}, Key(c) = k,
               intake'[c] \notin {"record", "cache", "publish"}
        PROVE  FALSE
    <3>1. Creator(c) /\ status[k] # "absent" /\ status'[k] # "absent"
      BY <1>1, <2>3, IntakeMoves
         DEF Creator, Creating, TypeInv, AcceptedExist, Found, StoredStays
    <3>2. PICK d \in Clients : intake'[d] \in {"record", "cache", "publish"} /\ Key(d)' = k
      BY <3>1 DEF Unsent
    <3>3. d # c /\ Creator(d) /\ Key(d) = k
      BY <2>0, <2>3, <3>2 DEF Creator, Creating
    <3>. QED
      BY <2>3, <3>1, <3>3 DEF AcceptInv, OneCreator
  <2>4. status'[k] \in {"absent", "PROCESSING"}
    <3>1. CASE intake[c] = "markFailed" /\ Key(c) = k
      <4>1. intake'[c] \notin {"record", "cache", "publish"}
        BY <1>1, <3>1, IntakeControl DEF CreatorMoves, Creator, Creating
      <4>. QED
        BY <2>3, <3>1, <4>1
    <3>2. CASE ~ (intake[c] = "markFailed" /\ Key(c) = k)
      BY <1>0, <1>1, <2>0, <2>2, <3>2, IntakeEffects DEF InsertRow, Key
    <3>. QED
      BY <3>1, <3>2
  <2>5. ~ Afloat(k)'
    <3>1. CASE UNCHANGED ready
      BY <2>0, <2>2, <3>1 DEF Afloat, InQueue, Job
    <3>2. CASE intake[c] = "publish" /\ intake'[c] = "enqueued" /\ ready' = Put(ready, Fresh(Key(c)))
      <4>1. Key(c) # k
        BY <2>3, <3>2
      <4>2. Fresh(Key(c)) \in Msg /\ Fresh(Key(c)).job = Key(c)
        BY <2>0, <3>2, FreshFacts DEF Fresh, Keys
      <4>3. \A n \in Msg : ready'[n] > 0 => n = Fresh(Key(c)) \/ ready[n] > 0
        BY <1>0, <3>2, <4>2, PutFacts
      <4>. QED
        BY <2>0, <2>2, <4>1, <4>2, <4>3 DEF Afloat, InQueue, Job
    <3>. QED
      BY <1>1, <3>1, <3>2, IntakeEffects
  <2>. QED
    BY <2>0, <2>2, <2>4, <2>5
<1>2. ASSUME ~ \E c \in Clients : IntakeStep(c)
      PROVE  Was
  <2>1. CASE Restart
    <3>1. \A c \in Clients : intake'[c] \notin {"record", "cache", "publish"}
      BY <2>1 DEF Restart, CutOff, Answers, Creating
    <3>2. status[k] = "absent"
      BY <2>1, <3>1 DEF Unsent, Restart, storeVars
    <3>. QED
      BY <3>2 DEF UnsentIsIdle, Unsent
  <2>2. CASE IntakeUntouched
    BY <2>2 DEF IntakeUntouched, intakeVars, Unsent, UnsentIsIdle, Key
  <2>. QED
    BY <1>2, <2>1, <2>2, OutsideIntake
<1>3. ASSUME NEW w \in Workers, HandlerStep(w), Was
      PROVE  status'[k] \in {"absent", "PROCESSING"} /\ ledger'[k] = 0 /\ ~Afloat(k)'
  <2>1. stage[w] # "idle" => Job(w) # k
    BY <1>3 DEF Afloat, TypeInv, TypeOK, WorkerTypeOK
  <2>2. status'[k] = status[k] /\ ledger'[k] = ledger[k]
    BY <1>0, <1>3, <2>1, HandlerWrites DEF Executes
  <2>. QED
    BY <1>3, <2>2, AfloatBefore
<1>4. ASSUME Broker \/ \E w \in Workers : Consume(w) \/ Session(w), Was
      PROVE  status'[k] \in {"absent", "PROCESSING"} /\ ledger'[k] = 0 /\ ~Afloat(k)'
  <2>1. UNCHANGED <<status, ledger>>
    BY <1>4 DEF Broker, Consume, Session, storeVars, workerVars
  <2>. QED
    BY <1>4, <2>1, AfloatBefore
<1>5. ASSUME Was, \/ Stop \/ Restart \/ UNCHANGED vars
                  \/ \E j \in Keys : Expiry(j)
                  \/ \E r \in Readers : ReaderStep(r)
      PROVE  status'[k] \in {"absent", "PROCESSING"} /\ ledger'[k] = 0 /\ ~Afloat(k)'
  <2>1. UNCHANGED <<status, ledger, ready, retrying, consumer, delivery>>
    BY <1>5, ReaderEffects
       DEF Stop, Restart, Expiry, CacheExpires, SetTransactionStatus, vars, queueVars, queueRest,
           storeVars, workerVars
  <2>. QED
    BY <1>5, <2>1 DEF Afloat, InQueue, Job
<1>. QED
  BY <1>1, <1>2, <1>3, <1>4, <1>5 DEF Next

\* Every step keeps what a payment has used up within one execution and what it pays for.
LEMMA SpentInvStep == TypeInv /\ AcceptInv /\ SpentInv /\ [Next]_vars => SpentInv'
<1> SUFFICES ASSUME TypeInv, AcceptInv, SpentInv, [Next]_vars
             PROVE  SpentInv'
  OBVIOUS
<1>1. UnsentIsIdle'
  BY UnsentStep DEF SpentInv
<1>2. ASSUME NEW k \in Keys
      PROVE  Counted(k)' /\ Spent(k)' <= 1 + Debt'
  <2>0. Counted(k) /\ Spent(k) <= 1 + Debt /\ TypeInv'
    BY TypeStep DEF SpentInv
  <2>1. Spent(k) \in Nat /\ Debt \in Nat
    BY <2>0, CountFacts
  <2>2. Debt' \in Nat
    <3>1. QueueTypeOK'
      BY <2>0 DEF TypeInv, TypeOK
    <3>2. faults' \in Nat
      BY <3>1, QueueAssumption DEF QueueTypeOK
    <3>3. interrupted' \in Nat
      BY <2>0 DEF TypeInv, TypeOK
    <3>4. \A a, b \in Nat : a + b \in Nat
      OBVIOUS
    <3>. QED
      BY <3>2, <3>3, <3>4, Zenon DEF Debt
  <2>3. CASE PaidFor(k)
    <3>1. Spent(k)' \in Nat
      BY <2>0, <2>3, FS_CardinalityType
         DEF PaidFor, Counted, Spent, TypeInv, TypeOK, WorkerTypeOK
    <3>. QED
      BY <2>0, <2>1, <2>2, <2>3, <3>1 DEF PaidFor
  <2>4. ASSUME NEW c \in Clients, intake[c] = "publish", Key(c) = k,
               Counted(k)', Spent(k)' = Spent(k) + 1
        PROVE  Counted(k)' /\ Spent(k)' <= 1 + Debt'
    <3>1. ledger[k] = 0 /\ ~Afloat(k)
      BY <2>4 DEF SpentInv, UnsentIsIdle, Unsent
    <3>2. \A m \in Msg : m.job = k => ready[m] = 0 /\ retrying[m] = 0
      BY <3>1 DEF Afloat, InQueue, TypeInv, TypeOK, QueueTypeOK
    <3>3. Cardinality(Copies(ready, k)) = 0 /\ Cardinality(Copies(retrying, k)) = 0
      BY <3>2, NoCopies DEF TypeInv, TypeOK, QueueTypeOK
    <3>4. Busy(k) = {}
      BY <3>1 DEF Busy, MayExecute, Afloat, TypeInv, TypeOK, WorkerTypeOK
    <3>5. Spent(k) = 0
      BY <3>1, <3>3, <3>4, FS_EmptySet DEF Spent
    <3>6. Spent(k)' = 1
      BY <2>4, <3>5
    <3>. QED
      BY <2>2, <2>4, <3>6
  <2>. QED
    BY <2>0, <2>3, <2>4, SpentStep
<1>. QED
  BY <1>1, <1>2 DEF SpentInv

\* Nothing is used up at first.
LEMMA SpentInvInit == Init => SpentInv
<1> SUFFICES ASSUME Init
             PROVE  SpentInv
  OBVIOUS
<1>0. TypeInv
  BY TypeInit
<1>1. UnsentIsIdle
  BY EmptyFacts DEF Init, QueueInit, StoreInit, WorkerInit, UnsentIsIdle, Afloat, InQueue
<1>2. ASSUME NEW k \in Keys
      PROVE  Counted(k) /\ Spent(k) <= 1 + Debt
  <2>1. /\ IsFiniteSet(Copies(ready, k)) /\ Cardinality(Copies(ready, k)) = 0
        /\ IsFiniteSet(Copies(retrying, k)) /\ Cardinality(Copies(retrying, k)) = 0
    BY EmptyFacts, NoCopies DEF Init, QueueInit
  <2>2. Busy(k) = {}
    BY DEF Init, QueueInit, WorkerInit, Busy, MayExecute
  <2>3. Counted(k) /\ Spent(k) = 0
    BY <2>1, <2>2, FS_EmptySet DEF Counted, Spent, Init, WorkerInit
  <2>. QED
    BY <2>3, <1>0, CountFacts
<1>. QED
  BY <1>1, <1>2 DEF SpentInv

\* Retries, redeliveries and duplicate requests execute nothing twice: every execution but the
\* first is owed to a fault or to a run that a signal cut off.
THEOREM ExecutionsAreAccountedFor == Spec => []ExecutionsBoundedByFaults
<1>1. TypeInv /\ SpentInv => ExecutionsBoundedByFaults
  <2> SUFFICES ASSUME TypeInv, SpentInv, NEW k \in Keys
               PROVE  ledger[k] <= 1 + faults + interrupted
    BY DEF ExecutionsBoundedByFaults
  <2>1. Counted(k) /\ Spent(k) <= 1 + Debt
    BY DEF SpentInv
  <2>. QED
    BY <2>1, CountFacts DEF Spent, Debt
<1>. QED
  BY <1>1, TypeInit, TypeStep, AcceptInit, AcceptStep, SpentInvInit, SpentInvStep, PTL DEF Spec

-----------------------------------------------------------------------------
(***************************************************************************)
(* A payment that is reported FAILED.  Without faults a payment uses up    *)
(* one execution at most, so a worker that legacy has refused used it up   *)
(* without executing, and nothing is left that could execute the payment   *)
(* behind the FAILED row.                                                  *)
(***************************************************************************)
Refused(k) == status[k] = "FAILED" \/ \E w \in Workers : outcome[w] = "FAILED" /\ Job(w) = k

RefusedInv ==
    /\ stopping \/ interrupted > 0 => faults > 0
    /\ \A c \in Clients : intake[c] = "markFailed" => faults > 0
    /\ faults = 0 => \A k \in Keys : Refused(k) => Spent(k) = 0

\* A fault is never forgotten, and only a process that is stopping interrupts runs.
LEMMA FaultsStay ==
    ASSUME TypeInv, [Next]_vars
    PROVE  /\ faults \in Nat /\ faults' \in Nat /\ faults' >= faults
           /\ interrupted' = interrupted \/ stopping
           /\ stopping' => stopping \/ faults' > 0
<1>0. faults \in Nat
  BY QueueAssumption DEF TypeInv, TypeOK, QueueTypeOK
<1> DEFINE Goal == /\ faults' = faults \/ faults' = faults + 1
                   /\ interrupted' = interrupted \/ stopping
                   /\ stopping' => stopping \/ faults' > 0
<1>1. ASSUME NEW c \in Clients, IntakeStep(c)
      PROVE  Goal
  BY <1>1, IntakeEffects
<1>2. ASSUME NEW w \in Workers, HandlerStep(w)
      PROVE  Goal
  <2>1. faults' = faults \/ Fault
    BY <1>2
       DEF HandlerStep, RunHandler, StartJob, Deliver, WorkerCrash, Crash, JobTimesOut,
           HandleQRISPayment, HandleTransfer, Handle, RecordStarted, ExecutePayment, UpdateRow,
           CacheOutcome, DropBalance, RecordOutcome, Works, Fails
  <2>. QED
    BY <1>2, <2>1 DEF HandlerStep, RunHandler, Fault
<1>3. ASSUME NEW r \in Readers, ReaderStep(r)
      PROVE  Goal
  BY <1>3, ReaderEffects
<1>4. ASSUME Broker \/ \E w \in Workers : Consume(w) \/ Session(w)
      PROVE  Goal
  BY <1>4 DEF Broker, BrokerRestart, RetryExpires, Consume, AckDone, DeadLetter, PublishRetry,
              AckRetried, NackRequeue, SettleOnClosed, Session, ReconnectUnlessStopping, Reconnect,
              SessionLost, LoopEnds, Fault, processVars
<1>5. ASSUME Stop \/ Restart \/ UNCHANGED vars \/ \E k \in Keys : Expiry(k)
      PROVE  Goal
  BY <1>0, <1>5 DEF Stop, Restart, Expiry, Fault, vars, queueVars, processVars
<1>6. Goal
  BY <1>1, <1>2, <1>3, <1>4, <1>5 DEF Next
<1>. QED
  BY <1>0, <1>6

\* Where a worker's outcome comes from: nowhere but from its own call of legacy.
LEMMA OutcomeOrigin ==
    ASSUME TypeInv, [Next]_vars, NEW v \in Workers, outcome'[v] = "FAILED"
    PROVE  \/ outcome[v] = "FAILED" /\ Job(v)' = Job(v)
           \/ HandlerStep(v) /\ stage[v] = "execute" /\ Job(v)' = Job(v)
<1>1. ASSUME NEW w \in Workers, HandlerStep(w)
      PROVE  \/ outcome[v] = "FAILED" /\ Job(v)' = Job(v)
             \/ HandlerStep(v) /\ stage[v] = "execute" /\ Job(v)' = Job(v)
  BY <1>1, HandlerWrites
<1>2. ASSUME Broker \/ \E w \in Workers : Consume(w) \/ Session(w)
      PROVE  outcome[v] = "FAILED" /\ Job(v)' = Job(v)
  <2>1. outcome[v] = "FAILED"
    BY <1>2 DEF Broker, Consume, Session, workerVars
  <2>. QED
    BY <1>2, <2>1, QueueKeepsHandlers DEF TypeInv, TypeOK, WorkerTypeOK, Job
<1>3. ASSUME \/ \E c \in Clients : IntakeStep(c)
             \/ \E r \in Readers : ReaderStep(r)
             \/ Stop \/ Restart \/ UNCHANGED vars \/ \E k \in Keys : Expiry(k)
      PROVE  outcome[v] = "FAILED" /\ Job(v)' = Job(v)
  <2>1. UNCHANGED <<outcome, delivery>>
    BY <1>3, IntakeEffects, ReaderEffects
       DEF Stop, Restart, Expiry, vars, queueVars, queueRest, workerVars
  <2>. QED
    BY <2>1 DEF Job
<1>. QED
  BY <1>1, <1>2, <1>3 DEF Next

\* A refusal uses an execution up: the worker may not execute any more and has not.
LEMMA RefusalSpends ==
    ASSUME TypeInv, NEW w \in Workers, HandlerStep(w), stage[w] = "execute",
           outcome'[w] = "FAILED", UNCHANGED faults, NEW k \in Keys, Job(w) = k, Counted(k)
    PROVE  Spent(k)' = Spent(k) - 1
<1>0. /\ QueueTypeOK /\ stage \in [Workers -> Stages] /\ consumer[w] = "handling"
      /\ outcome \in [Workers -> {"none"} \cup Settled] /\ faults \in Nat
  BY QueueAssumption DEF TypeInv, TypeOK, WorkerTypeOK, QueueTypeOK
<1>1. ExecutePayment(w)
  <2>1. ~ StartJob(w) /\ ~ WorkerCrash(w) /\ ~ CancelHandler(w)
    BY <1>0 DEF StartJob, Deliver, WorkerCrash, CancelHandler, HandlerReturns, Vacate
  <2>. QED
    BY <2>1, HandlerCases
       DEF Handle, RecordStarted, UpdateRow, CacheOutcome, DropBalance, RecordOutcome
<1>2. /\ UNCHANGED <<ready, retrying, delivery, consumer>>
      /\ stage' = [stage EXCEPT ![w] = "update"]
  BY <1>1 DEF ExecutePayment, Proceed, queueRest
<1>3. UNCHANGED ledger
  <2>1. PICK result \in DoneResults \cup RefusedResults("OTHER") :
           /\ \/ result \in DoneResults /\ Executes(w)
              \/ result \in RefusedResults("OTHER") /\ UNCHANGED ledger
           /\ outcome' = [outcome EXCEPT ![w] = Outcome(result)]
           /\ IF result = "error" THEN Fault ELSE UNCHANGED faults
    BY <1>1 DEF ExecutePayment
  <2>2. result # "ok"
    BY <1>0, <2>1 DEF Outcome
  <2>3. result # "error"
    BY <1>0, <2>1 DEF Fault
  <2>. QED
    BY <2>1, <2>2, <2>3, LegacyFacts
<1>4. /\ \A v \in Workers : v # w => (v \in Busy(k)' <=> v \in Busy(k))
      /\ w \in Busy(k) /\ w \notin Busy(k)'
  BY <1>0, <1>2 DEF Busy, MayExecute, Job
<1>5. Cardinality(Busy(k)') = Cardinality(Busy(k)) - 1
  BY <1>4, BusyMoves DEF Counted
<1>. QED
  BY <1>2, <1>3, <1>5, CountFacts DEF Spent

\* Every step keeps a refused payment without an execution, short of a fault.
LEMMA RefusedStep ==
    TypeInv /\ AcceptInv /\ SpentInv /\ RefusedInv /\ [Next]_vars => RefusedInv'
<1> SUFFICES ASSUME TypeInv, AcceptInv, SpentInv, RefusedInv, [Next]_vars
             PROVE  RefusedInv'
  OBVIOUS
<1>0. /\ faults \in Nat /\ faults' \in Nat /\ faults' >= faults
      /\ interrupted \in Nat
      /\ faults > 0 => faults' > 0
  BY FaultsStay DEF TypeInv, TypeOK
<1>1. (stopping \/ interrupted > 0 => faults > 0)'
  BY <1>0, FaultsStay DEF RefusedInv
<1>2. ASSUME NEW c \in Clients, intake'[c] = "markFailed"
      PROVE  faults' > 0
  <2>1. CASE intake[c] = "markFailed"
    BY <1>0, <2>1 DEF RefusedInv
  <2>2. CASE intake[c] # "markFailed"
    <3>1. ~ IntakeUntouched
      BY <1>2, <2>2 DEF IntakeUntouched, intakeVars
    <3>2. ~ Restart
      BY <1>2 DEF Restart, CutOff, Answers
    <3>3. PICK d \in Clients : IntakeStep(d)
      BY <3>1, <3>2, OutsideIntake
    <3>4. d = c
      BY <1>2, <2>2, <3>3, IntakeMoves DEF SameHandler
    <3>. QED
      BY <1>0, <1>2, <2>2, <3>3, <3>4, IntakeControl DEF CreatorMoves, Creator, Creating
  <2>. QED
    BY <2>1, <2>2
<1>3. ASSUME faults' = 0, NEW k \in Keys, Refused(k)'
      PROVE  Spent(k)' = 0
  <2>0. /\ faults = 0 /\ interrupted = 0 /\ interrupted' = 0 /\ Debt = 0 /\ Debt' = 0
        /\ Counted(k) /\ Spent(k) \in Nat /\ Spent(k) <= 1
    <3>1. faults = 0 /\ interrupted = 0 /\ interrupted' = 0
      BY <1>0, <1>3, FaultsStay DEF RefusedInv
    <3>2. Debt = 0 /\ Debt' = 0
      BY <1>3, <3>1 DEF Debt
    <3>. QED
      BY <3>1, <3>2, CountFacts DEF SpentInv
  <2>1. Spent(k)' \in Nat
    <3>1. SpentInv' /\ TypeInv'
      BY SpentInvStep, TypeStep
    <3>. QED
      BY <3>1, FS_CardinalityType DEF SpentInv, Counted, Spent, TypeInv, TypeOK, WorkerTypeOK
  <2>2. CASE Refused(k)
    <3>1. Spent(k) = 0
      BY <2>0, <2>2 DEF RefusedInv
    <3>2. ~ Unsent(k)
      BY <2>2 DEF SpentInv, UnsentIsIdle, Refused, Afloat, TypeInv, TypeOK, WorkerTypeOK
    <3>3. PaidFor(k)
      BY <2>0, <3>2, SpentStep DEF Unsent
    <3>. QED
      BY <2>0, <2>1, <3>1, <3>3 DEF PaidFor
  <2>3. CASE ~ Refused(k)
    <3>1. status'[k] # "FAILED"
      <4>0. status \in [Keys -> RowStatus]
        BY DEF TypeInv, TypeOK, StoreTypeOK
      <4>1. ASSUME NEW c \in Clients, IntakeStep(c)
            PROVE  status'[k] # "FAILED"
        BY <2>0, <2>3, <4>0, <4>1, IntakeEffects DEF RefusedInv, Refused, InsertRow
      <4>2. ASSUME NEW w \in Workers, HandlerStep(w)
            PROVE  status'[k] # "FAILED"
        BY <2>3, <4>0, <4>2, HandlerWrites DEF Refused
      <4>3. ASSUME NEW r \in Readers, ReaderStep(r)
            PROVE  status'[k] # "FAILED"
        BY <2>3, <4>3, ReaderEffects DEF Refused
      <4>4. ASSUME \/ Broker \/ Stop \/ Restart \/ UNCHANGED vars
                   \/ \E w \in Workers : Consume(w) \/ Session(w)
                   \/ \E j \in Keys : Expiry(j)
            PROVE  status'[k] # "FAILED"
        BY <2>3, <4>4
           DEF Refused, Broker, Stop, Restart, Consume, Session, Expiry, CacheExpires,
               SetTransactionStatus, vars, storeVars
      <4>. QED
        BY <4>1, <4>2, <4>3, <4>4 DEF Next
    <3>2. PICK w \in Workers : outcome'[w] = "FAILED" /\ Job(w)' = k
      BY <1>3, <3>1 DEF Refused
    <3>3. HandlerStep(w) /\ stage[w] = "execute" /\ Job(w) = k
      BY <2>3, <3>2, OutcomeOrigin DEF Refused
    <3>4. Spent(k)' = Spent(k) - 1
      BY <1>3, <2>0, <3>2, <3>3, RefusalSpends
    <3>. QED
      BY <2>0, <2>1, <3>4
  <2>. QED
    BY <2>2, <2>3
<1>. QED
  BY <1>1, <1>2, <1>3 DEF RefusedInv

\* Nothing is refused at first.
LEMMA RefusedInit == Init => RefusedInv
BY DEF Init, StoreInit, WorkerInit, IntakeInit, RefusedInv, Refused

\* Without faults the worker's FAILED means what it says: the payment has not been executed,
\* by this run of the handler or by another.
THEOREM FailedWithoutFaultIsUnpaid == Spec => []FailedNotPaidWithoutFault
<1>1. TypeInv /\ SpentInv /\ RefusedInv => FailedNotPaidWithoutFault
  <2> SUFFICES ASSUME TypeInv, SpentInv, RefusedInv, faults = 0, NEW k \in Keys, status[k] = "FAILED"
               PROVE  ledger[k] = 0
    BY DEF FailedNotPaidWithoutFault
  <2>1. Spent(k) = 0 /\ Counted(k)
    BY DEF RefusedInv, Refused, SpentInv
  <2>. QED
    BY <2>1, CountFacts DEF Spent
<1>. QED
  BY <1>1, TypeInit, TypeStep, AcceptInit, AcceptStep, SpentInvInit, SpentInvStep, RefusedInit,
     RefusedStep, PTL DEF Spec
=============================================================================
