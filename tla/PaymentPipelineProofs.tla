------------------------ MODULE PaymentPipelineProofs ------------------------
(***************************************************************************)
(* Proofs about PaymentPipeline, for any clients, requests, workers,       *)
(* readers, retry limit and bounds on faults: types, what is accepted      *)
(* under a key, the merchants payments name, and the contract.             *)
(***************************************************************************)
EXTENDS PaymentPipeline, WorkQueueFacts

\* A call the legacy bank carried out is reported as done or as an error; one it refused is
\* never reported as done.
LEMMA LegacyFacts ==
    /\ DoneResults \subseteq {"ok", "error"}
    /\ \A code \in Refusals : RefusedResults(code) \subseteq {code, "error"}
BY DEF DoneResults, RefusedResults, Result, callAndRequireOK, callOperation, Reply, Wire, Refusals

\* A request has a key, and a QRIS request names a merchant by a reference that legacy maps
\* to a code or does not know; a reference that may be found in the table has a code.
LEMMA RequestFacts ==
    ASSUME NEW r \in Requests
    PROVE  /\ r.key \in Keys
           /\ r.kind \in {"qris", "transfer"}
           /\ r.kind = "qris" => CodeOf[r.target] \in Codes \cup {Unknown}
           /\ r.kind = "qris" /\ (r.target \in ById \/ r.target \in Codes) =>
                 CodeOf[r.target] \in Codes
<1>1. /\ r.key \in Keys /\ r.kind \in {"qris", "transfer"}
      /\ r.kind = "qris" => r.target \in DOMAIN CodeOf
  BY RequestAssumption, CatalogueAssumption
<1>2. ASSUME NEW ref \in DOMAIN CodeOf
      PROVE  /\ CodeOf[ref] \in Codes \cup {Unknown}
             /\ ref \in ById \/ ref \in Codes => CodeOf[ref] \in Codes
  BY CatalogueAssumption DEF Codes
<1>. QED
  BY <1>1, <1>2

-----------------------------------------------------------------------------
(***************************************************************************)
(* Whoever has got hold of a key in the queue, in a handler, in a replay   *)
(* or in a status request got it from a row: types depend on it, because   *)
(* an update of a row that is not there would invent one.                  *)
(***************************************************************************)
QueuedExist ==
    \A m \in Msg : ready[m] > 0 \/ retrying[m] > 0 => status[m.job] # "absent"

HandledExist ==
    \A w \in Workers : consumer[w] # "waiting" => status[Job(w)] # "absent"

\* Where a handler can be only once its key has a row.
Found == Creating \cup {"created", "aborted", "replayed", "conflict", "compare", "events"}

AcceptedExist ==
    \A c \in Clients :
        /\ intake[c] \in Found \/ c \in replaying => status[Key(c)] # "absent"
        /\ c \in replaying => intake[c] # "idle"

AskedExist ==
    \A r \in Readers : reader[r].step # "idle" => status[reader[r].key] # "absent"

\* A merchant is inserted or reloaded only after legacy has returned its code.
KnownCode ==
    \A c \in Clients :
        intake[c] \in {"createMerchant", "reloadMerchant"} =>
            request[c].kind = "qris" /\ Code(c) \in Codes

TypeInv ==
    TypeOK /\ QueuedExist /\ HandledExist /\ AcceptedExist /\ AskedExist /\ KnownCode

\* No row disappears.
RowsStay == \A k \in Keys : status[k] # "absent" => status'[k] # "absent"

\* A step that leaves the queue, the workers and the readers alone keeps the types if it keeps
\* those of the tables and of the handlers, and every row.
LEMMA IntakeFrame ==
    ASSUME TypeInv,
           UNCHANGED <<queueRest, workerVars, reader, processVars>>,
           faults' \in 0..MaxFaults,
           RowsStay,
           (StoreTypeOK /\ IntakeTypeOK /\ AcceptedExist /\ KnownCode)'
    PROVE  TypeInv'
<1>1. (QueueTypeOK /\ WorkerTypeOK /\ ReaderTypeOK)' /\ stopping' \in BOOLEAN /\ interrupted' \in Nat
  BY DEF TypeInv, TypeOK, QueueTypeOK, WorkerTypeOK, ReaderTypeOK, queueRest, workerVars, processVars
<1>2. (QueuedExist /\ HandledExist /\ AskedExist)'
  <2>1. \A m \in Msg : m.job \in Keys
    BY RetryFacts DEF Keys
  <2>2. \A w \in Workers : consumer[w] # "waiting" => Job(w) \in Keys
    BY <2>1, HoldsMessage DEF TypeInv, TypeOK, Job
  <2>3. \A r \in Readers : reader[r].key \in Keys
    BY DEF TypeInv, TypeOK, ReaderTypeOK, Reading
  <2>. QED
    BY <2>1, <2>2, <2>3
       DEF TypeInv, QueuedExist, HandledExist, AskedExist, RowsStay, queueRest, Job
<1>. QED
  BY <1>1, <1>2 DEF TypeInv, TypeOK

\* A step of CreateTransaction, its client's first request and its end included, keeps the
\* types: what it takes from the merchants table is there, and what it writes names a row.
LEMMA TypeStepIntake ==
    ASSUME TypeInv, NEW c \in Clients, IntakeStep(c)
    PROVE  TypeInv'
<1>0. UNCHANGED <<workerVars, reader, processVars>>
  BY DEF IntakeStep
<1> DEFINE Kept == /\ faults' \in 0..MaxFaults
                   /\ UNCHANGED queueRest
                   /\ RowsStay
                   /\ (StoreTypeOK /\ IntakeTypeOK /\ AcceptedExist /\ KnownCode)'
<1>a. Kept => TypeInv'
  BY <1>0, IntakeFrame
<1> USE QueueAssumption, CatalogueAssumption
        DEF TypeInv, TypeOK, QueueTypeOK, StoreTypeOK, IntakeTypeOK, CatalogueTypeOK,
            AcceptedExist, KnownCode, RowsStay,
            Keys, Key, Code, Found, Creating, Answers, IntakeStates, RowStatus, Settled,
            CachedStatus, EventTypes, catalogueVars,
            storeVars, Unwritten, Reads, Writes, Works, Fails, Fault, Goto
<1>1. ASSUME NEW r \in Requests, Submit(c, r)
      PROVE  Kept
  BY <1>1, RequestAssumption DEF Submit
<1>2. ASSUME IntakeCrash(c)
      PROVE  Kept
  BY <1>2 DEF IntakeCrash, CutOff, AfterInsert
<1> DEFINE qris == request[c].kind = "qris"
<1>3. ASSUME CreateTransaction(c), ~ PublishJob(c)
      PROVE  Kept
  <2>0. request[c] \in Requests /\ Key(c) \in Keys
    BY <1>3, RequestFacts DEF CreateTransaction, QRISCreateTransaction, TransferCreateTransaction
  <2>1. CASE Lookup(c)
    BY <2>0, <2>1 DEF Lookup
  <2>2. CASE qris /\ FindMerchant(c)
    BY <2>0, <2>2, RequestFacts DEF FindMerchant, Resolved, Catalogued
  <2>3. CASE qris /\ GetQrisMerchant(c)
    <3>1. "ok" \notin RefusedResults("NOT_FOUND")
      BY LegacyFacts DEF Refusals
    <3>. QED
      BY <2>0, <2>3, <3>1, RequestFacts DEF GetQrisMerchant
  <2>4. CASE qris /\ CreateMerchant(c)
    BY <2>0, <2>4 DEF CreateMerchant, InsertMerchant, Resolved
  <2>5. CASE qris /\ ReloadMerchant(c)
    BY <2>0, <2>5 DEF ReloadMerchant, Resolved
  <2>6. CASE CompareTransfer(c) \/ CompareEvents(c) \/ Resolve(c)
    BY <2>0, <2>6 DEF CompareTransfer, CompareEvents, Resolve
  <2>7. CASE Insert(c)
    <3> USE <2>0, <2>7 DEF Insert, InsertTransaction, InsertRow, AfterInsert, NoInsert
    <3>1. faults' \in 0..MaxFaults /\ UNCHANGED queueRest /\ RowsStay
      OBVIOUS
    <3>2. StoreTypeOK'
      BY RequestAssumption
    <3>3. IntakeTypeOK'
      OBVIOUS
    <3>4. (AcceptedExist /\ KnownCode)'
      BY RequestFacts
    <3>. QED
      BY <3>1, <3>2, <3>3, <3>4
  <2>8. CASE RecordCreated(c) \/ RecordEnqueued(c) \/ RecordQueueError(c)
    BY <2>0, <2>8 DEF RecordCreated, RecordEnqueued, RecordQueueError, CreateTransactionEvent
  <2>9. CASE CacheProcessing(c) \/ CachePublishFailed(c)
    BY <2>0, <2>9 DEF CacheProcessing, CachePublishFailed, SetTransactionStatus
  <2>10. CASE MarkPublishFailed(c)
    <3> USE <2>0, <2>10 DEF MarkPublishFailed, UpdateTransactionStatus
    <3>1. faults' \in 0..MaxFaults /\ UNCHANGED queueRest /\ RowsStay /\ StoreTypeOK'
      OBVIOUS
    <3>2. IntakeTypeOK'
      OBVIOUS
    <3>3. (AcceptedExist /\ KnownCode)'
      BY <3>1, RequestFacts
    <3>. QED
      BY <3>1, <3>2, <3>3
  <2>. QED
    BY <1>3, <2>1, <2>2, <2>3, <2>4, <2>5, <2>6, <2>7, <2>8, <2>9, <2>10
       DEF CreateTransaction, QRISCreateTransaction, TransferCreateTransaction, ResolveMerchant,
           Accept
<1>4. ASSUME PublishJob(c), request[c] \in Requests
      PROVE  TypeInv'
  <2> DEFINE fresh == [job |-> Key(c), retries |-> 0]
  <2>1. fresh \in Msg /\ fresh.job = Key(c) /\ Key(c) \in Keys
    BY <1>4, RequestFacts, FreshFacts
  <2>2. CASE Enqueue(Key(c))
    <3> USE <1>0, <1>4, <2>1, <2>2 DEF PublishJob, Enqueue
    <3>1. ready' \in [Msg -> Nat] /\ \A m \in Msg : ready'[m] > 0 => m = fresh \/ ready[m] > 0
      BY PutFacts
    <3>2. QueueTypeOK'
      BY <3>1
    <3>3. (StoreTypeOK /\ IntakeTypeOK /\ AcceptedExist /\ KnownCode)'
      OBVIOUS
    <3>4. (WorkerTypeOK /\ ReaderTypeOK)' /\ stopping' \in BOOLEAN /\ interrupted' \in Nat
      BY DEF WorkerTypeOK, ReaderTypeOK, workerVars, processVars
    <3>5. (QueuedExist /\ HandledExist /\ AskedExist)'
      BY <3>1 DEF QueuedExist, HandledExist, AskedExist, Job
    <3>. QED
      BY <3>2, <3>3, <3>4, <3>5
  <2>3. CASE UNCHANGED queueRest
    <3>1. Kept
      BY <1>4, <2>1, <2>3 DEF PublishJob, Enqueue
    <3>. QED
      BY <3>1, <1>a
  <2>. QED
    BY <1>4, <2>2, <2>3 DEF PublishJob
<1>. QED
  BY <1>a, <1>1, <1>2, <1>3, <1>4
     DEF IntakeStep, CreateTransaction, QRISCreateTransaction, TransferCreateTransaction

\* A step that leaves the handlers and the readers alone keeps the types if it keeps those of
\* the queue, of the tables and of the workers, every row, and takes up no unknown key.
LEMMA WorkerFrame ==
    ASSUME TypeInv,
           UNCHANGED <<intakeVars, reader, stopping>>,
           interrupted' \in Nat,
           RowsStay,
           (QueueTypeOK /\ StoreTypeOK /\ WorkerTypeOK /\ QueuedExist /\ HandledExist)'
    PROVE  TypeInv'
<1>1. (IntakeTypeOK /\ ReaderTypeOK /\ KnownCode)' /\ stopping' \in BOOLEAN
  BY DEF TypeInv, TypeOK, IntakeTypeOK, ReaderTypeOK, KnownCode, CatalogueTypeOK, Code,
         intakeVars, catalogueVars
<1>2. (AcceptedExist /\ AskedExist)'
  <2>1. \A c \in Clients : intake[c] # "idle" => Key(c) \in Keys
    BY RequestFacts DEF TypeInv, TypeOK, IntakeTypeOK, Key
  <2>2. \A r \in Readers : reader[r].key \in Keys
    BY DEF TypeInv, TypeOK, ReaderTypeOK, Reading
  <2>. QED
    BY <2>1, <2>2
       DEF TypeInv, AcceptedExist, AskedExist, RowsStay, intakeVars, Key, Found, Creating
<1>. QED
  BY <1>1, <1>2 DEF TypeInv, TypeOK

\* What a worker's handler may do: both job kinds run the same steps, and are cancelled the
\* same way by a signal and by their deadline.
LEMMA HandlerCases ==
    ASSUME NEW w \in Workers, HandlerStep(w)
    PROVE  \/ StartJob(w)
           \/ WorkerCrash(w)
           \/ /\ stage[w] # "idle"
              /\ Handle(w) \/ (CancelHandler(w) /\ (UNCHANGED faults \/ Fault))
<1>1. CancelHandler(w) => stage[w] # "idle"
  BY DEF CancelHandler
<1>. QED
  BY <1>1 DEF HandlerStep, RunHandler, HandleQRISPayment, HandleTransfer, JobTimesOut

\* A step of a worker's handler keeps the types: it writes the row of the delivery it runs
\* on, and only what legacy has come to.
LEMMA TypeStepHandler ==
    ASSUME TypeInv, NEW w \in Workers, HandlerStep(w)
    PROVE  TypeInv'
<1>0. UNCHANGED <<intakeVars, reader, stopping>>
  BY DEF HandlerStep
<1> DEFINE Kept ==
      RowsStay /\ (QueueTypeOK /\ StoreTypeOK /\ WorkerTypeOK /\ QueuedExist /\ HandledExist)'
<1> USE QueueAssumption
        DEF TypeInv, TypeOK, QueueTypeOK, StoreTypeOK, WorkerTypeOK, QueuedExist, HandledExist,
            RowsStay, Keys, Job, ConsumerStates, Stages, RowStatus, CachedStatus, Settled,
            EventTypes, storeVars, Unwritten, Works, Fails, Fault
<1>1. ASSUME StartJob(w)
      PROVE  Kept
  <2>1. PICK m \in Msg : /\ ready[m] > 0
                         /\ ready' = Take(ready, m)
                         /\ delivery' = [delivery EXCEPT ![w] = m]
    BY <1>1 DEF StartJob, Deliver
  <2>2. ready' \in [Msg -> Nat] /\ \A n \in Msg : ready'[n] > 0 => ready[n] > 0
    BY <2>1, TakeFacts
  <2>. QED
    BY <1>1, <2>1, <2>2 DEF StartJob, Deliver
<1>2. ASSUME WorkerCrash(w)
      PROVE  Kept
  <2>1. ready' \in [Msg -> Nat] /\ QueuedExist'
    BY <1>2, HoldsMessage, PutFacts DEF WorkerCrash, Crash, Requeued
  <2>. QED
    BY <1>2, <2>1 DEF WorkerCrash, Crash, Vacate
<1>3. ASSUME Handle(w) \/ (CancelHandler(w) /\ (UNCHANGED faults \/ Fault)), stage[w] # "idle"
      PROVE  Kept
  <2>0. Job(w) \in Keys /\ status[Job(w)] # "absent"
    BY <1>3, HoldsMessage, RetryFacts
  <2> USE <1>3, <2>0 DEF queueRest, Proceed, HandlerReturns, Return, Vacate
  <2>1. CASE RecordStarted(w)
    BY <2>1 DEF RecordStarted, CreateTransactionEvent
  <2>2. CASE ExecutePayment(w)
    BY <2>2 DEF ExecutePayment, Executes, Outcome
  <2>3. CASE UpdateRow(w)
    <3> USE <2>3 DEF UpdateRow, UpdateTransactionStatus
    <3>1. RowsStay /\ StoreTypeOK'
      OBVIOUS
    <3>2. QueueTypeOK' /\ WorkerTypeOK'
      OBVIOUS
    <3>3. QueuedExist' /\ HandledExist'
      BY <3>1, RetryFacts, HoldsMessage
    <3>. QED
      BY <3>1, <3>2, <3>3
  <2>4. CASE CacheOutcome(w)
    BY <2>4 DEF CacheOutcome, SetTransactionStatus
  <2>5. CASE DropBalance(w)
    BY <2>5 DEF DropBalance
  <2>6. CASE RecordOutcome(w)
    BY <2>6 DEF RecordOutcome, CreateTransactionEvent, FinalEvent
  <2>7. CASE CancelHandler(w) /\ (UNCHANGED faults \/ Fault)
    <3> USE <2>7 DEF CancelHandler
    <3>1. RowsStay /\ StoreTypeOK'
      BY DEF CreateTransactionEvent, UpdateTransactionStatus, SetTransactionStatus, FinalEvent
    <3>2. ledger' \in [Keys -> Nat]
      BY DEF Executes
    <3>3. QueueTypeOK' /\ WorkerTypeOK'
      BY <3>2
    <3>4. QueuedExist' /\ HandledExist'
      BY <3>1, RetryFacts, HoldsMessage
    <3>. QED
      BY <3>1, <3>3, <3>4
  <2>. QED
    BY <2>1, <2>2, <2>3, <2>4, <2>5, <2>6, <2>7 DEF Handle
<1>4. interrupted' \in Nat
  BY DEF HandlerStep, RunHandler
<1>. QED
  BY <1>0, <1>1, <1>2, <1>3, <1>4, HandlerCases, WorkerFrame

\* A step of the consumer loops or of the broker keeps the types: messages move between the
\* queues and the workers with the key they were published with.
LEMMA TypeStepQueue ==
    ASSUME TypeInv, Broker \/ \E w \in Workers : Consume(w) \/ Session(w)
    PROVE  TypeInv'
<1>0. UNCHANGED <<storeVars, intakeVars, workerVars, reader, processVars>>
  BY DEF Broker, Consume, Session
<1> DEFINE Kept == (QueueTypeOK /\ WorkerTypeOK /\ QueuedExist /\ HandledExist)'
<1>a. Kept => TypeInv'
  <2>1. StoreTypeOK' /\ RowsStay /\ interrupted' \in Nat
    BY <1>0 DEF TypeInv, TypeOK, StoreTypeOK, RowsStay, storeVars, processVars
  <2>2. UNCHANGED <<intakeVars, reader, stopping>>
    BY <1>0 DEF processVars
  <2>. QED
    BY <2>1, <2>2, WorkerFrame
<1> USE <1>0, QueueAssumption
        DEF TypeInv, TypeOK, QueueTypeOK, WorkerTypeOK, QueuedExist, HandledExist, Job,
            ConsumerStates, storeVars, workerVars, Fault, Finish
<1>1. ASSUME NEW w \in Workers, Consume(w)
      PROVE  Kept
  <2>1. CASE AckDone(w)
    BY <2>1 DEF AckDone
  <2>2. CASE DeadLetter(w)
    BY <2>2, HoldsMessage, PutFacts DEF DeadLetter
  <2>3. CASE PublishRetry(w)
    BY <2>3, HoldsMessage, RetryFacts, PutFacts DEF PublishRetry
  <2>4. CASE AckRetried(w)
    BY <2>4 DEF AckRetried
  <2>5. CASE NackRequeue(w)
    BY <2>5, HoldsMessage, PutFacts DEF NackRequeue
  <2>6. CASE SettleOnClosed(w)
    BY <2>6, RequestAssumption DEF SettleOnClosed
  <2>. QED
    BY <1>1, <2>1, <2>2, <2>3, <2>4, <2>5, <2>6 DEF Consume
<1>2. ASSUME NEW w \in Workers, Session(w)
      PROVE  Kept
  <2>1. CASE Reconnect(w)
    BY <2>1 DEF Reconnect
  <2>2. CASE LoopEnds(w)
    BY <2>2 DEF LoopEnds
  <2>3. CASE SessionLost(w)
    BY <2>3, HoldsMessage, PutFacts DEF SessionLost, Requeued
  <2>. QED
    BY <1>2, <2>1, <2>2, <2>3 DEF Session, ReconnectUnlessStopping
<1>3. ASSUME NEW m \in Msg, RetryExpires(m)
      PROVE  Kept
  BY <1>3, TakeFacts, PutFacts DEF RetryExpires
<1>4. ASSUME BrokerRestart
      PROVE  Kept
  BY <1>4, EmptyFacts DEF BrokerRestart
<1>. QED
  BY <1>a, <1>1, <1>2, <1>3, <1>4 DEF Broker

\* A status request keeps the types: what it has seen, and writes to the cache, is the status
\* of a row that is there.
LEMMA TypeStepReader ==
    ASSUME TypeInv, NEW r \in Readers, ReaderStep(r)
    PROVE  TypeInv'
<1>0. UNCHANGED <<intakeVars, workerVars, processVars>>
  BY DEF ReaderStep
<1> DEFINE Kept == /\ UNCHANGED <<queueRest, body, status>>
                   /\ faults' \in 0..MaxFaults
                   /\ (StoreTypeOK /\ ReaderTypeOK /\ AskedExist)'
<1>a. Kept => TypeInv'
  <2>1. Kept => (QueueTypeOK /\ IntakeTypeOK /\ WorkerTypeOK)'
                /\ stopping' \in BOOLEAN /\ interrupted' \in Nat
    BY <1>0 DEF TypeInv, TypeOK, QueueTypeOK, IntakeTypeOK, CatalogueTypeOK, WorkerTypeOK,
                intakeVars, catalogueVars, workerVars, processVars, queueRest
  <2>2. Kept => (QueuedExist /\ HandledExist /\ AcceptedExist /\ KnownCode)'
    BY <1>0 DEF TypeInv, QueuedExist, HandledExist, AcceptedExist, KnownCode, Key, Code, Job,
                intakeVars, queueRest
  <2>. QED
    BY <2>1, <2>2 DEF TypeInv, TypeOK
<1>f. (faults \in 0..MaxFaults) /\ (Fault => faults' \in 0..MaxFaults)
  BY QueueAssumption DEF TypeInv, TypeOK, QueueTypeOK, Fault
<1>t. /\ reader \in [Readers -> Reading] /\ reader[r].key \in Keys
      /\ reader[r].seen \in CachedStatus
      /\ \A q \in Readers : reader[q].step # "idle" => status[reader[q].key] # "absent"
      /\ \A k \in Keys : cached[k] \in CachedStatus
      /\ \A k \in Keys : status[k] # "absent" => status[k] \in CachedStatus
  BY DEF TypeInv, TypeOK, ReaderTypeOK, StoreTypeOK, Reading, AskedExist, RowStatus, CachedStatus
<1> DEFINE Moves == /\ reader' \in [Readers -> Reading]
                    /\ \A q \in Readers \ {r} : reader'[q] = reader[q]
                    /\ reader'[r].step # "idle" => status[reader'[r].key] # "absent"
<1>b. ASSUME Moves, UNCHANGED status
      PROVE  (ReaderTypeOK /\ AskedExist)'
  BY <1>b, <1>t DEF ReaderTypeOK, AskedExist
<1>c. ASSUME Moves, Unwritten, UNCHANGED queueRest, faults' \in 0..MaxFaults
      PROVE  Kept
  <2>1. StoreTypeOK' /\ UNCHANGED <<queueRest, body, status>>
    BY <1>c DEF Unwritten, storeVars, TypeInv, TypeOK, StoreTypeOK
  <2>. QED
    BY <1>b, <1>c, <2>1
<1>1. ASSUME NEW k \in Keys, Ask(r, k) \/ GetDetail(r, k)
      PROVE  Kept
  <2>1. Moves
    <3>1. CASE Ask(r, k)
      BY <3>1, <1>t DEF Ask, Reading
    <3>2. CASE GetDetail(r, k)
      BY <3>2, <1>t DEF GetDetail, Reading, CachedStatus
    <3>. QED
      BY <1>1, <3>1, <3>2
  <2>2. Unwritten /\ UNCHANGED queueRest /\ faults' \in 0..MaxFaults
    BY <1>1, <1>f DEF Ask, GetDetail
  <2>. QED
    BY <1>c, <2>1, <2>2
<1>2. ASSUME ReadCache(r) \/ ReadRow(r)
      PROVE  Kept
  <2>1. Moves
    BY <1>2, <1>t DEF ReadCache, ReadRow, Works, Sees, Reading, CachedStatus, Settled
  <2>2. Unwritten /\ UNCHANGED queueRest /\ faults' \in 0..MaxFaults
    BY <1>2, <1>f DEF ReadCache, ReadRow, Works, Sees
  <2>. QED
    BY <1>c, <2>1, <2>2
<1>3. ASSUME FillCache(r)
      PROVE  Kept
  <2>1. Moves
    BY <1>3, <1>t DEF FillCache, Reading, CachedStatus, Settled
  <2>2. UNCHANGED <<queueRest, body, status>>
    BY <1>3 DEF FillCache, Works, Fails, Unwritten, SetTransactionStatus, storeVars
  <2>3. faults' \in 0..MaxFaults
    BY <1>3, <1>f DEF FillCache, Works, Fails
  <2>4. StoreTypeOK'
    BY <1>3, <1>t DEF FillCache, SetTransactionStatus, TypeInv, TypeOK, StoreTypeOK, Works, Fails,
                      Unwritten, storeVars
  <2>. QED
    BY <1>b, <2>1, <2>2, <2>3, <2>4
<1>. QED
  BY <1>a, <1>1, <1>2, <1>3 DEF ReaderStep, GetStatus

\* Every step keeps the types.
LEMMA TypeStep == TypeInv /\ [Next]_vars => TypeInv'
<1> SUFFICES ASSUME TypeInv, [Next]_vars
             PROVE  TypeInv'
  OBVIOUS
<1> USE DEF TypeInv, TypeOK, QueueTypeOK, StoreTypeOK, IntakeTypeOK, CatalogueTypeOK,
            WorkerTypeOK, ReaderTypeOK, QueuedExist, HandledExist, AcceptedExist, AskedExist,
            KnownCode, Key, Code, Job, intakeVars, catalogueVars, workerVars, processVars,
            queueVars, queueRest, storeVars
<1>1. ASSUME NEW k \in Keys, Expiry(k)
      PROVE  TypeInv'
  BY <1>1 DEF Expiry, CacheExpires, SetTransactionStatus, CachedStatus
<1>2. CASE Stop
  <2>1. QueueTypeOK'
    BY <1>2, QueueAssumption DEF Stop, Fault
  <2>2. (StoreTypeOK /\ IntakeTypeOK /\ WorkerTypeOK /\ ReaderTypeOK)'
        /\ stopping' \in BOOLEAN /\ interrupted' \in Nat
    BY <1>2 DEF Stop
  <2>. QED
    BY <1>2, <2>1, <2>2 DEF Stop
<1>3. CASE Restart
  BY <1>3 DEF Restart, CutOff, Found, IntakeStates, Creating, Answers
<1>4. CASE UNCHANGED vars
  BY <1>4 DEF vars
<1>. QED
  BY <1>1, <1>2, <1>3, <1>4, TypeStepIntake, TypeStepHandler, TypeStepQueue, TypeStepReader
     DEF Next

\* Init has the right types.
LEMMA TypeInit == Init => TypeInv
<1> SUFFICES ASSUME Init
             PROVE  TypeInv
  OBVIOUS
<1>1. QueueTypeOK /\ QueuedExist /\ HandledExist
  BY QueueAssumption, EmptyFacts
     DEF Init, QueueInit, QueueTypeOK, ConsumerStates, QueuedExist, HandledExist
<1>2. StoreTypeOK
  BY RequestAssumption DEF Init, StoreInit, StoreTypeOK, RowStatus, CachedStatus
<1>3. IntakeTypeOK /\ AcceptedExist /\ KnownCode
  BY DEF Init, IntakeInit, CatalogueInit, IntakeTypeOK, CatalogueTypeOK, IntakeStates,
         AcceptedExist, KnownCode, Found, Creating
<1>4. WorkerTypeOK
  BY DEF Init, QueueInit, WorkerInit, WorkerTypeOK, Stages
<1>5. ReaderTypeOK /\ AskedExist
  BY DEF Init, ReaderInit, ReaderTypeOK, AskedExist, Reading
<1>. QED
  BY <1>1, <1>2, <1>3, <1>4, <1>5 DEF Init, TypeInv, TypeOK

\* In every interleaving of handlers, workers, readers, broker and faults, tables, cache,
\* queues and counters keep their types, a row has a status exactly when it has a request, and
\* a handler runs exactly while its consumer loop waits for it.
THEOREM TypeCorrect == Spec => []TypeOK
<1>1. TypeInv => TypeOK
  BY DEF TypeInv
<1>. QED
  BY <1>1, TypeInit, TypeStep, PTL DEF Spec

-----------------------------------------------------------------------------
(***************************************************************************)
(* What is accepted under a key.  AcceptedAsStored and the two statements  *)
(* about merchants only hold together, with what a handler knows at each   *)
(* step: a creator's own request is the one stored, a row of the merchants *)
(* table was inserted for its own code, so that no two codes share a row,  *)
(* and a handler about to insert has the merchant of its request in hand.  *)
(***************************************************************************)
CatalogueHonest ==
    \A a \in Codes : merchants[a] # NoMerchant =>
        /\ intake[merchants[a]] # "idle"
        /\ request[merchants[a]].kind = "qris"
        /\ Code(merchants[a]) = a

PayeeKnown ==
    \A k \in Keys : status[k] # "absent" =>
        IF body[k].kind = "qris"
        THEN CodeOf[body[k].target] \in Codes
        ELSE payee[k] = NoMerchant

\* The merchant of c's request, once it is in the table.
RightMerchant(c, m) ==
    /\ request[c].kind = "qris"
    /\ Code(c) \in Codes
    /\ m # NoMerchant /\ m = merchants[Code(c)]

HandlerKnows(c) ==
    /\ Creator(c) => body[Key(c)] = request[c]
    /\ intake[c] = "resolve" => request[c].kind = "transfer"
    /\ merchant[c] # NoMerchant => intake[c] = "insert" /\ RightMerchant(c, merchant[c])
    /\ intake[c] = "insert" /\ request[c].kind = "qris" => merchant[c] # NoMerchant
    /\ intake[c] = "events" =>
          /\ body[Key(c)].kind = "transfer" /\ request[c].kind = "transfer"
          /\ body[Key(c)].account = request[c].account
          /\ body[Key(c)].amount = request[c].amount
    /\ intake[c] = "replayed" => SamePayment(body[Key(c)], request[c])
    /\ intake[c] = "conflict" /\ request[c].kind = "qris" =>
          ~SamePayment(body[Key(c)], request[c])

AcceptInv ==
    /\ OneCreator /\ CatalogueHonest /\ PayeeKnown /\ PayeeIsCatalogued
    /\ \A c \in Clients : HandlerKnows(c)

\* Nothing a handler relies on has changed.
IntakeUntouched ==
    /\ UNCHANGED <<intakeVars, body>>
    /\ \A k \in Keys : status'[k] = "absent" <=> status[k] = "absent"

\* Workers, the queue, the broker, readers, expiry and the signal change nothing a handler
\* relies on: of the tables they only write the status of rows that are there.
LEMMA OutsideIntake ==
    ASSUME TypeInv, [Next]_vars
    PROVE  IntakeUntouched \/ Restart \/ \E c \in Clients : IntakeStep(c)
<1>1. ASSUME NEW w \in Workers, HandlerStep(w)
      PROVE  IntakeUntouched
  <2>0. UNCHANGED intakeVars
    BY <1>1 DEF HandlerStep
  <2>1. CASE StartJob(w) \/ WorkerCrash(w)
    BY <2>0, <2>1 DEF StartJob, WorkerCrash, Unwritten, storeVars, IntakeUntouched
  <2>2. CASE stage[w] # "idle" /\ (Handle(w) \/ (CancelHandler(w) /\ (UNCHANGED faults \/ Fault)))
    <3>1. /\ Job(w) \in Keys /\ status[Job(w)] # "absent"
          /\ stage[w] = "update" => outcome[w] \in Settled
      BY <2>2, HoldsMessage, RetryFacts
         DEF TypeInv, TypeOK, WorkerTypeOK, QueueTypeOK, HandledExist, Job, Keys
    <3>2. /\ UNCHANGED body
          /\ UNCHANGED status
             \/ (stage[w] = "update" /\ status' = [status EXCEPT ![Job(w)] = outcome[w]])
      BY <2>2 DEF Handle, RecordStarted, ExecutePayment, UpdateRow, CacheOutcome, DropBalance,
                  RecordOutcome, CancelHandler, CreateTransactionEvent, UpdateTransactionStatus,
                  SetTransactionStatus, Works, Fails, Unwritten, storeVars
    <3>3. status \in [Keys -> RowStatus]
      BY DEF TypeInv, TypeOK, StoreTypeOK
    <3>. QED
      BY <2>0, <3>1, <3>2, <3>3 DEF IntakeUntouched, Settled
  <2>. QED
    BY <1>1, <2>1, <2>2, HandlerCases
<1>2. ASSUME NEW r \in Readers, ReaderStep(r)
      PROVE  IntakeUntouched
  BY <1>2 DEF ReaderStep, Ask, GetDetail, GetStatus, ReadCache, ReadRow, FillCache, Sees,
              SetTransactionStatus, Works, Fails, Unwritten, storeVars, IntakeUntouched
<1>3. ASSUME NEW k \in Keys, Expiry(k)
      PROVE  IntakeUntouched
  BY <1>3 DEF Expiry, CacheExpires, SetTransactionStatus, IntakeUntouched
<1>4. ASSUME Broker \/ Stop \/ \E w \in Workers : Consume(w) \/ Session(w)
      PROVE  IntakeUntouched
  BY <1>4 DEF Broker, Stop, Consume, Session, storeVars, IntakeUntouched
<1>5. CASE UNCHANGED vars
  BY <1>5 DEF vars, storeVars, IntakeUntouched
<1>. QED
  BY <1>1, <1>2, <1>3, <1>4, <1>5 DEF Next

\* What is stored under a key, and in the merchants table, stays.
StoredStays ==
    /\ \A k \in Keys : status[k] # "absent" =>
          status'[k] # "absent" /\ body'[k] = body[k] /\ payee'[k] = payee[k]
    /\ \A a \in Codes : merchants[a] # NoMerchant => merchants'[a] = merchants[a]

SameHandler(c) ==
    intake'[c] = intake[c] /\ request'[c] = request[c] /\ merchant'[c] = merchant[c]

\* What a handler knows stays true while others take steps.
LEMMA StaysKnown ==
    ASSUME TypeInv, StoredStays, NEW c \in Clients, HandlerKnows(c), SameHandler(c)
    PROVE  HandlerKnows(c)'
<1>1. /\ intake[c] \in Found => Key(c) \in Keys /\ status[Key(c)] # "absent"
      /\ intake[c] # "idle" => request[c] \in Requests
  BY RequestFacts DEF TypeInv, TypeOK, IntakeTypeOK, AcceptedExist, Key, Found, Creating
<1>2. intake[c] \in Found => body'[Key(c)] = body[Key(c)]
  BY <1>1 DEF StoredStays
<1>3. Key(c)' = Key(c) /\ Code(c)' = Code(c)
  BY DEF SameHandler, Key, Code
<1>4. merchant[c] # NoMerchant => RightMerchant(c, merchant[c])'
  BY <1>3 DEF HandlerKnows, RightMerchant, StoredStays, SameHandler
<1>. QED
  BY <1>2, <1>3, <1>4
     DEF HandlerKnows, SameHandler, Creator, Found, Creating, SamePayment

\* A step of c's handler changes no other handler, no stored payment and no merchant.
LEMMA IntakeMoves ==
    ASSUME TypeInv, NEW c \in Clients, IntakeStep(c)
    PROVE  /\ StoredStays
           /\ \A d \in Clients \ {c} : SameHandler(d)
           /\ intake[c] # "idle" => request'[c] = request[c] /\ request[c] \in Requests
<1> USE DEF TypeInv, TypeOK, StoreTypeOK, IntakeTypeOK, CatalogueTypeOK, StoredStays, SameHandler,
            Unwritten, Reads, Writes, Works, Fails, Goto, storeVars, catalogueVars
<1>1. ASSUME NEW r \in Requests, Submit(c, r)
      PROVE  /\ StoredStays
             /\ \A d \in Clients \ {c} : SameHandler(d)
             /\ intake[c] = "idle"
  BY <1>1 DEF Submit
<1>2. CASE IntakeCrash(c)
  BY <1>2 DEF IntakeCrash, AfterInsert
<1>3. CASE CreateTransaction(c)
  <2>0. request[c] \in Requests /\ Key(c) \in Keys
    BY <1>3, RequestFacts
       DEF CreateTransaction, QRISCreateTransaction, TransferCreateTransaction, Key
  <2>1. CASE Lookup(c)
    BY <2>0, <2>1 DEF Lookup
  <2>2. CASE FindMerchant(c)
    BY <2>0, <2>2 DEF FindMerchant, Resolved
  <2>3. CASE GetQrisMerchant(c)
    BY <2>0, <2>3 DEF GetQrisMerchant
  <2>4. CASE CreateMerchant(c)
    BY <2>0, <2>4 DEF CreateMerchant, InsertMerchant, Resolved
  <2>5. CASE ReloadMerchant(c)
    BY <2>0, <2>5 DEF ReloadMerchant, Resolved
  <2>6. CASE CompareTransfer(c) \/ CompareEvents(c) \/ Resolve(c)
    BY <2>0, <2>6 DEF CompareTransfer, CompareEvents, Resolve
  <2>7. CASE Insert(c)
    BY <2>0, <2>7 DEF Insert, InsertTransaction, InsertRow, AfterInsert, NoInsert, Key
  <2>8. CASE RecordCreated(c) \/ RecordEnqueued(c) \/ RecordQueueError(c)
    BY <2>0, <2>8 DEF RecordCreated, RecordEnqueued, RecordQueueError, CreateTransactionEvent
  <2>9. CASE CacheProcessing(c) \/ CachePublishFailed(c)
    BY <2>0, <2>9 DEF CacheProcessing, CachePublishFailed, SetTransactionStatus
  <2>10. CASE MarkPublishFailed(c)
    BY <2>0, <2>10 DEF MarkPublishFailed, UpdateTransactionStatus
  <2>11. CASE PublishJob(c)
    BY <2>0, <2>11 DEF PublishJob
  <2>. QED
    BY <1>3, <2>1, <2>2, <2>3, <2>4, <2>5, <2>6, <2>7, <2>8, <2>9, <2>10, <2>11
       DEF CreateTransaction, QRISCreateTransaction, TransferCreateTransaction, ResolveMerchant,
           Accept
<1>. QED
  BY <1>1, <1>2, <1>3 DEF IntakeStep

\* qrisReplayMatches tells the same payment from another one: c has the merchant of its own
\* request in hand, and a row of the merchants table belongs to one code only.
LEMMA ReplayDecided ==
    ASSUME TypeInv, AcceptInv, NEW c \in Clients, request[c] \in Requests, c \in replaying,
           NEW m, RightMerchant(c, m)
    PROVE  qrisReplayMatches(c, m) <=> SamePayment(body[Key(c)], request[c])
<1> DEFINE b == body[Key(c)]
<1>1. Key(c) \in Keys /\ status[Key(c)] # "absent" /\ b \in Requests
  BY RequestFacts DEF TypeInv, TypeOK, StoreTypeOK, AcceptedExist, Key
<1>2. b.kind \in {"qris", "transfer"}
  BY <1>1, RequestFacts
<1>3. CASE b.kind = "transfer"
  BY <1>1, <1>3 DEF AcceptInv, PayeeKnown, RightMerchant, qrisReplayMatches, SamePayment
<1>4. CASE b.kind = "qris"
  <2>1. /\ CodeOf[b.target] \in Codes
        /\ payee[Key(c)] = merchants[CodeOf[b.target]]
        /\ payee[Key(c)] # NoMerchant
    BY <1>1, <1>4 DEF AcceptInv, PayeeKnown, PayeeIsCatalogued
  <2>2. Code(c) = CodeOf[request[c].target]
    BY DEF Code
  <2>3. payee[Key(c)] = m <=> CodeOf[b.target] = Code(c)
    BY <2>1 DEF AcceptInv, CatalogueHonest, RightMerchant
  <2>. QED
    BY <1>4, <2>2, <2>3 DEF RightMerchant, qrisReplayMatches, SamePayment
<1>. QED
  BY <1>2, <1>3, <1>4

\* resolveMerchant's answer, given to a replay or to a new payment, is what c knows next.
LEMMA ResolvedKnows ==
    ASSUME TypeInv, AcceptInv, StoredStays, NEW c \in Clients, request[c] \in Requests,
           intake[c] \notin Found \cup {"insert", "idle"}, NEW m, RightMerchant(c, m), Resolved(c, m),
           UNCHANGED merchants
    PROVE  HandlerKnows(c)'
<1>0. merchant[c] = NoMerchant /\ intake \in [Clients -> IntakeStates]
      /\ merchant \in [Clients -> Clients \cup {NoMerchant}]
  BY DEF TypeInv, TypeOK, IntakeTypeOK, AcceptInv, HandlerKnows
<1>1. CASE c \in replaying
  <2>1. body'[Key(c)] = body[Key(c)] /\ request' = request /\ merchant'[c] = NoMerchant
    BY <1>0, <1>1, RequestFacts
       DEF TypeInv, AcceptedExist, StoredStays, Resolved, Goto, Key
  <2>2. intake'[c] = IF qrisReplayMatches(c, m) THEN "replayed" ELSE "conflict"
    BY <1>0, <1>1 DEF Resolved, Goto
  <2>3. intake'[c] = IF SamePayment(body[Key(c)], request[c]) THEN "replayed" ELSE "conflict"
    BY <1>1, <2>2, ReplayDecided
  <2>. QED
    BY <2>1, <2>3 DEF HandlerKnows, SamePayment, Creator, Creating, Key
<1>2. CASE c \notin replaying
  <2>1. /\ intake'[c] = "insert" /\ merchant'[c] = m /\ request' = request
    BY <1>0, <1>2 DEF Resolved
  <2>. QED
    BY <2>1 DEF HandlerKnows, RightMerchant, Creator, Creating, Key, Code
<1>. QED
  BY <1>1, <1>2

\* A merchant row is inserted for the code legacy returned, under the inserting handler's name;
\* no payment can name that row yet, so a replay that inserts it asks for another payment.
LEMMA InsertedKnows ==
    ASSUME TypeInv, AcceptInv, NEW c \in Clients, request[c] \in Requests,
           intake[c] = "createMerchant",
           InsertMerchant(c, Code(c)), Resolved(c, c), Unwritten, UNCHANGED payee
    PROVE  HandlerKnows(c)'
<1>0. /\ request[c].kind = "qris" /\ Code(c) \in Codes
      /\ merchants[Code(c)] = NoMerchant /\ merchants'[Code(c)] = c /\ c # NoMerchant
  BY CatalogueAssumption
     DEF TypeInv, TypeOK, IntakeTypeOK, CatalogueTypeOK, KnownCode, InsertMerchant
<1>1. merchant[c] = NoMerchant /\ intake \in [Clients -> IntakeStates]
      /\ merchant \in [Clients -> Clients \cup {NoMerchant}]
  BY DEF TypeInv, TypeOK, IntakeTypeOK, AcceptInv, HandlerKnows
<1>2. CASE c \in replaying
  <2> DEFINE b == body[Key(c)]
  <2>1. /\ Key(c) \in Keys /\ status[Key(c)] # "absent"
        /\ body' = body /\ request' = request /\ merchant'[c] = NoMerchant
    BY <1>1, <1>2, RequestFacts
       DEF TypeInv, AcceptedExist, Resolved, Goto, Key, Unwritten, storeVars
  <2>2. b \in Requests
    BY <2>1 DEF TypeInv, TypeOK, StoreTypeOK
  <2>3. b.kind = "qris" => payee[Key(c)] = merchants[CodeOf[b.target]] /\ payee[Key(c)] # NoMerchant
                           /\ CodeOf[b.target] \in Codes
    BY <2>1 DEF AcceptInv, PayeeKnown, PayeeIsCatalogued
  <2>4. b.kind # "qris" => payee[Key(c)] = NoMerchant
    BY <2>1 DEF AcceptInv, PayeeKnown
  <2>5. ~qrisReplayMatches(c, c)
    BY <1>0, <2>3, <2>4 DEF qrisReplayMatches, AcceptInv, CatalogueHonest
  <2>6. ~SamePayment(b, request[c])
    BY <1>0, <2>3 DEF SamePayment, Code
  <2>7. intake'[c] = "conflict"
    BY <1>1, <1>2, <2>5 DEF Resolved, Goto
  <2>. QED
    BY <2>1, <2>6, <2>7 DEF HandlerKnows, SamePayment, Creator, Creating, Key
<1>3. CASE c \notin replaying
  <2>1. /\ intake'[c] = "insert" /\ merchant'[c] = c /\ request' = request
    BY <1>1, <1>3 DEF Resolved
  <2>. QED
    BY <1>0, <2>1 DEF HandlerKnows, RightMerchant, Creator, Creating, Key, Code
<1>. QED
  BY <1>2, <1>3

\* Each step of CreateTransaction leaves its handler knowing what it should.
LEMMA KnowsStep ==
    ASSUME TypeInv, AcceptInv, NEW c \in Clients, IntakeStep(c)
    PROVE  HandlerKnows(c)'
<1>0. /\ intake \in [Clients -> IntakeStates] /\ merchant \in [Clients -> Clients \cup {NoMerchant}]
      /\ request \in [Clients -> Requests \cup {NoRequest}] /\ body \in [Keys -> Requests \cup {NoRequest}]
      /\ HandlerKnows(c)
  BY DEF TypeInv, TypeOK, StoreTypeOK, IntakeTypeOK, AcceptInv
<1>1. ASSUME NEW r \in Requests, Submit(c, r)
      PROVE  HandlerKnows(c)'
  BY <1>0, <1>1 DEF Submit, HandlerKnows, Creator, Creating
<1>2. CASE IntakeCrash(c)
  <2>1. /\ intake'[c] \in {"aborted", "error"} /\ merchant'[c] = NoMerchant
        /\ intake'[c] = "aborted" => Creator(c)
        /\ UNCHANGED <<request, body>>
    BY <1>0, <1>2 DEF IntakeCrash, CutOff, AfterInsert, Reads, Unwritten, storeVars, Creator, Answers
  <2>. QED
    BY <1>0, <2>1 DEF HandlerKnows, Creator, Creating, Key
<1>3. CASE CreateTransaction(c)
  <2>0. /\ request[c] \in Requests /\ Key(c) \in Keys
        /\ StoredStays
    BY <1>3, RequestFacts, IntakeMoves
       DEF CreateTransaction, QRISCreateTransaction, TransferCreateTransaction, Key
  <2> USE <1>0, <2>0 DEF Works, Goto
  \* An answer or a step that claims nothing.
  <2>a. ASSUME intake'[c] \in {"error", "refused", "find", "askLegacy", "createMerchant",
                               "reloadMerchant", "compare"},
               intake[c] # "insert", UNCHANGED <<request, merchant>>
        PROVE  HandlerKnows(c)'
    BY <2>a DEF HandlerKnows, Creator, Creating
  \* A creator goes on, or gives up after the insert.
  <2>b. ASSUME Creator(c), Creator(c)', UNCHANGED <<request, merchant, body>>,
               intake'[c] # "insert"
        PROVE  HandlerKnows(c)'
    BY <2>b DEF HandlerKnows, Creator, Creating, Key
  <2>1. CASE Lookup(c)
    <3>1. CASE intake'[c] = "resolve"
      BY <2>1, <3>1, RequestFacts DEF Lookup, HandlerKnows, Creator, Creating
    <3>2. CASE intake'[c] # "resolve"
      BY <2>1, <3>2, <2>a DEF Lookup
    <3>. QED
      BY <3>1, <3>2
  <2>2. CASE request[c].kind = "qris" /\ FindMerchant(c)
    <3> DEFINE m == Catalogued(request[c].target)
    <3>1. CASE m # NoMerchant /\ Resolved(c, m)
      <4>1. RightMerchant(c, m)
        BY <2>2, <3>1, RequestFacts DEF Catalogued, RightMerchant, Code
      <4>. QED
        BY <2>2, <3>1, <4>1, ResolvedKnows
           DEF FindMerchant, Found, Creating, Reads, catalogueVars
    <3>2. CASE \E s \in {"error", "refused", "askLegacy"} : Goto(c, s)
      BY <2>2, <3>2, <2>a DEF FindMerchant
    <3>. QED
      BY <2>2, <3>1, <3>2 DEF FindMerchant
  <2>3. CASE GetQrisMerchant(c)
    BY <2>3, <2>a DEF GetQrisMerchant
  <2>4. CASE CreateMerchant(c)
    <3>1. CASE Goto(c, "reloadMerchant")
      BY <2>4, <3>1, <2>a DEF CreateMerchant
    <3>2. CASE InsertMerchant(c, Code(c)) /\ Resolved(c, c)
      BY <2>4, <3>2, InsertedKnows DEF CreateMerchant
    <3>. QED
      BY <2>4, <3>1, <3>2 DEF CreateMerchant
  <2>5. CASE ReloadMerchant(c)
    <3> DEFINE m == merchants[Code(c)]
    <3>1. CASE m # NoMerchant /\ Resolved(c, m)
      <4>1. RightMerchant(c, m)
        BY <2>5, <3>1 DEF ReloadMerchant, RightMerchant, TypeInv, KnownCode
      <4>. QED
        BY <2>5, <3>1, <4>1, ResolvedKnows
           DEF ReloadMerchant, Found, Creating, Reads, catalogueVars
    <3>2. CASE Goto(c, "error")
      BY <2>5, <3>2, <2>a DEF ReloadMerchant
    <3>. QED
      BY <2>5, <3>1, <3>2 DEF ReloadMerchant
  <2>6. CASE request[c].kind = "transfer" /\ CompareTransfer(c)
    BY <2>6 DEF CompareTransfer, HandlerKnows, Creator, Creating, Key, Reads, Unwritten, storeVars
  <2>7. CASE request[c].kind = "transfer" /\ CompareEvents(c)
    BY <2>7 DEF CompareEvents, HandlerKnows, Creator, Creating, Key, Reads, Unwritten, storeVars,
                transferReplayMatches, SamePayment
  <2>8. CASE Resolve(c)
    BY <2>8 DEF Resolve, HandlerKnows, Creator, Creating
  <2>9. CASE Insert(c)
    BY <2>9 DEF Insert, InsertTransaction, InsertRow, AfterInsert, NoInsert, HandlerKnows, Creator,
                Creating, Key
  <2>10. CASE RecordCreated(c) \/ CacheProcessing(c) \/ PublishJob(c) \/ RecordEnqueued(c)
              \/ MarkPublishFailed(c) \/ CachePublishFailed(c) \/ RecordQueueError(c)
    BY <2>10, <2>b
       DEF RecordCreated, CacheProcessing, PublishJob, RecordEnqueued, MarkPublishFailed,
           CachePublishFailed, RecordQueueError, Fails, Unwritten, storeVars, Creator, Creating,
           CreateTransactionEvent, SetTransactionStatus, UpdateTransactionStatus
  <2>. QED
    BY <1>3, <2>1, <2>2, <2>3, <2>4, <2>5, <2>6, <2>7, <2>8, <2>9, <2>10
       DEF CreateTransaction, QRISCreateTransaction, TransferCreateTransaction, ResolveMerchant,
           Accept
<1>. QED
  BY <1>1, <1>2, <1>3 DEF IntakeStep

\* No payment appears under a key, and no handler becomes the creator of one.
NoneCreated(c) ==
    /\ UNCHANGED <<body, payee>>
    /\ \A k \in Keys : status'[k] = "absent" <=> status[k] = "absent"
    /\ Creator(c)' => Creator(c)

\* The one step of a handler that stores a payment, and the one that stores a merchant.
LEMMA IntakeWrites ==
    ASSUME TypeInv, NEW c \in Clients, IntakeStep(c)
    PROVE  /\ intake'[c] # "idle"
           /\ NoneCreated(c) \/ (intake[c] = "insert" /\ InsertTransaction(c))
           /\ \/ UNCHANGED merchants
              \/ intake[c] = "createMerchant" /\ merchants' = [merchants EXCEPT ![Code(c)] = c]
<1>0. /\ intake \in [Clients -> IntakeStates] /\ status \in [Keys -> RowStatus]
      /\ intake[c] \in Found => status[Key(c)] # "absent"
  BY DEF TypeInv, TypeOK, StoreTypeOK, IntakeTypeOK, AcceptedExist
<1> USE <1>0 DEF Unwritten, Reads, Writes, Works, Fails, Goto, storeVars, catalogueVars,
                 NoneCreated, Creator, Creating, Found
<1>1. ASSUME NEW r \in Requests, Submit(c, r)
      PROVE  intake'[c] # "idle" /\ NoneCreated(c) /\ UNCHANGED merchants
  BY <1>1 DEF Submit
<1>2. CASE IntakeCrash(c)
  BY <1>2 DEF IntakeCrash, AfterInsert, CutOff, Answers
<1>3. CASE CreateTransaction(c)
  <2>1. CASE Lookup(c) \/ CompareTransfer(c) \/ CompareEvents(c) \/ Resolve(c)
    BY <2>1 DEF Lookup, CompareTransfer, CompareEvents, Resolve
  <2>2. CASE FindMerchant(c) \/ GetQrisMerchant(c) \/ ReloadMerchant(c)
    BY <2>2 DEF FindMerchant, GetQrisMerchant, ReloadMerchant, Resolved
  <2>3. CASE CreateMerchant(c)
    BY <2>3 DEF CreateMerchant, InsertMerchant, Resolved
  <2>4. CASE Insert(c)
    BY <2>4 DEF Insert, AfterInsert, NoInsert
  <2>5. CASE RecordCreated(c) \/ RecordEnqueued(c) \/ RecordQueueError(c)
    BY <2>5 DEF RecordCreated, RecordEnqueued, RecordQueueError, CreateTransactionEvent
  <2>6. CASE CacheProcessing(c) \/ CachePublishFailed(c)
    BY <2>6 DEF CacheProcessing, CachePublishFailed, SetTransactionStatus
  <2>7. CASE MarkPublishFailed(c)
    BY <2>7 DEF MarkPublishFailed, UpdateTransactionStatus
  <2>8. CASE PublishJob(c)
    BY <2>8 DEF PublishJob
  <2>. QED
    BY <1>3, <2>1, <2>2, <2>3, <2>4, <2>5, <2>6, <2>7, <2>8
       DEF CreateTransaction, QRISCreateTransaction, TransferCreateTransaction, ResolveMerchant,
           Accept
<1>. QED
  BY <1>1, <1>2, <1>3 DEF IntakeStep

\* A step of a handler keeps what is known about keys and merchants.
LEMMA AcceptStepIntake ==
    ASSUME TypeInv, AcceptInv, NEW c \in Clients, IntakeStep(c)
    PROVE  AcceptInv'
<1>0. /\ StoredStays
      /\ \A d \in Clients \ {c} : SameHandler(d)
      /\ intake[c] # "idle" => request'[c] = request[c] /\ request[c] \in Requests
      /\ intake'[c] # "idle"
      /\ HandlerKnows(c)'
  BY IntakeMoves, IntakeWrites, KnowsStep
<1>1. \A d \in Clients : HandlerKnows(d)'
  BY <1>0, StaysKnown DEF AcceptInv
<1>2. intake[c] = "insert" => Key(c) \in Keys
  BY <1>0, RequestFacts DEF Key
<1>3. OneCreator'
  <2>1. CASE NoneCreated(c)
    BY <1>0, <2>1 DEF NoneCreated, AcceptInv, OneCreator, Creator, Creating, SameHandler, Key
  <2>2. CASE intake[c] = "insert" /\ InsertTransaction(c)
    <3>1. status[Key(c)] = "absent" /\ Key(c)' = Key(c)
      BY <1>0, <2>2 DEF InsertTransaction, InsertRow, Key
    <3>2. \A d \in Clients \ {c} : Creator(d)' => Creator(d) /\ Key(d)' = Key(d)
                                                  /\ status[Key(d)] # "absent"
      BY <1>0 DEF SameHandler, Creator, Key, TypeInv, AcceptedExist, Found
    <3>. QED
      BY <3>1, <3>2 DEF AcceptInv, OneCreator
  <2>. QED
    BY <2>1, <2>2, IntakeWrites
<1>4. CatalogueHonest'
  <2>0. merchants \in [Codes -> Clients \cup {NoMerchant}]
    BY DEF TypeInv, TypeOK, IntakeTypeOK, CatalogueTypeOK
  <2>1. \A d \in Clients : intake[d] # "idle" => intake'[d] # "idle" /\ request'[d] = request[d]
    BY <1>0 DEF SameHandler
  <2>2. CASE UNCHANGED merchants
    BY <2>0, <2>1, <2>2 DEF AcceptInv, CatalogueHonest, Code
  <2>3. CASE intake[c] = "createMerchant" /\ merchants' = [merchants EXCEPT ![Code(c)] = c]
    <3>1. request[c].kind = "qris" /\ Code(c) \in Codes
      BY <2>3 DEF TypeInv, KnownCode
    <3>. QED
      BY <1>0, <2>0, <2>1, <2>3, <3>1 DEF AcceptInv, CatalogueHonest, Code
  <2>. QED
    BY <2>2, <2>3, IntakeWrites
<1>5. (PayeeKnown /\ PayeeIsCatalogued)'
  <2>1. CASE NoneCreated(c)
    BY <1>0, <2>1 DEF NoneCreated, AcceptInv, PayeeKnown, PayeeIsCatalogued, StoredStays
  <2>2. CASE intake[c] = "insert" /\ InsertTransaction(c)
    <3> DEFINE r == request[c]
    <3>1. r \in Requests /\ Key(c) \in Keys /\ HandlerKnows(c)
      BY <1>0, <1>2, <2>2 DEF AcceptInv
    <3>2. /\ body'[Key(c)] = r /\ payee'[Key(c)] = merchant[c]
          /\ \A k \in Keys \ {Key(c)} : status'[k] = status[k]
      BY <2>2, <3>1
         DEF InsertTransaction, InsertRow, TypeInv, TypeOK, StoreTypeOK, IntakeTypeOK, CatalogueTypeOK,
             Key
    <3>3. r.kind = "qris" => RightMerchant(c, merchant[c])
      BY <2>2, <3>1 DEF HandlerKnows
    <3>4. r.kind = "qris" => CodeOf[r.target] \in Codes /\ merchant[c] # NoMerchant
                             /\ merchant[c] = merchants'[CodeOf[r.target]]
      BY <1>0, <3>3 DEF RightMerchant, Code, StoredStays
    <3>5. r.kind # "qris" => merchant[c] = NoMerchant
      BY <3>1 DEF HandlerKnows, RightMerchant
    <3>6. ASSUME NEW k \in Keys \ {Key(c)}, status'[k] # "absent"
          PROVE  /\ body'[k] = body[k] /\ payee'[k] = payee[k] /\ status[k] # "absent"
                 /\ \A a \in Codes : merchants[a] # NoMerchant => merchants'[a] = merchants[a]
      BY <1>0, <3>2, <3>6 DEF StoredStays
    <3>. QED
      BY <3>2, <3>4, <3>5, <3>6 DEF AcceptInv, PayeeKnown, PayeeIsCatalogued
  <2>. QED
    BY <2>1, <2>2, IntakeWrites
<1>. QED
  BY <1>1, <1>3, <1>4, <1>5 DEF AcceptInv

\* Every step keeps what is known about keys and merchants.
LEMMA AcceptStep == TypeInv /\ AcceptInv /\ [Next]_vars => AcceptInv'
<1> SUFFICES ASSUME TypeInv, AcceptInv, [Next]_vars
             PROVE  AcceptInv'
  OBVIOUS
<1>1. CASE IntakeUntouched
  <2>1. StoredStays /\ \A c \in Clients : SameHandler(c)
    BY <1>1 DEF IntakeUntouched, intakeVars, catalogueVars, StoredStays, SameHandler
  <2>2. \A c \in Clients : HandlerKnows(c)'
    BY <2>1, StaysKnown DEF AcceptInv
  <2>3. (OneCreator /\ CatalogueHonest)'
    BY <1>1 DEF IntakeUntouched, intakeVars, catalogueVars, AcceptInv, OneCreator, CatalogueHonest,
                Creator, Key, Code
  <2>4. (PayeeKnown /\ PayeeIsCatalogued)'
    BY <1>1 DEF IntakeUntouched, intakeVars, catalogueVars, AcceptInv, PayeeKnown, PayeeIsCatalogued
  <2>. QED
    BY <2>2, <2>3, <2>4 DEF AcceptInv
<1>2. CASE Restart
  <2>1. /\ UNCHANGED <<body, status, request, merchants, payee>>
        /\ \A c \in Clients : merchant'[c] = NoMerchant /\ intake'[c] = CutOff(intake[c])
    BY <1>2 DEF Restart, storeVars, catalogueVars
  <2>2. ASSUME NEW c \in Clients
        PROVE  /\ intake'[c] = intake[c] \/ intake'[c] \in {"aborted", "error"}
               /\ intake'[c] = "idle" <=> intake[c] = "idle"
               /\ Creator(c)' => Creator(c)
               /\ intake'[c] \notin {"insert", "resolve", "events"}
    BY <2>1 DEF CutOff, Creator, Creating, Answers
  <2>3. \A c \in Clients : HandlerKnows(c)'
    BY <2>1, <2>2 DEF AcceptInv, HandlerKnows, SamePayment, Key
  <2>4. (OneCreator /\ PayeeKnown /\ PayeeIsCatalogued)'
    BY <2>1, <2>2 DEF AcceptInv, OneCreator, PayeeKnown, PayeeIsCatalogued, Key
  <2>5. CatalogueHonest'
    BY <2>1, <2>2 DEF AcceptInv, CatalogueHonest, Code, TypeInv, TypeOK, IntakeTypeOK, CatalogueTypeOK
  <2>. QED
    BY <2>3, <2>4, <2>5 DEF AcceptInv
<1>. QED
  BY <1>1, <1>2, AcceptStepIntake, OutsideIntake

\* Nothing is known, and nothing stored, at first.
LEMMA AcceptInit == Init => AcceptInv
<1> SUFFICES ASSUME Init
             PROVE  AcceptInv
  OBVIOUS
<1> USE DEF Init, StoreInit, IntakeInit, CatalogueInit
<1>1. OneCreator /\ \A c \in Clients : HandlerKnows(c)
  BY DEF OneCreator, HandlerKnows, Creator, Creating
<1>2. CatalogueHonest /\ PayeeKnown /\ PayeeIsCatalogued
  BY DEF CatalogueHonest, PayeeKnown, PayeeIsCatalogued
<1>. QED
  BY <1>1, <1>2 DEF AcceptInv

\* The idempotency key works: however retries of a request interleave with each other and with
\* faults, at most one handler ever creates, publishes and answers for the payment of a key.
THEOREM KeysHaveOneCreator == Spec => []OneCreator
<1>1. AcceptInv => OneCreator
  BY DEF AcceptInv
<1>. QED
  BY <1>1, TypeInit, TypeStep, AcceptInit, AcceptStep, PTL DEF Spec

\* What a client is told was accepted, as new or as a replay, is the payment stored under the
\* key: qrisReplayMatches and transferReplayMatches never take another payment for it.
THEOREM AcceptedIsStored == Spec => []AcceptedAsStored
<1>1. AcceptInv => AcceptedAsStored
  BY DEF AcceptInv, AcceptedAsStored, HandlerKnows, Creator
<1>. QED
  BY <1>1, TypeInit, TypeStep, AcceptInit, AcceptStep, PTL DEF Spec

\* resolveMerchant may race with itself, fail half way and reload: every QRIS payment still
\* names the one row of the merchant that was asked for.
THEOREM PayeesAreCatalogued == Spec => []PayeeIsCatalogued
<1>1. AcceptInv => PayeeIsCatalogued
  BY DEF AcceptInv
<1>. QED
  BY <1>1, TypeInit, TypeStep, AcceptInit, AcceptStep, PTL DEF Spec

\* A QRIS payment that is asked for again is never refused as a conflict.
THEOREM QRISConflictsAreMismatches == Spec => []QRISConflictMeansMismatch
<1>1. AcceptInv => QRISConflictMeansMismatch
  BY DEF AcceptInv, QRISConflictMeansMismatch, HandlerKnows
<1>. QED
  BY <1>1, TypeInit, TypeStep, AcceptInit, AcceptStep, PTL DEF Spec
=============================================================================
