---------------------------- MODULE PaymentWorker ----------------------------
(***************************************************************************)
(* Executing a payment: HandleQRISPayment (worker.go) and HandleTransfer   *)
(* (transfer_worker.go), the handlers the queue's consumer loops run.  The *)
(* two differ in the legacy operation and in wording.  A handler never     *)
(* looks at the row: a job that is delivered again is executed again.      *)
(* Any error but one of the legacy call makes the handler return an error, *)
(* and the queue retries the whole job.                                    *)
(*                                                                         *)
(* The legacy system is external.  It executes the payment and says so, or *)
(* refuses it, or its answer never arrives, executed or not: the adapter   *)
(* has no request identity to make a repeated call harmless.               *)
(***************************************************************************)
EXTENDS TransactionStore, LegacyClient

VARIABLES stage,     \* stage[w]: where w's handler is
          outcome,   \* outcome[w]: what the legacy call of this run came to
          ledger     \* ledger[k]: how often legacy executed the payment

workerVars == <<stage, outcome, ledger>>

Stages == {"idle", "start", "execute", "update", "cache", "balance", "event"}

WorkerInit ==
    /\ stage = [w \in Workers |-> "idle"]
    /\ outcome = [w \in Workers |-> "none"]
    /\ ledger = [k \in Keys |-> 0]

Job(w) == delivery[w].job

\* w's handler goes on at stage s.
Proceed(w, s) ==
    /\ stage' = [stage EXCEPT ![w] = s]
    /\ UNCHANGED queueRest

\* Mutant: the outcome of this run is still there when the next one starts.
VacateKeepsOutcome(w) ==
    /\ stage' = [stage EXCEPT ![w] = "idle"]
    /\ UNCHANGED outcome

\* w's handler is gone, whatever it was doing.
Vacate(w) ==
    /\ stage' = [stage EXCEPT ![w] = "idle"]
    /\ outcome' = [outcome EXCEPT ![w] = "none"]

\* w's handler returns r ("succeeded" or "failed") to the consumer loop.
HandlerReturns(w, r) == Return(w, r) /\ Vacate(w)

-----------------------------------------------------------------------------
\* The consumer loop calls the handler with the next delivery.
StartJob(w) ==
    /\ Deliver(w)
    /\ stage' = [stage EXCEPT ![w] = "start"]
    /\ Unwritten
    /\ UNCHANGED <<outcome, ledger>>

RecordStarted(w) ==
    /\ stage[w] = "start"
    /\ UNCHANGED ledger
    /\ \/ /\ Works(CreateTransactionEvent(Job(w), "STARTED"))
          /\ Proceed(w, "execute")
          /\ UNCHANGED outcome
       \/ /\ Fails(CreateTransactionEvent(Job(w), "STARTED"), Unwritten)
          /\ HandlerReturns(w, "failed")

\* The legacy bank executes w's payment.
Executes(w) == ledger' = [ledger EXCEPT ![Job(w)] = @ + 1]

Outcome(result) == IF result = "ok" THEN "SUCCESS" ELSE "FAILED"

\* PayQRIS or Transfer; every error, a timeout or an unusable answer included, counts as
\* FAILED.  The call log that follows is best effort and read by nobody.
ExecutePayment(w) ==
    /\ stage[w] = "execute"
    /\ Proceed(w, "update")
    /\ Unwritten
    /\ \E result \in DoneResults \cup RefusedResults("OTHER") :
         /\ \/ result \in DoneResults /\ Executes(w)
            \/ result \in RefusedResults("OTHER") /\ UNCHANGED ledger
         /\ outcome' = [outcome EXCEPT ![w] = Outcome(result)]
         /\ IF result = "error" THEN Fault ELSE UNCHANGED faults

\* Mutant: an error of the update is swallowed and the job acknowledged.
UpdateRowSwallowsError(w) ==
    /\ stage[w] = "update"
    /\ UNCHANGED ledger
    /\ \/ /\ Works(UpdateTransactionStatus(Job(w), outcome[w]))
          /\ Proceed(w, "cache")
          /\ UNCHANGED outcome
       \/ /\ Fails(UpdateTransactionStatus(Job(w), outcome[w]), Unwritten)
          /\ HandlerReturns(w, "succeeded")

\* Mutant: markFailed stores statusSuccess.
UpdateRowAlwaysSuccess(w) ==
    /\ stage[w] = "update"
    /\ UNCHANGED <<ledger, outcome>>
    /\ Works(UpdateTransactionStatus(Job(w), "SUCCESS"))
    /\ Proceed(w, "cache")

\* markSucceeded and markFailed: row, cache, balance, event, in this order.
UpdateRow(w) ==
    /\ stage[w] = "update"
    /\ UNCHANGED ledger
    /\ \/ /\ Works(UpdateTransactionStatus(Job(w), outcome[w]))
          /\ Proceed(w, "cache")
          /\ UNCHANGED outcome
       \/ /\ Fails(UpdateTransactionStatus(Job(w), outcome[w]), Unwritten)
          /\ HandlerReturns(w, "failed")

CacheOutcome(w) ==
    /\ stage[w] = "cache"
    /\ UNCHANGED ledger
    /\ \/ /\ Works(SetTransactionStatus(Job(w), outcome[w]))
          /\ Proceed(w, IF outcome[w] = "SUCCESS" THEN "balance" ELSE "event")
          /\ UNCHANGED outcome
       \/ /\ Fails(SetTransactionStatus(Job(w), outcome[w]), Unwritten)
          /\ HandlerReturns(w, "failed")

\* DeleteAccountBalance of the paying account; the balance cache itself is not
\* part of this module, only the error that makes the job run again.
DropBalance(w) ==
    /\ stage[w] = "balance"
    /\ Unwritten
    /\ UNCHANGED ledger
    /\ \/ Works(Proceed(w, "event")) /\ UNCHANGED outcome
       \/ Fault /\ HandlerReturns(w, "failed")

FinalEvent(w) == IF outcome[w] = "SUCCESS" THEN "SUCCEEDED" ELSE "FAILED"

RecordOutcome(w) ==
    /\ stage[w] = "event"
    /\ UNCHANGED ledger
    /\ \/ /\ Works(CreateTransactionEvent(Job(w), FinalEvent(w)))
          /\ HandlerReturns(w, "succeeded")
       \/ /\ Fails(CreateTransactionEvent(Job(w), FinalEvent(w)), Unwritten)
          /\ HandlerReturns(w, "failed")

\* The steps both handlers share.
Handle(w) ==
    \/ RecordStarted(w)
    \/ ExecutePayment(w)
    \/ UpdateRow(w)
    \/ CacheOutcome(w)
    \/ DropBalance(w)
    \/ RecordOutcome(w)

\* Each kind has its own queue, so a handler gets the jobs of its kind only.
HandleQRISPayment(w) ==
    /\ stage[w] # "idle"
    /\ body[Job(w)].kind = "qris"
    /\ Handle(w)

HandleTransfer(w) ==
    /\ stage[w] # "idle"
    /\ body[Job(w)].kind = "transfer"
    /\ Handle(w)

\* The job's context is cancelled: the call under way fails, its effect applied or not, every
\* later one (markFailed's after a cancelled legacy call too) fails at once, and so does the job.
CancelHandler(w) ==
    /\ stage[w] # "idle"
    /\ HandlerReturns(w, "failed")
    /\ \/ Unwritten /\ UNCHANGED ledger
       \/ stage[w] = "start" /\ CreateTransactionEvent(Job(w), "STARTED") /\ UNCHANGED ledger
       \/ stage[w] = "execute" /\ Executes(w) /\ Unwritten
       \/ stage[w] = "update" /\ UpdateTransactionStatus(Job(w), outcome[w]) /\ UNCHANGED ledger
       \/ stage[w] = "cache" /\ SetTransactionStatus(Job(w), outcome[w]) /\ UNCHANGED ledger
       \/ stage[w] = "event" /\ CreateTransactionEvent(Job(w), FinalEvent(w)) /\ UNCHANGED ledger

\* The 15 s of a job are over; what is left of markFailed or markSucceeded runs on the same
\* context and writes nothing.
JobTimesOut(w) == Fault /\ CancelHandler(w)

\* The worker process dies, and the handler with it.
WorkerCrash(w) ==
    /\ Crash(w)
    /\ Vacate(w)
    /\ Unwritten
    /\ UNCHANGED ledger

WorkerTypeOK ==
    /\ stage \in [Workers -> Stages]
    /\ outcome \in [Workers -> {"none"} \cup Settled]
    /\ ledger \in [Keys -> Nat]
    /\ \A w \in Workers :
          /\ stage[w] # "idle" <=> consumer[w] = "handling"
          /\ outcome[w] # "none" <=> stage[w] \in {"update", "cache", "balance", "event"}
=============================================================================
