-------------------------- MODULE TransactionStore --------------------------
(***************************************************************************)
(* What API handlers, workers and status readers share: the transactions   *)
(* and transaction_events tables of PostgreSQL and the transaction_status  *)
(* cache of Redis.  A transaction is named by its idempotency key, which   *)
(* the UNIQUE constraint of the table makes as good a name as its id.      *)
(*                                                                         *)
(* Every statement is atomic and commits by itself: no code path opens a   *)
(* database transaction.  A call may fail (Fails): it reports an error     *)
(* and, the connection being lost before or after the commit, its effect   *)
(* may or may not have taken place.                                        *)
(***************************************************************************)
EXTENDS WorkQueue

CONSTANTS Requests,     \* payment requests clients may send
          NoRequest

Keys == Jobs            \* idempotency keys: a job is about one transaction

\* A request is for a QRIS payment or a transfer, from the account of the
\* session to a target: a merchant or an account number.
ASSUME RequestAssumption ==
    /\ Requests \subseteq [key : Keys, kind : {"qris", "transfer"}, account : STRING,
                           target : STRING, amount : Nat]
    /\ NoRequest \notin Requests
    /\ Malformed = {}   \* publishJSON marshals what the workers unmarshal

VARIABLES body,     \* body[k]: the request the row of k was created from
          status,   \* status[k]: the status column of k's row
          events,   \* events[k]: event types recorded for k
          cached    \* cached[k]: the status in Redis

storeVars == <<body, status, events, cached>>

\* Everything of the queue but the fault counter.
queueRest == <<ready, retrying, dead, delivery, consumer, live, restarts>>

Settled == {"SUCCESS", "FAILED"}
RowStatus == {"absent", "PROCESSING"} \cup Settled
CachedStatus == {"none", "PROCESSING"} \cup Settled
EventTypes == {"CREATED", "ENQUEUED", "QUEUE_ERROR", "STARTED", "SUCCEEDED", "FAILED"}

StoreInit ==
    /\ body = [k \in Keys |-> NoRequest]
    /\ status = [k \in Keys |-> "absent"]
    /\ events = [k \in Keys |-> {}]
    /\ cached = [k \in Keys |-> "none"]

-----------------------------------------------------------------------------
\* A call that reports no error, and one that does: whether or not its effect
\* was applied, the caller only sees the error.
Works(effect) == effect /\ UNCHANGED faults
Fails(effect, none) == Fault /\ (effect \/ none)

Unwritten == UNCHANGED storeVars

\* Mutant: no UNIQUE constraint, the later insert wins.
InsertRowUpsert(r) ==
    /\ status' = [status EXCEPT ![r.key] = "PROCESSING"]
    /\ body' = [body EXCEPT ![r.key] = r]
    /\ UNCHANGED <<events, cached>>

\* INSERT INTO transactions: refused when the key exists.
InsertRow(r) ==
    /\ status[r.key] = "absent"
    /\ status' = [status EXCEPT ![r.key] = "PROCESSING"]
    /\ body' = [body EXCEPT ![r.key] = r]
    /\ UNCHANGED <<events, cached>>

\* UPDATE transactions SET status: whatever the current status is.
UpdateTransactionStatus(k, s) ==
    /\ status' = [status EXCEPT ![k] = s]
    /\ UNCHANGED <<body, events, cached>>

CreateTransactionEvent(k, e) ==
    /\ events' = [events EXCEPT ![k] = @ \cup {e}]
    /\ UNCHANGED <<body, status, cached>>

SetTransactionStatus(k, s) ==
    /\ cached' = [cached EXCEPT ![k] = s]
    /\ UNCHANGED <<body, status, events>>

\* Mutant: entries are stored without a TTL.
CacheNeverExpires(k) == FALSE /\ SetTransactionStatus(k, "none")

\* The entry's TTL passes.
CacheExpires(k) ==
    /\ cached[k] # "none"
    /\ SetTransactionStatus(k, "none")

StoreTypeOK ==
    /\ body \in [Keys -> Requests \cup {NoRequest}]
    /\ status \in [Keys -> RowStatus]
    /\ events \in [Keys -> SUBSET EventTypes]
    /\ cached \in [Keys -> CachedStatus]
    /\ \A k \in Keys : status[k] = "absent" <=> body[k] = NoRequest
=============================================================================
