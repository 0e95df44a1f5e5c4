----------------------------- MODULE StatusReads -----------------------------
(***************************************************************************)
(* Asking for the status of a transaction: GetStatus of                    *)
(* service/transaction/status.go, which reads Redis, then PostgreSQL, and  *)
(* after a miss fills the cache from a goroutine that outlives the         *)
(* request.  The status written is the one read before, whatever has       *)
(* happened to the row meanwhile.                                          *)
(***************************************************************************)
EXTENDS TransactionStore

CONSTANTS Readers      \* status requests in flight

VARIABLES reader       \* reader[r]: step, key asked for, status last seen

Reading == [step : {"idle", "cache", "row", "fill"}, key : Keys,
            seen : {"none", "PROCESSING"} \cup Settled]

ReaderInit ==
    \E k \in Keys : reader = [r \in Readers |-> [step |-> "idle", key |-> k, seen |-> "none"]]

\* Reader r's step and what it has seen, after a step that writes nothing.
Sees(r, s, v) ==
    /\ reader' = [reader EXCEPT ![r].step = s, ![r].seen = v]
    /\ Unwritten
    /\ UNCHANGED queueRest

-----------------------------------------------------------------------------
\* A transaction id is known to clients once its row exists.
Ask(r, k) ==
    /\ reader[r].step = "idle"
    /\ status[k] # "absent"
    /\ reader' = [reader EXCEPT ![r] = [step |-> "cache", key |-> k, seen |-> "none"]]
    /\ Unwritten
    /\ UNCHANGED <<queueRest, faults>>

\* A hit answers; a miss goes on to the row; any other Redis error ends the
\* request with an error.
ReadCache(r) ==
    /\ reader[r].step = "cache"
    /\ LET hit == cached[reader[r].key] IN
       \/ Works(Sees(r, IF hit = "none" THEN "row" ELSE "idle", hit))
       \/ Fault /\ Sees(r, "idle", "none")

\* The answer is sent and cacheStatusAsync started.
ReadRow(r) ==
    /\ reader[r].step = "row"
    /\ \/ Works(Sees(r, "fill", status[reader[r].key]))
       \/ Fault /\ Sees(r, "idle", "none")

\* The background write, or its unreported failure.
FillCache(r) ==
    /\ reader[r].step = "fill"
    /\ reader' = [reader EXCEPT ![r].step = "idle"]
    /\ UNCHANGED queueRest
    /\ \/ Works(SetTransactionStatus(reader[r].key, reader[r].seen))
       \/ Fails(SetTransactionStatus(reader[r].key, reader[r].seen), Unwritten)

\* DetailService.GetDetail: the row as it is, one way or the other to an answer.
GetDetail(r, k) ==
    /\ reader[r].step = "idle"
    /\ status[k] # "absent"
    /\ reader' = [reader EXCEPT ![r] = [step |-> "idle", key |-> k, seen |-> status[k]]]
    /\ Unwritten
    /\ UNCHANGED <<queueRest, faults>>

GetStatus(r) == ReadCache(r) \/ ReadRow(r) \/ FillCache(r)

ReaderTypeOK == reader \in [Readers -> Reading]
=============================================================================
