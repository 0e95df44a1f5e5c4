---------------------------- MODULE PaymentIntake ----------------------------
(***************************************************************************)
(* Accepting a payment: CreateTransaction of the QRIS service (qris.go)    *)
(* and of the transfer service (transfer.go), run by one API goroutine per *)
(* client request.  Both have the same steps, but a QRIS payment resolves  *)
(* its merchant first, and a replay is told from a conflict by the         *)
(* merchant's row or by the events of the transfer.  Clients retry with   *)
(* the same key, so several goroutines may work on one key at once, each   *)
(* step interleaved with the others, with the worker and with status       *)
(* reads.                                                                  *)
(***************************************************************************)
EXTENDS MerchantCatalogue

CONSTANT Provisioned   \* requests whose account has a local row

ASSUME ProvisionedAssumption == Provisioned \subseteq Requests

VARIABLES intake,      \* intake[c]: where c's CreateTransaction is, or its answer
          request,     \* request[c]: what c asked for
          replaying,   \* clients whose key had a row when they looked
          merchant,    \* merchant[c]: the merchant row c resolved
          lost         \* keys whose message was lost although Publish reported success

intakeVars == <<intake, request, replaying, merchant, lost, catalogueVars>>

\* refused: account or merchant not found; error: anything else that went wrong
\* before the row was inserted; aborted: an error after the row was inserted.
Answers == {"created", "replayed", "conflict", "refused", "error", "aborted"}
Creating ==
    {"record", "cache", "publish", "enqueued", "markFailed", "cacheFailed", "queueError"}
IntakeStates ==
    {"idle", "lookup", "find", "askLegacy", "createMerchant", "reloadMerchant",
     "compare", "events", "resolve", "insert"} \cup Creating \cup Answers

IntakeInit ==
    /\ intake = [c \in Clients |-> "idle"]
    /\ request = [c \in Clients |-> NoRequest]
    /\ replaying = {}
    /\ merchant = [c \in Clients |-> NoMerchant]
    /\ lost = {}
    /\ CatalogueInit

Key(c) == request[c].key

\* c's handler goes on at step s, or answers s.
Goto(c, s) ==
    /\ intake' = [intake EXCEPT ![c] = s]
    /\ UNCHANGED <<request, replaying, merchant>>

\* The step leaves the tables, the cache and the queue alone.
Reads == Unwritten /\ UNCHANGED <<queueRest, lost, catalogueVars>>

\* The step leaves the queue and the merchants alone.
Writes == UNCHANGED <<queueRest, lost, catalogueVars>>

-----------------------------------------------------------------------------
Submit(c, r) ==
    /\ intake[c] = "idle"
    /\ intake' = [intake EXCEPT ![c] = "lookup"]
    /\ request' = [request EXCEPT ![c] = r]
    /\ Reads
    /\ UNCHANGED <<faults, replaying, merchant>>

\* GetTransactionByIdempotencyKey.  A QRIS payment needs its merchant in either case.
Lookup(c) ==
    /\ intake[c] = "lookup"
    /\ Reads
    /\ LET exists == status[Key(c)] # "absent"
           qris == request[c].kind = "qris"
       IN  \/ /\ intake' = [intake EXCEPT ![c] =
                    IF qris THEN "find" ELSE IF exists THEN "compare" ELSE "resolve"]
              /\ replaying' = IF exists THEN replaying \cup {c} ELSE replaying
              /\ UNCHANGED <<request, merchant, faults>>
           \/ Fault /\ Goto(c, "error")

-----------------------------------------------------------------------------
(* resolveMerchant *)

\* Mutant: the references are compared, not the merchants they stand for.
qrisReplayMatchesByRef(c, m) ==
    LET b == body[Key(c)] r == request[c]
    IN  b.kind = "qris" /\ b.account = r.account /\ b.target = r.target /\ b.amount = r.amount

\* The row under the key has this account, merchant m and this amount; that of a
\* transfer has no merchant.
qrisReplayMatches(c, m) ==
    LET b == body[Key(c)] r == request[c]
    IN  b.account = r.account /\ payee[Key(c)] = m /\ b.amount = r.amount

\* resolveMerchant returns m: a replay is compared, a new payment inserted.
Resolved(c, m) ==
    IF c \in replaying
    THEN Goto(c, IF qrisReplayMatches(c, m) THEN "replayed" ELSE "conflict")
    ELSE /\ intake' = [intake EXCEPT ![c] = "insert"]
         /\ merchant' = [merchant EXCEPT ![c] = m]
         /\ UNCHANGED <<request, replaying>>

\* The account is loaded, then the merchant by id or by code.
FindMerchant(c) ==
    /\ intake[c] = "find"
    /\ Reads
    /\ LET ref == request[c].target
           m == Catalogued(ref)
       IN  \/ /\ request[c] \notin Provisioned
              /\ Works(Goto(c, IF c \in replaying THEN "error" ELSE "refused"))
           \/ /\ request[c] \in Provisioned /\ m # NoMerchant
              /\ Works(Resolved(c, m))
           \/ /\ request[c] \in Provisioned /\ m = NoMerchant
              /\ Works(Goto(c, IF ref \in ById THEN "refused" ELSE "askLegacy"))
           \/ Fault /\ Goto(c, "error")

Code(c) == CodeOf[request[c].target]

\* No call is made with the row in hand, so several requests may get here.
GetQrisMerchant(c) ==
    /\ intake[c] = "askLegacy"
    /\ Reads
    /\ \E result \in IF Code(c) = Unknown THEN RefusedResults("NOT_FOUND") ELSE DoneResults :
         \/ result = "ok" /\ Works(Goto(c, "createMerchant"))
         \/ result = "NOT_FOUND" /\ Works(Goto(c, "refused"))
         \/ result = "error" /\ Fault /\ Goto(c, "error")

\* Any error of the insert, a unique violation included, leads to a reload.
CreateMerchant(c) ==
    /\ intake[c] = "createMerchant"
    /\ Unwritten
    /\ UNCHANGED <<queueRest, lost, payee>>
    /\ \/ Works(InsertMerchant(c, Code(c))) /\ Resolved(c, c)
       \/ merchants[Code(c)] # NoMerchant /\ Works(UNCHANGED merchants) /\ Goto(c, "reloadMerchant")
       \/ Fails(InsertMerchant(c, Code(c)), UNCHANGED merchants) /\ Goto(c, "reloadMerchant")

ReloadMerchant(c) ==
    /\ intake[c] = "reloadMerchant"
    /\ Reads
    /\ \/ merchants[Code(c)] # NoMerchant /\ Works(Resolved(c, merchants[Code(c)]))
       \/ merchants[Code(c)] = NoMerchant /\ Works(Goto(c, "error"))
       \/ Fault /\ Goto(c, "error")

ResolveMerchant(c) ==
    FindMerchant(c) \/ GetQrisMerchant(c) \/ CreateMerchant(c) \/ ReloadMerchant(c)

-----------------------------------------------------------------------------
\* The row of a transfer names no merchant, and not the destination either.
CompareTransfer(c) ==
    /\ intake[c] = "compare"
    /\ request[c].kind = "transfer"
    /\ Reads
    /\ LET b == body[Key(c)]
           r == request[c]
           same == b.account = r.account /\ b.kind = "transfer" /\ b.amount = r.amount
       IN \/ r \in Provisioned /\ Works(Goto(c, IF same THEN "events" ELSE "conflict"))
          \/ r \notin Provisioned /\ Works(Goto(c, "error"))
          \/ Fault /\ Goto(c, "error")

\* Mutant: the event is looked for, its destination is not compared.
transferReplayMatchesAny(k, r) == "CREATED" \in events[k]

\* The destination is in the metadata of the CREATED
\* event, which its writer took from the same request as the row.
transferReplayMatches(k, r) == "CREATED" \in events[k] /\ body[k].target = r.target

CompareEvents(c) ==
    /\ intake[c] = "events"
    /\ Reads
    /\ \/ Works(Goto(c, IF transferReplayMatches(Key(c), request[c])
                        THEN "replayed" ELSE "conflict"))
       \/ Fault /\ Goto(c, "error")

\* GetAccountByNumber.
Resolve(c) ==
    /\ intake[c] = "resolve"
    /\ Reads
    /\ \/ Works(Goto(c, IF request[c] \in Provisioned THEN "insert" ELSE "refused"))
       \/ Fault /\ Goto(c, "error")

\* c's row is inserted, with the merchant c resolved.
InsertTransaction(c) ==
    /\ InsertRow(request[c])
    /\ payee' = [payee EXCEPT ![Key(c)] = merchant[c]]

\* After the insert, or without it, c goes on at s and no longer needs its merchant.
AfterInsert(c, s) ==
    /\ intake' = [intake EXCEPT ![c] = s]
    /\ merchant' = [merchant EXCEPT ![c] = NoMerchant]
    /\ UNCHANGED <<request, replaying>>

NoInsert == Unwritten /\ UNCHANGED payee

\* A unique violation is an error like any other.
Insert(c) ==
    /\ intake[c] = "insert"
    /\ UNCHANGED <<queueRest, lost, merchants>>
    /\ \/ Works(InsertTransaction(c)) /\ AfterInsert(c, "record")
       \/ status[Key(c)] # "absent" /\ Works(NoInsert) /\ AfterInsert(c, "error")
       \/ Fault /\ NoInsert /\ AfterInsert(c, "error")
       \/ Fault /\ InsertTransaction(c) /\ AfterInsert(c, "aborted")

\* An error from here on returns with the row left in PROCESSING.
RecordCreated(c) ==
    /\ intake[c] = "record"
    /\ Writes
    /\ \/ Works(CreateTransactionEvent(Key(c), "CREATED")) /\ Goto(c, "cache")
       \/ Fails(CreateTransactionEvent(Key(c), "CREATED"), Unwritten) /\ Goto(c, "aborted")

CacheProcessing(c) ==
    /\ intake[c] = "cache"
    /\ Writes
    /\ \/ Works(SetTransactionStatus(Key(c), "PROCESSING")) /\ Goto(c, "publish")
       \/ Fails(SetTransactionStatus(Key(c), "PROCESSING"), Unwritten) /\ Goto(c, "aborted")

\* Publisher confirms are not used: a message lost after the write to the
\* socket is reported as published. An error means the opposite: the client library
\* reports one only if it could not write all frames of the message, and the broker
\* drops an incomplete message, so a publish that fails leaves nothing in the queue.
PublishJob(c) ==
    /\ intake[c] = "publish"
    /\ Unwritten
    /\ UNCHANGED catalogueVars
    /\ \/ Enqueue(Key(c)) /\ Goto(c, "enqueued") /\ UNCHANGED lost
       \/ Fault /\ Goto(c, "enqueued") /\ lost' = lost \cup {Key(c)} /\ UNCHANGED queueRest
       \/ Fault /\ Goto(c, "markFailed") /\ UNCHANGED <<queueRest, lost>>

\* The ENQUEUED event is best effort.
RecordEnqueued(c) ==
    /\ intake[c] = "enqueued"
    /\ Writes
    /\ Goto(c, "created")
    /\ \/ Works(CreateTransactionEvent(Key(c), "ENQUEUED"))
       \/ Fails(CreateTransactionEvent(Key(c), "ENQUEUED"), Unwritten)

\* The publish failed: the row is marked FAILED, the cache follows if that
\* worked, and the caller gets an error in any case.
MarkPublishFailed(c) ==
    /\ intake[c] = "markFailed"
    /\ Writes
    /\ \/ Works(UpdateTransactionStatus(Key(c), "FAILED")) /\ Goto(c, "cacheFailed")
       \/ Fails(UpdateTransactionStatus(Key(c), "FAILED"), Unwritten) /\ Goto(c, "queueError")

CachePublishFailed(c) ==
    /\ intake[c] = "cacheFailed"
    /\ Writes
    /\ Goto(c, "queueError")
    /\ \/ Works(SetTransactionStatus(Key(c), "FAILED"))
       \/ Fails(SetTransactionStatus(Key(c), "FAILED"), Unwritten)

RecordQueueError(c) ==
    /\ intake[c] = "queueError"
    /\ Writes
    /\ Goto(c, "aborted")
    /\ \/ Works(CreateTransactionEvent(Key(c), "QUEUE_ERROR"))
       \/ Fails(CreateTransactionEvent(Key(c), "QUEUE_ERROR"), Unwritten)

\* Where a handler that is cut off leaves its caller.
CutOff(s) ==
    IF s \in Answers \cup {"idle"} THEN s ELSE IF s \in Creating THEN "aborted" ELSE "error"

\* The API process dies in the middle of the handler, or its client goes away: that cancels
\* the request's context, and with it every call that is left.
IntakeCrash(c) ==
    /\ CutOff(intake[c]) # intake[c]
    /\ Fault
    /\ AfterInsert(c, CutOff(intake[c]))
    /\ Reads

\* The steps both services share: everything but the comparison of a replay.
Accept(c) ==
    \/ Resolve(c)
    \/ Insert(c)
    \/ RecordCreated(c)
    \/ CacheProcessing(c)
    \/ PublishJob(c)
    \/ RecordEnqueued(c)
    \/ MarkPublishFailed(c)
    \/ CachePublishFailed(c)
    \/ RecordQueueError(c)

QRISCreateTransaction(c) ==
    /\ request[c] \in Requests
    /\ request[c].kind = "qris"
    /\ Lookup(c) \/ ResolveMerchant(c) \/ Accept(c)

TransferCreateTransaction(c) ==
    /\ request[c] \in Requests
    /\ request[c].kind = "transfer"
    /\ Lookup(c) \/ CompareTransfer(c) \/ CompareEvents(c) \/ Accept(c)

CreateTransaction(c) == QRISCreateTransaction(c) \/ TransferCreateTransaction(c)

IntakeTypeOK ==
    /\ intake \in [Clients -> IntakeStates]
    /\ request \in [Clients -> Requests \cup {NoRequest}]
    /\ replaying \subseteq Clients
    /\ merchant \in [Clients -> Clients \cup {NoMerchant}]
    /\ lost \subseteq Keys
    /\ CatalogueTypeOK
    /\ \A c \in Clients : intake[c] = "idle" <=> request[c] = NoRequest
=============================================================================
