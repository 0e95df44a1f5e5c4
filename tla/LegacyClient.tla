---------------------------- MODULE LegacyClient ----------------------------
(***************************************************************************)
(* How the SOAP client of internal/legacy classifies what comes back from  *)
(* the legacy bank.  A reply is how the HTTP exchange ended, the first     *)
(* field of the returned value and whether the fields after it are there   *)
(* and parse.  Every operation of the client is a call of callAndRequireOK *)
(* followed by its own check of the fields.                                *)
(***************************************************************************)

\* no answer in time; a status that is not 2xx; a SOAP fault or a body without a return
\* value; a return value
Wire == {"unreachable", "status", "fault", "return"}

Refusals == {"EMAIL_EXISTS", "INVALID_CREDENTIALS", "INVALID_SESSION", "NOT_FOUND", "OTHER"}

Reply == [wire : Wire, head : Refusals \cup {"", "OK"}, complete : BOOLEAN]

\* The response value, or an error.
callOperation(reply) == reply.wire = "return"

\* Everything but OK in the first field is an OperationError.
callAndRequireOK(reply) ==
    IF ~callOperation(reply) \/ reply.head = "" THEN "error"
    ELSE IF reply.head = "OK" THEN "ok" ELSE "refused"

\* Every operation, from Register to GetQrisMerchant: OK with too few or unparsable fields is
\* an error.  A refusal is known by its code, which IsInvalidCredentials, IsInvalidSession,
\* IsEmailExists and isNotFoundResponse look for in the OperationError.
Result(reply) ==
    IF callAndRequireOK(reply) = "ok" /\ ~reply.complete THEN "error"
    ELSE IF callAndRequireOK(reply) = "refused" THEN reply.head ELSE callAndRequireOK(reply)

\* What may come of a call the legacy bank carried out, and of one it refused (external).
DoneResults == {Result(r) : r \in {r \in Reply : r.wire = "return" => r.head \in {"", "OK"}}}
RefusedResults(code) == {Result(r) : r \in {r \in Reply : r.wire = "return" => r.head = code}}
=============================================================================
