------------------------- MODULE TransactionContract -------------------------
(***************************************************************************)
(* What the payment path promises about the transaction of one idempotency *)
(* key, whatever happens inside: it is opened once, for one request that   *)
(* never changes; only an opened transaction is executed; it is settled to *)
(* SUCCESS only if it was executed, and never unsettled.  The contract     *)
(* does not promise that a settled status is final or that a payment is    *)
(* executed once: the code does not keep those promises under faults.      *)
(***************************************************************************)
EXTENDS Integers

CONSTANTS Keys, Requests, NoRequest

VARIABLES body,       \* body[k]: the request stored under k
          status,     \* status[k]: "absent" until k is opened
          executed    \* executed[k]: how often the payment was executed

vars == <<body, status, executed>>

Init ==
    /\ body = [k \in Keys |-> NoRequest]
    /\ status = [k \in Keys |-> "absent"]
    /\ executed = [k \in Keys |-> 0]

Open(k) ==
    /\ status[k] = "absent"
    /\ \E r \in Requests : r.key = k /\ body' = [body EXCEPT ![k] = r]
    /\ status' = [status EXCEPT ![k] = "PROCESSING"]
    /\ UNCHANGED executed

Execute(k) ==
    /\ status[k] # "absent"
    /\ executed' = [executed EXCEPT ![k] = @ + 1]
    /\ UNCHANGED <<body, status>>

Settle(k, s) ==
    /\ status[k] # "absent"
    /\ s = "SUCCESS" => executed[k] > 0
    /\ status' = [status EXCEPT ![k] = s]
    /\ UNCHANGED <<body, executed>>

Next == \E k \in Keys : Open(k) \/ Execute(k) \/ \E s \in {"SUCCESS", "FAILED"} : Settle(k, s)

Spec == Init /\ [][Next]_vars
=============================================================================
