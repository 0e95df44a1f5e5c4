--------------------------- MODULE MerchantService ---------------------------
(***************************************************************************)
(* Merchant lookups as internal/bridge wires them: MerchantLookup whose    *)
(* legacy reader is the CircuitBreakingMerchantClient.  The breaker lives  *)
(* in one process and serves the lookups of all merchants there.  Local is *)
(* this process's lookup of the merchant of MerchantLookup, Others are its *)
(* lookups of other merchants (each under a lock of its own), and the      *)
(* remaining Requests are lookups of the same merchant by other processes, *)
(* whose breakers are part of what their legacy call may come to.          *)
(***************************************************************************)
EXTENDS MerchantLookup

CONSTANTS Local, Others, FailureThreshold, SuccessThreshold, OpenTimeout

ASSUME LocalAssumption == Local \in Requests /\ Local \notin Others

\* NewCircuitBreaker replaces every non-positive setting by a default.
ASSUME SettingsAssumption == {FailureThreshold, SuccessThreshold, OpenTimeout} \subseteq Nat \ {0}

VARIABLES state, failureCount, successCount, openAge, caller

breakerVars == <<state, failureCount, successCount, openAge, caller>>
serviceVars == <<vars, breakerVars>>

Breaker == INSTANCE CircuitBreaker WITH Callers <- {Local} \cup Others

ServiceInit == Init /\ Breaker!Init

\* ExecuteWithValue asks the breaker, then calls the inner reader or returns ErrCircuitOpen.
BeginCall(r) ==
    /\ CallLegacy(r)
    /\ IF r = Local THEN Breaker!Admit(r) \/ Breaker!Block(r) ELSE UNCHANGED breakerVars

InnerDecides(r) ==
    /\ r = Local => caller[r] = "calling"
    /\ LegacyDecides(r)
    /\ UNCHANGED breakerVars

\* The result is recorded, and returned as it is.  ErrNotFound is a failure to the breaker and
\* an answer to the service; ErrCircuitOpen is an error like an outage and is not recorded.
EndCall(r) ==
    /\ LegacyReturns(r)
    /\ \/ r # Local /\ UNCHANGED breakerVars
       \/ /\ r = Local /\ caller[r] = "blocked" /\ got'[r] = "error"
          /\ caller' = [caller EXCEPT ![r] = "idle"]
          /\ UNCHANGED <<state, failureCount, successCount, openAge>>
       \/ r = Local /\ got'[r] = "merchant" /\ Breaker!CallSucceeds(r)
       \/ r = Local /\ got'[r] # "merchant" /\ Breaker!CallFails(r)

GuardedLookup(r) ==
    \/ BeginCall(r) \/ InnerDecides(r) \/ EndCall(r)
    \/ /\ ReadCache(r) \/ ReadRow(r) \/ AcquireMerchantLock(r) \/ WaitForMerchantFill(r) \/ Release(r)
       /\ UNCHANGED breakerVars

\* A lookup of another merchant in this process, unless it is blocked and changes nothing.
OtherCall(o) == Breaker!CallSucceeds(o) \/ Breaker!CallFails(o)
OtherLookup(o) ==
    /\ Breaker!Admit(o) \/ OtherCall(o)
    /\ UNCHANGED vars

\* The breaker is in memory: a new process starts with a closed one.
ProcessDies ==
    /\ Die(Local) \/ (pc[Local] = "idle" /\ fill[Local] = "none" /\ UNCHANGED vars)
    /\ state' = "CLOSED" /\ failureCount' = 0 /\ successCount' = 0 /\ openAge' = OpenTimeout
    /\ caller' = [c \in DOMAIN caller |-> "idle"]

ServiceTick ==
    /\ Tick
    /\ Breaker!Tick \/ (openAge = OpenTimeout /\ UNCHANGED breakerVars)

ServiceNext ==
    \/ \E r \in Requests : GuardedLookup(r) \/ ((Ask(r) \/ FillLands(r)) /\ UNCHANGED breakerVars)
    \/ \E r \in Requests \ {Local} : Die(r) /\ UNCHANGED breakerVars
    \/ \E o \in Others : OtherLookup(o)
    \/ ProcessDies
    \/ (DeleteMerchant \/ Register \/ CreateMerchant) /\ UNCHANGED breakerVars
    \/ ServiceTick

\* Every call ends by its deadline, and time does not stop.
ServiceSpec ==
    /\ ServiceInit /\ [][ServiceNext]_serviceVars
    /\ \A r \in Requests : WF_serviceVars(GuardedLookup(r))
                           /\ WF_serviceVars(FillLands(r) /\ UNCHANGED breakerVars)
    /\ \A o \in Others : WF_serviceVars(OtherCall(o) /\ UNCHANGED vars)
    /\ SF_serviceVars(ServiceTick)

-----------------------------------------------------------------------------
Blocked(r) == pc[r] = "calling" /\ caller[r] = "blocked"

\* Once no call through the breaker fails any more, a time comes from which no lookup is
\* refused by it: late results of other merchants' lookups and deaths of the process included,
\* nothing keeps the breaker shut on a merchant that could be found.
CircuitRecovers ==
    <>[][\A c \in {Local} \cup Others : ~Breaker!CallFails(c)]_serviceVars => <>[]~Blocked(Local)
=============================================================================
