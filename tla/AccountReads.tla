---------------------------- MODULE AccountReads ----------------------------
(***************************************************************************)
(* internal/service/account on top of Sessions: GetBalance serves the      *)
(* Redis snapshot of the balance, or reads the legacy bank and writes      *)
(* PostgreSQL and Redis, while payments change the balance and the payment *)
(* worker deletes the snapshot.  The devices read one account.             *)
(*                                                                         *)
(* A balance is its version: the number of payments executed before it.    *)
(* RefreshTimeout bounds a refresh from the legacy bank's reading to the   *)
(* write in Redis; the code has BalanceTTL 15 s.                           *)
(***************************************************************************)
EXTENDS Sessions

CONSTANTS BalanceTTL,       \* AccountBalanceTTL
          RefreshTimeout,   \* how long a refresh may take
          MaxPayments,      \* bound on payments
          NoBalance         \* no snapshot

ASSUME BalanceAssumption ==
    /\ {BalanceTTL, RefreshTimeout, MaxPayments} \subseteq Nat
    /\ BalanceTTL > 0
    /\ NoBalance \notin Nat

VARIABLES balance,      \* the legacy bank's balance
          outdated,     \* outdated[v]: how long ago balance v was replaced
          cached,       \* the snapshot in Redis
          cachedLeft,   \* its remaining TTL
          snapshot,     \* accounts.balance
          seen,         \* seen[c]: what c's refresh read
          refreshAge    \* refreshAge[c]: how long ago

balanceVars == <<balance, outdated, cached, cachedLeft, snapshot, seen, refreshAge>>
vars == <<sessionVars, balanceVars>>

Versions == 0..MaxPayments
Staleness == RefreshTimeout + BalanceTTL
ReadSteps == {"cache", "refresh", "update", "fill"}

Init ==
    /\ SessionInit
    /\ balance = 0
    /\ outdated = [v \in Versions |-> 0]
    /\ cached = NoBalance /\ cachedLeft = 0
    /\ snapshot = 0
    /\ seen = [c \in Clients |-> 0]
    /\ refreshAge = [c \in Clients |-> 0]

-----------------------------------------------------------------------------
Quiet == UNCHANGED <<rowVars, grantVars>>

\* resolveAuthenticatedLocalAccount and GetBalance's own check: both need the account's row.
\* GetProfile, session inspection and a denied account end here.
ResolveAccount(c) ==
    /\ pc[c] = "authorised"
    /\ \/ accountRow # NoAccount /\ Step(c, "cache")
       \/ Step(c, "in")
    /\ Quiet /\ UNCHANGED balanceVars

ReadBalanceCache(c) ==
    /\ pc[c] = "cache"
    /\ IF cached # NoBalance THEN Step(c, "in") ELSE Step(c, "refresh") \/ Step(c, "in")
    /\ Quiet /\ UNCHANGED balanceVars

\* The request is over and what it read is forgotten.
EndRefresh(c) ==
    /\ Step(c, "in")
    /\ seen' = [seen EXCEPT ![c] = 0]
    /\ refreshAge' = [refreshAge EXCEPT ![c] = 0]

\* legacy.GetBalance; a refused PIN or an error ends the request.
LegacyBalance(c) ==
    /\ pc[c] = "refresh"
    /\ \E result \in DoneResults :
         IF result = "ok"
           THEN /\ seen' = [seen EXCEPT ![c] = balance]
                /\ refreshAge' = [refreshAge EXCEPT ![c] = 0]
                /\ Step(c, "update")
           ELSE EndRefresh(c)
    /\ Quiet /\ UNCHANGED <<balance, outdated, cached, cachedLeft, snapshot>>

UpdateAccountBalance(c) ==
    /\ pc[c] = "update"
    /\ \/ snapshot' = seen[c] /\ Step(c, "fill") /\ UNCHANGED <<seen, refreshAge>>
       \/ snapshot' \in {snapshot, seen[c]} /\ EndRefresh(c)
    /\ Quiet /\ UNCHANGED <<balance, outdated, cached, cachedLeft>>

SetAccountBalance(c) ==
    /\ pc[c] = "fill"
    /\ \/ cached' = seen[c] /\ cachedLeft' = BalanceTTL
       \/ UNCHANGED <<cached, cachedLeft>>
    /\ EndRefresh(c)
    /\ Quiet /\ UNCHANGED <<balance, outdated, snapshot>>

\* A payment worker executes a payment (see PaymentWorker).
Pay ==
    /\ balance < MaxPayments /\ accountRow # NoAccount
    /\ balance' = balance + 1
    /\ UNCHANGED <<sessionVars, outdated, cached, cachedLeft, snapshot, seen, refreshAge>>

\* The worker deletes the snapshot once it has settled a payment, if it gets that far; so does
\* POST /internal/cache/invalidate, at any time.
DeleteAccountBalance ==
    /\ cached # NoBalance
    /\ cached' = NoBalance /\ cachedLeft' = 0
    /\ UNCHANGED <<sessionVars, balance, outdated, snapshot, seen, refreshAge>>

Refreshing(c) == pc[c] \in {"update", "fill"}

\* Mutant: the snapshot is stored without a TTL.
SnapshotNeverExpires == FALSE

SnapshotExpires == cachedLeft = 1

Tick ==
    /\ \A c \in Clients : Refreshing(c) => refreshAge[c] < RefreshTimeout
    /\ SessionTick
    /\ outdated' = [v \in Versions |->
                      IF v < balance /\ outdated[v] < Staleness THEN outdated[v] + 1 ELSE outdated[v]]
    /\ cached' = IF SnapshotExpires THEN NoBalance ELSE cached
    /\ cachedLeft' = Down(cachedLeft, 0)
    /\ refreshAge' = [c \in Clients |-> IF Refreshing(c) THEN refreshAge[c] + 1 ELSE 0]
    /\ UNCHANGED <<balance, snapshot, seen>>

GetBalance(c) ==
    ResolveAccount(c) \/ ReadBalanceCache(c) \/ LegacyBalance(c) \/ UpdateAccountBalance(c)
    \/ SetAccountBalance(c)

Next ==
    \/ \E c \in Clients : (SessionStep(c) /\ UNCHANGED balanceVars) \/ GetBalance(c)
    \/ Pay \/ DeleteAccountBalance \/ Tick

Spec == Init /\ [][Next]_vars

\* A client that wants to log out keeps asking; time may stand still meanwhile.
FairSpec ==
    /\ Spec
    /\ \A c \in Clients : WF_vars(Logout(c) /\ UNCHANGED balanceVars)

-----------------------------------------------------------------------------
TypeOK ==
    /\ SessionTypeOK(SessionSteps \cup ReadSteps)
    /\ balance \in Versions
    /\ outdated \in [Versions -> 0..Staleness]
    /\ cached \in Versions \cup {NoBalance}
    /\ cachedLeft \in 0..BalanceTTL
    /\ snapshot \in Versions
    /\ seen \in [Clients -> Versions]
    /\ refreshAge \in [Clients -> 0..RefreshTimeout]

\* A balance GetBalance serves from Redis was the legacy bank's less than RefreshTimeout +
\* BalanceTTL ago, even if a refresh wrote it after the worker's invalidation.
BalanceIsRecent ==
    cached # NoBalance => cached = balance \/ outdated[cached] < Staleness

\* Whenever a logout succeeds, both sessions are over.
LogoutIsComplete == [][\A c \in Clients : LogoutEndsBoth(c)]_vars

\* A legacy session stays reachable, for its client to use and to end, until it is logged out
\* or expires, unless a call of its login or logout failed or an operator dropped its token.
OrphansAreFaults == [][\A c \in Clients : OrphanedByFault(c)]_vars

\* A logout that is asked for until it succeeds does succeed, though the legacy session may be
\* over already when an earlier attempt failed half way.
LogoutSucceeds == \A c \in Clients : pc[c] = "leaving" ~> pc[c] = "out"
=============================================================================
