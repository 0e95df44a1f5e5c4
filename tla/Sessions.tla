------------------------------ MODULE Sessions ------------------------------
(***************************************************************************)
(* internal/service/auth: DANTE sessions on top of legacy sessions.  Each  *)
(* client is a device of one customer, so that the devices race to         *)
(* provision the customer's local user and account.                        *)
(*                                                                         *)
(* Times count down: legacyLeft[c] is how long the legacy session of c's   *)
(* last login is still valid (-1 once it has expired), tokenLeft[c] what   *)
(* is left of the Redis TTL of c's token (0: no entry).  A login of c that *)
(* the legacy bank grants begins a new session: the earlier one, which c   *)
(* has lost or ended, and a token that Redis still holds for it, are not   *)
(* kept track of from then on.                                             *)
(***************************************************************************)
EXTENDS Integers, LegacyClient

CONSTANTS Clients,     \* devices of one customer
          Life,        \* how long a legacy session lives
          MaxFaults,   \* bound on failed calls
          NoAccount    \* no row in accounts

ASSUME SessionAssumption ==
    /\ Life \in Nat \ {0}
    /\ MaxFaults \in Nat
    /\ NoAccount \notin Clients

VARIABLES registered,   \* the legacy bank knows the customer
          userRow,      \* the customer has a row in users
          accountRow,   \* the row in accounts, named by the login that made it
          pc,           \* pc[c]: where client c is
          ttl,          \* ttl[c]: the TTL computed for c's token
          local,        \* local[c]: LocalAccountID of c's session
          legacyLive,   \* legacyLive[c]: c's legacy session has not been logged out
          legacyLeft,   \* legacyLeft[c]: time to its expiry
          tokenLeft,    \* tokenLeft[c]: remaining TTL of c's token in Redis
          faults        \* calls that failed so far

rowVars == <<registered, userRow, accountRow>>
grantVars == <<ttl, local, legacyLive, legacyLeft, tokenLeft>>
sessionVars == <<rowVars, pc, grantVars, faults>>

LoginSteps == {"login", "granted", "profile", "findAccount", "findUser", "createUser",
               "reloadUser", "createAccount", "reloadAccount", "store"}
SessionSteps == LoginSteps \cup {"out", "in", "authorised", "leaving", "legacyLogout", "delete"}

SessionInit ==
    /\ registered = FALSE /\ userRow = FALSE /\ accountRow = NoAccount
    /\ pc = [c \in Clients |-> "out"]
    /\ ttl = [c \in Clients |-> 0]
    /\ local = [c \in Clients |-> NoAccount]
    /\ legacyLive = [c \in Clients |-> FALSE]
    /\ legacyLeft = [c \in Clients |-> -1]
    /\ tokenLeft = [c \in Clients |-> 0]
    /\ faults = 0

Goto(c, p) == pc' = [pc EXCEPT ![c] = p]

\* A call fails and c goes on at p.
Fault(c, p) ==
    /\ faults < MaxFaults
    /\ faults' = faults + 1
    /\ Goto(c, p)

Step(c, p) == Goto(c, p) /\ UNCHANGED faults

\* c goes to p or, when the legacy client reports an error, to q.
Follow(c, result, p, q) == IF result = "ok" THEN Step(c, p) ELSE Fault(c, q)

-----------------------------------------------------------------------------
(* Register, Login *)

\* A registration whose reply is lost is done all the same, and a second one is refused.
Register(c) ==
    /\ pc[c] = "out"
    /\ \/ /\ ~registered
          /\ registered' = TRUE
          /\ \E result \in DoneResults : Follow(c, result, "login", "out")
       \/ /\ registered
          /\ Step(c, "out")
          /\ UNCHANGED registered
    /\ UNCHANGED <<userRow, accountRow, grantVars>>

Login(c) ==
    /\ pc[c] = "out" /\ registered
    /\ Step(c, "login")
    /\ UNCHANGED <<rowVars, grantVars>>

\* issueSessionFromLegacyLogin begins: the legacy session exists even if the reply is unusable.
LegacyLogin(c) ==
    /\ pc[c] = "login"
    /\ \/ /\ legacyLive' = [legacyLive EXCEPT ![c] = TRUE]
          /\ legacyLeft' = [legacyLeft EXCEPT ![c] = Life]
          /\ tokenLeft' = [tokenLeft EXCEPT ![c] = 0]
          /\ \E result \in DoneResults : Follow(c, result, "granted", "out")
       \/ /\ \E result \in RefusedResults("INVALID_CREDENTIALS") :
               IF result = "INVALID_CREDENTIALS" THEN Step(c, "out") ELSE Fault(c, "out")
          /\ UNCHANGED <<legacyLive, legacyLeft, tokenLeft>>
    /\ UNCHANGED <<rowVars, ttl, local>>

\* Mutant: an expired legacy session is not refused.
ComputeTTLUnchecked(c) ==
    /\ pc[c] = "granted"
    /\ Step(c, "profile")
    /\ ttl' = [ttl EXCEPT ![c] = legacyLeft[c]]
    /\ UNCHANGED <<rowVars, local, legacyLive, legacyLeft, tokenLeft>>

\* Mutant: the TTL keeps a margin to the legacy expiry.
ComputeTTLWithMargin(c) ==
    /\ pc[c] = "granted"
    /\ IF legacyLeft[c] <= 0
         THEN Step(c, "out") /\ UNCHANGED ttl
         ELSE Step(c, "profile") /\ ttl' = [ttl EXCEPT ![c] = legacyLeft[c] - 1]
    /\ UNCHANGED <<rowVars, local, legacyLive, legacyLeft, tokenLeft>>

\* The TTL is computed here and used after the profile call and the provisioning.
ComputeTTL(c) ==
    /\ pc[c] = "granted"
    /\ IF legacyLeft[c] <= 0
         THEN Step(c, "out") /\ UNCHANGED ttl
         ELSE Step(c, "profile") /\ ttl' = [ttl EXCEPT ![c] = legacyLeft[c]]
    /\ UNCHANGED <<rowVars, local, legacyLive, legacyLeft, tokenLeft>>

GetAccountProfile(c) ==
    /\ pc[c] = "profile"
    /\ \E result \in DoneResults : Follow(c, result, "findAccount", "out")
    /\ UNCHANGED <<rowVars, grantVars>>

-----------------------------------------------------------------------------
(* ensureAccountProvisioned *)

UseAccount(c, a) ==
    /\ local' = [local EXCEPT ![c] = a]
    /\ Step(c, "store")

FindAccount(c, missing) ==
    \/ accountRow # NoAccount /\ UseAccount(c, accountRow)
    \/ accountRow = NoAccount /\ Step(c, missing) /\ UNCHANGED local
    \/ Fault(c, "out") /\ UNCHANGED local

FindUser(c, missing) ==
    \/ userRow /\ Step(c, "createAccount")
    \/ ~userRow /\ Step(c, missing)
    \/ Fault(c, "out")

GetAccountByNumber(c) ==
    /\ \/ pc[c] = "findAccount" /\ FindAccount(c, "findUser")
       \/ pc[c] = "reloadAccount" /\ FindAccount(c, "out")
    /\ UNCHANGED <<rowVars, ttl, legacyLive, legacyLeft, tokenLeft>>

GetUserByPhoneNumber(c) ==
    /\ \/ pc[c] = "findUser" /\ FindUser(c, "createUser")
       \/ pc[c] = "reloadUser" /\ FindUser(c, "out")
    /\ UNCHANGED <<rowVars, grantVars>>

\* phone_number is UNIQUE: the loser of a race, like one whose insert failed, reloads.
CreateUser(c) ==
    /\ pc[c] = "createUser"
    /\ \/ ~userRow /\ userRow' = TRUE /\ Step(c, "createAccount")
       \/ userRow /\ UNCHANGED userRow /\ Step(c, "reloadUser")
       \/ userRow' \in {userRow, TRUE} /\ Fault(c, "reloadUser")
    /\ UNCHANGED <<registered, accountRow, grantVars>>

\* Mutant: account_number is not UNIQUE.
CreateAccountAgain(c) ==
    /\ pc[c] = "createAccount"
    /\ accountRow' = c /\ UseAccount(c, c)
    /\ UNCHANGED <<registered, userRow, ttl, legacyLive, legacyLeft, tokenLeft>>

\* account_number is UNIQUE as well.
CreateAccount(c) ==
    /\ pc[c] = "createAccount"
    /\ \/ accountRow = NoAccount /\ accountRow' = c /\ UseAccount(c, c)
       \/ accountRow # NoAccount /\ Step(c, "reloadAccount") /\ UNCHANGED <<accountRow, local>>
       \/ /\ accountRow' \in IF accountRow = NoAccount THEN {NoAccount, c} ELSE {accountRow}
          /\ Fault(c, "reloadAccount")
          /\ UNCHANGED local
    /\ UNCHANGED <<registered, userRow, ttl, legacyLive, legacyLeft, tokenLeft>>

\* SetSession may fail after Redis stored the token, which then nobody knows.
StoreSession(c) ==
    /\ pc[c] = "store"
    /\ \/ Step(c, "in") /\ tokenLeft' = [tokenLeft EXCEPT ![c] = ttl[c]]
       \/ Fault(c, "out") /\ tokenLeft' \in {tokenLeft, [tokenLeft EXCEPT ![c] = ttl[c]]}
    /\ ttl' = [ttl EXCEPT ![c] = 0]
    /\ UNCHANGED <<rowVars, local, legacyLive, legacyLeft>>

-----------------------------------------------------------------------------
(* GetSession, Logout *)

\* LegacySessionExpiry before now.
Expired(c) == legacyLeft[c] < 0

\* An expired session is deleted, if Redis lets it.
GetSession(c) ==
    /\ pc[c] = "in"
    /\ \/ tokenLeft[c] = 0 /\ Step(c, "out") /\ UNCHANGED tokenLeft
       \/ /\ tokenLeft[c] > 0 /\ Expired(c)
          /\ Step(c, "out")
          /\ tokenLeft' \in {tokenLeft, [tokenLeft EXCEPT ![c] = 0]}
       \/ tokenLeft[c] > 0 /\ ~Expired(c) /\ Step(c, "authorised") /\ UNCHANGED tokenLeft
       \/ Fault(c, "in") /\ UNCHANGED tokenLeft
    /\ UNCHANGED <<rowVars, ttl, local, legacyLive, legacyLeft>>

\* The client asks to be logged out, and asks again after an error.
AskLogout(c) ==
    /\ pc[c] = "in"
    /\ Step(c, "leaving")
    /\ UNCHANGED <<rowVars, grantVars>>

LoadSession(c) ==
    /\ pc[c] = "leaving"
    /\ \/ tokenLeft[c] = 0 /\ Step(c, "out")
       \/ tokenLeft[c] > 0 /\ Step(c, "legacyLogout")
       \/ Fault(c, "leaving")
    /\ UNCHANGED <<rowVars, grantVars>>

\* Mutant: an INVALID_SESSION answer is an error like any other.
LogoutGoesOnOnlyIfOK(result) == result = "ok"
\* Mutant: no error of the legacy logout stops DANTE's.
LogoutGoesOnAlways(result) == result \in {"ok", "INVALID_SESSION", "error"}

\* The legacy session is gone, now or already.
LogoutGoesOn(result) == result = "ok" \/ result = "INVALID_SESSION"

LegacyLogout(c) ==
    /\ pc[c] = "legacyLogout"
    /\ LET valid == legacyLive[c] /\ ~Expired(c)
       IN  \/ /\ legacyLive' = [legacyLive EXCEPT ![c] = FALSE]
              /\ \E result \in IF valid THEN DoneResults ELSE RefusedResults("INVALID_SESSION") :
                   \/ LogoutGoesOn(result) /\ Step(c, "delete")
                   \/ ~LogoutGoesOn(result) /\ result = "error" /\ Fault(c, "leaving")
                   \/ ~LogoutGoesOn(result) /\ result # "error" /\ Step(c, "leaving")
           \/ /\ IF LogoutGoesOn("error") THEN Step(c, "delete") ELSE Fault(c, "leaving")
              /\ UNCHANGED legacyLive
    /\ UNCHANGED <<rowVars, ttl, local, legacyLeft, tokenLeft>>

DeleteSession(c) ==
    /\ pc[c] = "delete"
    /\ \/ Step(c, "out") /\ tokenLeft' = [tokenLeft EXCEPT ![c] = 0]
       \/ Fault(c, "leaving") /\ tokenLeft' \in {tokenLeft, [tokenLeft EXCEPT ![c] = 0]}
    /\ UNCHANGED <<rowVars, ttl, local, legacyLive, legacyLeft>>

\* POST /internal/cache/invalidate with a session token.
InvalidateSession(c) ==
    /\ tokenLeft[c] > 0
    /\ tokenLeft' = [tokenLeft EXCEPT ![c] = 0]
    /\ UNCHANGED <<rowVars, pc, ttl, local, legacyLive, legacyLeft, faults>>

Down(n, floor) == IF n > floor THEN n - 1 ELSE n

SessionTick ==
    /\ legacyLeft' = [c \in Clients |-> Down(legacyLeft[c], -1)]
    /\ tokenLeft' = [c \in Clients |-> Down(tokenLeft[c], 0)]
    /\ UNCHANGED <<rowVars, pc, ttl, local, legacyLive, faults>>

Provision(c) ==
    GetAccountByNumber(c) \/ GetUserByPhoneNumber(c) \/ CreateUser(c) \/ CreateAccount(c)

IssueSession(c) ==
    LegacyLogin(c) \/ ComputeTTL(c) \/ GetAccountProfile(c) \/ Provision(c) \/ StoreSession(c)

Logout(c) == LoadSession(c) \/ LegacyLogout(c) \/ DeleteSession(c)

SessionStep(c) ==
    \/ Register(c) \/ Login(c) \/ IssueSession(c)
    \/ GetSession(c) \/ AskLogout(c) \/ Logout(c) \/ InvalidateSession(c)

-----------------------------------------------------------------------------
SessionTypeOK(steps) ==
    /\ registered \in BOOLEAN /\ userRow \in BOOLEAN
    /\ accountRow \in Clients \cup {NoAccount}
    /\ pc \in [Clients -> steps]
    /\ ttl \in [Clients -> 0..Life]
    /\ local \in [Clients -> Clients \cup {NoAccount}]
    /\ legacyLive \in [Clients -> BOOLEAN]
    /\ legacyLeft \in [Clients -> -1..Life]
    /\ tokenLeft \in [Clients -> 0..Life]
    /\ faults \in 0..MaxFaults

\* Logins that race to create the user and the account, or whose inserts fail half way, end up
\* with one and the same local account in every token.
OneLocalAccount == \A c \in Clients : tokenLeft[c] > 0 => local[c] = accountRow

\* When a logout succeeds, the legacy session is over and the token is gone, through any
\* retries, lost replies and expiries.
LogoutEndsBoth(c) ==
    pc[c] = "delete" /\ pc'[c] = "out" =>
        (legacyLive[c] => Expired(c)) /\ tokenLeft'[c] = 0

\* c's legacy session is alive, and neither a token nor the login that got it refers to it.
Orphaned(c) ==
    legacyLive[c] /\ legacyLeft[c] > 0 /\ tokenLeft[c] = 0 /\ pc[c] \notin LoginSteps \ {"login"}

\* Only a failed call, of this step or of the insert before a reload that finds nothing, or an
\* operator who invalidates the token orphans a legacy session: no race of the provisioning,
\* expiry of the token, refused login or logout does.
OrphanedByFault(c) ==
    ~Orphaned(c) /\ Orphaned(c)' =>
        \/ faults' > faults
        \/ faults > 0 /\ pc[c] \in {"reloadUser", "reloadAccount"}
        \/ InvalidateSession(c)
=============================================================================
