------------------------- MODULE AccountReadsProofs -------------------------
(***************************************************************************)
(* Proofs about AccountReads and the Sessions under it, for any number of  *)
(* devices, any session life, TTL, refresh timeout, payments and faults:   *)
(* types, the one local account, how old a served balance may be, and what *)
(* ends or orphans a legacy session.                                       *)
(***************************************************************************)
EXTENDS AccountReads, TLAPS

AllSteps == SessionSteps \cup ReadSteps

\* A session token, like a login about to store one, names the account there is.
Provisioned(c) ==
    tokenLeft[c] > 0 \/ pc[c] = "store" => accountRow # NoAccount /\ local[c] = accountRow

\* The token is deleted only once the legacy session is over.
EndedFirst(c) == pc[c] = "delete" => ~legacyLive[c]

\* No TTL runs out before the legacy session: not the one computed by a login, which is that of
\* a session with time left, nor the one of the stored token.
TokenOutlives(c) ==
    /\ pc[c] \in LoginSteps \ {"login", "granted"} => ttl[c] > 0 /\ ttl[c] >= legacyLeft[c]
    /\ tokenLeft[c] > 0 => tokenLeft[c] >= legacyLeft[c]

\* A login that reloads a row finds it, unless a call has failed.
ReloadFinds(c) ==
    /\ pc[c] = "reloadAccount" /\ accountRow = NoAccount => faults > 0
    /\ pc[c] = "reloadUser" /\ ~userRow => faults > 0

SessionSound(c) == Provisioned(c) /\ EndedFirst(c) /\ TokenOutlives(c) /\ ReloadFinds(c)

SessionInv == \A c \in Clients : SessionSound(c)

\* The time since a balance was replaced counts only for one that was.
CurrentIsNew == \A v \in Versions : v >= balance => outdated[v] = 0

\* What a refresh has read was replaced, if at all, since it read it.
RefreshIsNew(c) ==
    Refreshing(c) =>
        seen[c] <= balance /\ (seen[c] = balance \/ outdated[seen[c]] <= refreshAge[c])

\* The older the snapshot, the less is left of its TTL.
SnapshotAges ==
    cached # NoBalance =>
        /\ cachedLeft > 0 /\ cached <= balance
        /\ cached = balance \/ outdated[cached] + cachedLeft <= Staleness

BalanceInv == CurrentIsNew /\ (\A c \in Clients : RefreshIsNew(c)) /\ SnapshotAges

AccountInv == TypeOK /\ SessionInv /\ BalanceInv

-----------------------------------------------------------------------------
(* Types *)

SessionTypes == SessionTypeOK(AllSteps)

\* A step of a login, a session check or a logout keeps the types of the session variables.
LEMMA SessionStepTypes ==
    ASSUME TypeOK, NEW c \in Clients, SessionStep(c)
    PROVE  SessionTypes'
<1>. USE SessionAssumption DEF TypeOK, SessionTypeOK, SessionTypes, AllSteps, SessionSteps, ReadSteps,
         LoginSteps, Goto, Step, Fault, Follow, rowVars, grantVars
<1>1. CASE Register(c)
  <2>1. pc' \in [Clients -> AllSteps] /\ faults' \in 0..MaxFaults
    BY <1>1 DEF Register
  <2>. QED
    BY <1>1, <2>1 DEF Register
<1>2. CASE Login(c)          BY <1>2 DEF Login
<1>3. CASE LegacyLogin(c)
  <2>1. \E p \in AllSteps : Step(c, p) \/ Fault(c, p)
    BY <1>3 DEF LegacyLogin
  <2>2. pc' \in [Clients -> AllSteps] /\ faults' \in 0..MaxFaults
    BY <2>1
  <2>3. legacyLeft' \in [Clients -> -1..Life] /\ tokenLeft' \in [Clients -> 0..Life]
    BY <1>3 DEF LegacyLogin
  <2>4. legacyLive' \in [Clients -> BOOLEAN]
    BY <1>3 DEF LegacyLogin
  <2>. QED
    BY <1>3, <2>2, <2>3, <2>4 DEF LegacyLogin
<1>4. CASE ComputeTTL(c)     BY <1>4 DEF ComputeTTL
<1>5. CASE GetAccountProfile(c) BY <1>5 DEF GetAccountProfile
<1>6. CASE GetAccountByNumber(c)
  BY <1>6 DEF GetAccountByNumber, FindAccount, UseAccount
<1>7. CASE GetUserByPhoneNumber(c)
  BY <1>7 DEF GetUserByPhoneNumber, FindUser
<1>8. CASE CreateUser(c)
  <2>1. pc' \in [Clients -> AllSteps] /\ faults' \in 0..MaxFaults
    <3>1. \E p \in AllSteps : Step(c, p) \/ Fault(c, p)
      BY <1>8 DEF CreateUser
    <3>. QED
      BY <3>1
  <2>2. userRow' \in BOOLEAN
    BY <1>8, Zenon DEF CreateUser
  <2>. QED
    BY <1>8, <2>1, <2>2 DEF CreateUser
<1>9. CASE CreateAccount(c)  BY <1>9 DEF CreateAccount, UseAccount
<1>10. CASE StoreSession(c)  BY <1>10 DEF StoreSession
<1>11. CASE GetSession(c)    BY <1>11 DEF GetSession
<1>12. CASE AskLogout(c)     BY <1>12 DEF AskLogout
<1>13. CASE LoadSession(c)   BY <1>13 DEF LoadSession
<1>14. CASE LegacyLogout(c)
  <2>1. pc' \in [Clients -> AllSteps] /\ faults' \in 0..MaxFaults
    BY <1>14 DEF LegacyLogout, LogoutGoesOn
  <2>. QED
    BY <1>14, <2>1 DEF LegacyLogout
<1>15. CASE DeleteSession(c) BY <1>15 DEF DeleteSession
<1>16. CASE InvalidateSession(c) BY <1>16 DEF InvalidateSession
<1>. QED
  BY <1>1, <1>2, <1>3, <1>4, <1>5, <1>6, <1>7, <1>8, <1>9, <1>10, <1>11, <1>12, <1>13, <1>14,
     <1>15, <1>16
     DEF SessionStep, IssueSession, Provision, Logout

BalanceTypes ==
    /\ balance \in Versions
    /\ outdated \in [Versions -> 0..Staleness]
    /\ cached \in Versions \cup {NoBalance}
    /\ cachedLeft \in 0..BalanceTTL
    /\ snapshot \in Versions
    /\ seen \in [Clients -> Versions]
    /\ refreshAge \in [Clients -> 0..RefreshTimeout]

\* The types, by component.
LEMMA TypeParts == TypeOK <=> SessionTypes /\ BalanceTypes
BY DEF TypeOK, SessionTypes, BalanceTypes, AllSteps

\* A step of GetBalance keeps the types.
LEMMA GetBalanceTypes ==
    ASSUME TypeOK, NEW c \in Clients, GetBalance(c)
    PROVE  TypeOK'
<1>1. SessionTypes /\ BalanceTypes
  BY TypeParts
<1>2. SessionTypes'
  <2>1. UNCHANGED <<rowVars, grantVars>> /\ faults' = faults
    BY DEF GetBalance, ResolveAccount, ReadBalanceCache, LegacyBalance, UpdateAccountBalance,
           SetAccountBalance, EndRefresh, Quiet, Step, rowVars, grantVars
  <2>2. \E p \in AllSteps : pc' = [pc EXCEPT ![c] = p]
    BY DEF GetBalance, ResolveAccount, ReadBalanceCache, LegacyBalance, UpdateAccountBalance,
           SetAccountBalance, EndRefresh, Step, Goto, AllSteps, SessionSteps, ReadSteps
  <2>. QED
    BY <1>1, <2>1, <2>2 DEF SessionTypes, SessionTypeOK, rowVars, grantVars
<1>3. BalanceTypes'
  <2>1. /\ 0 \in Versions /\ 0 \in 0..RefreshTimeout /\ BalanceTTL \in 0..BalanceTTL
        /\ seen[c] \in Versions
    BY <1>1, BalanceAssumption DEF BalanceTypes, Versions
  <2>2. /\ \/ UNCHANGED seen
           \/ \E v \in Versions : seen' = [seen EXCEPT ![c] = v]
        /\ \/ UNCHANGED refreshAge
           \/ refreshAge' = [refreshAge EXCEPT ![c] = 0]
        /\ UNCHANGED <<balance, outdated>>
    BY <1>1, <2>1 DEF GetBalance, ResolveAccount, ReadBalanceCache, LegacyBalance,
       UpdateAccountBalance, SetAccountBalance, EndRefresh, balanceVars, BalanceTypes
  <2>3. seen' \in [Clients -> Versions] /\ refreshAge' \in [Clients -> 0..RefreshTimeout]
    BY <1>1, <2>1, <2>2, Zenon DEF BalanceTypes
  <2>4. snapshot' \in Versions
    BY <1>1, <2>1 DEF GetBalance, ResolveAccount, ReadBalanceCache, LegacyBalance,
       UpdateAccountBalance, SetAccountBalance, balanceVars, BalanceTypes
  <2>5. cached' \in Versions \cup {NoBalance} /\ cachedLeft' \in 0..BalanceTTL
    BY <1>1, <2>1 DEF GetBalance, ResolveAccount, ReadBalanceCache, LegacyBalance,
       UpdateAccountBalance, SetAccountBalance, balanceVars, BalanceTypes
  <2>. QED
    BY <1>1, <2>2, <2>3, <2>4, <2>5 DEF BalanceTypes
<1>. QED
  BY <1>2, <1>3 DEF TypeOK, SessionTypes, BalanceTypes, AllSteps

\* Time keeps the types: no TTL falls below zero and no refresh outlasts its timeout.
LEMMA TickTypes ==
    ASSUME TypeOK, Tick
    PROVE  TypeOK'
<1>1. SessionTypes /\ BalanceTypes
  BY TypeParts
<1>2. SessionTypes'
  BY <1>1, SessionAssumption DEF Tick, SessionTick, SessionTypes, SessionTypeOK, Down, rowVars
<1>3. BalanceTypes'
  BY <1>1, BalanceAssumption DEF Tick, BalanceTypes, Versions, Staleness, Down, SnapshotExpires
<1>. QED
  BY <1>2, <1>3 DEF TypeOK, SessionTypes, BalanceTypes, AllSteps

\* The invariant holds of the empty tables and caches.
LEMMA InitAccount == Init => AccountInv
<1>. SUFFICES ASSUME Init PROVE AccountInv
  OBVIOUS
<1>1. TypeOK
  <2>1. SessionTypes
    <3>1. 0 \in 0..Life /\ -1 \in -1..Life /\ 0 \in 0..MaxFaults /\ "out" \in AllSteps
      BY SessionAssumption DEF AllSteps, SessionSteps
    <3>. QED
      BY <3>1 DEF Init, SessionInit, SessionTypes, SessionTypeOK
  <2>2. BalanceTypes
    <3>1. /\ 0 \in Versions /\ 0 \in 0..Staleness /\ 0 \in 0..BalanceTTL
          /\ 0 \in 0..RefreshTimeout
      BY BalanceAssumption DEF Versions, Staleness
    <3>. QED
      BY <3>1 DEF Init, BalanceTypes
  <2>. QED
    BY <2>1, <2>2, TypeParts
<1>2. SessionInv
  BY DEF Init, SessionInit, SessionInv, SessionSound, Provisioned, EndedFirst, TokenOutlives,
         ReloadFinds, LoginSteps
<1>3. BalanceInv
  BY DEF Init, SessionInit, BalanceInv, CurrentIsNew, RefreshIsNew, SnapshotAges, Refreshing
<1>. QED
  BY <1>1, <1>2, <1>3 DEF AccountInv

\* Every step keeps the types.
LEMMA NextTypes ==
    ASSUME TypeOK, [Next]_vars
    PROVE  TypeOK'
<1>1. CASE \E c \in Clients : SessionStep(c) /\ UNCHANGED balanceVars
  <2>1. SessionTypes'
    BY <1>1, SessionStepTypes
  <2>. QED
    BY <1>1, <2>1 DEF TypeOK, SessionTypes, AllSteps, balanceVars
<1>2. CASE \E c \in Clients : GetBalance(c)
  BY <1>2, GetBalanceTypes
<1>3. CASE Pay
  <2>1. SessionTypes'
    BY <1>3 DEF Pay, TypeOK, SessionTypeOK, SessionTypes, AllSteps, sessionVars, rowVars, grantVars
  <2>2. balance' \in Versions
    BY <1>3, BalanceAssumption DEF Pay, TypeOK, Versions
  <2>. QED
    BY <1>3, <2>1, <2>2 DEF Pay, TypeOK, SessionTypes, AllSteps
<1>4. CASE DeleteAccountBalance
  BY <1>4, BalanceAssumption
     DEF DeleteAccountBalance, TypeOK, SessionTypeOK, sessionVars, rowVars, grantVars
<1>5. CASE Tick
  BY <1>5, TickTypes
<1>6. CASE UNCHANGED vars
  BY <1>6 DEF vars, TypeOK, SessionTypeOK, sessionVars, balanceVars, rowVars, grantVars
<1>. QED
  BY <1>1, <1>2, <1>3, <1>4, <1>5, <1>6 DEF Next

-----------------------------------------------------------------------------
(* Sessions *)

\* Rows are inserted and never change, and faults only add up.
RowsGrow ==
    /\ accountRow # NoAccount => accountRow' = accountRow
    /\ userRow => userRow'
    /\ faults' >= faults

\* Nothing of client c's session changes.
SessionStays(c) ==
    /\ pc'[c] = pc[c] /\ ttl'[c] = ttl[c] /\ local'[c] = local[c]
    /\ legacyLive'[c] = legacyLive[c] /\ legacyLeft'[c] = legacyLeft[c]
    /\ tokenLeft'[c] = tokenLeft[c]

\* A device's session step leaves the other devices' sessions alone and removes no row.
LEMMA SessionStepFrame ==
    ASSUME TypeOK, NEW d \in Clients, SessionStep(d)
    PROVE  RowsGrow /\ \A c \in Clients \ {d} : SessionStays(c)
<1>. USE DEF TypeOK, SessionTypeOK, RowsGrow, SessionStays, Goto, Step, Fault, Follow, rowVars, grantVars
<1>1. CASE Register(d)       BY <1>1 DEF Register
<1>2. CASE Login(d)          BY <1>2 DEF Login
<1>3. CASE LegacyLogin(d)    BY <1>3 DEF LegacyLogin
<1>4. CASE ComputeTTL(d)     BY <1>4 DEF ComputeTTL
<1>5. CASE GetAccountProfile(d) BY <1>5 DEF GetAccountProfile
<1>6. CASE GetAccountByNumber(d)
  BY <1>6 DEF GetAccountByNumber, FindAccount, UseAccount
<1>7. CASE GetUserByPhoneNumber(d)
  BY <1>7 DEF GetUserByPhoneNumber, FindUser
<1>8. CASE CreateUser(d)
  <2>1. userRow => userRow'
    BY <1>8, Zenon DEF CreateUser
  <2>2. UNCHANGED <<accountRow, grantVars>> /\ \E p : Step(d, p) \/ Fault(d, p)
    BY <1>8 DEF CreateUser
  <2>. QED
    BY <2>1, <2>2
<1>9. CASE CreateAccount(d)  BY <1>9 DEF CreateAccount, UseAccount
<1>10. CASE StoreSession(d)  BY <1>10 DEF StoreSession
<1>11. CASE GetSession(d)    BY <1>11 DEF GetSession
<1>12. CASE AskLogout(d)     BY <1>12 DEF AskLogout
<1>13. CASE LoadSession(d)   BY <1>13 DEF LoadSession
<1>14. CASE LegacyLogout(d)  BY <1>14 DEF LegacyLogout
<1>15. CASE DeleteSession(d) BY <1>15 DEF DeleteSession
<1>16. CASE InvalidateSession(d) BY <1>16 DEF InvalidateSession
<1>. QED
  BY <1>1, <1>2, <1>3, <1>4, <1>5, <1>6, <1>7, <1>8, <1>9, <1>10, <1>11, <1>12, <1>13, <1>14,
     <1>15, <1>16
     DEF SessionStep, IssueSession, Provision, Logout

\* A session that does not change stays sound while others insert rows and calls fail.
LEMMA SoundStays ==
    ASSUME NEW c \in Clients, TypeOK, TypeOK', SessionSound(c), RowsGrow, SessionStays(c)
    PROVE  SessionSound(c)'
BY DEF SessionSound, Provisioned, EndedFirst, TokenOutlives, ReloadFinds, RowsGrow, SessionStays,
       TypeOK, SessionTypeOK

\* The client's own step keeps its session sound.
LEMMA SoundStep ==
    ASSUME NEW c \in Clients, TypeOK, SessionSound(c), SessionStep(c)
    PROVE  SessionSound(c)'
<1>. USE SessionAssumption DEF TypeOK, SessionTypeOK, SessionSound, Provisioned, EndedFirst, TokenOutlives, ReloadFinds,
         LoginSteps, Goto, Step, Fault, Follow, rowVars, grantVars
<1>1. CASE Register(c)       BY <1>1 DEF Register
<1>2. CASE Login(c)          BY <1>2 DEF Login
<1>3. CASE LegacyLogin(c)    BY <1>3 DEF LegacyLogin
<1>4. CASE ComputeTTL(c)     BY <1>4 DEF ComputeTTL
<1>5. CASE GetAccountProfile(c) BY <1>5 DEF GetAccountProfile
<1>6. CASE GetAccountByNumber(c)
  BY <1>6 DEF GetAccountByNumber, FindAccount, UseAccount
<1>7. CASE GetUserByPhoneNumber(c)
  BY <1>7 DEF GetUserByPhoneNumber, FindUser
<1>8. CASE CreateUser(c)
  <2>1. userRow => userRow'
    BY <1>8, Zenon DEF CreateUser
  <2>2. /\ UNCHANGED <<accountRow, grantVars>>
        /\ \/ Step(c, "createAccount")
           \/ userRow /\ Step(c, "reloadUser")
           \/ Fault(c, "reloadUser")
    BY <1>8 DEF CreateUser
  <2>3. pc[c] = "createUser"
    BY <1>8 DEF CreateUser
  <2>. QED
    BY <2>1, <2>2, <2>3
<1>9. CASE CreateAccount(c)  BY <1>9 DEF CreateAccount, UseAccount
<1>10. CASE StoreSession(c)  BY <1>10 DEF StoreSession
<1>11. CASE GetSession(c)    BY <1>11 DEF GetSession
<1>12. CASE AskLogout(c)     BY <1>12 DEF AskLogout
<1>13. CASE LoadSession(c)   BY <1>13 DEF LoadSession
<1>14. CASE LegacyLogout(c)  BY <1>14 DEF LegacyLogout, LogoutGoesOn
<1>15. CASE DeleteSession(c) BY <1>15 DEF DeleteSession
<1>16. CASE InvalidateSession(c) BY <1>16 DEF InvalidateSession
<1>. QED
  BY <1>1, <1>2, <1>3, <1>4, <1>5, <1>6, <1>7, <1>8, <1>9, <1>10, <1>11, <1>12, <1>13, <1>14,
     <1>15, <1>16
     DEF SessionStep, IssueSession, Provision, Logout

\* Time takes as much from the legacy session as from the token and the computed TTL.
LEMMA SoundTick ==
    ASSUME NEW c \in Clients, TypeOK, SessionSound(c), SessionTick
    PROVE  SessionSound(c)'
BY DEF TypeOK, SessionTypeOK, SessionSound, Provisioned, EndedFirst, TokenOutlives, ReloadFinds,
       SessionTick, Down, rowVars

\* A balance read leaves the session alone but for where the client is.
LEMMA ReadFrame ==
    ASSUME TypeOK, NEW d \in Clients, GetBalance(d)
    PROVE  /\ RowsGrow /\ UNCHANGED <<rowVars, grantVars, faults>>
           /\ pc' = [pc EXCEPT ![d] = pc'[d]]
           /\ pc[d] \in ReadSteps \cup {"authorised"} /\ pc'[d] \in ReadSteps \cup {"in"}
<1>1. \E p \in ReadSteps \cup {"in"} : Step(d, p)
  BY DEF GetBalance, ResolveAccount, ReadBalanceCache, LegacyBalance, UpdateAccountBalance,
         SetAccountBalance, EndRefresh, ReadSteps
<1>2. UNCHANGED <<rowVars, grantVars>> /\ pc[d] \in ReadSteps \cup {"authorised"}
  BY DEF GetBalance, ResolveAccount, ReadBalanceCache, LegacyBalance, UpdateAccountBalance,
         SetAccountBalance, Quiet, rowVars, grantVars, ReadSteps
<1>. QED
  BY <1>1, <1>2 DEF TypeOK, SessionTypeOK, RowsGrow, Step, Goto, rowVars

\* Every step keeps every session sound.
LEMMA NextSound ==
    ASSUME TypeOK, SessionInv, [Next]_vars
    PROVE  SessionInv'
<1>. SUFFICES ASSUME NEW c \in Clients PROVE SessionSound(c)'
  BY DEF SessionInv
<1>0. SessionSound(c) /\ TypeOK'
  BY NextTypes DEF SessionInv
<1>1. ASSUME NEW d \in Clients, SessionStep(d)
      PROVE  SessionSound(c)'
  BY <1>0, <1>1, SoundStep, SessionStepFrame, SoundStays
<1>2. ASSUME NEW d \in Clients, GetBalance(d)
      PROVE  SessionSound(c)'
  BY <1>0, <1>2, ReadFrame
     DEF TypeOK, SessionTypeOK, SessionSound, Provisioned, EndedFirst, TokenOutlives, ReloadFinds,
         ReadSteps, LoginSteps, rowVars, grantVars
<1>3. CASE Pay \/ DeleteAccountBalance \/ UNCHANGED vars
  <2>1. UNCHANGED sessionVars
    BY <1>3 DEF Pay, DeleteAccountBalance, vars
  <2>2. RowsGrow /\ SessionStays(c)
    BY <2>1 DEF RowsGrow, SessionStays, sessionVars, rowVars, grantVars, TypeOK, SessionTypeOK
  <2>. QED
    BY <1>0, <2>2, SoundStays
<1>4. CASE Tick
  BY <1>0, <1>4, SoundTick DEF Tick
<1>. QED
  BY <1>1, <1>2, <1>3, <1>4 DEF Next

-----------------------------------------------------------------------------
(* Balances *)

\* A step that leaves the balances alone keeps them sound, as long as nobody begins to hold a
\* balance it has not read.
LEMMA BalanceStays ==
    ASSUME TypeOK, BalanceInv, UNCHANGED balanceVars,
           \A c \in Clients : Refreshing(c)' => Refreshing(c)
    PROVE  BalanceInv'
BY DEF BalanceInv, CurrentIsNew, RefreshIsNew, SnapshotAges, balanceVars

\* No session step puts a client into the middle of a refresh.
LEMMA SessionStepReads ==
    ASSUME TypeOK, NEW d \in Clients, SessionStep(d), NEW c \in Clients, Refreshing(c)'
    PROVE  Refreshing(c)
<1>. USE DEF Refreshing, TypeOK, SessionTypeOK, Goto, Step, Fault, Follow
<1>1. CASE c # d
  BY <1>1, SessionStepFrame DEF SessionStays
<1>2. CASE c = d
  <2>. USE <1>2 DEF SessionStep, IssueSession, Provision, Logout
  <2>1. CASE Register(d) \/ Login(d) \/ LegacyLogin(d) \/ ComputeTTL(d) \/ GetAccountProfile(d)
    BY <2>1 DEF Register, Login, LegacyLogin, ComputeTTL, GetAccountProfile
  <2>2. CASE Provision(d) \/ StoreSession(d)
    BY <2>2 DEF GetAccountByNumber, GetUserByPhoneNumber, CreateUser, CreateAccount, StoreSession,
                FindAccount, FindUser, UseAccount
  <2>3. CASE GetSession(d) \/ AskLogout(d) \/ Logout(d) \/ InvalidateSession(d)
    BY <2>3 DEF GetSession, AskLogout, LoadSession, LegacyLogout, DeleteSession, InvalidateSession
  <2>. QED
    BY <2>1, <2>2, <2>3
<1>. QED
  BY <1>1, <1>2

\* A read stores no balance older than the refresh that read it.
LEMMA ReadBalances ==
    ASSUME TypeOK, BalanceInv, NEW d \in Clients, GetBalance(d)
    PROVE  BalanceInv'
<1>0. UNCHANGED <<balance, outdated>>
  BY DEF GetBalance, ResolveAccount, ReadBalanceCache, LegacyBalance, UpdateAccountBalance,
         SetAccountBalance, balanceVars
<1>1. CurrentIsNew'
  BY <1>0 DEF BalanceInv, CurrentIsNew
<1>2. ASSUME NEW c \in Clients PROVE RefreshIsNew(c)'
  <2>1. CASE c # d
    <3>1. seen'[c] = seen[c] /\ refreshAge'[c] = refreshAge[c] /\ pc'[c] = pc[c]
      BY <2>1 DEF TypeOK, SessionTypeOK, GetBalance, ResolveAccount, ReadBalanceCache,
         LegacyBalance, UpdateAccountBalance, SetAccountBalance, EndRefresh, Step, Goto, balanceVars
    <3>. QED
      BY <1>0, <3>1 DEF BalanceInv, RefreshIsNew, Refreshing
  <2>2. CASE c = d
    <3>. USE <2>2 DEF TypeOK, SessionTypeOK, RefreshIsNew, Refreshing, Step, Goto, EndRefresh
    <3>1. CASE ResolveAccount(d) \/ ReadBalanceCache(d)
      BY <3>1 DEF ResolveAccount, ReadBalanceCache
    <3>2. CASE LegacyBalance(d)
      <4>1. CASE pc'[d] = "update"
        <5>1. seen'[d] = balance
          BY <3>2, <4>1 DEF LegacyBalance
        <5>. QED
          BY <1>0, <5>1, BalanceAssumption DEF Versions
      <4>2. CASE pc'[d] # "update"
        BY <3>2, <4>2 DEF LegacyBalance
      <4>. QED
        BY <4>1, <4>2
    <3>3. CASE UpdateAccountBalance(d)
      BY <1>0, <3>3 DEF BalanceInv, UpdateAccountBalance
    <3>4. CASE SetAccountBalance(d)
      BY <3>4 DEF SetAccountBalance
    <3>. QED
      BY <3>1, <3>2, <3>3, <3>4 DEF GetBalance
  <2>. QED
    BY <2>1, <2>2
<1>3. SnapshotAges'
  <2>1. CASE UNCHANGED <<cached, cachedLeft>>
    BY <1>0, <2>1 DEF BalanceInv, SnapshotAges
  <2>2. CASE SetAccountBalance(d) /\ cached' = seen[d] /\ cachedLeft' = BalanceTTL
    <3>1. /\ seen[d] <= balance /\ seen[d] \in Versions
          /\ seen[d] = balance \/ outdated[seen[d]] <= refreshAge[d]
      BY <2>2 DEF BalanceInv, RefreshIsNew, Refreshing, SetAccountBalance, TypeOK
    <3>2. /\ outdated[seen[d]] \in 0..Staleness /\ refreshAge[d] \in 0..RefreshTimeout
      BY <3>1 DEF TypeOK
    <3>3. seen[d] = balance \/ outdated[seen[d]] + BalanceTTL <= Staleness
      BY <3>1, <3>2, BalanceAssumption DEF Staleness
    <3>. QED
      BY <1>0, <2>2, <3>1, <3>3, BalanceAssumption DEF SnapshotAges
  <2>. QED
    BY <2>1, <2>2 DEF GetBalance, ResolveAccount, ReadBalanceCache, LegacyBalance,
       UpdateAccountBalance, SetAccountBalance, balanceVars
<1>. QED
  BY <1>1, <1>2, <1>3 DEF BalanceInv

\* A payment starts the clock of the balance it replaces at zero.
LEMMA PayBalances ==
    ASSUME TypeOK, BalanceInv, Pay
    PROVE  BalanceInv'
<1>1. balance \in Nat /\ balance' = balance + 1 /\ UNCHANGED <<outdated, cached, cachedLeft, seen, refreshAge, pc>>
  BY BalanceAssumption DEF Pay, TypeOK, Versions, sessionVars
<1>2. CurrentIsNew'
  BY <1>1 DEF BalanceInv, CurrentIsNew, Versions
<1>3. ASSUME NEW c \in Clients, Refreshing(c)' PROVE RefreshIsNew(c)'
  <2>1. seen[c] \in Versions /\ refreshAge[c] \in Nat
    BY BalanceAssumption DEF TypeOK
  <2>2. seen[c] <= balance /\ (seen[c] = balance \/ outdated[seen[c]] <= refreshAge[c])
    BY <1>1, <1>3 DEF BalanceInv, RefreshIsNew, Refreshing
  <2>3. seen[c] = balance => outdated[seen[c]] = 0
    BY <1>1, <2>1 DEF BalanceInv, CurrentIsNew
  <2>. QED
    BY <1>1, <2>1, <2>2, <2>3 DEF RefreshIsNew, Versions
<1>4. ASSUME cached # NoBalance PROVE SnapshotAges'
  <2>1. /\ cached \in Versions /\ cachedLeft \in 0..BalanceTTL
        /\ cachedLeft > 0 /\ cached <= balance
        /\ cached = balance \/ outdated[cached] + cachedLeft <= Staleness
    BY <1>4 DEF TypeOK, BalanceInv, SnapshotAges
  <2>2. cached = balance => outdated[cached] = 0
    BY <1>1, <2>1 DEF BalanceInv, CurrentIsNew
  <2>3. outdated[cached] + cachedLeft <= Staleness
    BY <2>1, <2>2, BalanceAssumption DEF Staleness
  <2>. QED
    BY <1>1, <2>1, <2>3 DEF SnapshotAges, Versions
<1>. QED
  BY <1>1, <1>2, <1>3, <1>4 DEF BalanceInv, RefreshIsNew, SnapshotAges

\* Time ages a replaced balance, the refresh that holds it and its snapshot alike.
LEMMA TickBalances ==
    ASSUME TypeOK, BalanceInv, Tick
    PROVE  BalanceInv'
<1>1. /\ UNCHANGED <<balance, seen, pc>> /\ balance \in Nat
      /\ \A v \in Versions : outdated[v] \in Nat /\ outdated'[v] \in {outdated[v], outdated[v] + 1}
      /\ \A v \in Versions : v >= balance => outdated'[v] = outdated[v]
  <2>1. UNCHANGED <<balance, seen, pc>> /\ balance \in Nat
    BY BalanceAssumption DEF Tick, SessionTick, TypeOK, Versions
  <2>2. ASSUME NEW v \in Versions
        PROVE  /\ outdated[v] \in Nat /\ outdated'[v] \in {outdated[v], outdated[v] + 1}
               /\ v >= balance => outdated'[v] = outdated[v]
    <3>1. outdated'[v] = IF v < balance /\ outdated[v] < Staleness THEN outdated[v] + 1 ELSE outdated[v]
      BY DEF Tick
    <3>2. outdated[v] \in 0..Staleness
      BY DEF TypeOK
    <3>3. Staleness \in Nat /\ v \in Nat
      BY BalanceAssumption DEF Staleness, Versions
    <3>. QED
      BY <2>1, <3>1, <3>2, <3>3
  <2>. QED
    BY <2>1, <2>2
<1>2. CurrentIsNew'
  BY <1>1 DEF BalanceInv, CurrentIsNew
<1>3. ASSUME NEW c \in Clients, Refreshing(c)' PROVE RefreshIsNew(c)'
  <2>1. Refreshing(c) /\ refreshAge'[c] = refreshAge[c] + 1
    BY <1>1, <1>3 DEF Refreshing, Tick
  <2>2. seen[c] \in Versions /\ refreshAge[c] \in Nat
    BY BalanceAssumption DEF TypeOK
  <2>3. seen[c] <= balance /\ (seen[c] = balance \/ outdated[seen[c]] <= refreshAge[c])
    BY <2>1 DEF BalanceInv, RefreshIsNew
  <2>. QED
    BY <1>1, <2>1, <2>2, <2>3 DEF RefreshIsNew
<1>4. ASSUME cached' # NoBalance PROVE SnapshotAges'
  <2>1. cached' = cached /\ cached # NoBalance /\ cachedLeft # 1
    BY <1>4 DEF Tick, SnapshotExpires
  <2>2. /\ cached \in Versions /\ cachedLeft \in Nat
        /\ cachedLeft > 0 /\ cached <= balance
        /\ cached = balance \/ outdated[cached] + cachedLeft <= Staleness
    BY <2>1, BalanceAssumption DEF TypeOK, BalanceInv, SnapshotAges
  <2>3. cachedLeft' = cachedLeft - 1 /\ cachedLeft' > 0
    BY <2>1, <2>2 DEF Tick, Down
  <2>4. Staleness \in Nat
    BY BalanceAssumption DEF Staleness
  <2>. QED
    BY <1>1, <2>1, <2>2, <2>3, <2>4 DEF SnapshotAges
<1>. QED
  BY <1>2, <1>3, <1>4 DEF BalanceInv, RefreshIsNew, SnapshotAges

\* Every step keeps the balances sound.
LEMMA NextBalances ==
    ASSUME TypeOK, BalanceInv, [Next]_vars
    PROVE  BalanceInv'
<1>1. ASSUME NEW d \in Clients, SessionStep(d), UNCHANGED balanceVars PROVE BalanceInv'
  BY <1>1, SessionStepReads, BalanceStays
<1>2. ASSUME NEW d \in Clients, GetBalance(d) PROVE BalanceInv'
  BY <1>2, ReadBalances
<1>3. CASE Pay
  BY <1>3, PayBalances
<1>4. CASE DeleteAccountBalance
  BY <1>4 DEF DeleteAccountBalance, BalanceInv, CurrentIsNew, RefreshIsNew, SnapshotAges,
              Refreshing, sessionVars
<1>5. CASE Tick
  BY <1>5, TickBalances
<1>6. CASE UNCHANGED vars
  BY <1>6, BalanceStays DEF vars, sessionVars, Refreshing
<1>. QED
  BY <1>1, <1>2, <1>3, <1>4, <1>5, <1>6 DEF Next

-----------------------------------------------------------------------------
(* Theorems *)

\* The invariant behind the theorems below.
THEOREM AccountSafe == Spec => []AccountInv
<1>1. Init => AccountInv
  BY InitAccount
<1>2. AccountInv /\ [Next]_vars => AccountInv'
  BY NextTypes, NextSound, NextBalances DEF AccountInv
<1>. QED
  BY <1>1, <1>2, PTL DEF Spec

\* The variables keep their types, for any constants: TTLs and legacy expiries stay within the
\* life of a session, and a refresh within its timeout.
THEOREM TypesHold == Spec => []TypeOK
<1>1. AccountInv => TypeOK
  BY DEF AccountInv
<1>. QED
  BY <1>1, AccountSafe, PTL

\* However many devices log in at once, and whichever of their inserts fail, every session
\* token names the customer's one local account.
THEOREM TokensNameOneAccount == Spec => []OneLocalAccount
<1>1. AccountInv => OneLocalAccount
  BY DEF AccountInv, SessionInv, SessionSound, Provisioned, OneLocalAccount
<1>. QED
  BY <1>1, AccountSafe, PTL

\* A balance served from Redis is less than RefreshTimeout + BalanceTTL out of date, for any
\* TTL and timeout and however refreshes, payments and invalidations interleave.
THEOREM ServedBalanceIsRecent == Spec => []BalanceIsRecent
<1>1. ASSUME AccountInv PROVE BalanceIsRecent
  <2>. SUFFICES ASSUME cached # NoBalance
                PROVE  cached = balance \/ outdated[cached] < Staleness
    BY DEF BalanceIsRecent
  <2>1. /\ cachedLeft > 0
        /\ cached = balance \/ outdated[cached] + cachedLeft <= Staleness
    BY <1>1 DEF AccountInv, BalanceInv, SnapshotAges
  <2>2. cachedLeft \in Nat /\ outdated[cached] \in Nat /\ Staleness \in Nat
    BY <1>1, BalanceAssumption DEF AccountInv, TypeOK, Staleness
  <2>. QED
    BY <2>1, <2>2
<1>. QED
  BY <1>1, AccountSafe, PTL

\* A logout that succeeds has ended the legacy session and the token, whatever failed, was
\* retried or expired before.
THEOREM LogoutEndsBothSessions == Spec => LogoutIsComplete
<1>1. ASSUME AccountInv, [Next]_vars
      PROVE  [\A c \in Clients : LogoutEndsBoth(c)]_vars
  <2>. SUFFICES ASSUME NEW c \in Clients, Next, pc[c] = "delete", pc'[c] = "out"
                PROVE  ~legacyLive[c] /\ tokenLeft'[c] = 0
    BY <1>1 DEF LogoutEndsBoth
  <2>1. ~legacyLive[c]
    BY <1>1 DEF AccountInv, SessionInv, SessionSound, EndedFirst
  <2>2. pc' # pc
    OBVIOUS
  <2>3. TypeOK
    BY <1>1 DEF AccountInv
  <2>4. PICK d \in Clients : SessionStep(d) \/ GetBalance(d)
    BY <2>2 DEF Next, Pay, DeleteAccountBalance, Tick, SessionTick, sessionVars
  <2>5. d = c
    <3>. SUFFICES ASSUME d # c PROVE FALSE
      OBVIOUS
    <3>1. CASE SessionStep(d)
      BY <2>3, <3>1, SessionStepFrame DEF SessionStays
    <3>2. CASE GetBalance(d)
      BY <2>3, <3>2, ReadFrame DEF TypeOK, SessionTypeOK
    <3>. QED
      BY <2>4, <3>1, <3>2
  <2>6. SessionStep(c)
    BY <2>3, <2>4, <2>5, ReadFrame DEF ReadSteps
  <2>7. DeleteSession(c)
    BY <2>2, <2>6 DEF SessionStep, IssueSession, Provision, Logout, Register, Login, LegacyLogin,
       ComputeTTL, GetAccountProfile, GetAccountByNumber, GetUserByPhoneNumber, CreateUser,
       CreateAccount, StoreSession, GetSession, AskLogout, LoadSession, LegacyLogout,
       InvalidateSession
  <2>8. tokenLeft' = [tokenLeft EXCEPT ![c] = 0]
    BY <2>3, <2>7 DEF DeleteSession, Step, Fault, Goto, TypeOK, SessionTypeOK
  <2>. QED
    BY <2>1, <2>3, <2>8 DEF TypeOK, SessionTypeOK
<1>. QED
  BY <1>1, AccountSafe, PTL DEF Spec, LogoutIsComplete
-----------------------------------------------------------------------------
(* Orphaned legacy sessions *)

\* Of the client's own steps, only a fault, a reload after one and an invalidation orphan its
\* legacy session.
LEMMA OwnStepOrphans ==
    ASSUME NEW c \in Clients, TypeOK, SessionSound(c), SessionStep(c)
    PROVE  OrphanedByFault(c)
<1>. SUFFICES ASSUME ~Orphaned(c), Orphaned(c)', faults' <= faults
              PROVE  \/ faults > 0 /\ pc[c] \in {"reloadUser", "reloadAccount"}
                     \/ InvalidateSession(c)
  <2>1. faults \in Nat /\ faults' \in Nat
    BY SessionStepTypes, SessionAssumption DEF SessionTypes, SessionTypeOK, TypeOK
  <2>. QED
    BY <2>1 DEF OrphanedByFault
<1>0. faults \in Nat
  BY SessionAssumption DEF TypeOK, SessionTypeOK
<1>. USE <1>0 DEF Orphaned, LoginSteps, TypeOK, SessionTypeOK, Goto, Step, Fault, Follow
<1>1. CASE Register(c)       BY <1>1 DEF Register, grantVars
<1>2. CASE Login(c)          BY <1>2 DEF Login, grantVars
<1>3. CASE LegacyLogin(c)    BY <1>3 DEF LegacyLogin
<1>4. CASE ComputeTTL(c)     BY <1>4 DEF ComputeTTL
<1>5. CASE GetAccountProfile(c) BY <1>5 DEF GetAccountProfile
<1>6. CASE GetAccountByNumber(c)
  BY <1>6 DEF GetAccountByNumber, FindAccount, UseAccount, SessionSound, ReloadFinds
<1>7. CASE GetUserByPhoneNumber(c)
  BY <1>7 DEF GetUserByPhoneNumber, FindUser, SessionSound, ReloadFinds
<1>8. CASE CreateUser(c)     BY <1>8 DEF CreateUser
<1>9. CASE CreateAccount(c)  BY <1>9 DEF CreateAccount, UseAccount
<1>10. CASE StoreSession(c)  BY <1>10 DEF StoreSession, SessionSound, TokenOutlives
<1>11. CASE GetSession(c)    BY <1>11 DEF GetSession, Expired
<1>12. CASE AskLogout(c)     BY <1>12 DEF AskLogout, grantVars
<1>13. CASE LoadSession(c)   BY <1>13 DEF LoadSession, grantVars
<1>14. CASE LegacyLogout(c)  BY <1>14 DEF LegacyLogout, LogoutGoesOn
<1>15. CASE DeleteSession(c) BY <1>15 DEF DeleteSession, SessionSound, EndedFirst
<1>16. CASE InvalidateSession(c) BY <1>16
<1>. QED
  BY <1>1, <1>2, <1>3, <1>4, <1>5, <1>6, <1>7, <1>8, <1>9, <1>10, <1>11, <1>12, <1>13, <1>14,
     <1>15, <1>16
     DEF SessionStep, IssueSession, Provision, Logout

\* A legacy session that can still be used stays reachable unless a call of its own login or
\* logout fails or its token is invalidated: not when another device provisions first, and not
\* when time passes, because the token outlives the session.
THEOREM OnlyFaultsOrphan == Spec => OrphansAreFaults
<1>1. ASSUME AccountInv, [Next]_vars
      PROVE  [\A c \in Clients : OrphanedByFault(c)]_vars
  <2>. SUFFICES ASSUME NEW c \in Clients, Next PROVE OrphanedByFault(c)
    BY <1>1
  <2>1. TypeOK /\ SessionSound(c)
    BY <1>1 DEF AccountInv, SessionInv
  <2>2. ASSUME SessionStays(c) PROVE OrphanedByFault(c)
    BY <2>2 DEF SessionStays, OrphanedByFault, Orphaned
  <2>3. ASSUME NEW d \in Clients, SessionStep(d) PROVE OrphanedByFault(c)
    BY <2>1, <2>2, <2>3, OwnStepOrphans, SessionStepFrame
  <2>4. ASSUME NEW d \in Clients, GetBalance(d) PROVE OrphanedByFault(c)
    BY <2>1, <2>4, ReadFrame
       DEF OrphanedByFault, Orphaned, TypeOK, SessionTypeOK, ReadSteps, LoginSteps, grantVars
  <2>5. CASE Pay \/ DeleteAccountBalance
    BY <2>2, <2>5 DEF Pay, DeleteAccountBalance, SessionStays, sessionVars, grantVars
  <2>6. CASE Tick
    BY <2>1, <2>6 DEF Tick, SessionTick, Down, OrphanedByFault, Orphaned, SessionSound,
       TokenOutlives, TypeOK, SessionTypeOK
  <2>. QED
    BY <2>3, <2>4, <2>5, <2>6 DEF Next
<1>. QED
  BY <1>1, AccountSafe, PTL DEF Spec, OrphansAreFaults
=============================================================================
