CONSTANTS
    Clients = {c1, c2}
    Life = 1
    MaxFaults = 1
    NoAccount = NoAccount
    BalanceTTL = 1
    RefreshTimeout = 1
    MaxPayments = 1
    NoBalance = NoBalance
SPECIFICATION FairSpec
INVARIANTS TypeOK OneLocalAccount BalanceIsRecent
PROPERTIES LogoutIsComplete OrphansAreFaults LogoutSucceeds
