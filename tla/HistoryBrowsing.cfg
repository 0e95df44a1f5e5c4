CONSTANTS
    Clients = {c1, c2}
    Readers = {c1, c2}
    AddressOf <- OneAddress
    Burst = 1
    NoLimiter = NoLimiter
    Times = {1, 2}
    Ids = {1, 2, 3}
    Limit = 2
    NoCursor = NoCursor
    MaxRows = 3
SPECIFICATION FairSpec
INVARIANTS TypeOK WithinBudget PagesDescend NothingSkipped
PROPERTY HistoryEnds
