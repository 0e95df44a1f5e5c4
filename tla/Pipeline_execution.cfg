CONSTANTS
    k1 = k1
    Jobs = {k1}
    Requests <- OneOfEach
    Provisioned <- OneOfEach
    Clients = {c1}
    Workers = {w1, w2}
    Readers = {r1}
    MaxRetries = 1
    MaxFaults = 1
    MaxRestarts = 0
    CodeOf <- ShopCodes
    ById <- ShopIds
    Unknown = "unknown"
    NoMerchant = NoMerchant
    Malformed = {}
    NoRequest = NoRequest
    NoMsg = NoMsg
SPECIFICATION FairSpec
INVARIANTS
    ExecutionsBoundedByFaults
    FailedNotPaidWithoutFault
    SuccessIsPaid
PROPERTIES
    AcceptedSettles
    CacheConverges
    WorkersStop
CHECK_DEADLOCK FALSE
