CONSTANTS
    k1 = k1
    Jobs = {k1}
    Requests <- OneTransfer
    Provisioned <- OneTransfer
    Clients = {c1, c2}
    Workers = {w1}
    Readers = {}
    MaxRetries = 1
    MaxFaults = 0
    MaxRestarts = 0
    CodeOf <- ShopCodes
    ById <- ShopIds
    Unknown = "unknown"
    NoMerchant = NoMerchant
    Malformed = {}
    NoRequest = NoRequest
    NoMsg = NoMsg
SPECIFICATION Spec
INVARIANTS
    ConflictMeansMismatch
CHECK_DEADLOCK FALSE
