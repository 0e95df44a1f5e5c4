CONSTANTS
    k1 = k1
    Jobs = {k1}
    Requests <- OnePayment
    Provisioned <- OnePayment
    Clients = {c1}
    Workers = {w1}
    Readers = {}
    MaxRetries = 1
    MaxFaults = 1
    MaxRestarts = 0
    CodeOf <- ShopCodes
    ById <- ShopIds
    Unknown = "unknown"
    NoMerchant = NoMerchant
    Malformed = {}
    NoRequest = NoRequest
    NoMsg = NoMsg
SPECIFICATION Spec
INVARIANTS
    FailedMeansNotPaid
CHECK_DEADLOCK FALSE
