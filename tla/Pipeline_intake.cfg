CONSTANTS
    k1 = k1
    Jobs = {k1}
    Requests <- ReusedKey
    Provisioned <- LocalAccounts
    Clients = {c1, c2}
    Workers = {w1}
    Readers = {}
    MaxRetries = 1
    MaxFaults = 1
    MaxRestarts = 1
    CodeOf <- ShopCodes
    ById <- ShopIds
    Unknown = "unknown"
    NoMerchant = NoMerchant
    Malformed = {}
    NoRequest = NoRequest
    NoMsg = NoMsg
SPECIFICATION Spec
INVARIANTS
    TypeOK
    OneCreator
    AcceptedAsStored
    PayeeIsCatalogued
    QRISConflictMeansMismatch
    ProcessingHasOwner
PROPERTIES
    ImplementsContract
SYMMETRY ClientSymmetry
CHECK_DEADLOCK FALSE
