CONSTANTS
    Jobs = {j1, j2}
    Workers = {w1, w2}
    Malformed = {j2}
    MaxRetries = 1
    MaxFaults = 2
    MaxRestarts = 1
    NoMsg = NoMsg
SPECIFICATION FairSpec
INVARIANTS
    TypeOK
    NoJobVanishes
    DeadOnlyAfterExhaustion
    RunsBoundedByFaults
PROPERTIES
    JobsConclude
CHECK_DEADLOCK FALSE
