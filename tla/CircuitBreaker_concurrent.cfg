CONSTANTS
    Callers = {c1, c2, c3}
    FailureThreshold = 3
    SuccessThreshold = 2
    OpenTimeout = 2
SPECIFICATION FairSpec
INVARIANTS
    TypeOK
    ClosedBelowThreshold
    ProbesBelongToHalfOpen
PROPERTIES
    LegalTransitions
    Recovers
