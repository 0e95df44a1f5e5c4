CONSTANTS
    Requests = {r1, r2}
    LockTTL = 2
    LegacyTimeout = 1
    ReleaseTimeout = 0
    FillTimeout = 1
    NegativeTTL = 1
    WaitTimeout = 1
    ReplyDelay = 1
    Free = Free
    Orphan = Orphan
    Local = r1
    Others = {o1}
    FailureThreshold = 2
    SuccessThreshold = 1
    OpenTimeout = 1
SPECIFICATION ServiceSpec
INVARIANTS TypeOK FallbacksAreSpaced
PROPERTIES NotFoundIsRecent LockIsReleased LookupsAnswered CircuitRecovers
