CONSTANTS
    Requests = {r1, r2}
    LockTTL = 3
    LegacyTimeout = 2
    ReleaseTimeout = 2
    FillTimeout = 2
    NegativeTTL = 10
    WaitTimeout = 1
    ReplyDelay = 3
    Free = Free
    Orphan = Orphan
SPECIFICATION Spec
INVARIANT OneFallback
