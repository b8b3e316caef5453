CONSTANTS
    Conns = {c1, c2}
    None = None
    highWaterMark_ = 0
    kInitRetryDelayMs = 1
    kMaxRetryDelayMs = 3
    kCheapPrepend = 2
    kInitialSize = 2
    kExtraSize = 2
    Nul = 0
    MaxBytes = 4
SPECIFICATION FairSpec
INVARIANTS OneAttempt ClientKnowsConnection CallbacksPaired StreamReceived StopIsFinal
PROPERTIES DestroyCloses
