CONSTANTS
    Conns = {c1}
    None = None
    highWaterMark_ = 0
    kInitRetryDelayMs = 1
    kMaxRetryDelayMs = 2
    kCheapPrepend = 2
    kInitialSize = 2
    kExtraSize = 2
    Nul = 0
    MaxBytes = 4
SPECIFICATION Spec
INVARIANTS DestructedWhenClosed
