CONSTANTS
    kLargeBuffer = 3
    kMaxBuffers = 2
    MaxLines = 7
    MaxStarts = 2
    MaxNow = 2
    rollSize_ = 3
    checkEveryN_ = 2
    flushInterval_ = 0
    kPollPerSeconds = 2
SPECIFICATION FairSpec
INVARIANTS LinesInOrder SparesReturn
PROPERTIES LineReachesDisk StopReturns
CHECK_DEADLOCK FALSE
