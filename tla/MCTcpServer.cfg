CONSTANTS
    Conns = {c1}
    Base = base
    IoLoops = {io1}
    NoLoop = noloop
    NoCall = nocall
    MaxUserSends = 2
    MaxLoopSends = 1
    highWaterMark_ = 3
    kCheapPrepend = 1
    kInitialSize = 2
    kExtraSize = 2
    Nul = nul
SPECIFICATION FairSpec
INVARIANTS CallbacksPaired DestructedWhenDone MapKeepsConnections StreamInOrder WritingIffBuffered
PROPERTIES ClosedIsDestroyed
CHECK_DEADLOCK FALSE
