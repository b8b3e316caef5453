CONSTANTS
    PoolSize = 1
    MaxGets = 1
SPECIFICATION LoopPoolSpec
INVARIANTS QuitBeforeDestructor
CHECK_DEADLOCK FALSE
