CONSTANTS
    PoolSize = 3
    MaxGets = 2
    Workers = {w1, w2}
    Producers = {p1, p2}
    maxQueueSize_ = 2
    MaxTasks = 5
SPECIFICATION MCSpec
INVARIANTS HandedOutLoopsLive DestructorSound AwakeForEveryTask BoundedForOneProducer
PROPERTIES BuildReturns DestructorReturns AcceptedTaskRuns StopReleasesAll
CHECK_DEADLOCK FALSE
