CONSTANTS
    MaxTimers = 4
    Whens = {1, 2}
    Intervals = {0, 1}
    MaxCancels = 1
    MaxNow = 2
    MaxForeign = 1
SPECIFICATION FairSpec
INVARIANTS PositionsMatch ArmedForEarliest CancelledStaysCancelled
PROPERTIES ReturnsAllExpired DueTimerRuns
