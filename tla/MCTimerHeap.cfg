CONSTANTS
    MaxTimers = 7
    Whens = {1, 2}
    Intervals = {0}
    MaxCancels = 1
    MaxNow = 1
    MaxForeign = 0
SPECIFICATION Spec
PROPERTIES ReturnsAllExpired
