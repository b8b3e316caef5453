CONSTANTS
    ch_a = ch_a
    ch_b = ch_b
    ch_c = ch_c
    ch_d = ch_d
    NoChan = NoChan
    Chans <- MCChans
    fd_ <- MCFd
    Ready <- MCReady
    kALIGN = 2
    kMax_Bytes = 6
    Objs = 2
    Requests = {1, 6, 7}
    MaxAreas = 2
    MaxLive = 3
VIEW PartsView
SPECIFICATION PartsSpec
INVARIANTS SlotsMatch PollReportsDue Accounted ThrowsOnlyWhenEmpty AreasReturned
CHECK_DEADLOCK FALSE
