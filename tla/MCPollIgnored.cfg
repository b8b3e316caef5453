CONSTANTS
    ch_a = ch_a
    ch_b = ch_b
    ch_c = ch_c
    ch_d = ch_d
    NoChan = NoChan
    Chans <- MCChans
    fd_ <- MCFd
    Ready <- MCReady
VIEW MCView
SPECIFICATION Spec
INVARIANTS IgnoredForNow
