CONSTANTS
    o1 = o1
    o2 = o2
    c1 = c1
    c2 = c2
    c3 = c3
    io1 = io1
    Owner = Owner
    Bridge = Bridge
    None = None
    Others <- MCOthers
    Cbs <- MCCbs
    IoChannels <- MCIoChannels
    MaxQuit = 1
SPECIFICATION FairSpec
INVARIANTS NoLostWakeUp NoLostQuit
PROPERTIES ImplementsExecutor QueuedCallbackRuns QuitEndsLoop
