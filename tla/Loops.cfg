CONSTANTS
    l1 = l1
    l2 = l2
    a = a
    Loops = {l1, l2}
    Channels = {a}
    ChannelOf <- OneProject
    Interval = 2
    MaxCrashes = 1
SPECIFICATION FairSpec
INVARIANTS
    OneLoopPerChannel
    ArchivedProjectHasNoLoop
    NoLoopIsLost
PROPERTIES
    Cadence
    WaitingLoopRuns
CHECK_DEADLOCK FALSE
