SPECIFICATION FairSpec
CONSTANTS
    t1 = t1
    t2 = t2
    t3 = t3
    Tran <- MCTran
    Logs <- MCLogs
    LastLsa = 7
    NumApplier = 3
    PageSize = 3
    Flushes = {5, 8}
    QSize = 2
    MaxFaults = 1
INVARIANTS
    NothingLost
    RequiredAssert
    BlockedOrOvertaken
    DoneWhenAsked
PROPERTIES
    ImplementsReplay
    Replayed
