CONSTANTS
    NBench = 3
    Printing <- SamplePrinting
    MayDie = TRUE
    PipeSize = 4
    LowWord = 4
    PinWait = 6
    PinTime = 5
    PollMax = 2
SPECIFICATION FairSpec
CONSTRAINT FewLosses
INVARIANTS
    TypeOK
    RowsFaithful
    NothingLost
PROPERTIES
    WaitEnds
    HostSettles
