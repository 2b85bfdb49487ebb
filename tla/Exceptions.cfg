CONSTANTS
    Cpu = {boot, ap}
    Boot = boot
    NoCpu = none
    Raisable <- Vectors
    ErrorCodes = {5}
    Table <- TwoEntries
    MaxSteps <- Steps
SPECIFICATION FairSpec
INVARIANTS
    FrameDescribesException
    ResumesIntact
    VectorOfGuarded
PROPERTIES
    EveryExceptionEnds
