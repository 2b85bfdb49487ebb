CONSTANTS
    NBench = 1
    Printing <- NonePrints
    MayDie = FALSE
    PipeSize = 50
    LowWord = 4
    PinWait = 6
    PinTime = 5
    PollMax = 1
SPECIFICATION Spec
INVARIANT PinnedBeforeBenchmarks
