CONSTANTS
    NCpu = 2
    Boot = 0
    X2ApicSupported = TRUE
    IcrDrainsStores = FALSE
    Iterations = 1
SPECIFICATION FairSpec
PROPERTY SenderGetsResponse
CHECK_DEADLOCK FALSE
