CONSTANTS
    NCpu = 4
    Boot = 0
    X2ApicSupported = TRUE
    IcrDrainsStores = TRUE
    Iterations = 3
SPECIFICATION FairSpec
INVARIANTS
    IInv
    MmioOnlyInXapic
    OpsMatchMode
    NoFault
    StartedIsUp
    StacksDistinct
    OneHandlerPerCall
    NoCoalescedIpi
PROPERTIES
    SenderGetsResponse
    Quiesces
