CONSTANTS
    NCpu = 3
    Boot = 2
    X2ApicSupported = FALSE
    IcrDrainsStores = FALSE
    Iterations = 3
SPECIFICATION FairSpec
PROPERTY Quiesces
