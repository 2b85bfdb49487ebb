CONSTANTS
    Fan = 6
    Levels = 3
    Gib4 = 90
    Gib8 = 96
    HeapBase = 2
    HeapEnds = {82, 83, 90}
    Jobs <- MixedJobs
SPECIFICATION Spec
INVARIANTS
    TypeOK
    FreeListSound
    IdentityMapped
    IoPagesMapped
    TakesNoMore
PROPERTY ImplementsAddressSpace
