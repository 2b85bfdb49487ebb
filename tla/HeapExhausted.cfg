CONSTANTS
    Fan = 4
    Levels = 3
    Gib4 = 44
    Gib8 = 52
    HeapBase = 2
    HeapEnds = {20}
    Jobs <- MixedJobs
SPECIFICATION Spec
INVARIANT IdentityMapped
