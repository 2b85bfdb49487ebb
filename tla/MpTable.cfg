CONSTANTS
    NCPU = 2
    Images <- AllImages
SPECIFICATION FairSpec
INVARIANTS
    TypeOK
    CpusAreProcessors
PROPERTY ReturnsIfKnown
