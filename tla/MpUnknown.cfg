CONSTANTS
    NCPU = 2
    Images <- UnknownImages
SPECIFICATION FairSpec
PROPERTY UnsuitableReported
