CONSTANTS
    MemSize = 6
    Memories <- SmallMemories
    Byte = {0, 42, 97, 200}
    MaxLen = 3
    IntBits = 6
    LongBits = 8
    BUFSZ = 20
    Jobs <- SmallJobs
SPECIFICATION Spec
INVARIANTS
    MoveKeepsSource
    WritesTarget
    AnswersByPosition
    GlobMatches
    StaysInBuffer
    PrintsExpected
    BinstrFills
