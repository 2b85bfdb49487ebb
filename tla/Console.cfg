CONSTANTS
    ROWS = 3
    COLUMNS = 2
    Cpu = {c1, c2}
    Text <- SmallText
    MaxCalls = 2
SPECIFICATION Spec
INVARIANTS
    TypeOK
    StringsWhole
PROPERTY PrintsOnPaper
