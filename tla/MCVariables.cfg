SPECIFICATION ExprSpec
CONSTANTS
    Blocks = {24, 32}
    Sizes = {4, 8}
    FIFO_SIZE = 2
    MaxSteps = 3
    MaxCalls = 3
    CELL = 8
    WORD = 2
    SEGMENT = 2
    STRING_LIMIT = 4
    Statics <- MCStatics
    HeapCells <- MCHeapCells
    Program <- MCProgram
    Type <- MCType
    Var <- MCVar
    Parent <- MCParent
    ScopeAt <- MCScopeAt
    LineAt <- MCLineAt
    FlagAt <- MCFlagAt
    CallAt <- MCCallAt
    FrameBase <- MCFrameBase
    Tree <- MCTree
    MaxTraced = 3
    MaxRequests = 2
    MaxWork = 3
INVARIANTS
    PointerVerdictExact
    ShownExact
    EvaluatedExact
CHECK_DEADLOCK FALSE
