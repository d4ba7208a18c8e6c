\* Navigation with breakpoints, over all recordings of at most 5 steps.
CONSTANTS
    Stmts <- MCStmts
    Info <- MCInfo
    Recordings <- MCRecordings5
    BreakRequests <- MCBreakRequests
    StackRequests <- MCNoRequests
    FrameIds = {}
    None = "none"
SPECIFICATION Spec
INVARIANTS PositionCoherent
PROPERTIES StepOutReturns NoBreakpointMissed ReverseContinueUndone
