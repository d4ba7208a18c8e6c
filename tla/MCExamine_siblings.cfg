\* requests.c:736, two calls on one line.
CONSTANTS
    Stmts <- MCStmts
    Info <- MCInfo
    Recordings <- MCRecordings6
    BreakRequests <- MCNoRequests
    StackRequests <- MCNoRequests
    FrameIds = {}
    None = "none"
SPECIFICATION Spec
PROPERTIES StepBackJumpsOverCalls
