\* Frames and variables; a list of frames left by earlier requests and sessions.
CONSTANTS
    Stmts <- MCStmts
    Info <- MCInfo
    Recordings <- MCThreeRecordings
    BreakRequests <- MCNoRequests
    StackRequests <- MCStackRequests
    FrameIds = {0, 1, 2}
    None = "none"
SPECIFICATION Spec
INVARIANTS TypeOK ListedFramesExact LocalsOfFrameNoRecursion
