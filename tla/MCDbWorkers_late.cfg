\* run.c:664, a region that is being added when the child stops.
CONSTANTS
    COMMIT_FREQ = 1
    MaxRows = 1
    MaxSegments = 2
    MayFail = FALSE
SPECIFICATION Spec
INVARIANTS NoWriteAfterDestroy
