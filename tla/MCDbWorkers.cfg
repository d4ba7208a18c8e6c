\* Batches of two rows, so that the third one is left for the last commit, and
\* database operations that fail at any time.
CONSTANTS
    COMMIT_FREQ = 2
    MaxRows = 3
    MaxSegments = 1
    MayFail = TRUE
SPECIFICATION FairSpec
INVARIANTS TypeOK SuccessIsComplete OneWriter
PROPERTIES RecordReturns
