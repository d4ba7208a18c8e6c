\* The threads wait for each other while the child moves between two CPUs and
\* its system calls write its memory; the contents do not matter here.
CONSTANTS
    Pages <- MCInitialPage
    InitialPages <- MCInitialPage
    Values = {"zero"}
    Zero = "zero"
    None = "none"
    Cpus = {1, 2}
    KernelWrites = TRUE
    MaxSteps = 4
SPECIFICATION FairSpec
INVARIANTS SemaphoresAreGates
PROPERTIES RecordingEnds
