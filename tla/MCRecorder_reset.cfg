\* run.c:588, the first reset of the pages.
CONSTANTS
    Pages <- MCInitialPage
    InitialPages <- MCInitialPage
    Values = {"zero", "one"}
    Zero = "zero"
    None = "none"
    Cpus = {1}
    KernelWrites = FALSE
    MaxSteps = 3
SPECIFICATION Spec
INVARIANTS PagesClearedBeforeStep
