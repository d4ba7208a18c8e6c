\* A page that is mapped from the start and one that the child maps later; the
\* child stays on one CPU and its system calls do not write its memory.
CONSTANTS
    Pages <- MCPages
    InitialPages <- MCInitialPage
    Values = {"zero", "one"}
    Zero = "zero"
    None = "none"
    Cpus = {1}
    KernelWrites = FALSE
    MaxSteps = 4
SPECIFICATION Spec
INVARIANTS TypeOK RecordedMemoryExact PagesClearedAfterFirstStep CallbackIsQuiet NoFaultForgotten NoMappingForgotten
PROPERTIES PastIsFrozen
