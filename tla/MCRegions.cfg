\* Two addresses in a page; the kernel hands out no address twice.
CONSTANTS
    PAGE_SIZE = 2
    InitialMap <- MCInitialMap
    HeapBase = 1
    HeapTop = 3
    MapPages <- MCMapPages
    Values = {"zero", "one"}
    Zero = "zero"
    Reuse = FALSE
    MaxSteps = 3
    MaxFaults = 1
SPECIFICATION Spec
INVARIANTS TypeOK SearchExact KnownMemoryExact RowsUnique
PROPERTIES HeapGrowthKnown
