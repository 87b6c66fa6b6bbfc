CONSTANTS
    Maps <- LoaderMaps
    BufDescs = 4
    MmapEntries = 3
    Blank = Blank
    Nothing = Nothing
    Paths = 2
    MaxSize = 2
    Systems <- LoaderSystems
    MemTop = 21
    Image = 8
    Kernels <- LoaderKernels
    ForeignPhdrs <- MCForeignPhdrs
    ForeignEhdrs <- MCForeignEhdrs
    KernelSpace <- MCKernelSpace
    Zero = Zero
    Junk = Junk
SPECIFICATION LoaderSpec
INVARIANTS KernelIsFirstOffer NotFoundJustified NothingLeftOpen
    KernelIsLoaded OnlySegmentsWritten VerdictIsRight
PROPERTIES EndsIfMapSettles ImplementsHandoff
CHECK_DEADLOCK FALSE
