CONSTANTS
    MemTop = 21
    Image = 8
    Kernels <- MCKernels
    ForeignPhdrs <- MCForeignPhdrs
    ForeignEhdrs <- MCForeignEhdrs
    KernelSpace <- MCKernelSpace
    Zero = Zero
    Junk = Junk
SPECIFICATION ElfSpec
INVARIANTS KernelInItsSpaceIsLoaded
CHECK_DEADLOCK FALSE
