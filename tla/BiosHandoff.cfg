CONSTANTS
    RangeLists <- MCRangeLists
    Slots = 5
    GfxSlot = 5
    MaxEntries = 3
    Modes <- MCModes
    LinearSets <- MCLinearSets
    Seconds = 2
    Timeout = 2
    MaxTicks = 4
    Junk = Junk
SPECIFICATION Spec
INVARIANTS MapTold FramebufferTold PauseIsLong
PROPERTIES ReachesKernel
CHECK_DEADLOCK FALSE
