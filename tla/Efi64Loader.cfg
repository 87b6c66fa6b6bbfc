CONSTANTS
    Maps <- LoaderMaps
    BufDescs = 4
    MmapEntries = 3
    Blank = Blank
    Retries = 2
    Nothing = Nothing
    Slots = 2
    Funcs = 3
    Bars = 6
    Space = 4096
    FirstBase = 3584
    MaxLen = 512
    DefaultLen = 256
    Topologies <- GoodMachines
SPECIFICATION LoaderSpec
INVARIANTS GivesUpOnlyAfterRetries NoOverlap BarsBelow4G FramebufferFollows
PROPERTIES ComesToAnEnd ImplementsHandoff
CHECK_DEADLOCK FALSE
