CONSTANTS
    Slots = 2
    Funcs = 3
    Bars = 6
    Space = 4096
    FirstBase = 3584
    MaxLen = 512
    DefaultLen = 256
    Topologies <- CrowdedMachines
SPECIFICATION PciSpec
INVARIANTS NoOverlap
CHECK_DEADLOCK FALSE
