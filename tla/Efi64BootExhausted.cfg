CONSTANTS
    Maps <- FittingMaps
    BufDescs = 4
    MmapEntries = 3
    Blank = Blank
    Retries = 10
    Nothing = Nothing
SPECIFICATION Spec
INVARIANTS ServicesEndedBeforeConvert
CHECK_DEADLOCK FALSE
