CONSTANTS
    SECTOR_SIZE = 8
    DIR_ENTRY_SIZE = 4
    FindVolumes <- MCFindVolumes
    ReadVolumes <- MCReadVolumes
    Volumes <- MCReadVolumes
    HostSizes <- MCHostSizes
    Firsts = {0, 2, 3, 268435455}
    FileSizes = {0, 5, 17, 32, 33}
    MaxFileSize = 33
    NoData = NoData
    NoEntry = NoEntry
    NoVolume = NoVolume
SPECIFICATION LoaderSpec
INVARIANTS FilesAreWhole IoSysWhereVbrLooks SearchIsRight ReadOkIsTheFile NoOverrun
    ErrIsJustified KernelIsReadBack
PROPERTIES LoaderEnds
CHECK_DEADLOCK FALSE
