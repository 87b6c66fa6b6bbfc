CONSTANTS
    Disks <- MCDisks
    Entries = 2
    ReadTries = 2
    Chunks = 3
    ChunkSectors = 2
    DefaultLba = 1
    NoLba = NoLba
    DiskSectors = 9
    Lbas = {0, 7}
    Counts = {0, 1, 3, 5}
    BufSectors = 5
    MaxSectorsChunk = 2
    Tries = 3
    PacketCountUpdated = FALSE
    NoData = NoData
SPECIFICATION BootSpec
INVARIANTS FirstIoSysRuns FirstChunkLoaded ReadComplete NeverCrashes
PROPERTIES PartitionAgreed ChainEnds ImplementsSectorRead
CHECK_DEADLOCK FALSE
