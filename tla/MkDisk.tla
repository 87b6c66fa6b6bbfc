------------------------------- MODULE MkDisk -------------------------------
(***************************************************************************)
(* tools/mkdisk.c: the program that builds the disk image.  main() writes  *)
(* the MBR, formats a FAT32 partition, copies IO.SYS to the reserved       *)
(* sectors, and stores six files and directories; write_file_data() is one *)
(* step per cluster.                                                       *)
(*                                                                         *)
(* The image g_disk is sparse: a sector that was written is a function     *)
(* from offsets to what was put there (a FAT entry, a directory entry, a   *)
(* boot sector, the n-th sector of a file); the others are zero, as        *)
(* calloc() left them.  The sizes of the disk are the code's; SECTOR_SIZE  *)
(* and DIR_ENTRY_SIZE are scaled down.                                     *)
(***************************************************************************)
EXTENDS FatVolume, Sequences, FiniteSetsExt

CONSTANTS
    HostSizes   \* for each input file, the sizes it may have

TOTAL_SECTORS == 524288
PARTITION_START_LBA == 2048
PARTITION_SECTORS == TOTAL_SECTORS - PARTITION_START_LBA
SEC_PER_CLUS == 4
RSVD_SEC_CNT == 32
NUM_FATS == 2
ROOT_CLUS == 2
EndOfChain == 268435455   \* 0x0FFFFFFF
EndMark32 == 268435448    \* 0x0FFFFFF8, the first of the end marks

VARIABLES
    size,   \* the sizes of the input files
    disk,   \* g_disk
    step,   \* how far main() has come: a position in Script
    next,   \* g_next_free_clus
    dirs,   \* the clusters of the directories that exist
    clus,   \* write_file_data: the clusters of the file written so far
    status  \* main()'s exit status: "none", "ok" (0) or "failed" (1)

mkvars == <<size, disk, step, next, dirs, clus, status>>

\* What main() does, in order.
Step(o, n, p) == [op |-> o, name |-> n, in |-> p]
Script == <<Step("read", "", ""), Step("mbr", "", ""), Step("format", "", ""),
            Step("iosys", "", ""), Step("fat", "", ""),
            Step("file", "IO.SYS", "/"), Step("file", "GEMIOS.ELF", "/"),
            Step("dir", "EFI", "/"), Step("dir", "BOOT", "EFI"),
            Step("file", "BOOTIA32.EFI", "BOOT"), Step("file", "BOOTX64.EFI", "BOOT"),
            Step("write", "", "")>>

Doing(op) == status = "none" /\ Script[step].op = op
Advance == step' = step + 1 /\ UNCHANGED status

MkInit ==
    /\ size \in HostSizes
    /\ disk = <<>>
    /\ step = 1
    /\ next = 3
    /\ dirs = [d \in {"/"} |-> ROOT_CLUS]
    /\ clus = <<>>
    /\ status = "none"

-----------------------------------------------------------------------------
(* The image and its FAT                                                   *)

CeilDiv(a, b) == (a + b - 1) \div b

g_fat_start == PARTITION_START_LBA + RSVD_SEC_CNT
g_fat_size ==
    CeilDiv(((PARTITION_SECTORS - RSVD_SEC_CNT) \div SEC_PER_CLUS) * 4, SECTOR_SIZE)
g_data_start == g_fat_start + NUM_FATS * g_fat_size

MkClusterToLba(c) == g_data_start + (c - 2) * SEC_PER_CLUS

Sector(d, lba) == IF lba \in DOMAIN d THEN d[lba] ELSE <<>>
Put(d, lba, off, x) ==
    [l \in DOMAIN d \cup {lba} |->
        IF l = lba
        THEN [o \in DOMAIN Sector(d, lba) \cup {off} |-> IF o = off THEN x ELSE d[lba][o]]
        ELSE d[l]]

\* A sector that holds x and nothing else.
Only(x) == [o \in {0} |-> x]

\* memcpy() of sectors from .. from + n - 1 of a file.
CopyFile(d, lba, f, from, n) ==
    [l \in DOMAIN d \cup (lba .. lba + n - 1) |->
        IF l \in lba .. lba + n - 1 THEN Only([file |-> f, n |-> from + (l - lba)]) ELSE d[l]]

\* fat32_set_fat_entry: both FATs.
SetFatEntry_FirstOnly(d, c, v) ==
    LET off == c * 4  sec == g_fat_start + off \div SECTOR_SIZE
    IN  Put(d, sec, off % SECTOR_SIZE, [fat |-> v % 268435456])
SetFatEntry(d, c, v) ==
    LET off == c * 4  sec == g_fat_start + off \div SECTOR_SIZE
    IN  Put(Put(d, sec, off % SECTOR_SIZE, [fat |-> v % 268435456]),
            sec + g_fat_size, off % SECTOR_SIZE, [fat |-> v % 268435456])

\* allocate_cluster: the cluster c is the end of its chain, and cleared.
Allocated(d, c) ==
    LET e == SetFatEntry(d, c, EndOfChain)  lba == MkClusterToLba(c)
    IN  [l \in DOMAIN e \ (lba .. lba + SEC_PER_CLUS - 1) |-> e[l]]

\* add_dir_entry: the first free slot of the directory's one cluster.  A full
\* directory is an error nobody looks at.
WithEntry(d, c, entry) ==
    LET Lba(k) == MkClusterToLba(c) + k \div EntriesPerSector
        Off(k) == (k % EntriesPerSector) * DIR_ENTRY_SIZE
        free == {k \in 0 .. SEC_PER_CLUS * EntriesPerSector - 1 :
                    Off(k) \notin DOMAIN Sector(d, Lba(k))}
    IN  IF free = {} THEN d ELSE Put(d, Lba(Min(free)), Off(Min(free)), entry)

-----------------------------------------------------------------------------
(* main(): the boot sectors                                                *)

\* The buffers are allocated and the input files read; one failure ends the
\* program.
ReadHostFiles ==
    /\ Doing("read")
    /\ \/ Advance
       \/ status' = "failed" /\ UNCHANGED step
    /\ UNCHANGED <<size, disk, next, dirs, clus>>

WriteMbr ==
    /\ Doing("mbr")
    /\ disk' = Put(disk, 0, 446, [active |-> TRUE, start |-> PARTITION_START_LBA])
    /\ Advance
    /\ UNCHANGED <<size, next, dirs, clus>>

\* The file vbr.bin has the name "gemiboot" where the VBR's scan looks for a
\* mark; the program puts its own in its place.
Bpb_OemKept ==
    [oem_name |-> "gemiboot", bytes_per_sec |-> SECTOR_SIZE, sec_per_clus |-> SEC_PER_CLUS,
     rsvd_sec_cnt |-> RSVD_SEC_CNT, num_fats |-> NUM_FATS, root_ent_cnt |-> 0,
     tot_sec_16 |-> 0, tot_sec_32 |-> PARTITION_SECTORS, fat_sz_16 |-> 0,
     fat_sz_32 |-> g_fat_size, root_clus |-> ROOT_CLUS, fs_info |-> 1, bk_boot_sec |-> 6]
Bpb ==
    [oem_name |-> "GEMIBOOT", bytes_per_sec |-> SECTOR_SIZE, sec_per_clus |-> SEC_PER_CLUS,
     rsvd_sec_cnt |-> RSVD_SEC_CNT, num_fats |-> NUM_FATS, root_ent_cnt |-> 0,
     tot_sec_16 |-> 0, tot_sec_32 |-> PARTITION_SECTORS, fat_sz_16 |-> 0,
     fat_sz_32 |-> g_fat_size, root_clus |-> ROOT_CLUS, fs_info |-> 1, bk_boot_sec |-> 6]

\* The boot sector and FSInfo, and their backups.
Format ==
    /\ Doing("format")
    /\ LET p == PARTITION_START_LBA
       IN  disk' = [l \in DOMAIN disk \cup {p, p + 1, p + 6, p + 7} |->
                       IF l \in {p, p + 6} THEN Only(Bpb)
                       ELSE IF l \in {p + 1, p + 7} THEN Only([fsinfo |-> TRUE])
                       ELSE disk[l]]
    /\ Advance
    /\ UNCHANGED <<size, next, dirs, clus>>

\* IO.SYS also goes to the reserved sectors, if it fits there.
CopyIoSys_AnySize ==
    /\ Doing("iosys")
    /\ LET n == CeilDiv(size["IO.SYS"], SECTOR_SIZE)
       IN  disk' = CopyFile(disk, PARTITION_START_LBA + 2, "IO.SYS", 0, n)
    /\ Advance
    /\ UNCHANGED <<size, next, dirs, clus>>
CopyIoSys ==
    /\ Doing("iosys")
    /\ LET n == CeilDiv(size["IO.SYS"], SECTOR_SIZE)
       IN  disk' = IF 2 + n < RSVD_SEC_CNT
                   THEN CopyFile(disk, PARTITION_START_LBA + 2, "IO.SYS", 0, n)
                   ELSE disk
    /\ Advance
    /\ UNCHANGED <<size, next, dirs, clus>>

InitFat ==
    /\ Doing("fat")
    /\ disk' = SetFatEntry(SetFatEntry(SetFatEntry(disk,
                  0, 268435448), 1, EndOfChain), ROOT_CLUS, EndOfChain)
    /\ Advance
    /\ UNCHANGED <<size, next, dirs, clus>>

-----------------------------------------------------------------------------
(* main(): files and directories                                           *)

Size == size[Script[step].name]
Clusters(n) == IF n = 0 THEN 1 ELSE CeilDiv(n, SEC_PER_CLUS * SECTOR_SIZE)

\* The input files are those of a build: there is an IO.SYS, and the three
\* directories and four files fit the volume (main() does not check it).
\* SECTOR_SIZE is 512 in the code; scaled down to 8 the volume is FAT32 still.
DataClusters ==
    (PARTITION_SECTORS - RSVD_SEC_CNT - NUM_FATS * g_fat_size) \div SEC_PER_CLUS
ASSUME MkDiskAssumption ==
    /\ SECTOR_SIZE \in 8 .. 512
    /\ \A sz \in HostSizes :
          /\ \A f \in {"IO.SYS", "GEMIOS.ELF", "BOOTIA32.EFI", "BOOTX64.EFI"} : sz[f] \in Nat
          /\ sz["IO.SYS"] > 0
          /\ 3 + Clusters(sz["IO.SYS"]) + Clusters(sz["GEMIOS.ELF"])
                + Clusters(sz["BOOTIA32.EFI"]) + Clusters(sz["BOOTX64.EFI"]) <= DataClusters

\* write_file_data: a cluster is allocated, linked to the one before, filled.
WriteCluster ==
    /\ Doing("file")
    /\ Len(clus) < Clusters(Size)
    /\ LET new == Allocated(disk, next)
           linked == IF clus = <<>> THEN new
                     ELSE SetFatEntry(new, clus[Len(clus)], next)
           copied == Len(clus) * SEC_PER_CLUS
           left == CeilDiv(Size, SECTOR_SIZE) - copied
       IN  disk' = CopyFile(linked, MkClusterToLba(next), Script[step].name, copied,
                            IF left < SEC_PER_CLUS THEN left ELSE SEC_PER_CLUS)
    /\ clus' = Append(clus, next)
    /\ next' = next + 1
    /\ UNCHANGED <<size, step, dirs, status>>

\* ... and, after the last one, the file is entered in its directory.
FinishFile ==
    /\ Doing("file")
    /\ Len(clus) = Clusters(Size)
    /\ disk' = WithEntry(SetFatEntry(disk, clus[Len(clus)], EndOfChain),
                         dirs[Script[step].in],
                         [name |-> Script[step].name, first |-> clus[1], size |-> Size])
    /\ clus' = <<>>
    /\ Advance
    /\ UNCHANGED <<size, next, dirs>>

\* create_directory: the entry in its parent, then "." and "..".
CreateDirectory ==
    /\ Doing("dir")
    /\ LET parent == dirs[Script[step].in]
           Entry(n, c) == [name |-> n, first |-> c, size |-> 0]
       IN  disk' = WithEntry(WithEntry(WithEntry(Allocated(disk, next),
                      parent, Entry(Script[step].name, next)),
                      next, Entry(".", next)),
                      next, Entry("..", IF parent = ROOT_CLUS THEN 0 ELSE parent))
    /\ dirs' = [d \in DOMAIN dirs \cup {Script[step].name} |->
                   IF d = Script[step].name THEN next ELSE dirs[d]]
    /\ next' = next + 1
    /\ Advance
    /\ UNCHANGED <<size, clus>>

\* The image is written to the host, or cannot be.
WriteImage ==
    /\ Doing("write")
    /\ status' \in {"ok", "failed"}
    /\ UNCHANGED <<size, disk, step, next, dirs, clus>>

MkNext ==
    \/ ReadHostFiles \/ WriteMbr \/ Format \/ CopyIoSys \/ InitFat
    \/ WriteCluster \/ FinishFile \/ CreateDirectory \/ WriteImage

-----------------------------------------------------------------------------
(* Properties                                                              *)

ImageWritten == status = "ok"

\* What a reader that goes by the boot sector finds: entry c of FAT copy k, a
\* cluster's first LBA, and the entry of a name in a directory.
BootSector == disk[PARTITION_START_LBA][0]
FatEntry(k, c) ==
    LET lba == PARTITION_START_LBA + BootSector.rsvd_sec_cnt + k * BootSector.fat_sz_32
                  + (c * 4) \div SECTOR_SIZE
        off == (c * 4) % SECTOR_SIZE
    IN  IF off \in DOMAIN Sector(disk, lba) THEN disk[lba][off].fat ELSE 0
DataLba(c) == ClusterToLba(FatInit(BootSector, PARTITION_START_LBA), c)
EntriesNamed(c, name) ==
    {e \in UNION {{disk[l][off] : off \in DOMAIN disk[l]} :
                     l \in DOMAIN disk \cap (DataLba(c) .. DataLba(c) + SEC_PER_CLUS - 1)} :
        "name" \in DOMAIN e /\ e.name = name}

\* The n-th sector of file f is at lba.
Holds(lba, f, n) == Sector(disk, lba) = Only([file |-> f, n |-> n])

\* The clusters of a file as FAT copy k chains them: as many as its size needs,
\* with an end mark behind the last and every sector in its place.
ChainHolds(k, entry) ==
    LET n == Clusters(entry.size)
        Chain[i \in 1 .. n] == IF i = 1 THEN entry.first ELSE FatEntry(k, Chain[i - 1])
    IN  /\ FatEntry(k, Chain[n]) >= EndMark32
        /\ \A s \in 0 .. CeilDiv(entry.size, SECTOR_SIZE) - 1 :
              Holds(DataLba(Chain[s \div SEC_PER_CLUS + 1]) + (s % SEC_PER_CLUS), entry.name, s)

\* Every file stored is in its directory once, reached from the root by path,
\* with the size of the host's file and a chain that holds its contents in
\* both FATs: the files are whole and none overwrites another.
SubDir(c, name) == (CHOOSE e \in EntriesNamed(c, name) : TRUE).first
DirOf(d) ==
    LET efi == SubDir(BootSector.root_clus, "EFI")
    IN  IF d = "/" THEN BootSector.root_clus
        ELSE IF d = "EFI" THEN efi
        ELSE SubDir(efi, "BOOT")
FilesAreWhole ==
    ImageWritten =>
       \A i \in DOMAIN Script : Script[i].op = "file" =>
          LET found == EntriesNamed(DirOf(Script[i].in), Script[i].name)
          IN  /\ \E e \in found : found = {e} /\ e.size = size[e.name]
              /\ \A e \in found, k \in {0, 1} : ChainHolds(k, e)

\* A sector whose marks the scan of vbr.S may take for IO.SYS's: AA55 at the
\* end and "gemi" at 3.  Any sector of a file may bear them; a boot sector does
\* when its name is in small letters; FSInfo, the FATs and the directories'
\* entries never have both.
MayBearMarks(l) ==
    /\ 0 \in DOMAIN Sector(disk, l)
    /\ \/ "file" \in DOMAIN disk[l][0]
       \/ "oem_name" \in DOMAIN disk[l][0] /\ disk[l][0].oem_name = "gemiboot"

\* The scan of vbr.S, from the partition's third sector on, comes upon a whole
\* and contiguous IO.SYS, in the reserved sectors or in the data area, before
\* any other sector that may pass for its first one: neither the backup of the
\* boot sector nor another file is in the way.
IoSysWhereVbrLooks ==
    ImageWritten =>
       LET marked == {l \in DOMAIN disk : l >= PARTITION_START_LBA + 2 /\ MayBearMarks(l)}
       IN  /\ marked # {}
           /\ \A n \in 0 .. CeilDiv(size["IO.SYS"], SECTOR_SIZE) - 1 :
                 Holds(Min(marked) + n, "IO.SYS", n)

\* The sector the boot sector names as its backup holds one.  (The code writes
\* "Backup boot sector at sector 6", and then copies IO.SYS to the reserved
\* sectors from the third one on, over sector 6 when IO.SYS has five sectors
\* or more.)
BackupKept ==
    ImageWritten =>
       Sector(disk, PARTITION_START_LBA + BootSector.bk_boot_sec) = disk[PARTITION_START_LBA]
=============================================================================
