----------------------------- MODULE FatVolume -----------------------------
(***************************************************************************)
(* The pure part of common/fat.c: what fat_init() computes from a boot     *)
(* sector, and the arithmetic that turns a cluster number into the LBA of  *)
(* its data and into the place of its FAT entry.  The thresholds and the   *)
(* end marks are the code's; only the sizes of a sector and of a directory *)
(* entry are parameters, so that files can be modelled byte by byte.       *)
(*                                                                         *)
(* A volume is a record                                                    *)
(*   bpb    the boot sector's parameter block,                             *)
(*   table  the raw FAT entries of a few clusters, the others being free,  *)
(*   part   the LBA the partition starts at,                               *)
(*   dir    the entries of directory sectors, where a look-up is made.     *)
(* Volumes are such that the unsigned subtraction in fat_init() does not   *)
(* wrap and sec_per_clus is not zero (WellFormed).                         *)
(***************************************************************************)
EXTENDS Naturals

CONSTANTS
    SECTOR_SIZE,    \* 512 in the code
    DIR_ENTRY_SIZE  \* 32 in the code
ASSUME SectorSizeAssumption == SECTOR_SIZE \in Nat \ {0}
ASSUME DirEntrySizeAssumption == DIR_ENTRY_SIZE \in 1 .. SECTOR_SIZE

EntriesPerSector == SECTOR_SIZE \div DIR_ENTRY_SIZE

-----------------------------------------------------------------------------
(* fat_init                                                                *)

FatAccepts(bpb) == bpb.bytes_per_sec = SECTOR_SIZE

\* A volume that fat_init() accepts, with numbers where numbers belong.
WellFormed(v) ==
    /\ FatAccepts(v.bpb)
    /\ v.bpb.sec_per_clus \in Nat \ {0} /\ v.bpb.rsvd_sec_cnt \in Nat /\ v.part \in Nat
    /\ \A c \in DOMAIN v.table : v.table[c] \in Nat

FatSize(bpb) == IF bpb.fat_sz_16 # 0 THEN bpb.fat_sz_16 ELSE bpb.fat_sz_32
TotalSectors(bpb) == IF bpb.tot_sec_16 # 0 THEN bpb.tot_sec_16 ELSE bpb.tot_sec_32

RootDirSectors(entries) == (entries * DIR_ENTRY_SIZE + SECTOR_SIZE - 1) \div SECTOR_SIZE

FatType(clusters) ==
    IF clusters < 4085 THEN 12 ELSE IF clusters < 65525 THEN 16 ELSE 32

\* The fat_fs_t that fat_init() fills in.
FatInit(bpb, part) ==
    LET rootSec  == part + bpb.rsvd_sec_cnt + bpb.num_fats * FatSize(bpb)
        rootLen  == RootDirSectors(bpb.root_ent_cnt)
        dataLen  == TotalSectors(bpb) - (rootSec - part + rootLen)
        clusters == dataLen \div bpb.sec_per_clus
        type     == FatType(clusters)
    IN  [part_lba       |-> part,
         sec_per_clus   |-> bpb.sec_per_clus,
         rsvd_sec_cnt   |-> bpb.rsvd_sec_cnt,
         root_dir_sec   |-> rootSec,
         root_sectors   |-> rootLen,
         data_sec       |-> rootSec + rootLen,
         total_clusters |-> clusters,
         fat_type       |-> type,
         root_clus      |-> IF type = 32 THEN bpb.root_clus ELSE 0]

-----------------------------------------------------------------------------
(* Cluster arithmetic                                                      *)

ClusterToLba(fs, c) == fs.data_sec + (c - 2) * fs.sec_per_clus

\* Bytes of a FAT entry.  FAT12 entries are never read.
EntrySize(fs) == IF fs.fat_type = 32 THEN 4 ELSE 2

FatSector(fs, c) ==
    fs.part_lba + fs.rsvd_sec_cnt + (c * EntrySize(fs)) \div SECTOR_SIZE
FatOffset(fs, c) == (c * EntrySize(fs)) % SECTOR_SIZE

\* The first end-of-chain mark, and what a failed read of the FAT answers.
EndMark(fs) == IF fs.fat_type = 32 THEN 268435448      \* 0x0FFFFFF8
               ELSE IF fs.fat_type = 16 THEN 65528     \* 0xFFF8
               ELSE 4088                               \* 0xFF8
FailedEntry(fs) == IF fs.fat_type = 16 THEN 65535 ELSE 268435455

IsEnd(fs, c) == c >= EndMark(fs)

\* A cluster the loops of fat_find_file and fat_read_file go on with.
Follows(fs, c) == ~IsEnd(fs, c) /\ c >= 2

\* The value of a raw entry: the top four bits of a FAT32 entry are masked.
EntryValue(fs, raw) == IF fs.fat_type = 32 THEN raw % 268435456 ELSE raw

-----------------------------------------------------------------------------
(* The disk: what a volume's FAT sectors hold (outside the program)        *)

RawEntry(vol, c) == IF c \in DOMAIN vol.table THEN vol.table[c] ELSE 0

\* The raw entry at byte off of sector lba, in the first FAT of the volume.
RawEntryAt(fs, vol, lba, off) ==
    RawEntry(vol, ((lba - (fs.part_lba + fs.rsvd_sec_cnt)) * SECTOR_SIZE + off)
                     \div EntrySize(fs))

\* The first sector past the volume; no read beyond it succeeds.
VolumeEnd(fs, vol) == fs.part_lba + TotalSectors(vol.bpb)
Readable(fs, vol, lba) == lba < VolumeEnd(fs, vol)
=============================================================================
