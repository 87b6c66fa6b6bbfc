---------------------------- MODULE MCDiskImage ----------------------------
(***************************************************************************)
(* Small disks for DiskImage.  For the search: two entries per sector, two *)
(* sectors per root (FAT16) or per cluster (FAT32), every chain over two   *)
(* clusters.  For the read: one geometry per FAT type, with the cluster    *)
(* counts that make fat_init() choose the type, and every FAT over three   *)
(* clusters.  For mkdisk: files around the size of a cluster, and IO.SYS   *)
(* on both sides of the 29 sectors that fit in the reserved area.          *)
(***************************************************************************)
EXTENDS DiskImage, TLC

Geometry(spc, ents, tot16, tot32, sz16, sz32) ==
    [bytes_per_sec |-> SECTOR_SIZE, sec_per_clus |-> spc, rsvd_sec_cnt |-> 2,
     num_fats |-> 2, root_ent_cnt |-> ents, tot_sec_16 |-> tot16,
     tot_sec_32 |-> tot32, fat_sz_16 |-> sz16, fat_sz_32 |-> sz32,
     root_clus |-> 2]

Fat32Bpb(spc) == Geometry(spc, 0, 0, 200000 * spc, 0, 60000)
Fat16Bpb(spc) == Geometry(spc, 4, 10000 * spc, 0, 1000, 0)
Fat12Bpb(spc) == Geometry(spc, 4, 300, 0, 20, 0)

-----------------------------------------------------------------------------
Pair(a, b) == [e \in 0 .. 1 |-> IF e = 0 THEN a ELSE b]

\* Contents of a directory sector.
Sectors == {Pair("other", "skipped"), Pair("skipped", "match"),
            Pair("match", "match"), Pair("end", "match")}

\* The directory sectors of clusters 2 and 3, and of a fixed root.
Dirs32 == LET d == FatInit(Fat32Bpb(2), 3).data_sec IN [d .. d + 3 -> Sectors]
Dirs16 == LET r == FatInit(Fat16Bpb(1), 3).root_dir_sec IN [r .. r + 1 -> Sectors]

\* The entries looked for all name the same empty file.
MCFindVolumes ==
    [bpb : {Fat32Bpb(2)}, part : {3}, dir : Dirs32, files : {{[first |-> 0, size |-> 0]}},
     table : [2 .. 3 -> {0, 2, 268435456 + 3, 268435448}]]
    \cup
    [bpb : {Fat16Bpb(1)}, part : {3}, dir : Dirs16, files : {{[first |-> 0, size |-> 0]}},
     table : {[c \in 2 .. 3 |-> 65535]}]

-----------------------------------------------------------------------------
\* Every table over clusters 2 .. 4 whose entries come from E; cluster 3 is in
\* another FAT sector than cluster 4.
Tables(E) == [2 .. 4 -> E]

MCReadVolumes ==
    [bpb : {Fat32Bpb(2)}, part : {3}, table : Tables({0, 2, 3, 4, 268435448, 268435456 + 3})]
    \cup
    [bpb : {Fat16Bpb(1)}, part : {3}, table : Tables({1, 2, 3, 4, 65527, 65535})]
    \cup
    [bpb : {Fat12Bpb(1)}, part : {3}, table : Tables({0, 3, 4088})]

-----------------------------------------------------------------------------
MCHostSizes ==
    {("IO.SYS" :> a) @@ ("GEMIOS.ELF" :> k) @@ ("BOOTIA32.EFI" :> 5) @@ ("BOOTX64.EFI" :> 40) :
        a \in {9, 232, 241}, k \in {0, 32, 33}}
=============================================================================
