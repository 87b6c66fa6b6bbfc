------------------------------- MODULE FatFind -------------------------------
(***************************************************************************)
(* fat_find_file(): the scan of the root directory, one step per sector,   *)
(* along the cluster chain of a FAT32 root or through the fixed region of  *)
(* a FAT12/FAT16 root.                                                     *)
(*                                                                         *)
(* A directory entry is what the scan tells apart: "end" (name[0] = 0),    *)
(* "skipped" (deleted, or with the volume-id attribute, which long-name    *)
(* entries have too), "other" (another name) or "match" (the 8.3 name      *)
(* looked for).  The cluster and size handed back are those of the entry,  *)
(* which is represented by its place, <<lba, index>>.                      *)
(***************************************************************************)
EXTENDS FatVolume, FiniteSets

CONSTANT NoEntry  \* nothing was found

VARIABLES
    vol,    \* the volume; vol.dir gives the entries of its directory sectors
    pc,     \* "loop" (FAT32 loop head), "sector", "next", "done"
    cur,    \* current_clus (FAT32)
    s,      \* sector of the cluster, or of the fixed root
    found,  \* the entry whose cluster and size are handed back
    ret,    \* "none", "ok" (0) or "err" (-1)
    ioError \* history: did a read fail?

vars == <<vol, pc, cur, s, found, ret, ioError>>

fs == FatInit(vol.bpb, vol.part)
Fat32 == fs.fat_type = 32

\* A volume a look-up can be made on: its root directory has a place and an
\* extent, and its FAT has an end.
Searchable(v) ==
    /\ WellFormed(v)
    /\ v.bpb.root_clus \in Nat /\ v.bpb.root_ent_cnt \in Nat
    /\ IsFiniteSet(DOMAIN v.table)

-----------------------------------------------------------------------------
\* The call.
Call ==
    /\ pc' = IF Fat32 THEN "loop" ELSE "sector"
    /\ cur' = fs.root_clus
    /\ s' = 0
    /\ found' = NoEntry
    /\ ret' = "none"
    /\ ioError' = FALSE
    /\ UNCHANGED vol

\* while (!is_end_of_cluster_chain(...) && current_clus >= 2)
EnterCluster ==
    /\ pc = "loop"
    /\ Follows(fs, cur)
    /\ s' = 0
    /\ pc' = "sector"
    /\ UNCHANGED <<vol, cur, found, ret, ioError>>

\* The FAT32 chain is over, or every sector of a fixed root was scanned.
Exhausted ==
    /\ \/ pc = "loop" /\ ~Follows(fs, cur)
       \/ pc = "sector" /\ ~Fat32 /\ s = fs.root_sectors
    /\ ret' = "err"
    /\ pc' = "done"
    /\ UNCHANGED <<vol, cur, s, found, ioError>>

SectorLba == IF Fat32 THEN ClusterToLba(fs, cur) + s ELSE fs.root_dir_sec + s
SectorLimit == IF Fat32 THEN fs.sec_per_clus ELSE fs.root_sectors

EntryIdx == 0 .. EntriesPerSector - 1

\* What the disk holds at index e of directory sector lba.
DirEntry(lba, e) == IF lba \in DOMAIN vol.dir THEN vol.dir[lba][e] ELSE "end"

\* The entries the loop over a sector stops at.
Stops_PastEnd(lba) == {e \in EntryIdx : DirEntry(lba, e) = "match"}
Stops(lba) == {e \in EntryIdx : DirEntry(lba, e) \in {"end", "match"}}

\* A sector is read and its entries are looked at in order.
ScanSector ==
    /\ pc = "sector"
    /\ s < SectorLimit
    /\ Readable(fs, vol, SectorLba)
    /\ \/ /\ Stops(SectorLba) = {}
          /\ s' = s + 1
          /\ UNCHANGED <<pc, found, ret>>
       \/ \E e \in Stops(SectorLba) :
             /\ \A f \in Stops(SectorLba) : e <= f
             /\ IF DirEntry(SectorLba, e) = "match"
                THEN found' = <<SectorLba, e>> /\ ret' = "ok"
                ELSE found' = found /\ ret' = "err"
             /\ pc' = "done"
             /\ s' = s
    /\ UNCHANGED <<vol, cur, ioError>>

\* The read fails: return -1.
ScanSectorFails ==
    /\ pc = "sector"
    /\ s < SectorLimit
    /\ ret' = "err"
    /\ ioError' = TRUE
    /\ pc' = "done"
    /\ UNCHANGED <<vol, cur, s, found>>

LeaveCluster ==
    /\ pc = "sector"
    /\ Fat32 /\ s = SectorLimit
    /\ pc' = "next"
    /\ UNCHANGED <<vol, cur, s, found, ret, ioError>>

NextCluster ==
    EntryValue(fs, RawEntryAt(fs, vol, FatSector(fs, cur), FatOffset(fs, cur)))

FollowChain ==
    /\ pc = "next"
    /\ Readable(fs, vol, FatSector(fs, cur))
    /\ cur' = NextCluster
    /\ pc' = "loop"
    /\ UNCHANGED <<vol, s, found, ret, ioError>>

FollowChainFails ==
    /\ pc = "next"
    /\ cur' = FailedEntry(fs)
    /\ ioError' = TRUE
    /\ pc' = "loop"
    /\ UNCHANGED <<vol, s, found, ret>>

-----------------------------------------------------------------------------
Next ==
    \/ EnterCluster \/ Exhausted \/ ScanSector \/ ScanSectorFails
    \/ LeaveCluster \/ FollowChain \/ FollowChainFails

-----------------------------------------------------------------------------
(* Properties                                                              *)

\* The clusters of the root directory, from the FAT itself.  The chain passes
\* no cluster twice before it ends or begins to repeat itself, and the entry of
\* a cluster outside the table is free, so as many hops as there are clusters
\* in the table come past all of them.
MaxHops == Cardinality(DOMAIN vol.table)
RootCluster[n \in Nat] ==
    IF n = 0 THEN vol.bpb.root_clus
    ELSE LET c == RootCluster[n - 1]
         IN  IF Follows(fs, c) THEN EntryValue(fs, RawEntry(vol, c)) ELSE c

\* The k-th sector of the root directory, when it has that many.
HasSector(k) ==
    IF Fat32 THEN Follows(fs, RootCluster[k \div fs.sec_per_clus])
             ELSE k < fs.root_sectors
DirSector(k) ==
    IF Fat32 THEN ClusterToLba(fs, RootCluster[k \div fs.sec_per_clus]) + (k % fs.sec_per_clus)
             ELSE fs.root_dir_sec + k
SectorNumbers ==
    0 .. IF Fat32 THEN (MaxHops + 1) * fs.sec_per_clus - 1 ELSE fs.root_sectors - 1

\* Place <<DirSector(k), e>> holds the entry that a look-up must find: the
\* name, with no end mark and no other entry of that name before it.
IsTheEntry(k, e) ==
    /\ HasSector(k) /\ DirEntry(DirSector(k), e) = "match"
    /\ \A f \in 0 .. e - 1 : DirEntry(DirSector(k), f) \notin {"end", "match"}
    /\ \A j \in 0 .. k - 1, f \in EntryIdx :
          DirEntry(DirSector(j), f) \notin {"end", "match"}

\* A look-up that succeeds hands back the first live entry of that name, in
\* directory order across sectors and clusters.
FoundIsTheEntry ==
    ret = "ok" => \E k \in SectorNumbers, e \in EntryIdx :
                     IsTheEntry(k, e) /\ found = <<DirSector(k), e>>

\* A look-up that fails although every read succeeded means that there is no
\* such entry: none is missed at the end of a sector, a cluster or the root.
NotFoundIsAbsent ==
    ret = "err" /\ ~ioError =>
       \A k \in SectorNumbers, e \in EntryIdx : ~IsTheEntry(k, e)

\* The root directory has an end: its chain, or an entry, stops the scan.
RootEnds ==
    \/ ~Fat32
    \/ ~Follows(fs, RootCluster[MaxHops + 1])
    \/ \E k \in SectorNumbers : Stops(DirSector(k)) # {}
=============================================================================
