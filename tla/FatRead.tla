------------------------------- MODULE FatRead -------------------------------
(***************************************************************************)
(* fat_read_file(): one step per sector read and one per FAT look-up, on   *)
(* any volume, with well-formed, cut, cyclic and cross-linked chains, and  *)
(* a disk that may refuse any read.                                        *)
(*                                                                         *)
(* A one-sector read is atomic here: it delivers the sector or leaves the  *)
(* destination alone (BiosDisk implements SectorRead, DestIsPrefix).  A    *)
(* byte of a file is represented by its place on the disk, <<lba, off>>.   *)
(***************************************************************************)
EXTENDS FatVolume, Sequences

CONSTANTS
    Volumes,     \* volumes the file may be on
    Firsts,      \* first clusters a directory entry may name
    FileSizes,   \* sizes a directory entry may state
    MaxFileSize, \* the largest of them
    NoData       \* content of a byte nothing was written to

ASSUME FatReadAssumption ==
    /\ MaxFileSize \in Nat
    /\ FileSizes \subseteq 0 .. MaxFileSize
    /\ Firsts \subseteq Nat
    /\ NoData \notin Nat \X Nat
    /\ \A v \in Volumes : WellFormed(v)

VARIABLES
    vol,       \* the volume
    first,     \* first_cluster
    file_size, \* file_size
    pc,        \* "loop", "sector", "next", "done"
    cur,       \* current_clus
    s,         \* sector of the cluster
    remaining, \* bytes_remaining
    pos,       \* dest - dest_buffer
    dest,      \* dest_buffer, and a sector's worth of memory behind it
    ret,       \* "none", "ok" (0) or "err" (-1)
    walk,      \* history: the clusters whose sectors were read, in order
    ioError    \* history: did a read fail?

file == <<vol, first, file_size>>
vars == <<vol, first, file_size, pc, cur, s, remaining, pos, dest, ret, walk, ioError>>

fs == FatInit(vol.bpb, vol.part)

DestIdx == 0 .. MaxFileSize + SECTOR_SIZE - 1

Init ==
    /\ vol \in Volumes
    /\ first \in Firsts
    /\ file_size \in FileSizes
    /\ pc = "loop"
    /\ cur = first
    /\ s = 0
    /\ remaining = file_size
    /\ pos = 0
    /\ dest = [i \in DestIdx |-> NoData]
    /\ ret = "none"
    /\ walk = <<>>
    /\ ioError = FALSE

-----------------------------------------------------------------------------
\* while (bytes_remaining > 0 && !is_end_of_cluster_chain(...) && cur >= 2)
EnterCluster_IgnoresSize ==
    /\ pc = "loop"
    /\ Follows(fs, cur)
    /\ s' = 0
    /\ walk' = IF remaining > 0 THEN Append(walk, cur) ELSE walk
    /\ pc' = "sector"
    /\ UNCHANGED <<file, cur, remaining, pos, dest, ret, ioError>>
EnterCluster ==
    /\ pc = "loop"
    /\ remaining > 0 /\ Follows(fs, cur)
    /\ s' = 0
    /\ walk' = Append(walk, cur)
    /\ pc' = "sector"
    /\ UNCHANGED <<file, cur, remaining, pos, dest, ret, ioError>>

\* The loop is over: 0 iff nothing is missing.
Return_AlwaysOk ==
    /\ pc = "loop"
    /\ remaining = 0 \/ ~Follows(fs, cur)
    /\ ret' = "ok"
    /\ pc' = "done"
    /\ UNCHANGED <<file, cur, s, remaining, pos, dest, walk, ioError>>
Return ==
    /\ pc = "loop"
    /\ remaining = 0 \/ ~Follows(fs, cur)
    /\ ret' = IF remaining = 0 THEN "ok" ELSE "err"
    /\ pc' = "done"
    /\ UNCHANGED <<file, cur, s, remaining, pos, dest, walk, ioError>>

\* The bytes one turn of the for loop copies.  A full sector is read straight
\* into dest, a partial one through sector_buf.
CopyLen(n) == IF n > SECTOR_SIZE THEN SECTOR_SIZE ELSE n

Placed_WholeSector(lba, len) ==
    [i \in DestIdx |-> IF i \in pos .. pos + SECTOR_SIZE - 1
                       THEN <<lba, i - pos>> ELSE dest[i]]
Placed(lba, len) ==
    [i \in DestIdx |-> IF i \in pos .. pos + len - 1 THEN <<lba, i - pos>> ELSE dest[i]]

\* One turn of the for loop whose read succeeds.
ReadSector ==
    /\ pc = "sector"
    /\ remaining > 0 /\ s < fs.sec_per_clus
    /\ LET lba == ClusterToLba(fs, cur) + s  len == CopyLen(remaining)
       IN  /\ Readable(fs, vol, lba)
           /\ dest' = Placed(lba, len)
           /\ pos' = pos + len
           /\ remaining' = remaining - len
    /\ s' = s + 1
    /\ UNCHANGED <<file, pc, cur, ret, walk, ioError>>

\* ... and whose read fails: return -1.
ReadSectorFails ==
    /\ pc = "sector"
    /\ remaining > 0 /\ s < fs.sec_per_clus
    /\ ret' = "err"
    /\ ioError' = TRUE
    /\ pc' = "done"
    /\ UNCHANGED <<file, cur, s, remaining, pos, dest, walk>>

\* The for loop is over: current_clus = fat_get_next_cluster(...), even when
\* the last byte has been read.
LeaveCluster ==
    /\ pc = "sector"
    /\ remaining = 0 \/ s = fs.sec_per_clus
    /\ pc' = "next"
    /\ UNCHANGED <<file, cur, s, remaining, pos, dest, ret, walk, ioError>>

\* The cluster the FAT names as cur's successor; FAT12 looks nothing up.
NextCluster_NoMask ==
    IF fs.fat_type = 12 THEN 268435455
    ELSE RawEntryAt(fs, vol, FatSector(fs, cur), FatOffset(fs, cur))
NextCluster ==
    IF fs.fat_type = 12 THEN 268435455
    ELSE EntryValue(fs, RawEntryAt(fs, vol, FatSector(fs, cur), FatOffset(fs, cur)))

FollowChain ==
    /\ pc = "next"
    /\ fs.fat_type # 12 => Readable(fs, vol, FatSector(fs, cur))
    /\ cur' = NextCluster
    /\ pc' = "loop"
    /\ UNCHANGED <<file, s, remaining, pos, dest, ret, walk, ioError>>

\* The read of the FAT fails: it looks like the end of the chain.
FollowChainFails ==
    /\ pc = "next"
    /\ fs.fat_type # 12
    /\ cur' = FailedEntry(fs)
    /\ ioError' = TRUE
    /\ pc' = "loop"
    /\ UNCHANGED <<file, s, remaining, pos, dest, ret, walk>>

-----------------------------------------------------------------------------
Next ==
    \/ EnterCluster \/ Return \/ ReadSector \/ ReadSectorFails
    \/ LeaveCluster \/ FollowChain \/ FollowChainFails

\* Straight-line code: it keeps executing.
Spec == Init /\ [][Next]_vars /\ WF_vars(Next)

-----------------------------------------------------------------------------
(* Properties                                                              *)

\* The clusters of a file, from the FAT itself: w starts at the first cluster
\* and each one is the successor the FAT gives its predecessor.
IsChain(w) ==
    /\ w # <<>> => w[1] = first
    /\ \A i \in 1 .. Len(w) - 1 :
          /\ w[i + 1] = EntryValue(fs, RawEntry(vol, w[i]))
    /\ \A i \in 1 .. Len(w) : Follows(fs, w[i])

ClusterBytes == fs.sec_per_clus * SECTOR_SIZE

\* Byte i of the file whose clusters are w.
FileByte(w, i) ==
    <<ClusterToLba(fs, w[(i \div ClusterBytes) + 1]) + (i % ClusterBytes) \div SECTOR_SIZE,
      i % SECTOR_SIZE>>

\* A file is reported as read only if every byte of it is in the buffer, each
\* taken from the cluster that the chain of the FAT gives for its offset.
ReadOkIsTheFile ==
    pc = "done" /\ ret = "ok" =>
       /\ IsChain(walk)
       /\ file_size <= Len(walk) * ClusterBytes
       /\ \A i \in 0 .. file_size - 1 : dest[i] = FileByte(walk, i)

\* Reading never writes past the size the directory entry states, although
\* full sectors are read straight into the caller's buffer.
NoOverrun == \A i \in DestIdx : i >= file_size => dest[i] = NoData

\* The inductive invariant behind NoOverrun: what was copied and what remains
\* add up to the size.
CopiedPlusRemaining == remaining \in Nat /\ pos \in Nat /\ pos + remaining = file_size
IInv == CopiedPlusRemaining /\ NoOverrun

\* A file that cannot be loaded is refused for a reason: some read failed, or
\* the chain really ends before the size is reached.  (FAT12 chains are never
\* followed: a FAT12 file of more than one cluster is always refused.)
ErrIsJustified ==
    pc = "done" /\ ret = "err" /\ ~ioError /\ fs.fat_type # 12 =>
       /\ Len(walk) * ClusterBytes < file_size
       /\ ~Follows(fs, IF walk = <<>> THEN first
                       ELSE EntryValue(fs, RawEntry(vol, walk[Len(walk)])))
=============================================================================
