----------------------------- MODULE MCBiosBoot -----------------------------
(***************************************************************************)
(* Small disks for BiosBoot: every partition table of a few entries, with  *)
(* partitions at sectors 2 and 3, before one choice of sectors; and every  *)
(* choice of sectors before one table: boot sectors as mkdisk writes them  *)
(* and as vbr.S assembles them, and every place for IO.SYS behind them.    *)
(***************************************************************************)
EXTENDS BiosBoot

Entry(a, s) == [active |-> a, start |-> s]
Tables == [1 .. Entries -> {Entry(FALSE, 0), Entry(TRUE, 0), Entry(FALSE, 2), Entry(TRUE, 3)}]

MbrSector == [runs |-> "mbr", boot |-> TRUE, gemi |-> FALSE]
RawVbr == [runs |-> "vbr", boot |-> TRUE, gemi |-> TRUE]
MkdiskVbr == [runs |-> "vbr", boot |-> TRUE, gemi |-> FALSE]
IoSysStart == [runs |-> "iosys", boot |-> TRUE, gemi |-> TRUE]

Layouts == {s \in [0 .. 7 -> {MbrSector, RawVbr, MkdiskVbr, IoSysStart, Blank}] :
              /\ s[0] = MbrSector /\ s[1] = Blank /\ s[2] = Blank
              /\ s[3] \in {RawVbr, MkdiskVbr, IoSysStart, Blank}
              /\ s[4] = IoSysStart
              /\ s[5] \in {IoSysStart, RawVbr, MkdiskVbr}
              /\ s[6] \in {IoSysStart, Blank}
              /\ s[7] \in {IoSysStart, Blank}}

OneTable == [e \in 1 .. Entries |-> Entry(e = 2, 3)]
OneLayout ==
    [l \in 0 .. 7 |-> CASE l = 0 -> MbrSector [] l \in {2, 3} -> MkdiskVbr
                        [] l \in {4, 5} -> IoSysStart [] OTHER -> Blank]

MCDisks ==
    [parts : Tables, sector : {OneLayout}, size : {DiskSectors}]
        \cup [parts : {OneTable}, sector : Layouts, size : {DiskSectors}]
=============================================================================
