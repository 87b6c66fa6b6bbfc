------------------------------ MODULE BootChain ------------------------------
(***************************************************************************)
(* The real-mode boot chain: mbr.S picks a partition and loads its first   *)
(* sector, vbr.S scans the partition for the first sector of IO.SYS, the   *)
(* first sector of IO.SYS (io16.S, stage 1) loads the rest of it, and the  *)
(* C loader looks up the partition again (find_active_partition_lba).      *)
(* Each stage reads with up to ReadTries attempts and hangs when they      *)
(* fail; each hands over in 0x7C00 and EBX (an LBA).  All of them read     *)
(* from the drive in DL; the second stage's replacement of a floppy's      *)
(* number by 0x80 (io16.S:144-146) is left out.                            *)
(*                                                                         *)
(* A sector is a record: boot, does it end in AA55?  gemi, does it hold    *)
(* the text "gemi" at offset 3?  runs, the program it is when it is run:   *)
(* "mbr", "vbr", "iosys", or "other", which is taken to hang.  vbr.S and   *)
(* io16.S both carry both marks; mkdisk writes "GEMIBOOT" over the text in *)
(* the boot sectors.  The second stage of IO.SYS is one step here.         *)
(***************************************************************************)
EXTENDS Naturals

CONSTANTS
    Disks,       \* disks that may be booted from: [parts, sector, size]
    Entries,     \* entries of the partition table (4)
    ReadTries,   \* attempts per read (3)
    Chunks,      \* chunks of IO.SYS that stage 1 loads (12)
    ChunkSectors, \* sectors per chunk (64)
    DefaultLba,  \* the C loader's fallback (2048)
    NoLba        \* nothing was loaded, or found

ASSUME ChainAssumption ==
    /\ Entries \in Nat \ {0} /\ ReadTries \in Nat \ {0}
    /\ Chunks \in Nat \ {0} /\ ChunkSectors \in Nat \ {0}
    /\ DefaultLba \in Nat /\ NoLba \notin Nat
    /\ \A d \in Disks : d.parts \in [1 .. Entries -> [active : BOOLEAN, start : Nat]]

\* The disk was booted from: its first sector, and no other, is the MBR.  The
\* first sector of IO.SYS bears both marks (io16.S:23, 128).
ASSUME BootedAssumption ==
    \A d \in Disks :
       /\ \A l \in DOMAIN d.sector : d.sector[l].runs = "mbr" <=> l = 0
       /\ 0 \in DOMAIN d.sector /\ d.sector[0].boot
       /\ \A l \in DOMAIN d.sector :
             d.sector[l].runs = "iosys" => d.sector[l].boot /\ d.sector[l].gemi

VARIABLES
    disk,
    stage,    \* "mbr", "mbrRead", "vbr", "vbrRead", "stage1", "stage1Read",
              \* "second", "loader", "hang"
    ebx,      \* the LBA a stage hands to the next
    at7C00,   \* the sector in memory at 0x7C00
    scan,     \* vbr.S: iosys_lba
    attempts, \* CX: attempts left for the current read
    next,     \* stage 1: iosys_sector
    packet,   \* stage 1: the packet's [lba, chunk]; chunk stands for its segment
    left,     \* stage 1: iosys_count
    image,    \* the LBA each chunk of memory from 0x10000 on was loaded from
    part      \* the partition the C loader works with

regs == <<ebx, at7C00, scan, attempts>>
stage1 == <<next, packet, left, image>>
chainVars == <<disk, stage, regs, stage1, part>>

ChainInit ==
    /\ disk \in Disks
    /\ stage = "mbr"
    /\ ebx = NoLba /\ at7C00 = 0 /\ scan = 0 /\ attempts = 0
    /\ next = 0 /\ left = 0
    /\ packet = [lba |-> 0, chunk |-> 0]
    /\ image = [c \in 0 .. Chunks - 1 |-> NoLba]
    /\ part = NoLba

Blank == [runs |-> "other", boot |-> FALSE, gemi |-> FALSE]
Sector(lba) == IF lba \in DOMAIN disk.sector THEN disk.sector[lba] ELSE Blank
OnDisk(lba, n) == lba + n <= disk.size

\* What the jump to 0x7C00 starts.
Starts(sector) ==
    CASE sector.runs = "mbr" -> "mbr"
      [] sector.runs = "vbr" -> "vbr"
      [] sector.runs = "iosys" -> "stage1"
      [] OTHER -> "hang"

\* A read fails; the same packet is tried again until the attempts run out.
ReadFails_Reloaded(here) ==
    /\ stage = here
    /\ attempts' = ReadTries
    /\ UNCHANGED <<stage, disk, ebx, at7C00, scan, stage1, part>>
ReadFails(here) ==
    /\ stage = here
    /\ attempts' = attempts - 1
    /\ stage' = IF attempts > 1 THEN here ELSE "hang"
    /\ UNCHANGED <<disk, ebx, at7C00, scan, stage1, part>>

-----------------------------------------------------------------------------
(* mbr.S                                                                   *)

Active(e) == disk.parts[e].active

\* The first active entry, or the first one.
MbrEntry ==
    IF \E e \in 1 .. Entries : Active(e)
    THEN CHOOSE e \in 1 .. Entries : Active(e) /\ \A f \in 1 .. e - 1 : ~Active(f)
    ELSE 1

\* The signature and the BIOS extensions are checked, a partition is chosen.
\* Without extensions ("@") the MBR hangs.
Mbr ==
    /\ stage = "mbr"
    /\ \/ stage' = "hang" /\ UNCHANGED <<ebx, attempts>>
       \/ /\ ebx' = disk.parts[MbrEntry].start
          /\ attempts' = ReadTries
          /\ stage' = "mbrRead"
    /\ UNCHANGED <<disk, at7C00, scan, stage1, part>>

\* The sector is read to 0x7C00, its signature is checked and it is run.
MbrReadOk ==
    /\ stage = "mbrRead"
    /\ OnDisk(ebx, 1)
    /\ at7C00' = ebx
    /\ stage' = IF Sector(ebx).boot THEN Starts(Sector(ebx)) ELSE "hang"
    /\ UNCHANGED <<disk, ebx, scan, attempts, stage1, part>>

MbrReadFails == ReadFails("mbrRead")

-----------------------------------------------------------------------------
(* vbr.S                                                                   *)

\* IO.SYS is looked for from the partition's third sector on.
Vbr ==
    /\ stage = "vbr"
    /\ scan' = ebx + 2
    /\ attempts' = ReadTries
    /\ stage' = "vbrRead"
    /\ UNCHANGED <<disk, ebx, at7C00, stage1, part>>

\* A sector that bears both marks is run, or the next one is looked at; there
\* is no limit to the scan but the end of the disk.
VbrReadOk_AnyBootSector ==
    /\ stage = "vbrRead"
    /\ OnDisk(scan, 1)
    /\ at7C00' = scan
    /\ IF Sector(scan).boot
       THEN ebx' = scan /\ stage' = Starts(Sector(scan)) /\ UNCHANGED <<scan, attempts>>
       ELSE scan' = scan + 1 /\ attempts' = ReadTries /\ UNCHANGED <<ebx, stage>>
    /\ UNCHANGED <<disk, stage1, part>>
VbrReadOk ==
    /\ stage = "vbrRead"
    /\ OnDisk(scan, 1)
    /\ at7C00' = scan
    /\ IF Sector(scan).boot /\ Sector(scan).gemi
       THEN ebx' = scan /\ stage' = Starts(Sector(scan)) /\ UNCHANGED <<scan, attempts>>
       ELSE scan' = scan + 1 /\ attempts' = ReadTries /\ UNCHANGED <<ebx, stage>>
    /\ UNCHANGED <<disk, stage1, part>>

VbrReadFails == ReadFails("vbrRead")

-----------------------------------------------------------------------------
(* io16.S, stage 1                                                         *)

\* The packet is filled once, for the sector after the one that runs.
Stage1_SameSector ==
    /\ stage = "stage1"
    /\ next' = ebx
    /\ packet' = [lba |-> next', chunk |-> 0]
    /\ left' = Chunks
    /\ attempts' = ReadTries
    /\ stage' = "stage1Read"
    /\ UNCHANGED <<disk, ebx, at7C00, scan, image, part>>
Stage1 ==
    /\ stage = "stage1"
    /\ next' = ebx + 1
    /\ packet' = [lba |-> next', chunk |-> 0]
    /\ left' = Chunks
    /\ attempts' = ReadTries
    /\ stage' = "stage1Read"
    /\ UNCHANGED <<disk, ebx, at7C00, scan, image, part>>

\* A chunk is read: the packet's segment, iosys_sector and iosys_count move
\* on, and the read is tried again for the next chunk (jmp try_read), with the
\* packet as it is.
Stage1ReadOk ==
    /\ stage = "stage1Read"
    /\ OnDisk(packet.lba, ChunkSectors)
    /\ image' = [image EXCEPT ![packet.chunk] = packet.lba]
    /\ packet' = [packet EXCEPT !.chunk = @ + 1]
    /\ next' = next + ChunkSectors
    /\ left' = left - 1
    /\ IF left' = 0 THEN stage' = "second" /\ UNCHANGED attempts
                    ELSE stage' = "stage1Read" /\ attempts' = ReadTries
    /\ UNCHANGED <<disk, ebx, at7C00, scan, part>>

Stage1ReadFails == ReadFails("stage1Read")

-----------------------------------------------------------------------------
(* bios_loader.c                                                           *)

\* find_active_partition_lba, given the MBR.
FindActive_AnyStart ==
    IF \E e \in 1 .. Entries : Active(e)
    THEN disk.parts[CHOOSE e \in 1 .. Entries :
            Active(e) /\ \A f \in e + 1 .. Entries : ~Active(f)].start
    ELSE disk.parts[1].start
FindActive ==
    LET good == {e \in 1 .. Entries : Active(e) /\ disk.parts[e].start # 0}
    IN  IF good # {} THEN disk.parts[CHOOSE e \in good : \A f \in good : e <= f].start
        ELSE IF disk.parts[1].start # 0 THEN disk.parts[1].start
        ELSE DefaultLba

\* The C loader has read the MBR for itself, or failed to; what else might have
\* been in its buffer would be no partition.
LoaderFindsPartition(read, mbr) ==
    /\ stage = "second"
    /\ part' = CASE ~read -> DefaultLba [] read /\ mbr -> FindActive [] OTHER -> NoLba
    /\ stage' = "loader"
    /\ UNCHANGED <<disk, regs, stage1>>

-----------------------------------------------------------------------------
ChainNext ==
    \/ Mbr \/ MbrReadOk \/ MbrReadFails
    \/ Vbr \/ VbrReadOk \/ VbrReadFails
    \/ Stage1 \/ Stage1ReadOk \/ Stage1ReadFails

-----------------------------------------------------------------------------
(* Properties                                                              *)

BootedPartition == disk.parts[MbrEntry].start

\* No sector of the partition but IO.SYS's first bears both marks, from the
\* third on; so it is on every disk mkdisk builds (IoSysWhereVbrLooks of
\* DiskImage).  A sector as vbr.S assembles it would be taken for IO.SYS.
OnlyIoSysIsMarked ==
    \A l \in DOMAIN disk.sector :
       l >= BootedPartition + 2 /\ Sector(l).boot /\ Sector(l).gemi =>
          Sector(l).runs = "iosys"

\* The stage that loads IO.SYS runs from the first sector of an IO.SYS; and on
\* a disk where nothing else looks like one to vbr.S, that is the first one at
\* or after the partition's third sector: scanning never runs past it or takes
\* a boot sector with another text for it (unless the partition itself begins
\* with IO.SYS).
FirstIoSysRuns ==
    stage \in {"stage1", "stage1Read", "second", "loader"} =>
       /\ Sector(ebx).runs = "iosys"
       /\ OnlyIoSysIsMarked /\ ebx # BootedPartition =>
             /\ ebx >= BootedPartition + 2
             /\ \A l \in BootedPartition + 2 .. ebx - 1 : Sector(l).runs # "iosys"

\* The second stage is entered with the sectors that follow the first sector
\* of IO.SYS at 0x10000.
FirstChunkLoaded == stage \in {"second", "loader"} => image[0] = ebx + 1

\* The inductive invariant behind them: what each stage has passed on.  A
\* partition at 0 never gets beyond the MBR, which loads itself again.
AtPartition ==
    /\ stage \notin {"mbr", "hang"} => ebx \in Nat
    /\ stage = "mbrRead" => ebx = BootedPartition
    /\ stage \in {"vbr", "vbrRead"} /\ OnlyIoSysIsMarked => ebx = BootedPartition
    /\ stage \notin {"mbr", "mbrRead", "hang"} => BootedPartition # 0
NothingSkipped ==
    stage = "vbrRead" =>
       /\ scan \in Nat /\ scan >= ebx + 2 /\ scan >= BootedPartition + 2
       /\ OnlyIoSysIsMarked =>
             \A l \in BootedPartition + 2 .. scan - 1 : Sector(l).runs # "iosys"
BehindPartition == stage \in {"vbr", "vbrRead"} => ebx >= BootedPartition
ChunkUnderWay ==
    /\ image \in [0 .. Chunks - 1 -> Nat \cup {NoLba}]
    /\ stage = "stage1Read" =>
          /\ packet.lba = ebx + 1 /\ packet.chunk \in 0 .. Chunks - 1
          /\ packet \in [lba : Nat, chunk : Nat]
          /\ left = Chunks - packet.chunk
          /\ packet.chunk > 0 => image[0] = ebx + 1
ChainInv ==
    /\ disk \in Disks
    /\ AtPartition /\ BehindPartition /\ NothingSkipped /\ ChunkUnderWay
    /\ FirstIoSysRuns /\ FirstChunkLoaded

\* The chain ends in the loader or in a hang: attempts are bounded, and the
\* scan ends at the end of the disk at the latest.  (An entry that starts at 0
\* makes the MBR load and run itself for ever.)
ChainEnds == BootedPartition # 0 => <>(stage \in {"loader", "hang"})

\* io16.S: "Load up to 384 KB (12 chunks of 64 sectors)", "Loads the rest of
\* IO.SYS": chunk c of memory holds chunk c of the file.
RestOfIoSysLoaded ==
    stage = "second" => \A c \in 0 .. Chunks - 1 : image[c] = ebx + 1 + c * ChunkSectors
=============================================================================
