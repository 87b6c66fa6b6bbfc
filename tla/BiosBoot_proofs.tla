--------------------------- MODULE BiosBoot_proofs ---------------------------
(***************************************************************************)
(* The boot chain runs the first IO.SYS of the partition the MBR chose,    *)
(* and the C loader works on that partition too, for every disk, partition *)
(* table, number of attempts and pattern of failing reads; and what is     *)
(* proved of the reads and of the processor holds on this way.             *)
(***************************************************************************)
EXTENDS BiosBoot, BiosThunk_proofs, WellFoundedInduction

-----------------------------------------------------------------------------
(* The two searches of the partition table                                 *)

\* Every non-empty set of numbers has a least element: this is what the CHOOSE
\* of either search finds.
LEMMA LeastExists ==
    ASSUME NEW S \in SUBSET Nat, S # {}
    PROVE  \E e \in S : \A f \in S : e <= f
<1> DEFINE Less == {ss \in Nat \X Nat : ss[1] < ss[2]}
<1>1. IsWellFoundedOn(Less, Nat)
      BY NatLessThanWellFounded DEF OpToRel
<1>2. \A x, y \in Nat : <<y, x>> \notin Less => x <= y
      OBVIOUS
<1> HIDE DEF Less
<1>3. PICK e \in S : \A f \in S : <<f, e>> \notin Less
      BY <1>1, WFMin
<1> QED BY <1>2, <1>3

LEMMA EntryTypes ==
    ASSUME disk \in Disks, NEW e \in 1 .. Entries
    PROVE  disk.parts[e].active \in BOOLEAN /\ disk.parts[e].start \in Nat
BY ChainAssumption

\* The entry mbr.S chooses: the first active one, or the first one.
LEMMA MbrChoice ==
    ASSUME disk \in Disks
    PROVE  /\ MbrEntry \in 1 .. Entries
           /\ (\E e \in 1 .. Entries : Active(e)) =>
                 Active(MbrEntry) /\ \A f \in 1 .. MbrEntry - 1 : ~Active(f)
           /\ (\A e \in 1 .. Entries : ~Active(e)) => MbrEntry = 1
           /\ BootedPartition \in Nat
<1>1. 1 \in 1 .. Entries /\ Entries \in Nat
      BY ChainAssumption
<1>2. CASE \A e \in 1 .. Entries : ~Active(e)
  <2>1. MbrEntry = 1
        BY <1>2 DEF MbrEntry
  <2> QED BY <1>1, <1>2, <2>1, EntryTypes DEF BootedPartition
<1>3. CASE \E e \in 1 .. Entries : Active(e)
  <2> DEFINE act == {e \in 1 .. Entries : Active(e)}
  <2>1. PICK e \in act : \A f \in act : e <= f
    <3>1. act \in SUBSET Nat /\ act # {}
          BY <1>1, <1>3
    <3> HIDE DEF act
    <3> QED BY <3>1, LeastExists
  <2>2. e \in 1 .. Entries /\ Active(e) /\ \A f \in 1 .. e - 1 : ~Active(f)
        BY <1>1, <2>1
  <2>3. /\ MbrEntry \in 1 .. Entries
        /\ Active(MbrEntry) /\ \A f \in 1 .. MbrEntry - 1 : ~Active(f)
        BY <1>3, <2>2 DEF MbrEntry
  <2> QED BY <1>3, <2>3, EntryTypes DEF BootedPartition
<1> QED BY <1>2, <1>3

\* find_active_partition_lba() skips active entries that start at 0 and mbr.S
\* does not; they differ only when the MBR has chosen a partition at 0.
LEMMA SearchesAgree ==
    ASSUME disk \in Disks, BootedPartition # 0
    PROVE  FindActive = BootedPartition
<1> DEFINE good == {e \in 1 .. Entries : Active(e) /\ disk.parts[e].start # 0}
<1>1. MbrEntry \in 1 .. Entries /\ disk.parts[MbrEntry].start # 0
      BY MbrChoice DEF BootedPartition
<1>2. CASE \A e \in 1 .. Entries : ~Active(e)
  <2>1. good = {} /\ MbrEntry = 1
        BY <1>2, MbrChoice
  <2> QED BY <1>1, <2>1 DEF FindActive, BootedPartition
<1>3. CASE \E e \in 1 .. Entries : Active(e)
  <2>1. MbrEntry \in good /\ \A f \in 1 .. MbrEntry - 1 : ~Active(f)
        BY <1>1, <1>3, MbrChoice
  <2>2. good \in SUBSET Nat /\ \A e \in good : e \in 1 .. Entries /\ Active(e)
        BY ChainAssumption
  <2>3. \A f \in good : MbrEntry <= f
        BY <1>1, <2>1, <2>2, ChainAssumption
  <2>4. \A c \in good : (\A f \in good : c <= f) => c = MbrEntry
        BY <1>1, <2>1, <2>2, <2>3
  <2>5. (CHOOSE e \in good : \A f \in good : e <= f) = MbrEntry
    <3> HIDE DEF good
    <3> QED BY <2>1, <2>3, <2>4
  <2> QED BY <2>1, <2>5 DEF FindActive, BootedPartition
<1> QED BY <1>2, <1>3

-----------------------------------------------------------------------------
(* The inductive invariant of the chain, stage by stage                    *)

\* Of the two tests a disk is the only thing they depend on.
LEMMA SameDisk ==
    ASSUME UNCHANGED disk
    PROVE  /\ BootedPartition' = BootedPartition
           /\ OnlyIoSysIsMarked' = OnlyIoSysIsMarked
           /\ \A l : Sector(l)' = Sector(l)
<1>1. BootedPartition' = BootedPartition
      BY DEF BootedPartition, MbrEntry, Active
<1>2. \A l : Sector(l)' = Sector(l)
      BY DEF Sector
<1> QED BY <1>1, <1>2 DEF OnlyIoSysIsMarked

LEMMA ChainInitInv == ChainInit => ChainInv
BY ChainAssumption
   DEF ChainInit, ChainInv, AtPartition, BehindPartition, NothingSkipped, ChunkUnderWay,
       FirstIoSysRuns, FirstChunkLoaded

\* Only sector 0 runs as an MBR, so any other partition gets past it.
LEMMA SectorRuns ==
    ASSUME disk \in Disks, NEW l \in Nat
    PROVE  /\ Starts(Sector(l)) \in {"mbr", "vbr", "stage1", "hang"}
           /\ Starts(Sector(l)) = "stage1" => Sector(l).runs = "iosys"
           /\ Starts(Sector(l)) = "mbr" => l = 0
           /\ Starts(Sector(l)) # "mbr" => l # 0 \/ Starts(Sector(l)) = "hang"
<1>1. Sector(l).runs = "mbr" => l = 0
      BY BootedAssumption DEF Sector, Blank
<1>2. l = 0 => Sector(l).runs = "mbr"
      BY BootedAssumption DEF Sector
<1> QED BY <1>1, <1>2 DEF Starts

\* The first sector of IO.SYS always passes vbr.S's test.
LEMMA IoSysIsMarked ==
    ASSUME disk \in Disks, NEW l \in Nat, Sector(l).runs = "iosys"
    PROVE  Sector(l).boot /\ Sector(l).gemi
BY BootedAssumption DEF Sector, Blank

\* A failing read changes nothing but the attempts left, or hangs.
LEMMA FailureKeepsInv ==
    ASSUME ChainInv, NEW here \in {"mbrRead", "vbrRead", "stage1Read"}, ReadFails(here)
    PROVE  ChainInv'
<1> USE DEF ChainInv, AtPartition, BehindPartition, NothingSkipped, ChunkUnderWay,
            FirstIoSysRuns, FirstChunkLoaded
<1>1. /\ stage = here /\ stage' \in {here, "hang"}
      /\ UNCHANGED <<disk, ebx, at7C00, scan, stage1, part>>
      BY DEF ReadFails
<1>2. UNCHANGED <<disk, ebx, scan, packet, left, image, part>>
      BY <1>1 DEF stage1
<1> QED BY <1>1, <1>2, SameDisk

LEMMA MbrKeepsInv ==
    ASSUME ChainInv, Mbr \/ MbrReadOk PROVE ChainInv'
<1> USE DEF ChainInv, AtPartition, BehindPartition, NothingSkipped, ChunkUnderWay,
            FirstIoSysRuns, FirstChunkLoaded
<1>1. UNCHANGED <<disk, scan, packet, left, image, part>>
      BY DEF Mbr, MbrReadOk, stage1
<1>2. BootedPartition \in Nat
      BY MbrChoice
<1>3. CASE Mbr
  <2>1. stage' = "hang" \/ (stage' = "mbrRead" /\ ebx' = BootedPartition)
        BY <1>3 DEF Mbr, BootedPartition
  <2> QED BY <1>1, <1>2, <2>1, SameDisk
<1>4. CASE MbrReadOk
  <2>1. ebx = BootedPartition /\ ebx' = ebx
        BY <1>4 DEF MbrReadOk
  <2>2. /\ stage' \in {"mbr", "vbr", "stage1", "hang"}
        /\ stage' \in {"vbr", "stage1"} => BootedPartition # 0
        /\ stage' = "stage1" => Sector(ebx).runs = "iosys"
        BY <1>2, <1>4, <2>1, SectorRuns DEF MbrReadOk
  <2> QED BY <1>1, <1>2, <2>1, <2>2, SameDisk
<1> QED BY <1>3, <1>4

LEMMA VbrKeepsInv ==
    ASSUME ChainInv, Vbr \/ VbrReadOk PROVE ChainInv'
<1> USE DEF ChainInv, AtPartition, BehindPartition, NothingSkipped, ChunkUnderWay,
            FirstIoSysRuns, FirstChunkLoaded
<1>1. UNCHANGED <<disk, packet, left, image, part>>
      BY DEF Vbr, VbrReadOk, stage1
<1>2. /\ BootedPartition \in Nat /\ BootedPartition # 0
      /\ ebx \in Nat /\ ebx >= BootedPartition
      /\ OnlyIoSysIsMarked => ebx = BootedPartition
      BY MbrChoice DEF Vbr, VbrReadOk
<1>3. CASE Vbr
  <2>1. stage' = "vbrRead" /\ ebx' = ebx /\ scan' = ebx + 2
        BY <1>3 DEF Vbr
  <2>2. /\ scan' >= BootedPartition + 2
        /\ OnlyIoSysIsMarked => BootedPartition + 2 .. scan' - 1 = {}
        BY <1>2, <2>1
  <2> QED BY <1>1, <1>2, <2>1, <2>2, SameDisk
<1>4. CASE VbrReadOk
  <2> DEFINE marked == Sector(scan).boot /\ Sector(scan).gemi
  <2>1. /\ stage = "vbrRead" /\ scan \in Nat /\ scan >= ebx + 2
        /\ scan >= BootedPartition + 2
        /\ OnlyIoSysIsMarked =>
              \A l \in BootedPartition + 2 .. scan - 1 : Sector(l).runs # "iosys"
        BY <1>4 DEF VbrReadOk
  <2>2. CASE marked
    <3>1. stage' = Starts(Sector(scan)) /\ ebx' = scan
          BY <1>4, <2>2 DEF VbrReadOk
    <3>2. stage' \in {"vbr", "stage1", "hang"}
          BY <1>2, <2>1, <3>1, SectorRuns
    <3>3. stage' = "stage1" => Sector(scan).runs = "iosys"
          BY <2>1, <3>1, SectorRuns
    <3>4. OnlyIoSysIsMarked => stage' # "vbr"
      <4>1. scan \in DOMAIN disk.sector
            BY <2>2 DEF Sector, Blank
      <4>2. OnlyIoSysIsMarked => Sector(scan).runs = "iosys"
            BY <2>1, <2>2, <4>1 DEF OnlyIoSysIsMarked
      <4> QED BY <3>1, <4>2 DEF Starts
    <3> QED BY <1>1, <1>2, <2>1, <3>1, <3>2, <3>3, <3>4, SameDisk
  <2>3. CASE ~marked
    <3>1. stage' = "vbrRead" /\ ebx' = ebx /\ scan' = scan + 1
          BY <1>4, <2>1, <2>3 DEF VbrReadOk
    <3>2. Sector(scan).runs # "iosys"
          BY <2>1, <2>3, IoSysIsMarked
    <3>3. scan' \in Nat /\ scan' >= ebx + 2 /\ scan' >= BootedPartition + 2
          BY <1>2, <2>1, <3>1
    <3>4. OnlyIoSysIsMarked =>
             \A l \in BootedPartition + 2 .. scan' - 1 : Sector(l).runs # "iosys"
          BY <1>2, <2>1, <3>1, <3>2
    <3> QED BY <1>1, <1>2, <3>1, <3>3, <3>4, SameDisk
  <2> QED BY <2>2, <2>3
<1> QED BY <1>3, <1>4

LEMMA Stage1KeepsInv ==
    ASSUME ChainInv, Stage1 \/ Stage1ReadOk PROVE ChainInv'
<1> USE DEF ChainInv, AtPartition, BehindPartition, NothingSkipped, ChunkUnderWay,
            FirstIoSysRuns, FirstChunkLoaded
<1>1. UNCHANGED <<disk, ebx, part>>
      BY DEF Stage1, Stage1ReadOk
<1>2. /\ BootedPartition' = BootedPartition
      /\ OnlyIoSysIsMarked' = OnlyIoSysIsMarked
      /\ \A l : Sector(l)' = Sector(l)
      BY <1>1, SameDisk
<1>3. ebx \in Nat
      BY DEF Stage1, Stage1ReadOk
<1>4. FirstIoSysRuns'
      BY <1>1, <1>2 DEF Stage1, Stage1ReadOk
<1>5. CASE Stage1
  <2>1. /\ stage' = "stage1Read" /\ image' = image
        /\ packet' = [lba |-> ebx + 1, chunk |-> 0] /\ left' = Chunks
        BY <1>5 DEF Stage1
  <2>2. ChunkUnderWay'
        BY <1>1, <1>3, <2>1, ChainAssumption
  <2> QED BY <1>1, <1>2, <1>3, <1>4, <1>5, <2>1, <2>2 DEF Stage1
<1>6. CASE Stage1ReadOk
  <2> DEFINE k == packet.chunk
  <2>1. /\ packet \in [lba : Nat, chunk : Nat] /\ packet.lba = ebx + 1
        /\ k \in 0 .. Chunks - 1 /\ left = Chunks - k
        /\ k > 0 => image[0] = ebx + 1
        /\ image \in [0 .. Chunks - 1 -> Nat \cup {NoLba}]
        BY <1>6 DEF Stage1ReadOk
  <2>2. /\ image' = [image EXCEPT ![k] = packet.lba]
        /\ packet' = [packet EXCEPT !.chunk = k + 1] /\ left' = left - 1
        /\ stage' = IF left' = 0 THEN "second" ELSE "stage1Read"
        BY <1>6 DEF Stage1ReadOk
  <2>3. packet' \in [lba : Nat, chunk : Nat] /\ packet'.lba = ebx + 1
        BY <1>3, <2>1, <2>2
  <2>4. packet'.chunk = k + 1 /\ left' = Chunks - (k + 1)
        BY <2>1, <2>2, ChainAssumption
  <2>5. stage' = "stage1Read" => packet'.chunk \in 0 .. Chunks - 1
        BY <2>1, <2>2, <2>4, ChainAssumption
  <2>6. image' \in [0 .. Chunks - 1 -> Nat \cup {NoLba}]
        BY <2>1, <2>2, <1>3
  <2>7. image'[0] = ebx + 1
        BY <2>1, <2>2, ChainAssumption
  <2>8. ChunkUnderWay' /\ FirstChunkLoaded'
        BY <1>1, <2>3, <2>4, <2>5, <2>6, <2>7
  <2> QED BY <1>1, <1>2, <1>3, <1>4, <1>6, <2>2, <2>8 DEF Stage1ReadOk
<1> QED BY <1>5, <1>6

LEMMA LoaderKeepsInv ==
    ASSUME ChainInv, NEW read, NEW mbr, LoaderFindsPartition(read, mbr)
    PROVE  ChainInv'
BY SameDisk
   DEF LoaderFindsPartition, regs, stage1, ChainInv, AtPartition, BehindPartition,
       NothingSkipped, ChunkUnderWay, FirstIoSysRuns, FirstChunkLoaded

LEMMA StutterKeepsInv ==
    ASSUME ChainInv, UNCHANGED chainVars PROVE ChainInv'
BY SameDisk
   DEF chainVars, regs, stage1, ChainInv, AtPartition, BehindPartition,
       NothingSkipped, ChunkUnderWay, FirstIoSysRuns, FirstChunkLoaded

LEMMA ChainStepInv ==
    ASSUME ChainInv, ChainNext PROVE ChainInv'
<1>1. CASE MbrReadFails \/ VbrReadFails \/ Stage1ReadFails
      BY <1>1, FailureKeepsInv DEF MbrReadFails, VbrReadFails, Stage1ReadFails
<1> QED BY <1>1, MbrKeepsInv, VbrKeepsInv, Stage1KeepsInv DEF ChainNext

-----------------------------------------------------------------------------
(* The composition                                                         *)

\* To the processor every step is its own or none.
LEMMA BootStepIsThunkStep == [BootNext]_bootVars => [ThunkNext]_<<vars, cpuVars>>
<1> SUFFICES ASSUME [BootNext]_bootVars PROVE [ThunkNext]_<<vars, cpuVars>>
    OBVIOUS
<1>1. CASE ChainStep
      BY <1>1, Zenon DEF ChainStep
<1>2. CASE SwitchStep
      BY <1>2, Zenon DEF SwitchStep, ThunkNext
<1>3. CASE ReadMbr
      BY <1>3, Zenon DEF ReadMbr, ThunkNext
<1>4. CASE FindPartition
      BY <1>4, Zenon DEF FindPartition, ThunkNext
<1>5. CASE LoaderStep
      BY <1>5, Zenon DEF LoaderStep, ThunkNext
<1>6. CASE LeaveLoader
      BY <1>6, Zenon DEF LeaveLoader, ThunkNext
<1>7. CASE TakeInterrupt
      BY <1>7, Zenon DEF TakeInterrupt, ThunkNext
<1>8. CASE UNCHANGED bootVars
      BY <1>8, Zenon DEF bootVars
<1> QED BY <1>1, <1>2, <1>3, <1>4, <1>5, <1>6, <1>7, <1>8, Zenon DEF BootNext

LEMMA BootStepKeepsChainInv == ChainInv /\ [BootNext]_bootVars => ChainInv'
<1> SUFFICES ASSUME ChainInv, [BootNext]_bootVars PROVE ChainInv'
    OBVIOUS
<1>1. CASE ChainStep
      BY <1>1, ChainStepInv DEF ChainStep
<1>2. CASE FindPartition
      BY <1>2, LoaderKeepsInv, Zenon DEF FindPartition
<1>3. CASE UNCHANGED chainVars
      BY <1>3, StutterKeepsInv
<1> QED
    BY <1>1, <1>2, <1>3, Zenon
    DEF BootNext, SwitchStep, ReadMbr, LoaderStep, LeaveLoader, TakeInterrupt, bootVars

\* Until the loader has found its partition, the only request there was is the
\* one for the MBR.
FirstRequest ==
    /\ stage \notin {"second", "loader"} => pc = "idle"
    /\ stage = "second" /\ pc # "idle" => req = [lba |-> 0, count |-> 1]

LEMMA ChainNextStage ==
    ASSUME ChainNext PROVE stage \notin {"second", "loader"} /\ stage' # "loader"
<1>1. CASE Mbr
      BY <1>1 DEF Mbr
<1>2. CASE MbrReadOk
      BY <1>2 DEF MbrReadOk, Starts
<1>3. CASE MbrReadFails \/ VbrReadFails \/ Stage1ReadFails
      BY <1>3 DEF MbrReadFails, VbrReadFails, Stage1ReadFails, ReadFails
<1>4. CASE Vbr
      BY <1>4 DEF Vbr
<1>5. CASE VbrReadOk
      BY <1>5 DEF VbrReadOk, Starts
<1>6. CASE Stage1 \/ Stage1ReadOk
      BY <1>6 DEF Stage1, Stage1ReadOk
<1> QED BY <1>1, <1>2, <1>3, <1>4, <1>5, <1>6 DEF ChainNext

\* A step of the C code or of the BIOS keeps the request, unless it is a call.
LEMMA SameRequest ==
    ASSUME InC \/ InThunk, pc # "idle" PROVE req' = req
<1>1. Call \/ CopyChunk \/ ReturnOk \/ Resume \/ StartChunk \/ Int13Ok \/ Int13Fail
      BY Zenon DEF InC, InThunk, CStep
<1> QED BY <1>1 DEF Call, CopyChunk, ReturnOk, Resume, StartChunk, Int13Ok, Int13Fail

LEMMA BootStepKeepsRequest == FirstRequest /\ [BootNext]_bootVars => FirstRequest'
<1> SUFFICES ASSUME FirstRequest, [BootNext]_bootVars PROVE FirstRequest'
    OBVIOUS
<1>1. CASE ChainStep
  <2>1. pc = "idle" /\ UNCHANGED vars
        BY <1>1, ChainNextStage DEF ChainStep, FirstRequest
  <2> QED BY <2>1 DEF vars, FirstRequest
<1>2. CASE ReadMbr
  <2>1. stage = "second" /\ stage' = "second"
        BY <1>2 DEF ReadMbr, chainVars
  <2>2. req' = [lba |-> 0, count |-> 1]
        BY <1>2, <2>1, SameRequest DEF ReadMbr, FirstRequest
  <2> QED BY <2>1, <2>2 DEF FirstRequest
<1>3. CASE FindPartition
      BY <1>3 DEF FindPartition, LoaderFindsPartition, FirstRequest
<1>4. CASE LoaderStep \/ LeaveLoader
  <2>1. stage' = "loader"
        BY <1>4 DEF LoaderStep, LeaveLoader, chainVars
  <2> QED BY <2>1 DEF FirstRequest
<1>5. CASE SwitchStep \/ TakeInterrupt \/ UNCHANGED bootVars
  <2>1. UNCHANGED chainVars /\ UNCHANGED vars
        BY <1>5, Zenon DEF SwitchStep, TakeInterrupt, Execute, Interrupt, bootVars
  <2> QED BY <2>1 DEF chainVars, vars, FirstRequest
<1> QED BY <1>1, <1>2, <1>3, <1>4, <1>5 DEF BootNext

LEMMA BootInitHolds == BootInit => ChainInv /\ ThunkInv /\ Init /\ FirstRequest
<1> SUFFICES ASSUME BootInit PROVE ChainInv /\ ThunkInv /\ Init /\ FirstRequest
    OBVIOUS
<1>1. ChainInit /\ ThunkInit /\ Init
      BY DEF BootInit, ThunkInit
<1>2. FirstRequest
      BY <1>1 DEF ChainInit, Init, FirstRequest
<1> QED BY <1>1, <1>2, ChainInitInv, ThunkInitInv

-----------------------------------------------------------------------------
(* The theorems                                                            *)

\* Where nothing else bears the marks vbr.S looks for, nothing but the first
\* IO.SYS behind the partition's second sector (or at its first one) is ever
\* run as stage 1, and nothing but an IO.SYS on any disk.
THEOREM FirstIoSysIsRun == BootSpec => []FirstIoSysRuns
<1>1. ChainInv => FirstIoSysRuns
      BY DEF ChainInv
<1>2. BootInit => ChainInv
      BY BootInitHolds
<1> QED BY <1>1, <1>2, BootStepKeepsChainInv, PTL DEF BootSpec

\* The second stage is entered with the sectors after that one at 0x10000.
THEOREM SecondStageIsLoaded == BootSpec => []FirstChunkLoaded
<1>1. ChainInv => FirstChunkLoaded
      BY DEF ChainInv
<1>2. BootInit => ChainInv
      BY BootInitHolds
<1> QED BY <1>1, <1>2, BootStepKeepsChainInv, PTL DEF BootSpec

\* mbr.S and find_active_partition_lba() agree on the partition, unless the C
\* loader's read of the MBR fails.
THEOREM PartitionIsAgreed ==
    ASSUME ~PacketCountUpdated
    PROVE  BootSpec => PartitionAgreed
<1> DEFINE Agreed ==
        FindPartition => part' = IF ret = "ok" THEN BootedPartition ELSE DefaultLba
<1>1. ASSUME ChainInv, IInv, FirstRequest, FindPartition
      PROVE  part' = IF ret = "ok" THEN BootedPartition ELSE DefaultLba
  <2>1. stage = "second" /\ pc = "done"
        BY <1>1 DEF FindPartition, LoaderFindsPartition
  <2>2. req = [lba |-> 0, count |-> 1]
        BY <1>1, <2>1 DEF FirstRequest
  <2>3. ret = "ok" => buffer[0] = 0
    <3>1. ret = "ok" => \A i \in 0 .. 0 : buffer[i] = 0 + i
          BY <1>1, <2>1, <2>2, CompleteByIInv DEF ReadComplete
    <3> QED BY <3>1
  <2>4. FindActive = BootedPartition
        BY <1>1, <2>1, SearchesAgree DEF ChainInv, AtPartition
  <2> QED BY <1>1, <2>3, <2>4 DEF FindPartition, LoaderFindsPartition
<1>2. ChainInv /\ IInv /\ FirstRequest /\ [BootNext]_bootVars => [Agreed]_bootVars
      BY <1>1
<1>3. IInv /\ [BootNext]_bootVars => IInv'
      BY BootStepIsThunkStep, StepIsDiskStep, StepIInv
<1>4. BootInit => ChainInv /\ IInv /\ FirstRequest
      BY BootInitHolds, InitIInv
<1> HIDE DEF Agreed
<1>5. BootSpec => [][Agreed]_bootVars
      BY <1>2, <1>3, <1>4, BootStepKeepsChainInv, BootStepKeepsRequest, PTL DEF BootSpec
<1> QED BY <1>5 DEF PartitionAgreed, Agreed

\* On the whole way from the MBR to the kernel nothing is ever executed in a
\* mode, segment, table or stack it is not made for.
THEOREM BootNeverCrashes == BootSpec => []NeverCrashes
<1>1. ThunkInv => NeverCrashes
      BY DEF ThunkInv, NeverCrashes
<1>2. BootInit => ThunkInv
      BY BootInitHolds
<1> QED BY <1>1, <1>2, BootStepIsThunkStep, ThunkStepInv, PTL DEF BootSpec

\* Every read the loader makes on this way is complete when it is answered "0" ...
THEOREM BootReadsAreComplete ==
    ASSUME ~PacketCountUpdated
    PROVE  BootSpec => []ReadComplete
<1>1. IInv /\ [Next]_vars => IInv'
      BY StepIInv
<1>2. BootInit => IInv
      BY BootInitHolds, InitIInv
<1> QED BY <1>1, <1>2, BootStepIsThunkStep, StepIsDiskStep, CompleteByIInv, PTL DEF BootSpec

\* ... and a step of SectorRead or invisible to it at every moment.
THEOREM BootReadsImplementSectorRead ==
    ASSUME ~PacketCountUpdated
    PROVE  BootSpec => Abstract!Init /\ [][Abstract!Next]_(Abstract!vars)
<1>1. IInv /\ [Next]_vars => IInv' /\ [Abstract!Next]_(Abstract!vars)
      BY StepIInv, StepImplements
<1>2. BootInit => IInv /\ Abstract!Init
      BY BootInitHolds, InitIInv, InitImplements
<1> QED BY <1>1, <1>2, BootStepIsThunkStep, StepIsDiskStep, PTL DEF BootSpec
=============================================================================
