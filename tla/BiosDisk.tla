------------------------------ MODULE BiosDisk ------------------------------
(***************************************************************************)
(* bios_read_sectors(): the C loop of bios_disk.c, the assembly stub       *)
(* bios_disk_read_raw of io32.S that fills the disk address packet, and    *)
(* the real-mode thunk of io16.S that issues INT 13h/AH=42h up to three    *)
(* times.  Every transfer goes through a bounce buffer in low memory that  *)
(* keeps whatever earlier (failed) transfers and earlier calls left there. *)
(*                                                                         *)
(* A sector's content is represented by its LBA.  LBAs stay far below      *)
(* 2^32, so that lba + count does not wrap.  Every caller in the program   *)
(* asks for one sector; the function takes any count, and so does the      *)
(* model.                                                                  *)
(***************************************************************************)
EXTENDS Naturals

CONSTANTS
    DiskSectors,      \* the disk has sectors 0 .. DiskSectors - 1
    Lbas,             \* LBAs a caller may ask for (possibly past the end)
    Counts,           \* numbers of sectors a caller may ask for
    BufSectors,       \* capacity of the caller's buffer, in sectors
    MaxSectorsChunk,  \* MAX_SECTORS_CHUNK (64), capacity of the bounce buffer
    Tries,            \* INT 13h attempts per chunk (3)
    PacketCountUpdated, \* does a failing INT 13h store the number of sectors
                        \* it transferred in the packet, as EDD allows?
    NoData            \* content of memory no sector was written to

ASSUME DiskAssumption ==
    /\ DiskSectors \in Nat
    /\ Lbas \subseteq Nat
    /\ BufSectors \in Nat
    /\ Counts \subseteq 0 .. BufSectors
    /\ MaxSectorsChunk \in Nat \ {0}
    /\ Tries \in Nat \ {0}
    /\ PacketCountUpdated \in BOOLEAN
    /\ NoData \notin Nat

VARIABLES
    pc,           \* "idle", "loop", "int13", "copy", "done"
    req,          \* the caller's request, [lba, count]
    lba, count,   \* the loop's own lba and count
    pos,          \* dest - buffer, in sectors
    chunk,        \* sectors of the current chunk
    dap,          \* the disk address packet, [lba, sectors]
    cx,           \* attempts left for the current chunk
    bounce,       \* the bounce buffer at 0x20000
    buffer,       \* the caller's buffer
    ret           \* the return value: "none", "ok" (0) or "err" (-1)

vars == <<pc, req, lba, count, pos, chunk, dap, cx, bounce, buffer, ret>>

BufIdx == 0 .. BufSectors - 1
BounceIdx == 0 .. MaxSectorsChunk - 1
Content == Nat \cup {NoData}

Init ==
    /\ pc = "idle"
    /\ req = [lba |-> 0, count |-> 0]
    /\ lba = 0 /\ count = 0 /\ pos = 0 /\ chunk = 0
    /\ dap = [lba |-> 0, sectors |-> 0]
    /\ cx = 0
    /\ bounce = [i \in BounceIdx |-> NoData]
    /\ buffer = [i \in BufIdx |-> NoData]
    /\ ret = "none"

-----------------------------------------------------------------------------
(* bios_disk.c: bios_read_sectors                                          *)

\* A caller asks for n sectors from l into a buffer of its own.
Call ==
    /\ pc = "idle"
    /\ \E l \in Lbas, n \in Counts :
          /\ req' = [lba |-> l, count |-> n]
          /\ lba' = l
          /\ count' = n
    /\ pos' = 0
    /\ buffer' = [i \in BufIdx |-> NoData]
    /\ ret' = "none"
    /\ pc' = "loop"
    /\ UNCHANGED <<chunk, dap, cx, bounce>>

ChunkOf(n) == IF n > MaxSectorsChunk THEN MaxSectorsChunk ELSE n

\* One turn of the while loop up to the BIOS call: the chunk is cut, the
\* packet is filled from it and the thunk loads its retry counter.
StartChunk_StalePacket ==
    /\ pc = "loop" /\ count > 0
    /\ chunk' = ChunkOf(count)
    /\ dap' = [lba |-> req.lba, sectors |-> chunk']
    /\ cx' = Tries
    /\ pc' = "int13"
    /\ UNCHANGED <<req, lba, count, pos, bounce, buffer, ret>>
StartChunk ==
    /\ pc = "loop" /\ count > 0
    /\ chunk' = ChunkOf(count)
    /\ dap' = [lba |-> lba, sectors |-> chunk']
    /\ cx' = Tries
    /\ pc' = "int13"
    /\ UNCHANGED <<req, lba, count, pos, bounce, buffer, ret>>

\* memcpy(dest, bounce, chunk * 512) and the three updates that follow it.
CopyChunk ==
    /\ pc = "copy"
    /\ buffer' = [i \in BufIdx |-> IF i \in pos .. pos + chunk - 1
                                   THEN bounce[i - pos] ELSE buffer[i]]
    /\ lba' = lba + chunk
    /\ count' = count - chunk
    /\ pos' = pos + chunk
    /\ pc' = "loop"
    /\ UNCHANGED <<req, chunk, dap, cx, bounce, ret>>

\* The loop is over (or was never entered: count = 0): return 0.
ReturnOk ==
    /\ pc = "loop" /\ count = 0
    /\ ret' = "ok"
    /\ pc' = "done"
    /\ UNCHANGED <<req, lba, count, pos, chunk, dap, cx, bounce, buffer>>

\* The caller goes on; the next call finds the bounce buffer as it is.
Resume ==
    /\ pc = "done"
    /\ pc' = "idle"
    /\ UNCHANGED <<req, lba, count, pos, chunk, dap, cx, bounce, buffer, ret>>

-----------------------------------------------------------------------------
(* io16.S: bios_int13_thunk16                                              *)

\* The bounce buffer after the BIOS stored k sectors of the packet in it.
Transferred(k) ==
    [i \in BounceIdx |-> IF i < k THEN dap.lba + i ELSE bounce[i]]

\* INT 13h returns with carry clear: the packet's sectors are in the buffer.
Int13Ok ==
    /\ pc = "int13"
    /\ dap.lba + dap.sectors <= DiskSectors
    /\ bounce' = Transferred(dap.sectors)
    /\ pc' = "copy"
    /\ UNCHANGED <<req, lba, count, pos, chunk, dap, cx, buffer, ret>>

\* INT 13h returns with carry set after k sectors.  The controller is reset
\* (its result is not looked at) and the SAME packet is tried again until cx
\* runs out; then the thunk answers 1 and the C code returns -1.
Int13Fail_NotReported ==
    /\ pc = "int13"
    /\ \E k \in 0 .. dap.sectors - 1 :
          /\ dap.lba + k <= DiskSectors
          /\ bounce' = Transferred(k)
    /\ cx' = cx - 1
    /\ pc' = IF cx > 1 THEN "int13" ELSE "copy"
    /\ UNCHANGED <<req, lba, count, pos, chunk, dap, buffer, ret>>
Int13Fail ==
    /\ pc = "int13"
    /\ \E k \in 0 .. dap.sectors - 1 :
          /\ dap.lba + k <= DiskSectors
          /\ bounce' = Transferred(k)
          /\ dap' = IF PacketCountUpdated THEN [dap EXCEPT !.sectors = k] ELSE dap
    /\ cx' = cx - 1
    /\ IF cx > 1 THEN pc' = "int13" /\ ret' = ret
                 ELSE pc' = "done" /\ ret' = "err"
    /\ UNCHANGED <<req, lba, count, pos, chunk, buffer>>

-----------------------------------------------------------------------------
Next ==
    \/ Call \/ StartChunk \/ CopyChunk \/ ReturnOk \/ Resume
    \/ Int13Ok \/ Int13Fail

\* Straight-line code: the processor keeps executing what it can execute,
\* and the BIOS call returns.  Nothing makes a caller call.
Running == StartChunk \/ CopyChunk \/ ReturnOk \/ Resume \/ Int13Ok \/ Int13Fail

Spec == Init /\ [][Next]_vars /\ WF_vars(Running)

-----------------------------------------------------------------------------
(* Properties                                                              *)

\* Every variable keeps its type; in particular the bounce buffer is never
\* addressed beyond its capacity.
TypeOK ==
    /\ pc \in {"idle", "loop", "int13", "copy", "done"}
    /\ req \in [lba : Nat, count : 0 .. BufSectors]
    /\ lba \in Nat
    /\ count \in 0 .. BufSectors
    /\ pos \in 0 .. BufSectors
    /\ chunk \in 0 .. MaxSectorsChunk
    /\ dap \in [lba : Nat, sectors : 0 .. MaxSectorsChunk]
    /\ cx \in 0 .. Tries
    /\ bounce \in [BounceIdx -> Content]
    /\ buffer \in [BufIdx -> Content]
    /\ ret \in {"none", "ok", "err"}

\* The answer "ok" means that every requested sector is in the buffer, each
\* in its place, however many attempts failed half-way and whatever earlier
\* calls had left in the bounce buffer.
ReadComplete ==
    pc = "done" /\ ret = "ok" => \A i \in 0 .. req.count - 1 : buffer[i] = req.lba + i

\* At every moment, and also after an error, the buffer holds a correct
\* prefix of the request and nothing beyond it: no stale or misplaced sector
\* ever reaches the caller, and nothing past the request is written.
DestIsPrefix ==
    \A i \in BufIdx : buffer[i] = IF i < pos THEN req.lba + i ELSE NoData

\* The inductive invariant behind ReadComplete.  The loop's lba and count are
\* the request minus what was copied; while a chunk is in flight, the packet
\* describes it; when it is copied, the bounce buffer holds it.
LoopAhead ==
    /\ pos <= req.count
    /\ pc \in {"loop", "int13", "copy"} =>
          lba = req.lba + pos /\ count = req.count - pos
PacketIsChunk ==
    pc \in {"int13", "copy"} =>
       /\ chunk \in 1 .. count
       /\ dap = [lba |-> lba, sectors |-> chunk]
       /\ pc = "int13" => cx > 0
BounceIsChunk ==
    pc = "copy" => \A i \in 0 .. chunk - 1 : bounce[i] = lba + i
OkIsComplete == pc = "done" /\ ret = "ok" => pos = req.count

IInv == TypeOK /\ LoopAhead /\ PacketIsChunk /\ BounceIsChunk
               /\ DestIsPrefix /\ OkIsComplete

\* bios_read_sectors() implements SectorRead: whatever the attempts do, it only
\* adds sectors to the prefix delivered, answers "err" only short of the
\* request, and returns from every call.
Abstract == INSTANCE SectorRead WITH
    phase <- IF pc \in {"loop", "int13", "copy"} THEN "busy" ELSE pc,
    delivered <- pos
ImplementsSectorRead == Abstract!Spec
=============================================================================
