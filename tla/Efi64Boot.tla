------------------------------ MODULE Efi64Boot ------------------------------
(***************************************************************************)
(* efi_main() of the 64-bit UEFI loader, from the kernel file to the jump  *)
(* through the trampoline, with a firmware whose memory map changes under  *)
(* the loader's hands.                                                     *)
(*                                                                         *)
(* Reading the file and loading the ELF segments are one step each here.   *)
(***************************************************************************)
EXTENDS EfiFirmware

CONSTANTS
    Retries,      \* turns of the loop around ExitBootServices (10)
    Nothing       \* mbi was not filled in yet

ASSUME RetriesAssumption == Retries \in Nat \ {0}

VARIABLES
    pc,      \* "read", "reserve", "load", "tramp", "trampAny", "getmap",
             \* "exit", "convert", "remap", "jump", "kernel", "halted"
    retry,   \* turns of the exit loop begun
    trampAt, \* g_tramp_phys: "low" (0x20000) or "any"
    copied,  \* where the trampoline was copied to: "nowhere", "low", "any"
    mbi      \* memory map and mem_upper of the multiboot information

loader == <<pc, retry, trampAt, copied, mbi>>
vars == <<fwVars, bufVars, loader>>

Init ==
    /\ FirmwareInit
    /\ pc = "read"
    /\ retry = 0
    /\ trampAt = "low"
    /\ copied = "nowhere"
    /\ mbi = Nothing

\* The firmware's events run between any two steps of the loader.
Event ==
    /\ pc \notin {"kernel", "halted"}
    /\ NewMap
    /\ UNCHANGED <<bufVars, loader>>

-----------------------------------------------------------------------------
\* read_kernel_file(): the file is found and read, or the loader stops; the
\* firmware may allocate for it.
ReadKernel ==
    /\ pc = "read"
    /\ pc' \in {"reserve", "halted"}
    /\ NewMap \/ UNCHANGED fwVars
    /\ UNCHANGED <<bufVars, retry, trampAt, copied, mbi>>

\* AllocatePages(AllocateAddress, ..., 768, 1 MB); its status is ignored.
ReserveKernelSpace ==
    /\ pc = "reserve"
    /\ pc' = "load"
    /\ NewMap \/ UNCHANGED fwVars
    /\ UNCHANGED <<bufVars, retry, trampAt, copied, mbi>>

\* elf32_load(): an entry point, or the loader stops.
LoadElf ==
    /\ pc = "load"
    /\ pc' \in {"tramp", "halted"}
    /\ UNCHANGED <<fwVars, bufVars, retry, trampAt, copied, mbi>>

\* Two pages at 0x20000: the trampoline and the GDT are copied there.
TrampolineLow ==
    /\ pc = "tramp"
    /\ \/ /\ NewMap \* AllocatePages succeeds
          /\ copied' = "low" /\ trampAt' = "low"
          /\ pc' = "getmap"
       \/ /\ UNCHANGED <<fwVars, copied, trampAt>>
          /\ pc' = "trampAny"
    /\ UNCHANGED <<bufVars, retry, mbi>>

\* ... or anywhere below 4 GB; when that fails too, the loader goes on.
TrampolineAny ==
    /\ pc = "trampAny"
    /\ \/ NewMap /\ copied' = "any" /\ trampAt' = "any"
       \/ UNCHANGED <<fwVars, copied, trampAt>>
    /\ pc' = "getmap"
    /\ UNCHANGED <<bufVars, retry, mbi>>

-----------------------------------------------------------------------------
(* for (retry = 0; retry < 10; retry++)                                    *)

\* The next turn of the loop, or what follows it.
Again_Forever == pc' = "getmap" /\ UNCHANGED retry
Again ==
    /\ retry' = retry + 1
    /\ pc' = IF retry' < Retries THEN "getmap" ELSE "convert"

GetMemoryMap ==
    /\ pc = "getmap"
    /\ \/ MapDelivered /\ pc' = "exit" /\ UNCHANGED retry
       \/ MapTooLarge /\ Again
    /\ UNCHANGED <<active, map, trampAt, copied, mbi>>

ExitBootServices_Ignored ==
    /\ pc = "exit"
    /\ active' = (active /\ ~ExitAccepted)
    /\ pc' = "convert"
    /\ UNCHANGED <<map, keyFresh, bufVars, retry, trampAt, copied, mbi>>
ExitBootServices ==
    /\ pc = "exit"
    /\ \/ ExitAccepted /\ active' = FALSE /\ pc' = "convert" /\ UNCHANGED retry
       \/ ExitRefused /\ Again /\ UNCHANGED active
    /\ UNCHANGED <<map, keyFresh, bufVars, trampAt, copied, mbi>>

-----------------------------------------------------------------------------
\* convert_memory_map(uefi_mmap_buf, mmap_size, ...)
Convert_WholeBuffer ==
    /\ pc = "convert"
    /\ mbi' = ConvertMemoryMap(buf, BufDescs)
    /\ pc' = "remap"
    /\ UNCHANGED <<fwVars, bufVars, retry, trampAt, copied>>
Convert ==
    /\ pc = "convert"
    /\ mbi' = ConvertMemoryMap(buf, num)
    /\ pc' = "remap"
    /\ UNCHANGED <<fwVars, bufVars, retry, trampAt, copied>>

\* pci_remap_above_4g_bars(): port I/O only, nothing of the above changes.
RemapPci ==
    /\ pc = "remap"
    /\ pc' = "jump"
    /\ UNCHANGED <<fwVars, bufVars, retry, trampAt, copied, mbi>>

\* jump_to_32bit_kernel(): interrupts off, far return to g_tramp_phys.
Jump ==
    /\ pc = "jump"
    /\ pc' = "kernel"
    /\ UNCHANGED <<fwVars, bufVars, retry, trampAt, copied, mbi>>

Step ==
    \/ ReadKernel \/ ReserveKernelSpace \/ LoadElf \/ TrampolineLow \/ TrampolineAny
    \/ GetMemoryMap \/ ExitBootServices \/ Convert \/ RemapPci \/ Jump

Next == Step \/ Event

\* The processor executes the loader; nothing makes events happen.
Spec == Init /\ [][Next]_vars /\ WF_vars(Step)

-----------------------------------------------------------------------------
(* Properties                                                              *)

\* The comment above convert_memory_map() says "after Boot Services are safely
\* terminated": the map handed to the kernel is made when no one changes it.
ServicesEndedBeforeConvert ==
    pc \in {"convert", "remap", "jump", "kernel"} => ~active

\* Without a successful ExitBootServices the loader goes on only after all its
\* attempts were used up, each one refused or short of buffer.
GivesUpOnlyAfterRetries ==
    pc \in {"convert", "remap", "jump", "kernel"} /\ active => retry = Retries

\* The inductive invariant behind ImplementsHandoff and GivesUpOnlyAfterRetries.
\* Boot services are active until an attempt is accepted; the buffer describes
\* the firmware's map as long as the loader's key is fresh, and for good
\* once boot services have ended.
MapInBuffer == num = Len(map) /\ \A n \in 1 .. Len(map) : buf[n] = map[n]

ActiveUntilExit ==
    active \in BOOLEAN /\ (pc \notin {"convert", "remap", "jump", "kernel"} => active)
KeyMeansFresh == pc = "exit" /\ keyFresh => MapInBuffer
FinalMapBuffered == pc = "convert" /\ ~active => MapInBuffer
FinalMapTold == pc \in {"remap", "jump", "kernel"} /\ ~active => mbi = ReportOf(map)
RetriesCounted ==
    /\ retry \in 0 .. Retries
    /\ pc \notin {"convert", "remap", "jump", "kernel"} => retry < Retries

IInv ==
    /\ map \in Maps /\ keyFresh \in BOOLEAN /\ ActiveUntilExit
    /\ KeyMeansFresh /\ FinalMapBuffered /\ FinalMapTold
    /\ RetriesCounted /\ GivesUpOnlyAfterRetries

\* The loader always comes to an end: the kernel, or one of its error loops.
ComesToAnEnd == <>(pc \in {"kernel", "halted"})

\* The loader implements Handoff, whatever the map does: once boot services
\* have ended, the kernel is told the firmware's last map, not one that an
\* event or a refused exit made stale, and not the rest of the buffer.  It may
\* give up; GivesUpOnlyAfterRetries says when.
Stage ==
    CASE pc = "kernel" -> IF active THEN "abandoned" ELSE "kernel"
      [] pc = "halted" -> "halted"
      [] OTHER -> "loader"
Abstract == INSTANCE Handoff WITH
    stage <- Stage,
    Report <- ReportOf,
    MayGiveUp <- TRUE,
    told <- IF Stage = "kernel" THEN mbi ELSE Nothing
ImplementsHandoff == Abstract!Spec
=============================================================================
