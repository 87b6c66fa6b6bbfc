------------------------------ MODULE Efi32Boot ------------------------------
(***************************************************************************)
(* efi_main() of the 32-bit UEFI loader, from the kernel file to the jump. *)
(* Unlike the 64-bit loader it allocates nothing, converts the memory map  *)
(* before each attempt to leave boot services, and never stops trying.     *)
(***************************************************************************)
EXTENDS EfiFirmware

CONSTANT Nothing \* mbi was not filled in yet

VARIABLES
    pc,  \* "read", "load", "pause", "getmap", "exit", "jump", "kernel", "halted"
    mbi  \* memory map and mem_upper of the multiboot information

vars == <<fwVars, bufVars, pc, mbi>>

Init ==
    /\ FirmwareInit
    /\ pc = "read"
    /\ mbi = Nothing

Event ==
    /\ pc \notin {"kernel", "halted"}
    /\ NewMap
    /\ UNCHANGED <<bufVars, pc, mbi>>

\* read_kernel_file(): the file is found and read, or the loader stops; the
\* firmware may allocate for it.
ReadKernel ==
    /\ pc = "read"
    /\ pc' \in {"load", "halted"}
    /\ NewMap \/ UNCHANGED fwVars
    /\ UNCHANGED <<bufVars, mbi>>

\* elf32_load(): an entry point, or the loader stops.
LoadElf ==
    /\ pc = "load"
    /\ pc' \in {"pause", "halted"}
    /\ UNCHANGED <<fwVars, bufVars, mbi>>

\* The pause of five seconds, in which the firmware goes on living.
Pause ==
    /\ pc = "pause"
    /\ pc' = "getmap"
    /\ UNCHANGED <<fwVars, bufVars, mbi>>

\* GetMemoryMap, and convert_memory_map() at once when it succeeds; the loop
\* begins again when the buffer is too small.
GetMemoryMap_OnlyOnce ==
    /\ pc = "getmap"
    /\ MapDelivered
    /\ pc' = "exit"
    /\ mbi' = IF mbi = Nothing THEN ConvertMemoryMap(buf', num') ELSE mbi
    /\ UNCHANGED <<active, map>>
GetMemoryMap ==
    /\ pc = "getmap"
    /\ \/ /\ MapDelivered
          /\ mbi' = ConvertMemoryMap(buf', num')
          /\ pc' = "exit"
       \/ MapTooLarge /\ UNCHANGED <<pc, mbi>>
    /\ UNCHANGED <<active, map>>

\* ExitBootServices; a refused attempt begins the loop again.
ExitBootServices_SameMap ==
    /\ pc = "exit"
    /\ \/ ExitAccepted /\ active' = FALSE /\ pc' = "jump"
       \/ ExitRefused /\ UNCHANGED <<active, pc>>
    /\ UNCHANGED <<map, keyFresh, bufVars, mbi>>
ExitBootServices ==
    /\ pc = "exit"
    /\ \/ ExitAccepted /\ active' = FALSE /\ pc' = "jump"
       \/ ExitRefused /\ pc' = "getmap" /\ UNCHANGED active
    /\ UNCHANGED <<map, keyFresh, bufVars, mbi>>

\* load_gdt_and_jump()
Jump ==
    /\ pc = "jump"
    /\ pc' = "kernel"
    /\ UNCHANGED <<fwVars, bufVars, mbi>>

Step == ReadKernel \/ LoadElf \/ Pause \/ GetMemoryMap \/ ExitBootServices \/ Jump

Next == Step \/ Event

\* The processor executes the loader; nothing makes events happen.
Spec == Init /\ [][Next]_vars /\ WF_vars(Step)

-----------------------------------------------------------------------------
(* Properties                                                              *)

\* The inductive invariant behind ImplementsHandoff.  Boot services are active
\* until the accepted attempt; between the conversion and the attempt, the
\* multiboot map is the firmware's as long as the key is fresh, and after it for good.
ActiveUntilExit == active \in BOOLEAN /\ (active <=> pc \notin {"jump", "kernel"})
KeyMeansFresh == pc = "exit" /\ keyFresh => mbi = ReportOf(map)
FinalMapTold == pc \in {"jump", "kernel"} => mbi = ReportOf(map)

IInv == map \in Maps /\ keyFresh \in BOOLEAN /\ ActiveUntilExit /\ KeyMeansFresh /\ FinalMapTold

\* The loader comes to an end if the map comes to fit the buffer for good and
\* events no longer change it.  (The loop has no bound: it never ends when the
\* map never fits, or when it changes after every conversion.)
EndsIfMapSettles ==
    <>[]Fits(map) /\ <>[][~Event]_vars => <>(pc \in {"kernel", "halted"})

\* The loader implements Handoff, whatever the map does, and never gives up: a
\* map that went stale between its conversion and the exit is not the one the
\* kernel is told; the multiboot map is that of the accepted attempt.
Abstract == INSTANCE Handoff WITH
    stage <- IF pc \in {"kernel", "halted"} THEN pc ELSE "loader",
    Report <- ReportOf,
    MayGiveUp <- FALSE,
    told <- IF pc = "kernel" THEN mbi ELSE Nothing
ImplementsHandoff == Abstract!Spec
=============================================================================
