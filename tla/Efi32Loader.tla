----------------------------- MODULE Efi32Loader -----------------------------
(***************************************************************************)
(* The 32-bit UEFI loader with the search for the kernel file and its      *)
(* loading: Efi32Boot, whose step ReadKernel becomes the end of            *)
(* EfiKernelFile's search and whose step LoadElf becomes the end of        *)
(* elf32_load() (ElfLoad).  What the firmware's events and the calls of    *)
(* the search do to the memory map before it ends shows as ReadKernel's    *)
(* change of the map.                                                      *)
(*                                                                         *)
(* A machine has, besides its volumes, kernels: what the bytes of the file *)
(* that is read into KERNEL_TEMP_ADDR may be.  Which they are is settled   *)
(* from the beginning; no one looks at them before elf32_load().           *)
(***************************************************************************)
EXTENDS Efi32Boot, EfiKernelFile, ElfLoad

ASSUME StagedAssumption == \A s \in Systems : s.kernels \subseteq Kernels

loaderVars == <<vars, fileVars, elfVars>>

LoaderInit ==
    /\ Init /\ FileInit
    /\ kernel \in sys.kernels
    /\ ElfInit

SearchStep ==
    /\ pc = "read"
    /\ FileNext
    /\ UNCHANGED <<vars, elfVars>>

\* The loader stops when the search failed, and when the file is empty.
SearchEnds ==
    /\ ReadKernel
    /\ kpc \in {"found", "notFound"}
    /\ pc' = IF kpc = "found" /\ out # 0 THEN "load" ELSE "halted"
    /\ UNCHANGED <<fileVars, elfVars>>

ElfStep ==
    /\ pc = "load"
    /\ ElfNext
    /\ UNCHANGED <<vars, fileVars>>

\* The loader stops when the kernel was refused (or has its entry point at 0).
ElfEnds ==
    /\ LoadElf
    /\ epc = "done"
    /\ pc' = IF entry # 0 THEN "pause" ELSE "halted"
    /\ UNCHANGED <<fileVars, elfVars>>

BootStep ==
    /\ Pause \/ GetMemoryMap \/ ExitBootServices \/ Jump
    /\ UNCHANGED <<fileVars, elfVars>>

LoaderStep == SearchStep \/ SearchEnds \/ ElfStep \/ ElfEnds \/ BootStep

EventStep ==
    /\ Event
    /\ pc # "read"
    /\ UNCHANGED <<fileVars, elfVars>>

LoaderNext == LoaderStep \/ EventStep

\* The processor executes the loader; nothing makes events happen.
LoaderSpec == LoaderInit /\ [][LoaderNext]_loaderVars /\ WF_loaderVars(LoaderStep)
=============================================================================
