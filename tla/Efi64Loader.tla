----------------------------- MODULE Efi64Loader -----------------------------
(***************************************************************************)
(* The 64-bit UEFI loader with its PCI remap: Efi64Boot, whose step        *)
(* RemapPci becomes the walk of PciRemap.  The frame buffer the kernel is  *)
(* told is the one init_gop() found, or where the walk moved it.           *)
(***************************************************************************)
EXTENDS Efi64Boot, PciRemap

VARIABLE fbTold \* mbi->framebuffer_addr, g_fb_base

loaderVars == <<vars, pciVars, fbTold>>

LoaderInit ==
    /\ Init /\ PciInit
    /\ fbTold = machine.fb

BootStep ==
    /\ \/ ReadKernel \/ ReserveKernelSpace \/ LoadElf \/ TrampolineLow \/ TrampolineAny
       \/ GetMemoryMap \/ ExitBootServices \/ Convert \/ Jump
    /\ UNCHANGED <<pciVars, fbTold>>

EventStep == Event /\ UNCHANGED <<pciVars, fbTold>>

\* pci_remap_above_4g_bars(g_fb_base)
WalkStep ==
    /\ pc = "remap"
    /\ PciNext
    /\ UNCHANGED <<vars, fbTold>>

\* g_fb_base and the multiboot information follow the frame buffer.
FramebufferTold ==
    /\ RemapPci /\ rpc = "done"
    /\ fbTold' = newFb
    /\ UNCHANGED pciVars

LoaderStep == BootStep \/ WalkStep \/ FramebufferTold

LoaderNext == LoaderStep \/ EventStep

\* The processor executes the loader; nothing makes events happen.
LoaderSpec ==
    /\ LoaderInit /\ [][LoaderNext]_loaderVars
    /\ WF_loaderVars(LoaderStep)

-----------------------------------------------------------------------------
(* Properties                                                              *)

\* The kernel draws where the graphics card is: when the walk moved the BAR
\* that held the frame buffer, the address told is in the same place of the
\* same BAR, and it is the one GOP gave when no BAR of the card was moved.
FramebufferFollows ==
    LET home == {r \in Memory : /\ Address(machine.addr, r) <= machine.fb
                                /\ machine.fb < Address(machine.addr, r) + machine.size[r]}
    IN  pc \in {"jump", "kernel"} =>
           /\ \A r \in home : fbTold - Address(addr, r) = machine.fb - Address(machine.addr, r)
           /\ home = {} => fbTold = machine.fb
=============================================================================
