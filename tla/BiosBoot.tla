------------------------------ MODULE BiosBoot ------------------------------
(***************************************************************************)
(* The whole way from the MBR to the kernel on a BIOS machine: the         *)
(* real-mode chain (BootChain) ends in the second stage of IO.SYS, which   *)
(* switches to protected mode for the C loader (BiosThunk).  The loader's  *)
(* first disk read is that of the MBR, for find_active_partition_lba; then *)
(* it reads whatever it needs and jumps to the kernel.                     *)
(***************************************************************************)
EXTENDS BootChain, BiosThunk

\* The stages and the loader read one disk.
ASSUME OneDiskAssumption == \A d \in Disks : d.size = DiskSectors

bootVars == <<chainVars, vars, cpuVars>>

\* The chain runs in real mode with interrupts on, as the second stage is when
\* it comes to its switch to protected mode.
BootInit == ChainInit /\ ThunkInit

ChainStep == ChainNext /\ UNCHANGED <<vars, cpuVars>>

\* Instructions of the switches, from the second stage on.
SwitchStep ==
    /\ stage \in {"second", "loader"}
    /\ Execute
    /\ UNCHANGED chainVars

\* bios_read_sectors(0, 1, mbr_buf)
ReadMbr ==
    /\ stage = "second"
    /\ pc # "done"
    /\ InC \/ InThunk
    /\ pc = "idle" => req' = [lba |-> 0, count |-> 1]
    /\ UNCHANGED chainVars

\* It returns to find_active_partition_lba().
FindPartition ==
    /\ pc = "done"
    /\ InC
    /\ LoaderFindsPartition(ret = "ok", buffer[0] = 0)

\* All other calls, and the jump.
LoaderStep ==
    /\ stage = "loader"
    /\ InC \/ InThunk
    /\ UNCHANGED chainVars
LeaveLoader == stage = "loader" /\ JumpToKernel /\ UNCHANGED chainVars

TakeInterrupt == Interrupt /\ UNCHANGED chainVars

BootNext ==
    \/ ChainStep \/ SwitchStep \/ ReadMbr \/ FindPartition
    \/ LoaderStep \/ LeaveLoader \/ TakeInterrupt

\* The processor goes on, and the BIOS call returns.  The loader makes its first
\* call; nothing says whether it makes another.
Progress ==
    \/ ChainStep \/ SwitchStep \/ ReadMbr \/ FindPartition
    \/ LoaderStep /\ pc # "idle"

BootSpec == BootInit /\ [][BootNext]_bootVars /\ WF_bootVars(Progress)

-----------------------------------------------------------------------------
(* Properties                                                              *)

\* The MBR and the C loader decide on their own which partition to use: the C
\* loader skips active entries that start at 0 and the MBR does not.  When its
\* read of the MBR succeeds, after whatever failing attempts, it works on the
\* partition that was booted; only when it fails, on the default one.
PartitionAgreed ==
    [][FindPartition => part' = IF ret = "ok" THEN BootedPartition ELSE DefaultLba]_bootVars
=============================================================================
