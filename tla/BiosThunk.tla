------------------------------ MODULE BiosThunk ------------------------------
(***************************************************************************)
(* The processor under bios_read_sectors(): BiosDisk runs in 32-bit        *)
(* protected mode, and each of its BIOS calls is a trip to real mode and   *)
(* back.  The switches are made instruction by instruction, and an         *)
(* interrupt may come between any two of them.                             *)
(*                                                                         *)
(* The processor has: PE, the protection bit; gdt, was the GDT loaded;     *)
(* idt, "ivt" or the empty table "none" of protected mode; cs and seg,     *)
(* the code and the other segments: "real", "seg16" (base 0x10000, 64 KB)  *)
(* or "flat"; stack: "low" (0:7C00), "c" (that of the C code) or "bad";    *)
(* intr, the interrupt flag.                                               *)
(***************************************************************************)
EXTENDS BiosDisk, Sequences

VARIABLES
    cpu,    \* the processor
    saved,  \* saved_esp32
    code,   \* the instructions still to be executed, or where the processor is:
    then,   \* ... "C", "int13", "kernel"
    crashed \* was anything executed the processor cannot execute?

cpuVars == <<cpu, saved, code, then, crashed>>

\* second_stage, after its BIOS calls; thunk_return_pm32 and thunk_pm32_return;
\* bios_disk_read_raw and bios_int13_thunk16; multiboot_jump.
Enter32 == <<"cli", "tables", "setPE", "cs=flat", "seg=flat", "stack=c">>
ReturnTo32 == <<"cli", "tables", "setPE", "cs=flat", "seg=flat", "stack=saved">>
EnterReal_StiFirst ==
    <<"save", "cli", "seg=seg16", "cs=seg16", "clearPE", "cs=real", "seg=real",
      "stack=low", "sti", "ivt">>
EnterReal ==
    <<"save", "cli", "seg=seg16", "cs=seg16", "clearPE", "cs=real", "seg=real",
      "stack=low", "ivt", "sti">>
ToKernel == <<"cli">>

ThunkInit ==
    /\ Init
    /\ cpu = [PE |-> FALSE, gdt |-> FALSE, idt |-> "ivt", cs |-> "real", seg |-> "real",
              stack |-> "low", intr |-> TRUE]
    /\ saved = "bad"
    /\ code = Enter32 /\ then = "C"
    /\ crashed = FALSE

\* What an instruction makes of the processor.  New data segments replace the
\* stack segment too: the stack is a bad one until it is set.
Effect(i) ==
    [PE    |-> i = "setPE" \/ (cpu.PE /\ i # "clearPE"),
     gdt   |-> i = "tables" \/ cpu.gdt,
     idt   |-> CASE i = "tables" -> "none" [] i = "ivt" -> "ivt" [] OTHER -> cpu.idt,
     cs    |-> CASE i = "cs=flat" -> "flat" [] i = "cs=seg16" -> "seg16"
                 [] i = "cs=real" -> "real" [] OTHER -> cpu.cs,
     seg   |-> CASE i = "seg=flat" -> "flat" [] i = "seg=seg16" -> "seg16"
                 [] i = "seg=real" -> "real" [] OTHER -> cpu.seg,
     stack |-> CASE i \in {"seg=flat", "seg=seg16"} -> "bad" [] i = "stack=low" -> "low"
                 [] i = "stack=c" -> "c" [] i = "stack=saved" -> saved [] OTHER -> cpu.stack,
     intr  |-> i = "sti" \/ (cpu.intr /\ i # "cli")]

\* Selectors are loaded from the GDT in protected mode and are paragraph
\* numbers in real mode; PE is only cleared in segments of 64 KB.
CanExecute(i) ==
    CASE i \in {"cs=flat", "cs=seg16", "seg=flat", "seg=seg16"} -> cpu.PE /\ cpu.gdt
      [] i \in {"cs=real", "seg=real"} -> ~cpu.PE
      [] i = "clearPE" -> cpu.cs = "seg16" /\ cpu.seg = "seg16"
      [] i = "setPE" -> cpu.gdt
      [] OTHER -> TRUE

Execute ==
    /\ code # <<>>
    /\ cpu' = Effect(Head(code))
    /\ saved' = IF Head(code) = "save" THEN cpu.stack ELSE saved
    /\ crashed' = (crashed \/ ~CanExecute(Head(code)))
    /\ code' = Tail(code)
    /\ UNCHANGED <<vars, then>>

\* A timer or keyboard interrupt: its handler is the BIOS's, in real mode.
HandlerReady == ~cpu.PE /\ cpu.idt = "ivt" /\ cpu.cs = "real" /\ cpu.stack = "low"
Interrupt ==
    /\ cpu.intr /\ then # "kernel"
    /\ crashed' = (crashed \/ ~HandlerReady)
    /\ UNCHANGED <<vars, cpu, saved, code, then>>

\* The C code runs with flat segments, its own stack, and no interrupts: there
\* is no handler for any.
CReady == cpu.PE /\ cpu.cs = "flat" /\ cpu.seg = "flat" /\ cpu.stack = "c" /\ ~cpu.intr

CStep(A) ==
    /\ then = "C" /\ code = <<>>
    /\ A
    /\ crashed' = (crashed \/ ~CReady)
    /\ UNCHANGED <<cpu, saved>>

InC ==
    \/ CStep(Call \/ CopyChunk \/ ReturnOk \/ Resume) /\ UNCHANGED <<code, then>>
    \/ CStep(StartChunk) /\ code' = EnterReal /\ then' = "int13"

\* INT 13h/AH=42h, and the reset and the next try after a failing one; after
\* the last one or a successful one the thunk returns.
InThunk ==
    /\ then = "int13" /\ code = <<>>
    /\ Int13Ok \/ Int13Fail
    /\ crashed' = (crashed \/ ~(HandlerReady /\ cpu.seg = "real" /\ cpu.intr))
    /\ IF pc' = "int13" THEN UNCHANGED <<code, then>>
                        ELSE code' = ReturnTo32 /\ then' = "C"
    /\ UNCHANGED <<cpu, saved>>

\* bios_loader_main() has read what it needs.
JumpToKernel ==
    /\ pc = "idle"
    /\ CStep(UNCHANGED vars)
    /\ code' = ToKernel /\ then' = "kernel"

ThunkNext == Execute \/ Interrupt \/ InC \/ InThunk \/ JumpToKernel

\* The processor goes on, and the BIOS call returns; nothing makes a caller call.
ThunkSpec ==
    /\ ThunkInit /\ [][ThunkNext]_<<vars, cpuVars>>
    /\ WF_<<vars, cpuVars>>(Execute \/ (InC /\ pc # "idle") \/ InThunk)

-----------------------------------------------------------------------------
(* Properties                                                              *)

\* Whenever interrupts come, every instruction, every interrupt handler, every
\* BIOS call and every step of the C code finds the mode, the segments, the
\* tables and the stack it needs, however many trips there were before and
\* however many attempts each of them took.  The jump to the kernel is such a
\* step: a multiboot kernel, too, is owed protected mode, flat segments and no
\* interrupts.
NeverCrashes == ~crashed
=============================================================================
