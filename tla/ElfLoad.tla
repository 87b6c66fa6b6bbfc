------------------------------- MODULE ElfLoad -------------------------------
(***************************************************************************)
(* elf32_validate() and elf32_load(): the kernel image is staged in the    *)
(* same memory its segments are copied to, and the ELF header and program  *)
(* headers are read in place, again and again, while segments are copied.  *)
(*                                                                         *)
(* Memory is a function from addresses to cells.  A cell holds an offset   *)
(* of the file (that piece of the image), Zero, or Junk (whatever memory   *)
(* held before).  The ELF header is the piece at offset 0 and program      *)
(* header i the piece at offset phoff + i; all sizes count pieces.         *)
(* Offsets, sizes and addresses are such that their sums do not wrap.      *)
(***************************************************************************)
EXTENDS Naturals, Sequences

CONSTANTS
    MemTop,      \* addresses are 0 .. MemTop
    Image,       \* KERNEL_LOAD_TEMP_ADDR / KERNEL_TEMP_ADDR (0x00200000)
    Kernels,     \* the kernel files that may have been staged
    ForeignPhdrs, ForeignEhdrs, \* headers that other bytes may look like
    KernelSpace, \* addresses efi_main reserves for the kernel
    Zero, Junk

Addr == 0 .. MemTop

NullPhdr == [type |-> "PT_NULL", offset |-> 0, paddr |-> 0, filesz |-> 0, memsz |-> 0]
Phdr == [type : {"PT_NULL", "PT_LOAD"}, offset : Nat, paddr : Nat, filesz : Nat, memsz : Nat]

\* A kernel file: does it pass the checks of e_ident, e_type and e_machine,
\* its size, and the fields of its headers.
KernelOK(k) ==
    /\ k.ident \in BOOLEAN
    /\ k.size \in Nat \ {0} /\ Image + k.size <= MemTop + 1
    /\ k.entry \in Nat /\ k.phoff \in Nat
    /\ k.phdrs \in Seq(Phdr)
    /\ \A i \in 1 .. Len(k.phdrs) :
          k.phdrs[i].paddr + k.phdrs[i].filesz + k.phdrs[i].memsz <= MemTop

ASSUME ElfAssumption ==
    /\ MemTop \in Nat /\ Image \in Nat
    /\ \A k \in Kernels : KernelOK(k)
    /\ \A p \in ForeignPhdrs : p \in Phdr /\ p.paddr + p.filesz + p.memsz <= MemTop
    /\ \A h \in ForeignEhdrs : h.entry \in Nat /\ h.phoff \in Nat /\ h.phnum \in Nat
    /\ Zero # Junk /\ Zero \notin Nat /\ Junk \notin Nat

VARIABLES
    kernel, \* the file staged at Image
    mem,    \* memory
    epc,    \* "validate", "loop", "bss", "done"
    idx,    \* i, the loop variable
    phdr,   \* where phdr points to
    entry   \* the value returned; 0 is failure

elfVars == <<kernel, mem, epc, idx, phdr, entry>>

Ehdr(k) == [phnum |-> Len(k.phdrs), phoff |-> k.phoff, entry |-> k.entry]

StagedCell(k, a) == IF a \in Image .. Image + k.size - 1 THEN a - Image ELSE Junk

ElfInit ==
    /\ kernel \in Kernels
    /\ mem = [a \in Addr |-> StagedCell(kernel, a)]
    /\ epc = "validate"
    /\ idx = 0
    /\ phdr = 0
    /\ entry = 0

-----------------------------------------------------------------------------
\* What a load through the ehdr pointer may see, and through a phdr pointer to
\* address a: the header, if its piece is still there.
EhdrNow ==
    IF mem[Image] = 0 THEN {Ehdr(kernel)}
    ELSE IF mem[Image] = Zero THEN {[phnum |-> 0, phoff |-> 0, entry |-> 0]}
    ELSE ForeignEhdrs

PhdrNow(a) ==
    IF mem[a] \in kernel.phoff .. kernel.phoff + Len(kernel.phdrs) - 1
    THEN {kernel.phdrs[mem[a] - kernel.phoff + 1]}
    ELSE IF mem[a] = Zero THEN {NullPhdr}
    ELSE ForeignPhdrs

\* memcpy(): bytes are copied upwards, so a destination inside the source
\* makes the bytes in front of it repeat.
MemCpy(m, d, s, n) ==
    [a \in Addr |-> IF a \notin d .. d + n - 1 THEN m[a]
                    ELSE IF d > s THEN m[s + ((a - d) % (d - s))]
                    ELSE m[s + (a - d)]]
MemZero(m, d, n) == [a \in Addr |-> IF a \in d .. d + n - 1 THEN Zero ELSE m[a]]

-----------------------------------------------------------------------------
Valid(k) == k.ident /\ k.phoff # 0 /\ Len(k.phdrs) # 0

\* elf32_validate(): the image is refused before anything is written, or the
\* loop begins.
Validate_NoIdent ==
    /\ epc = "validate"
    /\ epc' = IF kernel.phoff # 0 THEN "loop" ELSE "done"
    /\ UNCHANGED <<kernel, mem, idx, phdr, entry>>
Validate ==
    /\ epc = "validate"
    /\ epc' = IF Valid(kernel) THEN "loop" ELSE "done"
    /\ UNCHANGED <<kernel, mem, idx, phdr, entry>>

\* The loop's test fails: return e_entry.
Finish_FirstEntry ==
    /\ epc = "loop"
    /\ \E h \in EhdrNow :
          /\ idx + 1 >= h.phnum
          /\ entry' = h.entry
    /\ epc' = "done"
    /\ UNCHANGED <<kernel, mem, idx, phdr>>
Finish ==
    /\ epc = "loop"
    /\ \E h \in EhdrNow :
          /\ idx >= h.phnum
          /\ entry' = h.entry
    /\ epc' = "done"
    /\ UNCHANGED <<kernel, mem, idx, phdr>>

\* Program header i is not within the file, or its contents are not: return 0.
\* Segments loaded before stay in memory.
Refuse ==
    /\ epc = "loop"
    /\ \E h \in EhdrNow :
          /\ idx < h.phnum
          /\ \/ h.phoff + idx + 1 > kernel.size
             \/ /\ h.phoff + idx + 1 <= kernel.size
                /\ \E p \in PhdrNow(Image + h.phoff + idx) :
                      /\ p.type = "PT_LOAD" /\ p.filesz > 0
                      /\ p.offset + p.filesz > kernel.size
    /\ entry' = 0
    /\ epc' = "done"
    /\ UNCHANGED <<kernel, mem, idx, phdr>>

\* A header of another type: nothing to do.
SkipHeader ==
    /\ epc = "loop"
    /\ \E h \in EhdrNow :
          /\ idx < h.phnum
          /\ h.phoff + idx + 1 <= kernel.size
          /\ \E p \in PhdrNow(Image + h.phoff + idx) : p.type # "PT_LOAD"
    /\ idx' = idx + 1
    /\ UNCHANGED <<kernel, mem, epc, phdr, entry>>

\* memcpy(dest, src, p_filesz)
CopySegment ==
    /\ epc = "loop"
    /\ \E h \in EhdrNow :
          /\ idx < h.phnum
          /\ h.phoff + idx + 1 <= kernel.size
          /\ phdr' = Image + h.phoff + idx
          /\ \E p \in PhdrNow(phdr') :
                /\ p.type = "PT_LOAD"
                /\ p.filesz > 0 => p.offset + p.filesz <= kernel.size
                /\ mem' = MemCpy(mem, p.paddr, Image + p.offset, p.filesz)
    /\ epc' = "bss"
    /\ UNCHANGED <<kernel, idx, entry>>

\* memset(bss_start, 0, bss_size): the pointer is that of the copy, the header
\* it points to is read again.
ClearBss_FromStart ==
    /\ epc = "bss"
    /\ \E p \in PhdrNow(phdr) :
          mem' = IF p.memsz > p.filesz
                 THEN MemZero(mem, p.paddr + p.filesz, p.memsz) ELSE mem
    /\ idx' = idx + 1
    /\ epc' = "loop"
    /\ UNCHANGED <<kernel, phdr, entry>>
ClearBss ==
    /\ epc = "bss"
    /\ \E p \in PhdrNow(phdr) :
          mem' = IF p.memsz > p.filesz
                 THEN MemZero(mem, p.paddr + p.filesz, p.memsz - p.filesz) ELSE mem
    /\ idx' = idx + 1
    /\ epc' = "loop"
    /\ UNCHANGED <<kernel, phdr, entry>>

ElfNext == Validate \/ Finish \/ Refuse \/ SkipHeader \/ CopySegment \/ ClearBss

ElfSpec == ElfInit /\ [][ElfNext]_elfVars /\ WF_elfVars(ElfNext)

-----------------------------------------------------------------------------
(* Properties                                                              *)

Segments(k) == {j \in DOMAIN k.phdrs : k.phdrs[j].type = "PT_LOAD"}
SegAddrs(p) == p.paddr .. p.paddr + (IF p.memsz > p.filesz THEN p.memsz ELSE p.filesz) - 1
ImageAddrs(k) == Image .. Image + k.size - 1

\* No segment overlaps the staged file or another segment.
Separate(k) ==
    \A j \in Segments(k) :
       /\ SegAddrs(k.phdrs[j]) \cap ImageAddrs(k) = {}
       /\ \A l \in Segments(k) \ {j} : SegAddrs(k.phdrs[j]) \cap SegAddrs(k.phdrs[l]) = {}

WellFormed(k) ==
    /\ Valid(k)
    /\ k.phoff + Len(k.phdrs) <= k.size
    /\ \A j \in Segments(k) :
          k.phdrs[j].filesz > 0 => k.phdrs[j].offset + k.phdrs[j].filesz <= k.size

\* Memory holds segment p: its bytes of the file, then zeros.
Loaded(p) ==
    /\ \A n \in 0 .. p.filesz - 1 : mem[p.paddr + n] = p.offset + n
    /\ \A n \in p.filesz .. p.memsz - 1 : mem[p.paddr + n] = Zero

\* When elf32_load() answers with an entry point, every segment of the kernel
\* is in memory, complete and followed by its cleared BSS, although the image
\* and the headers lie in the memory that is being written.
KernelIsLoaded ==
    epc = "done" /\ entry # 0 /\ Separate(kernel) =>
       \A j \in Segments(kernel) : Loaded(kernel.phdrs[j])

\* Nothing outside the segments changes: not the staged image, not the loader.
OnlySegmentsWritten ==
    Separate(kernel) =>
       \A a \in Addr : (\A j \in Segments(kernel) : a \notin SegAddrs(kernel.phdrs[j]))
                           => mem[a] = StagedCell(kernel, a)

\* A kernel is refused exactly when a header or a segment is not in the file.
VerdictIsRight ==
    epc = "done" /\ Separate(kernel) =>
       entry = IF WellFormed(kernel) THEN kernel.entry ELSE 0

\* efi_main reserves 768 pages at 0x00100000 as "kernel address space": a
\* kernel whose segments lie there, apart from each other, is loaded.
WithinKernelSpace(k) ==
    \A j \in Segments(k) :
       /\ SegAddrs(k.phdrs[j]) \subseteq KernelSpace
       /\ \A l \in Segments(k) \ {j} : SegAddrs(k.phdrs[j]) \cap SegAddrs(k.phdrs[l]) = {}
KernelInItsSpaceIsLoaded ==
    epc = "done" /\ WellFormed(kernel) /\ WithinKernelSpace(kernel) =>
       /\ entry = kernel.entry
       /\ \A j \in Segments(kernel) : Loaded(kernel.phdrs[j])
=============================================================================
