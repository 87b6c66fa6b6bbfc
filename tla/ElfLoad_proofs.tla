---------------------------- MODULE ElfLoad_proofs ----------------------------
(***************************************************************************)
(* elf32_load() on kernels whose segments lie apart from each other and    *)
(* from the staged file: for every such kernel, of any number and size of  *)
(* segments, at any place in a memory of any size.                         *)
(***************************************************************************)
EXTENDS ElfLoad, TLAPS

-----------------------------------------------------------------------------
(* The inductive invariant: the segments before header idx are loaded, the   *)
(* file is still where it was staged, and so are the headers.              *)

Typed ==
    /\ kernel \in Kernels
    /\ mem = [a \in Addr |-> mem[a]]
    /\ epc \in {"validate", "loop", "bss", "done"}
    /\ idx \in Nat

\* Header j and the contents it describes are in the file.
InFile(j) ==
    LET p == kernel.phdrs[j]
    IN  /\ kernel.phoff + j <= kernel.size
        /\ p.type = "PT_LOAD" /\ p.filesz > 0 => p.offset + p.filesz <= kernel.size

Copied(p) == \A n \in 0 .. p.filesz - 1 : mem[p.paddr + n] = p.offset + n

LoadedSoFar == \A j \in Segments(kernel) : j <= idx => Loaded(kernel.phdrs[j])

Progress ==
    /\ epc = "validate" => idx = 0 /\ entry = 0
    /\ epc \in {"loop", "bss"} =>
          /\ Valid(kernel)
          /\ idx <= Len(kernel.phdrs)
          /\ \A j \in 1 .. idx : InFile(j)
    /\ epc # "done" => LoadedSoFar
    /\ epc = "bss" =>
          /\ idx + 1 \in Segments(kernel)
          /\ InFile(idx + 1)
          /\ phdr = Image + kernel.phoff + idx
          /\ Copied(kernel.phdrs[idx + 1])

Correct == OnlySegmentsWritten /\ KernelIsLoaded /\ VerdictIsRight
ElfInv == Typed /\ (Separate(kernel) => Progress /\ Correct)

-----------------------------------------------------------------------------
(* Where things are                                                        *)

\* The fields of a program header are numbers, and it lies in memory.
LEMMA HeaderTypes ==
    ASSUME Typed, NEW j \in 1 .. Len(kernel.phdrs)
    PROVE  LET p == kernel.phdrs[j]
           IN  /\ p.type \in {"PT_NULL", "PT_LOAD"}
               /\ p.offset \in Nat /\ p.paddr \in Nat /\ p.filesz \in Nat /\ p.memsz \in Nat
               /\ p.paddr + p.filesz + p.memsz <= MemTop
<1>1. kernel.phdrs \in Seq(Phdr)
      BY ElfAssumption DEF Typed, KernelOK
<1>2. kernel.phdrs[j] \in Phdr
      BY <1>1
<1>3. kernel.phdrs[j].paddr + kernel.phdrs[j].filesz + kernel.phdrs[j].memsz <= MemTop
      BY ElfAssumption DEF Typed, KernelOK
<1> QED BY <1>2, <1>3 DEF Phdr

LEMMA KernelTypes ==
    ASSUME Typed
    PROVE  /\ kernel.size \in Nat \ {0} /\ kernel.phoff \in Nat /\ kernel.entry \in Nat
           /\ Len(kernel.phdrs) \in Nat
           /\ DOMAIN kernel.phdrs = 1 .. Len(kernel.phdrs)
           /\ MemTop \in Nat /\ Image \in Nat /\ Image + kernel.size <= MemTop + 1
<1>1. kernel.phdrs \in Seq(Phdr)
      BY ElfAssumption DEF Typed, KernelOK
<1> QED BY <1>1, ElfAssumption DEF Typed, KernelOK

\* A segment's addresses are in memory.
LEMMA SegmentInMemory ==
    ASSUME Typed, NEW j \in Segments(kernel)
    PROVE  SegAddrs(kernel.phdrs[j]) \subseteq Addr
<1> DEFINE p == kernel.phdrs[j]
<1>1. j \in 1 .. Len(kernel.phdrs)
      BY KernelTypes DEF Segments
<1>2. /\ p.paddr \in Nat /\ p.filesz \in Nat /\ p.memsz \in Nat /\ MemTop \in Nat
      /\ p.paddr + p.filesz + p.memsz <= MemTop
      BY <1>1, HeaderTypes, KernelTypes
<1> HIDE DEF p
<1>3. SegAddrs(p) \subseteq Addr
      BY <1>2 DEF SegAddrs, Addr
<1> QED BY <1>3 DEF p

\* The file is still staged: no segment lies in it.
LEMMA ImageIntact ==
    ASSUME Typed, Separate(kernel), OnlySegmentsWritten, NEW a \in ImageAddrs(kernel)
    PROVE  a \in Addr /\ mem[a] = a - Image
<1>1. a \in Addr
      BY KernelTypes DEF ImageAddrs, Addr
<1>2. \A j \in Segments(kernel) : a \notin SegAddrs(kernel.phdrs[j])
      BY DEF Separate
<1>3. mem[a] = StagedCell(kernel, a)
      BY <1>1, <1>2 DEF OnlySegmentsWritten
<1> QED BY <1>1, <1>3 DEF StagedCell, ImageAddrs

\* So the loop sees the ELF header and every program header in the file.
LEMMA HeadersInPlace ==
    ASSUME Typed, Separate(kernel), OnlySegmentsWritten
    PROVE  /\ EhdrNow = {Ehdr(kernel)}
           /\ \A j \in 1 .. Len(kernel.phdrs) : kernel.phoff + j <= kernel.size =>
                 PhdrNow(Image + kernel.phoff + j - 1) = {kernel.phdrs[j]}
<1>1. mem[Image] = 0
  <2>1. Image \in ImageAddrs(kernel)
        BY KernelTypes DEF ImageAddrs
  <2> QED BY <2>1, ImageIntact, KernelTypes
<1>2. ASSUME NEW j \in 1 .. Len(kernel.phdrs), kernel.phoff + j <= kernel.size
      PROVE  PhdrNow(Image + kernel.phoff + j - 1) = {kernel.phdrs[j]}
  <2> DEFINE a == Image + kernel.phoff + j - 1
  <2>1. a \in ImageAddrs(kernel)
        BY <1>2, KernelTypes DEF ImageAddrs
  <2>2. mem[a] = kernel.phoff + j - 1
        BY <2>1, ImageIntact, KernelTypes
  <2>3. /\ mem[a] \in kernel.phoff .. kernel.phoff + Len(kernel.phdrs) - 1
        /\ mem[a] - kernel.phoff + 1 = j
        BY <2>2, KernelTypes
  <2> HIDE DEF a
  <2>4. PhdrNow(a) = {kernel.phdrs[j]}
        BY <2>3 DEF PhdrNow
  <2> QED BY <2>4 DEF a
<1> QED BY <1>1, <1>2 DEF EhdrNow

-----------------------------------------------------------------------------
(* memcpy and memset                                                       *)

\* A copy whose destination does not begin inside its source is faithful.
LEMMA CopyIsFaithful ==
    ASSUME NEW m, NEW d \in Nat, NEW src \in Nat, NEW n \in Nat,
           d <= src \/ src + n <= d,
           NEW a \in Addr
    PROVE  /\ a \in d .. d + n - 1 => MemCpy(m, d, src, n)[a] = m[src + (a - d)]
           /\ a \notin d .. d + n - 1 => MemCpy(m, d, src, n)[a] = m[a]
<1>1. a \in Nat
      BY DEF Addr
<1>2. ASSUME a \in d .. d + n - 1, d > src
      PROVE  (a - d) % (d - src) = a - d
  <2>1. a - d \in Nat /\ d - src \in Nat /\ a - d < d - src
        BY <1>1, <1>2
  <2>2. \A x, y \in Nat : x < y => x % y = x
        OBVIOUS
  <2> QED BY <2>1, <2>2
<1> QED BY <1>1, <1>2 DEF MemCpy

\* The place a segment's bytes come from, in the file, is not where they go.
LEMMA SourceApart ==
    ASSUME Typed, Separate(kernel), NEW j \in Segments(kernel), InFile(j),
           kernel.phdrs[j].filesz > 0
    PROVE  LET p == kernel.phdrs[j]
           IN  p.paddr <= Image + p.offset \/ Image + p.offset + p.filesz <= p.paddr
<1> DEFINE p == kernel.phdrs[j]
<1>1. j \in 1 .. Len(kernel.phdrs) /\ p.type = "PT_LOAD"
      BY KernelTypes DEF Segments
<1>2. p.offset \in Nat /\ p.paddr \in Nat /\ p.filesz \in Nat /\ p.memsz \in Nat
      BY <1>1, HeaderTypes
<1>3. p.offset + p.filesz <= kernel.size
      BY <1>1 DEF InFile
<1>4. p.paddr \in SegAddrs(p) /\ p.paddr \notin ImageAddrs(kernel)
  <2>1. p.paddr \in SegAddrs(p)
        BY <1>2 DEF SegAddrs
  <2> QED BY <2>1 DEF Separate
<1>5. Image \in Nat /\ kernel.size \in Nat
      BY KernelTypes
<1>6. p.paddr < Image \/ p.paddr > Image + kernel.size - 1
      BY <1>2, <1>4, <1>5 DEF ImageAddrs
<1> HIDE DEF p
<1>7. p.paddr <= Image + p.offset \/ Image + p.offset + p.filesz <= p.paddr
      BY <1>2, <1>3, <1>5, <1>6
<1> QED BY <1>7 DEF p

\* A write inside segment l leaves the other segments and all the rest alone.
LEMMA WriteInside ==
    ASSUME Typed, Separate(kernel), NEW l \in Segments(kernel), kernel' = kernel,
           \A a \in Addr : a \notin SegAddrs(kernel.phdrs[l]) => mem'[a] = mem[a]
    PROVE  /\ OnlySegmentsWritten => OnlySegmentsWritten'
           /\ \A j \in Segments(kernel) \ {l} :
                 Loaded(kernel.phdrs[j]) => Loaded(kernel.phdrs[j])'
<1>1. OnlySegmentsWritten => OnlySegmentsWritten'
      BY DEF OnlySegmentsWritten
<1>2. ASSUME NEW j \in Segments(kernel) \ {l}, Loaded(kernel.phdrs[j])
      PROVE  Loaded(kernel.phdrs[j])'
  <2> DEFINE p == kernel.phdrs[j]
  <2>1. p.paddr \in Nat /\ p.filesz \in Nat /\ p.memsz \in Nat
        BY KernelTypes, HeaderTypes DEF Segments
  <2>2. SegAddrs(p) \subseteq Addr /\ SegAddrs(p) \cap SegAddrs(kernel.phdrs[l]) = {}
        BY SegmentInMemory DEF Separate
  <2>3. \A n \in 0 .. p.filesz - 1 : p.paddr + n \in SegAddrs(p)
        BY <2>1 DEF SegAddrs
  <2>4. \A n \in p.filesz .. p.memsz - 1 : p.paddr + n \in SegAddrs(p)
        BY <2>1 DEF SegAddrs
  <2> QED BY <1>2, <2>2, <2>3, <2>4 DEF Loaded
<1> QED BY <1>1, <1>2

-----------------------------------------------------------------------------
(* The steps                                                               *)

LEMMA TypedStep == Typed /\ [ElfNext]_elfVars => Typed'
<1> SUFFICES ASSUME Typed, [ElfNext]_elfVars PROVE Typed'
    OBVIOUS
<1> USE DEF Typed
<1>1. CASE Validate \/ Finish \/ Refuse \/ SkipHeader
      BY <1>1 DEF Validate, Finish, Refuse, SkipHeader
<1>2. CASE CopySegment
      BY <1>2 DEF CopySegment, MemCpy
<1>3. CASE ClearBss
      BY <1>3 DEF ClearBss, MemZero
<1>4. CASE UNCHANGED elfVars
      BY <1>4 DEF elfVars
<1> QED BY <1>1, <1>2, <1>3, <1>4 DEF ElfNext

\* What the loop looks at is header i + 1 of the file.
LEMMA LoopHeader ==
    ASSUME Typed, Separate(kernel), Progress, OnlySegmentsWritten, epc = "loop"
    PROVE  /\ EhdrNow = {Ehdr(kernel)}
           /\ idx < Len(kernel.phdrs) /\ kernel.phoff + idx + 1 <= kernel.size =>
                 PhdrNow(Image + kernel.phoff + idx) = {kernel.phdrs[idx + 1]}
<1>1. ASSUME idx < Len(kernel.phdrs), kernel.phoff + idx + 1 <= kernel.size
      PROVE  PhdrNow(Image + kernel.phoff + idx) = {kernel.phdrs[idx + 1]}
  <2>1. idx + 1 \in 1 .. Len(kernel.phdrs) /\ kernel.phoff + (idx + 1) <= kernel.size
        BY <1>1, KernelTypes DEF Typed
  <2>2. Image + kernel.phoff + (idx + 1) - 1 = Image + kernel.phoff + idx
        BY KernelTypes DEF Typed
  <2> QED BY <2>1, <2>2, HeadersInPlace
<1> QED BY <1>1, HeadersInPlace

LEMMA ValidateStep ==
    ASSUME Typed, Separate(kernel), Progress, Correct, Validate
    PROVE  (Progress /\ Correct)'
<1>1. idx = 0 /\ entry = 0 /\ UNCHANGED <<kernel, mem, idx, phdr, entry>>
      BY DEF Validate, Progress
<1>2. LoadedSoFar'
  <2>1. \A j \in Segments(kernel) : ~(j <= 0)
        BY KernelTypes DEF Segments
  <2> QED BY <1>1, <2>1 DEF LoadedSoFar
<1>3. OnlySegmentsWritten'
      BY <1>1 DEF Correct, OnlySegmentsWritten
<1>4. CASE Valid(kernel)
      BY <1>1, <1>2, <1>3, <1>4, KernelTypes
         DEF Validate, Progress, Correct, KernelIsLoaded, VerdictIsRight
<1>5. CASE ~Valid(kernel)
      BY <1>1, <1>2, <1>3, <1>5
         DEF Validate, Progress, Correct, KernelIsLoaded, VerdictIsRight, WellFormed
<1> QED BY <1>4, <1>5

LEMMA FinishStep ==
    ASSUME Typed, Separate(kernel), Progress, Correct, Finish
    PROVE  (Progress /\ Correct)'
<1>1. OnlySegmentsWritten /\ OnlySegmentsWritten' /\ epc = "loop" /\ epc' = "done"
      BY DEF Finish, Correct, OnlySegmentsWritten
<1>2. idx >= Len(kernel.phdrs) /\ entry' = kernel.entry /\ UNCHANGED <<kernel, mem, idx>>
      BY <1>1, LoopHeader DEF Finish, Ehdr
<1>3. idx = Len(kernel.phdrs) /\ Valid(kernel) /\ \A j \in 1 .. Len(kernel.phdrs) : InFile(j)
      BY <1>1, <1>2, KernelTypes DEF Progress, Typed
<1>4. WellFormed(kernel)
  <2>1. kernel.phoff + Len(kernel.phdrs) <= kernel.size
        BY <1>3, KernelTypes DEF InFile, Valid
  <2>2. \A j \in Segments(kernel) : kernel.phdrs[j].filesz > 0 =>
            kernel.phdrs[j].offset + kernel.phdrs[j].filesz <= kernel.size
        BY <1>3, KernelTypes DEF InFile, Segments
  <2> QED BY <1>3, <2>1, <2>2 DEF WellFormed
<1>5. \A j \in Segments(kernel) : Loaded(kernel.phdrs[j])
      BY <1>1, <1>3, KernelTypes DEF Progress, LoadedSoFar, Segments
<1>6. KernelIsLoaded'
      BY <1>2, <1>5 DEF KernelIsLoaded, Loaded
<1>7. VerdictIsRight'
      BY <1>2, <1>4 DEF VerdictIsRight
<1> QED BY <1>1, <1>6, <1>7 DEF Progress, Correct

LEMMA RefuseStep ==
    ASSUME Typed, Separate(kernel), Progress, Correct, Refuse
    PROVE  (Progress /\ Correct)'
<1>1. /\ OnlySegmentsWritten /\ OnlySegmentsWritten' /\ epc = "loop" /\ epc' = "done"
      /\ entry' = 0 /\ kernel' = kernel
      BY DEF Refuse, Correct, OnlySegmentsWritten
<1>2. EhdrNow = {Ehdr(kernel)}
      BY <1>1, LoopHeader
<1>3. idx < Len(kernel.phdrs)
      BY <1>2 DEF Refuse, Ehdr
<1>4. ~WellFormed(kernel)
  <2>1. CASE kernel.phoff + idx + 1 > kernel.size
        BY <1>3, <2>1, KernelTypes DEF WellFormed, Typed
  <2>2. CASE kernel.phoff + idx + 1 <= kernel.size
    <3> DEFINE p == kernel.phdrs[idx + 1]
    <3>1. PhdrNow(Image + kernel.phoff + idx) = {p}
          BY <1>1, <1>3, <2>2, LoopHeader
    <3>2. ~(kernel.phoff + idx + 1 > kernel.size)
          BY <2>2, KernelTypes DEF Typed
    <3>3. p.type = "PT_LOAD" /\ p.filesz > 0 /\ p.offset + p.filesz > kernel.size
          BY <1>2, <3>1, <3>2 DEF Refuse, Ehdr
    <3>4. idx + 1 \in 1 .. Len(kernel.phdrs)
          BY <1>3, KernelTypes DEF Typed
    <3>5. idx + 1 \in Segments(kernel)
          BY <3>3, <3>4, KernelTypes DEF Segments
    <3>6. p.offset \in Nat /\ p.filesz \in Nat
          BY <3>4, HeaderTypes
    <3>7. ~(p.offset + p.filesz <= kernel.size)
          BY <3>3, <3>6, KernelTypes
    <3> QED BY <3>3, <3>5, <3>7 DEF WellFormed
  <2> QED BY <2>1, <2>2, KernelTypes DEF Typed
<1> QED BY <1>1, <1>4 DEF Progress, Correct, KernelIsLoaded, VerdictIsRight

LEMMA SkipStep ==
    ASSUME Typed, Separate(kernel), Progress, Correct, SkipHeader
    PROVE  (Progress /\ Correct)'
<1>1. /\ OnlySegmentsWritten /\ OnlySegmentsWritten' /\ epc = "loop" /\ epc' = "loop"
      /\ UNCHANGED <<kernel, mem>> /\ idx' = idx + 1
      BY DEF SkipHeader, Correct, OnlySegmentsWritten
<1>2. /\ idx + 1 \in 1 .. Len(kernel.phdrs)
      /\ kernel.phoff + (idx + 1) <= kernel.size
      /\ kernel.phdrs[idx + 1].type # "PT_LOAD"
  <2>1. EhdrNow = {Ehdr(kernel)}
        BY <1>1, LoopHeader
  <2>2. idx < Len(kernel.phdrs) /\ kernel.phoff + idx + 1 <= kernel.size
        BY <2>1 DEF SkipHeader, Ehdr
  <2>3. PhdrNow(Image + kernel.phoff + idx) = {kernel.phdrs[idx + 1]}
        BY <1>1, <2>2, LoopHeader
  <2>4. kernel.phdrs[idx + 1].type # "PT_LOAD"
        BY <2>1, <2>3 DEF SkipHeader, Ehdr
  <2> QED BY <2>2, <2>4, KernelTypes DEF Typed
<1>3. InFile(idx + 1) /\ idx + 1 \notin Segments(kernel)
      BY <1>2 DEF InFile, Segments
<1>4. \A j \in 1 .. idx + 1 : InFile(j)
      BY <1>1, <1>3 DEF Progress, Typed
<1>5. \A j \in Segments(kernel) : j <= idx + 1 => Loaded(kernel.phdrs[j])
  <2>1. \A j \in Segments(kernel) : j <= idx + 1 => j <= idx
        BY <1>3, KernelTypes DEF Segments, Typed
  <2> QED BY <1>1, <2>1 DEF Progress, LoadedSoFar
<1>6. LoadedSoFar'
      BY <1>1, <1>5 DEF LoadedSoFar, Loaded
<1>7. Progress'
      BY <1>1, <1>2, <1>4, <1>6 DEF Progress, InFile
<1> QED BY <1>1, <1>7 DEF Correct, KernelIsLoaded, VerdictIsRight

LEMMA CopyStep ==
    ASSUME Typed, Separate(kernel), Progress, Correct, CopySegment
    PROVE  (Progress /\ Correct)'
<1>0. PICK l : l = idx + 1
      OBVIOUS
<1> DEFINE p == kernel.phdrs[l]
<1>1. /\ OnlySegmentsWritten /\ epc = "loop" /\ epc' = "bss" /\ UNCHANGED <<kernel, idx>>
      BY DEF CopySegment, Correct
<1>2. /\ l \in Segments(kernel) /\ InFile(l)
      /\ phdr' = Image + kernel.phoff + idx
      /\ mem' = MemCpy(mem, p.paddr, Image + p.offset, p.filesz)
  <2> USE <1>0
  <2>1. EhdrNow = {Ehdr(kernel)}
        BY <1>1, LoopHeader
  <2>2. idx < Len(kernel.phdrs) /\ kernel.phoff + idx + 1 <= kernel.size
        BY <2>1 DEF CopySegment, Ehdr
  <2>3. PhdrNow(Image + kernel.phoff + idx) = {p}
        BY <1>1, <2>2, LoopHeader
  <2>4. /\ phdr' = Image + kernel.phoff + idx
        /\ p.type = "PT_LOAD" /\ (p.filesz > 0 => p.offset + p.filesz <= kernel.size)
        /\ mem' = MemCpy(mem, p.paddr, Image + p.offset, p.filesz)
        BY <2>1, <2>3 DEF CopySegment, Ehdr
  <2>5. l \in 1 .. Len(kernel.phdrs) /\ kernel.phoff + l <= kernel.size
        BY <2>2, KernelTypes DEF Typed
  <2> QED BY <2>4, <2>5, KernelTypes DEF InFile, Segments
<1>3. /\ p.offset \in Nat /\ p.paddr \in Nat /\ p.filesz \in Nat /\ p.memsz \in Nat
      /\ Image \in Nat /\ Image + p.offset \in Nat /\ kernel.size \in Nat
  <2>1. l \in 1 .. Len(kernel.phdrs)
        BY <1>2, KernelTypes DEF Segments
  <2>2. p.offset \in Nat /\ p.paddr \in Nat /\ p.filesz \in Nat /\ p.memsz \in Nat
        BY <2>1, HeaderTypes, Zenon
  <2>3. Image \in Nat /\ kernel.size \in Nat
        BY KernelTypes
  <2>4. Image + p.offset \in Nat
        BY ONLY <2>2, <2>3
  <2> QED BY <2>2, <2>3, <2>4
<1>4. \A a \in Addr :
         /\ a \in p.paddr .. p.paddr + p.filesz - 1 =>
               mem'[a] = mem[Image + p.offset + (a - p.paddr)]
         /\ a \notin p.paddr .. p.paddr + p.filesz - 1 => mem'[a] = mem[a]
  <2>1. CASE p.filesz = 0
        BY <1>2, <1>3, <2>1 DEF MemCpy
  <2>2. CASE p.filesz > 0
    <3>1. p.paddr <= Image + p.offset \/ Image + p.offset + p.filesz <= p.paddr
          BY <1>2, <2>2, SourceApart
    <3> HIDE DEF p
    <3> QED BY <1>2, <1>3, <3>1, CopyIsFaithful
  <2> QED BY <1>3, <2>1, <2>2
<1>5. \A a \in p.paddr .. p.paddr + p.filesz - 1 : a \in SegAddrs(p)
      BY <1>3 DEF SegAddrs
<1>6. /\ OnlySegmentsWritten'
      /\ \A j \in Segments(kernel) \ {l} : Loaded(kernel.phdrs[j]) => Loaded(kernel.phdrs[j])'
  <2>1. \A a \in Addr : a \notin SegAddrs(p) => mem'[a] = mem[a]
        BY <1>4, <1>5
  <2> QED BY <1>1, <1>2, <2>1, WriteInside
<1>7. Copied(p)'
  <2> SUFFICES ASSUME NEW n \in 0 .. p.filesz - 1
               PROVE  mem'[p.paddr + n] = p.offset + n
      BY <1>1 DEF Copied
  <2>1. p.offset + p.filesz <= kernel.size
        BY <1>2, <1>3 DEF InFile, Segments
  <2>2. Image + p.offset + n \in ImageAddrs(kernel)
        BY <1>3, <2>1 DEF ImageAddrs
  <2>3. mem[Image + p.offset + n] = p.offset + n
        BY <1>1, <1>3, <2>2, ImageIntact
  <2>4. p.paddr + n \in p.paddr .. p.paddr + p.filesz - 1
        BY <1>3
  <2>5. p.paddr + n \in Addr
        BY <1>2, <1>5, <2>4, SegmentInMemory
  <2>6. PICK a \in Addr : a = p.paddr + n
        BY <2>5
  <2>7. mem'[a] = mem[Image + p.offset + (a - p.paddr)]
        BY <1>4, <2>4, <2>6
  <2>8. Image + p.offset + (a - p.paddr) = Image + p.offset + n
        BY <1>3, <2>6
  <2> QED BY <2>3, <2>6, <2>7, <2>8
<1>8. LoadedSoFar'
  <2>1. \A j \in Segments(kernel) : j <= idx => j # l
        BY <1>0, KernelTypes DEF Segments, Typed
  <2> QED BY <1>1, <1>6, <2>1 DEF Progress, LoadedSoFar
<1>9. Progress'
      BY <1>0, <1>1, <1>2, <1>7, <1>8 DEF Progress, InFile, Segments
<1> QED BY <1>1, <1>6, <1>9 DEF Correct, KernelIsLoaded, VerdictIsRight

LEMMA ClearStep ==
    ASSUME Typed, Separate(kernel), Progress, Correct, ClearBss
    PROVE  (Progress /\ Correct)'
<1>0. PICK l : l = idx + 1
      OBVIOUS
<1> DEFINE p == kernel.phdrs[l]
<1>1. /\ OnlySegmentsWritten /\ epc = "bss" /\ epc' = "loop" /\ kernel' = kernel /\ idx' = l
      BY <1>0 DEF ClearBss, Correct
<1>2. l \in Segments(kernel) /\ InFile(l) /\ Copied(p) /\ l \in 1 .. Len(kernel.phdrs)
      BY <1>0, <1>1, KernelTypes DEF Progress, Segments
<1>3. /\ p.paddr \in Nat /\ p.filesz \in Nat /\ p.memsz \in Nat
      BY <1>2, HeaderTypes
<1>4. mem' = IF p.memsz > p.filesz
             THEN MemZero(mem, p.paddr + p.filesz, p.memsz - p.filesz) ELSE mem
  <2>1. phdr = Image + kernel.phoff + l - 1
        BY <1>0, <1>1, KernelTypes DEF Progress, Typed
  <2>2. kernel.phoff + l <= kernel.size
        BY <1>2 DEF InFile
  <2>3. PhdrNow(phdr) = {p}
        BY <1>1, <1>2, <2>1, <2>2, HeadersInPlace
  <2> QED BY <2>3 DEF ClearBss
<1> DEFINE bss == p.paddr + p.filesz .. p.paddr + p.memsz - 1
<1>5. \A a \in Addr : mem'[a] = IF a \in bss THEN Zero ELSE mem[a]
      BY <1>3, <1>4 DEF MemZero
<1>6. \A a \in bss : a \in SegAddrs(p)
      BY <1>3 DEF SegAddrs
<1>7. /\ OnlySegmentsWritten'
      /\ \A j \in Segments(kernel) \ {l} : Loaded(kernel.phdrs[j]) => Loaded(kernel.phdrs[j])'
  <2>1. \A a \in Addr : a \notin SegAddrs(p) => mem'[a] = mem[a]
        BY <1>5, <1>6
  <2> QED BY <1>1, <1>2, <2>1, WriteInside
<1>8. Loaded(p)'
  <2>1. ASSUME NEW n \in 0 .. p.filesz - 1
        PROVE  mem'[p.paddr + n] = p.offset + n
    <3>1. p.paddr + n \in SegAddrs(p) /\ p.paddr + n \notin bss
          BY <1>3 DEF SegAddrs
    <3>2. p.paddr + n \in Addr
          BY <1>2, <3>1, SegmentInMemory
    <3> QED BY <1>2, <1>5, <3>1, <3>2 DEF Copied
  <2>2. ASSUME NEW n \in p.filesz .. p.memsz - 1
        PROVE  mem'[p.paddr + n] = Zero
    <3>1. p.paddr + n \in bss
          BY <1>3
    <3>2. p.paddr + n \in Addr
          BY <1>2, <1>6, <3>1, SegmentInMemory
    <3> QED BY <1>5, <3>1, <3>2
  <2> QED BY <1>1, <2>1, <2>2 DEF Loaded
<1>9. LoadedSoFar'
  <2>1. \A j \in Segments(kernel) : j <= l => j <= idx \/ j = l
        BY <1>0, KernelTypes DEF Segments, Typed
  <2> QED BY <1>1, <1>7, <1>8, <2>1 DEF Progress, LoadedSoFar
<1>10. \A j \in 1 .. l : InFile(j)
       BY <1>0, <1>1, <1>2 DEF Progress, Typed
<1>11. Progress'
       BY <1>1, <1>2, <1>9, <1>10 DEF Progress, InFile
<1> QED BY <1>1, <1>7, <1>11 DEF Correct, KernelIsLoaded, VerdictIsRight

-----------------------------------------------------------------------------
(* The theorems                                                            *)

LEMMA ElfInitInv == ElfInit => ElfInv
<1> SUFFICES ASSUME ElfInit PROVE ElfInv
    OBVIOUS
<1>1. Typed
      BY DEF ElfInit, Typed
<1>2. LoadedSoFar
  <2>1. \A j \in Segments(kernel) : ~(j <= idx)
        BY <1>1, KernelTypes DEF ElfInit, Segments
  <2> QED BY <2>1 DEF LoadedSoFar
<1>3. Progress
      BY <1>2 DEF ElfInit, Progress
<1>4. Correct
      BY DEF ElfInit, Correct, OnlySegmentsWritten, KernelIsLoaded, VerdictIsRight
<1> QED BY <1>1, <1>3, <1>4 DEF ElfInv

LEMMA ElfStepInv == ElfInv /\ [ElfNext]_elfVars => ElfInv'
<1> SUFFICES ASSUME ElfInv, [ElfNext]_elfVars PROVE ElfInv'
    OBVIOUS
<1>1. Typed /\ Typed'
      BY TypedStep DEF ElfInv
<1>2. kernel' = kernel
      BY DEF ElfNext, elfVars, Validate, Finish, Refuse, SkipHeader, CopySegment, ClearBss
<1>3. ASSUME Separate(kernel) PROVE (Progress /\ Correct)'
  <2>1. Progress /\ Correct
        BY <1>3 DEF ElfInv
  <2>2. CASE ElfNext
        BY <1>1, <1>3, <2>1, <2>2, ValidateStep, FinishStep, RefuseStep, SkipStep, CopyStep,
           ClearStep DEF ElfNext
  <2>3. CASE UNCHANGED elfVars
        BY <2>1, <2>3
           DEF elfVars, Progress, LoadedSoFar, Loaded, Copied, InFile, Correct,
               OnlySegmentsWritten, KernelIsLoaded, VerdictIsRight
  <2> QED BY <2>2, <2>3
<1>4. Separate(kernel)' => Separate(kernel)
      BY <1>2
<1> QED BY <1>1, <1>3, <1>4 DEF ElfInv

\* What the invariant is for.
LEMMA ElfInvImplies == ElfInv => KernelIsLoaded /\ OnlySegmentsWritten /\ VerdictIsRight
BY DEF ElfInv, Correct, KernelIsLoaded, OnlySegmentsWritten, VerdictIsRight

\* elf32_load() on its own: when it answers with an entry point, every segment
\* is in memory, complete and followed by its cleared BSS; it writes nowhere but
\* in the segments; and it answers with the kernel's entry point if every header
\* and segment is in the file, and with 0 if not.
THEOREM ElfLoadIsRight == ElfSpec => [](KernelIsLoaded /\ OnlySegmentsWritten /\ VerdictIsRight)
BY ElfInitInv, ElfStepInv, ElfInvImplies, PTL DEF ElfSpec
=============================================================================
