# GEMIBOOT in TLA+

GEMIBOOT boots a multiboot kernel (`gemios.elf`) on x86 machines in three ways:
by a BIOS (MBR, VBR, IO.SYS with a real-mode part and a 32-bit C loader), by a
64-bit UEFI firmware and by a 32-bit UEFI firmware. This directory holds TLA+
models of it, the TLC configurations that check them, and proofs checked by
TLAPS. Paths below are relative to the repository's `src/` (so `bios/io16.S` is
`src/src/bios/io16.S` in `PROJECT.json`), with `tools/mkdisk.c` beside it.

To run: `tlc -config BiosBoot.cfg MCBiosBoot.tla`, and `tlapm BiosBoot_proofs.tla`.

## 1. Inventory

| Component | State it keeps | Operations | Talks to | What is hard |
|---|---|---|---|---|
| MBR (`bios/mbr.S`), VBR (`bios/vbr.S`), stage 1 (`bios/io16.S:20-135`) | registers handed on (EBX, DL), the sector at 0x7C00, a disk address packet, a retry counter | choose a partition; read and check a sector; scan for IO.SYS; load the rest of IO.SYS in chunks | INT 13h; each stage runs the next one at 0x7C00 | failing reads, a scan without a limit, one packet for many chunks |
| Second stage (`bios/io16.S:139-408`) | E820 table at 0x8000, video mode at 0x9000, the A20 gate | INT 15h/E820 loop, VBE query/set with fall-backs, three ways to open A20 | BIOS; leaves two tables for the C loader | tables next to each other, partly failing BIOS calls, devices that do not answer |
| Real-mode thunk (`bios/io32.S`, `bios/io16.S:500-600`) | packet, bounce buffer at 0x20000, both stacks, GDT/IDT | switch to real mode, up to three INT 13h reads, switch back | BIOS; called by `bios_disk.c` | stale data after partial transfers, mode switches |
| Disk layer (`bios/bios_disk.c`) | loop variables of one call | `bios_read_sectors` | thunk below, FAT reader above | chunking, propagation of errors |
| BIOS loader (`bios/bios_loader.c`) | multiboot information | find partition, mount, find and read the kernel, load ELF, fill multiboot information, pause, jump | FAT, ELF, the tables of the second stage, CMOS clock | two rules for one partition, limits of the tables, a clock that stands still |
| FAT reader (`common/fat.c`) | `fat_fs_t`, cursor in a chain | `fat_init`, `fat_find_file`, `fat_read_file` | `fat_read_sectors` | broken or cyclic chains, boundaries of sectors and clusters, failing reads |
| ELF loader (`common/elf.c`, `common/string.c`) | memory | `elf32_validate`, `elf32_load` | the staged file | source and destination share memory; headers are read again while segments are written |
| UEFI loaders (`efi64/`, `efi32/`) | memory map buffer, multiboot information, trampoline | `efi_main`: ELF, trampoline, memory map, `ExitBootServices`, jump | boot services | the memory map changes under the loader's hands; retries; failed allocations |
| Kernel file (`read_kernel_file`, `try_open_file_on_fs`) | open handles, pool buffer, the file's buffer | three searches over volumes, eight paths and a directory listing on each | file-system protocols | any call may fail; what was opened must be closed; a partial read is followed by another volume |
| Graphics mode (`init_gop`) | mode, frame buffer, what the kernel is told | query and rank the modes, `SetMode` | graphics output protocol | queries and the switch may fail |
| UEFI console (`uefi_puts`, `gop_*`) | cursor, frame buffer | print, draw, wrap, scroll | firmware console, frame buffer | buffer boundary between two loops, screens that are no multiple of the font |
| PCI remap (`efi64/efi64.c:191-266`) | next free 32-bit window, the frame buffer's address | enumerate, size and move 64-bit BARs | configuration space; called by `efi_main` before the kernel is entered | 32-bit arithmetic, windows that must not overlap, registers that are half written |
| Image builder (`tools/mkdisk.c`) | disk image, next free cluster | write MBR, VBR, FAT32, files | read back by everything above | layout conflicts, full directories |

`PROJECT.json` lists the hazards of this code at their lines, each with the
properties that would catch it or a note why none does.

What makes each component correct:

* **Disk layer**: "0" is returned only with all sectors in place; a failed call
  leaves a correct prefix; every call returns.
* **Mode switches**: every instruction, interrupt handler, BIOS call and C statement
  finds the mode, segments, tables and stack it needs.
* **Boot chain**: an IO.SYS is what runs, the first of the chosen partition; the C loader
  works on that partition whenever it can read the MBR; the chain ends.
* **Second stage and BIOS loader**: the kernel is told the firmware's memory map
  and the mode that is set; it is entered with A20 enabled; the pause is neither cut
  short nor endless.
* **Image builder**: every file is whole in both FATs and reachable by its path; IO.SYS
  lies where the VBR scans, before anything else that could pass for it; the backup boot
  sector is one; the loader reads back the kernel the image was built from.
* **FAT reader**: the file found is the first of that name, "not found" is true;
  what is read is the file that the FAT describes and stays within its size.
* **ELF loader**: an entry point is returned only for a kernel that lies in
  memory completely; nothing else is written.
* **UEFI loaders**: the kernel is entered after boot services ended, with the map
  they ended with (the abstract specification `Handoff`).
* **Kernel file**: the first volume that offers a kernel and answers supplies it, whole;
  "not found" is true; nothing stays open.
* **PCI remap**: no address is ever decoded by two BARs, not between two accesses
  either; in the end all BARs are below 4 GB and the frame buffer was followed.
* **Graphics mode**: the best mode offered is taken, the kernel is told what is in force.
* **Console**: the screen is the end of the text, the firmware console gets a
  prefix of every string.

## 2. Modules

| Module | Models | State and actions |
|---|---|---|
| `SectorRead` | what `fat_read_sectors()` promises (abstract) | `Call`, `Deliver` (a longer prefix), `Succeed`, `Fail`, `Resume` |
| `BiosDisk` | `bios_read_sectors`, `bios_disk_read_raw`, the INT 13h loop of the thunk | `StartChunk`, `CopyChunk`, `ReturnOk`, `Resume` are the C loop and the filling of the packet; `Int13Ok` and `Int13Fail` one BIOS call, the latter after any number of sectors; the bounce buffer survives calls |
| `BiosThunk` | `BiosDisk` and the processor under it: the way into protected mode, to real mode and back around each INT 13h, the jump to the kernel | `cpu` is the mode, tables, segments, stack and interrupt flag; `code` the instructions left of a switch. `Execute` takes one, `Interrupt` may come between any two, `InC` and `InThunk` are the steps of `BiosDisk`, each needing its processor state |
| `FatVolume` | the arithmetic of `fat_init`, `cluster_to_lba`, `fat_get_next_cluster`, `is_end_of_cluster_chain` | operators, with the code's thresholds and end marks |
| `FatRead`, `FatFind` | `fat_read_file`, `fat_find_file` | one action per sector read, per FAT look-up and per turn of a loop; reads may fail |
| `MkDisk` | `tools/mkdisk.c` | a sparse image; one action per phase of `main()`, and per cluster of a file |
| `DiskImage` | the FAT part of `bios_loader_main`: mount, find, find again, read | composes `MkDisk` and `FatRead`, which it extends, with an instance of `FatFind` that has the variables of its own call; `BootImage` turns the finished image into the volume that the reader sees |
| `ElfLoad` | `elf32_validate`, `elf32_load`, `memcpy`, `memset` | memory as cells; `CopySegment` and `ClearBss` per program header, each reading the headers from memory as it is then |
| `BootChain` | `mbr.S`, `vbr.S`, stage 1, `find_active_partition_lba` | one action per read that succeeds or fails. A sector has the two marks that the stages test (AA55 at its end, "gemi" at 3) and a program it is when it is run |
| `BiosBoot` | the whole way from the MBR to the kernel on a BIOS machine | composes `BootChain` and `BiosThunk`: the second stage's way into protected mode, the C loader's read of the MBR (`ReadMbr`) through the thunk, its choice of the partition by what that read answered (`FindPartition`), then any reads and the jump |
| `BiosHandoff` | `get_e820_memory_map`, `init_video_mode`, `enable_a20`, and `bios_loader_main` from there to the jump | one action per BIOS call, per attempt at A20 and per poll of the clock |
| `Handoff` | what a UEFI loader owes the kernel (abstract) | `MapChanges`, `EndServices`, `EnterKernel`, `Halt`, `GiveUp` |
| `EfiFirmware` | boot services (external) and `convert_memory_map` | the map, whether the loader's key is that of the map as it is, the buffer and the size of `GetMemoryMap` |
| `Efi64Boot`, `Efi32Boot` | `efi_main` of the two loaders | one action per phase and per call of a boot service; `Event` lets the map change between any two of them |
| `PciRemap` | `pci_remap_above_4g_bars` | contents and decoding of every BAR register; one action per access to a device that matters (`Disable`, `Probe`, `WriteLow`, `WriteHigh`, `Enable`) and per step of the walk |
| `Efi64Loader` | `Efi64Boot` with the walk of `PciRemap` at its place | the step `RemapPci` becomes `WalkStep`s, then `FramebufferTold` |
| `EfiKernelFile` | `read_kernel_file`, `try_open_file_on_fs` | one action per protocol call that may fail, its failure a disjunct or an action of its own; what is open or allocated |
| `Efi32Loader` | `Efi32Boot` with the search of `EfiKernelFile` and the loading of `ElfLoad` at their places | the step `ReadKernel` becomes `SearchStep`s, then `SearchEnds`; the step `LoadElf` becomes `ElfStep`s, then `ElfEnds` |
| `GopConsole` | `init_gop`, `uefi_puts`, `gop_draw_char`, `gop_scroll` | `QueryMode` for each mode and `SetMode`, or `NoGop`; then one action per character of each of the two loops. History variables hold what was printed, sent and drawn, and the text that was drawn |
| `BiosThunk_proofs`, `BiosBoot_proofs`, `DiskImage_proofs`, `ElfLoad_proofs`, `BiosHandoff_proofs`, `Efi32Loader_proofs`, `Efi64Loader_proofs`, `GopConsole_proofs` | | the theorems of section 5, about the module they are named after and, first, about those it is composed of |

`FatRead` and `FatFind` use `FatVolume`; both UEFI loaders use `EfiFirmware` and
implement `Handoff`. `BiosDisk` implements `SectorRead`, on whose atomic,
one-sector instance `FatRead` and `FatFind` rest: a read there delivers the sector
or leaves the buffer alone. The two UEFI loaders hold the same code for the kernel
file, ELF loading and the console; the kernel file and ELF loading are composed with the
32-bit loader and the PCI walk, which only the 64-bit loader has, with that one. `MC...` modules hold the
small instances. Definitions named `X_Something` next to an `X` are variants of it
with a plausible bug; `PROJECT.json` says which property each of them violates, that
is, what the property is able to see.

Data is abstracted to what the properties tell apart: a sector's content is its
LBA or its place in a file, a byte of a file its place on the disk, a directory entry
whether it ends the directory, is skipped or matches, a video mode's description the
mode, a sector of a disk that is booted from two marks and a program. All control is kept: early returns, retries and ignored results are those of
the code.

## 3. Runs

| Run | Question | Bounds |
|---|---|---|
| `BiosBoot` | Which sector runs, which partition is used, does the chain end? Does every read of the loader deliver all sectors or fail, with stale and partial transfers? Does it implement `SectorRead`? Is the processor always in the state that what runs needs? | 9 sectors; every table of 2 entries (active or not, start 0, 2 or 3); boot sectors as vbr.S assembles them and as mkdisk writes them, and IO.SYS, in every order on the sectors behind; 2 attempts of the chain's reads, 3 chunks of 2 sectors; then one read of the MBR and any requests of 0, 1, 3 and 5 sectors in chunks of 2 (exact, shorter last chunk, past the end), 3 attempts each, interrupts at any time |
| `DiskImage` | Is mkdisk's image whole, does the VBR's scan find IO.SYS in it, and does the loader read the kernel back from it? On other volumes: is the file read the one on the disk, within its size, is an error justified, is the first match found and none missed? | sectors of 8 bytes, directory entries of 4; images with an IO.SYS of 9, 232 and 241 bytes (2 sectors, the 29 that just fit the reserved area, and 31) and kernels of 0, 32 and 33 bytes (a cluster is 32); for the read FAT12, FAT16 and FAT32 volumes with every FAT over three clusters (free, cyclic, crossing, end marks, reserved bits) and 5 sizes; for the search every directory of a few sector contents and every chain over two clusters |
| `DiskImageBackup` | *violated*: is the backup boot sector one? | as above |
| `ElfLoadStaging` | *violated*: is a kernel in the space reserved for it loaded? | 22 cells of memory, every kernel of two program headers out of a few shapes |
| `Efi64Loader` | Does the 64-bit loader implement `Handoff`, end, and give up only after all attempts? Do BARs never overlap, end below 4 GB, and is the kernel told where the frame buffer went? | 2 attempts, which can both fail; the map changes at any time, any number of times; maps that fit, exceed the multiboot table and exceed the buffer; machines of 2 slots with 3 functions of 6 BARs, BARs from 1 to 512 MB at 4 GB = 4096 units, cards alone, with gaps, with several functions, and beside BARs that lie where the half-written registers of a moved one point |
| `Efi64BootExhausted` | *violated*: are boot services over when the map is converted? | the 10 attempts of the code; the map changes at any time |
| `PciRemapCrowded` | *violated*: do the windows miss the BARs that are there? | one machine with a 32-bit BAR of 256 MB at 0xD0000000 |
| `Efi32Loader` | Is the kernel file the first one offered, whole, with everything closed? Does the kernel lie in memory, and nothing else? Does the 32-bit loader implement `Handoff`; when does it end? | every pair of seven volumes (kernel under a path, in the directory, behind an over-long entry, nowhere; empty, short, cut by the buffer), five ways of naming them, any call failing; on one more machine every kernel of two program headers out of 17 and some malformed ones, in 22 cells of memory; three maps (one beyond the multiboot table, one beyond the buffer) that change at any time, any number of times |
| `BootChainChunks` | *violated*: does the second stage find all of IO.SYS? | as for `BiosBoot` |
| `GopConsole` | Is the best mode taken and the mode in force told? Is the screen the end of the text? What does the firmware's console get, and is the buffer large enough? | every list of up to 3 modes with any failing calls; 4 lines of 3 characters or 5 of 2 (one line spare), a buffer of 5 filled while it holds less than 3, two strings out of all of four characters over two letters and line feed, and some others |
| `BiosHandoff` | Is the kernel told the map and the mode? Is the pause as long as announced? | 0 to 5 ranges with 3 accepted and the 5th reaching the video table, 3 modes, all with a linear frame buffer or all but two without, 2 seconds of 2 polls, 4 ticks of the clock |
| `BiosHandoffA20` | *violated*: is the kernel entered with A20 enabled? | as above |

The bounds keep every comparison of the code on both sides: chunk boundaries,
table limits, retries that run out, chains that are too short, right and too
long. Counters of the code are not enlarged by more than one, so larger instances
repeat these cases. The number of attempts of the 64-bit loader is a parameter: two
show a retry and the end of the retries. `CHECK_DEADLOCK FALSE` stands everywhere
because every one of these programs ends (the kernel runs, the function returned, or
the machine hangs); that they do come to one of these ends is what `ChainEnds`,
`LoaderEnds`, `ComesToAnEnd`, `EndsIfMapSettles` and `ReachesKernel` say.

The number of map changes has no bound in either UEFI loader: of the key only whether it is
still that of the current map is kept, and a map that changes is another one of the set, or
the same one with a new key. In `Efi32Loader` what an event does to the map during the search
shows when the search ends (`ReadKernel` may change the map), since nothing looks at the map
before.

### What the violated runs show

* **A kernel that reaches 2 MB is loaded wrongly** (`ElfLoadStaging`). The file is
  staged at 0x00200000, inside the 3 MB from 0x00100000 that `efi_main` reserves
  as "kernel address space". A segment that reaches the staging area overwrites
  the file, or the headers that are still to be read.
* **After ten refused attempts the 64-bit loader goes on with boot services
  active** (`Efi64BootExhausted`). Nothing looks at `status` after the loop.
* **The backup boot sector is not one** (`DiskImageBackup`). `mkdisk.c` writes it at
  sector 6 (lines 390 and 406) and then copies IO.SYS to the reserved sectors from sector
  2 on: an IO.SYS of five to 29 sectors lies over it.
* **The kernel may be entered with A20 closed** (`BiosHandoffA20`). README.md promises
  "A20 enabled"; the last way of opening the gate is not checked, and the loader goes on.
* **All chunks of IO.SYS but the first hold the wrong sectors**
  (`BootChainChunks`). `iosys_sector` is advanced, but the packet is filled from it
  before the label the loop returns to. It is harmless while IO.SYS is not larger
  than one chunk (32 KB).
* **A moved BAR is laid over one that was there** (`PciRemapCrowded`). The comment
  speaks of a "non-overlapping aligned 32-bit window"; windows are taken from
  0xE0000000 downwards without a look at the BARs the firmware placed there.

### What the properties' premises leave out

* A BIOS that changes the packet of a failed read (EDD allows it): with
  `PacketCountUpdated = TRUE` the model of `BiosDisk` refutes `ReadComplete`.
* Non-maskable interrupts: protected mode has no handlers at all. (The default for a
  drive number of zero at `io16.S:541-545` has no effect, as DL is loaded again at
  line 553; the model has the number that is used.)
* FAT12 files of more than one cluster are always refused (`ErrIsJustified`).
* A cyclic root directory without an end mark is scanned for ever
  (`LoaderEnds`); an active partition at sector 0 makes the MBR run
  itself for ever (`ChainEnds`).
* A sector of the partition that bears both marks `vbr.S` looks for, AA55 and "gemi" at
  offset 3, and is no IO.SYS is taken for it: `FirstIoSysRuns` then only says that stage 1
  runs from an IO.SYS, not which (`OnlyIoSysIsMarked`). The VBR as assembled is such a
  sector (`vbr.S:17`); in mkdisk's image its copies have the name "GEMIBOOT" instead
  (`mkdisk.c:374`), and `IoSysWhereVbrLooks` says that nothing else stands before IO.SYS
  that could bear the marks: FSInfo has other bytes there, the byte at 3 of a FAT entry
  has its top half clear, the names in the root directory are other ones.
* mkdisk hands out clusters without a limit and ignores a full directory; neither happens
  with the six files it stores if they fit the disk (`MkDiskAssumption`).
* A video mode that is set though its description gives no linear frame buffer is told as
  EGA text at 0xB8000 (`bios_loader.c:216-243`): `FramebufferTold` leaves it out.
* Machines the PCI windows do not fit (`Uncrowded`): BARs that overlap already, that lie
  below 0xE0000000, where firmware often puts them (`PciRemapCrowded` has one), or that are
  larger than 512 MB and get a window of 256 MB (no run shows this);
  and windows of more than 3.5 GB in all (`wrapped`), after which addresses are handed
  out twice.
* A kernel behind a directory entry of more than 512 bytes is not found, as the
  listing ends there (`Offers`). An empty kernel file counts as found, and then stops
  the loader though another volume may hold a kernel.
* A graphics mode that is neither RGB nor BGR is told as BGR (`ToldIsInForce` leaves its
  colours out).
* A 32-bit loader whose firmware's map never fits 16 KB, or changes between every
  `GetMemoryMap` and `ExitBootServices`, never ends: `EndsIfMapSettles` has the premise that
  from some time on the map fits and events leave it alone.
* When both allocations for the trampoline fail, the 64-bit loader jumps to
  0x20000, where it copied nothing: `Efi64Boot` reaches that state, and `Handoff` does
  not tell it apart.
* A keyboard controller that does not answer hangs the loader (`ReachesKernel`).
* Some branches are checked though no caller in the program takes them: every caller of
  `bios_read_sectors` asks for one sector, so no request has several chunks; and no string
  either UEFI loader prints comes near the limit of the console's buffer.

## 4. Fairness

The loaders are single threads of straight-line code: the processor executes
the next instruction, and BIOS or firmware calls return. That is weak fairness of
the program's own steps: `Progress` in `BiosBoot` (the stages, the instructions of a
switch, the steps of a call and the BIOS, and the loader's first call, but no further one);
`PciNext` in `PciRemap`; `Running` in `DiskImage` (not the building of an image, nor
starting a machine with it); `LoaderStep` in both UEFI loaders. Nothing is assumed about
interrupts, events of the firmware, callers, or that a read ever succeeds; that events
leave the memory map alone in the end is a premise of `EndsIfMapSettles` and no fairness.
Two specifications say more.

* `BiosHandoff`: `SF_vars(Step)`, because the clock's update-in-progress bit comes and
  goes and blocks polling while it is set. It is set for about 2 ms in a second,
  and polling takes a microsecond, so the loader gets to read between two updates;
  `WF_vars(UpdateEnds)` says that an update ends.
* `SectorRead` (abstract): weak fairness of the answer, so that `BiosBoot` is shown to
  return from every call.

## 5. Proofs

`BiosThunk_proofs` begins with `BiosDisk`. What it says holds for every disk, request, capacity, chunk size and number of
attempts (`DiskAssumption`), and for firmware that leaves the packet of a failed read
alone (`~PacketCountUpdated`, an assumption of each theorem):

* `TypeCorrect`: `Spec => []TypeOK`, in particular no transfer exceeds the bounce buffer;
* `ReadsAreComplete`: `Spec => []ReadComplete`;
* `BufferIsPrefix`: `Spec => []DestIsPrefix`.

None of these is inductive. `IInv` adds what the C code and the assembly
agree on in the middle of a call: the loop's `lba` and `count` are the
request minus what was copied (`LoopAhead`); while a chunk is in flight the
packet describes it (`PacketIsChunk`) - this is what a changed packet would
break; when the chunk is copied the bounce buffer holds it, whatever was there
before (`BounceIsChunk`); and "0" is returned only at the end of the request
(`OkIsComplete`). `StepIInv` has one step per action.

`SectorReadImplemented` is the safety part of the refinement: under the same proviso
the first state is one of `SectorRead`, and every step is a step of `SectorRead` or
invisible to it. `IInv` is what makes `CopyChunk` a `Deliver`: the bytes it copies are
the next ones of the request.

Its second part is about the processor under it, with interrupts at any time:

* `ProcessorIsReady`: `ThunkSpec => []NeverCrashes`. The inductive invariant says what the
  processor is for each instruction that is left to execute (`GoingUp`, `GoingDown`) and for
  the places where nothing is left (`InCCode`, `InBios`). The flag `intr` is on only where
  the BIOS's table, stack and segments are in place (`InterruptStep`); the stack that the way
  up restores is that of the C code, because `saved` is set before the way down begins;
* `ReadsAreCompleteOnThunk` and `SectorReadImplementedOnThunk`: what is proved of `BiosDisk`
  holds here too, since every step of `BiosThunk` is a step of `BiosDisk` or invisible to it
  (`StepIsDiskStep`).

`DiskImage_proofs` begins with what `MkDisk` writes (*the image*, below). Then it is about
`FatRead`, for every volume, FAT, sector size and file size, whatever reads fail:

* `StaysWithinSize`: `Spec => []NoOverrun`. A full sector is read straight into the
  caller's buffer, so this needs to know that a sector still fits: `CopiedPlusRemaining`
  (bytes copied and bytes remaining add up to the size), with the lemma `CopyLenBounds`;
* `FileIsRead`: `Spec => []ReadOkIsTheFile`;
* `RefusalsJustified`: `Spec => []ErrIsJustified`.

The last two rest on `FileInv`: the clusters walked are a chain of the FAT as far as they
go (`WalkIsChain`), `pos` is where the cluster, sector and bytes passed add up to, so that
what is copied next is the file's next byte (`Place`; its steps are arithmetic on cluster
and sector sizes), and all bytes before `pos` are those of the file (`BytesInPlace`). That a
refusal is justified needs in addition that the clusters walked are no more than the file
needs.

Last it is about the loader of `DiskImage`, which runs mkdisk, `fat_find_file` and
`fat_read_file` one after the other. What is said of the image holds for all sizes of the
input files that fit the disk, and sectors of 8 to 512 bytes (`MkDiskAssumption`); what is
said of search and read, for all other volumes too:

* `LookUpIsRight`: `LoaderSpec => []SearchIsRight`;
* `KernelIsRead`: `LoaderSpec` keeps `NoOverrun`, `ReadOkIsTheFile` and `ErrIsJustified`;
* `ImageIsWhole`, `VbrFindsIoSys`: `LoaderSpec` implies `[]FilesAreWhole` and
  `[]IoSysWhereVbrLooks`;
* `KernelComesBack`: `LoaderSpec => []KernelIsReadBack`.

*The search.* `ScanInv` says that the scan is at sector `k` of the directory (`At`) and that
no sector before it stops it (`Clean`). So the entry it stops at is the first one, and a scan
that comes to the end has seen all. The property looks at finitely many sectors, as many as
the FAT has clusters; that nothing is found behind them on a chain that goes on for ever is
`FoundInTime`: a chain longer than the table passes a cluster twice (the pigeonhole
principle of `FiniteSetTheorems`), and then all it passes later it has passed before
(`RootRepeats`).

*The image*. `Layout` says what the disk holds before each step of `main()`:
the boot sectors, of every file the clusters written so far with their contents and their
links in both FATs (`FileHolds`), of every directory its entries and nothing else
(`DirHolds`), and nowhere the kernel's name but in its entry (`KernelOnly`). Files and
directories take their clusters one behind the other (`Begin`, `Extent`), so no two share one
(`Owners`). A step touches few clusters and FAT entries (`Touches`) and keeps all that lies
elsewhere (`FileKept`, `DirKept`), so each step is one lemma about what it adds
(`ClusterKeepsLayout`, `FinishKeepsLayout`, `DirKeepsLayout`, ...). When the image is written,
what a reader computes from the boot sector is the geometry that mkdisk used
(`ImageGeometry`), and the two properties follow from `Layout` (`FilesVerdict`, and
`IoSysVerdict` with `NothingMarked`: neither FSInfo nor the boot sector as the program writes
it, a FAT entry or an entry of the root directory may pass for the start of IO.SYS).

*Both together.* `LoaderInv` holds `MkInv` for the image, `ScanInv` for the search and
`FileInv` for the read, each once it is called, and carries a volume that can be searched and
read from one to the next (`Searchable`, `HasFiles`; `ImageIsVolume` says that the image is
such a volume). `ReadBackInv` adds that the volume is the image and the file the kernel. The
entry found is then the one mkdisk wrote (`KernelEntry`), the clusters read are consecutive
(`KernelWalk`), so the bytes delivered are those of the sectors stored (`KernelDelivered`);
and neither the chain nor the directory ends too early (`KernelNotRefused`,
`KernelNotMissed`).

The chain of the root directory and the chains of the image are recursive functions. What
they yield is proved by induction over a number: a set of numbers has a least element (from
`WellFoundedInduction`), so one with 0 and all successors is `Nat` (`LeastElement`,
`Induction`), and applied to the set of numbers for which the claim holds this is the usual
rule. That the recursive definition has a value at all comes from functions on `0 .. n` that
agree with each other (`Iteration`).

`ElfLoad_proofs` holds for every kernel with any number of segments of any size, in memory of
any size: `ElfLoadIsRight` is `ElfSpec => [](KernelIsLoaded /\ OnlySegmentsWritten /\
VerdictIsRight)`.

The three need each other. The loop reads ELF header and program headers again on every
turn from memory it is writing to; that it sees the kernel's own headers (`HeadersInPlace`)
follows from `OnlySegmentsWritten` so far and from no segment lying in the staged file
(`Separate`, the premise of the properties; `ElfLoadStaging` shows what happens without
it). `Progress` says that the segments before header `i` are loaded and, between copying and
clearing, that the copy is complete; a later segment leaves them alone because segments lie
apart.

`BiosBoot_proofs` is about the whole way from the MBR, for every disk whose first sector, and
no other, is the MBR (`BootedAssumption`), every partition table and number of attempts:

* `FirstIoSysIsRun`: `BootSpec => []FirstIoSysRuns`;
* `SecondStageIsLoaded`: `BootSpec => []FirstChunkLoaded`;
* `PartitionIsAgreed`: `BootSpec => PartitionAgreed`, if INT 13h leaves the packet alone;
* `BootNeverCrashes`, `BootReadsAreComplete` and `BootReadsImplementSectorRead`: what is proved
  of `BiosThunk` holds here, since every step is one of `BiosThunk` or invisible to it.

`mbr.S` takes the first active entry, `find_active_partition_lba` the first active one that
does not start at 0 (`SearchesAgree`). They differ only if the MBR's choice starts at 0; but
sector 0 is the MBR, so the chain never leaves it then. This is the conjunct `AtPartition` of
`ChainInv`; `NothingSkipped` is the loop invariant of the scan, `ChunkUnderWay` that of stage 1.
That the loader looks at the MBR, and not at what an earlier transfer left in the buffer, when
its read answers "0" is `ReadComplete` of its first request (`FirstRequest`).

`BiosHandoff_proofs` holds for maps, mode lists, tables and pauses of any length, and any
answers of firmware, keyboard controller and clock:

* `MapIsTold`, `FramebufferIsTold`, `PauseLasts`: `Spec` implies `[]MapTold`,
  `[]FramebufferTold` and `[]PauseIsLong`.

`HInv` follows each piece of information from the BIOS call that delivers it to where it is
told. A range keeps its place in the table at 0x8000 as long as it is not one of those
that reach the video description (`SlotsHoldRanges`); the description in use is that of the
mode queried, set and stored (`DescriptionFollows`); `PauseCounted` says how many ticks are
behind the second being waited for.

`Efi32Loader_proofs` and `Efi64Loader_proofs` hold for every set of memory maps, any number
of map changes, every buffer and table size and every number of attempts:

* `HandoffImplemented` (in each): `Spec => ImplementsHandoff`. `Handoff` has no liveness
  part, so this is the whole refinement;
* `GivesUpLate`: `Spec => []GivesUpOnlyAfterRetries` (64-bit);
* `LoaderImplementsHandoff` (in each) and `LoaderGivesUpLate`: the same of `Efi64Loader` and
  `Efi32Loader`, the specifications that are model-checked. Their steps are steps of the
  loaders alone or invisible to them (`LoaderStepIsStep`).

The argument is about the key. Every change of the map makes the loader's key stale
(`NewMapKey`), so while it is that of the current map (`keyFresh`) the buffer, or the report
made of it, describes that map (`KeyMeansFresh`). `ExitBootServices` accepts only a fresh key,
and the map never changes after that: the 64-bit loader may convert the buffer later
(`FinalMapBuffered`), the 32-bit one has converted it before; both enter the kernel with the
report of the last map (`FinalMapTold`). Both begin with the same lemmas on the buffer: `DeliveredMap`
(after `GetMemoryMap` the buffer begins with the map) and `BufferReport`
(`convert_memory_map` looks at the first `num` descriptors only, so that what is behind them
does not matter).

`Efi32Loader_proofs` also is about the search for the kernel file, for any volumes, handles,
paths and directories, and any calls that fail:

* `FirstOfferTaken`: `LoaderSpec => []KernelIsFirstOffer`;
* `NotFoundIsTrue`: `LoaderSpec => []NotFoundJustified`;
* `EverythingClosed`: `LoaderSpec => []NothingLeftOpen`;
* `SegmentsAreLoaded`, `NothingElseWritten`, `VerdictsAreRight`: `LoaderSpec` implies
  `[]KernelIsLoaded`, `[]OnlySegmentsWritten` and `[]VerdictIsRight`. These are the theorems
  of `ElfLoad_proofs` in the loader, whose other steps leave memory alone.

`SearchInv` counts the volumes that are behind the search (`Behind`), in the order of the
three searches together, and says that each of them that offers a kernel had a call fail
(`NonePassedOver`); `AtItsPlace` ties the volume worked on to its place in that order,
`NotThere` says what has been seen of it, `OpenNow` what is open at each place of the code.

`Efi64Loader_proofs` also is about the PCI walk, for any number of slots, functions and BARs
of any sizes:

* `WindowsNeverOverlap` is `PciSpec => []NoOverlap` for machines that are `Uncrowded`, and
  `LoaderWindowsNeverOverlap` is the same of `Efi64Loader`;
* `NothingStaysAbove4G` is `LoaderSpec => []BarsBelow4G` and `KernelDrawsOnTheCard` is
  `LoaderSpec => []FramebufferFollows`, for machines that are also `Enumerated`.

Windows
are handed out downwards, so every BAR that was moved lies between the base of the last
window and `FirstBase` (`MovedInWindows`), in a window of its own (`MovedDisjoint`), while all
others hold their first address (`OthersOriginal`), which is above `FirstBase`. The BAR being
moved is the exception; between `Disable` and `Enable` its function decodes nothing (`Hidden`),
and when it decodes again its register holds the window just taken (`WindowTaken`, which needs
that an aligned address survives the register's read-only bits). All of this is claimed only
until the windows wrap below zero, after which they do overlap. There is one lemma per access that matters (`DisableStep`,
`ProbeStep`, `WriteLowStep`, `WriteHighStep`), and `QuietStep` for the rest.

Where the BARs and the frame buffer end up (`BarsInv`) does not depend on that: `AllMoved` says
that every BAR above 4 GB which the walk has passed was moved, `WindowFits` and `MovedBelow`
that what it was given ends below 4 GB even if the windows wrapped, `Restored` that what
decoded does so again. `Passed` follows the order of the walk, which skips functions 1 to 7 of a
device that is not multifunction; `Enumerated` (a function other than 0 belongs to a
multifunction device that has a function 0, and a BAR that starts below 4 GB ends there) says
that no BAR lies where nobody looks. `FbInHome` keeps the frame buffer's distance from the
start of the BAR it is in, and `TellInv` carries its address to the kernel.

`GopConsole_proofs` holds for lists of any number of modes, screens, fonts and buffers of any
size and all strings:

* `BestModeIsSet`: `Spec => ModeIsBest`, and `ModeInForceIsTold`: `Spec => []ToldIsInForce`;
* `NothingUndrawn`: `Spec => []EveryCharDrawn`;
* `ConsoleGetsPrefix`: `Spec => []ConOutIsPrefix`;
* `ScreenShowsTail`: `Spec => []ScreenIsTail`.

`Scanned` says what the loop over the modes has found among those it asked for. `DrawnInv` and
`SentInv` follow a string through the two loops: what was drawn of it is what was dealt with
(`DrawnOf`), and the buffer holds the translation of just that (`IsTranslation`), whose length
counts line feeds twice (`PlaceFacts`); so the first loop ends at most one place above its
limit, and the terminating zero fits. That the screen is the end of the text is inductive only
together with the place of the cursor (`Behind`). A new row scrolls exactly if the text has as
many rows as fit, and then every row moves up by one (`ShownScrolled`, over the quotient and
remainder of a scan line by the height of the font); a glyph changes the lines of the cursor's
row in one cell (`ShownPut`).

The assumptions used are the named `ASSUME`s of the modules, which TLC evaluates, and the
provisos named above. The `ASSUME`s are about types and sizes: sector and cluster sizes are
positive, table entries are numbers (`WellFormed`), a FAT has an end and a root directory a
place and an extent (`Searchable`), the entry looked for has a cluster and a size
(`DiskImageAssumption`), the input files of mkdisk fit the disk and IO.SYS is not empty
(`MkDiskAssumption`; it also bounds `SECTOR_SIZE`, which is 512 in the code, to 8 to 512, for
which the partition is FAT32), a list of ranges fits its table, a directory listing is a
sequence of the three kinds of entry, handles name volumes, the console's buffer has two places
behind its limit, and the screen has room for one row and one column (`ConsoleAssumption`).

Only model-checked is liveness, and with it the liveness part of the refinements: it is out of
the prover's reach.

## 6. Not modelled, and why

* The trampolines of the UEFI loaders (`bootx64.S`, `bootia32.S`) are the one step
  `Jump`: they run with interrupts off and nothing can come between their instructions.
* `find_acpi_rsdp`: a search in a list of the firmware's, whose result is passed on as it
  is; the multiboot fields without a choice behind them (`mem_upper`, `boot_device`,
  names) are not told apart.
* Serial output, hexadecimal and decimal printing, the font and the headers' layouts, the
  build and test scripts: no property depends on them. Pixels within a glyph line, and
  dates, attributes and CHS values in the image, are abstracted.
* `format_83_name` is abstracted to whether an entry has the name looked for.
* PCI bridges: the walk numbers the busses through and leaves a bridge's windows as they
  are, so a BAR behind a bridge may be moved to where the bridge forwards nothing. In
  `PciRemap` every function is reached at any address.
* The drive: a number below 0x80 is replaced by 0x80 in the second stage (`io16.S:144-146`),
  so a chain begun on another drive goes on with the first hard disk. `BiosBoot` has one
  drive.
* Sums that wrap at 2^32 outside the PCI walk: the geometry of a volume, offsets in an
  ELF file and LBAs are such that they do not; `elf.c:72` is listed as a hazard.

## 7. What could follow

1. The disk image as the disk of `BiosBoot`, and one abstract specification of the boot.
2. The kernel file within the 64-bit loader, and a machine whose BARs wrap the windows.
