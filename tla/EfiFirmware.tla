----------------------------- MODULE EfiFirmware -----------------------------
(***************************************************************************)
(* The UEFI boot services the two loaders depend on (outside the program), *)
(* and what both loaders do with a memory map: convert_memory_map() and    *)
(* the buffer GetMemoryMap fills.                                          *)
(*                                                                         *)
(* A memory descriptor is [type, start, pages].  The map changes with      *)
(* every allocation and whenever an event runs; its key changes with it.   *)
(* Of the two keys, the map's and the loader's, only whether they are the  *)
(* same matters, so there is no bound on the changes.                      *)
(***************************************************************************)
EXTENDS Naturals, Sequences, FiniteSetsExt

CONSTANTS
    Maps,        \* memory maps the firmware may have
    BufDescs,    \* descriptors that fit uefi_mmap_buf
    MmapEntries, \* entries convert_memory_map() stores at most (120)
    Blank        \* a descriptor nothing was written to (zeroes)

\* 120 descriptors of 48 bytes fit the 16 KB and 64 KB buffers.
ASSUME FirmwareAssumption ==
    /\ BufDescs \in Nat
    /\ MmapEntries \in 0 .. BufDescs
    /\ \A m \in Maps : m \in Seq([type : STRING, start : Nat, pages : Nat])

VARIABLES
    active,   \* are boot services active?
    map,      \* the firmware's memory map
    keyFresh, \* is map_key the key of that map?
    buf,      \* uefi_mmap_buf
    num       \* mmap_size, in descriptors

fwVars == <<active, map, keyFresh>>
bufVars == <<buf, num>>

FirmwareInit ==
    /\ active = TRUE
    /\ map \in Maps
    /\ keyFresh = FALSE
    /\ buf = [i \in 1 .. BufDescs |-> Blank]
    /\ num = BufDescs

Fits(m) == Len(m) <= BufDescs

\* The map changes: the loader allocated, or an event ran.
NewMap ==
    /\ active
    /\ map' \in Maps
    /\ keyFresh' = FALSE
    /\ UNCHANGED active

\* GetMemoryMap succeeds: the map is in the front of the buffer.
MapDelivered ==
    /\ active /\ Fits(map)
    /\ buf' = [i \in 1 .. BufDescs |-> IF i <= Len(map) THEN map[i] ELSE buf[i]]
    /\ num' = Len(map)
    /\ keyFresh' = TRUE

\* EFI_BUFFER_TOO_SMALL: only mmap_size is set, to the size needed.
MapTooLarge ==
    /\ active /\ ~Fits(map)
    /\ num' = Len(map)
    /\ UNCHANGED <<buf, keyFresh>>

\* ExitBootServices succeeds for the key of the current map only.
ExitAccepted == active /\ keyFresh
ExitRefused  == active /\ ~keyFresh

-----------------------------------------------------------------------------
(* convert_memory_map                                                      *)

AvailableTypes ==
    {"EfiLoaderCode", "EfiLoaderData", "EfiBootServicesCode",
     "EfiBootServicesData", "EfiConventionalMemory"}

MultibootType(type) ==
    CASE type \in AvailableTypes -> "AVAILABLE"
      [] type = "EfiACPIReclaimMemory" -> "ACPI_RECLAIMABLE"
      [] type = "EfiACPIMemoryNVS" -> "NVS"
      [] OTHER -> "RESERVED"

\* All fields zero: EfiReservedMemoryType, no pages.
DescOf(d) == IF d = Blank THEN [type |-> "EfiReservedMemoryType", start |-> 0, pages |-> 0]
             ELSE d

Stored(n) == IF n < MmapEntries THEN n ELSE MmapEntries

\* The multiboot map of the first n descriptors in b.
Entries(b, n) ==
    [i \in 1 .. Stored(n) |->
        LET d == DescOf(b[i])
        IN  [addr |-> d.start, len |-> d.pages, type |-> MultibootType(d.type)]]

\* mem_upper in KB: the available pages of 4 KB that were stored, less 1 MB.
MemUpper(entries) ==
    LET available == {i \in DOMAIN entries : entries[i].type = "AVAILABLE"}
        kb == 4 * MapThenSumSet(LAMBDA i : entries[i].len, available)
    IN  IF kb > 1024 THEN kb - 1024 ELSE 127 * 1024

ConvertMemoryMap(b, n) == [mmap |-> Entries(b, n), mem_upper |-> MemUpper(Entries(b, n))]

\* What the kernel should be told about map m.
ReportOf(m) == ConvertMemoryMap(m, Len(m))
=============================================================================
