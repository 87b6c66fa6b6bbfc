------------------------------ MODULE DiskImage ------------------------------
(***************************************************************************)
(* The FAT reader at work: bios_loader_main() mounts a volume, looks for   *)
(* the kernel (a second time if the first look-up fails) and reads it.     *)
(* The disk is an image that mkdisk builds first (MkDisk), or any disk the *)
(* loader may meet; any read may fail.  FatFind and FatRead are the two    *)
(* functions the loader calls, with the local variables of each.           *)
(***************************************************************************)
EXTENDS FatRead, MkDisk

CONSTANTS
    FindVolumes, \* disks the loader is started on
    ReadVolumes, \* disks whose root directory has been searched already
    NoEntry, NoVolume

VARIABLES
    phase,    \* "build", "mount", "find", "read", "loaded", "halt"
    searches, \* calls of fat_find_file so far
    fpc, fcur, fsec, found, fret, fioError       \* fat_find_file

building == mkvars
finding == <<fpc, fcur, fsec, found, fret, fioError>>
reading == <<first, file_size, pc, cur, s, remaining, pos, dest, ret, walk, ioError>>
loadervars == <<vol, phase, searches, building, finding, reading>>

Find == INSTANCE FatFind WITH
    pc <- fpc, cur <- fcur, s <- fsec, ret <- fret, ioError <- fioError

\* An entry that names the file looked for says where and how long it is.
HasFiles(v) == \A e \in v.files : e.first \in Nat /\ e.size \in FileSizes

ASSUME DiskImageAssumption ==
    /\ \A v \in FindVolumes : Find!Searchable(v) /\ v.files # {} /\ HasFiles(v)
    /\ \A sz \in HostSizes : sz["GEMIOS.ELF"] \in FileSizes

-----------------------------------------------------------------------------
\* fat_read_file has not been called.
ReadIdle ==
    /\ first = 0 /\ file_size = 0 /\ pc = "idle" /\ cur = 0 /\ s = 0
    /\ remaining = 0 /\ pos = 0 /\ dest = [i \in DestIdx |-> NoData]
    /\ ret = "none" /\ walk = <<>> /\ ioError = FALSE
FindIdle ==
    /\ fpc = "idle" /\ fcur = 0 /\ fsec = 0 /\ found = NoEntry
    /\ fret = "none" /\ fioError = FALSE

\* mkdisk plays no part.
NoBuild == size = CHOOSE sz \in HostSizes : TRUE

LoaderInit ==
    /\ MkInit
    /\ searches = 0
    /\ FindIdle
    /\ \/ phase = "build" /\ vol = NoVolume /\ ReadIdle
       \/ phase = "mount" /\ vol \in FindVolumes /\ ReadIdle /\ NoBuild
       \/ phase = "read" /\ vol \in ReadVolumes /\ Init /\ NoBuild

-----------------------------------------------------------------------------
(* The image as the reader will see it                                     *)

\* One entry of a directory sector, as fat_find_file tells entries apart.
EntryClass(x) ==
    IF "name" \in DOMAIN x /\ x.name = "GEMIOS.ELF" THEN "match" ELSE "other"

ImageVolume ==
    LET part == disk[0][446].start
        bpb == disk[part][0]
        img == FatInit(bpb, part)
        data == {l \in DOMAIN disk : l >= img.data_sec}
    IN  [bpb |-> bpb, part |-> part,
         table |-> [c \in 0 .. next - 1 |-> disk[FatSector(img, c)][FatOffset(img, c)].fat],
         dir |-> [l \in data |-> [e \in 0 .. EntriesPerSector - 1 |->
                    IF e * DIR_ENTRY_SIZE \in DOMAIN disk[l]
                    THEN EntryClass(disk[l][e * DIR_ENTRY_SIZE]) ELSE "end"]],
         files |-> {x \in UNION {{disk[l][off] : off \in DOMAIN disk[l]} : l \in data} :
                       EntryClass(x) = "match"}]

Build ==
    /\ phase = "build"
    /\ MkNext
    /\ UNCHANGED <<vol, phase, searches, finding, reading>>

\* The machine is started with the finished image.
BootImage ==
    /\ phase = "build" /\ status = "ok"
    /\ vol' = ImageVolume
    /\ phase' = "mount"
    /\ UNCHANGED <<searches, building, finding, reading>>

-----------------------------------------------------------------------------
(* bios_loader_main                                                        *)

\* fat_find_file is called.
StartFind ==
    /\ phase' = "find"
    /\ searches' = searches + 1
    /\ Find!Call

\* fat_init reads the boot sector.
Mount ==
    /\ phase = "mount"
    /\ FatAccepts(vol.bpb)
    /\ StartFind
    /\ UNCHANGED <<building, reading>>

MountFails ==
    /\ phase = "mount"
    /\ phase' = "halt"
    /\ UNCHANGED <<vol, searches, building, finding, reading>>

FindStep ==
    /\ phase = "find"
    /\ Find!Next
    /\ UNCHANGED <<phase, searches, building, reading>>

\* The name is looked for again in capitals, which is the same 8.3 name.
FindAgain ==
    /\ phase = "find" /\ fpc = "done" /\ fret = "err" /\ searches < 2
    /\ StartFind
    /\ UNCHANGED <<building, reading>>

NotFound_Either ==
    /\ phase = "find" /\ fpc = "done" /\ fret = "err"
    /\ phase' = "halt"
    /\ UNCHANGED <<vol, searches, building, finding, reading>>
NotFound ==
    /\ phase = "find" /\ fpc = "done" /\ fret = "err" /\ searches = 2
    /\ phase' = "halt"
    /\ UNCHANGED <<vol, searches, building, finding, reading>>

\* fat_read_file is called with the first cluster and size of the entry found.
StartRead ==
    /\ phase = "find" /\ fpc = "done" /\ fret = "ok"
    /\ phase' = "read"
    /\ \E e \in vol.files : first' = e.first /\ file_size' = e.size
    /\ pc' = "loop" /\ cur' = first' /\ s' = 0 /\ remaining' = file_size' /\ pos' = 0
    /\ dest' = [i \in DestIdx |-> NoData]
    /\ ret' = "none" /\ walk' = <<>> /\ ioError' = FALSE
    /\ UNCHANGED <<vol, searches, building, finding>>

ReadStep ==
    /\ phase = "read"
    /\ Next
    /\ UNCHANGED <<phase, searches, building, finding>>

ReadReturns ==
    /\ phase = "read" /\ pc = "done"
    /\ phase' = IF ret = "ok" THEN "loaded" ELSE "halt"
    /\ UNCHANGED <<vol, searches, building, finding, reading>>

-----------------------------------------------------------------------------
Running ==
    \/ Mount \/ MountFails
    \/ FindStep \/ FindAgain \/ NotFound
    \/ StartRead \/ ReadStep \/ ReadReturns

LoaderNext == Build \/ BootImage \/ Running

\* The loader is straight-line code: it keeps executing.  Nothing makes anyone
\* build an image or start a machine with it.
LoaderSpec == LoaderInit /\ [][LoaderNext]_loadervars /\ WF_loadervars(Running)

-----------------------------------------------------------------------------
(* Properties                                                              *)

\* fat_find_file answers with the entry that has the name, and "not found" only
\* when there is none: see FatFind.
SearchIsRight == Find!FoundIsTheEntry /\ Find!NotFoundIsAbsent

\* From an image that mkdisk built the loader reads the very kernel it was
\* built from: the geometry, the FAT and the directory that mkdisk writes are
\* those that fat.c computes and walks.  It halts only if a read fails: of
\* the boot sector, of the file, or one in each of the two searches.
KernelIsReadBack ==
    status = "ok" =>
       /\ phase = "loaded" =>
             /\ file_size = size["GEMIOS.ELF"]
             /\ \A i \in 0 .. file_size - 1 :
                   /\ Holds(dest[i][1], "GEMIOS.ELF", i \div SECTOR_SIZE)
                   /\ dest[i][2] = i % SECTOR_SIZE
       /\ phase = "halt" => searches = 0 \/ ioError \/ (fioError /\ searches = 2)

\* Once mounted, a volume whose root directory has an end leads to a loaded
\* kernel or a halt, and so does every file, on cyclic chains too.  (A cyclic
\* root without an end mark is scanned for ever.)
LoaderEnds ==
    (phase = "read" \/ (phase = "find" /\ Find!RootEnds)) ~> (phase \in {"loaded", "halt"})
=============================================================================
