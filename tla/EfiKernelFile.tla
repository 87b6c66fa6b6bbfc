---------------------------- MODULE EfiKernelFile ----------------------------
(***************************************************************************)
(* read_kernel_file() and try_open_file_on_fs() of the UEFI loaders: the   *)
(* kernel is looked for on the volume the loader came from, on the volume  *)
(* LocateProtocol names and on all volumes, on each one by well-known      *)
(* paths and then in the list of the root directory.                       *)
(*                                                                         *)
(* Volumes, handles and the boot services are the firmware's, outside the  *)
(* program: any call on a volume may fail, at any time.  A volume is       *)
(* [paths, dir, size]: the well-known paths (by number) that exist on it,  *)
(* its root directory, a sequence of "kernel" (a name that matches),       *)
(* "other" and "long" (an entry of more than 512 bytes), and the size of   *)
(* its kernel file.                                                        *)
(***************************************************************************)
EXTENDS Naturals, SequencesExt

CONSTANTS
    Paths,     \* well-known paths (8)
    MaxSize,   \* max_size: room in dest_buf (4 MB)
    Systems    \* [volume, boot, located, handles, ...]; volume 0 is none

ASSUME KernelFileAssumption ==
    /\ Paths \in Nat /\ MaxSize \in Nat
    /\ \A s \in Systems :
          /\ \A v \in DOMAIN s.volume :
                /\ s.volume[v].paths \subseteq 1 .. Paths /\ s.volume[v].size \in Nat
                /\ s.volume[v].dir \in Seq({"kernel", "other", "long"})
          /\ {s.boot, s.located} \subseteq DOMAIN s.volume \cup {0}
          /\ s.handles \in Seq(DOMAIN s.volume)

VARIABLES
    sys,      \* the firmware's volumes and handles
    kpc,      \* "image", "locate", "handles", "each", "volume", "paths",
              \* "listing", "openListed", "read", "found", "notFound"
    via,      \* which of its three searches called: "image", "locate", "each"
    h,        \* handles[h - 1] is tried
    vol,      \* the volume try_open_file_on_fs() works on
    p, pos,   \* path tried, directory entry read next
    root, file,  \* are root and file open?
    pool,     \* is the buffer of handles allocated?
    dest,     \* dest_buf: <<volume, k>> for the k-th part of its file
    out,      \* *out_size
    failed    \* history: volumes a call failed on

search == <<kpc, via, h, vol, p, pos>>
files == <<root, file, pool>>
fileVars == <<sys, search, files, dest, out, failed>>

FileInit ==
    /\ sys \in Systems
    /\ kpc = "image" /\ via = "image"
    /\ h = 0 /\ vol = 0 /\ p = 0 /\ pos = 0
    /\ root = FALSE /\ file = FALSE /\ pool = FALSE
    /\ dest = [k \in 1 .. MaxSize |-> <<0, 0>>] /\ out = 0
    /\ failed = {}

-----------------------------------------------------------------------------
(* read_kernel_file                                                        *)

TryVolume(v, by) == kpc' = "volume" /\ vol' = v /\ via' = by

\* The loader's own device, if it has a file system.
AskImage ==
    /\ kpc = "image"
    /\ IF sys.boot # 0 THEN TryVolume(sys.boot, "image")
       ELSE kpc' = "locate" /\ UNCHANGED <<vol, via>>
    /\ UNCHANGED <<sys, h, p, pos, files, dest, out, failed>>

AskLocate ==
    /\ kpc = "locate"
    /\ IF sys.located # 0 THEN TryVolume(sys.located, "locate")
       ELSE kpc' = "handles" /\ UNCHANGED <<vol, via>>
    /\ UNCHANGED <<sys, h, p, pos, files, dest, out, failed>>

AskHandles ==
    /\ kpc = "handles"
    /\ IF sys.handles # <<>> THEN kpc' = "each" /\ h' = 1 /\ pool' = TRUE
       ELSE kpc' = "notFound" /\ UNCHANGED <<h, pool>>
    /\ UNCHANGED <<sys, via, vol, p, pos, root, file, dest, out, failed>>

TryHandle ==
    /\ kpc = "each" /\ h <= Len(sys.handles)
    /\ TryVolume(sys.handles[h], "each")
    /\ UNCHANGED <<sys, h, p, pos, files, dest, out, failed>>

AllHandlesTried ==
    /\ kpc = "each" /\ h > Len(sys.handles)
    /\ kpc' = "notFound"
    /\ pool' = FALSE
    /\ UNCHANGED <<sys, via, h, vol, p, pos, root, file, dest, out, failed>>

\* try_open_file_on_fs() returned an error: what is tried next.
NextSearch_Stop ==
    /\ kpc' = IF via = "image" THEN "locate" ELSE "notFound"
    /\ UNCHANGED <<via, h, vol>>
NextSearch ==
    /\ kpc' = [image |-> "locate", locate |-> "handles", each |-> "each"][via]
    /\ h' = IF via = "each" THEN h + 1 ELSE h
    /\ UNCHANGED <<via, vol>>

-----------------------------------------------------------------------------
(* try_open_file_on_fs                                                     *)

V == sys.volume[vol]
CallFails == failed' = failed \cup {vol}

OpenVolume ==
    /\ kpc = "volume"
    /\ \/ kpc' = "paths" /\ p' = 1 /\ root' = TRUE /\ UNCHANGED <<via, h, vol, failed>>
       \/ CallFails /\ NextSearch /\ UNCHANGED <<p, root>>
    /\ UNCHANGED <<sys, pos, file, pool, dest, out>>

OpenPath ==
    /\ kpc = "paths" /\ p <= Paths
    /\ \/ p \in V.paths /\ file' = TRUE /\ kpc' = "read" /\ UNCHANGED <<p, failed>>
       \/ p \in V.paths /\ CallFails /\ p' = p + 1 /\ UNCHANGED <<kpc, file>>
       \/ p \notin V.paths /\ p' = p + 1 /\ UNCHANGED <<kpc, file, failed>>
    /\ UNCHANGED <<sys, via, h, vol, pos, root, pool, dest, out>>

\* SetPosition(root, 0): the list of the root directory from its beginning.
BeginListing ==
    /\ kpc = "paths" /\ p > Paths
    /\ kpc' = "listing" /\ pos' = 1
    /\ UNCHANGED <<sys, via, h, vol, p, files, dest, out, failed>>

\* The next entry; one longer than the buffer is an error like any other.
ReadEntry ==
    /\ kpc = "listing" /\ pos <= Len(V.dir) /\ V.dir[pos] # "long"
    /\ pos' = pos + 1
    /\ kpc' = IF V.dir[pos] = "kernel" THEN "openListed" ELSE "listing"
    /\ UNCHANGED <<sys, via, h, vol, p, files, dest, out, failed>>

OpenListed ==
    /\ kpc = "openListed"
    /\ \/ file' = TRUE /\ kpc' = "read" /\ UNCHANGED failed
       \/ CallFails /\ kpc' = "listing" /\ UNCHANGED file
    /\ UNCHANGED <<sys, via, h, vol, p, pos, root, pool, dest, out>>

\* The list has ended, with or without an error: EFI_NOT_FOUND.
EndListing_RootOpen ==
    /\ kpc = "listing"
    /\ \/ (pos <= Len(V.dir) => V.dir[pos] = "long") /\ UNCHANGED failed
       \/ CallFails
    /\ NextSearch
    /\ UNCHANGED <<sys, p, pos, root, file, pool, dest, out>>
EndListing ==
    /\ kpc = "listing"
    /\ \/ (pos <= Len(V.dir) => V.dir[pos] = "long") /\ UNCHANGED failed
       \/ CallFails
    /\ root' = FALSE
    /\ NextSearch
    /\ UNCHANGED <<sys, p, pos, file, pool, dest, out>>

\* The first n parts of the file are in the buffer.
Filled(n) == [k \in 1 .. MaxSize |-> IF k <= n THEN <<vol, k>> ELSE dest[k]]
Room == IF V.size < MaxSize THEN V.size ELSE MaxSize

\* The file is read, cut at the size of the buffer; everything is closed.
ReadFile ==
    /\ kpc = "read"
    /\ dest' = Filled(Room)
    /\ out' = Room
    /\ root' = FALSE /\ file' = FALSE
    /\ pool' = FALSE
    /\ kpc' = "found"
    /\ UNCHANGED <<sys, via, h, vol, p, pos, failed>>

\* Reading fails, after some of it has come in.
ReadFileFails_Ignored ==
    /\ kpc = "read"
    /\ \E n \in 0 .. Room : dest' = Filled(n)
    /\ out' = Room
    /\ root' = FALSE /\ file' = FALSE /\ pool' = FALSE
    /\ kpc' = "found" /\ CallFails
    /\ UNCHANGED <<sys, via, h, vol, p, pos>>
ReadFileFails ==
    /\ kpc = "read"
    /\ \E n \in 0 .. Room : dest' = Filled(n)
    /\ root' = FALSE /\ file' = FALSE
    /\ CallFails /\ NextSearch
    /\ UNCHANGED <<sys, p, pos, pool, out>>

FileNext ==
    \/ AskImage \/ AskLocate \/ AskHandles \/ TryHandle \/ AllHandlesTried
    \/ OpenVolume \/ OpenPath \/ BeginListing \/ ReadEntry \/ OpenListed \/ EndListing
    \/ ReadFile \/ ReadFileFails

-----------------------------------------------------------------------------
(* Properties                                                              *)

Order ==
    (IF sys.boot = 0 THEN <<>> ELSE <<sys.boot>>)
    \o (IF sys.located = 0 THEN <<>> ELSE <<sys.located>>) \o sys.handles

\* A volume the code can find the kernel on: by a path, or in front of any
\* over-long entry of its directory.
Offers(v) ==
    LET d == sys.volume[v].dir
    IN  \/ sys.volume[v].paths # {}
        \/ \E i \in DOMAIN d : d[i] = "kernel" /\ \A j \in 1 .. i : d[j] # "long"

\* The kernel comes whole (up to the buffer's size) from one volume, whatever
\* earlier, failed reads left in the buffer, and this volume is the first one
\* in the order of the search that offers it and on which no call failed.
KernelIsFirstOffer ==
    kpc = "found" =>
        /\ out = Room
        /\ \A k \in 1 .. out : dest[k] = <<vol, k>>
        /\ \E n \in DOMAIN Order :
              Order[n] = vol /\ \A m \in 1 .. n - 1 : Offers(Order[m]) => Order[m] \in failed

\* The search ends without the kernel only when every volume of the machine
\* either lacks it or failed.
NotFoundJustified ==
    kpc = "notFound" => \A n \in DOMAIN Order : Offers(Order[n]) => Order[n] \in failed

\* Whatever failed, nothing stays open or allocated behind the search.
NothingLeftOpen == kpc \in {"found", "notFound"} => ~root /\ ~file /\ ~pool
=============================================================================
