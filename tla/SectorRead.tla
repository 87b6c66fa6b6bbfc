----------------------------- MODULE SectorRead -----------------------------
(***************************************************************************)
(* What fat_read_sectors() promises its callers (fat.h declares it, the    *)
(* BIOS loader supplies it as bios_read_sectors): a blocking call that     *)
(* fills the caller's buffer with consecutive sectors, first one first.    *)
(* It answers "ok" only when the whole request has been delivered; it may  *)
(* answer "err" at any time, leaving a prefix behind.                      *)
(*                                                                         *)
(* The content of a sector is represented by its LBA.                      *)
(***************************************************************************)
EXTENDS Naturals

CONSTANTS
    Lbas,       \* LBAs a caller may start a request at
    Counts,     \* numbers of sectors a caller may request
    BufSectors, \* capacity of the caller's buffer, in sectors
    NoData      \* content of a buffer cell nothing was written to

VARIABLES
    phase,      \* "idle", "busy" (inside the call) or "done" (returning)
    req,        \* [lba, count] of the current request
    delivered,  \* sectors delivered so far
    buffer,     \* the caller's buffer, one cell per sector
    ret         \* the answer: "none", "ok" or "err"

vars == <<phase, req, delivered, buffer, ret>>

EmptyBuffer == [i \in 0 .. BufSectors - 1 |-> NoData]

\* A buffer whose first n cells hold sectors l, l+1, ... and no other data.
Prefix(l, n) == [i \in 0 .. BufSectors - 1 |-> IF i < n THEN l + i ELSE NoData]

Init ==
    /\ phase = "idle"
    /\ req = [lba |-> 0, count |-> 0]
    /\ delivered = 0
    /\ buffer = EmptyBuffer
    /\ ret = "none"

Call ==
    /\ phase = "idle"
    /\ \E l \in Lbas, n \in Counts : req' = [lba |-> l, count |-> n]
    /\ phase' = "busy"
    /\ delivered' = 0
    /\ buffer' = EmptyBuffer
    /\ ret' = "none"

Deliver ==
    /\ phase = "busy"
    /\ \E n \in delivered + 1 .. req.count :
          /\ delivered' = n
          /\ buffer' = Prefix(req.lba, n)
    /\ UNCHANGED <<phase, req, ret>>

Succeed ==
    /\ phase = "busy"
    /\ delivered = req.count
    /\ phase' = "done"
    /\ ret' = "ok"
    /\ UNCHANGED <<req, delivered, buffer>>

Fail ==
    /\ phase = "busy"
    /\ delivered < req.count
    /\ phase' = "done"
    /\ ret' = "err"
    /\ UNCHANGED <<req, delivered, buffer>>

Resume ==
    /\ phase = "done"
    /\ phase' = "idle"
    /\ UNCHANGED <<req, delivered, buffer, ret>>

Next == Call \/ Deliver \/ Succeed \/ Fail \/ Resume

Spec == Init /\ [][Next]_vars /\ WF_vars(Succeed \/ Fail \/ Resume)
=============================================================================
