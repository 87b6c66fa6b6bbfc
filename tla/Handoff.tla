------------------------------- MODULE Handoff -------------------------------
(***************************************************************************)
(* What a UEFI loader owes the kernel: it is entered only when the         *)
(* firmware has given up the machine, and the memory map it is told is     *)
(* that of the firmware's last map, the one boot services ended with.  A   *)
(* loader that MayGiveUp may instead abandon this duty while boot services *)
(* are active; what becomes of the kernel then is not specified.           *)
(***************************************************************************)
CONSTANTS
    Maps,       \* memory maps the firmware may have
    Report(_),  \* what the kernel is told about a map
    Nothing,    \* the kernel was told nothing yet
    MayGiveUp   \* may the loader stop trying to end boot services?

VARIABLES
    stage,  \* "loader", "kernel", "halted" or "abandoned"
    active, \* are boot services active?
    map,    \* the firmware's memory map
    told    \* what the kernel was told

vars == <<stage, active, map, told>>

Init ==
    /\ stage = "loader"
    /\ active = TRUE
    /\ map \in Maps
    /\ told = Nothing

\* Firmware, allocations and events change the map while services are active.
MapChanges ==
    /\ active
    /\ map' \in Maps
    /\ UNCHANGED <<stage, active, told>>

EndServices ==
    /\ stage = "loader" /\ active
    /\ active' = FALSE
    /\ UNCHANGED <<stage, map, told>>

EnterKernel ==
    /\ stage = "loader" /\ ~active
    /\ stage' = "kernel"
    /\ told' = Report(map)
    /\ UNCHANGED <<active, map>>

Halt ==
    /\ stage = "loader" /\ active
    /\ stage' = "halted"
    /\ map' \in Maps
    /\ UNCHANGED <<active, told>>

GiveUp ==
    /\ MayGiveUp
    /\ stage = "loader" /\ active
    /\ stage' = "abandoned"
    /\ UNCHANGED <<active, map, told>>

Next == MapChanges \/ EndServices \/ EnterKernel \/ Halt \/ GiveUp

Spec == Init /\ [][Next]_vars
=============================================================================
