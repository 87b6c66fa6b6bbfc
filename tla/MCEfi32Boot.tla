----------------------------- MODULE MCEfi32Boot -----------------------------
(***************************************************************************)
(* Memory maps for Efi32Boot: of different lengths, one of them beyond the *)
(* entries the multiboot map holds and one beyond the buffer.              *)
(***************************************************************************)
EXTENDS Efi32Boot

Desc(t, s, n) == [type |-> t, start |-> s, pages |-> n]

Short == <<Desc("EfiConventionalMemory", 0, 160), Desc("EfiACPIReclaimMemory", 160, 8)>>
Split == <<Desc("EfiConventionalMemory", 0, 100), Desc("EfiRuntimeServicesData", 100, 60),
           Desc("EfiLoaderCode", 160, 900)>>
Long  == Split \o <<Desc("EfiACPIMemoryNVS", 1060, 4)>>
Huge  == Long \o <<Desc("EfiConventionalMemory", 1064, 500)>>

AllMaps == {Short, Split, Long, Huge}
=============================================================================
