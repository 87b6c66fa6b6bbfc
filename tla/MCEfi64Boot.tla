----------------------------- MODULE MCEfi64Boot -----------------------------
(***************************************************************************)
(* Memory maps for Efi64Boot: of different lengths, the longest one beyond *)
(* the entries the multiboot map holds, or beyond the buffer.              *)
(***************************************************************************)
EXTENDS Efi64Boot

Desc(t, s, n) == [type |-> t, start |-> s, pages |-> n]

Short == <<Desc("EfiConventionalMemory", 0, 160), Desc("EfiACPIReclaimMemory", 160, 8)>>
Split == <<Desc("EfiConventionalMemory", 0, 100), Desc("EfiRuntimeServicesData", 100, 60),
           Desc("EfiLoaderCode", 160, 900)>>
Long  == Split \o <<Desc("EfiACPIMemoryNVS", 1060, 4)>>
Huge  == Long \o <<Desc("EfiConventionalMemory", 1064, 500)>>

FittingMaps == {Short, Split, Long}
AllMaps == FittingMaps \cup {Huge}
=============================================================================
