---------------------------- MODULE MCEfi64Loader ----------------------------
(***************************************************************************)
(* Memory maps and machines for Efi64Loader: a map that fits the multiboot *)
(* map, one that only fits the buffer, one that fits neither.              *)
(***************************************************************************)
EXTENDS Efi64Loader, MCEfi64Boot, MCPciRemap

LoaderMaps == {Short, Long, Huge}
=============================================================================
