------------------------------ MODULE MCElfLoad ------------------------------
(***************************************************************************)
(* Every kernel with two program headers of a few shapes, below, across,   *)
(* inside and above the staging buffer, well-formed or not.                *)
(***************************************************************************)
EXTENDS ElfLoad

\* Program headers: contents at offset 3, 4 or past the end of the file; with
\* and without a BSS; a header of another type.
MCPhdrs ==
    {p \in [type : {"PT_LOAD"}, offset : {3, 5}, paddr : {1, 4, 7, 9, 13},
            filesz : {0, 2}, memsz : {0, 2, 4}] : p.memsz >= p.filesz}
    \cup {[NullPhdr EXCEPT !.paddr = 9, !.filesz = 2]}

Kernel(ident, phoff, phdrs) ==
    [ident |-> ident, size |-> 6, entry |-> 1, phoff |-> phoff, phdrs |-> phdrs]

Pairs == {<<p, q>> : p, q \in MCPhdrs}

MCKernels ==
    {Kernel(TRUE, 1, ps) : ps \in Pairs}
    \cup {Kernel(id, off, ps) : id \in BOOLEAN, off \in {0, 5}, ps \in Pairs}
    \cup {Kernel(TRUE, 1, <<>>)}

\* What data bytes may look like when they are taken for a header.
MCForeignPhdrs == {[type |-> "PT_LOAD", offset |-> 3, paddr |-> 12, filesz |-> 1, memsz |-> 2]}
MCForeignEhdrs == {[phnum |-> 1, phoff |-> 2, entry |-> 0],
                   [phnum |-> 2, phoff |-> 9, entry |-> 7]}

MCKernelSpace == 3 .. 17
=============================================================================
