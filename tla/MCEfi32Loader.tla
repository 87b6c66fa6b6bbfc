---------------------------- MODULE MCEfi32Loader ----------------------------
(***************************************************************************)
(* Machines for Efi32Loader.  For the search, machines of two volumes:     *)
(* with the kernel under a path, in the directory (before or behind other  *)
(* entries), or nowhere; of size zero, one, and beyond the buffer; the     *)
(* ways the volumes are named.  For elf32_load(), a machine of one volume  *)
(* with many kernels.                                                      *)
(***************************************************************************)
EXTENDS Efi32Loader, MCEfi32Boot, MCElfLoad

Vol(ps, d, s) == [paths |-> ps, dir |-> d, size |-> s]

Contents ==
    {Vol({}, <<>>, 0), Vol({2}, <<"kernel">>, 1), Vol({1, 2}, <<>>, 3), Vol({1}, <<>>, 0),
     Vol({}, <<"other", "kernel">>, 2), Vol({}, <<"long", "kernel">>, 2),
     Vol({}, <<"kernel", "kernel">>, 3)}

Named(b, l, hs) == [boot |-> b, located |-> l, handles |-> hs]
Namings ==
    {Named(1, 1, <<1, 2>>), Named(2, 1, <<1, 2>>), Named(0, 0, <<>>), Named(0, 0, <<2, 1>>),
     Named(0, 2, <<2>>)}

Machine(vs, n, ks) ==
    [volume |-> vs, boot |-> n.boot, located |-> n.located, handles |-> n.handles,
     kernels |-> ks]

\* Segments below, up to, inside and above the staging buffer, of the file's
\* contents, past its end, or none; with and without a BSS.
Shape(o, f, m) == [type |-> "PT_LOAD", offset |-> o, paddr |-> 0, filesz |-> f, memsz |-> m]
Shapes == {Shape(3, 2, 2), Shape(3, 2, 4), Shape(3, 0, 2), Shape(5, 2, 4)}
LoaderPhdrs ==
    {[s EXCEPT !.paddr = a] : s \in Shapes, a \in {1, 4, 9, 14}}
    \cup {[NullPhdr EXCEPT !.paddr = 9, !.filesz = 2]}
Few == {<<a>> : a \in LoaderPhdrs}
LoaderKernels ==
    {Kernel(TRUE, 1, <<a, b>>) : a, b \in LoaderPhdrs}
    \cup {Kernel(id, off, ps) : id \in BOOLEAN, off \in {0, 1, 5}, ps \in Few}
    \cup {Kernel(TRUE, 1, <<>>)}

TwoVolumes ==
    {Machine(<<a, b>>, n, {Kernel(TRUE, 1, <<>>)}) :
        a \in Contents, b \in Contents, n \in Namings}
AnyKernel == Machine(<<Vol({1}, <<>>, 1)>>, Named(1, 0, <<>>), LoaderKernels)

LoaderSystems == TwoVolumes \cup {AnyKernel}
LoaderMaps == {Short, Long, Huge}
=============================================================================
