------------------------------ MODULE MCPciRemap ------------------------------
(***************************************************************************)
(* Machines for PciRemap, in units of 1 MB: two slots of three functions.  *)
(* The slots hold a graphics card with its frame buffer, a device with     *)
(* several functions and a gap between them, BARs of all kinds, and BARs   *)
(* above 4 GB of sizes from 1 MB to 512 MB.                                *)
(***************************************************************************)
EXTENDS PciRemap, Sequences, TLC

\* The registers of one BAR: kind, size and address.
None == <<[kind |-> "none", size |-> 0, addr |-> 0]>>
Io == <<[kind |-> "io", size |-> 0, addr |-> 0]>>
Mem32(s, a) == <<[kind |-> "mem32", size |-> s, addr |-> a]>>
Mem64(s, a) == <<[kind |-> "low64", size |-> s, addr |-> a % Space],
                 [kind |-> "high64", size |-> 0, addr |-> a \div Space]>>

GB == 1024
Card(s)  == Mem64(s, 8 * GB) \o Mem32(16, 3600) \o Io \o None \o None
Small    == Io \o Mem32(1, 3700) \o None \o None \o Mem64(1, 12 * GB)
Pair(s)  == Mem64(16, 16 * GB) \o Mem64(s, 20 * GB) \o None \o None
Low      == Mem64(4, 3800) \o Mem32(2, 3810) \o Mem64(64, 24 * GB) \o None
Far      == Mem64(256, 12 * GB - 256) \o Mem64(256, 8 * GB + 3328) \o None \o None
Nothing6 == None \o None \o None \o None \o None \o None

\* t maps functions to their six registers.
Machine(t, multi, fb, off) ==
    LET of(r) == IF <<r[1], r[2]>> \in DOMAIN t THEN t[<<r[1], r[2]>>] ELSE Nothing6
    IN  [kind |-> [r \in Registers |-> of(r)[r[3] + 1].kind],
         size |-> [r \in Registers |-> of(r)[r[3] + 1].size],
         addr |-> [r \in Registers |-> of(r)[r[3] + 1].addr],
         decode |-> [f \in Functions |-> f \in DOMAIN t \ off],
         present |-> DOMAIN t, multi |-> multi, fb |-> fb]

\* Frame buffers: none, within the first card, within a BAR that stays.
Fbs == {0, 8 * GB + 8, 3602}

OneCard == {Machine(<<0, 0>> :> Card(s), {}, fb, {}) : s \in {16, 256, 512}, fb \in Fbs}
TwoSlots ==
    {Machine((<<0, 0>> :> Card(s)) @@ (<<1, 0>> :> Pair(s2)), multi, fb, {}) :
        s \in {1, 256}, s2 \in {1, 512}, multi \in {{}, {0, 1}}, fb \in Fbs}
ManyFunctions ==
    {Machine((<<1, 0>> :> Small) @@ (<<1, 1>> :> Low) @@ (<<1, 2>> :> Pair(s)), {1}, 0, off) :
        s \in {16, 256}, off \in {{}, {<<1, 1>>}}}
    \cup {Machine((<<0, 0>> :> Low) @@ (<<0, 2>> :> Card(s)), {0}, 8 * GB + 8, {}) : s \in {16, 512}}

\* The BARs of the second device lie where the card's first one is between the
\* accesses that move it: at all ones, and at its new low half below the old
\* high one.
HalfWritten == {Machine((<<0, 0>> :> Card(256)) @@ (<<1, 0>> :> Far), {}, fb, {}) : fb \in Fbs}

GoodMachines == OneCard \cup TwoSlots \cup ManyFunctions \cup HalfWritten

\* They are machines the theorems speak of.
ASSUME GoodMachinesFit == \A t \in GoodMachines : Uncrowded(t) /\ Enumerated(t)

\* A card whose BAR of 256 MB lies where firmware puts 32-bit BARs, at
\* 0xD0000000, beside one above 4 GB.
CrowdedMachines ==
    {Machine((<<0, 0>> :> Card(16)) @@ (<<1, 0>> :> Mem32(256, 3328) \o None \o None \o Mem64(16, 16 * GB) \o None),
             {}, 0, {})}
=============================================================================
