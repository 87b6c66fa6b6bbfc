------------------------------- MODULE PciRemap -------------------------------
(***************************************************************************)
(* pci_remap_above_4g_bars() of the 64-bit UEFI loader: it walks the PCI   *)
(* configuration space and moves every 64-bit memory BAR that lies above   *)
(* 4 GB into windows taken downwards from 0xE0000000.  A step is one       *)
(* access to a device, so that what a device decodes between two of them   *)
(* is seen.                                                                *)
(*                                                                         *)
(* A BAR register is <<slot, func, bar>>; the slots of all busses are      *)
(* numbered through.  Addresses and sizes are counted in Space-ths of the  *)
(* 32-bit space; the register above a 64-bit BAR holds its multiple of     *)
(* Space.  Of the command register only Memory Space is kept.              *)
(***************************************************************************)
EXTENDS Integers

CONSTANTS
    Slots, Funcs,   \* slots (256 * 32), functions of a slot (8)
    Bars,           \* BAR registers of a function (6)
    Space,          \* 4 GB
    FirstBase,      \* first value of next_32bit_base (0xE0000000)
    MaxLen,         \* largest size believed (0x20000000)
    DefaultLen,     \* size assumed instead (0x10000000)
    Topologies      \* machines: [kind, size, addr, decode, present, multi, fb]

Functions == (0 .. Slots - 1) \X (0 .. Funcs - 1)
Registers == (0 .. Slots - 1) \X (0 .. Funcs - 1) \X (0 .. Bars - 1)
Kinds == {"none", "io", "mem32", "low64", "high64"}

\* Registers that are no BAR of their own have size 0; a BAR that is not moved
\* yet has its size's alignment.
ASSUME PciAssumption ==
    /\ Slots \in Nat /\ Funcs \in Nat \ {0} /\ Bars \in Nat
    /\ Space \in Nat /\ FirstBase \in 0 .. Space - 1
    /\ MaxLen \in 1 .. Space - 1 /\ DefaultLen \in 1 .. MaxLen
    /\ \A t \in Topologies :
          /\ t.kind \in [Registers -> Kinds] /\ t.size \in [Registers -> Nat]
          /\ t.addr \in [Registers -> Nat]   /\ t.decode \in [Functions -> BOOLEAN]
          /\ t.present \in SUBSET Functions  /\ t.multi \in SUBSET (0 .. Slots - 1)
          /\ t.fb \in Nat

VARIABLES
    machine,   \* what cannot be written: the topology the loader finds
    addr,      \* contents of the BAR registers
    decode,    \* functions' Memory Space bits
    rpc,       \* "func", "bar", "probe", "low", "high", "enable", "done"
    slot, func, bar,
    next,      \* next_32bit_base
    wrapped,   \* history: did next_32bit_base go below zero?
    target,    \* target_base, bar_len of the BAR being moved
    len,
    newFb      \* new_fb_base

hwVars == <<machine, addr, decode>>
pciVars == <<hwVars, rpc, slot, func, bar, next, wrapped, target, len, newFb>>

PciInit ==
    /\ machine \in Topologies
    /\ addr = machine.addr /\ decode = machine.decode
    /\ rpc = "func" /\ slot = 0 /\ func = 0 /\ bar = 0
    /\ next = FirstBase /\ wrapped = FALSE /\ target = 0 /\ len = 0
    /\ newFb = machine.fb

-----------------------------------------------------------------------------
(* The registers                                                           *)

Here == <<slot, func, bar>>
Above(r) == <<r[1], r[2], r[3] + 1>>

AlignDown(x, n) == n * (x \div n)

\* A BAR keeps the address bits its size leaves writable.
Kept(v, size) == IF size = 0 \/ size >= Space THEN 0 ELSE AlignDown(v, size)

\* The address a BAR decodes; bar_addr.
Address(a, r) == IF machine.kind[r] = "low64" THEN Space * a[Above(r)] + a[r] ELSE a[r]

-----------------------------------------------------------------------------
(* The walk                                                                *)

\* The next function, or the first one of the next slot.
Advance(leaveSlot) ==
    LET last == leaveSlot \/ func = Funcs - 1
    IN  /\ slot' = IF last THEN slot + 1 ELSE slot
        /\ func' = IF last THEN 0 ELSE func + 1

EnterFunction_StopAtGap ==
    /\ rpc = "func" /\ slot < Slots
    /\ IF <<slot, func>> \in machine.present
       THEN rpc' = "bar" /\ bar' = 0 /\ UNCHANGED <<slot, func>>
       ELSE Advance(TRUE) /\ UNCHANGED <<rpc, bar>>
    /\ UNCHANGED <<hwVars, next, wrapped, target, len, newFb>>
EnterFunction ==
    /\ rpc = "func" /\ slot < Slots
    /\ IF <<slot, func>> \in machine.present
       THEN rpc' = "bar" /\ bar' = 0 /\ UNCHANGED <<slot, func>>
       ELSE Advance(func = 0) /\ UNCHANGED <<rpc, bar>>
    /\ UNCHANGED <<hwVars, next, wrapped, target, len, newFb>>

LeaveFunction ==
    /\ rpc = "bar" /\ bar >= Bars
    /\ rpc' = "func"
    /\ Advance(func = 0 /\ slot \notin machine.multi)
    /\ UNCHANGED <<hwVars, bar, next, wrapped, target, len, newFb>>

Finish ==
    /\ rpc = "func" /\ slot = Slots
    /\ rpc' = "done"
    /\ UNCHANGED <<hwVars, slot, func, bar, next, wrapped, target, len, newFb>>

Is64 == bar + 1 < Bars /\ machine.kind[Here] = "low64"

\* The register is no 64-bit BAR, or one that lies below 4 GB.
SkipBar ==
    /\ rpc = "bar" /\ bar < Bars
    /\ Is64 => addr[Above(Here)] = 0
    /\ bar' = IF Is64 THEN bar + 2 ELSE bar + 1
    /\ UNCHANGED <<hwVars, rpc, slot, func, next, wrapped, target, len, newFb>>

-----------------------------------------------------------------------------
(* A BAR above 4 GB                                                        *)

\* Memory decoding off.
Disable_StillDecodes ==
    /\ rpc = "bar" /\ bar < Bars
    /\ Is64 /\ addr[Above(Here)] # 0
    /\ rpc' = "probe"
    /\ UNCHANGED <<hwVars, slot, func, bar, next, wrapped, target, len, newFb>>
Disable ==
    /\ rpc = "bar" /\ bar < Bars
    /\ Is64 /\ addr[Above(Here)] # 0
    /\ decode' = [decode EXCEPT ![<<slot, func>>] = FALSE]
    /\ rpc' = "probe"
    /\ UNCHANGED <<machine, addr, slot, func, bar, next, wrapped, target, len, newFb>>

\* new_fb_base, when the frame buffer is in what bar_len says the BAR covers.
FbMoved_NoOffset(from, l, to) ==
    IF from <= machine.fb /\ machine.fb < from + l THEN to ELSE newFb
FbMoved(from, l, to) ==
    IF from <= machine.fb /\ machine.fb < from + l THEN to + (machine.fb - from) ELSE newFb

\* All ones are written; what reads back says the size.  The address the BAR
\* had was read before, so the frame buffer's move is decided here.
BarLen(mask) ==
    LET l == (Space - mask) % Space
    IN  IF l = 0 \/ l > MaxLen THEN DefaultLen ELSE l
NextBase_Unaligned(l) == (next - l) % Space
NextBase(l) == AlignDown((next - l) % Space, l)
Probe ==
    /\ rpc = "probe"
    /\ LET ones == Kept(Space - 1, machine.size[Here])
       IN  /\ addr' = [addr EXCEPT ![Here] = ones]
           /\ len' = BarLen(ones)
    /\ next' = NextBase(len') /\ target' = next'
    /\ wrapped' = (wrapped \/ next < len')
    /\ newFb' = FbMoved(Address(addr, Here), len', target')
    /\ rpc' = "low"
    /\ UNCHANGED <<machine, decode, slot, func, bar>>

WriteLow ==
    /\ rpc = "low"
    /\ addr' = [addr EXCEPT ![Here] = Kept(target, machine.size[Here])]
    /\ rpc' = "high"
    /\ UNCHANGED <<machine, decode, slot, func, bar, next, wrapped, target, len, newFb>>

WriteHigh ==
    /\ rpc = "high"
    /\ addr' = [addr EXCEPT ![Above(Here)] = 0]
    /\ rpc' = "enable"
    /\ UNCHANGED <<machine, decode, slot, func, bar, next, wrapped, target, len, newFb>>

\* Memory decoding on, whether it was on before or not; past both registers.
Enable ==
    /\ rpc = "enable"
    /\ decode' = [decode EXCEPT ![<<slot, func>>] = TRUE]
    /\ bar' = bar + 2 /\ rpc' = "bar"
    /\ UNCHANGED <<machine, addr, slot, func, next, wrapped, target, len, newFb>>

PciNext ==
    \/ EnterFunction \/ LeaveFunction \/ Finish \/ SkipBar
    \/ Disable \/ Probe \/ WriteLow \/ WriteHigh \/ Enable

PciSpec == PciInit /\ [][PciNext]_pciVars /\ WF_pciVars(PciNext)

-----------------------------------------------------------------------------
(* Properties                                                              *)

Memory == {r \in Registers : machine.kind[r] \in {"mem32", "low64"} /\ machine.size[r] > 0}
Decoding == {r \in Memory : decode[<<r[1], r[2]>>]}
Disjoint(a, b, c, d) == a + b <= c \/ c + d <= a

\* A machine the windows fit: its BARs do not overlap, those below 4 GB lie
\* above FirstBase, and those above 4 GB are of a size that is believed.
Uncrowded(t) ==
    LET At(r) == IF t.kind[r] = "low64" THEN Space * t.addr[Above(r)] + t.addr[r] ELSE t.addr[r]
        M == {r \in Registers : t.kind[r] \in {"mem32", "low64"} /\ t.size[r] > 0}
    IN  /\ \A r, s \in M : r = s \/ Disjoint(At(r), t.size[r], At(s), t.size[s])
        /\ \A r \in M : FirstBase <= At(r)
        /\ \A r \in Registers : t.kind[r] = "low64" =>
              /\ r[3] + 1 < Bars /\ t.kind[Above(r)] = "high64"
              /\ t.size[r] \in 1 .. MaxLen /\ Space % t.size[r] = 0

\* A machine as PCI has it: functions other than 0 are those of multifunction
\* devices, which have a function 0, and a BAR below 4 GB ends there too.
Enumerated(t) ==
    /\ \A r \in Registers : t.kind[r] = "low64" =>
          /\ <<r[1], r[2]>> \in t.present
          /\ r[2] # 0 => <<r[1], 0>> \in t.present /\ r[1] \in t.multi
    /\ \A r \in Registers :
          t.kind[r] = "mem32" \/ (t.kind[r] = "low64" /\ t.addr[Above(r)] = 0) =>
             t.addr[r] + t.size[r] <= Space

\* "Allocate non-overlapping aligned 32-bit window": on a machine the windows
\* fit, and until they run out of space, no address is ever decoded by two
\* BARs, not for the time between two accesses either.
NoOverlap ==
    ~wrapped =>
        \A r, s \in Decoding :
            r = s \/ Disjoint(Address(addr, r), machine.size[r], Address(addr, s), machine.size[s])

\* In the end every BAR is below 4 GB, those that were there are where they
\* were, and every function that decoded memory does so again.
BarsBelow4G ==
    rpc = "done" =>
        /\ \A r \in Memory : Address(addr, r) + machine.size[r] <= Space
        /\ \A r \in Memory : Address(machine.addr, r) < Space => addr[r] = machine.addr[r]
        /\ \A f \in Functions : machine.decode[f] => decode[f]
=============================================================================
