-------------------------- MODULE Efi64Loader_proofs --------------------------
(***************************************************************************)
(* The 64-bit UEFI loader implements Handoff, which allows it to give up,  *)
(* and gives up only after all its attempts: for all memory maps, buffer   *)
(* and table sizes, numbers of attempts, and any number of events.  Its    *)
(* walk over the PCI devices never lets two BARs decode the same address,  *)
(* leaves none above 4 GB, and the kernel is told where the frame buffer   *)
(* is: on every machine the windows fit.                                   *)
(***************************************************************************)
EXTENDS Efi64Loader, TLAPS

-----------------------------------------------------------------------------
(* The memory map buffer and convert_memory_map()                          *)

\* A map has a length, and the multiboot table a size.
LEMMA MapsHaveLength ==
    ASSUME NEW m \in Maps
    PROVE  Len(m) \in Nat
BY FirmwareAssumption

\* No more entries are stored than there are descriptors.
LEMMA StoredBounds ==
    ASSUME NEW n \in Nat
    PROVE  /\ Stored(n) \in 0 .. n
           /\ Stored(n) \in 0 .. MmapEntries
           /\ MmapEntries \in Nat
BY FirmwareAssumption DEF Stored

\* convert_memory_map() looks at the first n descriptors of the buffer only.
LEMMA BufferReport ==
    ASSUME NEW b, NEW m, Len(m) \in Nat,
           \A i \in 1 .. Len(m) : b[i] = m[i]
    PROVE  ConvertMemoryMap(b, Len(m)) = ReportOf(m)
<1> DEFINE n == Len(m)  k == Stored(n)
<1>0. k \in 0 .. n /\ n \in Nat
      BY StoredBounds
<1> HIDE DEF n, k
<1>1. \A i \in 1 .. k : b[i] = m[i]
  <2>1. \A i \in 1 .. k : i \in 1 .. n
        BY ONLY <1>0, SMT
  <2> QED BY <2>1 DEF n
<1> USE DEF n, k
<1>2. Entries(b, Len(m)) = Entries(m, Len(m))
      BY <1>1 DEF Entries
<1> QED BY <1>2 DEF ConvertMemoryMap, ReportOf

\* After GetMemoryMap the buffer describes the firmware's map.
LEMMA DeliveredMap ==
    ASSUME map \in Maps, MapDelivered
    PROVE  /\ num' = Len(map) /\ Len(map) \in Nat
           /\ \A i \in 1 .. Len(map) : buf'[i] = map[i]
<1>1. Len(map) \in Nat /\ Len(map) <= BufDescs /\ BufDescs \in Nat
      BY MapsHaveLength, FirmwareAssumption DEF MapDelivered, Fits
<1>2. \A i \in 1 .. Len(map) : i \in 1 .. BufDescs /\ i <= Len(map)
      BY ONLY <1>1, SMT
<1>3. \A i \in 1 .. Len(map) : buf'[i] = map[i]
      BY <1>2 DEF MapDelivered
<1> QED BY <1>1, <1>3 DEF MapDelivered

-----------------------------------------------------------------------------
(* The way to the kernel: Efi64Boot                                        *)

LEMMA InitIInv == Init => IInv
<1> SUFFICES ASSUME Init PROVE IInv
    OBVIOUS
<1>1. map \in Maps /\ ~keyFresh /\ keyFresh \in BOOLEAN
      BY DEF Init, FirmwareInit
<1>2. active = TRUE /\ pc = "read" /\ retry = 0
      BY DEF Init, FirmwareInit
<1> QED
    BY <1>1, <1>2, RetriesAssumption
    DEF IInv, ActiveUntilExit, KeyMeansFresh,
        FinalMapBuffered, FinalMapTold, RetriesCounted, GivesUpOnlyAfterRetries

\* When the map changes under the loader, the key it holds becomes stale.
LEMMA NewMapKey ==
    ASSUME NewMap
    PROVE  ~keyFresh' /\ keyFresh' \in BOOLEAN /\ map' \in Maps /\ active /\ active'
BY DEF NewMap

\* The map changes in a step that keeps the loader's data, and leaves it where
\* it is or among the phases that precede the exit loop.
LEMMA StepNewMap ==
    ASSUME IInv, NewMap, UNCHANGED <<bufVars, retry>>,
           \/ UNCHANGED <<pc, mbi>>
           \/ /\ pc \notin {"convert", "remap", "jump", "kernel"}
              /\ pc' \notin {"exit", "convert", "remap", "jump", "kernel"}
    PROVE  IInv'
BY NewMapKey, RetriesAssumption
   DEF bufVars, IInv, ActiveUntilExit, KeyMeansFresh,
       FinalMapBuffered, FinalMapTold, RetriesCounted, GivesUpOnlyAfterRetries

\* Likewise when the firmware is left alone.
LEMMA StepSameMap ==
    ASSUME IInv, UNCHANGED <<fwVars, bufVars, retry>>,
           pc \notin {"convert", "remap", "jump", "kernel"},
           pc' \notin {"exit", "convert", "remap", "jump", "kernel"}
    PROVE  IInv'
BY DEF fwVars, bufVars, IInv, ActiveUntilExit, KeyMeansFresh,
       FinalMapBuffered, FinalMapTold, RetriesCounted, GivesUpOnlyAfterRetries

\* An attempt that failed is counted, and the last one ends the loop.
LEMMA AgainCounts ==
    ASSUME RetriesCounted, retry < Retries, Again
    PROVE  /\ retry' \in 0 .. Retries
           /\ \/ pc' = "getmap" /\ retry' < Retries
              \/ pc' = "convert" /\ retry' = Retries
BY RetriesAssumption DEF RetriesCounted, Again

LEMMA StepIInv == IInv /\ [Next]_vars => IInv'
<1> SUFFICES ASSUME IInv, [Next]_vars PROVE IInv'
    OBVIOUS
<1>0. /\ map \in Maps /\ keyFresh \in BOOLEAN /\ ActiveUntilExit /\ KeyMeansFresh
      /\ FinalMapBuffered /\ FinalMapTold /\ RetriesCounted /\ GivesUpOnlyAfterRetries
      BY DEF IInv
<1>1. CASE Event
      BY <1>1, StepNewMap DEF Event, loader
<1>2. CASE ReadKernel
      BY <1>2, StepNewMap, StepSameMap DEF ReadKernel
<1>3. CASE ReserveKernelSpace
      BY <1>3, StepNewMap, StepSameMap DEF ReserveKernelSpace
<1>4. CASE LoadElf
      BY <1>4, StepSameMap DEF LoadElf
<1>5. CASE TrampolineLow
      BY <1>5, StepNewMap, StepSameMap DEF TrampolineLow
<1>6. CASE TrampolineAny
      BY <1>6, StepNewMap, StepSameMap DEF TrampolineAny
<1>7. CASE GetMemoryMap
  <2>1. UNCHANGED <<active, map, mbi>> /\ pc = "getmap" /\ active /\ retry < Retries
        BY <1>0, <1>7 DEF GetMemoryMap, ActiveUntilExit, RetriesCounted
  <2>2. CASE MapDelivered /\ pc' = "exit" /\ UNCHANGED retry
    <3>1. MapInBuffer'
          BY <1>0, <2>1, <2>2, DeliveredMap DEF MapInBuffer, fwVars
    <3>2. keyFresh' = TRUE
          BY <2>2 DEF MapDelivered
    <3> QED
        BY <1>0, <2>1, <2>2, <3>1, <3>2
        DEF fwVars, IInv, ActiveUntilExit, KeyMeansFresh,
            FinalMapBuffered, FinalMapTold, RetriesCounted, GivesUpOnlyAfterRetries
  <2>3. CASE MapTooLarge /\ Again
    <3>1. keyFresh' = keyFresh
          BY <2>3 DEF MapTooLarge
    <3> QED
        BY <1>0, <2>1, <2>3, <3>1, AgainCounts
        DEF fwVars, IInv, ActiveUntilExit, KeyMeansFresh,
            FinalMapBuffered, FinalMapTold, RetriesCounted, GivesUpOnlyAfterRetries
  <2> QED BY <1>7, <2>2, <2>3 DEF GetMemoryMap
<1>8. CASE ExitBootServices
  <2>1. /\ UNCHANGED <<map, keyFresh, bufVars, mbi>> /\ pc = "exit"
        /\ active /\ retry < Retries
        BY <1>0, <1>8 DEF ExitBootServices, ActiveUntilExit, RetriesCounted
  <2>2. CASE ExitAccepted /\ active' = FALSE /\ pc' = "convert" /\ UNCHANGED retry
    <3>1. MapInBuffer'
          BY <1>0, <2>1, <2>2 DEF ExitAccepted, KeyMeansFresh, MapInBuffer, bufVars
    <3> QED
        BY <1>0, <2>1, <2>2, <3>1
        DEF bufVars, IInv, ActiveUntilExit, KeyMeansFresh,
            FinalMapBuffered, FinalMapTold, RetriesCounted, GivesUpOnlyAfterRetries
  <2>3. CASE ExitRefused /\ Again /\ UNCHANGED active
        BY <1>0, <2>1, <2>3, AgainCounts
        DEF bufVars, IInv, ActiveUntilExit, KeyMeansFresh,
            FinalMapBuffered, FinalMapTold, RetriesCounted, GivesUpOnlyAfterRetries
  <2> QED BY <1>8, <2>2, <2>3 DEF ExitBootServices
<1>9. CASE Convert
  <2>1. ~active => mbi' = ReportOf(map)
        BY <1>0, <1>9, BufferReport, MapsHaveLength
        DEF Convert, FinalMapBuffered, MapInBuffer
  <2> QED
      BY <1>0, <1>9, <2>1
      DEF Convert, fwVars, bufVars, IInv, ActiveUntilExit, KeyMeansFresh,
          FinalMapBuffered, FinalMapTold, RetriesCounted, GivesUpOnlyAfterRetries
<1>10. CASE RemapPci \/ Jump
       BY <1>0, <1>10
       DEF RemapPci, Jump, fwVars, bufVars, IInv, ActiveUntilExit,
           KeyMeansFresh, FinalMapBuffered, FinalMapTold, RetriesCounted,
           GivesUpOnlyAfterRetries
<1>11. CASE UNCHANGED vars
       BY <1>0, <1>11
       DEF vars, loader, fwVars, bufVars, IInv, ActiveUntilExit,
           KeyMeansFresh, MapInBuffer, FinalMapBuffered, FinalMapTold, RetriesCounted,
           GivesUpOnlyAfterRetries
<1> QED
    BY <1>1, <1>2, <1>3, <1>4, <1>5, <1>6, <1>7, <1>8, <1>9, <1>10, <1>11
    DEF Next, Step

LEMMA Inductive == Spec => []IInv
BY InitIInv, StepIInv, PTL DEF Spec

\* The loader goes on without having ended boot services only when it has made
\* all the attempts it is allowed.
THEOREM GivesUpLate == Spec => []GivesUpOnlyAfterRetries
<1>1. IInv => GivesUpOnlyAfterRetries
      BY DEF IInv
<1> QED BY Inductive, <1>1, PTL

-----------------------------------------------------------------------------
\* The refinement, state by state.
LEMMA InitImplements == Init => Abstract!Init
BY DEF Init, FirmwareInit, Stage, Abstract!Init

\* Each step is a step of Handoff or invisible to it.
LEMMA StepImplements == IInv /\ [Next]_vars => [Abstract!Next]_(Abstract!vars)
<1> SUFFICES ASSUME IInv, [Next]_vars PROVE [Abstract!Next]_(Abstract!vars)
    OBVIOUS
<1> USE DEF IInv, ActiveUntilExit, FinalMapTold, Stage
<1>1. CASE Event
      BY <1>1 DEF Event, NewMap, loader, Abstract!Next, Abstract!MapChanges
<1>2. CASE ReadKernel
      BY <1>2 DEF ReadKernel, NewMap, fwVars, Abstract!Next, Abstract!vars,
                  Abstract!MapChanges, Abstract!Halt
<1>3. CASE ReserveKernelSpace
      BY <1>3 DEF ReserveKernelSpace, NewMap, fwVars, Abstract!Next, Abstract!vars,
                  Abstract!MapChanges
<1>4. CASE LoadElf
      BY <1>4 DEF LoadElf, fwVars, Abstract!Next, Abstract!vars, Abstract!Halt
<1>5. CASE TrampolineLow
      BY <1>5 DEF TrampolineLow, NewMap, fwVars, Abstract!Next, Abstract!vars,
                  Abstract!MapChanges
<1>6. CASE TrampolineAny
      BY <1>6 DEF TrampolineAny, NewMap, fwVars, Abstract!Next, Abstract!vars,
                  Abstract!MapChanges
<1>7. CASE GetMemoryMap
      BY <1>7 DEF GetMemoryMap, Again, fwVars, Abstract!vars
<1>8. CASE ExitBootServices
      BY <1>8 DEF ExitBootServices, ExitAccepted, Again, Abstract!Next, Abstract!vars,
                  Abstract!EndServices
<1>9. CASE Convert \/ RemapPci
      BY <1>9 DEF Convert, RemapPci, fwVars, Abstract!vars
<1>10. CASE Jump
       BY <1>10 DEF Jump, fwVars, Abstract!Next, Abstract!EnterKernel, Abstract!GiveUp
<1>11. CASE UNCHANGED vars
       BY <1>11 DEF vars, loader, fwVars, Abstract!vars
<1> QED
    BY <1>1, <1>2, <1>3, <1>4, <1>5, <1>6, <1>7, <1>8, <1>9, <1>10, <1>11
    DEF Next, Step

\* The 64-bit loader enters the kernel after boot services have ended and tells
\* it the firmware's last memory map, or has given up.
THEOREM HandoffImplemented == Spec => ImplementsHandoff
BY Inductive, InitImplements, StepImplements, PTL DEF Spec, ImplementsHandoff, Abstract!Spec

\* The walk over the PCI devices takes the place of RemapPci.
LEMMA LoaderStepIsStep == [LoaderNext]_loaderVars => [Next]_vars
<1> SUFFICES ASSUME [LoaderNext]_loaderVars PROVE [Next]_vars
    OBVIOUS
<1>1. CASE BootStep
      BY <1>1, Zenon DEF BootStep, Next, Step
<1>2. CASE WalkStep
      BY <1>2, Zenon DEF WalkStep
<1>3. CASE FramebufferTold
      BY <1>3, Zenon DEF FramebufferTold, Next, Step
<1>4. CASE EventStep
      BY <1>4, Zenon DEF EventStep, Next
<1>5. CASE UNCHANGED loaderVars
      BY <1>5, Zenon DEF loaderVars
<1> QED
    BY <1>1, <1>2, <1>3, <1>4, <1>5, Zenon DEF LoaderNext, LoaderStep

\* So both hold of the loader with its walk, on every machine.
THEOREM LoaderImplementsHandoff == LoaderSpec => ImplementsHandoff
<1>1. LoaderInit => Init
      BY DEF LoaderInit
<1> QED
    BY <1>1, LoaderStepIsStep, InitIInv, StepIInv, InitImplements, StepImplements, PTL
    DEF LoaderSpec, ImplementsHandoff, Abstract!Spec

\* And of the attempts.
THEOREM LoaderGivesUpLate == LoaderSpec => []GivesUpOnlyAfterRetries
<1>1. LoaderInit => Init
      BY DEF LoaderInit
<1>2. IInv => GivesUpOnlyAfterRetries
      BY DEF IInv
<1> QED BY <1>1, <1>2, LoaderStepIsStep, InitIInv, StepIInv, PTL DEF LoaderSpec

-----------------------------------------------------------------------------
(* The walk over the PCI devices: the inductive invariant of its windows   *)

Steps == {"func", "bar", "probe", "low", "high", "enable", "done"}
Moving == rpc \in {"probe", "low", "high", "enable"}

Typed ==
    /\ machine \in Topologies
    /\ addr \in [Registers -> Nat]
    /\ decode \in [Functions -> BOOLEAN]
    /\ rpc \in Steps
    /\ slot \in 0 .. Slots /\ func \in 0 .. Funcs - 1 /\ bar \in Nat
    /\ next \in Nat /\ target \in Nat /\ len \in Nat /\ wrapped \in BOOLEAN
    /\ rpc \in {"bar", "probe", "low", "high", "enable"} => slot < Slots
    /\ Moving => bar + 1 < Bars /\ machine.kind[Here] = "low64"

\* A BAR that was above 4 GB and is not any more; one nothing was done to.
Moved(r) ==
    /\ machine.kind[r] = "low64"
    /\ machine.addr[Above(r)] # 0
    /\ addr[Above(r)] = 0
Original(r) ==
    /\ addr[r] = machine.addr[r]
    /\ machine.kind[r] = "low64" => addr[Above(r)] = machine.addr[Above(r)]

\* While the low register of Here is written, its window is already taken.
Busy == rpc \in {"low", "high"}
Floor == IF Busy THEN target + len ELSE next

MovedInWindows ==
    \A r \in Memory : Moved(r) => Floor <= addr[r] /\ addr[r] + machine.size[r] <= FirstBase
OthersOriginal ==
    \A r \in Memory : Moved(r) \/ Original(r) \/ (Busy /\ r = Here)
MovedDisjoint ==
    \A r, s \in Memory : Moved(r) /\ Moved(s) /\ r # s =>
        Disjoint(addr[r], machine.size[r], addr[s], machine.size[s])
HereIsHigh ==
    rpc \in {"probe", "low", "high"} => addr[Above(Here)] # 0 /\ machine.addr[Above(Here)] # 0
WindowTaken ==
    /\ next <= FirstBase
    /\ Busy => /\ target = next /\ len = machine.size[Here] /\ target + len <= FirstBase
               /\ Kept(target, machine.size[Here]) = target
    /\ rpc = "high" => addr[Here] = target
Hidden == Moving => decode[<<slot, func>>] = FALSE

WInv ==
    MovedInWindows /\ OthersOriginal /\ MovedDisjoint /\ HereIsHigh /\ WindowTaken /\ Hidden
PciInv == Typed /\ (~wrapped => WInv)

-----------------------------------------------------------------------------
(* Arithmetic of windows                                                   *)

\* Rounding down to a multiple of n stays within n of the number.
LEMMA AlignDownBounds ==
    ASSUME NEW x \in Nat, NEW n \in Nat \ {0}
    PROVE  /\ AlignDown(x, n) \in Nat /\ AlignDown(x, n) <= x /\ x < AlignDown(x, n) + n
           /\ AlignDown(AlignDown(x, n), n) = AlignDown(x, n)
<1> DEFINE q == x \div n
<1>1. q \in Nat /\ n * q <= x /\ x < n * q + n
  BY SMTT(20)
<1> HIDE DEF q
<1>2. (n * q) \div n = q
  BY <1>1, SMTT(20)
<1> QED
  BY <1>1, <1>2 DEF AlignDown, q

\* What a BAR keeps of a number is a number.
LEMMA KeptIsNat ==
    ASSUME NEW x \in Nat, NEW n \in Nat
    PROVE  Kept(x, n) \in Nat
  BY AlignDownBounds DEF Kept

\* Rounding down the last number below a multiple of n.
LEMMA AlignDownLast ==
    ASSUME NEW m \in Nat \ {0}, NEW n \in Nat \ {0}, m % n = 0
    PROVE  AlignDown(m - 1, n) = m - n /\ n <= m
<1> DEFINE q == m \div n
<1>1. q \in Nat /\ m = n * q
  BY SMTT(20)
<1> HIDE DEF q
<1>2. q # 0
  BY <1>1, SMTT(20)
<1>3. n * (q - 1) = m - n /\ q - 1 \in Nat
  BY <1>1, <1>2, SMTT(20)
<1>4. (m - 1) \div n = q - 1
  BY <1>1, <1>3, SMTT(20)
<1> QED
  BY <1>3, <1>4, <1>1, SMTT(20) DEF AlignDown

\* What all ones read back as tells a BAR's size, when it is believed.
LEMMA ProbedSize ==
    ASSUME NEW n \in 1 .. MaxLen, Space % n = 0
    PROVE  BarLen(Kept(Space - 1, n)) = n
<1>1. Space \in Nat \ {0} /\ n \in Nat \ {0} /\ n < Space /\ MaxLen \in Nat
  BY PciAssumption
<1>0. AlignDown(Space - 1, n) = Space - n
  BY <1>1, AlignDownLast
<1>2. Kept(Space - 1, n) = Space - n
  BY <1>0, <1>1 DEF Kept
<1>3. Space - (Space - n) = n /\ n % Space = n
  BY <1>1, SMTT(20)
<1> QED
  BY <1>1, <1>2, <1>3 DEF BarLen

\* A window is taken right below the previous one, aligned, unless there is no
\* room left.
LEMMA WindowBelow ==
    ASSUME NEW n \in 1 .. MaxLen, NEW b \in Nat, b <= FirstBase, n <= b
    PROVE  LET t == AlignDown((b - n) % Space, n)
           IN  t \in Nat /\ t + n <= b /\ Kept(t, n) = t
<1>1. Space \in Nat \ {0} /\ n \in Nat \ {0} /\ n < Space /\ b < Space
  BY PciAssumption
<1>2. b - n \in Nat /\ (b - n) % Space = b - n
  BY <1>1, SMTT(20)
<1>3. AlignDown(b - n, n) \in Nat /\ AlignDown(b - n, n) <= b - n
      /\ AlignDown(AlignDown(b - n, n), n) = AlignDown(b - n, n)
  BY <1>1, <1>2, AlignDownBounds
<1>4. Kept(AlignDown(b - n, n), n) = AlignDown(b - n, n)
  BY <1>1, <1>3 DEF Kept
<1>5. AlignDown(b - n, n) + n <= b
  BY <1>1, <1>2, <1>3
<1> QED
  BY <1>2, <1>3, <1>4, <1>5

-----------------------------------------------------------------------------
(* Registers                                                               *)

\* Writing a BAR and the register above it leaves every other BAR alone.
LEMMA OthersUntouched ==
    ASSUME Typed, Uncrowded(machine), Moving, NEW r \in Memory, r # Here
    PROVE  /\ r # Above(Here)
           /\ machine.kind[r] = "low64" => Above(r) # Here /\ Above(r) # Above(Here)
           /\ machine.kind[r] = "low64" => Above(r) \in Registers
           /\ Here \in Registers /\ Above(Here) \in Registers /\ Above(Here) # Here
<1>1. Here \in Registers /\ Above(Here) \in Registers /\ Above(Here) # Here
  BY PciAssumption DEF Typed, Moving, Here, Above, Registers
<1>2. machine.kind[Above(Here)] = "high64" /\ machine.kind[Here] = "low64"
  BY <1>1 DEF Typed, Uncrowded
<1>3. r \in Registers /\ machine.kind[r] \in {"mem32", "low64"}
  BY DEF Memory
<1>4. r # Above(Here)
  BY <1>2, <1>3
<1>5. ASSUME machine.kind[r] = "low64"
      PROVE  Above(r) # Here /\ Above(r) # Above(Here) /\ Above(r) \in Registers
  <2>1. machine.kind[Above(r)] = "high64" /\ r[3] + 1 < Bars
    BY <1>3, <1>5 DEF Uncrowded
  <2>2. Above(r) # Here
    BY <1>2, <2>1
  <2>3. PICK a \in 0 .. Slots - 1, b \in 0 .. Funcs - 1, c \in 0 .. Bars - 1 : r = <<a, b, c>>
    BY <1>3 DEF Registers
  <2>4. Above(r) = <<a, b, c + 1>> /\ c + 1 < Bars
    BY <2>1, <2>3 DEF Above
  <2>5. Above(r) \in Registers
    BY <2>4, PciAssumption DEF Registers
  <2>6. Above(r) # Above(Here)
    BY <2>3, <2>4 DEF Above, Here, Typed
  <2> QED BY <2>2, <2>5, <2>6
<1> QED BY <1>1, <1>4, <1>5

\* The BAR that is being moved.
LEMMA HereIsBar ==
    ASSUME Typed, Uncrowded(machine), rpc \in {"probe", "low", "high", "enable"}
    PROVE  /\ Here \in Memory /\ Above(Here) \in Registers /\ Above(Here) # Here
           /\ machine.kind[Here] = "low64"
           /\ machine.size[Here] \in 1 .. MaxLen /\ Space % machine.size[Here] = 0
<1>1. Here \in Registers /\ Above(Here) \in Registers /\ Above(Here) # Here
  BY PciAssumption DEF Typed, Moving, Here, Above, Registers
<1>2. machine.kind[Here] = "low64"
  BY DEF Typed, Moving
<1>3. machine.size[Here] \in 1 .. MaxLen /\ Space % machine.size[Here] = 0
  BY <1>1, <1>2 DEF Uncrowded
<1> QED BY <1>1, <1>2, <1>3, PciAssumption DEF Memory

LEMMA MachineOK ==
    ASSUME NEW t \in Topologies
    PROVE  /\ t.kind \in [Registers -> Kinds] /\ t.size \in [Registers -> Nat]
           /\ t.addr \in [Registers -> Nat] /\ t.decode \in [Functions -> BOOLEAN]
  BY PciAssumption

-----------------------------------------------------------------------------
(* The types                                                               *)

LEMMA TypedInit ==
    ASSUME PciInit
    PROVE  Typed
<1>1. machine \in Topologies /\ addr \in [Registers -> Nat] /\ decode \in [Functions -> BOOLEAN]
  BY MachineOK DEF PciInit
<1>2. Slots \in Nat /\ Funcs \in Nat \ {0} /\ FirstBase \in Nat
  BY PciAssumption
<1>3. rpc \in Steps /\ wrapped \in BOOLEAN /\ rpc = "func" /\ ~Moving
  BY DEF PciInit, Steps, Moving
<1>4. slot \in 0 .. Slots /\ func \in 0 .. Funcs - 1 /\ bar \in Nat
      /\ next \in Nat /\ target \in Nat /\ len \in Nat
  BY <1>2 DEF PciInit
<1> QED
  BY <1>1, <1>3, <1>4 DEF Typed

LEMMA TypedStep ==
    ASSUME Typed, [PciNext]_pciVars, Uncrowded(machine)
    PROVE  Typed'
<1> USE DEF Steps, hwVars
<1>0. /\ Slots \in Nat /\ Funcs \in Nat \ {0} /\ Bars \in Nat /\ Space \in Nat /\ FirstBase \in Nat
      /\ MaxLen \in Nat /\ DefaultLen \in Nat \ {0}
      /\ machine.kind \in [Registers -> Kinds] /\ machine.size \in [Registers -> Nat]
  BY PciAssumption DEF Typed
<1>1. CASE EnterFunction
  BY <1>0, <1>1 DEF Typed, EnterFunction, Advance, Moving
<1>2. CASE LeaveFunction
  BY <1>0, <1>2 DEF Typed, LeaveFunction, Advance, Moving
<1>3. CASE Finish
  BY <1>3 DEF Typed, Finish, Moving
<1>4. CASE SkipBar
  BY <1>4 DEF Typed, SkipBar, Moving
<1>5. CASE Disable
  BY <1>5 DEF Typed, Disable, Moving, Is64, Here
<1>6. CASE Probe
  <2>1. Here \in Registers /\ Above(Here) \in Registers
    BY <1>6, HereIsBar DEF Probe, Memory
  <2>2. /\ Kept(Space - 1, machine.size[Here]) \in Nat
        /\ len' \in Nat \ {0} /\ next' \in Nat /\ target' = next' /\ wrapped' \in BOOLEAN
    <3>1. /\ machine.size[Here] \in 1 .. MaxLen /\ Space % machine.size[Here] = 0
          /\ Space \in Nat \ {0} /\ MaxLen < Space
      BY <1>6, HereIsBar, PciAssumption DEF Probe
    <3>0. Space - 1 \in Nat /\ machine.size[Here] \in Nat \ {0}
      BY <1>0, <3>1
    <3>2. Kept(Space - 1, machine.size[Here]) \in Nat
      BY ONLY <3>0, KeptIsNat
    <3>3. len' = machine.size[Here]
      BY <1>6, <3>1, ProbedSize DEF Probe
    <3>4. next' = AlignDown((next - len') % Space, len')
      BY <1>6 DEF Probe, NextBase
    <3>5. (next - len') % Space \in Nat
      BY <1>0, <3>1, <3>3, SMTT(20) DEF Typed
    <3>6. next' \in Nat
      BY ONLY <3>0, <3>3, <3>4, <3>5, AlignDownBounds
    <3>7. wrapped' \in BOOLEAN
      BY <1>6, Zenon DEF Probe
    <3>8. target' = next' /\ len' \in Nat \ {0}
      BY <1>6, <3>1, <3>3 DEF Probe
    <3> QED
      BY <3>2, <3>6, <3>7, <3>8
  <2> QED
    BY <1>6, <2>1, <2>2 DEF Typed, Probe, Moving, Here
<1>7. CASE WriteLow
  <2>1. Here \in Registers /\ machine.size[Here] \in Nat
    BY <1>0, <1>7, HereIsBar DEF WriteLow, Memory
  <2>2. Kept(target, machine.size[Here]) \in Nat
    BY <1>0, <2>1, KeptIsNat DEF Typed
  <2> QED
    BY <1>7, <2>1, <2>2 DEF Typed, WriteLow, Moving, Here
<1>8. CASE WriteHigh
  BY <1>8 DEF Typed, WriteHigh, Moving, Here
<1>9. CASE Enable
  <2>1. decode' \in [Functions -> BOOLEAN]
    BY <1>9 DEF Typed, Enable
  <2> QED
    BY <1>9, <2>1 DEF Typed, Enable, Moving
<1>10. CASE UNCHANGED pciVars
  BY <1>10 DEF Typed, pciVars, Moving, Here
<1> QED
  BY <1>1, <1>2, <1>3, <1>4, <1>5, <1>6, <1>7, <1>8, <1>9, <1>10 DEF PciNext

-----------------------------------------------------------------------------
(* The windows                                                             *)

LEMMA WindowsInit ==
    ASSUME PciInit, Uncrowded(machine)
    PROVE  WInv
<1>1. addr = machine.addr /\ rpc = "func" /\ next = FirstBase /\ FirstBase \in Nat
  BY PciAssumption DEF PciInit
<1>2. \A r \in Memory : ~Moved(r) /\ Original(r)
  BY <1>1 DEF Moved, Original
<1> QED
  BY <1>1, <1>2 DEF WInv, MovedInWindows, OthersOriginal, MovedDisjoint, HereIsHigh, WindowTaken,
                    Hidden, Busy, Moving

\* A step that writes no BAR and takes no window.
LEMMA QuietStep ==
    ASSUME WInv, machine' = machine, addr' = addr, next' = next, ~Busy, ~Busy'
    PROVE  MovedInWindows' /\ OthersOriginal' /\ MovedDisjoint'
<1>1. Memory' = Memory
  BY DEF Memory
<1>2. \A r : (Moved(r)' <=> Moved(r)) /\ (Original(r)' <=> Original(r))
  BY DEF Moved, Original, Above
<1>3. Floor' = Floor
  BY DEF Floor
<1> QED
  BY <1>1, <1>2, <1>3 DEF WInv, MovedInWindows, OthersOriginal, MovedDisjoint

\* Decoding is off and the register above the BAR not 0 when it is about to move.
LEMMA DisableStep ==
    ASSUME Typed, WInv, Uncrowded(machine), Disable
    PROVE  WInv'
<1>1. Here' = Here /\ ~Busy /\ ~Busy' /\ rpc' = "probe"
  BY DEF Disable, Here, Busy
<1>2. MovedInWindows' /\ OthersOriginal' /\ MovedDisjoint'
  BY <1>1, QuietStep DEF Disable
<1>3. Here \in Memory /\ machine.kind[Here] = "low64"
  <2>1. Here \in Registers /\ machine.kind[Here] = "low64"
    BY PciAssumption DEF Disable, Is64, Here, Registers, Typed
  <2>2. machine.size[Here] \in 1 .. MaxLen /\ MaxLen \in Nat
    BY <2>1, PciAssumption DEF Uncrowded
  <2> QED
    BY <2>1, <2>2 DEF Memory
<1>4. addr[Above(Here)] # 0 /\ machine.addr[Above(Here)] # 0
  BY <1>1, <1>3 DEF Disable, WInv, OthersOriginal, Moved, Original
<1>5. HereIsHigh'
  BY <1>1, <1>4 DEF HereIsHigh, Disable, Above
<1>6. WindowTaken'
  BY <1>1 DEF WInv, WindowTaken, Disable, Busy
<1>7. Hidden'
  BY PciAssumption DEF Hidden, Disable, Typed, Functions
<1> QED
  BY <1>2, <1>5, <1>6, <1>7 DEF WInv

\* Writing either register of the BAR at Here changes no other BAR.
LEMMA OtherBarsKept ==
    ASSUME Typed, Uncrowded(machine), Moving, machine' = machine,
           NEW x \in {Here, Above(Here)}, NEW v, addr' = [addr EXCEPT ![x] = v],
           NEW r \in Memory, r # Here
    PROVE  addr'[r] = addr[r] /\ (Moved(r)' <=> Moved(r)) /\ (Original(r)' <=> Original(r))
<1>1. /\ r # x /\ r \in Registers
      /\ machine.kind[r] = "low64" => Above(r) # x /\ Above(r) \in Registers
  BY OthersUntouched DEF Memory
<1>2. addr'[r] = addr[r] /\ (machine.kind[r] = "low64" => addr'[Above(r)] = addr[Above(r)])
  BY <1>1 DEF Typed
<1> QED
  BY <1>2 DEF Moved, Original, Above

\* The window is taken below all the earlier ones.
LEMMA ProbeStep ==
    ASSUME Typed, WInv, Uncrowded(machine), Probe, ~wrapped'
    PROVE  WInv'
<1> DEFINE n == machine.size[Here]
<1>1. /\ rpc = "probe" /\ rpc' = "low" /\ machine' = machine /\ Here' = Here
      /\ Memory' = Memory /\ Moving /\ ~Busy /\ Busy'
  BY DEF Probe, Here, Memory, Moving, Busy
<1>2. /\ Here \in Memory /\ Above(Here) \in Registers /\ Above(Here) # Here
      /\ n \in 1 .. MaxLen /\ Space % n = 0
  BY <1>1, HereIsBar
<1>3. len' = n
  BY <1>2, ProbedSize DEF Probe
<1>4. next \in Nat /\ next <= FirstBase /\ FirstBase \in Nat /\ n \in Nat
  BY <1>2, PciAssumption DEF Typed, WInv, WindowTaken
<1>5. n <= next
  <2>1. ~(next < n)
    BY <1>3 DEF Probe
  <2> QED
    BY <1>4, <2>1
<1>6. target' = AlignDown((next - n) % Space, n) /\ next' = target'
  BY <1>3 DEF Probe, NextBase
<1>7. target' \in Nat /\ target' + n <= next /\ Kept(target', n) = target'
  BY <1>2, <1>4, <1>5, <1>6, WindowBelow
<1>8. Floor' <= Floor /\ Floor' \in Nat /\ Floor \in Nat
  BY <1>1, <1>3, <1>4, <1>7 DEF Floor
<1>9. addr' = [addr EXCEPT ![Here] = Kept(Space - 1, n)]
  BY DEF Probe
<1>10. \A r \in Memory : r # Here =>
          addr'[r] = addr[r] /\ (Moved(r)' <=> Moved(r)) /\ (Original(r)' <=> Original(r))
  BY <1>1, <1>9, OtherBarsKept
<1>11. addr'[Above(Here)] # 0 /\ machine.addr[Above(Here)] # 0
  BY <1>1, <1>2, <1>9 DEF WInv, HereIsHigh, Typed
<1>12. \A r \in Memory : r = Here => ~(Moved(r)')
  BY <1>11 DEF Moved, Above
<1>13. MovedInWindows'
  <2> SUFFICES ASSUME NEW r \in Memory, Moved(r)'
               PROVE  Floor' <= addr'[r] /\ addr'[r] + machine.size[r] <= FirstBase
    BY <1>1 DEF MovedInWindows
  <2>1. r # Here
    BY <1>12
  <2>2. Moved(r) /\ addr'[r] = addr[r]
    BY <2>1, <1>10
  <2>3. Floor <= addr[r] /\ addr[r] + machine.size[r] <= FirstBase /\ addr[r] \in Nat
    BY <2>2 DEF WInv, MovedInWindows, Typed, Memory
  <2> QED
    BY <1>8, <2>2, <2>3
<1>14. OthersOriginal'
  BY <1>1, <1>10 DEF WInv, OthersOriginal
<1>15. MovedDisjoint'
  BY <1>1, <1>10, <1>12 DEF WInv, MovedDisjoint
<1>16. HereIsHigh'
  BY <1>1, <1>11 DEF HereIsHigh, Above
<1>17. WindowTaken'
  <2>1. next' <= FirstBase /\ target' + len' <= FirstBase
    BY <1>3, <1>4, <1>6, <1>7
  <2>2. Kept(target', machine'.size[Here']) = target'
    BY <1>1, <1>7
  <2> QED
    BY <1>1, <1>3, <1>6, <2>1, <2>2 DEF WindowTaken, Kept
<1>18. Hidden'
  BY <1>1 DEF Hidden, WInv, Probe
<1> QED
  BY <1>13, <1>14, <1>15, <1>16, <1>17, <1>18 DEF WInv

\* The low register gets its window's address; the BAR still lies above 4 GB.
LEMMA WriteLowStep ==
    ASSUME Typed, WInv, Uncrowded(machine), WriteLow
    PROVE  WInv'
<1>1. /\ rpc = "low" /\ rpc' = "high" /\ machine' = machine /\ Here' = Here
      /\ Memory' = Memory /\ Moving /\ Busy /\ Busy' /\ Floor' = Floor
  BY DEF WriteLow, Here, Memory, Moving, Busy, Floor
<1>2. Here \in Registers /\ Above(Here) \in Registers /\ Above(Here) # Here
  BY <1>1, HereIsBar DEF Memory
<1>3. addr' = [addr EXCEPT ![Here] = Kept(target, machine.size[Here])]
  BY DEF WriteLow
<1>4. \A r \in Memory : r # Here =>
          addr'[r] = addr[r] /\ (Moved(r)' <=> Moved(r)) /\ (Original(r)' <=> Original(r))
  BY <1>1, <1>3, OtherBarsKept
<1>5. addr'[Above(Here)] # 0 /\ machine.addr[Above(Here)] # 0
  BY <1>1, <1>2, <1>3 DEF WInv, HereIsHigh, Typed
<1>6. \A r \in Memory : r = Here => ~(Moved(r)')
  BY <1>5 DEF Moved, Above
<1>7. MovedInWindows' /\ OthersOriginal' /\ MovedDisjoint'
  BY <1>1, <1>4, <1>6 DEF WInv, MovedInWindows, OthersOriginal, MovedDisjoint
<1>8. HereIsHigh'
  BY <1>1, <1>5 DEF HereIsHigh, Above
<1>9. WindowTaken'
  <2>1. addr'[Here] = target
    BY <1>1, <1>2, <1>3 DEF WInv, WindowTaken, Typed
  <2>2. next' = next /\ target' = target /\ len' = len
    BY DEF WriteLow
  <2> QED
    BY <1>1, <2>1, <2>2 DEF WInv, WindowTaken, Kept
<1>10. Hidden'
  BY <1>1 DEF Hidden, WInv, WriteLow, Moving
<1> QED
  BY <1>7, <1>8, <1>9, <1>10 DEF WInv

\* The BAR is in its window: below the earlier windows, above the next.
LEMMA WriteHighStep ==
    ASSUME Typed, WInv, Uncrowded(machine), WriteHigh
    PROVE  WInv'
<1>1. /\ rpc = "high" /\ rpc' = "enable" /\ machine' = machine /\ Here' = Here
      /\ Memory' = Memory /\ Moving /\ Busy /\ ~Busy' /\ next' = next
  BY DEF WriteHigh, Here, Memory, Moving, Busy
<1>2. /\ Here \in Memory /\ Above(Here) \in Registers /\ Above(Here) # Here
      /\ machine.size[Here] \in Nat
  BY <1>1, HereIsBar, PciAssumption
<1>3. addr' = [addr EXCEPT ![Above(Here)] = 0]
  BY DEF WriteHigh
<1>4. \A r \in Memory : r # Here =>
          addr'[r] = addr[r] /\ (Moved(r)' <=> Moved(r)) /\ (Original(r)' <=> Original(r))
  BY <1>1, <1>3, OtherBarsKept
<1>5. addr'[Here] = target /\ addr'[Above(Here)] = 0 /\ target \in Nat
  BY <1>1, <1>2, <1>3 DEF WInv, WindowTaken, Typed
<1>6. /\ Floor = target + machine.size[Here] /\ Floor' = target
      /\ Floor <= FirstBase
  BY <1>1 DEF WInv, WindowTaken, Floor
<1>7. \A r \in Memory : r = Here => Moved(r)'
  BY <1>1, <1>5, HereIsBar DEF Moved, Above, WInv, HereIsHigh
<1>8. \A r \in Memory : r # Here /\ Moved(r) =>
          /\ addr[r] \in Nat /\ machine.size[r] \in Nat
          /\ Floor <= addr[r] /\ addr[r] + machine.size[r] <= FirstBase
  BY MachineOK DEF WInv, MovedInWindows, Typed, Memory
<1>9. MovedInWindows'
  <2> SUFFICES ASSUME NEW r \in Memory, Moved(r)'
               PROVE  Floor' <= addr'[r] /\ addr'[r] + machine.size[r] <= FirstBase
    BY <1>1 DEF MovedInWindows
  <2>1. CASE r = Here
    BY <1>5, <1>6, <2>1
  <2>2. CASE r # Here
    <3>1. Moved(r) /\ addr'[r] = addr[r]
      BY <1>4, <2>2
    <3> QED
      BY <1>2, <1>5, <1>6, <1>8, <2>2, <3>1
  <2> QED BY <2>1, <2>2
<1>10. OthersOriginal'
  BY <1>1, <1>4, <1>7 DEF WInv, OthersOriginal
<1>11. MovedDisjoint'
  <2> SUFFICES ASSUME NEW r \in Memory, NEW s \in Memory, Moved(r)', Moved(s)', r # s
               PROVE  Disjoint(addr'[r], machine.size[r], addr'[s], machine.size[s])
    BY <1>1 DEF MovedDisjoint
  <2>1. CASE r = Here
    BY <1>4, <1>5, <1>6, <1>8, <2>1 DEF Disjoint
  <2>2. CASE s = Here
    BY <1>4, <1>5, <1>6, <1>8, <2>2 DEF Disjoint
  <2>3. CASE r # Here /\ s # Here
    BY <1>4, <2>3 DEF WInv, MovedDisjoint
  <2> QED BY <2>1, <2>2, <2>3
<1>12. HereIsHigh' /\ WindowTaken'
  BY <1>1 DEF HereIsHigh, WInv, WindowTaken
<1>13. Hidden'
  BY <1>1 DEF Hidden, WInv, WriteHigh, Moving
<1> QED
  BY <1>9, <1>10, <1>11, <1>12, <1>13 DEF WInv

LEMMA WindowsStep ==
    ASSUME Typed, ~wrapped => WInv, Uncrowded(machine), [PciNext]_pciVars
    PROVE  ~wrapped' => WInv'
<1> SUFFICES ASSUME ~wrapped'
             PROVE  WInv'
  OBVIOUS
<1>0. WInv
  <2>1. wrapped => wrapped'
    BY DEF PciNext, EnterFunction, LeaveFunction, Finish, SkipBar, Disable, Probe, WriteLow,
           WriteHigh, Enable, pciVars
  <2> QED
    BY <2>1
<1>1. ASSUME /\ machine' = machine /\ addr' = addr /\ next' = next
             /\ rpc \in {"func", "bar", "enable"} /\ rpc' \in {"func", "bar", "done"}
      PROVE  WInv'
  <2>1. ~Busy /\ ~Busy' /\ ~Moving'
    BY <1>1 DEF Busy, Moving
  <2>2. MovedInWindows' /\ OthersOriginal' /\ MovedDisjoint'
    BY <1>0, <1>1, <2>1, QuietStep
  <2> QED
    BY <1>0, <1>1, <2>1, <2>2 DEF WInv, HereIsHigh, WindowTaken, Hidden
<1>2. CASE EnterFunction \/ LeaveFunction \/ Finish \/ SkipBar \/ Enable
  BY <1>1, <1>2 DEF EnterFunction, LeaveFunction, Finish, SkipBar, Enable, hwVars
<1>3. CASE Disable
  BY <1>0, <1>3, DisableStep
<1>4. CASE Probe
  BY <1>0, <1>4, ProbeStep
<1>5. CASE WriteLow
  BY <1>0, <1>5, WriteLowStep
<1>6. CASE WriteHigh
  BY <1>0, <1>6, WriteHighStep
<1>7. CASE UNCHANGED pciVars
  <2>1. /\ Here' = Here /\ Memory' = Memory /\ Busy' = Busy /\ Floor' = Floor /\ Moving' = Moving
    BY <1>7 DEF pciVars, hwVars, Here, Memory, Busy, Floor, Moving
  <2>2. \A r : (Moved(r)' <=> Moved(r)) /\ (Original(r)' <=> Original(r))
    BY <1>7 DEF pciVars, hwVars, Moved, Original, Above
  <2> QED
    BY <1>0, <1>7, <2>1, <2>2 DEF pciVars, hwVars, WInv, MovedInWindows, OthersOriginal,
       MovedDisjoint, HereIsHigh, WindowTaken, Hidden, Above, Kept
<1> QED
  BY <1>2, <1>3, <1>4, <1>5, <1>6, <1>7 DEF PciNext

-----------------------------------------------------------------------------
(* No two BARs decode the same address                                     *)

\* A moved BAR is found in its window, an original one where it was, at
\* FirstBase or above.
LEMMA WhereBarsAre ==
    ASSUME Typed, WInv, Uncrowded(machine), NEW r \in Decoding
    PROVE  /\ r \in Memory /\ machine.size[r] \in Nat /\ Address(addr, r) \in Nat
           /\ \/ /\ Moved(r) /\ Address(addr, r) = addr[r]
                 /\ addr[r] + machine.size[r] <= FirstBase
              \/ /\ Address(addr, r) = Address(machine.addr, r)
                 /\ FirstBase <= Address(addr, r)
<1>1. r \in Memory /\ r \in Registers /\ machine.size[r] \in Nat /\ addr[r] \in Nat
      /\ machine.kind[r] \in {"mem32", "low64"} /\ machine.addr \in [Registers -> Nat]
  BY MachineOK DEF Decoding, Memory, Typed
<1>2. ~(Busy /\ r = Here)
  <2>1. Busy => decode[<<slot, func>>] = FALSE
    BY DEF WInv, Hidden, Busy, Moving
  <2> QED
    BY <2>1 DEF Decoding, Here
<1>3. Moved(r) \/ Original(r)
  BY <1>1, <1>2 DEF WInv, OthersOriginal
<1>4. machine.kind[r] = "low64" => Above(r) \in Registers
  BY <1>1, PciAssumption DEF Uncrowded, Above, Registers
<1>5. Space \in Nat
  BY PciAssumption
<1>6. CASE Moved(r)
  <2>1. Space * 0 = 0
    BY <1>5
  <2>2. Address(addr, r) = addr[r]
    BY <1>1, <1>6, <2>1 DEF Moved, Address
  <2> QED
    BY <1>1, <1>6, <2>2 DEF WInv, MovedInWindows
<1>7. CASE Original(r)
  <2>1. Address(addr, r) = Address(machine.addr, r)
    BY <1>1, <1>7 DEF Original, Address
  <2>2. FirstBase <= Address(machine.addr, r)
    BY <1>1 DEF Uncrowded, Address, Memory
  <2>3. Address(addr, r) \in Nat
    <3>1. machine.kind[r] = "low64" => Space * addr[Above(r)] \in Nat
      BY <1>4, <1>5, SMTT(20) DEF Typed
    <3> QED
      BY <1>1, <3>1 DEF Address
  <2> QED
    BY <1>1, <2>1, <2>2, <2>3
<1> QED
  BY <1>3, <1>6, <1>7

LEMMA NoOverlapHolds ==
    ASSUME PciInv, Uncrowded(machine)
    PROVE  NoOverlap
<1> SUFFICES ASSUME ~wrapped, NEW r \in Decoding, NEW s \in Decoding, r # s
             PROVE  Disjoint(Address(addr, r), machine.size[r], Address(addr, s), machine.size[s])
  BY DEF NoOverlap
<1>1. Typed /\ WInv
  BY DEF PciInv
<1>2. FirstBase \in Nat
  BY PciAssumption
<1>3. CASE Moved(r) /\ Address(addr, r) = addr[r] /\ Moved(s) /\ Address(addr, s) = addr[s]
  BY <1>1, <1>3, WhereBarsAre DEF WInv, MovedDisjoint
<1>4. CASE Address(addr, r) = Address(machine.addr, r) /\ Address(addr, s) = Address(machine.addr, s)
  BY <1>1, <1>4, WhereBarsAre DEF Uncrowded, Memory, Address
<1>5. CASE \/ /\ Address(addr, r) + machine.size[r] <= FirstBase
              /\ FirstBase <= Address(addr, s)
           \/ /\ Address(addr, s) + machine.size[s] <= FirstBase
              /\ FirstBase <= Address(addr, r)
  BY <1>1, <1>2, <1>5, WhereBarsAre DEF Disjoint
<1> QED
  BY <1>1, <1>3, <1>4, <1>5, WhereBarsAre

LEMMA PciInitInv ==
    ASSUME \A t \in Topologies : Uncrowded(t)
    PROVE  PciInit => PciInv
BY TypedInit, WindowsInit DEF PciInv, PciInit

LEMMA PciStepInv ==
    ASSUME \A t \in Topologies : Uncrowded(t)
    PROVE  PciInv /\ [PciNext]_pciVars => PciInv'
<1> SUFFICES ASSUME PciInv, [PciNext]_pciVars
             PROVE  PciInv'
  OBVIOUS
<1>1. Typed /\ (~wrapped => WInv) /\ Uncrowded(machine)
  BY DEF PciInv, Typed
<1> QED
  BY <1>1, TypedStep, WindowsStep DEF PciInv

LEMMA NoOverlapByInv ==
    ASSUME \A t \in Topologies : Uncrowded(t)
    PROVE  PciInv => NoOverlap
BY NoOverlapHolds DEF PciInv, Typed

\* "Allocate non-overlapping aligned 32-bit window" (efi64.c:234) is kept on
\* every machine the windows fit: however many slots, functions and BARs it
\* has, whatever their sizes and places, no address is decoded by two BARs, not
\* between two accesses of the walk either, until the windows run out of space.
THEOREM WindowsNeverOverlap ==
    ASSUME \A t \in Topologies : Uncrowded(t)
    PROVE  PciSpec => []NoOverlap
BY PciInitInv, PciStepInv, NoOverlapByInv, PTL DEF PciSpec

\* The same of the loader that makes the walk between the conversion of the
\* memory map and the jump to the kernel.
THEOREM LoaderWindowsNeverOverlap ==
    ASSUME \A t \in Topologies : Uncrowded(t)
    PROVE  LoaderSpec => []NoOverlap
<1>1. LoaderInit => PciInit
  BY DEF LoaderInit
<1>2. [LoaderNext]_loaderVars => [PciNext]_pciVars
  BY Zenon DEF LoaderNext, LoaderStep, BootStep, WalkStep, FramebufferTold, EventStep, loaderVars
<1> QED
  BY <1>1, <1>2, PciInitInv, PciStepInv, NoOverlapByInv, PTL DEF LoaderSpec

-----------------------------------------------------------------------------
(* Where every BAR and the frame buffer end up: the inductive invariant,   *)
(* which holds when the windows have run out of space too                  *)

WasHigh(r) == machine.kind[r] = "low64" /\ machine.addr[Above(r)] # 0

\* The walk is past register r.
Passed(r) ==
    \/ r[1] < slot
    \/ r[1] = slot /\ r[2] < func
    \/ r[1] = slot /\ r[2] = func /\ rpc # "func" /\ r[3] < bar

AllMoved == \A r \in Memory : WasHigh(r) /\ Passed(r) => Moved(r)
MovedBelow == \A r \in Memory : Moved(r) => addr[r] + machine.size[r] <= Space
WindowFits ==
    /\ Busy => /\ len = machine.size[Here] /\ target + len <= Space
               /\ Kept(target, machine.size[Here]) = target
    /\ rpc = "high" => addr[Here] = target
    /\ rpc = "enable" => addr[Above(Here)] = 0
Restored ==
    \A f \in Functions : machine.decode[f] => decode[f] \/ (Moving /\ f = <<slot, func>>)
WalkedAll == rpc = "done" => slot = Slots

\* The BAR the frame buffer is in, and where that BAR is or is about to be.
Home(r) ==
    /\ Address(machine.addr, r) <= machine.fb
    /\ machine.fb < Address(machine.addr, r) + machine.size[r]
Place(r) == IF Busy /\ r = Here THEN target ELSE Address(addr, r)
FbInHome ==
    /\ newFb \in Int
    /\ \A r \in Memory : Home(r) => newFb - Place(r) = machine.fb - Address(machine.addr, r)
    /\ (\A r \in Memory : ~Home(r)) => newFb = machine.fb

BarsInv ==
    /\ OthersOriginal /\ HereIsHigh /\ MovedBelow /\ WindowFits
    /\ AllMoved /\ Restored /\ WalkedAll /\ FbInHome

-----------------------------------------------------------------------------
(* Where every BAR and the frame buffer end up: the steps                  *)

LEMMA RegisterParts ==
    ASSUME NEW r \in Registers
    PROVE  /\ r = <<r[1], r[2], r[3]>>
           /\ r[1] \in 0 .. Slots - 1 /\ r[2] \in 0 .. Funcs - 1 /\ r[3] \in 0 .. Bars - 1
           /\ r[1] \in Nat /\ r[2] \in Nat /\ r[3] \in Nat
           /\ <<r[1], r[2]>> \in Functions
<1>1. Slots \in Nat /\ Funcs \in Nat /\ Bars \in Nat
  BY PciAssumption
<1> QED
  BY <1>1 DEF Registers, Functions

\* A window taken below the end of the 32-bit space ends in it.
LEMMA WindowInSpace ==
    ASSUME NEW n \in Nat \ {0}, NEW m \in Nat, m % n = 0, NEW v \in Nat, v < m
    PROVE  AlignDown(v, n) \in Nat /\ AlignDown(v, n) + n <= m
<1>1. PICK k \in Nat : m = n * k
  <2>1. m \div n \in Nat /\ m = n * (m \div n)
    BY SMTT(20)
  <2> QED BY <2>1
<1>2. PICK q \in Nat : q = v \div n /\ n * q <= v
  <2>1. v \div n \in Nat /\ n * (v \div n) <= v
    BY SMTT(20)
  <2> QED BY <2>1
<1>3. q < k
  <2> SUFFICES ASSUME k <= q PROVE FALSE
    OBVIOUS
  <2>1. n * k <= n * q
    BY SMTT(20)
  <2>2. n * k \in Nat /\ n * q \in Nat
    OBVIOUS
  <2> QED BY <1>1, <1>2, <2>1, <2>2
<1>4. n * (q + 1) <= n * k
  BY <1>3, SMTT(20)
<1>5. n * (q + 1) = n * q + n
  OBVIOUS
<1>6. PICK x \in Nat : x = n * q
  OBVIOUS
<1> QED
  BY <1>1, <1>2, <1>4, <1>5, <1>6 DEF AlignDown

\* A BAR's address and size, as the firmware left them, are numbers.
LEMMA FirstAddress ==
    ASSUME Typed, Uncrowded(machine), NEW r \in Memory
    PROVE  /\ Address(machine.addr, r) \in Nat /\ machine.addr[r] \in Nat
           /\ machine.size[r] \in Nat /\ r \in Registers
           /\ machine.kind[r] \in {"mem32", "low64"}
           /\ machine.kind[r] = "low64" =>
                 /\ Above(r) \in Registers /\ machine.addr[Above(r)] \in Nat
                 /\ Space * machine.addr[Above(r)] \in Nat
<1>1. r \in Registers /\ machine.kind[r] \in {"mem32", "low64"}
  BY DEF Memory
<1>2. /\ machine.addr \in [Registers -> Nat] /\ machine.size \in [Registers -> Nat]
      /\ Space \in Nat
  BY MachineOK, PciAssumption DEF Typed
<1>3. machine.kind[r] = "low64" => Above(r) \in Registers
  BY <1>1, PciAssumption DEF Uncrowded, Above, Registers
<1>4. machine.kind[r] = "low64" => Space * machine.addr[Above(r)] \in Nat
  BY <1>2, <1>3, SMTT(20)
<1> QED
  BY <1>1, <1>2, <1>3, <1>4 DEF Address

\* The frame buffer is in one BAR at most.
LEMMA OneHome ==
    ASSUME Typed, Uncrowded(machine), NEW r \in Memory, NEW s \in Memory, Home(r), Home(s)
    PROVE  r = s
<1> SUFFICES ASSUME r # s PROVE FALSE
  OBVIOUS
<1>1. Disjoint(Address(machine.addr, r), machine.size[r], Address(machine.addr, s), machine.size[s])
  BY DEF Uncrowded, Memory, Address
<1>2. machine.fb \in Nat
  BY PciAssumption DEF Typed
<1> QED
  BY <1>1, <1>2, FirstAddress DEF Disjoint, Home

\* A BAR that lies where it was, as far as its registers go.
LEMMA OriginalAddress ==
    ASSUME NEW r, Original(r)
    PROVE  Address(addr, r) = Address(machine.addr, r)
BY DEF Original, Address

LEMMA BarsInit ==
    ASSUME PciInit, Uncrowded(machine)
    PROVE  BarsInv
<1>1. /\ addr = machine.addr /\ decode = machine.decode /\ rpc = "func"
      /\ slot = 0 /\ func = 0 /\ newFb = machine.fb /\ machine.fb \in Nat
  BY PciAssumption DEF PciInit
<1>2. \A r \in Memory : ~Moved(r) /\ Original(r)
  BY <1>1 DEF Moved, Original
<1>3. ASSUME NEW r \in Memory
      PROVE  ~Passed(r)
  <2>1. r[1] \in Nat /\ r[2] \in Nat
    <3>1. r \in Registers
      BY DEF Memory
    <3> QED BY <3>1, RegisterParts
  <2> QED
    BY <1>1, <2>1 DEF Passed
<1>4. FbInHome
  BY <1>1 DEF FbInHome, Place, Busy
<1> QED
  BY <1>1, <1>2, <1>3, <1>4 DEF BarsInv, OthersOriginal, HereIsHigh, MovedBelow, WindowFits,
     AllMoved, Restored, WalkedAll, Busy

\* What a step between two BARs leaves alone.
LEMMA WalkOnly ==
    ASSUME BarsInv, UNCHANGED <<machine, addr, decode, newFb>>,
           rpc \in {"func", "bar", "done"}, rpc' \in {"func", "bar", "done"}
    PROVE  /\ OthersOriginal' /\ HereIsHigh' /\ MovedBelow' /\ WindowFits'
           /\ Restored' /\ FbInHome'
           /\ Memory' = Memory /\ \A r : (Moved(r)' <=> Moved(r)) /\ (WasHigh(r)' <=> WasHigh(r))
<1>1. Memory' = Memory
  BY DEF Memory
<1>2. \A r : (Moved(r)' <=> Moved(r)) /\ (Original(r)' <=> Original(r)) /\ (WasHigh(r)' <=> WasHigh(r))
  BY DEF Moved, Original, WasHigh, Above
<1>3. ~Busy /\ ~Busy' /\ ~Moving /\ ~Moving'
  BY DEF Busy, Moving
<1>4. OthersOriginal' /\ MovedBelow'
  BY <1>1, <1>2, <1>3 DEF BarsInv, OthersOriginal, MovedBelow
<1>5. HereIsHigh' /\ WindowFits'
  BY <1>3 DEF HereIsHigh, WindowFits
<1>6. Restored'
  BY <1>3 DEF BarsInv, Restored
<1>7. FbInHome'
  BY <1>1, <1>3 DEF BarsInv, FbInHome, Place, Home, Address, Above
<1> QED
  BY <1>1, <1>2, <1>4, <1>5, <1>6, <1>7

\* A BAR above 4 GB, in the machine's own terms.
LEMMA HighParts ==
    ASSUME Typed, Uncrowded(machine), Enumerated(machine), NEW r \in Memory, WasHigh(r)
    PROVE  /\ r = <<r[1], r[2], r[3]>>
           /\ r[1] \in Nat /\ r[2] \in Nat /\ r[3] \in Nat
           /\ r[1] < Slots /\ r[2] <= Funcs - 1 /\ r[3] < Bars
           /\ r[3] + 1 < Bars /\ machine.kind[r] = "low64"
           /\ <<r[1], r[2]>> \in machine.present
           /\ r[2] # 0 => <<r[1], 0>> \in machine.present /\ r[1] \in machine.multi
<1>1. r \in Registers /\ machine.kind[r] = "low64"
  BY DEF Memory, WasHigh
<1>2. r[3] + 1 < Bars
  BY <1>1 DEF Uncrowded
<1>3. /\ <<r[1], r[2]>> \in machine.present
      /\ r[2] # 0 => <<r[1], 0>> \in machine.present /\ r[1] \in machine.multi
  BY <1>1 DEF Enumerated
<1>4. Slots \in Nat /\ Funcs \in Nat /\ Bars \in Nat
  BY PciAssumption
<1>5. /\ r = <<r[1], r[2], r[3]>>
      /\ r[1] \in 0 .. Slots - 1 /\ r[2] \in 0 .. Funcs - 1 /\ r[3] \in 0 .. Bars - 1
      /\ r[1] \in Nat /\ r[2] \in Nat /\ r[3] \in Nat
  BY <1>1, RegisterParts
<1> QED
  BY <1>1, <1>2, <1>3, <1>4, <1>5

\* The walk leaves no BAR above 4 GB behind: not in a function it does not
\* enter, not in a slot it leaves after function 0.
LEMMA PassedByEnter ==
    ASSUME Typed, Uncrowded(machine), Enumerated(machine), EnterFunction,
           NEW r \in Memory, WasHigh(r), Passed(r)'
    PROVE  Passed(r)
<1>1. /\ r[1] \in Nat /\ r[2] \in Nat /\ r[3] \in Nat /\ r[2] <= Funcs - 1
      /\ <<r[1], r[2]>> \in machine.present
      /\ r[2] # 0 => <<r[1], 0>> \in machine.present
  BY HighParts
<1>2. slot \in Nat /\ func \in Nat /\ Funcs \in Nat
  BY PciAssumption DEF Typed
<1>3. CASE <<slot, func>> \in machine.present
  BY <1>1, <1>2, <1>3 DEF EnterFunction, Passed
<1>4. CASE <<slot, func>> \notin machine.present
  <2>1. rpc = "func" /\ rpc' = "func" /\ Advance(func = 0)
    BY <1>4 DEF EnterFunction
  <2>2. ~(r[1] = slot /\ r[2] = func)
    BY <1>1, <1>4
  <2>3. func = 0 => r[1] # slot
    BY <1>1, <1>4
  <2> QED
    BY <1>1, <1>2, <2>1, <2>2, <2>3 DEF Advance, Passed
<1> QED BY <1>3, <1>4

LEMMA PassedByLeave ==
    ASSUME Typed, Uncrowded(machine), Enumerated(machine), LeaveFunction,
           NEW r \in Memory, WasHigh(r), Passed(r)'
    PROVE  Passed(r)
<1>1. /\ r[1] \in Nat /\ r[2] \in Nat /\ r[3] \in Nat /\ r[2] <= Funcs - 1 /\ r[3] < Bars
      /\ r[2] # 0 => r[1] \in machine.multi
  BY HighParts
<1>2. slot \in Nat /\ func \in Nat /\ Funcs \in Nat /\ bar \in Nat /\ Bars \in Nat
  BY PciAssumption DEF Typed
<1>3. /\ rpc = "bar" /\ rpc' = "func" /\ bar >= Bars
      /\ Advance(func = 0 /\ slot \notin machine.multi)
  BY DEF LeaveFunction
<1> QED
  BY <1>1, <1>2, <1>3 DEF Advance, Passed

\* A BAR that is skipped is not above 4 GB, any more.
LEMMA PassedBySkip ==
    ASSUME Typed, Uncrowded(machine), Enumerated(machine), BarsInv, SkipBar,
           NEW r \in Memory, WasHigh(r), Passed(r)'
    PROVE  Moved(r)
<1>1. /\ r = <<r[1], r[2], r[3]>> /\ r[1] \in Nat /\ r[2] \in Nat /\ r[3] \in Nat
      /\ r[3] + 1 < Bars /\ machine.kind[r] = "low64"
  BY HighParts
<1>2. slot \in Nat /\ func \in Nat /\ bar \in Nat /\ Bars \in Nat
  BY PciAssumption DEF Typed
<1>3. rpc = "bar" /\ rpc' = "bar" /\ slot' = slot /\ func' = func
      /\ bar' = (IF Is64 THEN bar + 2 ELSE bar + 1)
  BY DEF SkipBar
<1>4. CASE Passed(r)
  BY <1>4 DEF BarsInv, AllMoved
<1>5. CASE r = Here
  <2>1. Is64
    BY <1>1, <1>5 DEF Is64, Here
  <2>2. addr[Above(r)] = 0
    BY <1>5, <2>1 DEF SkipBar
  <2> QED
    BY <1>1, <2>2 DEF Moved, WasHigh
<1>6. CASE Is64 /\ r = Above(Here)
  <2>1. Here \in Registers /\ machine.kind[Here] = "low64"
    BY <1>2, <1>3, <1>6, PciAssumption DEF Is64, Here, Registers, Typed
  <2>2. machine.kind[r] = "high64"
    BY <1>6, <2>1 DEF Uncrowded
  <2> QED
    BY <1>1, <2>2
<1>7. Passed(r) \/ r = Here \/ (Is64 /\ r = Above(Here))
  <2>1. CASE r[1] < slot \/ (r[1] = slot /\ r[2] < func)
    BY <2>1 DEF Passed
  <2>2. CASE r[1] = slot /\ r[2] = func /\ r[3] < bar
    BY <1>3, <2>2 DEF Passed
  <2>3. CASE r[1] = slot /\ r[2] = func /\ r[3] = bar
    BY <1>1, <2>3 DEF Here
  <2>4. CASE Is64 /\ r[1] = slot /\ r[2] = func /\ r[3] = bar + 1
    BY <1>1, <2>4 DEF Here, Above
  <2>5. \/ r[1] < slot \/ (r[1] = slot /\ r[2] < func)
        \/ r[1] = slot /\ r[2] = func /\ r[3] < bar'
    BY <1>3 DEF Passed
  <2>6. \/ r[1] < slot \/ (r[1] = slot /\ r[2] < func)
        \/ r[1] = slot /\ r[2] = func /\ r[3] < bar
        \/ r[1] = slot /\ r[2] = func /\ r[3] = bar
        \/ Is64 /\ r[1] = slot /\ r[2] = func /\ r[3] = bar + 1
    BY <1>1, <1>2, <1>3, <2>5
  <2> QED BY <2>1, <2>2, <2>3, <2>4, <2>6
<1> QED BY <1>4, <1>5, <1>6, <1>7

LEMMA BarsWalk ==
    ASSUME Typed, Uncrowded(machine), Enumerated(machine), BarsInv,
           EnterFunction \/ LeaveFunction \/ Finish \/ SkipBar
    PROVE  BarsInv'
<1>1. /\ UNCHANGED <<machine, addr, decode, newFb>>
      /\ rpc \in {"func", "bar", "done"} /\ rpc' \in {"func", "bar", "done"}
  BY DEF EnterFunction, LeaveFunction, Finish, SkipBar, hwVars
<1>2. /\ OthersOriginal' /\ HereIsHigh' /\ MovedBelow' /\ WindowFits'
      /\ Restored' /\ FbInHome'
      /\ Memory' = Memory /\ \A r : (Moved(r)' <=> Moved(r)) /\ (WasHigh(r)' <=> WasHigh(r))
  BY <1>1, WalkOnly
<1>3. ASSUME NEW r \in Memory, WasHigh(r), Passed(r)'
      PROVE  Moved(r)
  <2>1. Passed(r) => Moved(r)
    BY <1>3 DEF BarsInv, AllMoved
  <2>2. Finish => Passed(r)
    <3>1. r[1] < Slots
      BY <1>3, HighParts
    <3> QED BY <3>1 DEF Finish, Passed
  <2> QED
    BY <1>3, <2>1, <2>2, PassedByEnter, PassedByLeave, PassedBySkip
<1>4. AllMoved'
  BY <1>2, <1>3 DEF AllMoved
<1>5. WalkedAll'
  BY DEF WalkedAll, EnterFunction, LeaveFunction, Finish, SkipBar
<1> QED BY <1>2, <1>4, <1>5 DEF BarsInv

\* A step of the move of a BAR leaves the walk where it is.
LEMMA MovingPlace ==
    ASSUME Typed, Moving, rpc' # "func", UNCHANGED <<machine, slot, func, bar>>
    PROVE  /\ Here' = Here /\ Memory' = Memory
           /\ \A r : /\ Passed(r)' <=> Passed(r)
                     /\ WasHigh(r)' <=> WasHigh(r)
                     /\ Home(r)' <=> Home(r)
                     /\ Address(machine.addr, r)' = Address(machine.addr, r)
BY DEF Moving, Here, Memory, Passed, WasHigh, Home, Address, Above

\* Nor does it change another BAR's address.
LEMMA OtherAddressKept ==
    ASSUME Typed, Uncrowded(machine), Moving, machine' = machine,
           NEW x \in {Here, Above(Here)}, NEW v, addr' = [addr EXCEPT ![x] = v],
           NEW r \in Memory, r # Here
    PROVE  Address(addr, r)' = Address(addr, r)
<1>1. /\ r # x /\ r \in Registers
      /\ machine.kind[r] = "low64" => Above(r) # x /\ Above(r) \in Registers
  BY OthersUntouched DEF Memory
<1>2. addr'[r] = addr[r] /\ (machine.kind[r] = "low64" => addr'[Above(r)] = addr[Above(r)])
  BY <1>1 DEF Typed
<1> QED
  BY <1>2 DEF Address

LEMMA BarsDisable ==
    ASSUME Typed, Uncrowded(machine), BarsInv, Disable
    PROVE  BarsInv'
<1>1. /\ rpc = "bar" /\ rpc' = "probe" /\ ~Busy /\ ~Busy' /\ Moving' /\ ~Moving
      /\ UNCHANGED <<machine, addr, slot, func, bar, newFb>>
      /\ decode' = [decode EXCEPT ![<<slot, func>>] = FALSE]
  BY DEF Disable, Busy, Moving
<1>2. Memory' = Memory /\ Here' = Here
  BY <1>1 DEF Memory, Here
<1>3. \A r : /\ Moved(r)' <=> Moved(r)
             /\ Original(r)' <=> Original(r)
             /\ WasHigh(r)' <=> WasHigh(r)
             /\ Passed(r)' <=> Passed(r)
  BY <1>1 DEF Moved, Original, WasHigh, Above, Passed
<1>4. OthersOriginal' /\ MovedBelow' /\ AllMoved'
  BY <1>1, <1>2, <1>3 DEF BarsInv, OthersOriginal, MovedBelow, AllMoved
<1>5. HereIsHigh'
  <2>1. Here \in Registers /\ machine.kind[Here] = "low64"
    BY PciAssumption DEF Disable, Is64, Here, Registers, Typed
  <2>2. machine.size[Here] \in 1 .. MaxLen /\ MaxLen \in Nat
    BY <2>1, PciAssumption DEF Uncrowded
  <2>3. Here \in Memory
    BY <2>1, <2>2 DEF Memory
  <2>4. addr[Above(Here)] # 0
    BY DEF Disable
  <2>5. machine.addr[Above(Here)] # 0
    BY <1>1, <2>1, <2>3, <2>4 DEF BarsInv, OthersOriginal, Moved, Original
  <2> QED
    BY <1>1, <1>2, <2>4, <2>5 DEF HereIsHigh, Above
<1>6. WindowFits' /\ WalkedAll'
  BY <1>1 DEF WindowFits, WalkedAll
<1>7. Restored'
  <2>1. \A f \in Functions : f # <<slot, func>> => decode'[f] = decode[f]
    BY <1>1 DEF Typed
  <2> QED
    BY <1>1, <2>1 DEF BarsInv, Restored
<1>8. FbInHome'
  BY <1>1, <1>2 DEF BarsInv, FbInHome, Place, Home, Address, Above
<1> QED
  BY <1>4, <1>5, <1>6, <1>7, <1>8 DEF BarsInv

LEMMA BarsProbe ==
    ASSUME Typed, Uncrowded(machine), BarsInv, Probe
    PROVE  BarsInv'
<1> DEFINE n == machine.size[Here]
<1>1. /\ rpc = "probe" /\ rpc' = "low" /\ Moving /\ Moving' /\ ~Busy /\ Busy'
      /\ UNCHANGED <<machine, decode, slot, func, bar>>
      /\ addr' = [addr EXCEPT ![Here] = Kept(Space - 1, n)]
  BY DEF Probe, Moving, Busy
<1>2. /\ Here' = Here /\ Memory' = Memory
      /\ \A r : /\ Passed(r)' <=> Passed(r)
                /\ WasHigh(r)' <=> WasHigh(r)
                /\ Home(r)' <=> Home(r)
                /\ Address(machine.addr, r)' = Address(machine.addr, r)
  BY <1>1, MovingPlace
<1>3. /\ Here \in Memory /\ Above(Here) \in Registers /\ Above(Here) # Here
      /\ n \in 1 .. MaxLen /\ Space % n = 0 /\ Here \in Registers
  BY <1>1, HereIsBar DEF Memory
<1>4. len' = n /\ target' = AlignDown((next - n) % Space, n)
  <2>1. len' = n
    BY <1>3, ProbedSize DEF Probe
  <2> QED
    BY <2>1 DEF Probe, NextBase
<1>5. target' \in Nat /\ target' + n <= Space /\ Kept(target', n) = target'
  <2>1. Space \in Nat \ {0} /\ n \in Nat \ {0} /\ n < Space /\ next \in Nat
    BY <1>3, PciAssumption DEF Typed
  <2>2. (next - n) % Space \in Nat /\ (next - n) % Space < Space
    BY <2>1, SMTT(20)
  <2>3. target' \in Nat /\ target' + n <= Space
    BY ONLY <1>3, <1>4, <2>1, <2>2, WindowInSpace
  <2>4. AlignDown(target', n) = target'
    BY <1>4, <2>1, <2>2, AlignDownBounds
  <2> QED
    BY <2>1, <2>3, <2>4 DEF Kept
<1>6. \A r \in Memory : r # Here =>
          /\ addr'[r] = addr[r] /\ (Moved(r)' <=> Moved(r)) /\ (Original(r)' <=> Original(r))
          /\ Address(addr, r)' = Address(addr, r)
  BY <1>1, OtherBarsKept, OtherAddressKept
<1>7. addr'[Above(Here)] # 0 /\ machine.addr[Above(Here)] # 0 /\ addr[Above(Here)] # 0
  BY <1>1, <1>3 DEF BarsInv, HereIsHigh, Typed
<1>8. \A r \in Memory : r = Here => ~(Moved(r)') /\ ~Moved(r)
  BY <1>1, <1>7 DEF Moved, Above
<1>9. OthersOriginal'
  BY <1>1, <1>2, <1>6 DEF BarsInv, OthersOriginal
<1>10. HereIsHigh'
  BY <1>1, <1>2, <1>7 DEF HereIsHigh, Above
<1>11. MovedBelow' /\ AllMoved'
  BY <1>1, <1>2, <1>6, <1>8 DEF BarsInv, MovedBelow, AllMoved
<1>12. WindowFits'
  <2>1. Kept(target, machine.size[Here])' = target'
    BY <1>1, <1>2, <1>5 DEF Kept
  <2>2. target' + len' <= Space /\ len' = machine.size[Here]'
    BY <1>1, <1>2, <1>4, <1>5
  <2> QED
    BY <1>1, <2>1, <2>2 DEF WindowFits
<1>13. Restored' /\ WalkedAll'
  BY <1>1 DEF BarsInv, Restored, WalkedAll
<1>14. FbInHome'
  <2> DEFINE from == Address(machine.addr, Here)
  <2>1. Original(Here)
    BY <1>1, <1>3, <1>8 DEF BarsInv, OthersOriginal
  <2>2. Address(addr, Here) = from
    BY <2>1, OriginalAddress
  <2>3. newFb' = IF Home(Here) THEN target' + (machine.fb - from) ELSE newFb
    BY <1>4, <2>2 DEF Probe, FbMoved, Home
  <2>4. machine.fb \in Nat /\ from \in Nat /\ newFb \in Int /\ machine'.fb = machine.fb
    BY <1>1, <1>3, FirstAddress, PciAssumption DEF Typed, BarsInv, FbInHome
  <2>5. \A r \in Memory : Place(r)' = IF r = Here THEN target' ELSE Address(addr, r)
    BY <1>1, <1>2, <1>6 DEF Place
  <2>6. \A r \in Memory : Place(r) = Address(addr, r)
    BY <1>1 DEF Place
  <2>7. CASE Home(Here)
    <3>1. \A r \in Memory : Home(r) => r = Here
      BY <1>3, <2>7, OneHome
    <3>2. newFb' = target' + (machine.fb - from)
      BY <2>3, <2>7
    <3>3. newFb' - target' = machine.fb - from /\ newFb' \in Int
      BY <1>5, <2>4, <3>2
    <3>4. \A r \in Memory : Home(r) =>
             newFb' - Place(r)' = machine.fb - Address(machine.addr, r)
      BY <2>5, <3>1, <3>3
    <3> QED
      BY <1>2, <1>3, <2>4, <2>7, <3>3, <3>4 DEF FbInHome
  <2>8. CASE ~Home(Here)
    <3>1. newFb' = newFb
      BY <2>3, <2>8
    <3>2. \A r \in Memory : Home(r) => Place(r)' = Place(r)
      BY <2>5, <2>6, <2>8
    <3>3. \A r \in Memory : Home(r) =>
             newFb - Place(r) = machine.fb - Address(machine.addr, r)
      BY DEF BarsInv, FbInHome
    <3>4. (\A r \in Memory : ~Home(r)) => newFb = machine.fb
      BY DEF BarsInv, FbInHome
    <3> QED
      BY <1>2, <2>4, <3>1, <3>2, <3>3, <3>4 DEF FbInHome
  <2> QED BY <2>7, <2>8
<1> QED
  BY <1>9, <1>10, <1>11, <1>12, <1>13, <1>14 DEF BarsInv

LEMMA BarsWriteLow ==
    ASSUME Typed, Uncrowded(machine), BarsInv, WriteLow
    PROVE  BarsInv'
<1>1. /\ rpc = "low" /\ rpc' = "high" /\ Moving /\ Moving' /\ Busy /\ Busy'
      /\ UNCHANGED <<machine, decode, slot, func, bar, target, len, newFb>>
      /\ addr' = [addr EXCEPT ![Here] = Kept(target, machine.size[Here])]
  BY DEF WriteLow, Moving, Busy
<1>2. /\ Here' = Here /\ Memory' = Memory
      /\ \A r : /\ Passed(r)' <=> Passed(r)
                /\ WasHigh(r)' <=> WasHigh(r)
                /\ Home(r)' <=> Home(r)
                /\ Address(machine.addr, r)' = Address(machine.addr, r)
  BY <1>1, MovingPlace
<1>3. Here \in Registers /\ Above(Here) \in Registers /\ Above(Here) # Here
  BY <1>1, HereIsBar DEF Memory
<1>4. \A r \in Memory : r # Here =>
          /\ addr'[r] = addr[r] /\ (Moved(r)' <=> Moved(r)) /\ (Original(r)' <=> Original(r))
          /\ Address(addr, r)' = Address(addr, r)
  BY <1>1, OtherBarsKept, OtherAddressKept
<1>5. addr'[Above(Here)] # 0 /\ machine.addr[Above(Here)] # 0
  BY <1>1, <1>3 DEF BarsInv, HereIsHigh, Typed
<1>6. \A r \in Memory : r = Here => ~(Moved(r)')
  BY <1>1, <1>5 DEF Moved, Above
<1>7. OthersOriginal'
  BY <1>1, <1>2, <1>4 DEF BarsInv, OthersOriginal
<1>8. HereIsHigh'
  BY <1>1, <1>2, <1>5 DEF HereIsHigh, Above
<1>9. MovedBelow'
  BY <1>1, <1>2, <1>4, <1>6 DEF BarsInv, MovedBelow
<1>10. AllMoved'
  <2>1. \A r \in Memory : r = Here => ~Passed(r)
    BY DEF Typed, Passed, Here
  <2> QED
    BY <1>1, <1>2, <1>4, <2>1 DEF BarsInv, AllMoved
<1>11. WindowFits'
  <2>1. addr'[Here] = target
    BY <1>1, <1>3 DEF BarsInv, WindowFits, Typed
  <2>2. Kept(target, machine.size[Here])' = Kept(target, machine.size[Here])
    BY <1>1, <1>2 DEF Kept
  <2> QED
    BY <1>1, <1>2, <2>1, <2>2 DEF BarsInv, WindowFits
<1>12. Restored' /\ WalkedAll'
  BY <1>1 DEF BarsInv, Restored, WalkedAll
<1>13. FbInHome'
  <2>1. \A r \in Memory : Place(r)' = Place(r)
    BY <1>1, <1>2, <1>4 DEF Place
  <2> QED
    BY <1>1, <1>2, <2>1 DEF BarsInv, FbInHome
<1> QED
  BY <1>7, <1>8, <1>9, <1>10, <1>11, <1>12, <1>13 DEF BarsInv

LEMMA BarsWriteHigh ==
    ASSUME Typed, Uncrowded(machine), BarsInv, WriteHigh
    PROVE  BarsInv'
<1>1. /\ rpc = "high" /\ rpc' = "enable" /\ Moving /\ Moving' /\ Busy /\ ~Busy'
      /\ UNCHANGED <<machine, decode, slot, func, bar, target, len, newFb>>
      /\ addr' = [addr EXCEPT ![Above(Here)] = 0]
  BY DEF WriteHigh, Moving, Busy
<1>2. /\ Here' = Here /\ Memory' = Memory
      /\ \A r : /\ Passed(r)' <=> Passed(r)
                /\ WasHigh(r)' <=> WasHigh(r)
                /\ Home(r)' <=> Home(r)
                /\ Address(machine.addr, r)' = Address(machine.addr, r)
  BY <1>1, MovingPlace
<1>3. /\ Here \in Memory /\ Here \in Registers /\ Above(Here) \in Registers
      /\ Above(Here) # Here /\ machine.kind[Here] = "low64"
  BY <1>1, HereIsBar DEF Memory
<1>4. \A r \in Memory : r # Here =>
          /\ addr'[r] = addr[r] /\ (Moved(r)' <=> Moved(r)) /\ (Original(r)' <=> Original(r))
          /\ Address(addr, r)' = Address(addr, r)
  BY <1>1, OtherBarsKept, OtherAddressKept
<1>5. /\ addr'[Here] = target /\ addr'[Above(Here)] = 0
      /\ target \in Nat /\ target + machine.size[Here] <= Space
      /\ machine.addr[Above(Here)] # 0
  BY <1>1, <1>3 DEF BarsInv, WindowFits, HereIsHigh, Typed
<1>6. \A r \in Memory : r = Here => Moved(r)'
  BY <1>1, <1>3, <1>5 DEF Moved, Above
<1>7. OthersOriginal'
  BY <1>1, <1>2, <1>4, <1>6 DEF BarsInv, OthersOriginal
<1>8. HereIsHigh'
  BY <1>1 DEF HereIsHigh
<1>9. MovedBelow'
  BY <1>1, <1>2, <1>4, <1>5 DEF BarsInv, MovedBelow
<1>10. AllMoved'
  BY <1>1, <1>2, <1>4, <1>6 DEF BarsInv, AllMoved
<1>11. WindowFits'
  BY <1>1, <1>2, <1>5 DEF WindowFits, Above
<1>12. Restored' /\ WalkedAll'
  BY <1>1 DEF BarsInv, Restored, WalkedAll
<1>13. FbInHome'
  <2>1. Space * 0 = 0
    BY PciAssumption
  <2>2. Address(addr, Here)' = target
    BY <1>1, <1>2, <1>3, <1>5, <2>1 DEF Address, Above
  <2>3. \A r \in Memory : Place(r)' = Place(r)
    BY <1>1, <1>2, <1>4, <2>2 DEF Place
  <2> QED
    BY <1>1, <1>2, <2>3 DEF BarsInv, FbInHome
<1> QED
  BY <1>7, <1>8, <1>9, <1>10, <1>11, <1>12, <1>13 DEF BarsInv

LEMMA BarsEnable ==
    ASSUME Typed, Uncrowded(machine), Enumerated(machine), BarsInv, Enable
    PROVE  BarsInv'
<1>1. /\ rpc = "enable" /\ rpc' = "bar" /\ Moving /\ ~Moving' /\ ~Busy /\ ~Busy'
      /\ UNCHANGED <<machine, addr, slot, func, newFb>>
      /\ bar' = bar + 2 /\ decode' = [decode EXCEPT ![<<slot, func>>] = TRUE]
  BY DEF Enable, Moving, Busy
<1>2. Memory' = Memory
  BY <1>1 DEF Memory
<1>3. \A r : /\ Moved(r)' <=> Moved(r)
             /\ Original(r)' <=> Original(r)
             /\ WasHigh(r)' <=> WasHigh(r)
  BY <1>1 DEF Moved, Original, WasHigh, Above
<1>4. OthersOriginal' /\ MovedBelow'
  BY <1>1, <1>2, <1>3 DEF BarsInv, OthersOriginal, MovedBelow
<1>5. HereIsHigh' /\ WindowFits' /\ WalkedAll'
  BY <1>1 DEF HereIsHigh, WindowFits, WalkedAll, Busy
<1>6. AllMoved'
  <2> SUFFICES ASSUME NEW r \in Memory, WasHigh(r), Passed(r)'
               PROVE  Moved(r)
    BY <1>2, <1>3 DEF AllMoved
  <2>1. /\ r = <<r[1], r[2], r[3]>> /\ r[1] \in Nat /\ r[2] \in Nat /\ r[3] \in Nat
        /\ machine.kind[r] = "low64"
    BY HighParts
  <2>2. slot \in Nat /\ func \in Nat /\ bar \in Nat
    BY PciAssumption DEF Typed
  <2>3. CASE Passed(r)
    BY <2>3 DEF BarsInv, AllMoved
  <2>4. CASE r = Here
    BY <1>1, <2>1, <2>4 DEF BarsInv, WindowFits, Moved, WasHigh
  <2>5. CASE r = Above(Here)
    <3>1. Here \in Registers /\ machine.kind[Here] = "low64"
      BY <1>1, HereIsBar DEF Memory
    <3>2. machine.kind[r] = "high64"
      BY <2>5, <3>1 DEF Uncrowded
    <3> QED BY <2>1, <3>2
  <2>6. \/ r[1] < slot \/ (r[1] = slot /\ r[2] < func)
        \/ r[1] = slot /\ r[2] = func /\ r[3] < bar + 2
    BY <1>1 DEF Passed
  <2>7. \/ r[1] < slot \/ (r[1] = slot /\ r[2] < func)
        \/ r[1] = slot /\ r[2] = func /\ r[3] < bar
        \/ r[1] = slot /\ r[2] = func /\ r[3] = bar
        \/ r[1] = slot /\ r[2] = func /\ r[3] = bar + 1
    BY <2>1, <2>2, <2>6
  <2>8. Passed(r) \/ r = Here \/ r = Above(Here)
    BY <1>1, <2>1, <2>7 DEF Passed, Here, Above
  <2> QED BY <2>3, <2>4, <2>5, <2>8
<1>7. Restored'
  <2>1. \A f \in Functions : f # <<slot, func>> => decode'[f] = decode[f]
    BY <1>1 DEF Typed
  <2>2. \A f \in Functions : f = <<slot, func>> => decode'[f] = TRUE
    BY <1>1 DEF Typed
  <2> QED
    BY <1>1, <2>1, <2>2 DEF BarsInv, Restored
<1>8. FbInHome'
  BY <1>1, <1>2 DEF BarsInv, FbInHome, Place, Home, Address, Above
<1> QED
  BY <1>4, <1>5, <1>6, <1>7, <1>8 DEF BarsInv

LEMMA BarsStep ==
    ASSUME Typed, Uncrowded(machine), Enumerated(machine), BarsInv, [PciNext]_pciVars
    PROVE  BarsInv'
<1>1. CASE EnterFunction \/ LeaveFunction \/ Finish \/ SkipBar
  BY <1>1, BarsWalk
<1>2. CASE Disable
  BY <1>2, BarsDisable
<1>3. CASE Probe
  BY <1>3, BarsProbe
<1>4. CASE WriteLow
  BY <1>4, BarsWriteLow
<1>5. CASE WriteHigh
  BY <1>5, BarsWriteHigh
<1>6. CASE Enable
  BY <1>6, BarsEnable
<1>7. CASE UNCHANGED pciVars
  <2>1. /\ Here' = Here /\ Memory' = Memory /\ Busy' = Busy /\ Moving' = Moving
    BY <1>7 DEF pciVars, hwVars, Here, Memory, Busy, Moving
  <2>2. \A r : /\ Moved(r)' <=> Moved(r)
               /\ Original(r)' <=> Original(r)
               /\ WasHigh(r)' <=> WasHigh(r)
               /\ Passed(r)' <=> Passed(r)
               /\ Home(r)' <=> Home(r)
               /\ Place(r)' = Place(r)
               /\ Address(machine.addr, r)' = Address(machine.addr, r)
    BY <1>7, <2>1 DEF pciVars, hwVars, Moved, Original, WasHigh, Passed, Home, Place, Address,
       Above
  <2>3. OthersOriginal' /\ MovedBelow' /\ AllMoved'
    BY <1>7, <2>1, <2>2 DEF pciVars, hwVars, BarsInv, OthersOriginal, MovedBelow, AllMoved
  <2>4. HereIsHigh' /\ WindowFits'
    BY <1>7, <2>1 DEF pciVars, hwVars, BarsInv, HereIsHigh, WindowFits, Above, Kept
  <2>5. Restored' /\ WalkedAll' /\ FbInHome'
    BY <1>7, <2>1, <2>2 DEF pciVars, hwVars, BarsInv, Restored, WalkedAll, FbInHome
  <2> QED BY <2>3, <2>4, <2>5 DEF BarsInv
<1> QED
  BY <1>1, <1>2, <1>3, <1>4, <1>5, <1>6, <1>7 DEF PciNext

-----------------------------------------------------------------------------
(* Where every BAR and the frame buffer end up: the results                *)

\* When the walk is over, a BAR that was above 4 GB has been moved.
LEMMA DoneBars ==
    ASSUME Typed, Uncrowded(machine), Enumerated(machine), BarsInv, rpc = "done"
    PROVE  /\ \A r \in Memory : WasHigh(r) => Moved(r)
           /\ \A r \in Memory : ~WasHigh(r) => Original(r)
<1>1. slot = Slots
  BY DEF BarsInv, WalkedAll
<1>2. ASSUME NEW r \in Memory, WasHigh(r)
      PROVE  Moved(r)
  <2>1. r[1] < Slots
    BY <1>2, HighParts
  <2> QED
    BY <1>1, <1>2, <2>1 DEF Passed, BarsInv, AllMoved
<1>3. ASSUME NEW r \in Memory, ~WasHigh(r)
      PROVE  Original(r)
  <2>1. ~Moved(r)
    BY <1>3 DEF Moved, WasHigh
  <2> QED
    BY <2>1 DEF BarsInv, OthersOriginal, Busy
<1> QED BY <1>2, <1>3

LEMMA BarsBelow4GHolds ==
    ASSUME Typed, Uncrowded(machine), Enumerated(machine), BarsInv
    PROVE  BarsBelow4G
<1> SUFFICES ASSUME rpc = "done" PROVE BarsBelow4G
  BY DEF BarsBelow4G
<1>0. Space \in Nat \ {0}
  BY PciAssumption
<1>1. ASSUME NEW r \in Memory
      PROVE  /\ Address(addr, r) + machine.size[r] <= Space
             /\ Address(machine.addr, r) < Space => addr[r] = machine.addr[r]
  <2>0. /\ machine.addr[r] \in Nat /\ machine.size[r] \in Nat /\ r \in Registers
        /\ addr[r] \in Nat /\ machine.kind[r] \in {"mem32", "low64"}
        /\ machine.kind[r] = "low64" => machine.addr[Above(r)] \in Nat
    BY FirstAddress DEF Typed
  <2>1. CASE WasHigh(r)
    <3>1. Moved(r)
      BY <2>1, DoneBars
    <3>2. Address(addr, r) = addr[r]
      BY <1>0, <2>0, <3>1 DEF Moved, Address
    <3>3. addr[r] + machine.size[r] <= Space
      BY <3>1 DEF BarsInv, MovedBelow
    <3>4. PICK k \in Nat \ {0} : k = machine.addr[Above(r)] /\ machine.kind[r] = "low64"
      BY <2>0, <2>1 DEF WasHigh
    <3>5. Space <= Space * k /\ Space * k \in Nat
      BY <1>0, <3>4, SMTT(20)
    <3>6. Space <= Address(machine.addr, r) /\ Address(machine.addr, r) \in Nat
      BY <1>0, <2>0, <3>4, <3>5 DEF Address
    <3> QED
      BY <1>0, <3>2, <3>3, <3>6
  <2>2. CASE ~WasHigh(r)
    <3>1. Original(r)
      BY <2>2, DoneBars
    <3>2. machine.addr[r] + machine.size[r] <= Space
      BY <2>0, <2>2 DEF WasHigh, Enumerated
    <3>3. Address(addr, r) = machine.addr[r]
      BY <1>0, <2>0, <2>2, <3>1 DEF Original, WasHigh, Address
    <3> QED
      BY <3>1, <3>2, <3>3 DEF Original
  <2> QED BY <2>1, <2>2
<1>2. \A f \in Functions : machine.decode[f] => decode[f]
  BY DEF BarsInv, Restored, Moving
<1> QED BY <1>1, <1>2 DEF BarsBelow4G

LEMMA BarsInitInv ==
    ASSUME \A t \in Topologies : Uncrowded(t) /\ Enumerated(t)
    PROVE  PciInit => Typed /\ BarsInv
BY TypedInit, BarsInit DEF PciInit

LEMMA BarsStepInv ==
    ASSUME \A t \in Topologies : Uncrowded(t) /\ Enumerated(t)
    PROVE  Typed /\ BarsInv /\ [PciNext]_pciVars => Typed' /\ BarsInv'
<1> SUFFICES ASSUME Typed, BarsInv, [PciNext]_pciVars
             PROVE  Typed' /\ BarsInv'
  OBVIOUS
<1>1. Uncrowded(machine) /\ Enumerated(machine)
  BY DEF Typed
<1> QED
  BY <1>1, TypedStep, BarsStep

LEMMA BarsByInv ==
    ASSUME \A t \in Topologies : Uncrowded(t) /\ Enumerated(t)
    PROVE  Typed /\ BarsInv => BarsBelow4G
BY BarsBelow4GHolds DEF Typed

\* The walk does what it is for, on every machine that is enumerated as PCI has
\* it and whose BARs do not crowd the windows: when it is over no BAR is above
\* 4 GB, even when next_32bit_base has wrapped; BARs that were below are where
\* they were; and memory decoding is back on wherever it was.
THEOREM NothingStaysAbove4G ==
    ASSUME \A t \in Topologies : Uncrowded(t) /\ Enumerated(t)
    PROVE  LoaderSpec => []BarsBelow4G
<1>1. LoaderInit => PciInit
  BY DEF LoaderInit
<1>2. [LoaderNext]_loaderVars => [PciNext]_pciVars
  BY Zenon DEF LoaderNext, LoaderStep, BootStep, WalkStep, FramebufferTold, EventStep, loaderVars
<1> QED
  BY <1>1, <1>2, BarsInitInv, BarsStepInv, BarsByInv, PTL DEF LoaderSpec

\* After the walk the kernel is told what it found.
TellInv == pc \in {"jump", "kernel"} => rpc = "done" /\ fbTold = newFb

LEMMA TellInit == LoaderInit => TellInv
BY DEF LoaderInit, Init, TellInv

LEMMA TellStep == TellInv /\ [LoaderNext]_loaderVars => TellInv'
<1> SUFFICES ASSUME TellInv, [LoaderNext]_loaderVars PROVE TellInv'
    OBVIOUS
<1>1. CASE BootStep
  <2>1. rpc' = rpc /\ newFb' = newFb /\ fbTold' = fbTold
        BY <1>1 DEF BootStep, pciVars
  <2>2. pc' \in {"jump", "kernel"} => pc = "jump"
        BY <1>1 DEF BootStep, ReadKernel, ReserveKernelSpace, LoadElf, TrampolineLow,
           TrampolineAny, GetMemoryMap, ExitBootServices, Convert, Jump, Again
  <2> QED BY <2>1, <2>2 DEF TellInv
<1>2. CASE WalkStep
      BY <1>2 DEF WalkStep, vars, loader, TellInv
<1>3. CASE FramebufferTold
      BY <1>3 DEF FramebufferTold, RemapPci, pciVars, TellInv
<1>4. CASE EventStep
      BY <1>4 DEF EventStep, Event, loader, pciVars, TellInv
<1>5. CASE UNCHANGED loaderVars
      BY <1>5 DEF loaderVars, vars, loader, pciVars, TellInv
<1> QED
    BY <1>1, <1>2, <1>3, <1>4, <1>5 DEF LoaderNext, LoaderStep

LEMMA FramebufferByInv ==
    ASSUME BarsInv, TellInv
    PROVE  FramebufferFollows
<1> SUFFICES ASSUME pc \in {"jump", "kernel"} PROVE FramebufferFollows
    BY DEF FramebufferFollows
<1>1. rpc = "done" /\ fbTold = newFb /\ FbInHome
      BY DEF TellInv, BarsInv
<1>2. \A r \in Memory : Place(r) = Address(addr, r)
      BY <1>1 DEF Place, Busy
<1> QED
    BY <1>1, <1>2 DEF FbInHome, Home, FramebufferFollows

\* The kernel draws where the graphics card is: on the same machines, however
\* many BARs are moved and whichever the frame buffer is in.
THEOREM KernelDrawsOnTheCard ==
    ASSUME \A t \in Topologies : Uncrowded(t) /\ Enumerated(t)
    PROVE  LoaderSpec => []FramebufferFollows
<1>1. LoaderInit => PciInit
      BY DEF LoaderInit
<1>2. [LoaderNext]_loaderVars => [PciNext]_pciVars
      BY Zenon DEF LoaderNext, LoaderStep, BootStep, WalkStep, FramebufferTold, EventStep,
         loaderVars
<1>3. BarsInv /\ TellInv => FramebufferFollows
      BY FramebufferByInv
<1> QED
    BY <1>1, <1>2, <1>3, BarsInitInv, BarsStepInv, TellInit, TellStep, PTL DEF LoaderSpec
=============================================================================
