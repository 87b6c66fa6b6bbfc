-------------------------- MODULE Efi32Loader_proofs --------------------------
(***************************************************************************)
(* The 32-bit UEFI loader implements Handoff, for all memory maps, buffer  *)
(* and table sizes, and any number of events; its search for the kernel    *)
(* file ends rightly, whatever volumes the machine has and whatever calls  *)
(* on them fail; and elf32_load() keeps its promises in it.                *)
(***************************************************************************)
EXTENDS Efi32Loader, ElfLoad_proofs

-----------------------------------------------------------------------------
(* The memory map buffer and convert_memory_map()                          *)

\* A map has a length, and the multiboot table a size.
LEMMA MapsHaveLength ==
    ASSUME NEW m \in Maps
    PROVE  Len(m) \in Nat
BY FirmwareAssumption

\* No more entries are stored than there are descriptors.
LEMMA StoredBounds ==
    ASSUME NEW n \in Nat
    PROVE  /\ Stored(n) \in 0 .. n
           /\ Stored(n) \in 0 .. MmapEntries
           /\ MmapEntries \in Nat
BY FirmwareAssumption DEF Stored

\* convert_memory_map() looks at the first n descriptors of the buffer only.
LEMMA BufferReport ==
    ASSUME NEW b, NEW m, Len(m) \in Nat,
           \A i \in 1 .. Len(m) : b[i] = m[i]
    PROVE  ConvertMemoryMap(b, Len(m)) = ReportOf(m)
<1> DEFINE n == Len(m)  k == Stored(n)
<1>0. k \in 0 .. n /\ n \in Nat
      BY StoredBounds
<1> HIDE DEF n, k
<1>1. \A i \in 1 .. k : b[i] = m[i]
  <2>1. \A i \in 1 .. k : i \in 1 .. n
        BY ONLY <1>0, SMT
  <2> QED BY <2>1 DEF n
<1> USE DEF n, k
<1>2. Entries(b, Len(m)) = Entries(m, Len(m))
      BY <1>1 DEF Entries
<1> QED BY <1>2 DEF ConvertMemoryMap, ReportOf

\* After GetMemoryMap the buffer describes the firmware's map.
LEMMA DeliveredMap ==
    ASSUME map \in Maps, MapDelivered
    PROVE  /\ num' = Len(map) /\ Len(map) \in Nat
           /\ \A i \in 1 .. Len(map) : buf'[i] = map[i]
<1>1. Len(map) \in Nat /\ Len(map) <= BufDescs /\ BufDescs \in Nat
      BY MapsHaveLength, FirmwareAssumption DEF MapDelivered, Fits
<1>2. \A i \in 1 .. Len(map) : i \in 1 .. BufDescs /\ i <= Len(map)
      BY ONLY <1>1, SMT
<1>3. \A i \in 1 .. Len(map) : buf'[i] = map[i]
      BY <1>2 DEF MapDelivered
<1> QED BY <1>1, <1>3 DEF MapDelivered

-----------------------------------------------------------------------------
(* The way to the kernel: Efi32Boot                                        *)

LEMMA InitIInv == Init => IInv
BY DEF Init, FirmwareInit, IInv, ActiveUntilExit, KeyMeansFresh, FinalMapTold

\* When the map changes under the loader, the key it holds becomes stale.
LEMMA NewMapKey ==
    ASSUME NewMap
    PROVE  ~keyFresh' /\ keyFresh' \in BOOLEAN /\ map' \in Maps /\ active /\ active' = active
BY DEF NewMap

LEMMA StepIInv == IInv /\ [Next]_vars => IInv'
<1> SUFFICES ASSUME IInv, [Next]_vars PROVE IInv'
    OBVIOUS
<1> USE DEF IInv, ActiveUntilExit, KeyMeansFresh, FinalMapTold
<1>1. CASE Event
  <2>1. NewMap /\ UNCHANGED <<bufVars, pc, mbi>>
        BY <1>1 DEF Event
  <2> QED BY <2>1, NewMapKey DEF bufVars
<1>2. CASE ReadKernel
  <2>1. CASE NewMap
        BY <1>2, <2>1, NewMapKey DEF ReadKernel, bufVars
  <2>2. CASE UNCHANGED fwVars
        BY <1>2, <2>2 DEF ReadKernel, bufVars, fwVars
  <2> QED BY <1>2, <2>1, <2>2 DEF ReadKernel
<1>3. CASE LoadElf
      BY <1>3 DEF LoadElf, fwVars, bufVars
<1>4. CASE Pause
      BY <1>4 DEF Pause, fwVars, bufVars
<1>5. CASE GetMemoryMap
  <2>1. CASE MapDelivered /\ mbi' = ConvertMemoryMap(buf', num') /\ pc' = "exit"
    <3>1. mbi' = ReportOf(map)
          BY <2>1, DeliveredMap, BufferReport
    <3> QED BY <1>5, <2>1, <3>1 DEF GetMemoryMap, MapDelivered, fwVars
  <2>2. CASE MapTooLarge /\ UNCHANGED <<pc, mbi>>
        BY <1>5, <2>2 DEF GetMemoryMap, MapTooLarge, fwVars
  <2> QED BY <1>5, <2>1, <2>2 DEF GetMemoryMap
<1>6. CASE ExitBootServices
      BY <1>6 DEF ExitBootServices, ExitAccepted, ExitRefused, bufVars
<1>7. CASE Jump
      BY <1>7 DEF Jump, fwVars, bufVars
<1>8. CASE UNCHANGED vars
      BY <1>8 DEF vars, fwVars, bufVars
<1> QED
    BY <1>1, <1>2, <1>3, <1>4, <1>5, <1>6, <1>7, <1>8 DEF Next, Step

LEMMA Inductive == Spec => []IInv
BY InitIInv, StepIInv, PTL DEF Spec

-----------------------------------------------------------------------------
\* The refinement, state by state.
LEMMA InitImplements == Init => Abstract!Init
BY DEF Init, FirmwareInit, Abstract!Init

\* Each step is a step of Handoff or invisible to it.
LEMMA StepImplements == IInv /\ [Next]_vars => [Abstract!Next]_(Abstract!vars)
<1> SUFFICES ASSUME IInv, [Next]_vars PROVE [Abstract!Next]_(Abstract!vars)
    OBVIOUS
<1> USE DEF IInv, ActiveUntilExit, FinalMapTold
<1>1. CASE Event
      BY <1>1 DEF Event, NewMap, bufVars, Abstract!Next, Abstract!MapChanges
<1>2. CASE ReadKernel
      BY <1>2 DEF ReadKernel, NewMap, fwVars, bufVars, Abstract!Next, Abstract!vars,
                  Abstract!MapChanges, Abstract!Halt
<1>3. CASE LoadElf
      BY <1>3 DEF LoadElf, fwVars, bufVars, Abstract!Next, Abstract!vars, Abstract!Halt
<1>4. CASE Pause
      BY <1>4 DEF Pause, fwVars, bufVars, Abstract!vars
<1>5. CASE GetMemoryMap
      BY <1>5 DEF GetMemoryMap, fwVars, Abstract!vars
<1>6. CASE ExitBootServices
      BY <1>6 DEF ExitBootServices, ExitAccepted, Abstract!Next, Abstract!vars,
                  Abstract!EndServices
<1>7. CASE Jump
      BY <1>7 DEF Jump, fwVars, bufVars, Abstract!Next, Abstract!EnterKernel
<1>8. CASE UNCHANGED vars
      BY <1>8 DEF vars, fwVars, bufVars, Abstract!vars
<1> QED
    BY <1>1, <1>2, <1>3, <1>4, <1>5, <1>6, <1>7, <1>8 DEF Next, Step

\* The 32-bit loader enters the kernel only after boot services have ended and
\* tells it the firmware's last memory map; it never gives up.
THEOREM HandoffImplemented == Spec => ImplementsHandoff
BY Inductive, InitImplements, StepImplements, PTL DEF Spec, ImplementsHandoff, Abstract!Spec

\* The search for the kernel file takes the place of ReadKernel, and
\* elf32_load() that of LoadElf.
LEMMA LoaderStepIsStep == [LoaderNext]_loaderVars => [Next]_vars
<1> SUFFICES ASSUME [LoaderNext]_loaderVars PROVE [Next]_vars
    OBVIOUS
<1>1. CASE SearchStep
      BY <1>1, Zenon DEF SearchStep
<1>2. CASE SearchEnds
      BY <1>2, Zenon DEF SearchEnds, Next, Step
<1>3. CASE ElfStep
      BY <1>3, Zenon DEF ElfStep
<1>4. CASE ElfEnds
      BY <1>4, Zenon DEF ElfEnds, Next, Step
<1>5. CASE BootStep
      BY <1>5, Zenon DEF BootStep, Next, Step
<1>6. CASE EventStep
      BY <1>6, Zenon DEF EventStep, Next
<1>7. CASE UNCHANGED loaderVars
      BY <1>7, Zenon DEF loaderVars
<1> QED
    BY <1>1, <1>2, <1>3, <1>4, <1>5, <1>6, <1>7, Zenon DEF LoaderNext, LoaderStep

\* So does the loader that searches volumes, whatever it finds and whatever
\* calls fail.
THEOREM LoaderImplementsHandoff == LoaderSpec => ImplementsHandoff
<1>1. LoaderInit => Init
      BY DEF LoaderInit
<1> QED
    BY <1>1, LoaderStepIsStep, InitIInv, StepIInv, InitImplements, StepImplements, PTL
    DEF LoaderSpec, ImplementsHandoff, Abstract!Spec

-----------------------------------------------------------------------------
(* The search for the kernel file: the inductive invariant                 *)

\* Places in Order: how many volumes the boot device, LocateProtocol and the
\* handles name, and the place of the one that is worked on.
HandleCount == Len(sys.handles)
Booted  == IF sys.boot = 0 THEN 0 ELSE 1
Located == IF sys.located = 0 THEN 0 ELSE 1
At == IF via = "image" THEN 1
      ELSE IF via = "locate" THEN Booted + 1 ELSE Booted + Located + h

\* So many volumes of Order are behind the search.
Behind ==
    IF kpc = "image" THEN 0
    ELSE IF kpc = "locate" THEN Booted
    ELSE IF kpc = "handles" THEN Booted + Located
    ELSE IF kpc = "each" THEN Booted + Located + h - 1
    ELSE IF kpc = "notFound" THEN Len(Order)
    ELSE At - 1

Working == kpc \in {"volume", "paths", "listing", "openListed", "read"}

SearchTyped ==
    /\ sys \in Systems
    /\ kpc \in {"image", "locate", "handles", "each", "volume", "paths", "listing",
               "openListed", "read", "found", "notFound"}
    /\ via \in {"image", "locate", "each"}
    /\ h \in Nat /\ p \in Nat /\ pos \in Nat

\* The volume worked on is the one at its place.
AtItsPlace ==
    /\ kpc = "each" => h \in 1 .. HandleCount + 1
    /\ Working \/ kpc = "found" =>
          /\ via = "image" => sys.boot # 0 /\ vol = sys.boot
          /\ via = "locate" => sys.located # 0 /\ vol = sys.located
          /\ via = "each" => h \in 1 .. HandleCount /\ vol = sys.handles[h]

\* No volume behind the search was passed over.
NonePassedOver == \A m \in 1 .. Behind : Offers(Order[m]) => Order[m] \in failed

\* What has been looked at of the volume worked on holds no kernel, unless a
\* call failed on it.
NotThere ==
    vol \notin failed =>
       /\ kpc = "paths" => \A q \in 1 .. p - 1 : q \notin V.paths
       /\ kpc = "listing" =>
             pos > 0 /\ V.paths = {} /\ \A i \in 1 .. pos - 1 : V.dir[i] # "kernel"

\* What is open or allocated, and when.
OpenNow ==
    /\ root \in BOOLEAN /\ (root <=> kpc \in {"paths", "listing", "openListed", "read"})
    /\ file \in BOOLEAN /\ (file <=> kpc = "read")
    /\ pool \in BOOLEAN /\ (pool <=> kpc = "each" \/ (Working /\ via = "each"))

CameWhole == kpc = "found" => out = Room /\ \A k \in 1 .. out : dest[k] = <<vol, k>>

SearchInv ==
    SearchTyped /\ AtItsPlace /\ NonePassedOver /\ NotThere /\ OpenNow /\ CameWhole

-----------------------------------------------------------------------------
LEMMA SeqOfOne ==
    ASSUME NEW S, NEW x \in S
    PROVE  <<x>> \in Seq(S) /\ Len(<<x>>) = 1 /\ <<x>>[1] = x
OBVIOUS

LEMMA Concatenated ==
    ASSUME NEW S, NEW a \in Seq(S), NEW b \in Seq(S)
    PROVE  /\ a \o b \in Seq(S) /\ Len(a \o b) = Len(a) + Len(b)
           /\ Len(a) \in Nat /\ Len(b) \in Nat
           /\ \A i \in 1 .. Len(a) : (a \o b)[i] = a[i]
           /\ \A i \in 1 .. Len(b) : (a \o b)[Len(a) + i] = b[i]
OBVIOUS

\* Order is the boot device, the located volume and the handles, in this order.
LEMMA OrderFacts ==
    ASSUME sys \in Systems
    PROVE  /\ Booted \in 0 .. 1 /\ Located \in 0 .. 1 /\ HandleCount \in Nat
           /\ Len(Order) = Booted + Located + HandleCount
           /\ DOMAIN Order = 1 .. Len(Order)
           /\ sys.boot # 0 => Order[1] = sys.boot
           /\ sys.located # 0 => Order[Booted + 1] = sys.located
           /\ \A i \in 1 .. HandleCount : Order[Booted + Located + i] = sys.handles[i]
<1> DEFINE S == DOMAIN sys.volume
           a == IF sys.boot = 0 THEN <<>> ELSE <<sys.boot>>
           b == IF sys.located = 0 THEN <<>> ELSE <<sys.located>>
           c == sys.handles
<1>1. {sys.boot, sys.located} \subseteq S \cup {0} /\ c \in Seq(S)
      BY KernelFileAssumption
<1>2. a \in Seq(S) /\ Len(a) = Booted /\ (sys.boot # 0 => a[1] = sys.boot)
  <2>1. CASE sys.boot = 0
        BY <2>1 DEF Booted
  <2>2. CASE sys.boot # 0
    <3>1. sys.boot \in S /\ a = <<sys.boot>>
          BY <1>1, <2>2
    <3> QED BY <2>2, <3>1, SeqOfOne DEF Booted
  <2> QED BY <2>1, <2>2
<1>3. b \in Seq(S) /\ Len(b) = Located /\ (sys.located # 0 => b[1] = sys.located)
  <2>1. CASE sys.located = 0
        BY <2>1 DEF Located
  <2>2. CASE sys.located # 0
    <3>1. sys.located \in S /\ b = <<sys.located>>
          BY <1>1, <2>2
    <3> QED BY <2>2, <3>1, SeqOfOne DEF Located
  <2> QED BY <2>1, <2>2
<1>4. Order = (a \o b) \o c
      BY DEF Order
<1>5. Booted \in 0 .. 1 /\ (sys.boot # 0 => Booted = 1)
      BY DEF Booted
<1>6. Located \in 0 .. 1 /\ (sys.located # 0 => Located = 1)
      BY DEF Located
<1> HIDE DEF S, a, b, c
<1>7. /\ a \o b \in Seq(S) /\ Len(a \o b) = Booted + Located
      /\ \A i \in 1 .. Booted : (a \o b)[i] = a[i]
      /\ \A i \in 1 .. Located : (a \o b)[Booted + i] = b[i]
  <2>1. a \in Seq(S) /\ b \in Seq(S)
        BY <1>2, <1>3
  <2>2. /\ a \o b \in Seq(S) /\ Len(a \o b) = Len(a) + Len(b)
        /\ \A i \in 1 .. Len(a) : (a \o b)[i] = a[i]
        /\ \A i \in 1 .. Len(b) : (a \o b)[Len(a) + i] = b[i]
        BY ONLY <2>1, Concatenated
  <2> QED BY ONLY <2>2, <1>2, <1>3, Zenon
<1>8. /\ Order \in Seq(S) /\ Len(Order) = (Booted + Located) + Len(c) /\ Len(c) \in Nat
      /\ \A i \in 1 .. Booted + Located : Order[i] = (a \o b)[i]
      /\ \A i \in 1 .. Len(c) : Order[(Booted + Located) + i] = c[i]
      BY <1>1, <1>4, <1>7, Concatenated
<1>9. sys.boot # 0 => Order[1] = sys.boot
      BY <1>2, <1>5, <1>6, <1>7, <1>8
<1>10. sys.located # 0 => Order[Booted + 1] = sys.located
       BY <1>3, <1>5, <1>6, <1>7, <1>8
<1>11. DOMAIN Order = 1 .. Len(Order)
       BY <1>8
<1> QED BY <1>5, <1>6, <1>8, <1>9, <1>10, <1>11 DEF c, HandleCount

\* The volume worked on is a volume of the machine, and has its place in Order.
LEMMA VolumeKnown ==
    ASSUME SearchTyped, AtItsPlace, Working \/ kpc = "found"
    PROVE  /\ At \in 1 .. Len(Order) /\ Order[At] = vol /\ Behind = At - 1
           /\ vol \in DOMAIN sys.volume
           /\ V.size \in Nat /\ V.paths \subseteq 1 .. Paths
           /\ V.dir \in Seq({"kernel", "other", "long"})
<1>0. sys \in Systems
      BY DEF SearchTyped
<1>1. /\ Booted \in 0 .. 1 /\ (sys.boot # 0 => Booted = 1)
      /\ Located \in 0 .. 1 /\ (sys.located # 0 => Located = 1)
      BY DEF Booted, Located
<1>P. /\ Len(Order) = Booted + Located + HandleCount /\ HandleCount \in Nat
      /\ sys.boot # 0 => Order[1] = sys.boot
      /\ sys.located # 0 => Order[Booted + 1] = sys.located
      BY <1>0, OrderFacts
<1>2. At \in 1 .. Len(Order) /\ Order[At] = vol
  <2>1. CASE via = "image"
    <3>1. sys.boot # 0 /\ vol = sys.boot /\ At = 1
          BY <2>1 DEF AtItsPlace, At
    <3> QED BY <1>1, <1>P, <3>1
  <2>2. CASE via = "locate"
    <3>1. sys.located # 0 /\ vol = sys.located /\ At = Booted + 1
          BY <2>2 DEF AtItsPlace, At
    <3> QED BY <1>1, <1>P, <3>1
  <2>3. CASE via = "each"
    <3>1. h \in 1 .. HandleCount /\ vol = sys.handles[h] /\ At = Booted + Located + h
          BY <2>3 DEF AtItsPlace, At
    <3> QED BY <1>0, <1>1, <3>1, OrderFacts
  <2> QED BY <2>1, <2>2, <2>3 DEF SearchTyped
<1>3. vol \in DOMAIN sys.volume
  <2>1. /\ {sys.boot, sys.located} \subseteq DOMAIN sys.volume \cup {0}
        /\ \A i \in 1 .. HandleCount : sys.handles[i] \in DOMAIN sys.volume
        BY <1>0, KernelFileAssumption DEF HandleCount
  <2> QED BY <2>1 DEF AtItsPlace, SearchTyped
<1>4. Behind = At - 1
      BY DEF Behind, Working
<1> QED BY <1>0, <1>2, <1>3, <1>4, KernelFileAssumption DEF V

\* An error on a volume moves the search past it.
LEMMA NextVolume ==
    ASSUME SearchTyped, AtItsPlace, Working, NextSearch, UNCHANGED sys
    PROVE  /\ kpc' \in {"locate", "handles", "each"} /\ (kpc' = "each" <=> via = "each")
           /\ via' = via /\ vol' = vol /\ h' \in Nat
           /\ kpc' = "each" => h' \in 1 .. HandleCount + 1
           /\ Behind' = At
<1>1. /\ Booted \in 0 .. 1 /\ (sys.boot # 0 => Booted = 1) /\ Booted' = Booted
      /\ Located \in 0 .. 1 /\ (sys.located # 0 => Located = 1) /\ Located' = Located
      BY DEF Booted, Located
<1>2. HandleCount \in Nat
      BY OrderFacts DEF SearchTyped
<1>3. CASE via = "image"
      BY <1>1, <1>3 DEF NextSearch, SearchTyped, AtItsPlace, Behind, At
<1>4. CASE via = "locate"
      BY <1>1, <1>4 DEF NextSearch, SearchTyped, AtItsPlace, Behind, At
<1>5. CASE via = "each"
  <2>1. kpc' = "each" /\ h' = h + 1 /\ via' = via /\ vol' = vol /\ h \in 1 .. HandleCount
        BY <1>5 DEF NextSearch, AtItsPlace
  <2>2. At = Booted + Located + h /\ Behind' = Booted' + Located' + h' - 1
        BY <1>5, <2>1 DEF At, Behind
  <2> QED BY <1>1, <1>2, <1>5, <2>1, <2>2
<1> QED BY <1>3, <1>4, <1>5 DEF SearchTyped

-----------------------------------------------------------------------------
(* The search for the kernel file: the steps                               *)

LEMMA InitSearchInv == FileInit => SearchInv
<1> SUFFICES ASSUME FileInit PROVE SearchInv
    OBVIOUS
<1>1. NonePassedOver
      BY DEF FileInit, NonePassedOver, Behind
<1> QED BY <1>1 DEF FileInit, SearchInv, SearchTyped, AtItsPlace, NotThere, OpenNow, CameWhole,
                    Working

\* The firmware's volumes stay, and a failed call is not forgotten.
LEMMA VolumesKept ==
    [FileNext]_fileVars => /\ sys' = sys /\ failed \subseteq failed'
                           /\ HandleCount' = HandleCount
                           /\ Booted' = Booted /\ Located' = Located /\ Order' = Order
<1> SUFFICES ASSUME [FileNext]_fileVars PROVE sys' = sys /\ failed \subseteq failed'
    BY DEF HandleCount, Booted, Located, Order
<1> QED
    BY DEF FileNext, fileVars, AskImage, AskLocate, AskHandles, TryHandle, AllHandlesTried,
           OpenVolume, OpenPath, BeginListing, ReadEntry, OpenListed, EndListing, ReadFile,
           ReadFileFails, CallFails

LEMMA SearchTypedStep ==
    ASSUME SearchTyped, AtItsPlace, [FileNext]_fileVars
    PROVE  SearchTyped' /\ AtItsPlace'
<1>0. sys' = sys /\ HandleCount' = HandleCount /\ HandleCount \in Nat
      BY VolumesKept, OrderFacts DEF SearchTyped
<1> USE DEF SearchTyped, AtItsPlace, Working
<1>1. CASE AskImage
      BY <1>0, <1>1 DEF AskImage, TryVolume, files
<1>2. CASE AskLocate
      BY <1>0, <1>2 DEF AskLocate, TryVolume, files
<1>3. CASE AskHandles
      BY <1>0, <1>3 DEF AskHandles
<1>4. CASE TryHandle
      BY <1>0, <1>4 DEF TryHandle, TryVolume, files, HandleCount
<1>5. CASE AllHandlesTried \/ BeginListing \/ ReadEntry \/ ReadFile
      BY <1>0, <1>5 DEF AllHandlesTried, BeginListing, ReadEntry, ReadFile
<1>6. CASE OpenPath \/ OpenListed
      BY <1>0, <1>6 DEF OpenPath, OpenListed
<1>7. CASE OpenVolume
  <2>1. CASE kpc' = "paths" /\ p' = 1 /\ UNCHANGED <<via, h, vol>>
        BY <1>0, <1>7, <2>1 DEF OpenVolume
  <2>2. CASE NextSearch /\ UNCHANGED p
    <3>1. Working /\ pos' = pos
          BY <1>7 DEF OpenVolume
    <3> QED BY <1>0, <2>2, <3>1, NextVolume
  <2> QED BY <1>7, <2>1, <2>2 DEF OpenVolume
<1>8. CASE EndListing \/ ReadFileFails
  <2>1. Working /\ NextSearch /\ UNCHANGED <<p, pos>>
        BY <1>8 DEF EndListing, ReadFileFails
  <2> QED BY <1>0, <2>1, NextVolume
<1>9. CASE UNCHANGED fileVars
      BY <1>0, <1>9 DEF fileVars, search
<1> QED BY <1>1, <1>2, <1>3, <1>4, <1>5, <1>6, <1>7, <1>8, <1>9 DEF FileNext

LEMMA OpenStep ==
    ASSUME SearchTyped, AtItsPlace, OpenNow, [FileNext]_fileVars
    PROVE  OpenNow'
<1> USE DEF SearchTyped, OpenNow, Working
<1>1. CASE AskImage
      BY <1>1 DEF AskImage, TryVolume, files
<1>2. CASE AskLocate
      BY <1>2 DEF AskLocate, TryVolume, files
<1>3. CASE AskHandles
      BY <1>3 DEF AskHandles
<1>4. CASE TryHandle
  <2>1. kpc = "each" /\ kpc' = "volume" /\ via' = "each" /\ UNCHANGED <<root, file, pool>>
        BY <1>4, Zenon DEF TryHandle, TryVolume, files
  <2> QED BY <2>1
<1>5. CASE AllHandlesTried \/ BeginListing \/ ReadEntry \/ ReadFile
  <2>1. CASE AllHandlesTried
    <3>1. /\ kpc = "each" /\ kpc' = "notFound" /\ via' = via /\ pool' = FALSE
          /\ UNCHANGED <<root, file>>
          BY <2>1, Zenon DEF AllHandlesTried
    <3> QED BY <3>1
  <2>2. CASE BeginListing
        BY <2>2 DEF BeginListing, files
  <2>3. CASE ReadEntry
        BY <2>3 DEF ReadEntry, files
  <2>4. CASE ReadFile
        BY <2>4 DEF ReadFile
  <2> QED BY <1>5, <2>1, <2>2, <2>3, <2>4
<1>6. CASE OpenPath \/ OpenListed
  <2>1. /\ kpc \in {"paths", "openListed"} /\ via' = via /\ root' = root /\ pool' = pool
        /\ \/ kpc' = "read" /\ file' = TRUE
           \/ kpc' \in {"paths", "listing"} /\ file' = file
        BY <1>6, Zenon DEF OpenPath, OpenListed
  <2>2. Working /\ Working' /\ kpc # "each" /\ kpc' # "each"
        BY <2>1
  <2>3. root' \in BOOLEAN /\ (root' <=> kpc' \in {"paths", "listing", "openListed", "read"})
        BY <2>1
  <2>4. file' \in BOOLEAN /\ (file' <=> kpc' = "read")
    <3>1. CASE kpc' = "read" /\ file' = TRUE
          BY <3>1
    <3>2. CASE kpc' \in {"paths", "listing"} /\ file' = file
      <4>1. file = FALSE
            BY <2>1
      <4> QED BY <3>2, <4>1
    <3> QED BY <2>1, <3>1, <3>2
  <2>5. pool' \in BOOLEAN /\ (pool' <=> kpc' = "each" \/ (Working' /\ via' = "each"))
        BY <2>1, <2>2
  <2> QED BY <2>3, <2>4, <2>5
<1>7. CASE OpenVolume
  <2>1. CASE kpc' = "paths" /\ root' = TRUE /\ UNCHANGED <<via, file, pool>>
        BY <1>7, <2>1 DEF OpenVolume
  <2>2. CASE NextSearch /\ UNCHANGED <<root, file, pool>>
        BY <1>7, <2>2, NextVolume DEF OpenVolume
  <2> QED BY <1>7, <2>1, <2>2 DEF OpenVolume
<1>8. CASE EndListing \/ ReadFileFails
  <2>1. Working /\ NextSearch /\ root' = FALSE /\ file' = FALSE /\ pool' = pool /\ sys' = sys
        BY <1>8 DEF EndListing, ReadFileFails
  <2> QED BY <2>1, NextVolume
<1>9. CASE UNCHANGED fileVars
      BY <1>9 DEF fileVars, search, files
<1> QED BY <1>1, <1>2, <1>3, <1>4, <1>5, <1>6, <1>7, <1>8, <1>9 DEF FileNext

LEMMA WholeStep ==
    ASSUME SearchTyped, AtItsPlace, CameWhole, [FileNext]_fileVars
    PROVE  CameWhole'
<1> USE DEF CameWhole
<1>1. CASE ReadFile
  <2>1. /\ kpc = "read" /\ dest' = Filled(Room) /\ out' = Room /\ UNCHANGED <<sys, vol>>
        BY <1>1 DEF ReadFile
  <2>2. V.size \in Nat /\ MaxSize \in Nat
        BY <2>1, VolumeKnown, KernelFileAssumption DEF Working
  <2>3. Room \in Nat /\ Room <= MaxSize /\ Room' = Room
        BY <2>1, <2>2 DEF Room, V
  <2>4. ASSUME NEW k \in 1 .. Room
        PROVE  Filled(Room)[k] = <<vol, k>>
    <3>1. k \in 1 .. MaxSize /\ k <= Room
          BY <2>2, <2>3
    <3> QED BY <3>1 DEF Filled
  <2> QED BY <2>1, <2>3, <2>4
<1>2. CASE AskImage \/ AskLocate \/ AskHandles \/ TryHandle \/ AllHandlesTried
      BY <1>2 DEF AskImage, AskLocate, AskHandles, TryHandle, AllHandlesTried, TryVolume
<1>3. CASE OpenPath \/ BeginListing \/ ReadEntry \/ OpenListed
      BY <1>3 DEF OpenPath, BeginListing, ReadEntry, OpenListed
<1>4. CASE OpenVolume \/ EndListing \/ ReadFileFails
  <2>1. Working /\ sys' = sys /\ (kpc' = "paths" \/ NextSearch)
        BY <1>4 DEF OpenVolume, EndListing, ReadFileFails, Working
  <2> QED BY <2>1, NextVolume
<1>5. CASE UNCHANGED fileVars
      BY <1>5 DEF fileVars, search, Room, V
<1> QED BY <1>1, <1>2, <1>3, <1>4, <1>5 DEF FileNext

LEMMA NotThereStep ==
    ASSUME SearchTyped, AtItsPlace, NotThere, [FileNext]_fileVars
    PROVE  NotThere'
<1> USE DEF NotThere
<1>1. CASE kpc' \notin {"paths", "listing"}
      BY <1>1
<1>2. CASE vol' = vol /\ vol \in failed'
      BY <1>2
<1>3. CASE OpenVolume /\ kpc' = "paths" /\ p' = 1
      BY <1>3
<1>4. CASE OpenPath
  <2>1. CASE p \notin V.paths /\ p' = p + 1 /\ UNCHANGED <<kpc, file, failed>>
    <3>1. kpc = "paths" /\ UNCHANGED <<sys, vol, kpc, failed>> /\ p' = p + 1 /\ V' = V
          BY <1>4, <2>1 DEF OpenPath, V
    <3>2. \A q \in 1 .. p : q \in 1 .. p - 1 \/ q = p
          BY DEF SearchTyped
    <3>3. \A q \in 1 .. p' - 1 : q \in 1 .. p
          BY <3>1 DEF SearchTyped
    <3> QED BY <2>1, <3>1, <3>2, <3>3
  <2> QED BY <1>1, <1>2, <1>4, <2>1 DEF OpenPath, CallFails
<1>5. CASE BeginListing
  <2>1. /\ kpc = "paths" /\ p > Paths /\ kpc' = "listing" /\ pos' = 1
        /\ UNCHANGED <<sys, vol, failed>> /\ V' = V
        BY <1>5 DEF BeginListing, V
  <2>2. V.paths \subseteq 1 .. Paths /\ Paths \in Nat
        BY <2>1, VolumeKnown, KernelFileAssumption DEF Working
  <2>3. \A q \in 1 .. Paths : q \in 1 .. p - 1
        BY <2>1, <2>2 DEF SearchTyped
  <2>4. \A i \in 1 .. pos' - 1 : FALSE
        BY <2>1
  <2> QED BY <2>1, <2>2, <2>3, <2>4
<1>6. CASE ReadEntry
  <2>1. CASE V.dir[pos] # "kernel"
    <3>1. kpc = "listing" /\ UNCHANGED <<sys, vol, failed>> /\ V' = V /\ pos' = pos + 1
          BY <1>6 DEF ReadEntry, V
    <3>2. \A i \in 1 .. pos' - 1 : i \in 1 .. pos - 1 \/ i = pos
          BY <3>1 DEF SearchTyped
    <3>3. pos > 0 => pos' > 0
          BY <3>1 DEF SearchTyped
    <3> QED BY <1>6, <2>1, <3>1, <3>2, <3>3 DEF ReadEntry
  <2>2. CASE V.dir[pos] = "kernel"
        BY <1>1, <1>6, <2>2 DEF ReadEntry
  <2> QED BY <2>1, <2>2
<1>7. CASE OpenListed
      BY <1>1, <1>2, <1>7 DEF OpenListed, CallFails
<1>8. CASE AskImage \/ AskLocate \/ AskHandles \/ TryHandle \/ AllHandlesTried \/ ReadFile
      BY <1>1, <1>8
      DEF AskImage, AskLocate, AskHandles, TryHandle, AllHandlesTried, TryVolume, ReadFile
<1>9. CASE OpenVolume \/ EndListing \/ ReadFileFails
  <2>1. (kpc' = "paths" /\ p' = 1 /\ OpenVolume) \/ (NextSearch /\ Working /\ sys' = sys)
        BY <1>9 DEF OpenVolume, EndListing, ReadFileFails, Working
  <2> QED BY <1>1, <1>3, <2>1, NextVolume
<1>10. CASE UNCHANGED fileVars
       BY <1>10 DEF fileVars, search, V
<1> QED BY <1>4, <1>5, <1>6, <1>7, <1>8, <1>9, <1>10 DEF FileNext

\* When the list of the root directory has ended, the volume offers nothing.
LEMMA ListedWithout ==
    ASSUME SearchTyped, AtItsPlace, NotThere, kpc = "listing", vol \notin failed,
           pos <= Len(V.dir) => V.dir[pos] = "long"
    PROVE  ~Offers(vol)
<1>1. pos > 0 /\ V.paths = {} /\ \A i \in 1 .. pos - 1 : V.dir[i] # "kernel"
      BY DEF NotThere
<1>2. V.dir \in Seq({"kernel", "other", "long"})
      BY VolumeKnown DEF Working
<1>3. PICK n \in Nat : n = Len(V.dir) /\ DOMAIN V.dir = 1 .. n
      BY <1>2
<1>4. ASSUME NEW i \in 1 .. n, V.dir[i] = "kernel", \A j \in 1 .. i : V.dir[j] # "long"
      PROVE  FALSE
  <2>1. i \notin 1 .. pos - 1
        BY <1>1, <1>4
  <2>2. pos <= i /\ pos <= n
        BY <2>1 DEF SearchTyped
  <2>3. V.dir[pos] = "long"
        BY <1>3, <2>2
  <2> QED BY <1>1, <1>4, <2>2, <2>3 DEF SearchTyped
<1> QED BY <1>1, <1>3, <1>4 DEF Offers, V

\* The search passes a volume over only if it offers nothing or a call failed.
LEMMA PassedOverStep ==
    ASSUME SearchTyped, AtItsPlace, NonePassedOver, NotThere, [FileNext]_fileVars
    PROVE  NonePassedOver'
<1>0. /\ sys' = sys /\ Order' = Order /\ failed \subseteq failed' /\ sys \in Systems
      /\ HandleCount' = HandleCount /\ Booted' = Booted /\ Located' = Located
      BY VolumesKept DEF SearchTyped
<1>1. NonePassedOver' <=> \A m \in 1 .. Behind' : Offers(Order[m]) => Order[m] \in failed'
      BY <1>0 DEF NonePassedOver, Offers
<1>2. CASE Behind' = Behind
      BY <1>0, <1>1, <1>2 DEF NonePassedOver
<1>3. CASE Working /\ NextSearch /\ (Offers(vol) => vol \in failed')
  <2>1. Behind' = At /\ Behind = At - 1 /\ At \in 1 .. Len(Order) /\ Order[At] = vol
        BY <1>0, <1>3, NextVolume, VolumeKnown
  <2>2. \A m \in 1 .. At : m \in 1 .. At - 1 \/ m = At
        BY <2>1
  <2> QED BY <1>0, <1>1, <1>3, <2>1, <2>2 DEF NonePassedOver
<1>F. /\ HandleCount \in Nat /\ Len(Order) = Booted + Located + HandleCount
      /\ Booted \in 0 .. 1 /\ Located \in 0 .. 1
      BY <1>0, OrderFacts
<1>4. CASE AskImage
  <2>1. Behind' = Behind
        BY <1>0, <1>4 DEF AskImage, TryVolume, Behind, At, Booted
  <2> QED BY <1>2, <2>1
<1>5. CASE AskLocate
  <2>1. Behind' = Behind
        BY <1>0, <1>F, <1>5 DEF AskLocate, TryVolume, Behind, At, Located
  <2> QED BY <1>2, <2>1
<1>6. CASE AskHandles
  <2>1. /\ kpc = "handles"
        /\ (kpc' = "each" /\ h' = 1) \/ (kpc' = "notFound" /\ sys.handles = <<>>)
        BY <1>6, Zenon DEF AskHandles
  <2>2. sys.handles = <<>> => HandleCount = 0
        BY DEF HandleCount
  <2>3. Behind' = Behind
    <3>1. CASE kpc' = "each" /\ h' = 1
      <4>1. Behind = Booted + Located /\ Behind' = Booted' + Located' + h' - 1
            BY <2>1, <3>1 DEF Behind
      <4> QED BY <1>0, <1>F, <3>1, <4>1
    <3>2. CASE kpc' = "notFound" /\ HandleCount = 0
      <4>1. Behind = Booted + Located /\ Behind' = Len(Order')
            BY <2>1, <3>2 DEF Behind
      <4> QED BY <1>0, <1>F, <3>2, <4>1
    <3> QED BY <2>1, <2>2, <3>1, <3>2
  <2> QED BY <1>2, <2>3
<1>7. CASE TryHandle
  <2>1. kpc = "each" /\ kpc' = "volume" /\ via' = "each" /\ h' = h
        BY <1>7, Zenon DEF TryHandle, TryVolume
  <2>2. Behind = Booted + Located + h - 1 /\ Behind' = At' - 1
        BY <2>1 DEF Behind
  <2>3. At' = Booted' + Located' + h'
        BY <2>1 DEF At
  <2>4. Behind' = Behind
        BY <1>0, <1>F, <2>1, <2>2, <2>3 DEF SearchTyped
  <2> QED BY <1>2, <2>4
<1>8. CASE AllHandlesTried
  <2>1. kpc = "each" /\ kpc' = "notFound" /\ h > HandleCount
        BY <1>8, Zenon DEF AllHandlesTried, HandleCount
  <2>2. h = HandleCount + 1
        BY <1>F, <2>1 DEF AtItsPlace
  <2>3. Behind' = Behind
        BY <1>0, <1>F, <2>1, <2>2 DEF Behind
  <2> QED BY <1>2, <2>3
<1>9. CASE OpenPath \/ BeginListing \/ ReadEntry \/ OpenListed \/ ReadFile
  <2>1. Working /\ (Working' \/ kpc' = "found") /\ via' = via /\ h' = h
    <3>1. CASE OpenPath
          BY <3>1 DEF OpenPath, Working
    <3>2. CASE BeginListing \/ ReadEntry \/ ReadFile
          BY <3>2 DEF BeginListing, ReadEntry, ReadFile, Working
    <3>3. CASE OpenListed
          BY <3>3 DEF OpenListed, Working
    <3> QED BY <1>9, <3>1, <3>2, <3>3
  <2>2. At' = At
        BY <1>0, <2>1 DEF At
  <2>3. Behind' = Behind
        BY <2>1, <2>2 DEF Behind, Working
  <2> QED BY <1>2, <2>3
<1>10. CASE OpenVolume
  <2>1. CASE kpc' = "paths" /\ UNCHANGED <<via, h>>
    <3>1. At' = At /\ kpc = "volume"
          BY <1>0, <1>10, <2>1 DEF At, OpenVolume
    <3>2. Behind' = Behind
          BY <2>1, <3>1 DEF Behind
    <3> QED BY <1>2, <3>2
  <2> QED BY <1>3, <1>10, <2>1 DEF OpenVolume, CallFails, Working
<1>11. CASE EndListing
  <2>1. /\ kpc = "listing" /\ NextSearch
        /\ (pos <= Len(V.dir) => V.dir[pos] = "long") \/ vol \in failed'
        BY <1>11 DEF EndListing, CallFails
  <2>2. Offers(vol) => vol \in failed'
        BY <1>0, <2>1, ListedWithout
  <2> QED BY <1>3, <2>1, <2>2 DEF Working
<1>12. CASE ReadFileFails
       BY <1>3, <1>12 DEF ReadFileFails, CallFails, Working
<1>13. CASE UNCHANGED fileVars
  <2>1. Behind' = Behind
        BY <1>0, <1>13 DEF fileVars, search, Behind, At
  <2> QED BY <1>2, <2>1
<1> QED BY <1>4, <1>5, <1>6, <1>7, <1>8, <1>9, <1>10, <1>11, <1>12, <1>13 DEF FileNext

LEMMA StepSearchInv == SearchInv /\ [FileNext]_fileVars => SearchInv'
BY SearchTypedStep, OpenStep, WholeStep, NotThereStep, PassedOverStep DEF SearchInv

LEMMA SearchInvImplies == SearchInv => KernelIsFirstOffer /\ NotFoundJustified /\ NothingLeftOpen
<1> SUFFICES ASSUME SearchInv PROVE KernelIsFirstOffer /\ NotFoundJustified /\ NothingLeftOpen
    OBVIOUS
<1>0. DOMAIN Order = 1 .. Len(Order)
      BY OrderFacts DEF SearchInv, SearchTyped
<1>1. ASSUME kpc = "found"
      PROVE  \E n \in DOMAIN Order :
                Order[n] = vol /\ \A m \in 1 .. n - 1 : Offers(Order[m]) => Order[m] \in failed
  <2>1. At \in DOMAIN Order /\ Order[At] = vol /\ Behind = At - 1
        BY <1>0, <1>1, VolumeKnown DEF SearchInv
  <2> QED BY <2>1 DEF SearchInv, NonePassedOver
<1>2. KernelIsFirstOffer
      BY <1>1 DEF KernelIsFirstOffer, SearchInv, CameWhole
<1>3. NotFoundJustified
      BY <1>0 DEF NotFoundJustified, SearchInv, NonePassedOver, Behind
<1>4. NothingLeftOpen
      BY DEF NothingLeftOpen, SearchInv, OpenNow, Working
<1> QED BY <1>2, <1>3, <1>4

\* In the loader, only the search changes what the search is about.
LEMMA LoaderKeepsSearchInv == SearchInv /\ [LoaderNext]_loaderVars => SearchInv'
<1>1. [LoaderNext]_loaderVars => [FileNext]_fileVars
      BY Zenon DEF LoaderNext, LoaderStep, SearchStep, SearchEnds, ElfStep, ElfEnds, BootStep,
                   EventStep, loaderVars
<1> QED BY <1>1, StepSearchInv

LEMMA SearchInvariant == LoaderSpec => []SearchInv
<1>1. LoaderInit => SearchInv
      BY InitSearchInv DEF LoaderInit
<1> QED BY <1>1, LoaderKeepsSearchInv, PTL DEF LoaderSpec

\* The kernel comes whole from the first volume, in the order of the search,
\* that offers it and on which no call failed.
THEOREM FirstOfferTaken == LoaderSpec => []KernelIsFirstOffer
BY SearchInvariant, SearchInvImplies, PTL

\* The loader reports that there is no kernel only when every volume lacks it
\* or failed.
THEOREM NotFoundIsTrue == LoaderSpec => []NotFoundJustified
BY SearchInvariant, SearchInvImplies, PTL

\* Whatever calls fail, the search leaves no file, root or handle buffer open.
THEOREM EverythingClosed == LoaderSpec => []NothingLeftOpen
BY SearchInvariant, SearchInvImplies, PTL

-----------------------------------------------------------------------------
(* elf32_load() in the loader                                              *)

\* In the loader, only elf32_load() changes what it works on.
LEMMA LoaderKeepsElfInv == ElfInv /\ [LoaderNext]_loaderVars => ElfInv'
<1>1. [LoaderNext]_loaderVars => [ElfNext]_elfVars
      BY Zenon DEF LoaderNext, LoaderStep, SearchStep, SearchEnds, ElfStep, ElfEnds, BootStep,
                   EventStep, loaderVars
<1> QED BY <1>1, ElfStepInv

LEMMA ElfInvariant == LoaderSpec => []ElfInv
<1>1. LoaderInit => ElfInv
      BY ElfInitInv DEF LoaderInit
<1> QED BY <1>1, LoaderKeepsElfInv, PTL DEF LoaderSpec

\* When the loader goes on with an entry point, every segment is in memory,
\* complete and followed by its cleared BSS.
THEOREM SegmentsAreLoaded == LoaderSpec => []KernelIsLoaded
BY ElfInvariant, ElfInvImplies, PTL

\* elf32_load() writes nowhere but in the segments, and nobody else does.
THEOREM NothingElseWritten == LoaderSpec => []OnlySegmentsWritten
BY ElfInvariant, ElfInvImplies, PTL

\* The loader goes on with the kernel's entry point if every header and segment
\* is in the file, and gives up if not.
THEOREM VerdictsAreRight == LoaderSpec => []VerdictIsRight
BY ElfInvariant, ElfInvImplies, PTL
=============================================================================
