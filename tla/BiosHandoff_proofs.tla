-------------------------- MODULE BiosHandoff_proofs --------------------------
(***************************************************************************)
(* What the BIOS path tells the kernel is true, and the pause is as long   *)
(* as announced: for memory maps, mode lists, tables and pauses of any     *)
(* length, and any answers of the firmware, the keyboard controller and    *)
(* the clock.                                                              *)
(***************************************************************************)
EXTENDS BiosHandoff, SequenceTheorems, TLAPS

-----------------------------------------------------------------------------
(* The inductive invariant, by what each part is for                       *)

Told == {"second", "poll", "kernel"}
Stored == {"a20", "port92", "kbc", "load", "mbi"}

Typed ==
    /\ ranges \in RangeLists
    /\ mmap = [n \in 1 .. Slots |-> mmap[n]]
    /\ count \in 0 .. Len(ranges)
    /\ pc \in {"e820", "query", "set", "stored", "text", "halted"} \cup Stored \cup Told
    /\ s \in 0 .. Seconds /\ (pc = "poll" => s > 0)
    /\ rtc \in [sec : 0 .. 2, uip : BOOLEAN] /\ ticks \in Nat

\* Every slot in front of the video mode's description holds its range, until
\* the map was told.
SlotsHoldRanges ==
    pc \notin Told => \A n \in 1 .. count : n < GfxSlot => mmap[n] = ranges[n]

\* The description follows the mode from the query to the multiboot information.
DescriptionFollows ==
    /\ pc \in {"set", "stored"} => info = Modes[k]
    /\ pc = "stored" => screen = Modes[k]
    /\ pc \in Stored => gfx = screen

\* A second that is over began with a tick of the clock, or was given up.
PauseCounted ==
    pc \in Told /\ ~timedOut =>
       /\ ticks >= Seconds - s
       /\ pc = "poll" /\ rtc.sec # start => ticks > Seconds - s
       /\ pc = "kernel" => s = 0

HInv ==
    /\ Typed /\ SlotsHoldRanges /\ DescriptionFollows /\ PauseCounted
    /\ MapTold /\ FramebufferTold /\ PauseIsLong

-----------------------------------------------------------------------------
LEMMA RangeFacts ==
    ASSUME Typed
    PROVE  /\ ranges \in Seq({ranges[n] : n \in DOMAIN ranges})
           /\ Len(ranges) \in Nat /\ Len(ranges) <= Slots
           /\ count \in Nat /\ Slots \in Nat /\ GfxSlot \in Nat
           /\ MaxEntries \in Nat /\ MaxEntries < GfxSlot /\ MaxEntries >= 3
<1>1. ranges \in Seq({ranges[n] : n \in DOMAIN ranges}) /\ Len(ranges) <= Slots
      BY BiosHandoffAssumption, Zenon DEF Typed
<1>2. Len(ranges) \in Nat
      BY <1>1
<1>3. Slots \in Nat /\ GfxSlot \in Nat \ {0} /\ MaxEntries \in 3 .. GfxSlot - 1
      BY BiosHandoffAssumption
<1>4. count \in 0 .. Len(ranges)
      BY DEF Typed
<1> QED BY <1>1, <1>2, <1>3, <1>4

LEMMA TypedStep == Typed /\ [Next]_vars => Typed'
<1> SUFFICES ASSUME Typed, [Next]_vars PROVE Typed'
    OBVIOUS
<1> USE DEF Typed, Told, Stored, machine, memory, video, clock
<1>0. Seconds \in Nat
      BY BiosHandoffAssumption
<1>1. CASE E820Entry
  <2>1. count + 1 \in 0 .. Len(ranges)
        BY <1>1, RangeFacts DEF E820Entry
  <2> QED BY <1>1, <2>1 DEF E820Entry
<1>2. CASE E820Ends
      BY <1>2 DEF E820Ends
<1>3. CASE QueryMode \/ SetMode
      BY <1>3 DEF QueryMode, SetMode, TryNextMode
<1>4. CASE ModeIsSet \/ TextFallback
      BY <1>4 DEF ModeIsSet, TextFallback, StoreGfx
<1>5. CASE A20IsOpen \/ A20Bios \/ A20Port92 \/ A20Keyboard
      BY <1>5 DEF A20IsOpen, A20Bios, A20Port92, A20Keyboard, Try
<1>6. CASE LoadKernel
      BY <1>6 DEF LoadKernel
<1>7. CASE FillMbi
  <2>1. mmap' = [n \in 1 .. Slots |-> mmap'[n]]
        BY <1>7 DEF FillMbi
  <2>2. s' \in 0 .. Seconds
        BY <1>0, <1>7 DEF FillMbi
  <2> QED BY <1>7, <2>1, <2>2 DEF FillMbi
<1>8. CASE StartSecond \/ Jump
      BY <1>8 DEF StartSecond, Jump
<1>9. CASE Poll
  <2>1. pc = "poll" /\ pc' \in {"second", "poll"} /\ (pc' = "poll" => s' = s)
        BY <1>9 DEF Poll
  <2>2. s' \in 0 .. Seconds
        BY <1>0, <1>9 DEF Poll
  <2> QED BY <1>9, <2>1, <2>2 DEF Poll
<1>10. CASE UpdateBegins
       BY <1>10 DEF UpdateBegins
<1>11. CASE UpdateEnds
  <2>1. (rtc.sec + 1) % 3 \in 0 .. 2
        OBVIOUS
  <2> QED BY <1>11, <2>1 DEF UpdateEnds
<1>12. CASE UNCHANGED vars
       BY <1>12 DEF vars
<1> QED BY <1>1, <1>2, <1>3, <1>4, <1>5, <1>6, <1>7, <1>8, <1>9, <1>10, <1>11, <1>12
        DEF Next, Step

LEMMA SlotsStep ==
    ASSUME Typed, SlotsHoldRanges, [Next]_vars
    PROVE  SlotsHoldRanges'
<1> USE DEF SlotsHoldRanges, Told, Typed, machine, memory, video, clock
<1>1. CASE E820Entry
  <2>1. /\ mmap' = [mmap EXCEPT ![count + 1] = ranges[count + 1]]
        /\ count' = count + 1 /\ ranges' = ranges /\ pc = "e820"
        BY <1>1 DEF E820Entry
  <2>2. count + 1 \in 1 .. Slots
        BY <1>1, RangeFacts DEF E820Entry
  <2>3. \A n \in 1 .. count + 1 : n \in 1 .. Slots /\ (n = count + 1 \/ n \in 1 .. count)
        BY <2>2, RangeFacts
  <2> QED BY <2>1, <2>2, <2>3
<1>2. CASE E820Ends \/ LoadKernel \/ Jump
      BY <1>2 DEF E820Ends, LoadKernel, Jump
<1>3. CASE QueryMode \/ SetMode
      BY <1>3 DEF QueryMode, SetMode, TryNextMode
<1>4. CASE ModeIsSet \/ TextFallback
  <2>1. /\ mmap' = [n \in 1 .. Slots |-> IF n >= GfxSlot THEN Junk ELSE mmap[n]]
        /\ UNCHANGED <<count, ranges>> /\ pc \notin Told
        BY <1>4 DEF ModeIsSet, TextFallback, StoreGfx
  <2>2. \A n \in 1 .. count : n \in 1 .. Slots /\ (n < GfxSlot => ~(n >= GfxSlot))
        BY RangeFacts
  <2> QED BY <2>1, <2>2
<1>5. CASE A20IsOpen \/ A20Bios \/ A20Port92 \/ A20Keyboard
      BY <1>5 DEF A20IsOpen, A20Bios, A20Port92, A20Keyboard, Try
<1>6. CASE FillMbi \/ StartSecond \/ Poll
      BY <1>6 DEF FillMbi, StartSecond, Poll
<1>7. CASE UpdateBegins \/ UpdateEnds
      BY <1>7 DEF UpdateBegins, UpdateEnds
<1>8. CASE UNCHANGED vars
      BY <1>8 DEF vars
<1> QED BY <1>1, <1>2, <1>3, <1>4, <1>5, <1>6, <1>7, <1>8 DEF Next, Step

\* The map is told when every accepted slot holds its range.
LEMMA MapToldStep ==
    ASSUME Typed, SlotsHoldRanges, MapTold, [Next]_vars
    PROVE  MapTold'
<1> USE DEF MapTold, Typed, Told, Stored, machine, memory, video, clock
<1>1. CASE FillMbi
  <2>1. ASSUME count \in 1 .. MaxEntries
        PROVE  FirstEntries(count) = SubSeq(ranges, 1, count)
    <3>1. \A j \in 1 .. count : j < GfxSlot
          BY <2>1, RangeFacts
    <3>2. \A j \in 1 .. count : mmap[j] = ranges[j]
          BY <1>1, <3>1 DEF FillMbi, SlotsHoldRanges
    <3>3. SubSeq(ranges, 1, count) = [j \in 1 .. count |-> ranges[j]]
      <4>1. \A j \in 1 .. count : 1 + j - 1 = j
            BY RangeFacts
      <4>2. count - 1 + 1 = count
            BY RangeFacts
      <4> QED BY <4>1, <4>2, RangeFacts, SubSeqProperties
    <3> QED BY <3>2, <3>3 DEF FirstEntries
  <2> QED BY <1>1, <2>1 DEF FillMbi
<1>2. CASE E820Entry \/ E820Ends \/ LoadKernel \/ Jump
      BY <1>2 DEF E820Entry, E820Ends, LoadKernel, Jump
<1>3. CASE QueryMode \/ SetMode \/ ModeIsSet \/ TextFallback
      BY <1>3 DEF QueryMode, SetMode, TryNextMode, ModeIsSet, TextFallback, StoreGfx
<1>4. CASE A20IsOpen \/ A20Bios \/ A20Port92 \/ A20Keyboard
      BY <1>4 DEF A20IsOpen, A20Bios, A20Port92, A20Keyboard, Try
<1>5. CASE StartSecond \/ Poll
      BY <1>5 DEF StartSecond, Poll
<1>6. CASE UpdateBegins \/ UpdateEnds
      BY <1>6 DEF UpdateBegins, UpdateEnds
<1>7. CASE UNCHANGED vars
      BY <1>7 DEF vars
<1> QED BY <1>1, <1>2, <1>3, <1>4, <1>5, <1>6, <1>7 DEF Next, Step

LEMMA DescriptionStep ==
    ASSUME Typed, DescriptionFollows, FramebufferTold, [Next]_vars
    PROVE  DescriptionFollows' /\ FramebufferTold'
<1> USE DEF DescriptionFollows, FramebufferTold, Stored, machine, memory, video, clock
<1>1. CASE E820Entry \/ E820Ends
      BY <1>1 DEF E820Entry, E820Ends
<1>2. CASE QueryMode
      BY <1>2 DEF QueryMode, TryNextMode
<1>3. CASE SetMode
      BY <1>3 DEF SetMode, TryNextMode
<1>4. CASE ModeIsSet \/ TextFallback
      BY <1>4 DEF ModeIsSet, TextFallback, StoreGfx
<1>5. CASE A20IsOpen \/ A20Bios \/ A20Port92 \/ A20Keyboard
      BY <1>5 DEF A20IsOpen, A20Bios, A20Port92, A20Keyboard, Try
<1>6. CASE LoadKernel \/ FillMbi \/ Jump
      BY <1>6 DEF LoadKernel, FillMbi, FrameBufferOf, Jump
<1>7. CASE StartSecond \/ Poll
      BY <1>7 DEF StartSecond, Poll
<1>8. CASE UpdateBegins \/ UpdateEnds
      BY <1>8 DEF UpdateBegins, UpdateEnds
<1>9. CASE UNCHANGED vars
      BY <1>9 DEF vars
<1> QED BY <1>1, <1>2, <1>3, <1>4, <1>5, <1>6, <1>7, <1>8, <1>9 DEF Next, Step

LEMMA PauseStep ==
    ASSUME Typed, PauseCounted, [Next]_vars
    PROVE  PauseCounted'
<1> USE DEF PauseCounted, Typed, Told, Stored, machine, memory, video, clock
<1>0. Seconds \in Nat /\ s \in Nat
      BY BiosHandoffAssumption
<1>1. CASE E820Entry \/ E820Ends
      BY <1>1 DEF E820Entry, E820Ends
<1>2. CASE QueryMode \/ SetMode
      BY <1>2 DEF QueryMode, SetMode, TryNextMode
<1>3. CASE ModeIsSet \/ TextFallback
      BY <1>3 DEF ModeIsSet, TextFallback, StoreGfx
<1>4. CASE A20IsOpen \/ A20Bios \/ A20Port92 \/ A20Keyboard
      BY <1>4 DEF A20IsOpen, A20Bios, A20Port92, A20Keyboard, Try
<1>5. CASE LoadKernel
      BY <1>5 DEF LoadKernel
<1>6. CASE FillMbi
      BY <1>0, <1>6 DEF FillMbi
<1>7. CASE StartSecond
      BY <1>7 DEF StartSecond
<1>8. CASE Poll
  <2>1. CASE UNCHANGED <<pc, s, timedOut>>
        BY <1>8, <2>1 DEF Poll
  <2>2. CASE rtc.sec = start /\ pc' = "second"
        BY <1>8, <2>2 DEF Poll
  <2>3. CASE rtc.sec # start
    <3>1. pc = "poll" /\ pc' = "second" /\ s' = s - 1 /\ ticks' = ticks
          BY <1>8, <2>3 DEF Poll
    <3>2. ~timedOut' => ~timedOut
          BY <1>8, <2>3, Zenon DEF Poll
    <3> QED BY <1>0, <2>3, <3>1, <3>2
  <2> QED BY <1>8, <2>1, <2>2, <2>3 DEF Poll
<1>9. CASE Jump
      BY <1>9 DEF Jump
<1>10. CASE UpdateBegins
       BY <1>10 DEF UpdateBegins
<1>11. CASE UpdateEnds
  <2>1. ticks' = ticks + 1 /\ UNCHANGED <<pc, s, timedOut>>
        BY <1>11 DEF UpdateEnds
  <2> QED BY <1>0, <2>1
<1>12. CASE UNCHANGED vars
       BY <1>12 DEF vars
<1> QED BY <1>1, <1>2, <1>3, <1>4, <1>5, <1>6, <1>7, <1>8, <1>9, <1>10, <1>11, <1>12
        DEF Next, Step

-----------------------------------------------------------------------------
(* The theorems                                                            *)

LEMMA PauseIsLongByInv == Typed /\ PauseCounted => PauseIsLong
BY BiosHandoffAssumption DEF Typed, PauseCounted, PauseIsLong, Told

LEMMA InitHInv == Init => HInv
<1> SUFFICES ASSUME Init PROVE HInv
    OBVIOUS
<1>1. Typed
  <2>1. ranges \in Seq({ranges[n] : n \in DOMAIN ranges})
        BY BiosHandoffAssumption, Zenon DEF Init
  <2>2. 0 \in 0 .. Len(ranges)
        BY <2>1
  <2>3. 0 \in 0 .. Seconds
        BY BiosHandoffAssumption
  <2> QED BY <2>2, <2>3 DEF Init, Typed
<1>2. SlotsHoldRanges
      BY DEF Init, SlotsHoldRanges
<1>3. DescriptionFollows /\ PauseCounted
      BY DEF Init, DescriptionFollows, Stored, PauseCounted, Told
<1>4. MapTold /\ FramebufferTold
      BY DEF Init, MapTold, FramebufferTold
<1> QED BY <1>1, <1>2, <1>3, <1>4, PauseIsLongByInv DEF HInv

LEMMA StepHInv == HInv /\ [Next]_vars => HInv'
<1> SUFFICES ASSUME HInv, [Next]_vars PROVE HInv'
    OBVIOUS
<1>1. Typed' /\ SlotsHoldRanges' /\ MapTold'
      BY TypedStep, SlotsStep, MapToldStep DEF HInv
<1>2. DescriptionFollows' /\ FramebufferTold'
      BY DescriptionStep DEF HInv
<1>3. PauseCounted'
      BY PauseStep DEF HInv
<1>4. PauseIsLong'
      BY <1>1, <1>3, BiosHandoffAssumption DEF Typed, PauseCounted, PauseIsLong, Told
<1> QED BY <1>1, <1>2, <1>3, <1>4 DEF HInv

LEMMA Inductive == Spec => []HInv
BY InitHInv, StepHInv, PTL DEF Spec

\* The kernel is told the ranges the firmware delivered, or the default map.
THEOREM MapIsTold == Spec => []MapTold
<1>1. HInv => MapTold
      BY DEF HInv
<1> QED BY Inductive, <1>1, PTL

\* The kernel is told the video mode that is set, if it has a linear frame
\* buffer or is the text mode.
THEOREM FramebufferIsTold == Spec => []FramebufferTold
<1>1. HInv => FramebufferTold
      BY DEF HInv
<1> QED BY Inductive, <1>1, PTL

\* The pause sees as many seconds begin as announced, or gave up on one.
THEOREM PauseLasts == Spec => []PauseIsLong
<1>1. HInv => PauseIsLong
      BY DEF HInv
<1> QED BY Inductive, <1>1, PTL
=============================================================================
