----------------------------- MODULE BiosHandoff -----------------------------
(***************************************************************************)
(* What the real-mode second stage of IO.SYS (io16.S) finds out and leaves *)
(* at 0x8000 (memory map) and 0x9000 (video mode), how it opens the A20    *)
(* gate, and what bios_loader_main() makes of it for the kernel, up to the *)
(* pause before the jump.                                                  *)
(*                                                                         *)
(* The E820 entries begin at 0x8004, 24 bytes each, and nothing limits     *)
(* their number: from slot GfxSlot on they lie where the video mode's      *)
(* description is stored.  A video mode is its number; its description is  *)
(* the mode, or "text".  Loading the kernel file is one step here.         *)
(***************************************************************************)
EXTENDS Naturals, Sequences

CONSTANTS
    RangeLists,   \* memory maps the firmware may report
    Slots,        \* bound: entries of the longest of them
    GfxSlot,      \* the first slot that reaches 0x9000 (171)
    MaxEntries,   \* entries bios_loader_main() accepts (128)
    Modes,        \* the video modes in the order they are tried
    LinearSets,   \* choices of the modes that have a linear frame buffer
    Seconds,      \* seconds of the pause (5)
    Timeout,      \* polls of the clock per second (2000000)
    MaxTicks,     \* bound: the clock stops after so many ticks
    Junk

\* A description that reaches a slot bios_loader_main() accepts would be
\* taken for an entry.
ASSUME BiosHandoffAssumption ==
    /\ \A l \in RangeLists : l \in Seq({l[n] : n \in DOMAIN l}) /\ Len(l) <= Slots
    /\ Slots \in Nat /\ GfxSlot \in Nat \ {0} /\ MaxEntries \in 3 .. GfxSlot - 1
    /\ Len(Modes) > 0 /\ "text" \notin {Modes[k] : k \in DOMAIN Modes}
    /\ \A l \in LinearSets : l \subseteq {Modes[n] : n \in DOMAIN Modes}
    /\ Seconds \in Nat /\ Timeout \in Nat /\ MaxTicks \in Nat

VARIABLES
    ranges,  \* the firmware's memory map
    linear,  \* the modes whose descriptions give an address, sizes and a depth
    kbc,     \* does the keyboard controller answer?
    screen,  \* the video mode that is set
    a20,     \* is the gate open?
    rtc,     \* the clock: [sec, uip]
    pc,
    mmap,    \* memory from 0x8004 on, by slots
    count,   \* EBP, then the word at 0x8000
    k,       \* the mode that is being tried
    info,    \* vbe_mode_info: the mode it describes
    gfx,     \* memory at 0x9000
    mbi,     \* [mmap, fb] of the multiboot information
    s, start, timeout, \* pause_seconds()
    ticks, timedOut    \* history: ticks during the pause, was one missed?

machine == <<ranges, linear, kbc, screen, a20, rtc>>
memory == <<mmap, count, gfx>>
video == <<k, info>>
clock == <<s, start, timeout, ticks, timedOut>>
vars == <<machine, memory, video, clock, pc, mbi>>

Init ==
    /\ ranges \in RangeLists /\ linear \in LinearSets
    /\ kbc \in BOOLEAN /\ a20 \in BOOLEAN
    /\ screen = "text"
    /\ rtc = [sec |-> 0, uip |-> FALSE]
    /\ pc = "e820"
    /\ mmap = [n \in 1 .. Slots |-> Junk]
    /\ count = 0 /\ gfx = Junk
    /\ k = 1 /\ info = Junk
    /\ mbi = [mmap |-> <<>>, fb |-> Junk]
    /\ s = 0 /\ start = 0 /\ timeout = 0
    /\ ticks = 0 /\ timedOut = FALSE

-----------------------------------------------------------------------------
(* get_e820_memory_map                                                     *)

\* INT 15h delivers the next range; the list ends with EBX = 0 ...
E820Entry ==
    /\ pc = "e820"
    /\ count < Len(ranges)
    /\ mmap' = [mmap EXCEPT ![count + 1] = ranges[count + 1]]
    /\ count' = count + 1
    /\ gfx' = IF count' >= GfxSlot THEN Junk ELSE gfx
    /\ pc' \in {"e820"} \cup {p \in {"query"} : count' = Len(ranges)}
    /\ UNCHANGED <<machine, video, clock, mbi>>

\* ... or with an error, which may come at any call.
E820Ends ==
    /\ pc = "e820"
    /\ pc' = "query"
    /\ UNCHANGED <<machine, memory, video, clock, mbi>>

-----------------------------------------------------------------------------
(* init_video_mode                                                         *)

\* The next mode, or the 80x25 text mode.
TryNextMode ==
    IF k < Len(Modes) THEN k' = k + 1 /\ pc' = "query" ELSE k' = k /\ pc' = "text"

\* INT 10h/4F01h
QueryMode_Unchecked ==
    /\ pc = "query"
    /\ info' \in {Modes[k], info}
    /\ pc' = "set"
    /\ UNCHANGED <<machine, memory, k, clock, mbi>>
QueryMode ==
    /\ pc = "query"
    /\ \/ info' = Modes[k] /\ pc' = "set" /\ UNCHANGED k
       \/ TryNextMode /\ UNCHANGED info
    /\ UNCHANGED <<machine, memory, clock, mbi>>

\* INT 10h/4F02h
SetMode ==
    /\ pc = "set"
    /\ \/ screen' = Modes[k] /\ pc' = "stored" /\ UNCHANGED k
       \/ TryNextMode /\ UNCHANGED screen
    /\ UNCHANGED <<ranges, linear, kbc, a20, rtc, memory, info, clock, mbi>>

\* A description is stored at 0x9000, over the entries that reach there.
StoreGfx(description) ==
    /\ gfx' = description
    /\ mmap' = [n \in 1 .. Slots |-> IF n >= GfxSlot THEN Junk ELSE mmap[n]]
    /\ pc' = "a20"
    /\ UNCHANGED <<ranges, linear, kbc, a20, rtc, count, video, clock, mbi>>

ModeIsSet == pc = "stored" /\ StoreGfx(info) /\ UNCHANGED screen
TextFallback == pc = "text" /\ StoreGfx("text") /\ screen' = "text"

-----------------------------------------------------------------------------
(* enable_a20                                                              *)

\* check_a20: the gate is open, so nothing (more) is done.
A20IsOpen ==
    /\ pc \in {"a20", "port92", "kbc"}
    /\ a20
    /\ pc' = "load"
    /\ UNCHANGED <<machine, memory, video, clock, mbi>>

\* INT 15h/2401h, then port 0x92, each of which may do nothing.
Try(here, then) ==
    /\ pc = here /\ ~a20
    /\ a20' \in BOOLEAN
    /\ pc' = then
    /\ UNCHANGED <<ranges, linear, kbc, screen, rtc, memory, video, clock, mbi>>
A20Bios == Try("a20", "port92")
A20Port92 == Try("port92", "kbc")

\* The keyboard controller: each wait polls it for ever, and the result is
\* not checked.
A20Keyboard == kbc /\ Try("kbc", "load")

-----------------------------------------------------------------------------
(* bios_loader_main                                                        *)

\* Protected mode is entered, and the kernel is found, read and loaded, or
\* the loader halts.
LoadKernel ==
    /\ pc = "load"
    /\ pc' \in {"mbi", "halted"}
    /\ UNCHANGED <<machine, memory, video, clock, mbi>>

Fallback == <<"0-639K", "639K-1M reserved", "1M-128M">>

FirstEntries(n) == [j \in 1 .. n |-> mmap[j]]

\* The memory map is used where it lies, or written over; the frame buffer's
\* description is taken, or that of the VGA text mode when its address, a size
\* or its depth is 0 (as TextFallback stores it).
FrameBufferOf(description) ==
    IF description \in linear THEN description ELSE "text"
FillMbi_Zeroed ==
    /\ pc = "mbi"
    /\ mbi' = [mmap |-> FirstEntries(count), fb |-> FrameBufferOf(gfx)]
    /\ s' = Seconds
    /\ pc' = "second"
    /\ UNCHANGED <<machine, memory, video, start, timeout, ticks, timedOut>>
FillMbi ==
    /\ pc = "mbi"
    /\ mbi' = [mmap |-> IF count \in 1 .. MaxEntries THEN FirstEntries(count) ELSE Fallback,
               fb |-> FrameBufferOf(gfx)]
    /\ mmap' = IF count \in 1 .. MaxEntries THEN mmap
               ELSE [n \in 1 .. Slots |-> IF n <= 3 THEN Fallback[n] ELSE mmap[n]]
    /\ s' = Seconds
    /\ pc' = "second"
    /\ UNCHANGED <<machine, count, gfx, video, start, timeout, ticks, timedOut>>

\* pause_seconds: the clock is read (while no update is in progress) ...
StartSecond_Once ==
    /\ pc = "second" /\ s > 0 /\ ~rtc.uip
    /\ start' = IF s = Seconds THEN rtc.sec ELSE start
    /\ timeout' = 0
    /\ pc' = "poll"
    /\ UNCHANGED <<machine, memory, video, s, ticks, timedOut, mbi>>
StartSecond ==
    /\ pc = "second" /\ s > 0 /\ ~rtc.uip
    /\ start' = rtc.sec
    /\ timeout' = 0
    /\ pc' = "poll"
    /\ UNCHANGED <<machine, memory, video, s, ticks, timedOut, mbi>>

\* ... and polled until it shows another second, or often enough.
Poll_Unlimited ==
    /\ pc = "poll" /\ ~rtc.uip
    /\ rtc.sec # start
    /\ s' = s - 1 /\ pc' = "second"
    /\ UNCHANGED <<machine, memory, video, start, timeout, ticks, timedOut, mbi>>
Poll ==
    /\ pc = "poll" /\ ~rtc.uip
    /\ \/ /\ rtc.sec = start /\ timeout < Timeout
          /\ timeout' = timeout + 1
          /\ UNCHANGED <<pc, s, timedOut>>
       \/ /\ rtc.sec # start \/ timeout >= Timeout
          /\ timedOut' = (timedOut \/ rtc.sec = start)
          /\ s' = s - 1 /\ pc' = "second"
          /\ UNCHANGED timeout
    /\ UNCHANGED <<machine, memory, video, start, ticks, mbi>>

\* multiboot_jump
Jump ==
    /\ pc = "second" /\ s = 0
    /\ pc' = "kernel"
    /\ UNCHANGED <<machine, memory, video, clock, mbi>>

-----------------------------------------------------------------------------
(* The clock (outside the program): seconds modulo 60, here modulo 3.  It  *)
(* is only of interest during the pause.                                   *)

UpdateBegins ==
    /\ pc \in {"second", "poll"} /\ ~rtc.uip /\ ticks < MaxTicks
    /\ rtc' = [rtc EXCEPT !.uip = TRUE]
    /\ UNCHANGED <<ranges, linear, kbc, screen, a20, memory, video, clock, pc, mbi>>
UpdateEnds ==
    /\ rtc.uip
    /\ rtc' = [sec |-> (rtc.sec + 1) % 3, uip |-> FALSE]
    /\ ticks' = ticks + 1
    /\ UNCHANGED <<ranges, linear, kbc, screen, a20, memory, video, s, start, timeout, timedOut,
                   pc, mbi>>

Step ==
    \/ E820Entry \/ E820Ends
    \/ QueryMode \/ SetMode \/ ModeIsSet \/ TextFallback
    \/ A20IsOpen \/ A20Bios \/ A20Port92 \/ A20Keyboard
    \/ LoadKernel \/ FillMbi \/ StartSecond \/ Poll \/ Jump

Next == Step \/ UpdateBegins \/ UpdateEnds

\* The processor executes the loader; an update of the clock takes a limited
\* time, and leaves the loader time to read it.
Spec == Init /\ [][Next]_vars /\ SF_vars(Step) /\ WF_vars(UpdateEnds)

-----------------------------------------------------------------------------
(* Properties                                                              *)

\* The kernel is told the ranges the firmware delivered, all of them and no
\* others, or, when there were none or too many, the default map: never a
\* mixture with the video mode's description or with an uncounted slot.
MapTold ==
    pc \in {"second", "poll", "kernel"} =>
       mbi.mmap = IF count \in 1 .. MaxEntries THEN SubSeq(ranges, 1, count) ELSE Fallback

\* The kernel is told the video mode that is set, whatever queries and mode
\* changes failed before, and however long the memory map is.  (A mode that
\* could be set though its description gives no linear frame buffer is told as
\* the text mode: nothing the kernel could draw in would be right.)
FramebufferTold ==
    pc \in {"second", "poll", "kernel"} /\ screen \in linear \cup {"text"} =>
       mbi.fb = screen

\* README.md: the loader jumps to the kernel "in 32 bit protected mode RING 0
\* flat memory schem, A20 enabled".
A20Enabled == pc = "kernel" => a20

\* The pause sees as many seconds begin as it announces, unless it gave up
\* waiting for one.
PauseIsLong == pc = "kernel" /\ ~timedOut => ticks >= Seconds

\* The loader gets to the kernel or halts, also with a clock that stands
\* still, unless it waits for a keyboard controller that never answers.
ReachesKernel == kbc => <>(pc \in {"kernel", "halted"})
=============================================================================
