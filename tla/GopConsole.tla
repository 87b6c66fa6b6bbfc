------------------------------ MODULE GopConsole ------------------------------
(***************************************************************************)
(* The screen of the UEFI loaders: init_gop(), which chooses a graphics    *)
(* mode, and the text console: uefi_puts(), which copies a string to the   *)
(* firmware's console through a buffer of limited size, and                *)
(* gop_draw_char()/gop_scroll(), which draw it into the frame buffer.      *)
(*                                                                         *)
(* A mode is [vga, format, height, cols]: is it 640x480; "RGB", "BGR" or   *)
(* "other" pixels; scan lines; and cells in a line (a cell is FONT_WIDTH   *)
(* pixels wide; pixels right of the last cell are never drawn).  The frame *)
(* buffer is a function from scan lines to rows of cells.  A cell holds    *)
(* one scan line of a glyph, <<c, y>>, or Blank, all pixels black.         *)
(***************************************************************************)
EXTENDS Integers, Sequences, FiniteSetsExt

CONSTANTS
    FONT_HEIGHT, \* scan lines of a glyph (16)
    Offers,      \* graphics: [modes, current, answered, setOk]
    BufSize,     \* places of buf (256)
    BufLimit,    \* characters are added to buf while j is below this (254)
    Chars,       \* characters, "CR" and "LF" among them
    Printable,   \* those that have a glyph
    Strings,     \* strings the loader may print
    MaxPuts,     \* bound: calls of uefi_puts
    Blank

\* A screen with less than one row of text is left out: its scrolling
\* subtracts below zero.
Modes == [vga : BOOLEAN, format : {"RGB", "BGR", "other"},
          height : Nat \ (0 .. FONT_HEIGHT - 1), cols : Nat \ {0}]
ASSUME ConsoleAssumption ==
    /\ FONT_HEIGHT \in Nat \ {0}
    /\ BufLimit \in Nat /\ BufSize \in Nat /\ BufLimit + 2 <= BufSize
    /\ {"CR", "LF"} \subseteq Chars /\ Printable \subseteq Chars \ {"CR", "LF"}
    /\ Blank \notin Chars
    /\ Strings \subseteq Seq(Chars) /\ MaxPuts \in Nat
    /\ \A o \in Offers :
          /\ o.modes \in Seq(Modes) /\ o.setOk \in BOOLEAN
          /\ o.current \in DOMAIN o.modes /\ o.answered \subseteq DOMAIN o.modes

VARIABLES
    gop,     \* is there a frame buffer (g_fb_base # 0)?
    conOut,  \* is there a firmware console (g_st->ConOut)?
    offer,   \* what QueryMode and SetMode will answer, as long as it matters
    mode,    \* the mode in force
    told,    \* the frame buffer fields of the multiboot information
    scan,    \* [n, best, fallback]: modes asked for, and those found (0: none yet)
    pc,      \* "modes", "idle", "buffer" (first loop), "rest" (second loop)
    str, i,  \* the string, and the characters of it that were dealt with
    buf,     \* buf[0 .. j - 1]
    fb,      \* the frame buffer
    height, cols, \* g_fb_height, g_fb_width / FONT_WIDTH
    cx, cy,  \* g_cursor_x, g_cursor_y
    puts,    \* history: strings printed, the current one included
    sent,    \* history: strings given to OutputString
    drawn,   \* history: characters of each string given to gop_draw_char
    text     \* history: these characters as text [rows, x] without a screen

screen == <<fb, cx, cy, drawn, text>>
graphics == <<gop, offer, mode, told, scan, height, cols>>
vars == <<graphics, conOut, pc, str, i, buf, screen, sent, puts>>

Lines == 0 .. height - 1
Cells == 0 .. cols - 1
Rows == height \div FONT_HEIGHT
BlankLine == [x \in Cells |-> Blank]
Blanks(h, w) == [l \in 0 .. h - 1 |-> [x \in 0 .. w - 1 |-> Blank]]

NoMode == [vga |-> FALSE, format |-> "none", height |-> 0, cols |-> 0]
NoScan == [n |-> 0, best |-> 0, fallback |-> 0]
NoOffer == [modes |-> <<>>, current |-> 0, answered |-> {}, setOk |-> FALSE]

Init ==
    /\ gop \in BOOLEAN /\ conOut \in BOOLEAN
    /\ offer \in Offers
    /\ mode = offer.modes[offer.current] /\ told = NoMode
    /\ pc = "modes" /\ scan = NoScan
    /\ str = <<>> /\ i = 0 /\ buf = <<>>
    /\ fb = <<>> /\ height = 0 /\ cols = 0
    /\ cx = 0 /\ cy = 0
    /\ puts = <<>> /\ sent = <<>> /\ drawn = <<>>
    /\ text = [rows |-> <<>>, x |-> 0]

-----------------------------------------------------------------------------
(* init_gop                                                                *)

Drawable(m) == m.format \in {"RGB", "BGR"}

\* One turn of the loop over the modes, which ends with a mode of 640x480.
Consider_Unanswered(s) ==
    LET m == offer.modes[s.n]
    IN  IF ~Drawable(m) THEN s
        ELSE [s EXCEPT !.best = IF m.vga THEN s.n ELSE 0,
                       !.fallback = IF @ = 0 THEN s.n ELSE @]
Consider(s) ==
    LET m == offer.modes[s.n]
    IN  IF s.n \notin offer.answered \/ ~Drawable(m) THEN s
        ELSE [s EXCEPT !.best = IF m.vga THEN s.n ELSE 0,
                       !.fallback = IF @ = 0 THEN s.n ELSE @]
MoreModes == scan.best = 0 /\ scan.n < Len(offer.modes)
QueryMode ==
    /\ pc = "modes" /\ gop /\ MoreModes
    /\ scan' = Consider([scan EXCEPT !.n = @ + 1])
    /\ UNCHANGED <<gop, offer, mode, told, height, cols, conOut, pc, str, i, buf, screen,
                   sent, puts>>

ChosenMode ==
    IF scan.best # 0 THEN scan.best
    ELSE IF scan.fallback # 0 THEN scan.fallback ELSE offer.current

\* The status of SetMode is ignored; what is told is read from the mode that is
\* then in force, and any pixels but RGB are taken for BGR.
ToldOf_Chosen(now, chosen) ==
    [offer.modes[chosen] EXCEPT !.format = IF @ = "RGB" THEN "RGB" ELSE "BGR"]
ToldOf(now, chosen) ==
    [offer.modes[now] EXCEPT !.format = IF @ = "RGB" THEN "RGB" ELSE "BGR"]

\* gop_clear_screen() ends it.
SetMode ==
    /\ pc = "modes" /\ gop /\ ~MoreModes
    /\ pc' = "idle" /\ offer' = NoOffer /\ scan' = NoScan
    /\ LET now == IF offer.setOk THEN ChosenMode ELSE offer.current
       IN  mode' = offer.modes[now] /\ told' = ToldOf(now, ChosenMode)
    /\ height' = mode'.height /\ cols' = mode'.cols
    /\ fb' = Blanks(height', cols') /\ cx' = 0 /\ cy' = 0
    /\ text' = [rows |-> <<[x \in 0 .. cols' - 1 |-> Blank]>>, x |-> 0]
    /\ UNCHANGED <<gop, conOut, str, i, buf, drawn, sent, puts>>

\* LocateProtocol fails: there is no frame buffer.
NoGop ==
    /\ pc = "modes" /\ ~gop
    /\ pc' = "idle" /\ offer' = NoOffer
    /\ UNCHANGED <<gop, mode, told, scan, height, cols, conOut, str, i, buf, screen, sent, puts>>

-----------------------------------------------------------------------------
(* gop_draw_char and gop_scroll, as functions of a screen [fb, cx, cy]     *)

Scrolled_NotCleared(f) ==
    [l \in Lines |-> IF l < height - FONT_HEIGHT THEN f[l + FONT_HEIGHT] ELSE f[l]]
Scrolled(f) ==
    [l \in Lines |-> IF l < height - FONT_HEIGHT THEN f[l + FONT_HEIGHT] ELSE BlankLine]

\* The cursor moves to the next row; the screen scrolls when there is none.
NewRow(s) ==
    IF (s.cy + 2) * FONT_HEIGHT > height
    THEN [fb |-> Scrolled(s.fb), cx |-> 0, cy |-> Rows - 1]
    ELSE [fb |-> s.fb, cx |-> 0, cy |-> s.cy + 1]

Glyph(c, y) == IF c \in Printable THEN <<c, y>> ELSE Blank

Plotted(s, c) ==
    LET top == s.cy * FONT_HEIGHT
    IN  [fb |-> [l \in Lines |->
                    IF l \in top .. top + FONT_HEIGHT - 1
                    THEN [s.fb[l] EXCEPT ![s.cx] = Glyph(c, l - top)] ELSE s.fb[l]],
         cx |-> s.cx + 1,
         cy |-> s.cy]

AfterChar(s, c) ==
    IF c = "CR" THEN [s EXCEPT !.cx = 0]
    ELSE IF c = "LF" THEN NewRow(s)
    ELSE Plotted(IF s.cx + 1 > cols THEN NewRow(s) ELSE s, c)

\* The same text as rows of cells without any screen: a row per line feed and
\* per overfull row, however many there are.
NextRow(t) == [rows |-> Append(t.rows, BlankLine), x |-> 0]
Put(t, c) ==
    [rows |-> [t.rows EXCEPT ![Len(t.rows)] = [@ EXCEPT ![t.x] = c]], x |-> t.x + 1]
AddChar(t, c) ==
    IF c = "CR" THEN [t EXCEPT !.x = 0]
    ELSE IF c = "LF" THEN NextRow(t)
    ELSE Put(IF t.x = cols THEN NextRow(t) ELSE t, c)

\* gop_draw_char(str[i]), when there is a frame buffer.
Draw(c) ==
    IF ~gop THEN UNCHANGED screen
    ELSE /\ LET s == AfterChar([fb |-> fb, cx |-> cx, cy |-> cy], c)
            IN  fb' = s.fb /\ cx' = s.cx /\ cy' = s.cy
         /\ drawn' = [drawn EXCEPT ![Len(puts)] = Append(@, c)]
         /\ text' = AddChar(text, c)

-----------------------------------------------------------------------------
(* uefi_puts                                                               *)

Puts ==
    /\ pc = "idle"
    /\ Len(puts) < MaxPuts
    /\ str' \in Strings
    /\ i' = 0 /\ buf' = <<>>
    /\ puts' = Append(puts, str') /\ drawn' = Append(drawn, <<>>)
    /\ pc' = IF conOut THEN "buffer" ELSE "rest"
    /\ UNCHANGED <<graphics, conOut, fb, cx, cy, text, sent>>

InBuffer_NoCr(c) == <<c>>
InBuffer(c) == IF c = "LF" THEN <<"CR", "LF">> ELSE <<c>>

\* One turn of the first loop: a line feed takes two places of the buffer.
HasRoom == Len(buf) < BufLimit
BufferChar ==
    /\ pc = "buffer"
    /\ i < Len(str) /\ HasRoom
    /\ buf' = buf \o InBuffer(str[i + 1])
    /\ Draw(str[i + 1])
    /\ i' = i + 1
    /\ UNCHANGED <<graphics, conOut, pc, str, sent, puts>>

\* buf[j] = 0; OutputString(buf)
Output_FromStart ==
    /\ pc = "buffer"
    /\ i = Len(str) \/ ~HasRoom
    /\ sent' = Append(sent, buf)
    /\ pc' = "rest"
    /\ i' = IF HasRoom THEN i ELSE 0
    /\ UNCHANGED <<graphics, conOut, str, buf, screen, puts>>
Output ==
    /\ pc = "buffer"
    /\ i = Len(str) \/ ~HasRoom
    /\ sent' = Append(sent, buf)
    /\ pc' = "rest"
    /\ UNCHANGED <<graphics, conOut, str, i, buf, screen, puts>>

\* One turn of the second loop: what did not fit the buffer is only drawn.
DrawRest ==
    /\ pc = "rest"
    /\ i < Len(str)
    /\ Draw(str[i + 1])
    /\ i' = i + 1
    /\ UNCHANGED <<graphics, conOut, pc, str, buf, sent, puts>>

Return ==
    /\ pc = "rest"
    /\ i = Len(str)
    /\ pc' = "idle"
    /\ UNCHANGED <<graphics, conOut, str, i, buf, screen, sent, puts>>

Next == QueryMode \/ SetMode \/ NoGop \/ Puts \/ BufferChar \/ Output \/ DrawRest \/ Return

Spec == Init /\ [][Next]_vars

-----------------------------------------------------------------------------
(* Properties                                                              *)

\* The mode in force is the first one of 640x480 pixels the loader can draw in,
\* else the first one it can draw in, else the one the firmware had set; and the
\* latter when SetMode fails.  Modes that QueryMode fails on do not count.
Usable == {n \in offer.answered : Drawable(offer.modes[n])}
UsableVga == {n \in Usable : offer.modes[n].vga}
ModeIsBest ==
    [][pc = "modes" /\ pc' # "modes" /\ gop =>
         LET want == IF ~offer.setOk THEN offer.current
                     ELSE IF UsableVga # {} THEN Min(UsableVga)
                     ELSE IF Usable # {} THEN Min(Usable) ELSE offer.current
         IN  mode' = offer.modes[want]]_vars

\* The kernel is told the mode that is in force, whether the loader set it or
\* failed to; only the colours of a mode that is neither RGB nor BGR are wrong.
ToldIsInForce ==
    pc # "modes" /\ gop =>
        /\ told.height = mode.height /\ told.cols = mode.cols
        /\ Drawable(mode) => told.format = mode.format

\* The screen always shows the last rows of the text drawn so far, each scan
\* line of each glyph in its place, and nothing else: scrolling by glyph rows
\* keeps the spare scan lines of a height that is no multiple of the font's
\* blank, and a wrap at the right edge loses and doubles nothing.
Skipped(t) == IF Len(t.rows) > Rows THEN Len(t.rows) - Rows ELSE 0
Shown(t, l, x) ==
    LET r == Skipped(t) + (l \div FONT_HEIGHT) + 1
    IN  IF l \div FONT_HEIGHT < Rows /\ r <= Len(t.rows)
        THEN Glyph(t.rows[r][x], l % FONT_HEIGHT) ELSE Blank
ScreenIsTail == fb = [l \in Lines |-> [x \in Cells |-> Shown(text, l, x)]]

\* Every string is drawn completely, once and in order, wherever the loops
\* hand over to each other; without a frame buffer nothing is drawn.
EveryCharDrawn ==
    pc = "idle" => drawn = IF gop THEN puts ELSE [n \in DOMAIN puts |-> <<>>]

\* The firmware console gets a prefix of every string with its line ends
\* translated, cut only when the buffer is full, never in the middle of a line
\* end; and the buffer, with the zero that ends it, is never overrun.
Place(s, k) == k + Cardinality({m \in 1 .. k : s[m] = "LF"})
IsTranslation(t, s, k) ==
    /\ Len(t) = Place(s, k)
    /\ \A m \in 1 .. k : /\ t[Place(s, m)] = s[m]
                         /\ s[m] = "LF" => t[Place(s, m) - 1] = "CR"
Prefixed(t, s) ==
    /\ Len(t) < BufSize
    /\ \E k \in 0 .. Len(s) : /\ IsTranslation(t, s, k)
                              /\ k < Len(s) => Len(t) >= BufLimit
ConOutIsPrefix ==
    /\ pc = "idle" /\ conOut => Len(sent) = Len(puts)
    /\ \A n \in DOMAIN sent : Prefixed(sent[n], puts[n])
=============================================================================
