-------------------------- MODULE GopConsole_proofs --------------------------
(***************************************************************************)
(* The console of the UEFI loaders, for every size of the screen, of the   *)
(* font and of the buffer, every list of modes and all strings: the best   *)
(* mode is chosen and the one in force told, every character is drawn, the *)
(* firmware's console gets what fits its buffer, and the screen shows the  *)
(* end of the text.                                                        *)
(*                                                                         *)
(* The invariant has a part for each of the three: the scan of the modes,  *)
(* the strings on their way through the two loops, and the cursor, which   *)
(* must stand behind the text for the screen to stay its end.              *)
(***************************************************************************)
EXTENDS GopConsole, FiniteSetTheorems, SequenceTheorems, TLAPS

-----------------------------------------------------------------------------
(* The invariant                                                           *)

\* What the loop over the modes has found among the first n.
Scanned ==
    /\ scan \in [n : 0 .. Len(offer.modes), best : Nat, fallback : Nat]
    /\ scan.best = 0 => \A k \in UsableVga : k > scan.n
    /\ scan.best # 0 => scan.best \in UsableVga /\ \A k \in UsableVga : k >= scan.best
    /\ scan.fallback = 0 => \A k \in Usable : k > scan.n
    /\ scan.fallback # 0 => scan.fallback \in Usable /\ \A k \in Usable : k >= scan.fallback

\* Before init_gop() ends nothing was printed; afterwards a mode is told, if
\* there is a frame buffer, and without one there is no screen.
ModeInv ==
    /\ gop \in BOOLEAN /\ conOut \in BOOLEAN
    /\ pc \in {"modes", "idle", "buffer", "rest"}
    /\ pc = "modes" => /\ offer \in Offers /\ mode = offer.modes[offer.current]
                       /\ Scanned
                       /\ puts = <<>> /\ sent = <<>> /\ drawn = <<>>
    /\ pc # "modes" /\ gop => /\ mode \in Modes /\ told = [mode EXCEPT !.format =
                                                     IF @ = "RGB" THEN "RGB" ELSE "BGR"]
                              /\ height = mode.height /\ cols = mode.cols
    /\ pc = "modes" \/ ~gop => height = 0 /\ cols = 0 /\ fb = <<>>

\* The string in work is the last one; what was dealt with of it was drawn, and
\* what the buffer holds is its translation.  All the others are done.
Working == pc \in {"buffer", "rest"}
DrawnOf(n) ==
    IF ~gop THEN <<>>
    ELSE IF Working /\ n = Len(puts) THEN SubSeq(str, 1, i) ELSE puts[n]
DrawnInv ==
    /\ drawn \in Seq(Seq(Chars)) /\ Len(drawn) = Len(puts)
    /\ \A n \in 1 .. Len(puts) : drawn[n] = DrawnOf(n)
WorkInv ==
    /\ puts \in Seq(Seq(Chars))
    /\ Working => /\ puts # <<>> /\ str = puts[Len(puts)]
                  /\ i \in 0 .. Len(str)
SentInv ==
    /\ sent \in Seq(Seq(Chars))
    /\ Len(sent) = IF ~conOut THEN 0
                   ELSE IF pc = "buffer" THEN Len(puts) - 1 ELSE Len(puts)
    /\ \A n \in 1 .. Len(sent) : Prefixed(sent[n], puts[n])
    /\ pc = "buffer" => /\ conOut /\ buf \in Seq(Chars)
                        /\ IsTranslation(buf, str, i) /\ Len(buf) <= BufLimit + 1

\* The screen shows the end of the text, and the next character goes behind it.
IsText(t) ==
    /\ t \in [rows : Seq([Cells -> Chars \cup {Blank}]), x : 0 .. cols]
    /\ Len(t.rows) > 0
Behind(t, s) ==
    /\ IsText(t)
    /\ s = [fb |-> s.fb, cx |-> s.cx, cy |-> s.cy]
    /\ s.fb = [l \in Lines |-> [x \in Cells |-> Shown(t, l, x)]]
    /\ s.cx = t.x
    /\ s.cy = IF Len(t.rows) > Rows THEN Rows - 1 ELSE Len(t.rows) - 1
ScreenInv ==
    pc # "modes" /\ gop => Behind(text, [fb |-> fb, cx |-> cx, cy |-> cy])

IInv == ModeInv /\ WorkInv /\ DrawnInv /\ SentInv /\ ScreenInv

-----------------------------------------------------------------------------
(* The modes                                                               *)

\* A record [mode EXCEPT !.format = ...] differs in nothing else.
LEMMA ToldRecord ==
    ASSUME NEW m \in Modes, NEW f,
           f = [m EXCEPT !.format = IF @ = "RGB" THEN "RGB" ELSE "BGR"]
    PROVE  /\ f.height = m.height /\ f.cols = m.cols
           /\ Drawable(m) => f.format = m.format
BY DEF Modes, Drawable

\* What an offer consists of.
LEMMA OfferFacts ==
    ASSUME NEW o \in Offers
    PROVE  /\ Len(o.modes) \in Nat /\ o.current \in 1 .. Len(o.modes)
           /\ o.answered \subseteq 1 .. Len(o.modes)
           /\ \A k \in 1 .. Len(o.modes) : o.modes[k] \in Modes
<1>1. o.modes \in Seq(Modes)
      BY ConsoleAssumption
<1>2. Len(o.modes) \in Nat /\ DOMAIN o.modes = 1 .. Len(o.modes)
      BY <1>1, LenProperties
<1>3. \A k \in 1 .. Len(o.modes) : o.modes[k] \in Modes
      BY <1>1, ElementOfSeq
<1> QED BY <1>2, <1>3, ConsoleAssumption

\* One turn of the loop over the modes extends what was found by one mode.
LEMMA ScanStep ==
    ASSUME pc = "modes", offer \in Offers, Scanned, QueryMode
    PROVE  Scanned'
<1> DEFINE len == Len(offer.modes)
           n == scan.n + 1
           next == [scan EXCEPT !.n = @ + 1]
<1>1. len \in Nat /\ offer.answered \subseteq 1 .. len
      BY OfferFacts
<1>2. scan \in [n : 0 .. len, best : Nat, fallback : Nat]
      BY DEF Scanned
<1>3. scan.best = 0 /\ scan.n < len /\ scan' = Consider(next)
      BY DEF QueryMode, MoreModes
<1>4. Usable' = Usable /\ UsableVga' = UsableVga /\ offer' = offer
      BY DEF QueryMode, Usable, UsableVga, Drawable
<1>5. next = [n |-> n, best |-> scan.best, fallback |-> scan.fallback] /\ n \in 1 .. len
      BY <1>1, <1>2, <1>3
<1>6. Usable \subseteq 1 .. len /\ UsableVga \subseteq Usable
      BY <1>1 DEF Usable, UsableVga
<1> HIDE DEF len, n, next
<1>n. n = scan.n + 1
      BY DEF n
<1>v. \A k \in UsableVga : k \in Nat /\ k > scan.n
      BY <1>1, <1>3, <1>6 DEF Scanned
<1>u. scan.fallback = 0 => \A k \in Usable : k \in Nat /\ k > scan.n
      BY <1>1, <1>6 DEF Scanned
<1>s. scan.n \in Nat /\ scan.best \in Nat /\ scan.fallback \in Nat
      BY <1>1, <1>2
<1>l. Len(offer'.modes) = len
      BY <1>4 DEF len
<1>7. CASE n \notin Usable
  <2>1. scan' = next
        BY <1>3, <1>5, <1>7 DEF Consider, Usable
  <2>2. scan'.n = n /\ scan'.best = 0 /\ scan'.fallback = scan.fallback
    <3>1. scan' = [n |-> n, best |-> 0, fallback |-> scan.fallback]
          BY <2>1, <1>3, <1>5
    <3> QED BY ONLY <3>1
  <2>3. scan' \in [n : 0 .. len, best : Nat, fallback : Nat]
        BY <2>1, <1>5, <1>2
  <2>4. \A k \in UsableVga : k > n
        BY ONLY <1>v, <1>n, <1>s, <1>6, <1>7, SMT
  <2>5. scan.fallback = 0 => \A k \in Usable : k > n
        BY ONLY <1>u, <1>n, <1>s, <1>7, SMT
  <2> QED BY <2>2, <2>3, <2>4, <2>5, <1>4, <1>l DEF Scanned
<1>8. CASE n \in Usable
  <2> DEFINE best == IF offer.modes[n].vga THEN n ELSE 0
             fallback == IF scan.fallback = 0 THEN n ELSE scan.fallback
  <2>1. scan' = [n |-> n, best |-> best, fallback |-> fallback]
        BY <1>3, <1>5, <1>8 DEF Consider, Usable
  <2>2. scan' \in [n : 0 .. len, best : Nat, fallback : Nat]
        BY <2>1, <1>5, <1>2, <1>1
  <2>3. n \in UsableVga <=> offer.modes[n].vga
        BY <1>8 DEF UsableVga
  <2>4. \A k \in UsableVga : k >= n
        BY ONLY <1>v, <1>n, <1>s, SMT
  <2>5. best = 0 => \A k \in UsableVga : k > n
        BY <2>3, <2>4, <1>1, <1>5, <1>6
  <2>6. best # 0 => best \in UsableVga /\ \A k \in UsableVga : k >= best
        BY <2>3, <2>4
  <2>7. fallback # 0 /\ fallback \in Usable /\ \A k \in Usable : k >= fallback
        BY <1>1, <1>2, <1>5, <1>n, <1>6, <1>8 DEF Scanned
  <2>8. scan'.n = n /\ scan'.best = best /\ scan'.fallback = fallback
        BY <2>1
  <2> HIDE DEF best, fallback
  <2> QED BY <2>2, <2>5, <2>6, <2>7, <2>8, <1>4, <1>l DEF Scanned
<1> QED BY <1>7, <1>8

\* What the loop has found when it ends is the best mode.
LEMMA ChosenIsBest ==
    ASSUME offer \in Offers, Scanned, ~MoreModes
    PROVE  ChosenMode = IF UsableVga # {} THEN Min(UsableVga)
                        ELSE IF Usable # {} THEN Min(Usable) ELSE offer.current
<1>1. /\ Len(offer.modes) \in Nat /\ Usable \subseteq 1 .. Len(offer.modes)
      /\ UsableVga \subseteq Usable
      BY OfferFacts DEF Usable, UsableVga
<1>2. ASSUME NEW S \in SUBSET Nat, NEW x \in S, \A k \in S : k >= x
      PROVE  Min(S) = x
  <2>1. PICK y : y = Min(S)
        OBVIOUS
  <2>2. x \in S /\ \A k \in S : x =< k
        BY <1>2
  <2>3. y \in S /\ \A k \in S : y =< k
        BY ONLY <2>1, <2>2 DEF Min
  <2> QED BY <2>1, <2>2, <2>3
<1>3. CASE scan.best # 0
  <2>1. scan.best \in UsableVga /\ \A k \in UsableVga : k >= scan.best
        BY <1>3 DEF Scanned
  <2>2. UsableVga \in SUBSET Nat
        BY <1>1
  <2> QED BY <2>1, <2>2, <1>2, <1>3 DEF ChosenMode
<1>4. CASE scan.best = 0
  <2>1. scan.n = Len(offer.modes)
        BY <1>1, <1>4 DEF MoreModes, Scanned
  <2>2. UsableVga = {}
        BY <2>1, <1>1, <1>4 DEF Scanned
  <2>3. scan.fallback = 0 => Usable = {}
        BY <2>1, <1>1 DEF Scanned
  <2>4. ASSUME scan.fallback # 0
        PROVE  Min(Usable) = scan.fallback /\ Usable # {}
    <3>1. scan.fallback \in Usable /\ \A k \in Usable : k >= scan.fallback
          BY <2>4 DEF Scanned
    <3>2. Usable \in SUBSET Nat
          BY <1>1
    <3> QED BY <3>1, <3>2, <1>2
  <2> QED BY <2>2, <2>3, <2>4, <1>4 DEF ChosenMode
<1> QED BY <1>3, <1>4

\* So what SetMode() is asked for is one of the modes.
LEMMA ChosenIsAMode ==
    ASSUME offer \in Offers, Scanned
    PROVE  ChosenMode \in 1 .. Len(offer.modes)
<1>1. Usable \subseteq 1 .. Len(offer.modes) /\ UsableVga \subseteq Usable
      BY OfferFacts DEF Usable, UsableVga
<1> QED BY <1>1, OfferFacts DEF Scanned, ChosenMode

\* The scan of the modes, what is told, and that there is nothing without a frame
\* buffer, are kept by every step.
LEMMA ModeStep == ModeInv /\ [Next]_vars => ModeInv'
<1> SUFFICES ASSUME ModeInv, [Next]_vars PROVE ModeInv'
    OBVIOUS
<1>1. CASE QueryMode
  <2>1. Scanned'
        BY <1>1, ScanStep DEF ModeInv, QueryMode
  <2> QED BY <2>1, <1>1 DEF ModeInv, QueryMode, screen
<1>2. CASE SetMode
  <2> DEFINE now == IF offer.setOk THEN ChosenMode ELSE offer.current
  <2>1. offer \in Offers /\ Scanned
        BY <1>2 DEF SetMode, ModeInv
  <2>2. now \in 1 .. Len(offer.modes)
        BY <2>1, ChosenIsAMode, OfferFacts
  <2>3. offer.modes[now] \in Modes
        BY <2>1, <2>2, OfferFacts
  <2>4. /\ mode' = offer.modes[now] /\ height' = mode'.height /\ cols' = mode'.cols
        /\ told' = [offer.modes[now] EXCEPT !.format = IF @ = "RGB" THEN "RGB" ELSE "BGR"]
        BY <1>2 DEF SetMode, ToldOf
  <2> HIDE DEF now
  <2>5. /\ gop' = gop /\ gop = TRUE /\ conOut' = conOut /\ pc' = "idle"
        BY <1>2 DEF SetMode, ModeInv
  <2> QED BY <2>3, <2>4, <2>5 DEF ModeInv
<1>3. CASE NoGop
      BY <1>3 DEF ModeInv, NoGop, screen
<1>4. CASE Puts
      BY <1>4 DEF ModeInv, Puts, graphics
<1>5. ASSUME NEW c, Draw(c), UNCHANGED <<graphics, conOut, puts>>,
             pc \in {"buffer", "rest"}, pc' = pc
      PROVE  ModeInv'
      BY <1>5 DEF ModeInv, Draw, graphics, screen
<1>6. CASE BufferChar
      BY <1>6, <1>5 DEF BufferChar
<1>7. CASE DrawRest
      BY <1>7, <1>5 DEF DrawRest
<1>8. CASE Output \/ Return
      BY <1>8 DEF ModeInv, Output, Return, graphics, screen
<1>9. CASE UNCHANGED vars
      BY <1>9 DEF ModeInv, vars, graphics, screen, Scanned, Usable, UsableVga, Drawable
<1> QED BY <1>1, <1>2, <1>3, <1>4, <1>6, <1>7, <1>8, <1>9 DEF Next

-----------------------------------------------------------------------------
(* The strings                                                             *)

\* The place of a character in the translation: a line feed takes two.
LEMMA PlaceFacts ==
    ASSUME NEW s \in Seq(Chars), NEW k \in 0 .. Len(s)
    PROVE  /\ Place(s, k) \in Nat /\ Place(s, 0) = 0
           /\ k < Len(s) => Place(s, k + 1) = Place(s, k) + (IF s[k + 1] = "LF" THEN 2 ELSE 1)
           /\ \A m \in 1 .. k : /\ Place(s, m) \in 1 .. Place(s, k)
                                /\ s[m] = "LF" => Place(s, m) - 1 \in 1 .. Place(s, k)
<1> DEFINE feeds(n) == {m \in 1 .. n : s[m] = "LF"}
<1>1. Len(s) \in Nat /\ k \in Nat
      BY LenProperties
<1>2. ASSUME NEW n \in Nat
      PROVE  IsFiniteSet(feeds(n)) /\ Cardinality(feeds(n)) \in Nat
  <2>1. IsFiniteSet(1 .. n)
        BY FS_Interval
  <2>2. feeds(n) \subseteq 1 .. n
        OBVIOUS
  <2>3. IsFiniteSet(feeds(n))
        BY <2>1, <2>2, FS_Subset
  <2> HIDE DEF feeds
  <2> QED BY <2>3, FS_CardinalityType
<1>3. \A n : Place(s, n) = n + Cardinality(feeds(n))
      BY DEF Place
<1>4. feeds(0) = {}
      OBVIOUS
<1>5. Place(s, 0) = 0
  <2> HIDE DEF feeds
  <2> QED BY <1>3, <1>4, FS_EmptySet
<1>6. ASSUME k < Len(s)
      PROVE  Place(s, k + 1) = Place(s, k) + (IF s[k + 1] = "LF" THEN 2 ELSE 1)
  <2>1. CASE s[k + 1] = "LF"
    <3>1. feeds(k + 1) = feeds(k) \cup {k + 1} /\ k + 1 \notin feeds(k)
          BY <1>1, <2>1
    <3> HIDE DEF feeds
    <3>2. Cardinality(feeds(k + 1)) = Cardinality(feeds(k)) + 1
          BY <1>1, <1>2, <3>1, FS_AddElement
    <3>3. /\ Place(s, k) = k + Cardinality(feeds(k))
          /\ Place(s, k + 1) = (k + 1) + Cardinality(feeds(k + 1))
          BY <1>3
    <3>4. Cardinality(feeds(k)) \in Nat
          BY <1>1, <1>2
    <3> QED BY ONLY <1>1, <3>2, <3>3, <3>4, <2>1
  <2>2. CASE s[k + 1] # "LF"
    <3>1. feeds(k + 1) = feeds(k)
          BY <1>1, <2>2
    <3> HIDE DEF feeds
    <3> QED BY <1>1, <1>2, <1>3, <3>1, <2>2
  <2> QED BY <2>1, <2>2
<1>7. ASSUME NEW m \in 1 .. k
      PROVE  /\ Place(s, m) \in 1 .. Place(s, k)
             /\ s[m] = "LF" => Place(s, m) - 1 \in 1 .. Place(s, k)
  <2>1. feeds(m) \subseteq feeds(k) /\ m \in Nat /\ m > 0 /\ m <= k
        BY <1>1
  <2>2. s[m] = "LF" => m \in feeds(m)
        BY <1>1
  <2> HIDE DEF feeds
  <2>3. Cardinality(feeds(m)) <= Cardinality(feeds(k))
        BY <1>1, <1>2, <2>1, FS_Subset
  <2>4. s[m] = "LF" => Cardinality(feeds(m)) # 0
        BY <1>2, <2>1, <2>2, FS_EmptySet
  <2>5. Cardinality(feeds(m)) \in Nat /\ Cardinality(feeds(k)) \in Nat
        BY <1>1, <1>2, <2>1
  <2> QED BY <2>1, <2>3, <2>4, <2>5, <1>1, <1>3
<1>8. Place(s, k) \in Nat
  <2> HIDE DEF feeds
  <2>1. Place(s, k) = k + Cardinality(feeds(k))
        BY <1>3
  <2>2. Cardinality(feeds(k)) \in Nat
        BY <1>1, <1>2
  <2> QED BY ONLY <1>1, <2>1, <2>2
<1> QED BY <1>5, <1>6, <1>7, <1>8

\* One turn of the first loop translates one more character.
LEMMA TranslationStep ==
    ASSUME NEW s \in Seq(Chars), NEW t \in Seq(Chars), NEW k \in 0 .. Len(s), k < Len(s),
           IsTranslation(t, s, k)
    PROVE  /\ IsTranslation(t \o InBuffer(s[k + 1]), s, k + 1)
           /\ t \o InBuffer(s[k + 1]) \in Seq(Chars)
           /\ Len(t \o InBuffer(s[k + 1])) <= Len(t) + 2
<1> DEFINE c == s[k + 1]
           more == InBuffer(c)
           u == t \o more
<1>1. Len(s) \in Nat /\ k \in Nat /\ k + 1 \in 1 .. Len(s)
      BY LenProperties
<1>2. c \in Chars
      BY <1>1, ElementOfSeq
<1>3. /\ more \in Seq(Chars) /\ Len(more) = IF c = "LF" THEN 2 ELSE 1
      /\ c = "LF" => more[1] = "CR"
      /\ more[Len(more)] = c
  <2>1. CASE c = "LF"
        BY <2>1, ConsoleAssumption DEF InBuffer
  <2>2. CASE c # "LF"
        BY <2>2, <1>2 DEF InBuffer
  <2> QED BY <2>1, <2>2
<1> HIDE DEF more
<1>4. /\ u \in Seq(Chars) /\ Len(u) = Len(t) + Len(more)
      /\ \A j \in 1 .. Len(t) : u[j] = t[j]
      /\ \A j \in 1 .. Len(more) : u[Len(t) + j] = more[j]
  <2>1. more \in Seq(Chars)
        BY <1>3
  <2>2. /\ u \in Seq(Chars) /\ Len(u) = Len(t) + Len(more)
        /\ \A j \in 1 .. Len(t) + Len(more) :
              u[j] = IF j <= Len(t) THEN t[j] ELSE more[j - Len(t)]
        BY <2>1, ConcatProperties
  <2>3. Len(t) \in Nat /\ Len(more) \in Nat
        BY <2>1, LenProperties
  <2> HIDE DEF u
  <2>4. ASSUME NEW j \in 1 .. Len(more)
        PROVE  u[Len(t) + j] = more[j]
    <3>1. Len(t) + j \in 1 .. Len(t) + Len(more) /\ ~(Len(t) + j <= Len(t))
          /\ (Len(t) + j) - Len(t) = j
          BY ONLY <2>3, <2>4
    <3> QED BY <3>1, <2>2
  <2> QED BY <2>2, <2>3, <2>4
<1>5. Len(t) \in Nat /\ Len(t) = Place(s, k)
      BY LenProperties DEF IsTranslation
<1>6. Place(s, k + 1) = Len(t) + Len(more)
      BY <1>3, <1>5, PlaceFacts
<1> HIDE DEF u
<1>7. ASSUME NEW m \in 1 .. k
      PROVE  u[Place(s, m)] = s[m] /\ (s[m] = "LF" => u[Place(s, m) - 1] = "CR")
  <2>1. Place(s, m) \in 1 .. Len(t) /\ (s[m] = "LF" => Place(s, m) - 1 \in 1 .. Len(t))
        BY <1>5, PlaceFacts
  <2>2. t[Place(s, m)] = s[m] /\ (s[m] = "LF" => t[Place(s, m) - 1] = "CR")
        BY DEF IsTranslation
  <2> QED BY <2>1, <2>2, <1>4
<1>8. u[Place(s, k + 1)] = c /\ (c = "LF" => u[Place(s, k + 1) - 1] = "CR")
  <2>1. u[Len(t) + Len(more)] = c
        BY <1>3, <1>4
  <2>2. c = "LF" => u[Len(t) + 1] = "CR" /\ Len(t) + Len(more) - 1 = Len(t) + 1
        BY <1>3, <1>4, <1>5
  <2> QED BY <2>1, <2>2, <1>6
<1>9. IsTranslation(u, s, k + 1)
  <2>1. \A m \in 1 .. k + 1 : m \in 1 .. k \/ m = k + 1
        BY <1>1
  <2> QED BY <2>1, <1>4, <1>6, <1>7, <1>8 DEF IsTranslation, c
<1> QED BY <1>3, <1>4, <1>5, <1>9 DEF u, more

\* The string in work is one of the printed ones.
LEMMA StringInWork ==
    ASSUME WorkInv, Working
    PROVE  /\ Len(puts) \in Nat /\ Len(puts) > 0 /\ str \in Seq(Chars)
           /\ Len(str) \in Nat /\ i \in 0 .. Len(str)
           /\ i < Len(str) => i + 1 \in 1 .. Len(str) /\ str[i + 1] \in Chars
<1>1. puts \in Seq(Seq(Chars)) /\ puts # <<>> /\ str = puts[Len(puts)] /\ i \in 0 .. Len(str)
      BY DEF WorkInv
<1>2. Len(puts) \in Nat /\ Len(puts) # 0
      BY <1>1, LenProperties, EmptySeq
<1>3. str \in Seq(Chars)
      BY <1>1, <1>2, ElementOfSeq
<1>4. Len(str) \in Nat
      BY <1>3, LenProperties
<1>5. i < Len(str) => i + 1 \in 1 .. Len(str)
      BY <1>1, <1>4
<1> QED BY <1>1, <1>2, <1>3, <1>4, <1>5, ElementOfSeq

\* Before the first string.
LEMMA NothingPrinted ==
    ASSUME puts = <<>>, sent = <<>>, drawn = <<>>, ~Working
    PROVE  WorkInv /\ DrawnInv /\ SentInv
<1>1. <<>> \in Seq(Seq(Chars)) /\ Len(<<>>) = 0
      BY EmptySeq
<1>2. WorkInv
      BY <1>1 DEF WorkInv
<1>3. DrawnInv
      BY <1>1 DEF DrawnInv
<1>4. SentInv
      BY <1>1 DEF SentInv, Working
<1> QED BY <1>2, <1>3, <1>4

\* The strings stay in order, the one in work behind them.
LEMMA WorkStep == ModeInv /\ WorkInv /\ [Next]_vars => WorkInv'
<1> SUFFICES ASSUME ModeInv, WorkInv, [Next]_vars PROVE WorkInv'
    OBVIOUS
<1>1. CASE QueryMode \/ SetMode \/ NoGop
      BY <1>1 DEF QueryMode, SetMode, NoGop, WorkInv, Working
<1>2. CASE Puts
  <2>1. str' \in Seq(Chars) /\ puts' = Append(puts, str') /\ i' = 0
        BY <1>2, ConsoleAssumption DEF Puts
  <2>2. puts \in Seq(Seq(Chars))
        BY DEF WorkInv
  <2>3. /\ puts' \in Seq(Seq(Chars)) /\ puts' # <<>>
        /\ Len(puts') = Len(puts) + 1 /\ puts'[Len(puts) + 1] = str'
        BY <2>1, <2>2, AppendProperties
  <2>4. Len(str') \in Nat
        BY <2>1, LenProperties
  <2> QED BY <2>1, <2>3, <2>4 DEF WorkInv
<1>3. CASE BufferChar \/ DrawRest
  <2>1. /\ Working /\ pc' = pc /\ i < Len(str) /\ i' = i + 1 /\ str' = str /\ puts' = puts
        BY <1>3 DEF BufferChar, DrawRest, Working
  <2>2. i' \in 0 .. Len(str)
        BY <2>1, StringInWork
  <2> QED BY <2>1, <2>2 DEF WorkInv, Working
<1>4. CASE Output \/ Return \/ UNCHANGED vars
      BY <1>4 DEF Output, Return, vars, WorkInv, Working
<1> QED BY <1>1, <1>2, <1>3, <1>4 DEF Next

\* One character more of the string was drawn.
LEMMA DrawChar ==
    ASSUME ModeInv, WorkInv, DrawnInv, Working, i < Len(str), Draw(str[i + 1]), i' = i + 1,
           UNCHANGED <<gop, pc, str, puts>>
    PROVE  DrawnInv'
<1>1. /\ Len(puts) \in Nat /\ Len(puts) > 0 /\ str \in Seq(Chars) /\ Len(str) \in Nat
      /\ i + 1 \in 1 .. Len(str) /\ str[i + 1] \in Chars /\ i \in Nat
      BY StringInWork
<1>2. CASE ~gop
  <2>1. drawn' = drawn
        BY <1>2 DEF Draw, screen
  <2> QED BY <2>1, <1>2 DEF DrawnInv, DrawnOf
<1>3. CASE gop
  <2> DEFINE last == Append(SubSeq(str, 1, i), str[i + 1])
  <2>1. drawn[Len(puts)] = SubSeq(str, 1, i) /\ drawn \in Seq(Seq(Chars))
        /\ Len(drawn) = Len(puts) /\ \A n \in 1 .. Len(puts) : drawn[n] = DrawnOf(n)
    <3>1. DrawnOf(Len(puts)) = SubSeq(str, 1, i)
          BY <1>3 DEF DrawnOf
    <3>2. Len(puts) \in 1 .. Len(puts)
          BY <1>1
    <3> QED BY <3>1, <3>2 DEF DrawnInv
  <2>2. drawn' = [drawn EXCEPT ![Len(puts)] = last]
        BY <1>3, <2>1 DEF Draw
  <2>3. SubSeq(str, 1, i) \in Seq(Chars)
    <3>1. \A j \in 1 .. i : str[j] \in Chars
          BY <1>1, ElementOfSeq
    <3> QED BY <1>1, <3>1, SubSeqProperties
  <2>4. last = SubSeq(str, 1, i + 1)
    <3>1. SubSeq(str, 1, i + 1) = SubSeq(str, 1, (i + 1) - 1) \o <<str[i + 1]>>
          BY <1>1, SubSeqRecursiveSecond
    <3>2. (i + 1) - 1 = i
          BY <1>1
    <3>3. last = SubSeq(str, 1, i) \o <<str[i + 1]>>
          BY <1>1, <2>3, AppendIsConcat
    <3> QED BY <3>1, <3>2, <3>3
  <2>5. last \in Seq(Chars)
        BY <1>1, <2>3, AppendProperties
  <2> HIDE DEF last
  <2>6. /\ drawn' \in Seq(Seq(Chars)) /\ Len(drawn') = Len(puts)
        /\ \A n \in 1 .. Len(puts) : drawn'[n] = IF n = Len(puts) THEN last ELSE drawn[n]
        BY <1>1, <2>1, <2>2, <2>5, ExceptSeq
  <2>7. ASSUME NEW n \in 1 .. Len(puts)
        PROVE  drawn'[n] = DrawnOf(n)'
        BY <2>1, <2>4, <2>6, <1>3 DEF DrawnOf, Working
  <2> QED BY <2>6, <2>7 DEF DrawnInv
<1> QED BY <1>2, <1>3

\* Every string before the one in work was drawn, and of that one what was dealt
\* with.
LEMMA DrawnStep == ModeInv /\ WorkInv /\ DrawnInv /\ [Next]_vars => DrawnInv'
<1> SUFFICES ASSUME ModeInv, WorkInv, DrawnInv, [Next]_vars PROVE DrawnInv'
    OBVIOUS
<1>1. CASE QueryMode \/ SetMode \/ NoGop
  <2>1. ~Working /\ ~Working' /\ UNCHANGED <<gop, puts, drawn>>
        BY <1>1 DEF QueryMode, SetMode, NoGop, Working, screen
  <2> QED BY <2>1 DEF DrawnInv, DrawnOf
<1>2. CASE Puts
  <2>1. /\ str' \in Seq(Chars) /\ puts' = Append(puts, str') /\ drawn' = Append(drawn, <<>>)
        /\ i' = 0 /\ Working' /\ ~Working /\ gop' = gop
        BY <1>2, ConsoleAssumption DEF Puts, Working, graphics
  <2>2. puts \in Seq(Seq(Chars)) /\ drawn \in Seq(Seq(Chars)) /\ Len(drawn) = Len(puts)
        /\ \A n \in 1 .. Len(puts) : drawn[n] = DrawnOf(n)
        BY DEF WorkInv, DrawnInv
  <2>3. Len(puts) \in Nat /\ <<>> \in Seq(Chars)
        BY <2>2, LenProperties, EmptySeq
  <2>4. /\ Len(puts') = Len(puts) + 1 /\ puts'[Len(puts) + 1] = str'
        /\ \A n \in 1 .. Len(puts) : puts'[n] = puts[n]
        BY <2>1, <2>2, AppendProperties
  <2>5. /\ drawn' \in Seq(Seq(Chars)) /\ Len(drawn') = Len(puts) + 1
        /\ drawn'[Len(puts) + 1] = <<>> /\ \A n \in 1 .. Len(puts) : drawn'[n] = drawn[n]
        BY <2>1, <2>2, <2>3, AppendProperties
  <2>6. SubSeq(str', 1, i') = <<>>
        BY <2>1, SubSeqEmpty
  <2>7. ASSUME NEW n \in 1 .. Len(puts')
        PROVE  drawn'[n] = DrawnOf(n)'
    <3>1. CASE n = Len(puts) + 1
          BY <3>1, <2>1, <2>4, <2>5, <2>6 DEF DrawnOf
    <3>2. CASE n \in 1 .. Len(puts)
      <4>1. n # Len(puts')
            BY <2>3, <2>4, <3>2
      <4>2. drawn'[n] = IF ~gop THEN <<>> ELSE puts[n]
            BY <2>1, <2>2, <2>5, <3>2 DEF DrawnOf
      <4> QED BY <4>1, <4>2, <3>2, <2>1, <2>4 DEF DrawnOf
    <3> QED BY <2>3, <2>4, <3>1, <3>2
  <2> QED BY <2>4, <2>5, <2>7 DEF DrawnInv
<1>3. CASE BufferChar \/ DrawRest
      BY <1>3, DrawChar DEF BufferChar, DrawRest, Working, graphics
<1>4. CASE Output
      BY <1>4 DEF Output, DrawnInv, DrawnOf, Working, screen, graphics
<1>5. CASE Return
  <2>1. Working /\ ~Working' /\ i = Len(str) /\ UNCHANGED <<gop, puts, drawn>>
        BY <1>5 DEF Return, Working, screen, graphics
  <2>2. str \in Seq(Chars) /\ str = puts[Len(puts)]
        BY <2>1, StringInWork DEF WorkInv
  <2>3. SubSeq(str, 1, i) = puts[Len(puts)]
        BY <2>1, <2>2, SubSeqFull
  <2> QED BY <2>1, <2>3 DEF DrawnInv, DrawnOf
<1>6. CASE UNCHANGED vars
      BY <1>6 DEF vars, screen, graphics, DrawnInv, DrawnOf, Working
<1> QED BY <1>1, <1>2, <1>3, <1>4, <1>5, <1>6 DEF Next

\* What OutputString() was given stays a prefix of a string when another string
\* comes behind it.
LEMMA StillPrefixed ==
    ASSUME WorkInv, SentInv, NEW s \in Seq(Chars), puts' = Append(puts, s),
           Len(sent) <= Len(puts)
    PROVE  \A n \in 1 .. Len(sent) : Prefixed(sent[n], puts'[n])
<1>1. puts \in Seq(Seq(Chars)) /\ sent \in Seq(Seq(Chars))
      BY DEF WorkInv, SentInv
<1>2. Len(puts) \in Nat /\ Len(sent) \in Nat
      BY <1>1, LenProperties
<1>3. \A n \in 1 .. Len(puts) : puts'[n] = puts[n]
      BY <1>1, AppendProperties
<1> QED BY <1>2, <1>3 DEF SentInv

\* What is in the buffer is the translation of what was dealt with, and what went
\* out is a prefix of each string.
LEMMA SentStep == ModeInv /\ WorkInv /\ SentInv /\ [Next]_vars => SentInv'
<1> SUFFICES ASSUME ModeInv, WorkInv, SentInv, [Next]_vars PROVE SentInv'
    OBVIOUS
<1>t. /\ puts \in Seq(Seq(Chars)) /\ sent \in Seq(Seq(Chars))
      /\ Len(puts) \in Nat /\ Len(sent) \in Nat /\ BufLimit \in Nat /\ BufSize \in Nat
      BY LenProperties, ConsoleAssumption DEF WorkInv, SentInv
<1>1. CASE QueryMode \/ SetMode \/ NoGop
      BY <1>1 DEF QueryMode, SetMode, NoGop, SentInv, screen
<1>2. CASE Puts
  <2>1. /\ str' \in Seq(Chars) /\ puts' = Append(puts, str') /\ i' = 0 /\ buf' = <<>>
        /\ pc' = IF conOut THEN "buffer" ELSE "rest"
        /\ pc = "idle" /\ conOut' = conOut /\ sent' = sent
        BY <1>2, ConsoleAssumption DEF Puts
  <2>2. Len(sent) = IF ~conOut THEN 0 ELSE Len(puts)
        BY <2>1 DEF SentInv
  <2>3. Len(puts') = Len(puts) + 1
        BY <2>1, <1>t, AppendProperties
  <2>4. Len(sent') = IF ~conOut' THEN 0
                     ELSE IF pc' = "buffer" THEN Len(puts') - 1 ELSE Len(puts')
        BY <2>1, <2>2, <2>3, <1>t
  <2>5. \A n \in 1 .. Len(sent') : Prefixed(sent'[n], puts'[n])
        BY <2>1, <2>2, <1>t, StillPrefixed
  <2>6. <<>> \in Seq(Chars) /\ IsTranslation(<<>>, str', 0) /\ Len(<<>>) <= BufLimit + 1
    <3>1. Place(str', 0) = 0 /\ <<>> \in Seq(Chars) /\ Len(<<>>) = 0
      <4>1. 0 \in 0 .. Len(str')
            BY <2>1, LenProperties
      <4> QED BY <2>1, <4>1, PlaceFacts, EmptySeq
    <3> QED BY <3>1, <1>t DEF IsTranslation
  <2> QED BY <2>1, <2>4, <2>5, <2>6, <1>t DEF SentInv
<1>3. CASE BufferChar
  <2>1. /\ pc = "buffer" /\ pc' = pc /\ Working /\ i < Len(str) /\ Len(buf) < BufLimit
        /\ buf' = buf \o InBuffer(str[i + 1]) /\ i' = i + 1
        /\ UNCHANGED <<conOut, str, sent, puts>>
        BY <1>3 DEF BufferChar, HasRoom, Working
  <2>2. str \in Seq(Chars) /\ i \in 0 .. Len(str)
        BY <2>1, StringInWork
  <2>3. conOut /\ buf \in Seq(Chars) /\ IsTranslation(buf, str, i)
        BY <2>1 DEF SentInv
  <2>4. /\ IsTranslation(buf', str, i + 1) /\ buf' \in Seq(Chars)
        /\ Len(buf') <= Len(buf) + 2
        BY <2>1, <2>2, <2>3, TranslationStep
  <2>5. Len(buf') <= BufLimit + 1
    <3>1. Len(buf) \in Nat /\ Len(buf') \in Nat
          BY <2>3, <2>4, LenProperties
    <3> QED BY <3>1, <2>1, <2>4, <1>t
  <2> QED BY <2>1, <2>3, <2>4, <2>5 DEF SentInv
<1>4. CASE Output
  <2>1. /\ pc = "buffer" /\ pc' = "rest" /\ Working /\ sent' = Append(sent, buf)
        /\ i = Len(str) \/ Len(buf) >= BufLimit
        /\ UNCHANGED <<conOut, puts>>
    <3>1. pc = "buffer" => Len(buf) \in Nat
          BY LenProperties DEF SentInv
    <3> QED BY <1>4, <3>1, <1>t DEF Output, HasRoom, Working
  <2>2. /\ conOut /\ buf \in Seq(Chars) /\ IsTranslation(buf, str, i)
        /\ Len(buf) <= BufLimit + 1 /\ Len(sent) = Len(puts) - 1
        BY <2>1 DEF SentInv
  <2>3. Len(buf) \in Nat /\ i \in 0 .. Len(str) /\ Len(str) \in Nat
        BY <2>1, <2>2, LenProperties, StringInWork
  <2>4. Len(buf) < BufSize
        BY <2>2, <2>3, <1>t, ConsoleAssumption
  <2>5. Prefixed(buf, str)
        BY <2>1, <2>2, <2>3, <2>4 DEF Prefixed
  <2>6. /\ sent' \in Seq(Seq(Chars)) /\ Len(sent') = Len(puts)
        /\ sent'[Len(puts)] = buf /\ \A n \in 1 .. Len(sent) : sent'[n] = sent[n]
        BY <2>1, <2>2, <1>t, AppendProperties
  <2>7. str = puts[Len(puts)]
        BY <2>1 DEF WorkInv
  <2>8. ASSUME NEW n \in 1 .. Len(sent')
        PROVE  Prefixed(sent'[n], puts[n])
    <3>1. n = Len(puts) \/ n \in 1 .. Len(sent)
          BY <2>2, <2>6, <1>t
    <3> QED BY <3>1, <2>5, <2>6, <2>7 DEF SentInv
  <2> QED BY <2>1, <2>2, <2>6, <2>8 DEF SentInv
<1>5. CASE DrawRest \/ Return
      BY <1>5 DEF DrawRest, Return, SentInv
<1>6. CASE UNCHANGED vars
      BY <1>6 DEF vars, SentInv
<1> QED BY <1>1, <1>2, <1>3, <1>4, <1>5, <1>6 DEF Next

-----------------------------------------------------------------------------
(* Scan lines and rows                                                     *)

\* Quotient and remainder of a number given as both.
LEMMA DivMod ==
    ASSUME NEW q \in Nat, NEW r \in Nat, NEW d \in Nat \ {0}, r < d
    PROVE  (q * d + r) \div d = q /\ (q * d + r) % d = r
OBVIOUS

\* What \div and % mean.
LEMMA QuotientRemainder ==
    ASSUME NEW x \in Nat, NEW d \in Nat \ {0}
    PROVE  /\ (x \div d) * d + (x % d) = x
           /\ x \div d \in Nat /\ x % d \in 0 .. d - 1
OBVIOUS

\* The same, as a witness for the rules that follow.
LEMMA Division ==
    ASSUME NEW x \in Nat, NEW d \in Nat \ {0}
    PROVE  \E q, r \in Nat : x \div d = q /\ x % d = r /\ q * d + r = x /\ r < d
<1>1. x % d \in Nat /\ x % d < d
      BY QuotientRemainder
<1> QED BY QuotientRemainder, <1>1, Zenon

\* The screen has room for one row and one column.
Sized ==
    /\ FONT_HEIGHT \in Nat \ {0} /\ height \in Nat /\ height >= FONT_HEIGHT
    /\ cols \in Nat \ {0}

\* The rows are those that fit the height.
LEMMA RowsFit ==
    ASSUME Sized
    PROVE  /\ Rows \in Nat \ {0} /\ Rows * FONT_HEIGHT <= height
           /\ height < Rows * FONT_HEIGHT + FONT_HEIGHT
<1>1. PICK q \in Nat, r \in Nat : /\ height \div FONT_HEIGHT = q
                                  /\ q * FONT_HEIGHT + r = height /\ r < FONT_HEIGHT
      BY Division, Zenon DEF Sized
<1>2. PICK f \in Nat \ {0} : f = FONT_HEIGHT
      BY DEF Sized
<1>3. q # 0
      BY <1>1, <1>2 DEF Sized
<1>4. Rows = q
      BY <1>1 DEF Rows
<1>5. PICK p \in Nat : p = q * f
      BY <1>2
<1> QED BY <1>1, <1>2, <1>3, <1>4, <1>5

\* A line lies above the end of the n-th row if its row does.
LEMMA RowOfLine ==
    ASSUME FONT_HEIGHT \in Nat \ {0}, NEW l \in Nat, NEW n \in Nat
    PROVE  /\ l \div FONT_HEIGHT \in Nat /\ l % FONT_HEIGHT \in 0 .. FONT_HEIGHT - 1
           /\ l \div FONT_HEIGHT < n <=> l < n * FONT_HEIGHT
<1>1. PICK q \in Nat, r \in Nat : /\ l \div FONT_HEIGHT = q /\ l % FONT_HEIGHT = r
                                  /\ q * FONT_HEIGHT + r = l /\ r < FONT_HEIGHT
      BY Division, Zenon
<1>2. PICK f \in Nat \ {0} : f = FONT_HEIGHT
      OBVIOUS
<1>3. CASE q < n
  <2>1. PICK d \in Nat : n = q + 1 + d
    <3>1. n - (q + 1) \in Nat /\ n = q + 1 + (n - (q + 1))
          BY <1>3
    <3> QED BY <3>1
  <2>2. n * f = q * f + f + d * f /\ d * f \in Nat
        BY ONLY <2>1, <1>2, q \in Nat, d \in Nat, f \in Nat, SMT
  <2>3. l < n * f
        BY <2>2, <1>1, <1>2
  <2> QED BY <2>3, <1>1, <1>2, <1>3
<1>4. CASE ~(q < n)
  <2>1. PICK d \in Nat : q = n + d
    <3>1. q - n \in Nat /\ q = n + (q - n)
          BY <1>4
    <3> QED BY <3>1
  <2>2. q * f = n * f + d * f /\ d * f \in Nat /\ n * f \in Nat
        BY ONLY <2>1, <1>2, n \in Nat, d \in Nat, f \in Nat, SMT
  <2>3. ~(l < n * f)
        BY <2>2, <1>1, <1>2
  <2> QED BY <2>3, <1>1, <1>2, <1>4
<1> QED BY <1>3, <1>4

\* The line a row of glyphs further down.
LEMMA LineBelow ==
    ASSUME FONT_HEIGHT \in Nat \ {0}, NEW l \in Nat
    PROVE  /\ (l + FONT_HEIGHT) \div FONT_HEIGHT = (l \div FONT_HEIGHT) + 1
           /\ (l + FONT_HEIGHT) % FONT_HEIGHT = l % FONT_HEIGHT
<1>1. PICK q \in Nat, r \in Nat : /\ l \div FONT_HEIGHT = q /\ l % FONT_HEIGHT = r
                                  /\ q * FONT_HEIGHT + r = l /\ r < FONT_HEIGHT
      BY Division, Zenon
<1>2. PICK f \in Nat \ {0} : f = FONT_HEIGHT
      OBVIOUS
<1>3. l + f = (q + 1) * f + r
  <2>1. (q + 1) * f = q * f + f
        OBVIOUS
  <2> QED BY <2>1, <1>1, <1>2
<1>4. q + 1 \in Nat
      OBVIOUS
<1>5. ((q + 1) * f + r) \div f = q + 1 /\ ((q + 1) * f + r) % f = r
      BY <1>1, <1>2, <1>4, DivMod, Zenon
<1> QED BY <1>1, <1>2, <1>3, <1>5

\* The lines of a row are those between its first and its last.
LEMMA LinesOfRow ==
    ASSUME FONT_HEIGHT \in Nat \ {0}, NEW l \in Nat, NEW k \in Nat
    PROVE  /\ l \in k * FONT_HEIGHT .. k * FONT_HEIGHT + FONT_HEIGHT - 1
                 <=> l \div FONT_HEIGHT = k
           /\ l \div FONT_HEIGHT = k => l - k * FONT_HEIGHT = l % FONT_HEIGHT
<1>1. PICK q \in Nat, r \in Nat : /\ l \div FONT_HEIGHT = q /\ l % FONT_HEIGHT = r
                                  /\ q * FONT_HEIGHT + r = l /\ r < FONT_HEIGHT
      BY Division, Zenon
<1>2. PICK f \in Nat \ {0} : f = FONT_HEIGHT
      OBVIOUS
<1>3. q < k <=> l < k * f
      BY <1>1, <1>2, RowOfLine
<1>4. q < k + 1 <=> l < (k + 1) * f
  <2>1. k + 1 \in Nat
        OBVIOUS
  <2> QED BY <2>1, <1>1, <1>2, RowOfLine
<1>5. (k + 1) * f = k * f + f
      OBVIOUS
<1>6. PICK p \in Nat : p = k * f
      OBVIOUS
<1>7. l \in p .. p + f - 1 <=> q = k
      BY <1>3, <1>4, <1>5, <1>6
<1>8. q = k => l - p = r
      BY <1>1, <1>2, <1>6
<1> QED BY <1>1, <1>2, <1>6, <1>7, <1>8

-----------------------------------------------------------------------------
(* The screen and the text                                                 *)

\* An empty cell has no glyph in it.
LEMMA NoGlyph == \A y : Glyph(Blank, y) = Blank
BY ConsoleAssumption DEF Glyph

\* What an empty row adds to the text is nothing.
LEMMA TextGrows ==
    ASSUME Sized, NEW t, IsText(t)
    PROVE  /\ IsText(NextRow(t)) /\ NextRow(t).x = 0
           /\ Len(t.rows) \in Nat /\ Len(NextRow(t).rows) = Len(t.rows) + 1
           /\ \A r \in 1 .. Len(t.rows) : NextRow(t).rows[r] = t.rows[r]
           /\ NextRow(t).rows[Len(t.rows) + 1] = BlankLine
<1> DEFINE S == [Cells -> Chars \cup {Blank}]
           rows == t.rows
<1>1. rows \in Seq(S) /\ Len(rows) > 0
      BY DEF IsText
<1>2. BlankLine \in S
      BY DEF BlankLine
<1>3. Len(rows) \in Nat
      BY <1>1, LenProperties
<1> HIDE DEF S
<1>4. /\ Append(rows, BlankLine) \in Seq(S)
      /\ Len(Append(rows, BlankLine)) = Len(rows) + 1
      /\ \A r \in 1 .. Len(rows) : Append(rows, BlankLine)[r] = rows[r]
      /\ Append(rows, BlankLine)[Len(rows) + 1] = BlankLine
      BY <1>1, <1>2, AppendProperties
<1>5. NextRow(t) = [rows |-> Append(rows, BlankLine), x |-> 0]
      BY DEF NextRow
<1>6. 0 \in 0 .. cols
      BY DEF Sized
<1>7. NextRow(t) \in [rows : Seq(S), x : 0 .. cols]
      BY <1>4, <1>5, <1>6
<1> HIDE DEF rows
<1>8. IsText(NextRow(t))
      BY <1>3, <1>4, <1>5, <1>7 DEF IsText, S
<1> QED BY <1>3, <1>4, <1>5, <1>8 DEF rows

\* A new row while the screen has room: nothing on it changes.
LEMMA ShownWithRoom ==
    ASSUME Sized, NEW t, IsText(t), Len(t.rows) < Rows, NEW l \in Lines, NEW x \in Cells
    PROVE  Shown(NextRow(t), l, x) = Shown(t, l, x)
<1> DEFINE k == l \div FONT_HEIGHT
           y == l % FONT_HEIGHT
           n == Len(t.rows)
<1>0. l \in Nat /\ FONT_HEIGHT \in Nat \ {0}
      BY DEF Sized, Lines
<1>1. k \in Nat /\ n \in Nat /\ Rows \in Nat
  <2>1. k \in Nat
        BY <1>0, RowOfLine, Zenon
  <2> QED BY <2>1, RowsFit, TextGrows
<1>2. Skipped(t) = 0 /\ Skipped(NextRow(t)) = 0
      BY <1>1, TextGrows DEF Skipped
<1>3. Shown(NextRow(t), l, x) = IF k < Rows /\ k + 1 <= n + 1
                                THEN Glyph(NextRow(t).rows[k + 1][x], y) ELSE Blank
      BY <1>1, <1>2, TextGrows DEF Shown
<1>4. Shown(t, l, x) = IF k < Rows /\ k + 1 <= n THEN Glyph(t.rows[k + 1][x], y) ELSE Blank
      BY <1>1, <1>2 DEF Shown
<1> HIDE DEF k, y, n
<1>5. CASE k + 1 <= n
  <2>1. NextRow(t).rows[k + 1] = t.rows[k + 1]
        BY <1>1, <1>5, TextGrows DEF n
  <2> QED BY <2>1, <1>1, <1>3, <1>4, <1>5
<1>6. CASE k + 1 = n + 1
  <2>1. NextRow(t).rows[k + 1][x] = Blank
        BY <1>6, TextGrows DEF BlankLine, n
  <2> QED BY <2>1, <1>1, <1>3, <1>4, <1>6, NoGlyph
<1>7. CASE k + 1 > n + 1
      BY <1>1, <1>3, <1>4, <1>7
<1> QED BY <1>1, <1>5, <1>6, <1>7

\* A new row when the screen is full: every row moves up, and the last one and
\* the spare lines below it are empty.
LEMMA ShownScrolled ==
    ASSUME Sized, NEW t, IsText(t), Len(t.rows) >= Rows, NEW l \in Lines, NEW x \in Cells
    PROVE  Shown(NextRow(t), l, x) = IF l < height - FONT_HEIGHT
                                     THEN Shown(t, l + FONT_HEIGHT, x) ELSE Blank
<1> DEFINE k == l \div FONT_HEIGHT
           y == l % FONT_HEIGHT
           n == Len(t.rows)
<1>0. l \in Nat /\ FONT_HEIGHT \in Nat \ {0} /\ height \in Nat
      BY DEF Sized, Lines
<1>1. k \in Nat /\ n \in Nat /\ Rows \in Nat \ {0}
      BY <1>0, RowOfLine, RowsFit, TextGrows
<1>r. n >= Rows
      OBVIOUS
<1>2. Skipped(t) = n - Rows /\ Skipped(NextRow(t)) = n + 1 - Rows
      BY <1>1, TextGrows DEF Skipped
<1>3. Shown(NextRow(t), l, x) = IF k < Rows /\ (n + 1 - Rows) + k + 1 <= n + 1
                                THEN Glyph(NextRow(t).rows[(n + 1 - Rows) + k + 1][x], y)
                                ELSE Blank
      BY <1>1, <1>2, TextGrows DEF Shown
<1>4. Shown(t, l + FONT_HEIGHT, x) =
         IF k + 1 < Rows /\ (n - Rows) + (k + 1) + 1 <= n
         THEN Glyph(t.rows[(n - Rows) + (k + 1) + 1][x], y) ELSE Blank
      BY <1>0, <1>1, <1>2, LineBelow DEF Shown
<1>5. k + 1 < Rows => l < height - FONT_HEIGHT
  <2>1. (l + FONT_HEIGHT) \div FONT_HEIGHT = k + 1
        BY <1>0, LineBelow, Zenon
  <2>0. l + FONT_HEIGHT \in Nat
        BY ONLY <1>0, SMT
  <2>2. k + 1 < Rows <=> l + FONT_HEIGHT < Rows * FONT_HEIGHT
    <3>1. Rows \in Nat
          BY <1>1
    <3>2. (l + FONT_HEIGHT) \div FONT_HEIGHT < Rows <=> l + FONT_HEIGHT < Rows * FONT_HEIGHT
          BY <2>0, <3>1, <1>0, RowOfLine, Zenon
    <3> QED BY <2>1, <3>2, Zenon
  <2>3. PICK p \in Nat : p = Rows * FONT_HEIGHT
        BY <1>0, <1>1
  <2>4. p <= height
        BY <2>3, RowsFit
  <2> QED BY <2>2, <2>3, <2>4, <1>0
<1> HIDE DEF k, y, n
<1>6. CASE k + 1 < Rows
  <2>1. (n + 1 - Rows) + k + 1 = (n - Rows) + (k + 1) + 1
        BY ONLY <1>1, SMT
  <2>2. NextRow(t).rows[(n - Rows) + (k + 1) + 1] = t.rows[(n - Rows) + (k + 1) + 1]
    <3>1. (n - Rows) + (k + 1) + 1 \in 1 .. n
          BY ONLY <1>1, <1>6, <1>r, SMT
    <3> QED BY <3>1, TextGrows DEF n
  <2> QED BY ONLY <2>1, <2>2, <1>1, <1>3, <1>4, <1>5, <1>6, SMT
<1>7. CASE k + 1 = Rows
  <2>1. (n + 1 - Rows) + k + 1 = n + 1
        BY <1>1, <1>7
  <2>2. NextRow(t).rows[n + 1][x] = Blank
        BY TextGrows DEF BlankLine, n
  <2>3. Shown(NextRow(t), l, x) = Blank
        BY <2>1, <2>2, <1>3, NoGlyph
  <2>4. Shown(t, l + FONT_HEIGHT, x) = Blank
        BY <1>1, <1>4, <1>7
  <2> QED BY <2>3, <2>4
<1>8. CASE k + 1 > Rows
  <2>1. Shown(NextRow(t), l, x) = Blank /\ Shown(t, l + FONT_HEIGHT, x) = Blank
        BY ONLY <1>1, <1>3, <1>4, <1>8, SMT
  <2>2. CASE l < height - FONT_HEIGHT
        BY ONLY <2>1, <2>2
  <2>3. CASE ~(l < height - FONT_HEIGHT)
        BY ONLY <2>1, <2>3
  <2> QED BY <2>2, <2>3
<1> QED BY <1>1, <1>6, <1>7, <1>8

\* The cursor goes to the next row, or the screen scrolls, when the text does.
LEMMA NewRowBehind ==
    ASSUME Sized, NEW t, NEW s, Behind(t, s)
    PROVE  Behind(NextRow(t), NewRow(s))
<1> DEFINE n == Len(t.rows)
           f == [l \in Lines |-> [x \in Cells |-> Shown(t, l, x)]]
           g == [l \in Lines |-> [x \in Cells |-> Shown(NextRow(t), l, x)]]
<1>1. /\ FONT_HEIGHT \in Nat \ {0} /\ height \in Nat /\ n \in Nat \ {0}
      /\ Rows \in Nat \ {0} /\ IsText(t)
      BY RowsFit, TextGrows DEF Sized, Behind, IsText
<1>2. /\ s = [fb |-> f, cx |-> s.cx, cy |-> s.cy]
      /\ s.cy = IF n > Rows THEN Rows - 1 ELSE n - 1
      BY DEF Behind
<1>3. IsText(NextRow(t)) /\ Len(NextRow(t).rows) = n + 1 /\ NextRow(t).x = 0
      BY <1>1, TextGrows
<1>4. PICK p \in Nat : p = Rows * FONT_HEIGHT /\ p <= height /\ height < p + FONT_HEIGHT
      BY <1>1, RowsFit
<1>n. n \in Nat \ {0} /\ Rows \in Nat \ {0} /\ height \in Nat /\ FONT_HEIGHT \in Nat \ {0}
      BY <1>1
<1>g. \A l \in Lines : f[l] = [x \in Cells |-> Shown(t, l, x)]
      OBVIOUS
<1>h. \A l \in Lines : g[l] = [x \in Cells |-> Shown(NextRow(t), l, x)]
      OBVIOUS
<1>b. ASSUME NEW row, row = IF n + 1 > Rows THEN Rows - 1 ELSE n + 1 - 1
      PROVE  Behind(NextRow(t), [fb |-> g, cx |-> 0, cy |-> row])
      BY <1>b, <1>3 DEF Behind
<1>5. CASE n < Rows
  <2>1. s.cy = n - 1
        BY <1>1, <1>2, <1>5
  <2>2. (n + 1) * FONT_HEIGHT <= Rows * FONT_HEIGHT
    <3>1. PICK d \in Nat : Rows = n + 1 + d
      <4> HIDE DEF n
      <4>1. Rows - (n + 1) \in Nat /\ Rows = n + 1 + (Rows - (n + 1))
            BY ONLY <1>n, <1>5, SMT
      <4> QED BY <4>1
    <3>2. PICK h \in Nat : h = FONT_HEIGHT
          BY <1>1
    <3>3. Rows * h = (n + 1) * h + d * h /\ d * h \in Nat /\ (n + 1) * h \in Nat
      <4>1. PICK m \in Nat, r \in Nat : m = n /\ r = Rows
            BY <1>1
      <4>2. r = m + 1 + d
            BY <3>1, <4>1
      <4>3. r * h = (m + 1) * h + d * h /\ d * h \in Nat /\ (m + 1) * h \in Nat
            BY ONLY <4>2, m \in Nat, d \in Nat, h \in Nat, SMT
      <4> QED BY <4>1, <4>3
    <3>4. PICK u \in Nat, v \in Nat : u = (n + 1) * h /\ v = d * h /\ Rows * h = u + v
          BY <3>3
    <3>5. u <= u + v
          OBVIOUS
    <3> QED BY ONLY <3>2, <3>4, <3>5
  <2>3. ~((s.cy + 2) * FONT_HEIGHT > height)
    <3>1. s.cy + 2 = n + 1
          BY <2>1, <1>1
    <3>2. PICK q \in Nat : q = (n + 1) * FONT_HEIGHT
          BY <1>1
    <3> QED BY <3>1, <3>2, <2>2, <1>1, <1>4
  <2>4. NewRow(s) = [fb |-> f, cx |-> 0, cy |-> n]
    <3>1. NewRow(s) = [fb |-> s.fb, cx |-> 0, cy |-> s.cy + 1]
          BY <2>3 DEF NewRow
    <3>2. s.cy + 1 = n
      <4> HIDE DEF n
      <4> QED BY ONLY <2>1, <1>n, SMT
    <3>3. s.fb = f
          BY <1>2
    <3> HIDE DEF f, n
    <3> QED BY ONLY <3>1, <3>2, <3>3
  <2>5. f = g
        BY <1>1, <1>5, ShownWithRoom
  <2> HIDE DEF f, n, g
  <2>6. n = IF n + 1 > Rows THEN Rows - 1 ELSE n + 1 - 1
        BY ONLY <1>n, <1>5, SMT
  <2>7. Behind(NextRow(t), [fb |-> g, cx |-> 0, cy |-> n])
        BY ONLY <2>6, <1>b
  <2> QED BY ONLY <2>4, <2>5, <2>7
<1>6. CASE n >= Rows
  <2>1. s.cy = Rows - 1
        BY <1>1, <1>2, <1>6
  <2>2. (s.cy + 2) * FONT_HEIGHT > height
    <3>1. s.cy + 2 = Rows + 1
          BY <2>1, <1>1
    <3>2. (Rows + 1) * FONT_HEIGHT = Rows * FONT_HEIGHT + FONT_HEIGHT
          BY <1>1
    <3> QED BY <3>1, <3>2, <1>1, <1>4
  <2>3. NewRow(s) = [fb |-> Scrolled(f), cx |-> 0, cy |-> Rows - 1]
        BY <2>2, <1>2 DEF NewRow
  <2>4. Scrolled(f) = g
    <3>1. ASSUME NEW l \in Lines
          PROVE  (IF l < height - FONT_HEIGHT THEN f[l + FONT_HEIGHT] ELSE BlankLine) = g[l]
      <4>1. \A x \in Cells : Shown(NextRow(t), l, x) = IF l < height - FONT_HEIGHT
                                     THEN Shown(t, l + FONT_HEIGHT, x) ELSE Blank
            BY <1>1, <1>6, ShownScrolled
      <4>2. CASE l < height - FONT_HEIGHT
        <5>1. l + FONT_HEIGHT \in Lines
              BY <1>1, <4>2 DEF Lines
        <5> QED BY <4>1, <4>2, <5>1
      <4>3. CASE ~(l < height - FONT_HEIGHT)
            BY <4>1, <4>3 DEF BlankLine
      <4> QED BY <4>2, <4>3
    <3> QED BY <3>1 DEF Scrolled
  <2> HIDE DEF f, n, g
  <2>5. Rows - 1 = IF n + 1 > Rows THEN Rows - 1 ELSE n + 1 - 1
        BY ONLY <1>n, <1>6, SMT
  <2>6. Behind(NextRow(t), [fb |-> g, cx |-> 0, cy |-> Rows - 1])
        BY ONLY <2>5, <1>b
  <2> QED BY ONLY <2>3, <2>4, <2>6
<1>7. n < Rows \/ n >= Rows
  <2> HIDE DEF n
  <2> QED BY ONLY <1>n, SMT
<1> QED BY ONLY <1>5, <1>6, <1>7

\* A character goes into the cell behind the text.
LEMMA TextPut ==
    ASSUME Sized, NEW t, IsText(t), t.x < cols, NEW c \in Chars
    PROVE  /\ IsText(Put(t, c)) /\ Put(t, c).x = t.x + 1
           /\ Len(Put(t, c).rows) = Len(t.rows)
           /\ \A r \in 1 .. Len(t.rows), x \in Cells :
                 Put(t, c).rows[r][x] = IF r = Len(t.rows) /\ x = t.x THEN c ELSE t.rows[r][x]
<1> DEFINE S == [Cells -> Chars \cup {Blank}]
           rows == t.rows
           n == Len(rows)
           last == [rows[n] EXCEPT ![t.x] = c]
<1>1. rows \in Seq(S) /\ n > 0 /\ t.x \in 0 .. cols
      BY DEF IsText
<1>2. n \in Nat
      BY <1>1, LenProperties
<1>3. rows[n] \in S
      BY <1>1, <1>2, ElementOfSeq
<1>4. last \in S /\ \A x \in Cells : last[x] = IF x = t.x THEN c ELSE rows[n][x]
      BY <1>3
<1>5. Put(t, c) = [rows |-> [rows EXCEPT ![n] = last], x |-> t.x + 1]
      BY DEF Put
<1> HIDE DEF S, last
<1>6. /\ [rows EXCEPT ![n] = last] \in Seq(S) /\ Len([rows EXCEPT ![n] = last]) = n
      /\ \A r \in 1 .. n : [rows EXCEPT ![n] = last][r] = IF r = n THEN last ELSE rows[r]
      BY <1>1, <1>2, <1>4, ExceptSeq
<1>7. t.x + 1 \in 0 .. cols
      BY <1>1 DEF Sized
<1> DEFINE more == [rows EXCEPT ![n] = last]
<1>8. more \in Seq(S) /\ Len(more) = n
      /\ \A r \in 1 .. n : more[r] = IF r = n THEN last ELSE rows[r]
      BY <1>6
<1>9. Put(t, c) = [rows |-> more, x |-> t.x + 1]
      BY <1>5
<1> HIDE DEF more, n
<1>10. IsText(Put(t, c))
       BY <1>1, <1>7, <1>8, <1>9 DEF IsText, S
<1>11. Put(t, c).x = t.x + 1 /\ Put(t, c).rows = more
       BY <1>9
<1>12. \A r \in 1 .. n, x \in Cells :
          more[r][x] = IF r = n /\ x = t.x THEN c ELSE rows[r][x]
       BY <1>4, <1>8
<1> QED BY <1>8, <1>10, <1>11, <1>12 DEF n

\* On the screen it changes that cell, in the lines of the cursor's row.
LEMMA ShownPut ==
    ASSUME Sized, NEW t, IsText(t), t.x < cols, NEW c \in Chars, NEW y,
           y = IF Len(t.rows) > Rows THEN Rows - 1 ELSE Len(t.rows) - 1,
           NEW l \in Lines, NEW x \in Cells
    PROVE  Shown(Put(t, c), l, x) = IF l \div FONT_HEIGHT = y /\ x = t.x
                                    THEN Glyph(c, l % FONT_HEIGHT) ELSE Shown(t, l, x)
<1> DEFINE k == l \div FONT_HEIGHT
           z == l % FONT_HEIGHT
           n == Len(t.rows)
           skip == Skipped(t)
<1>0. l \in Nat /\ FONT_HEIGHT \in Nat \ {0}
      BY DEF Sized, Lines
<1>1. k \in Nat
      BY <1>0, RowOfLine, Zenon
<1>2. n \in Nat \ {0} /\ Rows \in Nat \ {0}
      BY RowsFit, TextGrows DEF IsText
<1>3. Skipped(Put(t, c)) = skip /\ Len(Put(t, c).rows) = n
      BY TextPut DEF Skipped
<1>4. skip = (IF n > Rows THEN n - Rows ELSE 0) /\ y = IF n > Rows THEN Rows - 1 ELSE n - 1
      BY DEF Skipped
<1>5. Shown(t, l, x) = IF k < Rows /\ skip + k + 1 <= n
                       THEN Glyph(t.rows[skip + k + 1][x], z) ELSE Blank
      BY DEF Shown
<1>6. Shown(Put(t, c), l, x) = IF k < Rows /\ skip + k + 1 <= n
                               THEN Glyph(Put(t, c).rows[skip + k + 1][x], z) ELSE Blank
      BY <1>3 DEF Shown
<1>7. \A r \in 1 .. n : Put(t, c).rows[r][x] = IF r = n /\ x = t.x THEN c ELSE t.rows[r][x]
      BY TextPut
<1> HIDE DEF k, z, n, skip
<1>8. k = y <=> k < Rows /\ skip + k + 1 = n
      BY ONLY <1>1, <1>2, <1>4, SMT
<1>9. k < Rows /\ skip + k + 1 <= n => skip + k + 1 \in 1 .. n
      BY ONLY <1>1, <1>2, <1>4, SMT
<1>10. CASE k < Rows /\ skip + k + 1 <= n
  <2>1. Put(t, c).rows[skip + k + 1][x] = IF k = y /\ x = t.x THEN c
                                          ELSE t.rows[skip + k + 1][x]
        BY <1>7, <1>8, <1>9, <1>10
  <2> QED BY <2>1, <1>5, <1>6, <1>10 DEF k, z
<1>11. CASE ~(k < Rows /\ skip + k + 1 <= n)
  <2>1. k # y
        BY ONLY <1>1, <1>2, <1>4, <1>8, <1>11, SMT
  <2> QED BY <2>1, <1>5, <1>6, <1>11 DEF k, z
<1> QED BY <1>10, <1>11

\* Drawing a glyph at the cursor keeps the screen the end of the text.
LEMMA PlottedBehind ==
    ASSUME Sized, NEW t, NEW s, Behind(t, s), t.x < cols, NEW c \in Chars
    PROVE  Behind(Put(t, c), Plotted(s, c))
<1> DEFINE top == s.cy * FONT_HEIGHT
           f == [l \in Lines |-> [x \in Cells |-> Shown(t, l, x)]]
           g == [l \in Lines |-> [x \in Cells |-> Shown(Put(t, c), l, x)]]
           h == [l \in Lines |-> IF l \in top .. top + FONT_HEIGHT - 1
                                 THEN [f[l] EXCEPT ![t.x] = Glyph(c, l - top)] ELSE f[l]]
<1>1. /\ IsText(t) /\ s.fb = f /\ s.cx = t.x
      /\ s.cy = IF Len(t.rows) > Rows THEN Rows - 1 ELSE Len(t.rows) - 1
      BY DEF Behind
<1>2. FONT_HEIGHT \in Nat \ {0} /\ Len(t.rows) \in Nat \ {0} /\ Rows \in Nat \ {0}
      BY <1>1, RowsFit, TextGrows DEF IsText, Sized
<1>3. s.cy \in Nat
      BY <1>1, <1>2
<1>4. Plotted(s, c) = [fb |-> h, cx |-> t.x + 1, cy |-> s.cy]
      BY <1>1 DEF Plotted
<1>5. ASSUME NEW l \in Lines
      PROVE  h[l] = g[l]
  <2>1. l \in Nat
        BY DEF Lines
  <2>2. l \in top .. top + FONT_HEIGHT - 1 <=> l \div FONT_HEIGHT = s.cy
        BY <2>1, <1>2, <1>3, LinesOfRow
  <2>3. l \div FONT_HEIGHT = s.cy => l - top = l % FONT_HEIGHT
        BY <2>1, <1>2, <1>3, LinesOfRow
  <2>4. \A x \in Cells : Shown(Put(t, c), l, x) =
           IF l \div FONT_HEIGHT = s.cy /\ x = t.x
           THEN Glyph(c, l % FONT_HEIGHT) ELSE Shown(t, l, x)
        BY <1>1, ShownPut
  <2>5. h[l] = IF l \in top .. top + FONT_HEIGHT - 1
               THEN [f[l] EXCEPT ![t.x] = Glyph(c, l - top)] ELSE f[l]
        OBVIOUS
  <2>6. f[l] = [x \in Cells |-> Shown(t, l, x)]
        OBVIOUS
  <2>7. g[l] = [x \in Cells |-> Shown(Put(t, c), l, x)]
        OBVIOUS
  <2> HIDE DEF f, g, h, top
  <2>8. CASE l \div FONT_HEIGHT = s.cy
    <3>1. h[l] = [f[l] EXCEPT ![t.x] = Glyph(c, l % FONT_HEIGHT)]
          BY <2>2, <2>3, <2>5, <2>8, Zenon
    <3>2. PICK z, q : z = l % FONT_HEIGHT /\ q = Glyph(c, z)
          OBVIOUS
    <3>3. [f[l] EXCEPT ![t.x] = q] = [x \in Cells |-> IF x = t.x THEN q ELSE Shown(t, l, x)]
          BY ONLY <2>6
    <3>4. \A x \in Cells : Shown(Put(t, c), l, x) = IF x = t.x THEN q ELSE Shown(t, l, x)
          BY <2>4, <2>8, <3>2, Zenon
    <3> QED BY ONLY <3>1, <3>2, <3>3, <3>4, <2>7
  <2>9. CASE l \div FONT_HEIGHT # s.cy
    <3>1. h[l] = f[l]
          BY <2>2, <2>5, <2>9, Zenon
    <3>2. \A x \in Cells : Shown(Put(t, c), l, x) = Shown(t, l, x)
          BY <2>4, <2>9, Zenon
    <3> QED BY ONLY <3>1, <3>2, <2>6, <2>7
  <2> QED BY <2>8, <2>9
<1>6. h = g
  <2>1. h = [l \in Lines |-> h[l]] /\ g = [l \in Lines |-> g[l]]
        OBVIOUS
  <2> HIDE DEF h, g
  <2> QED BY <2>1, <1>5
<1>7. IsText(Put(t, c)) /\ Put(t, c).x = t.x + 1 /\ Len(Put(t, c).rows) = Len(t.rows)
      BY <1>1, TextPut
<1>8. g = [l \in Lines |-> [x \in Cells |-> Shown(Put(t, c), l, x)]]
      OBVIOUS
<1> HIDE DEF h, g, f, top
<1> QED BY <1>1, <1>4, <1>6, <1>7, <1>8 DEF Behind

\* gop_draw_char() keeps the screen the end of the text, whatever the character.
LEMMA AfterCharBehind ==
    ASSUME Sized, NEW t, NEW s, Behind(t, s), NEW c \in Chars
    PROVE  Behind(AddChar(t, c), AfterChar(s, c))
<1>1. IsText(t) /\ s.cx = t.x /\ t.x \in 0 .. cols /\ cols \in Nat \ {0}
      BY DEF Behind, IsText, Sized
<1>2. CASE c = "CR"
  <2>1. AfterChar(s, c) = [s EXCEPT !.cx = 0] /\ AddChar(t, c) = [t EXCEPT !.x = 0]
        BY <1>2 DEF AfterChar, AddChar
  <2>2. PICK f, y : s = [fb |-> f, cx |-> t.x, cy |-> y]
        BY <1>1 DEF Behind
  <2>3. AfterChar(s, c) = [fb |-> f, cx |-> 0, cy |-> y]
        BY ONLY <2>1, <2>2
  <2>4. AddChar(t, c).rows = t.rows /\ AddChar(t, c).x = 0 /\ IsText(AddChar(t, c))
        BY <2>1, <1>1 DEF IsText
  <2>5. \A l, x : Shown(AddChar(t, c), l, x) = Shown(t, l, x)
        BY <2>4 DEF Shown, Skipped
  <2>6. f = [l \in Lines |-> [x \in Cells |-> Shown(AddChar(t, c), l, x)]]
    <3>1. f = [l \in Lines |-> [x \in Cells |-> Shown(t, l, x)]]
          BY <2>2 DEF Behind
    <3> QED BY ONLY <3>1, <2>5
  <2>7. y = IF Len(AddChar(t, c).rows) > Rows THEN Rows - 1 ELSE Len(AddChar(t, c).rows) - 1
        BY <2>2, <2>4 DEF Behind
  <2> QED BY <2>3, <2>4, <2>6, <2>7 DEF Behind
<1>3. CASE c = "LF"
      BY <1>3, NewRowBehind DEF AfterChar, AddChar
<1>4. CASE c \notin {"CR", "LF"}
  <2> DEFINE u == IF t.x = cols THEN NextRow(t) ELSE t
             v == IF s.cx + 1 > cols THEN NewRow(s) ELSE s
  <2>1. AfterChar(s, c) = Plotted(v, c) /\ AddChar(t, c) = Put(u, c)
        BY <1>4 DEF AfterChar, AddChar
  <2>2. s.cx + 1 > cols <=> t.x = cols
        BY <1>1
  <2>3. CASE t.x = cols
    <3>1. u = NextRow(t) /\ v = NewRow(s)
          BY <2>2, <2>3
    <3>2. Behind(u, v) /\ u.x < cols
          BY <3>1, <1>1, NewRowBehind, TextGrows
    <3> QED BY <3>2, <2>1, PlottedBehind
  <2>4. CASE t.x # cols
    <3>1. u = t /\ v = s /\ t.x < cols
          BY <2>2, <2>4, <1>1
    <3> QED BY <3>1, <2>1, PlottedBehind
  <2> QED BY <2>3, <2>4
<1> QED BY <1>2, <1>3, <1>4

\* A screen that was cleared shows an empty text.
ClearedScreen ==
    /\ Sized /\ fb = Blanks(height, cols) /\ cx = 0 /\ cy = 0
    /\ text = [rows |-> <<[x \in 0 .. cols - 1 |-> Blank]>>, x |-> 0]
LEMMA ClearedBehind ==
    ClearedScreen => Behind(text, [fb |-> fb, cx |-> cx, cy |-> cy])
<1> SUFFICES ASSUME ClearedScreen
             PROVE  Behind(text, [fb |-> fb, cx |-> cx, cy |-> cy])
    OBVIOUS
<1>1. text = [rows |-> <<BlankLine>>, x |-> 0] /\ Sized
      BY DEF ClearedScreen, BlankLine, Cells
<1>2. BlankLine \in [Cells -> Chars \cup {Blank}] /\ 0 \in 0 .. cols
      BY <1>1 DEF BlankLine, Sized
<1>3. <<BlankLine>> \in Seq([Cells -> Chars \cup {Blank}]) /\ Len(<<BlankLine>>) = 1
      /\ <<BlankLine>>[1] = BlankLine
      BY <1>2
<1>4. IsText(text) /\ text.x = 0 /\ Len(text.rows) = 1 /\ text.rows[1] = BlankLine
      BY <1>1, <1>2, <1>3 DEF IsText
<1>5. Rows \in Nat \ {0}
      BY <1>1, RowsFit
<1>6. ASSUME NEW l \in Lines, NEW x \in Cells
      PROVE  Shown(text, l, x) = Blank
  <2>1. l \div FONT_HEIGHT \in Nat
    <3>1. l \in Nat /\ FONT_HEIGHT \in Nat \ {0}
          BY <1>1 DEF Lines, Sized
    <3> QED BY <3>1, RowOfLine, Zenon
  <2>2. PICK k \in Nat : k = l \div FONT_HEIGHT
        BY <2>1, Zenon
  <2>3. Skipped(text) = 0
        BY <1>4, <1>5 DEF Skipped
  <2>4. Shown(text, l, x) = IF k < Rows /\ 0 + k + 1 <= 1
                            THEN Glyph(text.rows[0 + k + 1][x], l % FONT_HEIGHT) ELSE Blank
        BY <2>2, <2>3, <1>4, Zenon DEF Shown
  <2>5. 0 + k + 1 <= 1 => 0 + k + 1 = 1
        OBVIOUS
  <2>6. text.rows[1][x] = Blank
        BY <1>4 DEF BlankLine
  <2>7. PICK y : y = l % FONT_HEIGHT
        OBVIOUS
  <2>8. Shown(text, l, x) = IF k < Rows /\ 0 + k + 1 <= 1
                            THEN Glyph(text.rows[0 + k + 1][x], y) ELSE Blank
        BY <2>4, <2>7, Zenon
  <2> QED BY ONLY <2>8, <2>5, <2>6, NoGlyph
<1>7. fb = [l \in Lines |-> [x \in Cells |-> Shown(text, l, x)]]
      BY <1>6 DEF ClearedScreen, Blanks, Lines, Cells
<1> QED BY <1>4, <1>5, <1>7 DEF Behind, ClearedScreen

\* The screen stays the end of the text.
LEMMA ScreenStep ==
    ModeInv /\ ModeInv' /\ WorkInv /\ ScreenInv /\ [Next]_vars => ScreenInv'
<1> SUFFICES ASSUME ModeInv, ModeInv', WorkInv, ScreenInv, [Next]_vars PROVE ScreenInv'
    OBVIOUS
<1> DEFINE s == [fb |-> fb, cx |-> cx, cy |-> cy]
<1>1. CASE QueryMode
      BY <1>1 DEF QueryMode, ScreenInv, ModeInv
<1>2. CASE SetMode
  <2>1. Sized'
    <3>1. mode' \in Modes /\ height' = mode'.height /\ cols' = mode'.cols
          BY <1>2 DEF SetMode, ModeInv
    <3> QED BY <3>1, ConsoleAssumption DEF Sized, Modes
  <2>2. ClearedScreen'
        BY <1>2, <2>1 DEF SetMode, ClearedScreen, Blanks
  <2>3. ClearedScreen' => Behind(text, s)'
        BY ClearedBehind, PTL
  <2> QED BY <2>2, <2>3 DEF ScreenInv
<1>3. CASE NoGop
      BY <1>3 DEF NoGop, ScreenInv
<1>4. ASSUME UNCHANGED <<gop, height, cols, fb, cx, cy, text>>, pc # "modes"
      PROVE  ScreenInv'
      BY <1>4 DEF ScreenInv, Behind, IsText, Shown, Skipped, Rows, Lines, Cells
<1>5. CASE Puts \/ Output \/ Return
      BY <1>5, <1>4 DEF Puts, Output, Return, graphics, screen
<1>6. CASE BufferChar \/ DrawRest
  <2>1. /\ Working /\ pc # "modes" /\ i < Len(str) /\ Draw(str[i + 1])
        /\ UNCHANGED <<gop, height, cols>>
        BY <1>6 DEF BufferChar, DrawRest, Working, graphics
  <2>2. str[i + 1] \in Chars
        BY <2>1, StringInWork
  <2>3. CASE ~gop
        BY <2>1, <2>3, <1>4 DEF Draw, screen
  <2>4. CASE gop
    <3>1. mode \in Modes /\ height = mode.height /\ cols = mode.cols
          BY <2>1, <2>4 DEF ModeInv
    <3>2. Sized
          BY <3>1, ConsoleAssumption DEF Sized, Modes
    <3>3. Behind(text, s)
          BY <2>1, <2>4 DEF ScreenInv
    <3>4. Behind(AddChar(text, str[i + 1]), AfterChar(s, str[i + 1]))
          BY <2>2, <3>2, <3>3, AfterCharBehind
    <3>5. text' = AddChar(text, str[i + 1])
          BY <2>1, <2>4 DEF Draw
    <3>6. /\ fb' = AfterChar(s, str[i + 1]).fb /\ cx' = AfterChar(s, str[i + 1]).cx
          /\ cy' = AfterChar(s, str[i + 1]).cy
          BY <2>1, <2>4 DEF Draw
    <3>7. AfterChar(s, str[i + 1]) = [fb |-> fb', cx |-> cx', cy |-> cy']
          BY <3>4, <3>6 DEF Behind
    <3>8. Behind(text', [fb |-> fb', cx |-> cx', cy |-> cy'])
          BY <3>4, <3>5, <3>7
    <3> QED BY <2>1, <3>8
            DEF ScreenInv, Behind, IsText, Shown, Skipped, Rows, Lines, Cells
  <2> QED BY <2>3, <2>4
<1>7. CASE UNCHANGED vars
  <2>1. CASE pc # "modes"
        BY <1>7, <2>1, <1>4 DEF vars, graphics, screen
  <2>2. CASE pc = "modes"
        BY <1>7, <2>2 DEF vars, ScreenInv
  <2> QED BY <2>1, <2>2
<1> QED BY <1>1, <1>2, <1>3, <1>5, <1>6, <1>7 DEF Next

-----------------------------------------------------------------------------
(* The theorems                                                            *)

\* Nothing was asked for, printed or drawn at first.
LEMMA InitIInv == Init => IInv
<1> SUFFICES ASSUME Init PROVE IInv
    OBVIOUS
<1>1. offer \in Offers /\ pc = "modes" /\ scan = NoScan
      BY DEF Init
<1>2. Len(offer.modes) \in Nat /\ Usable \subseteq 1 .. Len(offer.modes)
      /\ UsableVga \subseteq Usable
      BY <1>1, OfferFacts DEF Usable, UsableVga
<1>3. Scanned
      BY <1>1, <1>2 DEF Scanned, NoScan
<1>4. ModeInv
      BY <1>1, <1>3 DEF Init, ModeInv
<1>5. WorkInv /\ DrawnInv /\ SentInv
      BY <1>1, NothingPrinted DEF Init, Working
<1>6. ScreenInv
      BY <1>1 DEF ScreenInv
<1> QED BY <1>4, <1>5, <1>6 DEF IInv

\* The invariant is inductive.
LEMMA StepIInv == IInv /\ [Next]_vars => IInv'
BY ModeStep, WorkStep, DrawnStep, SentStep, ScreenStep DEF IInv

\* So it holds in every reachable state.
LEMMA Invariance == Spec => []IInv
BY InitIInv, StepIInv, PTL DEF Spec

\* The kernel is told the size of the mode that is in force, and its colours if
\* the loader can draw in it, whichever calls fail and whatever modes there are.
THEOREM ModeInForceIsTold == Spec => []ToldIsInForce
<1>1. IInv => ToldIsInForce
      BY ToldRecord DEF IInv, ModeInv, ToldIsInForce
<1> QED BY <1>1, Invariance, PTL

\* The loop over the modes chooses the first one of 640x480, else the first one
\* the loader can draw in, for lists of any length.
THEOREM BestModeIsSet == Spec => ModeIsBest
<1> DEFINE want == IF ~offer.setOk THEN offer.current
                   ELSE IF UsableVga # {} THEN Min(UsableVga)
                   ELSE IF Usable # {} THEN Min(Usable) ELSE offer.current
           Best == pc = "modes" /\ pc' # "modes" /\ gop => mode' = offer.modes[want]
<1>1. IInv /\ [Next]_vars => [Best]_vars
  <2> SUFFICES ASSUME IInv, [Next]_vars, pc = "modes", pc' # "modes", gop
               PROVE  mode' = offer.modes[want]
      OBVIOUS
  <2>1. SetMode
        BY DEF Next, QueryMode, SetMode, NoGop, Puts, BufferChar, Output, DrawRest, Return, vars
  <2>2. offer \in Offers /\ Scanned /\ ~MoreModes
        BY <2>1 DEF IInv, ModeInv, SetMode
  <2>3. mode' = offer.modes[IF offer.setOk THEN ChosenMode ELSE offer.current]
        BY <2>1 DEF SetMode
  <2>4. want = IF offer.setOk THEN ChosenMode ELSE offer.current
        BY <2>2, ChosenIsBest
  <2> QED BY <2>3, <2>4
<1> QED BY <1>1, Invariance, PTL DEF Spec, ModeIsBest

\* Between two calls of uefi_puts() every character of every string was given to
\* gop_draw_char(), once and in order, wherever the two loops hand over.
THEOREM NothingUndrawn == Spec => []EveryCharDrawn
<1>1. IInv => EveryCharDrawn
  <2> SUFFICES ASSUME IInv, pc = "idle"
               PROVE  drawn = IF gop THEN puts ELSE [n \in DOMAIN puts |-> <<>>]
      BY DEF EveryCharDrawn
  <2>1. /\ puts \in Seq(Seq(Chars)) /\ drawn \in Seq(Seq(Chars)) /\ Len(drawn) = Len(puts)
        /\ \A n \in 1 .. Len(puts) : drawn[n] = IF ~gop THEN <<>> ELSE puts[n]
        BY DEF IInv, WorkInv, DrawnInv, DrawnOf, Working
  <2>2. CASE gop
        BY <2>1, <2>2, SeqEqual
  <2>3. CASE ~gop
    <3>1. DOMAIN puts = 1 .. Len(puts) /\ drawn \in [1 .. Len(puts) -> Seq(Chars)]
          BY <2>1, LenProperties
    <3> QED BY <2>1, <2>3, <3>1
  <2> QED BY <2>2, <2>3
<1> QED BY <1>1, Invariance, PTL

\* The firmware's console gets of every string what its buffer holds, with the
\* line ends translated and none of them cut, for every size of the buffer.
THEOREM ConsoleGetsPrefix == Spec => []ConOutIsPrefix
<1>1. IInv => ConOutIsPrefix
  <2> SUFFICES ASSUME IInv PROVE ConOutIsPrefix
      OBVIOUS
  <2>1. SentInv /\ DOMAIN sent = 1 .. Len(sent)
        BY LenProperties DEF IInv, SentInv
  <2> QED BY <2>1 DEF SentInv, ConOutIsPrefix
<1> QED BY <1>1, Invariance, PTL

\* The screen shows the last rows of the text and nothing else, for every size of
\* the screen and of the font and all strings.
THEOREM ScreenShowsTail == Spec => []ScreenIsTail
<1>1. IInv => ScreenIsTail
  <2> SUFFICES ASSUME IInv PROVE ScreenIsTail
      OBVIOUS
  <2>1. CASE pc # "modes" /\ gop
        BY <2>1 DEF IInv, ScreenInv, Behind, ScreenIsTail
  <2>2. CASE pc = "modes" \/ ~gop
    <3>1. height = 0 /\ fb = <<>>
          BY <2>2 DEF IInv, ModeInv
    <3>2. Lines = {}
          BY <3>1 DEF Lines
    <3> QED BY <3>1, <3>2 DEF ScreenIsTail
  <2> QED BY <2>1, <2>2 DEF IInv, ModeInv
<1> QED BY <1>1, Invariance, PTL
=============================================================================
