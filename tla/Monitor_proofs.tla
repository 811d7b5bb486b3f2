---------------------------- MODULE Monitor_proofs ----------------------------
(***************************************************************************)
(* What the monitor's user sees, and what readline and runcmd make of the  *)
(* line, for every size of the screen, the line and argv.                  *)
(***************************************************************************)
EXTENDS Monitor, WellFoundedInduction, SequenceTheorems, TLAPS

-----------------------------------------------------------------------------
(* Naturals.                                                               *)

LEMMA NatMin ==
  ASSUME NEW T, T \subseteq Nat, T # {}
  PROVE  \E m \in T : \A k \in T : m <= k
<1> DEFINE R == {ss \in Nat \X Nat : ss[1] < ss[2]}
<1>1. IsWellFoundedOn(R, Nat)
  BY NatLessThanWellFounded DEF OpToRel
<1>2. PICK m \in T : \A k \in T : ~(<<k, m>> \in R)
  <2> HIDE DEF R
  <2> QED  BY <1>1, WFMin
<1>3. \A k \in T : ~(k < m)  BY <1>2
<1> QED  BY <1>2, <1>3

\* A set that holds 0 and with each number the next one holds all.
LEMMA NatInd ==
  ASSUME NEW T, 0 \in T, \A n \in Nat : n \in T => n + 1 \in T
  PROVE  Nat \subseteq T
<1> SUFFICES ASSUME Nat \ T # {}  PROVE FALSE  OBVIOUS
<1>1. PICK m \in Nat \ T : \A k \in Nat \ T : m <= k  BY NatMin
<1>2. m # 0 /\ m - 1 \in Nat  OBVIOUS
<1>3. m - 1 \in T  BY <1>1, <1>2
<1>4. (m - 1) + 1 \in T  BY <1>2, <1>3
<1> QED  BY <1>4

-----------------------------------------------------------------------------
(* The display.                                                            *)

LEMMA Sizes ==
  /\ CRT_COLS \in Nat /\ CRT_COLS > 0 /\ CRT_SIZE \in Nat /\ CRT_COLS <= CRT_SIZE
  /\ Space \in Glyph
BY DisplayAssumption DEF CRT_SIZE

LEMMA RowStartBounds ==
  ASSUME NEW q \in Nat
  PROVE  RowStart(q) \in Nat /\ RowStart(q) <= q
<1>1. q % CRT_COLS \in 0 .. CRT_COLS - 1  BY Sizes
<1>2. q < CRT_COLS => q % CRT_COLS = q  BY Sizes
<1>3. q % CRT_COLS <= q  BY <1>1, <1>2, Sizes
<1> QED  BY <1>1, <1>3 DEF RowStart

LEMMA ScreenParts ==
  ASSUME NEW s \in Screen
  PROVE  /\ s.cell \in [Cell -> Glyph] /\ s.pos \in Cell /\ s.pos \in Nat
         /\ s.pos < CRT_SIZE
         /\ s = [cell |-> s.cell, pos |-> s.pos]
BY Sizes DEF Screen, Cell

\* Scrolling brings the cursor back, if it is less than a row outside.
LEMMA ScrolledScreen ==
  ASSUME NEW cells \in [Cell -> Glyph], NEW q \in Nat, q < CRT_SIZE + CRT_COLS
  PROVE  Scrolled([cell |-> cells, pos |-> q]) \in Screen
<1> DEFINE s == [cell |-> cells, pos |-> q]
<1>1. CASE q < CRT_SIZE
  <2>1. Scrolled(s) = s  BY <1>1 DEF Scrolled
  <2>2. q \in Cell  BY <1>1, Sizes DEF Cell
  <2> QED  BY <2>1, <2>2 DEF Screen
<1>2. CASE ~(q < CRT_SIZE)
  <2> DEFINE up == [j \in Cell |-> IF j + CRT_COLS \in Cell
                                   THEN cells[j + CRT_COLS] ELSE Space]
  <2>1. Scrolled(s) = [cell |-> up, pos |-> q - CRT_COLS]  BY <1>2 DEF Scrolled
  <2>2. q - CRT_COLS \in Cell  BY <1>2, Sizes DEF Cell
  <2>3. up \in [Cell -> Glyph]  BY Sizes
  <2> HIDE DEF up
  <2> QED  BY <2>1, <2>2, <2>3 DEF Screen
<1> QED  BY <1>1, <1>2

LEMMA WriteScreen ==
  ASSUME NEW s \in Screen, NEW g \in Glyph
  PROVE  Write(s, g) \in Screen
<1>1. [s.cell EXCEPT ![s.pos] = g] \in [Cell -> Glyph]  BY ScreenParts
<1>2. s.pos + 1 \in Nat /\ s.pos + 1 < CRT_SIZE + CRT_COLS  BY ScreenParts, Sizes
<1> QED  BY <1>1, <1>2, ScrolledScreen DEF Write

LEMMA BackspaceScreen ==
  ASSUME NEW s \in Screen
  PROVE  Backspace(s) \in Screen
<1>1. CASE s.pos = 0  BY <1>1 DEF Backspace
<1>2. CASE s.pos # 0
  <2>1. s.pos - 1 \in Cell  BY <1>2, ScreenParts, Sizes DEF Cell
  <2>2. [s.cell EXCEPT ![s.pos - 1] = Space] \in [Cell -> Glyph]  BY ScreenParts, Sizes
  <2>3. Backspace(s) = [cell |-> [s.cell EXCEPT ![s.pos - 1] = Space], pos |-> s.pos - 1]
    BY <1>2 DEF Backspace
  <2> QED  BY <2>1, <2>2, <2>3 DEF Screen
<1> QED  BY <1>1, <1>2

\* Putc by its cases.
LEMMA PutcIs ==
  ASSUME NEW s
  PROVE  /\ Putc(s, "bs") = Backspace(s)
         /\ Putc(s, "nl") = Scrolled([s EXCEPT !.pos = RowStart(@ + CRT_COLS)])
         /\ Putc(s, "cr") = [s EXCEPT !.pos = RowStart(@)]
         /\ \A g \in Glyph : Putc(s, g) = Write(s, g)
<1>1. Putc(s, "bs") = Backspace(s)  BY Zenon DEF Putc
<1>2. Putc(s, "nl") = Scrolled([s EXCEPT !.pos = RowStart(@ + CRT_COLS)])  BY Zenon DEF Putc
<1>3. Putc(s, "cr") = [s EXCEPT !.pos = RowStart(@)]  BY Zenon DEF Putc
<1>4. ASSUME NEW g \in Glyph  PROVE Putc(s, g) = Write(s, g)
  <2>1. g # "bs" /\ g # "nl" /\ g # "cr" /\ g # "tab"  BY DisplayAssumption
  <2> QED  BY <2>1, Zenon DEF Putc
<1> QED  BY <1>1, <1>2, <1>3, <1>4

\* A tab: five blanks, one after the other.
LEMMA PutcTab ==
  ASSUME NEW s
  PROVE  Putc(s, "tab") = Write(Write(Write(Write(Write(s, Space), Space), Space), Space), Space)
<1> DEFINE Rec(f) == f = [k \in 0 .. 5 |-> IF k = 0 THEN s ELSE Write(f[k - 1], Space)]
<1>1. Putc(s, "tab") = (CHOOSE f : Rec(f))[5]  BY Zenon DEF Putc
<1>2. \E f : Rec(f)
  <2> DEFINE a == Write(s, Space)
             b == Write(a, Space)
             c == Write(b, Space)
             d == Write(c, Space)
             e == Write(d, Space)
             g == [k \in 0 .. 5 |-> IF k = 0 THEN s ELSE IF k = 1 THEN a ELSE IF k = 2 THEN b
                                    ELSE IF k = 3 THEN c ELSE IF k = 4 THEN d ELSE e]
  <2>1. a = Write(s, Space) /\ b = Write(a, Space) /\ c = Write(b, Space)
        /\ d = Write(c, Space) /\ e = Write(d, Space)
    OBVIOUS
  <2> HIDE DEF a, b, c, d, e
  <2>2. g[0] = s /\ g[1] = a /\ g[2] = b /\ g[3] = c /\ g[4] = d /\ g[5] = e  OBVIOUS
  <2>3. \A k \in 0 .. 5 : g[k] = IF k = 0 THEN s ELSE Write(g[k - 1], Space)
    <3> HIDE DEF g
    <3>1. \A k \in 0 .. 5 : k = 0 \/ k = 1 \/ k = 2 \/ k = 3 \/ k = 4 \/ k = 5  OBVIOUS
    <3>2. 1 - 1 = 0 /\ 2 - 1 = 1 /\ 3 - 1 = 2 /\ 4 - 1 = 3 /\ 5 - 1 = 4  OBVIOUS
    <3> QED  BY <2>1, <2>2, <3>1, <3>2
  <2>4. Rec(g)  BY <2>3
  <2> QED  BY <2>4
<1>3. PICK f : f = (CHOOSE h : Rec(h)) /\ Rec(f)  BY <1>2
<1>4. \A k \in 0 .. 5 : f[k] = IF k = 0 THEN s ELSE Write(f[k - 1], Space)
  BY <1>3
<1>5. /\ f[0] = s
      /\ f[1] = Write(f[0], Space) /\ f[2] = Write(f[1], Space) /\ f[3] = Write(f[2], Space)
      /\ f[4] = Write(f[3], Space) /\ f[5] = Write(f[4], Space)
  BY <1>4
<1> QED  BY <1>1, <1>3, <1>5

LEMMA PutcScreen ==
  ASSUME NEW s \in Screen, NEW c \in Input
  PROVE  Putc(s, c) \in Screen
<1>1. CASE c = "bs"  BY <1>1, PutcIs, BackspaceScreen
<1>2. CASE c = "nl"
  <2>1. s.pos + CRT_COLS \in Nat /\ s.pos + CRT_COLS < CRT_SIZE + CRT_COLS
    BY ScreenParts, Sizes
  <2>2. PICK q \in Nat : q = RowStart(s.pos + CRT_COLS) /\ q <= s.pos + CRT_COLS
    BY <2>1, RowStartBounds
  <2>3. q < CRT_SIZE + CRT_COLS  BY <2>1, <2>2, Sizes
  <2>4. [s EXCEPT !.pos = RowStart(@ + CRT_COLS)] = [cell |-> s.cell, pos |-> q]
    BY <2>2, ScreenParts
  <2>5. Putc(s, "nl") = Scrolled([cell |-> s.cell, pos |-> q])  BY <2>4, PutcIs
  <2> QED  BY <1>2, <2>3, <2>5, ScreenParts, ScrolledScreen
<1>3. CASE c = "cr"
  <2>1. PICK q \in Nat : q = RowStart(s.pos) /\ q <= s.pos  BY ScreenParts, RowStartBounds
  <2>2. q \in Cell  BY <2>1, ScreenParts, Sizes DEF Cell
  <2>3. [s EXCEPT !.pos = RowStart(@)] = [cell |-> s.cell, pos |-> q]
    BY <2>1, ScreenParts
  <2>4. Putc(s, "cr") = [cell |-> s.cell, pos |-> q]  BY <2>3, PutcIs
  <2> QED  BY <1>3, <2>2, <2>4, ScreenParts DEF Screen
<1>4. CASE c = "tab"
  BY <1>4, PutcTab, WriteScreen, Sizes
<1>5. CASE c \in Glyph  BY <1>5, PutcIs, WriteScreen
<1> QED  BY <1>1, <1>2, <1>3, <1>4, <1>5 DEF Input, Control

-----------------------------------------------------------------------------
(* Strings on the display.  Puts is recursive: that a function as it        *)
(* describes exists is shown by induction on the length of the string.     *)

\* f[k] is the screen after the first k characters, up to n.
Steps(f, s, str, n) ==
  f = [k \in 0 .. n |-> IF k = 0 THEN s ELSE Putc(f[k - 1], str[k])]

LEMMA StepsExist ==
  ASSUME NEW s, NEW str, NEW N \in Nat
  PROVE  \E f : Steps(f, s, str, N)
<1> DEFINE T == {n \in Nat : \E f : Steps(f, s, str, n)}
<1>1. 0 \in T
  <2> DEFINE g == [k \in 0 .. 0 |-> s]
  <2>1. g = [k \in 0 .. 0 |-> IF k = 0 THEN s ELSE Putc(g[k - 1], str[k])]  OBVIOUS
  <2> QED  BY <2>1 DEF Steps
<1>2. ASSUME NEW n \in Nat, n \in T  PROVE n + 1 \in T
  <2>1. PICK f : Steps(f, s, str, n)  BY <1>2
  <2>2. \A k \in 0 .. n : f[k] = IF k = 0 THEN s ELSE Putc(f[k - 1], str[k])
    BY <2>1 DEF Steps
  <2> DEFINE g == [k \in 0 .. n + 1 |-> IF k = n + 1 THEN Putc(f[n], str[n + 1]) ELSE f[k]]
  <2>3. /\ g[n + 1] = Putc(f[n], str[n + 1])
        /\ \A k \in 0 .. n : g[k] = f[k]
    OBVIOUS
  <2>4. \A k \in 0 .. n + 1 : g[k] = IF k = 0 THEN s ELSE Putc(g[k - 1], str[k])
    <3> HIDE DEF g
    <3> TAKE k \in 0 .. n + 1
    <3>1. CASE k = 0  BY <2>2, <2>3, <3>1
    <3>2. CASE k = n + 1
      <4>1. k - 1 = n /\ n \in 0 .. n /\ k # 0  BY <3>2
      <4> QED  BY <2>3, <3>2, <4>1
    <3>3. CASE k # 0 /\ k # n + 1
      <4>1. k \in 0 .. n /\ k - 1 \in 0 .. n  BY <3>3
      <4> QED  BY <2>2, <2>3, <3>3, <4>1
    <3> QED  BY <3>1, <3>2, <3>3
  <2>5. Steps(g, s, str, n + 1)  BY <2>4 DEF Steps
  <2>6. \E h : Steps(h, s, str, n + 1)  BY <2>5
  <2> QED  BY <2>6
<1>3. Nat \subseteq T
  <2> HIDE DEF T
  <2> QED  BY <1>1, <1>2, NatInd
<1> QED  BY <1>3

LEMMA PutsIs ==
  ASSUME NEW s, NEW str, Len(str) \in Nat
  PROVE  \E f : /\ Puts(s, str) = f[Len(str)]
                /\ f[0] = s
                /\ \A n \in Nat : n < Len(str) => f[n + 1] = Putc(f[n], str[n + 1])
<1>1. Puts(s, str) = (CHOOSE f : Steps(f, s, str, Len(str)))[Len(str)]
  BY Zenon DEF Puts, Steps
<1>2. PICK f : f = (CHOOSE h : Steps(h, s, str, Len(str))) /\ Steps(f, s, str, Len(str))
  BY StepsExist
<1>3. \A k \in 0 .. Len(str) : f[k] = IF k = 0 THEN s ELSE Putc(f[k - 1], str[k])
  BY <1>2 DEF Steps
<1>4. f[0] = s  BY <1>3
<1>5. ASSUME NEW n \in Nat, n < Len(str)  PROVE f[n + 1] = Putc(f[n], str[n + 1])
  <2>1. n + 1 \in 0 .. Len(str) /\ n + 1 # 0 /\ (n + 1) - 1 = n  BY <1>5
  <2> QED  BY <1>3, <2>1
<1> QED  BY <1>1, <1>2, <1>4, <1>5

LEMMA PutsScreen ==
  ASSUME NEW s \in Screen, NEW str \in Seq(Input)
  PROVE  Puts(s, str) \in Screen
<1>1. PICK f : /\ Puts(s, str) = f[Len(str)]
               /\ f[0] = s
               /\ \A n \in Nat : n < Len(str) => f[n + 1] = Putc(f[n], str[n + 1])
  BY PutsIs
<1> DEFINE T == {n \in Nat : n <= Len(str) => f[n] \in Screen}
<1>2. 0 \in T  BY <1>1
<1>3. ASSUME NEW n \in Nat, n \in T  PROVE n + 1 \in T
  <2> SUFFICES ASSUME n + 1 <= Len(str)  PROVE f[n + 1] \in Screen  OBVIOUS
  <2>1. n < Len(str) /\ n + 1 \in 1 .. Len(str)  OBVIOUS
  <2>2. f[n] \in Screen /\ str[n + 1] \in Input  BY <1>3, <2>1
  <2> QED  BY <1>1, <2>1, <2>2, PutcScreen
<1>4. Nat \subseteq T
  <2> HIDE DEF T
  <2> QED  BY <1>2, <1>3, NatInd
<1>5. Len(str) \in T  BY <1>4
<1> QED  BY <1>1, <1>5

-----------------------------------------------------------------------------
(* The inductive invariant.                                                *)

\* The cells before the cursor show the text.
Shows(s, t) ==
  \A k \in 1 .. Len(t) : s.pos - Len(t) + k > 0 => s.cell[s.pos - Len(t) + k - 1] = t[k]

Parsing == pc \in {"gobble", "scan", "lookup"}

\* How much of the line runcmd has gone through.
Seen == IF Parsing THEN p ELSE 0

\* The buffer holds the line, with NULs for the white space that runcmd has
\* gone through, and a NUL behind it.
LinePart ==
  pc # "prompt" =>
    /\ Len(line) = i
    /\ \A k \in 0 .. i - 1 :
         buf[k] = IF k < Seen /\ line[k + 1] \in WHITESPACE THEN NUL ELSE line[k + 1]
    /\ pc # "read" => buf[i] = NUL

\* runcmd has found the words that start where it has been.
ArgPart ==
  Parsing =>
    /\ p <= i
    /\ Range(argv) = {k \in WordStarts : k < p \/ (k = p /\ pc = "scan")}
    /\ \A j, k \in 1 .. Len(argv) : j < k => argv[j] < argv[k]
    /\ Len(argv) < MAXARGS
    /\ pc = "gobble" => p = 0 \/ line[p] \in WHITESPACE \/ buf[p] \in WHITESPACE \cup {NUL}
    /\ pc = "lookup" => p = i

IInv == TypeOK /\ LinePart /\ ArgPart /\ ScreenShowsLine

-----------------------------------------------------------------------------
(* The text on the display.                                                *)

\* A glyph is written behind a text that shows.
LEMMA WriteShows ==
  ASSUME NEW s \in Screen, NEW t \in Seq(Glyph), Shows(s, t), NEW g \in Glyph,
         NEW u \in Seq(Glyph), Len(u) = Len(t) + 1, u[Len(t) + 1] = g,
         \A k \in 1 .. Len(t) : u[k] = t[k]
  PROVE  Shows(Write(s, g), u)
<1>1. PICK n \in Nat : n = Len(t)  OBVIOUS
<1>2. PICK q \in Nat : q = s.pos /\ q \in Cell /\ q < CRT_SIZE  BY ScreenParts
<1>3. PICK c \in [Cell -> Glyph] :
        c[q] = g /\ \A j \in Cell : j # q => c[j] = s.cell[j]
  <2>1. [s.cell EXCEPT ![q] = g] \in [Cell -> Glyph]  BY <1>2, ScreenParts
  <2> QED  BY <1>2, <2>1, ScreenParts
<1>4. ASSUME NEW k \in 1 .. n + 1, q - n + k > 0
      PROVE  q - n + k - 1 \in Cell /\ [s.cell EXCEPT ![q] = g][q - n + k - 1] = u[k]
  <2>1. q - n + k - 1 \in Cell
    <3>1. PICK x \in Int : x = q - n + k - 1  BY <1>4
    <3>2. x >= 0 /\ x <= q  BY <1>4, <3>1
    <3> QED  BY <1>2, <3>1, <3>2, Sizes DEF Cell
  <2>2. CASE k = n + 1
    <3>1. q - n + k - 1 = q  BY <2>2
    <3> QED  BY <1>1, <1>2, <2>1, <2>2, <3>1, ScreenParts
  <2>3. CASE k # n + 1
    <3>1. k \in 1 .. n /\ q - n + k - 1 # q  BY <2>3
    <3>2. s.cell[q - n + k - 1] = t[k]  BY <1>1, <1>2, <1>4, <3>1 DEF Shows
    <3> QED  BY <1>1, <2>1, <3>1, <3>2, ScreenParts
  <2> QED  BY <2>2, <2>3
<1> DEFINE d == [s.cell EXCEPT ![q] = g]
<1>5. Write(s, g) = Scrolled([cell |-> d, pos |-> q + 1])  BY <1>2 DEF Write
<1> HIDE DEF d
<1>6. CASE q + 1 < CRT_SIZE
  <2>1. Write(s, g) = [cell |-> d, pos |-> q + 1]  BY <1>5, <1>6 DEF Scrolled
  <2>2. ASSUME NEW k \in 1 .. n + 1, (q + 1) - (n + 1) + k > 0
        PROVE  d[(q + 1) - (n + 1) + k - 1] = u[k]
    <3>1. (q + 1) - (n + 1) + k = q - n + k /\ (q + 1) - (n + 1) + k - 1 = q - n + k - 1
      OBVIOUS
    <3> QED  BY <1>4, <2>2, <3>1 DEF d
  <2> QED  BY <1>1, <2>1, <2>2 DEF Shows
<1>7. CASE ~(q + 1 < CRT_SIZE)
  <2> DEFINE up == [j \in Cell |-> IF j + CRT_COLS \in Cell THEN d[j + CRT_COLS] ELSE Space]
  <2>1. Write(s, g) = [cell |-> up, pos |-> (q + 1) - CRT_COLS]  BY <1>5, <1>7 DEF Scrolled
  <2>2. ASSUME NEW k \in 1 .. n + 1, ((q + 1) - CRT_COLS) - (n + 1) + k > 0
        PROVE  up[((q + 1) - CRT_COLS) - (n + 1) + k - 1] = u[k]
    <3>1. PICK x \in Int : x = ((q + 1) - CRT_COLS) - (n + 1) + k - 1  BY Sizes
    <3>2. x >= 0 /\ x + CRT_COLS = q - n + k - 1 /\ q - n + k > 0
      <4>1. x + 1 > 0  BY <2>2, <3>1, Sizes
      <4>2. x + CRT_COLS = q - n + k - 1  BY <3>1, Sizes
      <4>3. (x + 1) + CRT_COLS = q - n + k  BY <4>2, Sizes
      <4>4. CRT_COLS \in Nat  BY Sizes
      <4>5. x >= 0  BY ONLY <4>1
      <4>6. q - n + k > 0  BY ONLY <4>1, <4>3, <4>4
      <4> QED  BY ONLY <4>2, <4>5, <4>6
    <3>3. x + CRT_COLS \in Cell /\ d[x + CRT_COLS] = u[k]  BY <1>4, <3>2 DEF d
    <3>4. x \in Cell  BY <3>2, <3>3, Sizes DEF Cell
    <3>5. up[x] = u[k]  BY <3>3, <3>4
    <3> HIDE DEF up
    <3> QED  BY <3>1, <3>5
  <2> HIDE DEF up
  <2> QED  BY <1>1, <2>1, <2>2 DEF Shows
<1> QED  BY <1>6, <1>7

\* The last character is erased.
LEMMA BackspaceShows ==
  ASSUME NEW s \in Screen, NEW t \in Seq(Glyph), Shows(s, t),
         NEW u \in Seq(Glyph), Len(t) = Len(u) + 1, \A k \in 1 .. Len(u) : u[k] = t[k]
  PROVE  Shows(Backspace(s), u)
<1>1. PICK n \in Nat : n = Len(u)  OBVIOUS
<1>2. PICK q \in Nat : q = s.pos /\ q \in Cell  BY ScreenParts
<1>3. CASE q = 0
  <2>1. Backspace(s) = s  BY <1>2, <1>3 DEF Backspace
  <2>2. \A k \in 1 .. n : ~(q - n + k > 0)  BY <1>3
  <2> QED  BY <1>1, <1>2, <2>1, <2>2 DEF Shows
<1>4. CASE q # 0
  <2> DEFINE d == [s.cell EXCEPT ![q - 1] = Space]
  <2>1. Backspace(s) = [cell |-> d, pos |-> q - 1]  BY <1>2, <1>4 DEF Backspace
  <2>2. ASSUME NEW k \in 1 .. n, (q - 1) - n + k > 0
        PROVE  d[(q - 1) - n + k - 1] = u[k]
    <3>1. PICK x \in Int : x = (q - 1) - n + k - 1  OBVIOUS
    <3>2. x = q - (n + 1) + k - 1 /\ q - (n + 1) + k > 0 /\ x # q - 1 /\ x >= 0
      BY <2>2, <3>1
    <3>3. x \in Cell
      <4>1. x <= q  BY <3>1
      <4> QED  BY <1>2, <3>2, <4>1, Sizes DEF Cell
    <3>4. s.cell[q - (n + 1) + k - 1] = t[k]
      <4>1. Len(t) = n + 1  BY <1>1
      <4>2. k \in 1 .. Len(t) /\ s.pos - Len(t) + k > 0
        BY ONLY <1>2, <3>2, <4>1
      <4>3. s.cell[s.pos - Len(t) + k - 1] = t[k]  BY <4>2 DEF Shows
      <4> QED  BY <1>2, <4>1, <4>3
    <3>5. d[x] = s.cell[x]  BY <3>2, <3>3, ScreenParts
    <3>6. u[k] = t[k]  BY <1>1
    <3> HIDE DEF d
    <3> QED  BY <3>1, <3>2, <3>4, <3>5, <3>6
  <2> HIDE DEF d
  <2> QED  BY <1>1, <2>1, <2>2 DEF Shows
<1> QED  BY <1>3, <1>4

\* A string without control characters shows once it is printed.
LEMMA PutsShows ==
  ASSUME NEW s \in Screen, NEW str \in Seq(Glyph)
  PROVE  Shows(Puts(s, str), str)
<1>1. PICK f : /\ Puts(s, str) = f[Len(str)]
               /\ f[0] = s
               /\ \A n \in Nat : n < Len(str) => f[n + 1] = Putc(f[n], str[n + 1])
  BY PutsIs
<1> DEFINE T == {n \in Nat : n <= Len(str) =>
                   f[n] \in Screen /\ Shows(f[n], SubSeq(str, 1, n))}
<1>2. 0 \in T
  <2>1. Len(SubSeq(str, 1, 0)) = 0  OBVIOUS
  <2> QED  BY <1>1, <2>1 DEF Shows
<1>3. ASSUME NEW n \in Nat, n \in T  PROVE n + 1 \in T
  <2> SUFFICES ASSUME n + 1 <= Len(str)
               PROVE  f[n + 1] \in Screen /\ Shows(f[n + 1], SubSeq(str, 1, n + 1))
    OBVIOUS
  <2>1. n < Len(str) /\ n + 1 \in 1 .. Len(str) /\ str[n + 1] \in Glyph  OBVIOUS
  <2>2. f[n] \in Screen /\ Shows(f[n], SubSeq(str, 1, n))  BY <1>3, <2>1
  <2>3. f[n + 1] = Write(f[n], str[n + 1])  BY <1>1, <2>1, PutcIs
  <2>4. PICK t, u : t = SubSeq(str, 1, n) /\ u = SubSeq(str, 1, n + 1)  OBVIOUS
  <2>5. /\ t \in Seq(Glyph) /\ u \in Seq(Glyph) /\ Len(t) = n /\ Len(u) = n + 1
        /\ \A k \in 1 .. n : u[k] = t[k]
        /\ u[n + 1] = str[n + 1]
    BY <2>1, <2>4
  <2>6. Shows(Write(f[n], str[n + 1]), u)  BY <2>1, <2>2, <2>4, <2>5, WriteShows
  <2> QED  BY <2>1, <2>2, <2>3, <2>4, <2>6, WriteScreen
<1>4. Nat \subseteq T
  <2> HIDE DEF T
  <2> QED  BY <1>2, <1>3, NatInd
<1>5. f[Len(str)] \in Screen /\ Shows(f[Len(str)], SubSeq(str, 1, Len(str)))  BY <1>4
<1>6. SubSeq(str, 1, Len(str)) = str  OBVIOUS
<1> QED  BY <1>1, <1>5, <1>6

-----------------------------------------------------------------------------
(* The string at a position, and the word.                                 *)

LEMMA Chars ==
  /\ NUL \notin Glyph /\ NUL \notin WHITESPACE
  /\ PROMPT \in Seq(Glyph) /\ BUFLEN \in Nat /\ BUFLEN > 0 /\ MAXARGS \in Nat /\ MAXARGS > 0
<1>1. Space # NUL  BY Sizes, MonitorAssumption
<1>2. NUL \notin WHITESPACE  BY <1>1 DEF NUL, WHITESPACE
<1> QED  BY <1>2, MonitorAssumption

LEMMA StringIs ==
  ASSUME NEW a \in Nat, NEW e \in Nat, a <= e, e <= BUFLEN - 1,
         buf[e] = NUL, \A j \in a .. e - 1 : buf[j] # NUL
  PROVE  StringAt(a) = [j \in 1 .. e - a |-> buf[a + j - 1]]
<1> DEFINE Q(x) == buf[x] = NUL /\ \A j \in a .. x - 1 : buf[j] # NUL
<1>1. e \in a .. BUFLEN - 1 /\ Q(e)  BY Chars
<1>2. ASSUME NEW x \in a .. BUFLEN - 1, Q(x)  PROVE x = e
  <2>1. x \in Nat  BY Chars
  <2>2. ~(x < e)
    <3> SUFFICES ASSUME x < e  PROVE FALSE  OBVIOUS
    <3>1. x \in a .. e - 1  BY <2>1
    <3> QED  BY <1>2, <3>1
  <2>3. ~(e < x)
    <3> SUFFICES ASSUME e < x  PROVE FALSE  OBVIOUS
    <3>1. e \in a .. x - 1  BY <2>1
    <3> QED  BY <1>2, <3>1
  <2> QED  BY <2>1, <2>2, <2>3
<1>3. (CHOOSE x \in a .. BUFLEN - 1 : Q(x)) = e  BY <1>1, <1>2
<1> QED  BY <1>3 DEF StringAt

LEMMA LineChars ==
  ASSUME TypeOK, LinePart, pc # "prompt", NEW k \in 0 .. i - 1
  PROVE  /\ i \in Nat /\ i <= BUFLEN - 1 /\ k \in Nat /\ k + 1 \in 1 .. Len(line)
         /\ line[k + 1] \in Glyph /\ line[k + 1] # NUL
         /\ k \in Index
         /\ buf[k] = NUL <=> k < Seen /\ line[k + 1] \in WHITESPACE
         /\ buf[k] # NUL => buf[k] = line[k + 1]
<1>1. i \in Nat /\ i <= BUFLEN - 1  BY Chars DEF TypeOK, Index
<1>2. k \in Nat /\ k + 1 \in 1 .. Len(line)  BY <1>1 DEF LinePart
<1>3. line[k + 1] \in Glyph  BY <1>2 DEF TypeOK
<1>4. k \in Index  BY <1>1, <1>2, Chars DEF Index
<1>5. buf[k] = IF k < Seen /\ line[k + 1] \in WHITESPACE THEN NUL ELSE line[k + 1]
  BY DEF LinePart
<1> QED  BY <1>1, <1>2, <1>3, <1>4, <1>5, Chars

LEMMA ReturnedIsLine == TypeOK /\ LinePart => ReturnedLineIsWhole
<1> SUFFICES ASSUME TypeOK, LinePart, pc = "runcmd"  PROVE StringAt(0) = line
  BY DEF ReturnedLineIsWhole
<1>1. /\ i \in Nat /\ i <= BUFLEN - 1 /\ Len(line) = i /\ line \in Seq(Glyph)
      /\ buf[i] = NUL /\ Seen = 0
  BY Chars DEF TypeOK, Index, LinePart, Seen, Parsing
<1>2. \A k \in 0 .. i - 1 : buf[k] # NUL /\ buf[k] = line[k + 1]
  BY <1>1, LineChars
<1>3. StringAt(0) = [j \in 1 .. i - 0 |-> buf[0 + j - 1]]  BY <1>1, <1>2, StringIs
<1>4. \A j \in 1 .. i : 0 + j - 1 = j - 1 /\ j - 1 \in 0 .. i - 1 /\ (j - 1) + 1 = j  BY <1>1
<1>5. \A j \in 1 .. i : buf[0 + j - 1] = line[j]  BY <1>2, <1>4
<1>6. StringAt(0) = [j \in 1 .. i |-> line[j]]  BY <1>1, <1>3, <1>5
<1> QED  BY <1>1, <1>6

\* A word of the line, once runcmd has gone through the whole of it.
LEMMA WordIs ==
  ASSUME TypeOK, LinePart, pc = "lookup", p = i, NEW a \in WordStarts
  PROVE  StringAt(a) = WordAt(a) /\ StringAt(a) \in Seq(Glyph)
<1>1. /\ i \in Nat /\ i <= BUFLEN - 1 /\ Len(line) = i /\ line \in Seq(Glyph)
      /\ buf[i] = NUL /\ Seen = i
  BY Chars DEF TypeOK, Index, LinePart, Seen, Parsing
<1>2. a \in Nat /\ a < i  BY <1>1 DEF WordStarts
<1> DEFINE Ends(x) == x = Len(line) \/ line[x + 1] \in WHITESPACE
           W == {x \in a .. i : Ends(x)}
<1>3. PICK e \in W : \A x \in W : e <= x
  <2>1. i \in W /\ W \subseteq Nat  BY <1>1, <1>2
  <2> HIDE DEF W
  <2> QED  BY <2>1, NatMin
<1>4. e \in Nat /\ a <= e /\ e <= i /\ Ends(e)  BY <1>1, <1>2
<1>5. \A x \in a .. e - 1 : ~Ends(x)
  <2> SUFFICES ASSUME NEW x \in a .. e - 1, Ends(x)  PROVE FALSE  OBVIOUS
  <2>1. x \in a .. i /\ x < e  BY <1>1, <1>2, <1>4
  <2>2. x \in W  BY <2>1
  <2> QED  BY <1>3, <1>4, <2>1, <2>2
<1>6. \A x \in a .. i : Ends(x) <=> buf[x] = NUL
  <2> TAKE x \in a .. i
  <2>1. CASE x = i  BY <1>1, <2>1
  <2>2. CASE x # i
    <3>1. x \in 0 .. i - 1 /\ x < Seen  BY <1>1, <1>2, <2>2
    <3>2. buf[x] = NUL <=> line[x + 1] \in WHITESPACE  BY <3>1, LineChars
    <3> QED  BY <1>1, <2>2, <3>2
  <2> QED  BY <2>1, <2>2
<1>7. StringAt(a) = [j \in 1 .. e - a |-> buf[a + j - 1]]
  <2>1. buf[e] = NUL  BY <1>3, <1>4, <1>6
  <2>2. \A x \in a .. e - 1 : x \in a .. i  BY <1>1, <1>2, <1>4
  <2>3. \A x \in a .. e - 1 : buf[x] # NUL  BY <1>5, <1>6, <2>2
  <2>4. e <= BUFLEN - 1  BY <1>1, <1>4, Chars
  <2> QED  BY <1>2, <1>4, <2>1, <2>3, <2>4, StringIs
<1>8. \A j \in 1 .. e - a : buf[a + j - 1] = line[a + j] /\ a + j \in 1 .. Len(line)
  <2> TAKE j \in 1 .. e - a
  <2>1. PICK x \in Nat : x = a + j - 1  BY <1>2, <1>4
  <2>2. x \in a .. e - 1 /\ x \in a .. i /\ x \in 0 .. i - 1 /\ x + 1 = a + j
    BY <1>1, <1>2, <1>4, <2>1
  <2>3. buf[x] # NUL  BY <1>5, <1>6, <2>2
  <2>4. buf[x] = line[x + 1] /\ x + 1 \in 1 .. Len(line)  BY <2>2, <2>3, LineChars
  <2> QED  BY <2>1, <2>2, <2>4
<1>9. StringAt(a) = [j \in 1 .. e - a |-> line[a + j]]  BY <1>7, <1>8
<1>10. StringAt(a) \in Seq(Glyph)
  <2>1. \A j \in 1 .. e - a : line[a + j] \in Glyph  BY <1>1, <1>8
  <2>2. e - a \in Nat  BY <1>2, <1>4
  <2>3. [j \in 1 .. e - a |-> line[a + j]] \in [1 .. e - a -> Glyph]  BY <2>1
  <2> QED  BY <1>9, <2>2, <2>3
<1>11. WordAt(a) = SubSeq(line, a + 1, e)
  <2> DEFINE Q(x) == Ends(x) /\ \A j \in a .. x - 1 : ~Ends(j)
  <2>1. e \in a .. Len(line) /\ Q(e)  BY <1>1, <1>2, <1>4, <1>5
  <2>2. ASSUME NEW x \in a .. Len(line), Q(x)  PROVE x = e
    <3> HIDE DEF Ends
    <3>1. x \in W  BY <1>1, <2>2
    <3>2. x \in Nat /\ e <= x  BY <1>1, <1>2, <1>3, <3>1
    <3>3. ~(e < x)
      <4> SUFFICES ASSUME e < x  PROVE FALSE  OBVIOUS
      <4>1. e \in a .. x - 1  BY <1>4, <3>2
      <4> QED  BY <1>4, <2>2, <4>1
    <3> QED  BY <1>4, <3>2, <3>3
  <2>3. (CHOOSE x \in a .. Len(line) : Q(x)) = e
    <3> HIDE DEF Q
    <3> QED  BY <2>1, <2>2
  <2> QED  BY <2>3 DEF WordAt
<1>12. SubSeq(line, a + 1, e) = [j \in 1 .. e - a |-> line[a + j]]
  <2>1. SubSeq(line, a + 1, e) = [j \in 1 .. (e - (a + 1)) + 1 |-> line[((a + 1) + j) - 1]]
    BY <1>1, <1>2, <1>4
  <2>2. (e - (a + 1)) + 1 = e - a  BY <1>2, <1>4
  <2>3. \A j \in 1 .. e - a : ((a + 1) + j) - 1 = a + j  BY <1>2
  <2> QED  BY <2>1, <2>2, <2>3
<1> QED  BY <1>9, <1>10, <1>11, <1>12

-----------------------------------------------------------------------------
(* readline.                                                               *)

LEMMA InvInit == Init => IInv
<1> SUFFICES ASSUME Init  PROVE IInv  OBVIOUS
<1>1. crt \in Screen
  <2>1. PICK q \in Cell : crt = [cell |-> [k \in Cell |-> Space], pos |-> q]  BY DEF Init
  <2>2. [k \in Cell |-> Space] \in [Cell -> Glyph]  BY Sizes
  <2> QED  BY <2>1, <2>2 DEF Screen
<1>2. 0 \in Index  BY Chars DEF Index
<1>3. TypeOK  BY <1>1, <1>2 DEF Init, TypeOK
<1>4. LinePart /\ ArgPart /\ ScreenShowsLine
  BY DEF Init, LinePart, ArgPart, Parsing, ScreenShowsLine
<1> QED  BY <1>3, <1>4 DEF IInv

LEMMA Joined ==
  ASSUME NEW b \in Seq(Glyph)
  PROVE  /\ PROMPT \o b \in Seq(Glyph)
         /\ Len(PROMPT \o b) = Len(PROMPT) + Len(b)
         /\ \A k \in 1 .. Len(PROMPT) + Len(b) :
              (PROMPT \o b)[k] = IF k <= Len(PROMPT) THEN PROMPT[k] ELSE b[k - Len(PROMPT)]
BY Chars, ConcatProperties

LEMMA ShowsLine == ScreenShowsLine <=> (pc = "read" => Shows(crt, PROMPT \o line))
BY DEF ScreenShowsLine, Shows

LEMMA PromptStep ==
  ASSUME IInv, Prompt
  PROVE  IInv'
<1>1. /\ crt' = Puts(crt, PROMPT) /\ i' = 0 /\ line' = <<>> /\ pc' = "read"
      /\ UNCHANGED <<buf, p, argv>>
  BY DEF Prompt
<1>2. crt \in Screen /\ PROMPT \in Seq(Glyph) /\ PROMPT \in Seq(Input)
  <2>1. Glyph \subseteq Input  BY DEF Input
  <2> QED  BY <2>1, Chars DEF IInv, TypeOK
<1>3. crt' \in Screen  BY <1>1, <1>2, PutsScreen
<1>4. Shows(crt', PROMPT)  BY <1>1, <1>2, PutsShows
<1>5. PROMPT \o <<>> = PROMPT  BY <1>2
<1>6. ScreenShowsLine'  BY <1>1, <1>4, <1>5 DEF ScreenShowsLine, Shows
<1>7. 0 \in Index  BY Chars DEF Index
<1>8. TypeOK'  BY <1>1, <1>3, <1>7 DEF IInv, TypeOK
<1>9. LinePart' /\ ArgPart'  BY <1>1 DEF LinePart, ArgPart, Parsing
<1> QED  BY <1>6, <1>8, <1>9 DEF IInv

LEMMA EraseStep ==
  ASSUME IInv, NEW c, EraseChar(c)
  PROVE  IInv'
<1>1. /\ pc = "read" /\ pc' = pc /\ c \in Erase /\ i > 0
      /\ crt' = Putc(crt, "bs") /\ i' = i - 1 /\ line' = Front(line)
      /\ UNCHANGED <<buf, p, argv>>
  BY DEF EraseChar
<1>2. /\ TypeOK /\ crt \in Screen /\ line \in Seq(Glyph) /\ Len(line) = i
      /\ i \in Nat /\ i <= BUFLEN - 1
      /\ \A k \in 0 .. i - 1 : buf[k] = line[k + 1]
  BY <1>1, Chars DEF IInv, TypeOK, LinePart, Seen, Parsing, Index
<1>3. crt' = Backspace(crt)  BY <1>1, PutcIs
<1>4. PICK u : u = line' /\ u \in Seq(Glyph) /\ Len(u) = i - 1
               /\ \A k \in 1 .. i - 1 : u[k] = line[k]
  BY <1>1, <1>2 DEF Front
<1>5. Shows(crt', PROMPT \o u)
  <2>1. PICK v, w : v = PROMPT \o line /\ w = PROMPT \o u  OBVIOUS
  <2>2. PROMPT \in Seq(Glyph) /\ Len(PROMPT) \in Nat  BY Chars
  <2>3. /\ v \in Seq(Glyph) /\ Len(v) = Len(PROMPT) + i
        /\ \A k \in 1 .. Len(v) : v[k] = IF k <= Len(PROMPT) THEN PROMPT[k]
                                         ELSE line[k - Len(PROMPT)]
    BY <1>2, <2>1, Joined
  <2>4. /\ w \in Seq(Glyph) /\ Len(w) = Len(PROMPT) + (i - 1)
        /\ \A k \in 1 .. Len(w) : w[k] = IF k <= Len(PROMPT) THEN PROMPT[k]
                                         ELSE u[k - Len(PROMPT)]
    <3>0. u \in Seq(Glyph)  BY <1>4
    <3>1. /\ PROMPT \o u \in Seq(Glyph)
          /\ Len(PROMPT \o u) = Len(PROMPT) + Len(u)
          /\ \A k \in 1 .. Len(PROMPT) + Len(u) :
               (PROMPT \o u)[k] = IF k <= Len(PROMPT) THEN PROMPT[k] ELSE u[k - Len(PROMPT)]
      BY ONLY <3>0, Joined
    <3> QED  BY <1>4, <2>1, <3>1
  <2>5. Len(v) = Len(w) + 1  BY <1>2, <2>2, <2>3, <2>4
  <2>6. \A k \in 1 .. Len(w) : w[k] = v[k]
    <3> TAKE k \in 1 .. Len(w)
    <3>1. k \in 1 .. Len(v)  BY <2>5, <2>4
    <3>2. ~(k <= Len(PROMPT)) => k - Len(PROMPT) \in 1 .. i - 1  BY <1>2, <2>2, <2>4
    <3> QED  BY <1>4, <2>3, <2>4, <3>1, <3>2
  <2>7. Shows(crt, v)  BY <1>1, <2>1, ShowsLine DEF IInv
  <2> QED  BY <1>2, <1>3, <2>1, <2>3, <2>4, <2>5, <2>6, <2>7, BackspaceShows
<1>6. ScreenShowsLine'  BY <1>4, <1>5 DEF ScreenShowsLine, Shows
<1>7. TypeOK'
  <2>1. i - 1 \in Index  BY <1>1, <1>2, Chars DEF Index
  <2>2. crt' \in Screen  BY <1>2, <1>3, BackspaceScreen
  <2> QED  BY <1>1, <1>2, <1>4, <2>1, <2>2 DEF TypeOK
<1>8. LinePart'
  <2>1. \A k \in 0 .. i' - 1 : buf'[k] = line'[k + 1]
    <3> TAKE k \in 0 .. i' - 1
    <3>1. k \in 0 .. i - 1 /\ k + 1 \in 1 .. i - 1  BY <1>1, <1>2
    <3> QED  BY <1>1, <1>2, <1>4, <3>1
  <2>2. Len(line') = i'  BY <1>1, <1>4
  <2>3. \A k \in 0 .. i' - 1 : ~(k < 0)  OBVIOUS
  <2> QED  BY <1>1, <2>1, <2>2, <2>3 DEF LinePart, Seen, Parsing
<1>9. ArgPart'  BY <1>1 DEF ArgPart, Parsing
<1> QED  BY <1>6, <1>7, <1>8, <1>9 DEF IInv

LEMMA InsertStep ==
  ASSUME IInv, NEW c, InsertChar(c)
  PROVE  IInv'
<1>1. /\ pc = "read" /\ pc' = pc /\ c \in Glyph /\ i < BUFLEN - 1
      /\ crt' = Putc(crt, c) /\ i' = i + 1 /\ line' = Append(line, c)
      /\ buf' = [buf EXCEPT ![i] = c]
      /\ UNCHANGED <<p, argv>>
  BY DEF InsertChar
<1>2. /\ TypeOK /\ crt \in Screen /\ line \in Seq(Glyph) /\ Len(line) = i
      /\ i \in Nat /\ i \in Index /\ buf \in [Index -> Glyph \cup {NUL}]
      /\ \A k \in 0 .. i - 1 : buf[k] = line[k + 1]
  BY <1>1, Chars DEF IInv, TypeOK, LinePart, Seen, Parsing, Index
<1>3. crt' = Write(crt, c)  BY <1>1, PutcIs
<1>4. PICK u : /\ u = line' /\ u \in Seq(Glyph) /\ Len(u) = i + 1 /\ u[i + 1] = c
               /\ \A k \in 1 .. i : u[k] = line[k]
  <2>1. /\ Append(line, c) \in Seq(Glyph) /\ Len(Append(line, c)) = Len(line) + 1
        /\ Append(line, c)[Len(line) + 1] = c
        /\ \A k \in 1 .. Len(line) : Append(line, c)[k] = line[k]
    BY <1>1, <1>2, AppendProperties
  <2> QED  BY <1>1, <1>2, <2>1
<1>5. Shows(crt', PROMPT \o u)
  <2>1. PICK v, w : v = PROMPT \o line /\ w = PROMPT \o u  OBVIOUS
  <2>2. PROMPT \in Seq(Glyph) /\ Len(PROMPT) \in Nat  BY Chars
  <2>3. /\ v \in Seq(Glyph) /\ Len(v) = Len(PROMPT) + i
        /\ \A k \in 1 .. Len(v) : v[k] = IF k <= Len(PROMPT) THEN PROMPT[k]
                                         ELSE line[k - Len(PROMPT)]
    BY <1>2, <2>1, Joined
  <2>4. /\ w \in Seq(Glyph) /\ Len(w) = Len(PROMPT) + (i + 1)
        /\ \A k \in 1 .. Len(w) : w[k] = IF k <= Len(PROMPT) THEN PROMPT[k]
                                         ELSE u[k - Len(PROMPT)]
    <3>0. u \in Seq(Glyph)  BY <1>4
    <3>1. /\ PROMPT \o u \in Seq(Glyph)
          /\ Len(PROMPT \o u) = Len(PROMPT) + Len(u)
          /\ \A k \in 1 .. Len(PROMPT) + Len(u) :
               (PROMPT \o u)[k] = IF k <= Len(PROMPT) THEN PROMPT[k] ELSE u[k - Len(PROMPT)]
      BY ONLY <3>0, Joined
    <3> QED  BY <1>4, <2>1, <3>1
  <2>5. Len(w) = Len(v) + 1  BY <1>2, <2>2, <2>3, <2>4
  <2>6. \A k \in 1 .. Len(v) : w[k] = v[k]
    <3> TAKE k \in 1 .. Len(v)
    <3>1. k \in 1 .. Len(w)  BY <2>5, <2>3
    <3>2. ~(k <= Len(PROMPT)) => k - Len(PROMPT) \in 1 .. i  BY <1>2, <2>2, <2>3
    <3> QED  BY <1>4, <2>3, <2>4, <3>1, <3>2
  <2>7. w[Len(v) + 1] = c
    <3>1. Len(v) + 1 \in 1 .. Len(w) /\ ~(Len(v) + 1 <= Len(PROMPT))
          /\ (Len(v) + 1) - Len(PROMPT) = i + 1
      BY <1>2, <2>2, <2>3, <2>5
    <3> QED  BY <1>4, <2>4, <3>1
  <2>8. Shows(crt, v)  BY <1>1, <2>1, ShowsLine DEF IInv
  <2>9. Shows(Write(crt, c), w)
    <3>1. crt \in Screen /\ c \in Glyph  BY <1>1, <1>2, <2>1, Chars DEF TypeOK, IInv
    <3> QED  BY ONLY <2>3, <2>4, <2>5, <2>6, <2>7, <2>8, <3>1, WriteShows
  <2> QED  BY <1>3, <2>1, <2>9
<1>6. ScreenShowsLine'  BY <1>4, <1>5 DEF ScreenShowsLine, Shows
<1>7. TypeOK'
  <2>1. i + 1 \in Index  BY <1>1, <1>2, Chars DEF Index
  <2>2. crt' \in Screen  BY <1>1, <1>2, <1>3, WriteScreen
  <2>3. buf' \in [Index -> Glyph \cup {NUL}]  BY <1>1, <1>2
  <2> QED  BY <1>1, <1>2, <1>4, <2>1, <2>2, <2>3 DEF TypeOK
<1>8. LinePart'
  <2>1. \A k \in 0 .. i' - 1 : buf'[k] = line'[k + 1]
    <3> TAKE k \in 0 .. i' - 1
    <3>1. CASE k = i  BY <1>1, <1>2, <1>4, <3>1
    <3>2. CASE k # i
      <4>1. k \in 0 .. i - 1 /\ k + 1 \in 1 .. i /\ k \in Index
        BY <1>1, <1>2, <3>2, Chars DEF Index
      <4> QED  BY <1>1, <1>2, <1>4, <3>2, <4>1
    <3> QED  BY <3>1, <3>2
  <2>2. Len(line') = i'  BY <1>1, <1>4
  <2>3. \A k \in 0 .. i' - 1 : ~(k < 0)  OBVIOUS
  <2> QED  BY <1>1, <2>1, <2>2, <2>3 DEF LinePart, Seen, Parsing
<1>9. ArgPart'  BY <1>1 DEF ArgPart, Parsing
<1> QED  BY <1>6, <1>7, <1>8, <1>9 DEF IInv

LEMMA EndLineStep ==
  ASSUME IInv, NEW c, EndLine(c)
  PROVE  IInv'
<1>1. /\ pc = "read" /\ pc' = "runcmd" /\ crt' = Putc(crt, "nl")
      /\ buf' = [buf EXCEPT ![i] = NUL]
      /\ UNCHANGED <<i, p, argv, line>>
  BY DEF EndLine
<1>2. /\ TypeOK /\ crt \in Screen /\ Len(line) = i
      /\ i \in Nat /\ i \in Index /\ buf \in [Index -> Glyph \cup {NUL}]
      /\ \A k \in 0 .. i - 1 : buf[k] = line[k + 1]
  BY <1>1, Chars DEF IInv, TypeOK, LinePart, Seen, Parsing, Index
<1>3. TypeOK'
  <2>1. crt' \in Screen  BY <1>1, <1>2, PutcScreen DEF Input, Control
  <2>2. buf' \in [Index -> Glyph \cup {NUL}]  BY <1>1, <1>2
  <2> QED  BY <1>1, <1>2, <2>1, <2>2 DEF TypeOK
<1>4. LinePart'
  <2>1. \A k \in 0 .. i - 1 : buf'[k] = line[k + 1] /\ ~(k < 0)
    <3> TAKE k \in 0 .. i - 1
    <3>1. k # i /\ k \in Index  BY <1>2, Chars DEF Index
    <3> QED  BY <1>1, <1>2, <3>1
  <2>2. buf'[i] = NUL  BY <1>1, <1>2
  <2> QED  BY <1>1, <1>2, <2>1, <2>2 DEF LinePart, Seen, Parsing
<1>5. ArgPart' /\ ScreenShowsLine'  BY <1>1 DEF ArgPart, Parsing, ScreenShowsLine
<1> QED  BY <1>3, <1>4, <1>5 DEF IInv

-----------------------------------------------------------------------------
(* runcmd.                                                                 *)

\* What runcmd's loops find at p.
LEMMA AtP ==
  ASSUME IInv, pc \in {"gobble", "scan"}
  PROVE  /\ p \in Nat /\ i \in Nat /\ i <= BUFLEN - 1 /\ Len(line) = i /\ p <= i
         /\ argv \in Seq(Index) /\ p \in Index /\ buf[i] = NUL
         /\ buf[p] \notin WHITESPACE \cup {NUL} =>
              p < i /\ buf[p] = line[p + 1] /\ line[p + 1] \notin WHITESPACE
         /\ buf[p] \in WHITESPACE => p < i /\ line[p + 1] \in WHITESPACE
         /\ buf[p] = NUL => p = i
         /\ p = i \/ line[p + 1] \in WHITESPACE => p \notin WordStarts
<1>1. /\ p \in Nat /\ i \in Nat /\ i <= BUFLEN - 1 /\ Len(line) = i /\ p <= i
      /\ argv \in Seq(Index) /\ p \in Index /\ buf[i] = NUL /\ Seen = p
  BY Chars DEF IInv, TypeOK, Index, LinePart, ArgPart, Parsing, Seen
<1>2. TypeOK /\ LinePart /\ pc # "prompt"  BY DEF IInv
<1>3. ASSUME p # i  PROVE p < i /\ buf[p] = line[p + 1] /\ buf[p] # NUL
  <2>1. p \in 0 .. i - 1 /\ p < i  BY <1>1, <1>3
  <2>2. buf[p] # NUL  BY <1>1, <1>2, <2>1, LineChars
  <2> QED  BY <1>2, <2>1, <2>2, LineChars
<1>4. p = i \/ line[p + 1] \in WHITESPACE => p \notin WordStarts
  BY <1>1 DEF WordStarts
<1> QED  BY <1>1, <1>3, <1>4, Chars

LEMMA StartRuncmdStep ==
  ASSUME IInv, StartRuncmd
  PROVE  IInv'
<1>1. /\ pc = "runcmd" /\ p' = 0 /\ argv' = <<>> /\ pc' = "gobble"
      /\ UNCHANGED <<crt, buf, i, line>>
  BY DEF StartRuncmd
<1>2. TypeOK /\ i \in Nat  BY DEF IInv, TypeOK, Index
<1>3. TypeOK'
  <2>1. 0 \in Index  BY Chars DEF Index
  <2> QED  BY <1>1, <1>2, <2>1 DEF TypeOK
<1>4. LinePart'  BY <1>1 DEF IInv, LinePart, Seen, Parsing
<1>5. ArgPart'
  <2>1. Range(<<>>) = {} /\ Len(<<>>) = 0  BY DEF Range
  <2>2. \A k \in WordStarts' : ~(k < 0)  BY <1>1, <1>2 DEF WordStarts, IInv, TypeOK
  <2> QED  BY <1>1, <1>2, <2>1, <2>2, Chars DEF ArgPart, Parsing
<1>6. ScreenShowsLine'  BY <1>1 DEF ScreenShowsLine
<1> QED  BY <1>3, <1>4, <1>5, <1>6 DEF IInv

LEMMA GobbleStep ==
  ASSUME IInv, Gobble
  PROVE  IInv'
<1>1. /\ pc = "gobble" /\ pc' = "gobble" /\ p' = p + 1 /\ buf[p] \in WHITESPACE
      /\ buf' = [buf EXCEPT ![p] = NUL]
      /\ UNCHANGED <<crt, i, argv, line>>
  BY DEF Gobble
<1>2. /\ p \in Nat /\ i \in Nat /\ i <= BUFLEN - 1 /\ Len(line) = i /\ p < i
      /\ p \in Index /\ line[p + 1] \in WHITESPACE /\ p \notin WordStarts /\ buf[i] = NUL
  BY <1>1, AtP
<1>3. buf \in [Index -> Glyph \cup {NUL}] /\ TypeOK  BY DEF IInv, TypeOK
<1>4. TypeOK'
  <2>1. p + 1 \in Index  BY <1>2, Chars DEF Index
  <2>2. buf' \in [Index -> Glyph \cup {NUL}]  BY <1>1, <1>3
  <2> QED  BY <1>1, <1>3, <2>1, <2>2 DEF TypeOK
<1>5. LinePart'
  <2>1. ASSUME NEW k \in 0 .. i - 1
        PROVE  buf'[k] = IF k < p + 1 /\ line[k + 1] \in WHITESPACE THEN NUL ELSE line[k + 1]
    <3>1. k \in Index  BY <1>2, Chars DEF Index
    <3>2. buf[k] = IF k < p /\ line[k + 1] \in WHITESPACE THEN NUL ELSE line[k + 1]
      BY <1>1 DEF IInv, LinePart, Seen, Parsing
    <3>3. CASE k = p
      <4>1. buf'[k] = NUL  BY <1>1, <1>3, <3>1, <3>3
      <4> QED  BY <1>2, <3>3, <4>1
    <3>4. CASE k # p
      <4>1. buf'[k] = buf[k] /\ (k < p + 1 <=> k < p)  BY <1>1, <1>2, <1>3, <3>1, <3>4
      <4> QED  BY <3>2, <4>1
    <3> QED  BY <3>3, <3>4
  <2>2. buf'[i] = NUL
    <3>1. i # p /\ i \in Index  BY <1>2, <1>3 DEF TypeOK
    <3> QED  BY <1>1, <1>2, <1>3, <3>1
  <2> QED  BY <1>1, <1>2, <2>1, <2>2 DEF LinePart, Seen, Parsing
<1>6. ArgPart'
  <2>1. WordStarts' = WordStarts  BY <1>1 DEF WordStarts
  <2>2. \A k \in WordStarts : k < p + 1 <=> k < p  BY <1>2 DEF WordStarts
  <2>3. /\ Range(argv) = {k \in WordStarts : k < p}
        /\ \A j, k \in 1 .. Len(argv) : j < k => argv[j] < argv[k]
        /\ Len(argv) < MAXARGS
    BY <1>1 DEF IInv, ArgPart, Parsing
  <2>4. Range(argv) = {k \in WordStarts : k < p + 1}  BY <2>2, <2>3
  <2>5. p + 1 <= i  BY <1>2
  <2> QED  BY <1>1, <1>2, <2>1, <2>3, <2>4, <2>5 DEF ArgPart, Parsing
<1>7. ScreenShowsLine'  BY <1>1 DEF ScreenShowsLine
<1> QED  BY <1>4, <1>5, <1>6, <1>7 DEF IInv

LEMMA EndOfLineStep ==
  ASSUME IInv, EndOfLine
  PROVE  IInv'
<1>1. /\ pc = "gobble" /\ pc' = "lookup" /\ buf[p] = NUL
      /\ UNCHANGED <<crt, buf, i, p, argv, line>>
  BY DEF EndOfLine
<1>2. p = i  BY <1>1, AtP
<1>3. TypeOK'  BY <1>1 DEF IInv, TypeOK
<1>4. LinePart'  BY <1>1 DEF IInv, LinePart, Seen, Parsing
<1>5. ArgPart'
  <2>1. WordStarts' = WordStarts  BY <1>1 DEF WordStarts
  <2> QED  BY <1>1, <1>2, <2>1 DEF IInv, ArgPart, Parsing
<1>6. ScreenShowsLine'  BY <1>1 DEF ScreenShowsLine
<1> QED  BY <1>3, <1>4, <1>5, <1>6 DEF IInv

LEMMA StartArgStep ==
  ASSUME IInv, StartArg
  PROVE  IInv'
<1>1. /\ pc = "gobble" /\ pc' = "scan" /\ buf[p] \notin WHITESPACE \cup {NUL}
      /\ Len(argv) # MAXARGS - 1 /\ argv' = Append(argv, p)
      /\ UNCHANGED <<crt, buf, i, p, line>>
  BY DEF StartArg
<1>2. /\ p \in Nat /\ i \in Nat /\ Len(line) = i /\ p < i /\ p \in Index
      /\ argv \in Seq(Index) /\ line[p + 1] \notin WHITESPACE
  BY <1>1, AtP
<1>3. PICK n \in Nat : n = Len(argv)  BY <1>2
<1>4. /\ argv' \in Seq(Index) /\ Len(argv') = n + 1 /\ argv'[n + 1] = p
      /\ \A k \in 1 .. n : argv'[k] = argv[k]
  BY <1>1, <1>2, <1>3, AppendProperties
<1>5. TypeOK'  BY <1>1, <1>4 DEF IInv, TypeOK
<1>6. LinePart'  BY <1>1 DEF IInv, LinePart, Seen, Parsing
<1>7. ArgPart'
  <2>1. WordStarts' = WordStarts  BY <1>1 DEF WordStarts
  <2>2. /\ Range(argv) = {k \in WordStarts : k < p}
        /\ \A j, k \in 1 .. n : j < k => argv[j] < argv[k]
        /\ n < MAXARGS
        /\ p = 0 \/ line[p] \in WHITESPACE \/ buf[p] \in WHITESPACE \cup {NUL}
    BY <1>1, <1>3 DEF IInv, ArgPart, Parsing
  <2>3. p \in WordStarts
    <3>1. p \in 0 .. Len(line) - 1  BY <1>2
    <3> QED  BY <1>1, <1>2, <2>2, <3>1 DEF WordStarts
  <2>4. Range(argv') = Range(argv) \cup {p}
    <3>1. DOMAIN argv' = 1 .. n + 1 /\ DOMAIN argv = 1 .. n  BY <1>2, <1>3, <1>4
    <3>2. \A k \in 1 .. n + 1 : k \in 1 .. n \/ k = n + 1  OBVIOUS
    <3>3. \A k \in 1 .. n : k \in 1 .. n + 1  OBVIOUS
    <3>4. n + 1 \in 1 .. n + 1  OBVIOUS
    <3> QED  BY <1>4, <3>1, <3>2, <3>3, <3>4 DEF Range
  <2>5. Range(argv') = {k \in WordStarts : k < p \/ k = p}  BY <2>2, <2>3, <2>4
  <2>6. \A j \in 1 .. n : argv[j] < p
    <3>1. \A j \in 1 .. n : argv[j] \in Range(argv)  BY <1>2, <1>3 DEF Range
    <3> QED  BY <2>2, <3>1
  <2>7. \A j, k \in 1 .. n + 1 : j < k => argv'[j] < argv'[k]
    <3> SUFFICES ASSUME NEW j \in 1 .. n + 1, NEW k \in 1 .. n + 1, j < k
                 PROVE  argv'[j] < argv'[k]
      OBVIOUS
    <3>1. j \in 1 .. n  OBVIOUS
    <3>2. CASE k = n + 1  BY <1>4, <2>6, <3>1, <3>2
    <3>3. CASE k # n + 1
      <4>1. k \in 1 .. n  BY <3>3
      <4> QED  BY <1>4, <2>2, <3>1, <4>1
    <3> QED  BY <3>2, <3>3
  <2>8. n + 1 < MAXARGS  BY <1>1, <1>3, <2>2, Chars
  <2> QED  BY <1>1, <1>2, <1>4, <2>1, <2>5, <2>7, <2>8 DEF ArgPart, Parsing
<1>8. ScreenShowsLine'  BY <1>1 DEF ScreenShowsLine
<1> QED  BY <1>5, <1>6, <1>7, <1>8 DEF IInv

LEMMA ScanStep ==
  ASSUME IInv, Scan
  PROVE  IInv'
<1>1. /\ pc = "scan" /\ pc' = "scan" /\ p' = p + 1 /\ buf[p] \notin WHITESPACE \cup {NUL}
      /\ UNCHANGED <<crt, buf, i, argv, line>>
  BY DEF Scan
<1>2. /\ p \in Nat /\ i \in Nat /\ i <= BUFLEN - 1 /\ Len(line) = i /\ p < i
      /\ line[p + 1] \notin WHITESPACE /\ buf[i] = NUL
  BY <1>1, AtP
<1>3. TypeOK'
  <2>1. p + 1 \in Index  BY <1>2, Chars DEF Index
  <2> QED  BY <1>1, <2>1 DEF IInv, TypeOK
<1>4. LinePart'
  <2>1. ASSUME NEW k \in 0 .. i - 1
        PROVE  buf'[k] = IF k < p + 1 /\ line[k + 1] \in WHITESPACE THEN NUL ELSE line[k + 1]
    <3>1. buf[k] = IF k < p /\ line[k + 1] \in WHITESPACE THEN NUL ELSE line[k + 1]
      BY <1>1 DEF IInv, LinePart, Seen, Parsing
    <3>2. CASE k = p  BY <1>1, <1>2, <3>1, <3>2
    <3>3. CASE k # p
      <4>1. k < p + 1 <=> k < p  BY <1>2, <3>3
      <4> QED  BY <1>1, <3>1, <4>1
    <3> QED  BY <3>2, <3>3
  <2> QED  BY <1>1, <1>2, <2>1 DEF LinePart, Seen, Parsing
<1>5. ArgPart'
  <2>1. WordStarts' = WordStarts  BY <1>1 DEF WordStarts
  <2>2. p + 1 \notin WordStarts  BY <1>2 DEF WordStarts
  <2>3. \A k \in WordStarts : (k < p + 1 \/ k = p + 1) <=> (k < p \/ k = p)
    BY <1>2, <2>2 DEF WordStarts
  <2>4. /\ Range(argv) = {k \in WordStarts : k < p \/ k = p}
        /\ \A j, k \in 1 .. Len(argv) : j < k => argv[j] < argv[k]
        /\ Len(argv) < MAXARGS
    BY <1>1 DEF IInv, ArgPart, Parsing
  <2>5. Range(argv) = {k \in WordStarts : k < p + 1 \/ k = p + 1}  BY <2>3, <2>4
  <2>6. p + 1 <= i  BY <1>2
  <2> QED  BY <1>1, <2>1, <2>4, <2>5, <2>6 DEF ArgPart, Parsing
<1>6. ScreenShowsLine'  BY <1>1 DEF ScreenShowsLine
<1> QED  BY <1>3, <1>4, <1>5, <1>6 DEF IInv

LEMMA EndArgStep ==
  ASSUME IInv, EndArg
  PROVE  IInv'
<1>1. /\ pc = "scan" /\ pc' = "gobble" /\ buf[p] \in WHITESPACE \cup {NUL}
      /\ UNCHANGED <<crt, buf, i, p, argv, line>>
  BY DEF EndArg
<1>2. p \in Nat /\ p <= i /\ p \notin WordStarts  BY <1>1, AtP
<1>3. TypeOK'  BY <1>1 DEF IInv, TypeOK
<1>4. LinePart'  BY <1>1 DEF IInv, LinePart, Seen, Parsing
<1>5. ArgPart'
  <2>1. WordStarts' = WordStarts  BY <1>1 DEF WordStarts
  <2>2. /\ Range(argv) = {k \in WordStarts : k < p \/ k = p}
        /\ \A j, k \in 1 .. Len(argv) : j < k => argv[j] < argv[k]
        /\ Len(argv) < MAXARGS
    BY <1>1 DEF IInv, ArgPart, Parsing
  <2>3. Range(argv) = {k \in WordStarts : k < p}  BY <1>2, <2>2
  <2> QED  BY <1>1, <1>2, <2>1, <2>2, <2>3 DEF ArgPart, Parsing
<1>6. ScreenShowsLine'  BY <1>1 DEF ScreenShowsLine
<1> QED  BY <1>3, <1>4, <1>5, <1>6 DEF IInv

\* All that is left prints something and goes back to the prompt.
LEMMA LeaveStep ==
  ASSUME IInv, TooMany \/ Lookup
  PROVE  IInv'
<1>1. pc' = "prompt" /\ UNCHANGED <<buf, i, p, argv, line>>
  BY DEF TooMany, Lookup
<1>2. crt \in Screen  BY DEF IInv, TypeOK
<1>3. crt' \in Screen
  <2>1. CASE TooMany
    <3>1. TOOMANY \in Seq(Input)  BY MonitorAssumption DEF Input
    <3> QED  BY <1>2, <2>1, <3>1, PutsScreen DEF TooMany
  <2>2. CASE Lookup /\ argv = <<>>  BY <1>2, <2>2 DEF Lookup
  <2>3. CASE Lookup /\ argv # <<>>
    <3>1. pc = "lookup" /\ crt' = Puts(crt, Reply(StringAt(argv[1])))  BY <2>3 DEF Lookup
    <3>2. TypeOK /\ LinePart /\ p = i /\ argv \in Seq(Index)
          /\ Range(argv) = {k \in WordStarts : k < p}
      BY <3>1 DEF IInv, ArgPart, Parsing, TypeOK
    <3>3. argv[1] \in WordStarts
      <4>1. 1 \in DOMAIN argv  BY <2>3, <3>2
      <4>2. argv[1] \in Range(argv)  BY <4>1 DEF Range
      <4> QED  BY <3>2, <4>2
    <3>4. PICK name \in Seq(Glyph) : name = StringAt(argv[1])
      BY <3>1, <3>2, <3>3, WordIs
    <3>5. Reply(name) \in Seq(Input)
      <4>1. CASE name \in DOMAIN Commands
        BY <4>1, MonitorAssumption DEF Reply, Input
      <4>2. CASE name \notin DOMAIN Commands
        <5>1. UNKNOWN \in Seq(Input)  BY MonitorAssumption DEF Input
        <5>2. name \in Seq(Input)  BY DEF Input
        <5>3. <<"nl">> \in Seq(Input)  BY DEF Input, Control
        <5>4. UNKNOWN \o name \in Seq(Input)  BY <5>1, <5>2, ConcatProperties
        <5>5. UNKNOWN \o name \o <<"nl">> \in Seq(Input)  BY <5>3, <5>4, ConcatProperties
        <5> QED  BY <4>2, <5>5 DEF Reply
      <4> QED  BY <4>1, <4>2
    <3> QED  BY <1>2, <3>1, <3>4, <3>5, PutsScreen
  <2> QED  BY <2>1, <2>2, <2>3
<1>4. TypeOK'  BY <1>1, <1>3 DEF IInv, TypeOK
<1>5. LinePart' /\ ArgPart' /\ ScreenShowsLine'
  BY <1>1 DEF LinePart, ArgPart, Parsing, ScreenShowsLine
<1> QED  BY <1>4, <1>5 DEF IInv

-----------------------------------------------------------------------------
LEMMA InvStep == IInv /\ [Next]_vars => IInv'
<1> SUFFICES ASSUME IInv, [Next]_vars  PROVE IInv'  OBVIOUS
<1>1. CASE Prompt  BY <1>1, PromptStep
<1>2. CASE ReadChar
  <2>1. PICK c \in Input : EraseChar(c) \/ InsertChar(c) \/ EndLine(c)  BY <1>2 DEF ReadChar
  <2> QED  BY <2>1, EraseStep, InsertStep, EndLineStep
<1>3. CASE Runcmd
  BY <1>3, StartRuncmdStep, GobbleStep, EndOfLineStep, StartArgStep, ScanStep, EndArgStep,
     LeaveStep DEF Runcmd
<1>4. CASE UNCHANGED vars
  BY <1>4 DEF vars, IInv, TypeOK, LinePart, ArgPart, Parsing, Seen, ScreenShowsLine,
              WordStarts
<1> QED  BY <1>1, <1>2, <1>3, <1>4 DEF Next

LEMMA Invariant == Spec => []IInv
BY InvInit, InvStep, PTL DEF Spec

\* The cursor of cga_putc stays on the screen, readline's index and runcmd's
\* position in the buffer, whatever is typed, erased, scrolled and parsed.
THEOREM TypeTheorem == Spec => []TypeOK
<1>1. IInv => TypeOK  BY DEF IInv
<1> QED  BY <1>1, Invariant, PTL

\* readline echoes so that the screen shows the prompt and the line before the
\* cursor, on a screen of any size.
THEOREM ScreenTheorem == Spec => []ScreenShowsLine
<1>1. IInv => ScreenShowsLine  BY DEF IInv
<1> QED  BY <1>1, Invariant, PTL

\* The string that readline returns is the line as it was edited.
THEOREM LineTheorem == Spec => []ReturnedLineIsWhole
<1>1. IInv => ReturnedLineIsWhole  BY ReturnedIsLine DEF IInv
<1> QED  BY <1>1, Invariant, PTL

\* runcmd finds the words of the line, all of them in order, or reports that
\* they are too many for argv.
THEOREM ArgumentsTheorem == Spec => []ArgumentsAreWords
<1>1. ASSUME IInv  PROVE ArgumentsAreWords
  <2> SUFFICES ASSUME pc = "lookup"
               PROVE  /\ Range(argv) = WordStarts
                      /\ \A j, k \in 1 .. Len(argv) : j < k => argv[j] < argv[k]
                      /\ \A k \in 1 .. Len(argv) : StringAt(argv[k]) = WordAt(argv[k])
                      /\ Len(argv) < MAXARGS
    BY DEF ArgumentsAreWords
  <2>1. /\ TypeOK /\ LinePart /\ p = i /\ argv \in Seq(Index)
        /\ Range(argv) = {k \in WordStarts : k < p}
        /\ \A j, k \in 1 .. Len(argv) : j < k => argv[j] < argv[k]
        /\ Len(argv) < MAXARGS
    <3>1. TypeOK /\ LinePart /\ ArgPart  BY <1>1 DEF IInv
    <3>3. argv \in Seq(Index)  BY <3>1 DEF TypeOK
    <3>2. {k \in WordStarts : k < p \/ (k = p /\ pc = "scan")} = {k \in WordStarts : k < p}
      OBVIOUS
    <3> QED  BY <3>1, <3>2, <3>3 DEF ArgPart, Parsing
  <2>2. Len(line) = i /\ i \in Nat  BY <2>1 DEF LinePart, TypeOK, Index
  <2>3. Range(argv) = WordStarts
    <3>1. \A k \in WordStarts : k < i  BY <2>2 DEF WordStarts
    <3> QED  BY <2>1, <3>1
  <2>4. ASSUME NEW k \in 1 .. Len(argv)  PROVE StringAt(argv[k]) = WordAt(argv[k])
    <3>1. argv[k] \in Range(argv)  BY <2>1 DEF Range
    <3> QED  BY <2>1, <2>3, <3>1, WordIs
  <2> QED  BY <2>1, <2>3, <2>4
<1> QED  BY <1>1, Invariant, PTL

===============================================================================
