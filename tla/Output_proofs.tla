----------------------------- MODULE Output_proofs -----------------------------
(***************************************************************************)
(* The two ends of the kernel's output.                                    *)
(*                                                                         *)
(* cons_putc: for any timeout, any number of characters and ports of any   *)
(* speed, what it sends arrives in order, and what it loses it loses at a  *)
(* port that it has given up.                                              *)
(*                                                                         *)
(* vprintfmt, in the second half: for any formats and arguments and any    *)
(* size of the buffer, vsnprintf keeps to its buffer, a '%' that no        *)
(* conversion follows is printed with all that is behind it, and a proper  *)
(* conversion prints what it means.                                        *)
(***************************************************************************)
EXTENDS ConsoleOutput, Printf, SequenceTheorems, WellFoundedInduction, NaturalsInduction, TLAPS

\* The places at which c has not yet been given to a device, by device.
BeforeSerial  == {"serial"}
BeforePrinter == {"serial", "lpt", "strobe"}
BeforeDisplay == {"serial", "lpt", "strobe", "cga"}

\* The number of characters given to the device so far, and their sequence.
Passed(stages) == IF pc \in stages THEN c - 1 ELSE c
Upto(k) == [n \in 1 .. k |-> n]

\* The serial line with what is still in the transmit register.
SerialOut == IF thr = NONE THEN wire ELSE Append(wire, thr)

TypePart ==
  /\ c \in Nat /\ (pc # "caller" => c > 0)
  /\ pc \in BeforeDisplay \cup {"caller"}
  /\ present \subseteq Port /\ forced \subseteq Port
  /\ thr \in Nat /\ wire \in Seq(Nat)
  /\ latch \in Nat /\ busy \in BOOLEAN /\ paper \in Seq(Nat)

\* The transmit register holds a later character than the line, and neither
\* holds one that serial_putc has not written.
SerialPart ==
  /\ Increasing(wire)
  /\ \A j \in 1 .. Len(wire) : wire[j] \in 1 .. Passed(BeforeSerial)
  /\ thr # NONE => /\ thr \in 1 .. Passed(BeforeSerial)
                   /\ \A j \in 1 .. Len(wire) : wire[j] < thr
  /\ "serial" \in present \ forced => SerialOut = Upto(Passed(BeforeSerial))

\* When the strobe is pulsed, the character is in the data register, and the
\* printer takes it unless it was given up.
PrinterPart ==
  /\ Increasing(paper)
  /\ \A j \in 1 .. Len(paper) : paper[j] \in 1 .. Passed(BeforePrinter)
  /\ pc = "strobe" => latch = c
  /\ "lpt" \in present \ forced => /\ paper = Upto(Passed(BeforePrinter))
                                   /\ pc = "strobe" => ~busy

DisplayPart == shown = Upto(Passed(BeforeDisplay))

IInv == TypePart /\ SerialPart /\ PrinterPart /\ DisplayPart

-----------------------------------------------------------------------------
(* Sequences of characters.                                                *)

LEMMA UptoLonger ==
  ASSUME NEW k \in Nat
  PROVE  Upto(k) \in Seq(Nat) /\ Append(Upto(k), k + 1) = Upto(k + 1)
<1>1. Upto(k) \in Seq(Nat) /\ Len(Upto(k)) = k /\ \A j \in 1 .. k : Upto(k)[j] = j
  BY DEF Upto
<1>2. /\ Upto(k + 1) \in Seq(Nat) /\ Len(Upto(k + 1)) = k + 1
      /\ \A j \in 1 .. k + 1 : Upto(k + 1)[j] = j
  BY DEF Upto
<1> DEFINE s == Append(Upto(k), k + 1)
<1>3. s \in Seq(Nat) /\ Len(s) = k + 1 /\ s[k + 1] = k + 1 /\ \A j \in 1 .. k : s[j] = j
  BY <1>1, AppendProperties
<1>4. \A j \in 1 .. k + 1 : s[j] = j  BY <1>3
<1> HIDE DEF s
<1>5. s = Upto(k + 1)  BY <1>2, <1>3, <1>4, SeqEqual
<1> QED  BY <1>1, <1>5 DEF s

LEMMA IncreasingAppend ==
  ASSUME NEW s \in Seq(Nat), NEW e \in Nat, Increasing(s), \A j \in 1 .. Len(s) : s[j] < e
  PROVE  Increasing(Append(s, e))
<1> DEFINE t == Append(s, e)
<1>1. Len(s) \in Nat /\ Len(t) = Len(s) + 1 /\ t[Len(s) + 1] = e /\ \A j \in 1 .. Len(s) : t[j] = s[j]
  BY AppendProperties
<1>2. \A j \in 1 .. Len(s) : s[j] \in Nat  BY ElementOfSeq
<1>3. ASSUME NEW j \in 1 .. Len(t), NEW k \in 1 .. Len(t), j < k
      PROVE  t[j] < t[k]
  <2>1. j \in 1 .. Len(s)  BY <1>1, <1>3
  <2>2. CASE k = Len(s) + 1  BY <1>1, <2>1, <2>2
  <2>3. CASE k \in 1 .. Len(s)  BY <1>1, <1>3, <2>1, <2>3 DEF Increasing
  <2> QED  BY <1>1, <2>2, <2>3
<1> HIDE DEF t
<1>4. Increasing(t)  BY <1>3 DEF Increasing
<1> QED  BY <1>4 DEF t

-----------------------------------------------------------------------------
(* The invariant.                                                          *)

LEMMA InitHolds == Init => IInv
<1> SUFFICES ASSUME Init  PROVE IInv  OBVIOUS
<1> USE DEF Init, NONE
<1>1. /\ Passed(BeforeSerial) = 0 /\ Passed(BeforePrinter) = 0 /\ Passed(BeforeDisplay) = 0
      /\ SerialOut = <<>> /\ Upto(0) = <<>>
  BY DEF Passed, BeforeSerial, BeforePrinter, BeforeDisplay, SerialOut, Upto
<1>2. Increasing(<<>>)  BY DEF Increasing
<1>3. TypePart  BY DEF TypePart, Port, BeforeDisplay
<1>4. SerialPart  BY <1>1, <1>2 DEF SerialPart
<1>5. PrinterPart  BY <1>1, <1>2 DEF PrinterPart
<1>6. DisplayPart  BY <1>1 DEF DisplayPart
<1> QED  BY <1>3, <1>4, <1>5, <1>6 DEF IInv

LEMMA TypeKept == IInv /\ Next => TypePart'
<1> SUFFICES ASSUME IInv, Next  PROVE TypePart'  OBVIOUS
<1> USE DEF IInv, TypePart, BeforeDisplay, serialPort, printer, NONE
<1>1. CASE Putchar  BY <1>1 DEF Putchar
<1>2. CASE Wait("serial") \/ Wait("lpt")  BY <1>2 DEF Wait
<1>3. CASE SerialWrite  BY <1>3 DEF SerialWrite, GoAhead, Port
<1>4. CASE LptWrite  BY <1>4 DEF LptWrite, GoAhead, Port
<1>5. CASE Strobe
  <2>1. Append(paper, latch) \in Seq(Nat)  OBVIOUS
  <2> QED  BY <1>5, <2>1 DEF Strobe
<1>6. CASE CgaPutc  BY <1>6 DEF CgaPutc
<1>7. CASE Transmit
  <2>1. Append(wire, thr) \in Seq(Nat)  OBVIOUS
  <2> QED  BY <1>7, <2>1 DEF Transmit
<1>8. CASE PrinterReady  BY <1>8 DEF PrinterReady
<1> QED  BY <1>1, <1>2, <1>3, <1>4, <1>5, <1>6, <1>7, <1>8 DEF Next, Kernel

\* The counts of what was passed on change only where it is passed on.
LEMMA PassedSame ==
  ASSUME IInv, Next
  PROVE  /\ ~SerialWrite => Passed(BeforeSerial)' = Passed(BeforeSerial)
         /\ ~Strobe => Passed(BeforePrinter)' = Passed(BeforePrinter)
         /\ ~CgaPutc => Passed(BeforeDisplay)' = Passed(BeforeDisplay)
         /\ SerialWrite \/ Transmit \/ UNCHANGED serialPort
         /\ Strobe \/ LptWrite \/ PrinterReady \/ UNCHANGED printer
         /\ CgaPutc \/ UNCHANGED shown
         /\ present' = present /\ forced \subseteq forced'
<1> USE DEF IInv, TypePart, Passed, BeforeSerial, BeforePrinter, BeforeDisplay, serialPort, printer
<1>1. CASE Putchar  BY <1>1 DEF Putchar
<1>2. CASE Wait("serial") \/ Wait("lpt")  BY <1>2 DEF Wait
<1>3. CASE SerialWrite  BY <1>3 DEF SerialWrite, GoAhead
<1>4. CASE LptWrite  BY <1>4 DEF LptWrite, GoAhead
<1>5. CASE Strobe  BY <1>5 DEF Strobe
<1>6. CASE CgaPutc  BY <1>6 DEF CgaPutc
<1>7. CASE Transmit  BY <1>7 DEF Transmit
<1>8. CASE PrinterReady  BY <1>8 DEF PrinterReady
<1> QED  BY <1>1, <1>2, <1>3, <1>4, <1>5, <1>6, <1>7, <1>8 DEF Next, Kernel

LEMMA SerialKept == IInv /\ Next => SerialPart'
<1> SUFFICES ASSUME IInv, Next  PROVE SerialPart'  OBVIOUS
<1> USE DEF IInv
<1>1. present' = present /\ forced \subseteq forced'  BY PassedSame
<1>2. thr \in Nat /\ wire \in Seq(Nat) /\ Len(wire) \in Nat  BY DEF TypePart
<1>3. CASE ~SerialWrite /\ ~Transmit
  <2>1. Passed(BeforeSerial)' = Passed(BeforeSerial) /\ thr' = thr /\ wire' = wire
    BY <1>3, PassedSame DEF serialPort
  <2> QED  BY <1>1, <2>1 DEF SerialPart, SerialOut
<1>4. CASE Transmit
  <2>1. thr # NONE /\ thr' = NONE /\ wire' = Append(wire, thr)  BY <1>4 DEF Transmit
  <2>2. Passed(BeforeSerial)' = Passed(BeforeSerial)
    <3>1. ~SerialWrite  BY <1>4, <2>1 DEF Transmit, SerialWrite, serialPort, TypePart, BeforeDisplay
    <3> QED  BY <3>1, PassedSame
  <2>3. Increasing(wire')  BY <1>2, <2>1, IncreasingAppend DEF SerialPart
  <2>4. /\ Len(wire') = Len(wire) + 1 /\ wire'[Len(wire) + 1] = thr
        /\ \A j \in 1 .. Len(wire) : wire'[j] = wire[j]
    BY <1>2, <2>1, AppendProperties
  <2>5. \A j \in 1 .. Len(wire') : wire'[j] \in 1 .. Passed(BeforeSerial)
    BY <1>2, <2>1, <2>4 DEF SerialPart
  <2>6. SerialOut' = SerialOut  BY <2>1 DEF SerialOut
  <2> QED  BY <1>1, <2>1, <2>2, <2>3, <2>5, <2>6 DEF SerialPart
<1>5. CASE SerialWrite
  <2>1. /\ pc = "serial" /\ pc' = "lpt" /\ c' = c /\ wire' = wire
        /\ thr' = IF "serial" \in present THEN c ELSE NONE
        /\ forced' = IF Ready("serial") THEN forced ELSE forced \cup {"serial"}
    BY <1>5 DEF SerialWrite, GoAhead
  <2>2. c \in Nat /\ c > 0  BY <2>1 DEF TypePart
  <2>3. Passed(BeforeSerial) = c - 1 /\ Passed(BeforeSerial)' = c
    BY <2>1 DEF Passed, BeforeSerial
  <2>4. \A j \in 1 .. Len(wire) : wire[j] \in 1 .. c - 1  BY <2>3 DEF SerialPart
  <2>5. \A j \in 1 .. Len(wire) : wire[j] \in 1 .. c /\ wire[j] < c  BY <2>2, <2>4
  <2>6. ASSUME "serial" \in present' \ forced'  PROVE SerialOut' = Upto(c)
    <3>1. Ready("serial") /\ "serial" \in present \ forced  BY <1>1, <2>1, <2>6
    <3>2. thr = NONE /\ thr' = c  BY <2>1, <3>1 DEF Ready
    <3>3. wire = Upto(c - 1)  BY <2>3, <3>1, <3>2 DEF SerialPart, SerialOut
    <3>4. SerialOut' = Append(wire, c)  BY <2>1, <2>2, <3>2 DEF SerialOut, NONE
    <3>5. c - 1 \in Nat /\ (c - 1) + 1 = c  BY <2>2
    <3> QED  BY <3>3, <3>4, <3>5, UptoLonger
  <2>7. thr' # NONE => thr' \in 1 .. c /\ \A j \in 1 .. Len(wire) : wire[j] < thr'
    BY <2>1, <2>2, <2>5
  <2> QED  BY <2>1, <2>3, <2>5, <2>6, <2>7 DEF SerialPart
<1> QED  BY <1>3, <1>4, <1>5

LEMMA PrinterKept == IInv /\ Next => PrinterPart'
<1> SUFFICES ASSUME IInv, Next  PROVE PrinterPart'  OBVIOUS
<1> USE DEF IInv
<1>1. present' = present /\ forced \subseteq forced'  BY PassedSame
<1>2. latch \in Nat /\ paper \in Seq(Nat) /\ busy \in BOOLEAN /\ Len(paper) \in Nat  BY DEF TypePart
<1>3. CASE ~Strobe /\ ~LptWrite
  <2>1. Passed(BeforePrinter)' = Passed(BeforePrinter)  BY <1>3, PassedSame
  <2>2. latch' = latch /\ paper' = paper /\ (busy' => busy)
    <3>1. CASE PrinterReady  BY <3>1 DEF PrinterReady
    <3>2. CASE UNCHANGED printer  BY <3>2 DEF printer
    <3> QED  BY <1>3, <3>1, <3>2, PassedSame
  <2>3. pc' = "strobe" => pc = "strobe" /\ c' = c
    BY <1>3 DEF Next, Kernel, Putchar, Wait, SerialWrite, CgaPutc, Transmit, PrinterReady
  <2> QED  BY <1>1, <2>1, <2>2, <2>3 DEF PrinterPart
<1>4. CASE LptWrite
  <2>1. /\ pc = "lpt" /\ pc' = "strobe" /\ c' = c /\ latch' = c /\ paper' = paper /\ busy' = busy
        /\ forced' = IF Ready("lpt") THEN forced ELSE forced \cup {"lpt"}
    BY <1>4 DEF LptWrite, GoAhead
  <2>2. Passed(BeforePrinter)' = Passed(BeforePrinter)
    BY <2>1 DEF Passed, BeforePrinter
  <2>3. "lpt" \in present' \ forced' => ~busy'  BY <1>1, <2>1 DEF Ready
  <2> QED  BY <1>1, <2>1, <2>2, <2>3 DEF PrinterPart
<1>5. CASE Strobe
  <2>1. /\ pc = "strobe" /\ pc' = "cga" /\ c' = c /\ forced' = forced
        /\ IF "lpt" \in present /\ ~busy THEN paper' = Append(paper, latch) /\ busy' = TRUE
           ELSE UNCHANGED <<paper, busy>>
    BY <1>5 DEF Strobe
  <2>2. c \in Nat /\ c > 0 /\ latch = c  BY <2>1 DEF TypePart, PrinterPart
  <2>3. Passed(BeforePrinter) = c - 1 /\ Passed(BeforePrinter)' = c
    BY <2>1 DEF Passed, BeforePrinter
  <2>4. \A j \in 1 .. Len(paper) : paper[j] \in 1 .. c - 1  BY <2>3 DEF PrinterPart
  <2>5. \A j \in 1 .. Len(paper) : paper[j] \in 1 .. c /\ paper[j] < c  BY <2>2, <2>4
  <2>6. CASE "lpt" \in present /\ ~busy
    <3>1. paper' = Append(paper, c)  BY <2>1, <2>2, <2>6
    <3>2. Increasing(paper')  BY <1>2, <2>2, <2>5, <3>1, IncreasingAppend DEF PrinterPart
    <3>3. /\ Len(paper') = Len(paper) + 1 /\ paper'[Len(paper) + 1] = c
          /\ \A j \in 1 .. Len(paper) : paper'[j] = paper[j]
      BY <1>2, <2>2, <3>1, AppendProperties
    <3>4. \A j \in 1 .. Len(paper') : paper'[j] \in 1 .. c
      BY <1>2, <2>2, <2>5, <3>3, SMTT(20)
    <3>5. ASSUME "lpt" \in present' \ forced'  PROVE paper' = Upto(c)
      <4>1. paper = Upto(c - 1)  BY <1>1, <2>1, <2>3, <3>5 DEF PrinterPart
      <4>2. c - 1 \in Nat /\ (c - 1) + 1 = c  BY <2>2
      <4> QED  BY <3>1, <4>1, <4>2, UptoLonger
    <3> QED  BY <2>1, <2>3, <3>2, <3>4, <3>5 DEF PrinterPart
  <2>7. CASE ~("lpt" \in present /\ ~busy)
    <3>1. paper' = paper  BY <2>1, <2>7
    <3>2. "lpt" \notin present' \ forced'  BY <1>1, <2>1, <2>7 DEF PrinterPart
    <3> QED  BY <2>1, <2>3, <2>5, <3>1, <3>2 DEF PrinterPart
  <2> QED  BY <2>6, <2>7
<1> QED  BY <1>3, <1>4, <1>5

LEMMA DisplayKept == IInv /\ Next => DisplayPart'
<1> SUFFICES ASSUME IInv, Next  PROVE DisplayPart'  OBVIOUS
<1> USE DEF IInv
<1>1. CASE ~CgaPutc  BY <1>1, PassedSame DEF DisplayPart
<1>2. CASE CgaPutc
  <2>1. pc = "cga" /\ pc' = "caller" /\ c' = c /\ shown' = Append(shown, c)  BY <1>2 DEF CgaPutc
  <2>2. c - 1 \in Nat /\ (c - 1) + 1 = c  BY <2>1 DEF TypePart
  <2>3. Passed(BeforeDisplay) = c - 1 /\ Passed(BeforeDisplay)' = c
    BY <2>1 DEF Passed, BeforeDisplay
  <2>4. shown' = Append(Upto(c - 1), c)  BY <2>1, <2>3 DEF DisplayPart
  <2> QED  BY <2>2, <2>3, <2>4, UptoLonger DEF DisplayPart
<1> QED  BY <1>1, <1>2

LEMMA NextKeeps == IInv /\ [Next]_vars => IInv'
<1>1. IInv /\ Next => IInv'  BY TypeKept, SerialKept, PrinterKept, DisplayKept DEF IInv
<1>2. IInv /\ UNCHANGED vars => IInv'
  BY DEF vars, IInv, TypePart, SerialPart, PrinterPart, DisplayPart, Passed, SerialOut
<1> QED  BY <1>1, <1>2

\* However long the ports take, and however often they are given up, what the
\* serial line, the printer and the display get is in the order printed, and
\* nothing twice.
THEOREM OrderTheorem == Spec => []ArrivesInOrder
<1>1. IInv => ArrivesInOrder
  <2> SUFFICES ASSUME IInv  PROVE ArrivesInOrder  OBVIOUS
  <2>1. thr # NONE => Increasing(Append(wire, thr))
    BY IncreasingAppend DEF IInv, TypePart, SerialPart
  <2>2. Increasing(shown)
    <3>1. PICK k \in Nat : k = Passed(BeforeDisplay)
      BY DEF IInv, TypePart, Passed, BeforeDisplay
    <3>2. shown = Upto(k)  BY <3>1 DEF IInv, DisplayPart
    <3> QED  BY <3>2 DEF Upto, Increasing
  <2> QED  BY <2>1, <2>2 DEF IInv, SerialPart, PrinterPart, ArrivesInOrder
<1> QED  BY <1>1, InitHolds, NextKeeps, PTL DEF Spec

\* cons_putc loses a character only at a port that it has once given up, and
\* none on the display.
THEOREM LossTheorem == Spec => []NothingLostUnlessForced
<1>1. IInv => NothingLostUnlessForced
  <2> SUFFICES ASSUME IInv  PROVE NothingLostUnlessForced  OBVIOUS
  <2>1. /\ Printed({"serial", "lpt", "strobe", "cga"}) = Upto(Passed(BeforeDisplay))
        /\ Printed({"serial"}) = Upto(Passed(BeforeSerial))
        /\ Printed({"serial", "lpt", "strobe"}) = Upto(Passed(BeforePrinter))
    BY DEF Printed, Upto, Passed, BeforeSerial, BeforePrinter, BeforeDisplay
  <2> QED  BY <2>1 DEF IInv, SerialPart, PrinterPart, DisplayPart, SerialOut, NothingLostUnlessForced
<1> QED  BY <1>1, InitHolds, NextKeeps, PTL DEF Spec

-----------------------------------------------------------------------------
(* vsnprintf keeps to its buffer.                                          *)

\* A size that vsnprintf accepts.
Bounded == size # NULL /\ size >= 1

BufferPart ==
  Bounded =>
    /\ size \in Int
    /\ \E S : out \in Seq(S)
    /\ cnt = Len(out)

BInv == BufferPart /\ BufferHoldsPrefix

LEMMA MinOf ==
  ASSUME NEW x \in Int, NEW y \in Int
  PROVE  Min({x, y}) = IF x <= y THEN x ELSE y
<1> DEFINE T == {x, y}
           v == IF x <= y THEN x ELSE y
<1>1. \A z \in T : (\A w \in T : z <= w) => z = v  OBVIOUS
<1>2. v \in T /\ \A w \in T : v <= w  OBVIOUS
<1>3. Min(T) = CHOOSE z \in T : \A w \in T : z <= w  BY Zenon DEF Min
<1> HIDE DEF T, v
<1>4. Min(T) = v  BY <1>1, <1>2, <1>3
<1> QED  BY <1>4 DEF T, v

LEMMA MaxOf ==
  ASSUME NEW x \in Int, NEW y \in Int
  PROVE  Max({x, y}) = IF x >= y THEN x ELSE y
<1> DEFINE T == {x, y}
           v == IF x >= y THEN x ELSE y
<1>1. \A z \in T : (\A w \in T : z >= w) => z = v  OBVIOUS
<1>2. v \in T /\ \A w \in T : v >= w  OBVIOUS
<1>3. Max(T) = CHOOSE z \in T : \A w \in T : z >= w  BY Zenon DEF Max
<1> HIDE DEF T, v
<1>4. Max(T) = v  BY <1>1, <1>2, <1>3
<1> QED  BY <1>4 DEF T, v

LEMMA LeastOf ==
  ASSUME NEW T, T \subseteq Nat, T # {}
  PROVE  \E x \in T : \A y \in T : x <= y
<1> DEFINE R == {ss \in Nat \X Nat : ss[1] < ss[2]}
<1>1. IsWellFoundedOn(R, Nat)
  BY NatLessThanWellFounded DEF OpToRel
<1>2. PICK x \in T : \A y \in T : ~(<<y, x>> \in R)
  <2> HIDE DEF R
  <2> QED  BY <1>1, WFMin
<1>3. \A y \in T : ~(y < x)  BY <1>2
<1> QED  BY <1>2, <1>3

\* A sequence with one element more, cut off at k.
LEMMA PrefixNext ==
  ASSUME NEW S, NEW q \in Seq(S), NEW e, NEW k \in Nat
  PROVE  SubSeq(Append(q, e), 1, Min({k, Len(Append(q, e))})) =
           IF Len(SubSeq(q, 1, Min({k, Len(q)}))) < k
           THEN Append(SubSeq(q, 1, Min({k, Len(q)})), e)
           ELSE SubSeq(q, 1, Min({k, Len(q)}))
<1> DEFINE old == Min({k, Len(q)})
           new == Min({k, Len(Append(q, e))})
<1> SUFFICES SubSeq(Append(q, e), 1, new) =
               IF Len(SubSeq(q, 1, old)) < k THEN Append(SubSeq(q, 1, old), e) ELSE SubSeq(q, 1, old)
  OBVIOUS
<1>1. Len(q) \in Nat  OBVIOUS
<1>2. Min({k, Len(q)}) = IF k <= Len(q) THEN k ELSE Len(q)  BY <1>1, MinOf
<1>3. Append(q, e) \in Seq(S \cup {e}) /\ q \in Seq(S \cup {e}) /\ Len(Append(q, e)) = Len(q) + 1
  OBVIOUS
<1>4. Min({k, Len(q) + 1}) = IF k <= Len(q) + 1 THEN k ELSE Len(q) + 1  BY <1>1, MinOf
<1>5. CASE k <= Len(q)
  <2>1. SubSeq(Append(q, e), 1, k) = SubSeq(q, 1, k)  BY <1>3, <1>5
  <2>2. Len(SubSeq(q, 1, k)) = k  BY <1>5
  <2>3. old = k /\ new = k  BY <1>1, <1>2, <1>3, <1>4, <1>5
  <2> HIDE DEF old, new
  <2>4. ~(Len(SubSeq(q, 1, old)) < k)  BY <2>2, <2>3
  <2>5. SubSeq(Append(q, e), 1, new) = SubSeq(q, 1, old)  BY Zenon, <2>1, <2>3
  <2> QED  BY Zenon, <2>4, <2>5
<1>6. CASE ~(k <= Len(q))
  <2>1. SubSeq(q, 1, Len(q)) = q  OBVIOUS
  <2>2. SubSeq(Append(q, e), 1, Len(q) + 1) = Append(q, e)  BY <1>3
  <2>3. old = Len(q) /\ new = Len(q) + 1
    BY <1>1, <1>2, <1>3, <1>4, <1>6
  <2> HIDE DEF old, new
  <2> QED  BY <1>1, <1>6, <2>1, <2>2, <2>3
<1> QED  BY <1>1, <1>5, <1>6

\* Steps that call nothing but vprintfmt's own code.
LEMMA SinkKept ==
  ASSUME BInv, UNCHANGED <<given, sink>>, loop' # "done"
  PROVE  BInv'
BY DEF BInv, BufferPart, BufferHoldsPrefix, Bounded, given, sink

LEMMA PutchKeeps ==
  ASSUME BInv, Putch
  PROVE  BInv'
<1>1. /\ size' = size /\ loop' # "done"
      /\ out' = Append(out, Head(todo))
      /\ size # NULL => /\ cnt' = cnt + 1
                        /\ buf' = IF Len(buf) < size - 1 THEN Append(buf, Head(todo)) ELSE buf
  BY DEF Putch, SprintPut, given
<1>2. SUFFICES ASSUME Bounded  PROVE BInv'
  BY <1>1 DEF BInv, BufferPart, BufferHoldsPrefix, Bounded
<1>3. PICK S : out \in Seq(S)  BY <1>2 DEF BInv, BufferPart
<1>4. /\ size \in Int /\ size >= 1 /\ size # NULL /\ cnt = Len(out)
      /\ buf = SubSeq(out, 1, Min({size - 1, Len(out)}))
  BY <1>2 DEF BInv, BufferPart, BufferHoldsPrefix, Bounded
<1>5. out' \in Seq(S \cup {Head(todo)}) /\ Len(out') = Len(out) + 1  BY <1>1, <1>3
<1>6. buf' = SubSeq(out', 1, Min({size - 1, Len(out')}))
  <2> DEFINE k == size - 1
             e == Head(todo)
  <2>1. k \in Nat  BY <1>4
  <2>2. buf' = IF Len(buf) < k THEN Append(buf, e) ELSE buf  BY <1>1, <1>4
  <2>3. buf = SubSeq(out, 1, Min({k, Len(out)})) /\ out' = Append(out, e)  BY <1>1, <1>4
  <2> HIDE DEF k, e
  <2>4. buf' = SubSeq(out', 1, Min({k, Len(out')}))
    BY <1>3, <2>1, <2>2, <2>3, PrefixNext
  <2> QED  BY <2>4 DEF k
<1> QED  BY <1>1, <1>4, <1>5, <1>6 DEF BInv, BufferPart, BufferHoldsPrefix, Bounded

\* The end of the format: what is returned is the number of characters given to putch.
LEMMA EndKeeps ==
  ASSUME BInv, EndOfFormat
  PROVE  BInv'
<1>1. UNCHANGED <<size, out, buf, cnt>> /\ ret' = cnt  BY DEF EndOfFormat, given, sink
<1> QED  BY <1>1 DEF BInv, BufferPart, BufferHoldsPrefix, Bounded

\* Which steps call putch, and which return.
LEMMA OtherSteps ==
  ASSUME Literal \/ Percent \/ Flag \/ Conversion \/ Unknown
  PROVE  UNCHANGED <<given, sink>> /\ loop' # "done"
<1>1. ASSUME NEW t, Prints(t)  PROVE UNCHANGED sink /\ loop' # "done"
  BY <1>1 DEF Prints
<1>2. ASSUME NEW t, Converts(t)  PROVE UNCHANGED <<given, sink>> /\ loop' # "done"
  BY <1>2, <1>1 DEF Converts
<1>3. CASE Literal  BY <1>3, <1>1 DEF Literal
<1>4. CASE Percent  BY Zenon, <1>4 DEF Percent
<1>5. CASE Flag  BY <1>5 DEF Flag, Pad, Digit, Star, Dot, Alt, Long, NextChar
<1>6. CASE Conversion
  <2>1. \E t : Converts(t)
    BY Zenon, <1>6 DEF Conversion, ConvChar, ConvError, ConvString, ConvSigned, ConvUnsigned,
                       ConvPointer, ConvPercent
  <2> QED  BY <2>1, <1>2
<1>7. CASE Unknown  BY <1>7, <1>1 DEF Unknown
<1> QED  BY <1>3, <1>4, <1>5, <1>6, <1>7

LEMMA BInit ==
  ASSUME PrintInit
  PROVE  BInv
<1>1. /\ size \in BufSizes \cup {NULL} /\ out = <<>> /\ buf = <<>> /\ cnt = 0
      /\ ~(size # NULL /\ size < 1) => loop = "text"
  BY Zenon DEF PrintInit
<1>2. SUFFICES ASSUME Bounded  PROVE BInv
  BY DEF BInv, BufferPart, BufferHoldsPrefix, Bounded
<1>3. size \in Int /\ size >= 1  BY <1>1, <1>2, PrintfAssumption DEF Bounded
<1>4. out \in Seq({}) /\ Len(out) = 0  BY <1>1
<1>5. buf = SubSeq(out, 1, Min({size - 1, Len(out)}))
  <2>1. Min({size - 1, 0}) = 0  BY <1>3, MinOf
  <2>2. SubSeq(<<>>, 1, 0) = <<>>  OBVIOUS
  <2> QED  BY <1>1, <1>4, <2>1, <2>2
<1>6. Len(out) = cnt  BY <1>1, <1>4
<1>7. loop # "done"  BY <1>1, <1>3
<1> QED  BY <1>1, <1>2, <1>3, <1>4, <1>5, <1>6, <1>7 DEF BInv, BufferPart, BufferHoldsPrefix

LEMMA BNext ==
  ASSUME BInv, [PrintNext]_printVars
  PROVE  BInv'
<1>1. CASE UNCHANGED printVars
  BY <1>1 DEF printVars, given, sink, BInv, BufferPart, BufferHoldsPrefix, Bounded
<1>2. CASE PrintNext  BY <1>2, PutchKeeps, EndKeeps, OtherSteps, SinkKept DEF PrintNext
<1> QED  BY <1>1, <1>2

\* vsnprintf keeps to its buffer.
THEOREM BufferTheorem == PrintSpec => []BufferHoldsPrefix
<1>1. PrintInit => BInv  BY BInit
<1>2. BInv /\ [PrintNext]_printVars => BInv'  BY BNext
<1>3. BInv => BufferHoldsPrefix  BY DEF BInv
<1> QED  BY <1>1, <1>2, <1>3, PTL DEF PrintSpec

-----------------------------------------------------------------------------
(* Formats without conversions.                                            *)

\* After its first character the format has no '%', and it has no conversion.
Plain == \A k \in 1 .. Len(fmt) : fmt[k] \notin Conversions /\ (k > 1 => fmt[k] # "%")

UInv ==
  Plain =>
    /\ fmt \in Seq(Char)
    /\ loop \in {"text", "putch", "switch", "done"}
    /\ pos \in 1 .. Len(fmt) + 1
    /\ loop = "text" => out = SubSeq(fmt, 1, pos - 1)
    /\ loop = "putch" => \E e : todo = <<e>> /\ Append(out, e) = SubSeq(fmt, 1, pos - 1)
    /\ loop = "switch" => pos > 1 /\ fmt[1] = "%" /\ out = <<>>
    /\ loop = "done" /\ ret # -3 => out = fmt

\* What ch is: a character of the format, or, behind it, the NUL.
LEMMA ChIs ==
  ASSUME UInv, Plain
  PROVE  /\ fmt \in Seq(Char) /\ Len(fmt) \in Nat /\ pos \in 1 .. Len(fmt) + 1
         /\ ch = NUL <=> pos = Len(fmt) + 1
         /\ ch # NUL => pos \in 1 .. Len(fmt) /\ ch = fmt[pos] /\ ch \notin Conversions
                        /\ (pos > 1 => ch # "%")
<1>1. fmt \in Seq(Char) /\ pos \in 1 .. Len(fmt) + 1  BY DEF UInv
<1>2. Len(fmt) \in Nat  BY <1>1
<1>3. \A k \in 1 .. Len(fmt) : fmt[k] # NUL  BY <1>1 DEF Char
<1>4. pos \in 1 .. Len(fmt) => ch = fmt[pos]  BY DEF ch, At
<1>5. pos \notin 1 .. Len(fmt) => ch = NUL  BY DEF ch, At
<1>6. pos = Len(fmt) + 1 <=> pos \notin 1 .. Len(fmt)  BY <1>1, <1>2
<1> QED  BY <1>1, <1>2, <1>3, <1>4, <1>5, <1>6 DEF Plain

LEMMA LiteralPlain ==
  ASSUME UInv, Literal
  PROVE  UInv'
<1>1. /\ fmt' = fmt /\ out' = out /\ pos' = pos + 1 /\ loop = "text" /\ todo' = <<ch>>
      /\ loop' = IF <<ch>> = <<>> THEN "text" ELSE "putch"
      /\ ch # NUL
  BY DEF Literal, Prints, given, sink
<1>2. loop' = "putch"  BY <1>1
<1>3. SUFFICES ASSUME Plain  PROVE UInv'
  BY <1>1 DEF UInv, Plain
<1>4. /\ fmt \in Seq(Char) /\ Len(fmt) \in Nat /\ pos \in 1 .. Len(fmt) /\ ch = fmt[pos]
      /\ out = SubSeq(fmt, 1, pos - 1)
  BY <1>1, <1>3, ChIs DEF UInv
<1>5. Append(out, ch) = SubSeq(fmt, 1, pos)
  <2>1. Append(SubSeq(fmt, 1, pos - 1), fmt[pos]) = SubSeq(fmt, 1, pos)  BY <1>4
  <2> QED  BY <1>4, <2>1
<1>6. pos' \in 1 .. Len(fmt) + 1 /\ pos' - 1 = pos  BY <1>1, <1>4
<1> QED  BY <1>1, <1>2, <1>4, <1>5, <1>6 DEF UInv

LEMMA PutchPlain ==
  ASSUME UInv, Putch
  PROVE  UInv'
<1>1. /\ fmt' = fmt /\ pos' = pos /\ loop = "putch"
      /\ out' = Append(out, Head(todo))
      /\ loop' = IF Tail(todo) = <<>> THEN "text" ELSE "putch"
  BY DEF Putch, given
<1>2. SUFFICES ASSUME Plain  PROVE UInv'
  BY <1>1 DEF UInv, Plain
<1>3. PICK e : todo = <<e>> /\ Append(out, e) = SubSeq(fmt, 1, pos - 1)
  BY <1>1, <1>2 DEF UInv
<1>4. Head(todo) = e /\ Tail(todo) = <<>>  BY <1>3
<1>5. loop' = "text" /\ out' = SubSeq(fmt, 1, pos - 1)  BY <1>1, <1>3, <1>4
<1> QED  BY <1>1, <1>2, <1>5 DEF UInv

LEMMA EndPlain ==
  ASSUME UInv, EndOfFormat
  PROVE  UInv'
<1>1. fmt' = fmt /\ pos' = pos /\ out' = out /\ loop = "text" /\ loop' = "done" /\ ch = NUL
  BY DEF EndOfFormat, given, sink
<1>2. SUFFICES ASSUME Plain  PROVE UInv'
  BY <1>1 DEF UInv, Plain
<1>3. fmt \in Seq(Char) /\ pos = Len(fmt) + 1  BY <1>1, <1>2, ChIs
<1>4. out = fmt
  <2>1. out = SubSeq(fmt, 1, pos - 1) /\ pos - 1 = Len(fmt)  BY <1>1, <1>2, <1>3 DEF UInv
  <2>2. SubSeq(fmt, 1, Len(fmt)) = fmt  BY <1>3
  <2> QED  BY <2>1, <2>2
<1> QED  BY <1>1, <1>2, <1>3, <1>4 DEF UInv

LEMMA PercentPlain ==
  ASSUME UInv, Percent
  PROVE  UInv'
<1>1. fmt' = fmt /\ pos' = pos + 1 /\ out' = out /\ loop = "text" /\ loop' = "switch" /\ ch = "%"
  BY Zenon DEF Percent, given, sink
<1>2. SUFFICES ASSUME Plain  PROVE UInv'
  BY <1>1 DEF UInv, Plain
<1>3. "%" # NUL  BY DEF NUL
<1>4. /\ fmt \in Seq(Char) /\ pos = 1 /\ Len(fmt) \in Nat /\ Len(fmt) >= 1 /\ fmt[1] = "%"
  BY <1>1, <1>2, <1>3, ChIs
<1>5. out = <<>>
  <2>1. out = SubSeq(fmt, 1, pos - 1) /\ pos - 1 = 0  BY <1>1, <1>2, <1>4 DEF UInv
  <2>2. SubSeq(fmt, 1, 0) = <<>>  BY <1>4
  <2> QED  BY <2>1, <2>2
<1>6. pos' \in 1 .. Len(fmt) + 1 /\ pos' > 1  BY <1>1, <1>4
<1> QED  BY <1>1, <1>2, <1>4, <1>5, <1>6 DEF UInv

\* The digits of a number have a last one, within the format.
LEMMA LastDigit ==
  ASSUME UInv, Plain, ch \in Decimal
  PROVE  \E k \in pos .. Len(fmt) : At(k + 1) \notin Decimal /\ \A j \in pos .. k : At(j) \in Decimal
<1> DEFINE T == {k \in Nat : pos <= k /\ At(k + 1) \notin Decimal}
<1>1. NUL \notin Decimal  BY DEF NUL, Decimal, Digits
<1>2. /\ fmt \in Seq(Char) /\ Len(fmt) \in Nat /\ pos \in 1 .. Len(fmt)
  BY <1>1, ChIs
<1>3. Len(fmt) \in T
  <2>1. At(Len(fmt) + 1) = NUL  BY <1>2 DEF At
  <2> QED  BY <1>1, <1>2, <2>1
<1>4. PICK k \in T : \A j \in T : k <= j
  <2>1. T \subseteq Nat /\ T # {}  BY <1>3
  <2> HIDE DEF T
  <2> QED  BY <2>1, LeastOf
<1>5. k \in pos .. Len(fmt) /\ At(k + 1) \notin Decimal
  BY <1>2, <1>3, <1>4
<1>6. ASSUME NEW j \in pos .. k  PROVE At(j) \in Decimal
  <2>1. CASE j = pos  BY <2>1 DEF ch
  <2>2. CASE j # pos
    <3>1. j - 1 \in Nat /\ pos <= j - 1 /\ j - 1 < k /\ (j - 1) + 1 = j  BY <1>2, <1>5, <2>2
    <3>2. j - 1 \notin T  BY <1>4, <1>5, <3>1
    <3> QED  BY <3>1, <3>2
  <2> QED  BY <2>1, <2>2
<1> QED  BY <1>5, <1>6

LEMMA FlagPlain ==
  ASSUME UInv, Flag
  PROVE  UInv'
<1>1. /\ fmt' = fmt /\ out' = out /\ loop = "switch" /\ loop' = "switch"
      /\ \/ ch \in {"-", "0", "*", ".", "#", "l"} /\ pos' = pos + 1
         \/ /\ ch \in Decimal
            /\ pos' = (CHOOSE k \in pos .. Len(fmt) :
                         At(k + 1) \notin Decimal /\ \A j \in pos .. k : At(j) \in Decimal) + 1
  BY DEF Flag, Pad, Digit, Star, Dot, Alt, Long, NextChar, given, sink
<1>2. SUFFICES ASSUME Plain  PROVE UInv'
  BY <1>1 DEF UInv, Plain
<1>3. fmt \in Seq(Char) /\ Len(fmt) \in Nat /\ pos > 1 /\ fmt[1] = "%" /\ out = <<>> /\ pos \in Nat
  BY <1>1, <1>2, ChIs DEF UInv
<1>4. pos' \in 1 .. Len(fmt) + 1 /\ pos' > 1
  <2>1. CASE ch \in {"-", "0", "*", ".", "#", "l"} /\ pos' = pos + 1
    <3>1. ch # NUL  BY <2>1 DEF NUL
    <3>2. pos \in 1 .. Len(fmt)  BY <1>2, <3>1, ChIs
    <3> QED  BY <1>3, <2>1, <3>2
  <2>2. CASE /\ ch \in Decimal
             /\ pos' = (CHOOSE k \in pos .. Len(fmt) :
                          At(k + 1) \notin Decimal /\ \A j \in pos .. k : At(j) \in Decimal) + 1
    <3> DEFINE R(k) == At(k + 1) \notin Decimal /\ \A j \in pos .. k : At(j) \in Decimal
    <3>1. \E k \in pos .. Len(fmt) : R(k)  BY <1>2, <2>2, LastDigit
    <3>2. (CHOOSE k \in pos .. Len(fmt) : R(k)) \in pos .. Len(fmt)
      <4> HIDE DEF R
      <4> QED  BY Zenon, <3>1
    <3>3. pos' = (CHOOSE k \in pos .. Len(fmt) : R(k)) + 1  BY <2>2
    <3> HIDE DEF R
    <3> QED  BY <1>3, <3>2, <3>3
  <2> QED  BY <1>1, <2>1, <2>2
<1> QED  BY <1>1, <1>2, <1>3, <1>4 DEF UInv

\* No conversion comes.
LEMMA ConversionPlain ==
  ASSUME UInv, Conversion
  PROVE  UInv'
<1>1. /\ fmt' = fmt /\ loop = "switch"
      /\ ch \in Conversions \cup {"%"}
  <2>1. \E t : Converts(t)
    BY Zenon DEF Conversion, ConvChar, ConvError, ConvString, ConvSigned, ConvUnsigned,
                 ConvPointer, ConvPercent
  <2>2. fmt' = fmt  BY <2>1 DEF Converts, given
  <2>3. loop = "switch" /\ ch \in {"c", "e", "s", "d", "u", "o", "x", "p", "%"}
    BY Zenon DEF Conversion, ConvChar, ConvError, ConvString, ConvSigned, ConvUnsigned,
                 ConvPointer, ConvPercent
  <2> QED  BY <2>2, <2>3 DEF Conversions
<1>2. SUFFICES ASSUME Plain  PROVE FALSE
  BY <1>1 DEF UInv, Plain
<1>3. ch # NUL  BY <1>1 DEF NUL, Conversions
<1>4. pos > 1  BY <1>1, <1>2 DEF UInv
<1> QED  BY <1>1, <1>2, <1>3, <1>4, ChIs

LEMMA UnknownPlain ==
  ASSUME UInv, Unknown
  PROVE  UInv'
<1> DEFINE R(k) == At(k - 1) = "%" /\ \A j \in k .. pos - 1 : At(j) # "%"
<1>1. /\ fmt' = fmt /\ out' = out /\ loop = "switch" /\ todo' = <<"%">>
      /\ loop' = IF <<"%">> = <<>> THEN "text" ELSE "putch"
      /\ pos' = CHOOSE k \in 2 .. pos : R(k)
  BY DEF Unknown, Prints, given, sink
<1>2. SUFFICES ASSUME Plain  PROVE UInv'
  BY <1>1 DEF UInv, Plain
<1>3. /\ fmt \in Seq(Char) /\ Len(fmt) \in Nat /\ pos > 1 /\ fmt[1] = "%" /\ out = <<>>
      /\ pos \in 1 .. Len(fmt) + 1
  BY <1>1, <1>2, ChIs DEF UInv
<1>4. \A j \in 2 .. Len(fmt) : At(j) # "%"  BY <1>2, <1>3 DEF At, Plain
<1>5. At(1) = "%"  BY <1>3 DEF At
<1>6. 2 \in 2 .. pos /\ R(2)  BY <1>3, <1>4, <1>5
<1>7. \A k \in 2 .. pos : R(k) => k = 2
  <2> SUFFICES ASSUME NEW k \in 2 .. pos, k # 2, R(k)  PROVE FALSE
    OBVIOUS
  <2>1. k - 1 \in 2 .. Len(fmt)  BY <1>3
  <2> QED  BY <1>4, <2>1
<1>8. pos' = 2
  <2> HIDE DEF R
  <2> QED  BY <1>1, <1>6, <1>7
<1>9. Append(out, "%") = SubSeq(fmt, 1, 1)
  <2>1. Append(SubSeq(fmt, 1, 0), fmt[1]) = SubSeq(fmt, 1, 1)  BY <1>3
  <2>2. SubSeq(fmt, 1, 0) = <<>>  BY <1>3
  <2> QED  BY <1>3, <2>1, <2>2
<1>10. loop' = "putch"  BY <1>1
<1>11. pos' \in 1 .. Len(fmt) + 1 /\ pos' - 1 = 1  BY <1>3, <1>8
<1> HIDE DEF R
<1> QED  BY <1>1, <1>2, <1>3, <1>9, <1>10, <1>11 DEF UInv

\* The format that a directive renders ends in its conversion.
LEMMA RenderConverts ==
  ASSUME NEW d \in Directives
  PROVE  \E k \in 1 .. Len(Render(d)) : Render(d)[k] \in Conversions
<1> DEFINE flag   == IF d.pad = " " THEN <<>> ELSE <<d.pad>>
           alt    == IF d.alt THEN <<"#">> ELSE <<>>
           field  == IF d.width = NULL THEN <<"*">>
                     ELSE IF d.width = 0 THEN <<>> ELSE <<Digits[d.width + 1]>>
           prec   == IF d.prec = 0 THEN <<>> ELSE <<".", Digits[d.prec + 1]>>
           long   == Repeat("l", d.ls)
           Sign   == Conversions \cup {Digits[k] : k \in 1 .. 10}
                       \cup {"%", "#", "*", ".", "l", d.pad}
           front  == <<"%">> \o flag \o alt \o field \o prec \o long
<1>1. Render(d) = front \o <<d.conv>>
  BY Zenon DEF Render
<1>2. /\ d.conv \in Conversions /\ d.ls \in Nat /\ d.prec \in 0 .. 9
      /\ d.width \in 0 .. 9 \cup {NULL}
  BY Zenon, PrintfAssumption DEF Directive
<1>3. {"%", "#", "*", ".", "l", d.pad, d.conv} \subseteq Sign
  BY <1>2
<1>4. \A k \in 1 .. 10 : Digits[k] \in Sign
  OBVIOUS
<1> HIDE DEF Sign
<1>6. flag \in Seq(Sign)
  <2>1. <<>> \in Seq(Sign) /\ <<d.pad>> \in Seq(Sign)  BY <1>3
  <2> QED  BY Zenon, <2>1
<1>7. alt \in Seq(Sign)  BY <1>3
<1>8. field \in Seq(Sign)
  <2>1. CASE d.width = NULL  BY <1>3, <2>1
  <2>2. CASE d.width # NULL
    <3>1. d.width + 1 \in 1 .. 10  BY <1>2, <2>2
    <3> QED  BY <1>4, <2>2, <3>1
  <2> QED  BY <2>1, <2>2
<1>9. prec \in Seq(Sign)
  <2>1. d.prec + 1 \in 1 .. 10  BY <1>2
  <2> QED  BY <1>3, <1>4, <2>1
<1>10. long \in Seq(Sign)
  <2>1. Max({d.ls, 0}) \in Nat  BY <1>2, MaxOf
  <2>2. "l" \in Sign  BY <1>3
  <2>3. \A n \in Nat : [k \in 1 .. n |-> "l"] \in Seq(Sign)  BY <2>2
  <2> QED  BY <2>1, <2>3 DEF Repeat
<1> HIDE DEF flag, alt, field, prec, long
<1>11. front \in Seq(Sign)  BY <1>3, <1>6, <1>7, <1>8, <1>9, <1>10
<1> HIDE DEF front
<1>12. /\ Len(front \o <<d.conv>>) = Len(front) + 1 /\ Len(front) \in Nat
       /\ (front \o <<d.conv>>)[Len(front) + 1] = d.conv
  BY <1>3, <1>11
<1> QED  BY <1>1, <1>2, <1>12

LEMMA UInit ==
  ASSUME PrintInit
  PROVE  UInv
<1>1. pos = 1 /\ out = <<>> /\ (loop = "text" \/ (loop = "done" /\ ret = -3))
  <2>1. IF size # NULL /\ size < 1 THEN ret = -3 /\ loop = "done" ELSE ret = 0 /\ loop = "text"
    BY Zenon DEF PrintInit
  <2>2. pos = 1 /\ out = <<>>  BY Zenon DEF PrintInit
  <2>3. loop = "text" \/ (loop = "done" /\ ret = -3)  BY Zenon, <2>1
  <2> QED  BY <2>2, <2>3
<1>2. (\E d \in Directives : fmt = Render(d)) \/ fmt \in WildFormats
  BY Zenon DEF PrintInit
<1>3. SUFFICES ASSUME Plain  PROVE UInv
  BY DEF UInv
<1>4. fmt \in Seq(Char)
  <2>1. ASSUME NEW d \in Directives, fmt = Render(d)  PROVE FALSE
    BY <1>3, <2>1, RenderConverts DEF Plain
  <2> QED  BY <1>2, <2>1, PrintfAssumption
<1>5. SubSeq(fmt, 1, 0) = <<>> /\ pos - 1 = 0 /\ pos \in 1 .. Len(fmt) + 1
  BY <1>1, <1>4
<1> QED  BY <1>1, <1>3, <1>4, <1>5 DEF UInv

LEMMA UNext ==
  ASSUME UInv, [PrintNext]_printVars
  PROVE  UInv'
<1>1. CASE UNCHANGED printVars  BY <1>1 DEF printVars, given, sink, UInv, Plain
<1>2. CASE PrintNext
  BY <1>2, PutchPlain, LiteralPlain, EndPlain, PercentPlain, FlagPlain, ConversionPlain,
     UnknownPlain DEF PrintNext
<1> QED  BY <1>1, <1>2

\* A format without conversions is printed as it is, whatever flags, widths and
\* lengths follow the '%' it begins with.
THEOREM UnknownTheorem == PrintSpec => []UnknownPrintsItself
<1>1. PrintInit => UInv  BY UInit
<1>2. UInv /\ [PrintNext]_printVars => UInv'  BY UNext
<1>3. UInv => UnknownPrintsItself  BY DEF UInv, Plain, UnknownPrintsItself
<1> QED  BY <1>1, <1>2, <1>3, PTL DEF PrintSpec
-----------------------------------------------------------------------------
(* Powers, and the numerals made with them.                                *)

\* A set that holds 0 and with each number the next one holds all naturals.
LEMMA OneByOne ==
  ASSUME NEW T, 0 \in T, \A k \in Nat : k \in T => k + 1 \in T
  PROVE  Nat \subseteq T
<1> SUFFICES ASSUME Nat \ T # {}  PROVE FALSE  OBVIOUS
<1>1. PICK x \in Nat \ T : \A y \in Nat \ T : x <= y  BY LeastOf
<1>2. x # 0 /\ x - 1 \in Nat  OBVIOUS
<1>3. x - 1 \in T  BY <1>1, <1>2
<1>4. (x - 1) + 1 \in T  BY <1>2, <1>3
<1> QED  BY <1>4

\* A set that holds each number with all the smaller ones holds all naturals.
LEMMA FromSmaller ==
  ASSUME NEW T, \A k \in Nat : (\A j \in 0 .. k - 1 : j \in T) => k \in T
  PROVE  Nat \subseteq T
<1> SUFFICES ASSUME Nat \ T # {}  PROVE FALSE  OBVIOUS
<1>1. PICK x \in Nat \ T : \A y \in Nat \ T : x <= y  BY LeastOf
<1>2. \A j \in 0 .. x - 1 : j \in T  BY <1>1
<1> QED  BY <1>1, <1>2

\* The first powers of b, up to the k-th.
Powers(f, b, k) ==
  /\ f \in [0 .. k -> Int] /\ f[0] = 1
  /\ \A j \in 0 .. k - 1 : f[j + 1] = b * f[j]

\* Power(b, k) is defined by recursion: that there is such a function, and only
\* one, is proved first.
LEMMA PowersExist ==
  ASSUME NEW b \in Int, NEW k \in Nat
  PROVE  \E f : Powers(f, b, k)
<1> DEFINE T == {j \in Nat : \E f : Powers(f, b, j)}
<1>1. 0 \in T
  <2> DEFINE g == [j \in 0 .. 0 |-> 1]
  <2>1. g \in [0 .. 0 -> Int] /\ g[0] = 1 /\ 0 .. 0 - 1 = {}  OBVIOUS
  <2> HIDE DEF g
  <2> QED  BY <2>1 DEF Powers
<1>2. ASSUME NEW l \in Nat, l \in T  PROVE l + 1 \in T
  <2>1. PICK f : Powers(f, b, l)  BY <1>2
  <2>2. f \in [0 .. l -> Int] /\ f[l] \in Int  BY <2>1 DEF Powers
  <2> DEFINE g == [j \in 0 .. l + 1 |-> IF j = l + 1 THEN b * f[l] ELSE f[j]]
  <2>3. g[l + 1] = b * f[l] /\ \A j \in 0 .. l : g[j] = f[j]  OBVIOUS
  <2>4. g \in [0 .. l + 1 -> Int]  BY <2>2
  <2> HIDE DEF g
  <2>5. ASSUME NEW j \in 0 .. l  PROVE g[j + 1] = b * g[j]
    <3>1. CASE j = l  BY <2>3, <3>1
    <3>2. CASE j # l
      <4>1. j \in 0 .. l - 1 /\ j + 1 \in 0 .. l  BY <3>2
      <4>2. f[j + 1] = b * f[j]  BY <2>1, <4>1 DEF Powers
      <4> QED  BY <2>3, <4>1, <4>2
    <3> QED  BY <3>1, <3>2
  <2>6. g[0] = 1  BY <2>1, <2>3 DEF Powers
  <2>7. (l + 1) - 1 = l  OBVIOUS
  <2>8. Powers(g, b, l + 1)  BY <2>4, <2>5, <2>6, <2>7 DEF Powers
  <2> QED  BY <2>8
<1>3. Nat \subseteq T
  <2> HIDE DEF T
  <2> QED  BY <1>1, <1>2, OneByOne
<1> QED  BY <1>3

LEMMA PowersAlike ==
  ASSUME NEW b \in Int, NEW k \in Nat, NEW l \in Nat, k <= l,
         NEW f, Powers(f, b, k), NEW g, Powers(g, b, l)
  PROVE  \A j \in 0 .. k : f[j] = g[j]
<1> DEFINE T == {j \in Nat : j <= k => f[j] = g[j]}
<1>1. 0 \in T  BY DEF Powers
<1>2. ASSUME NEW j \in Nat, j \in T, j + 1 <= k  PROVE f[j + 1] = g[j + 1]
  <2>1. f[j] = g[j] /\ j \in 0 .. k - 1 /\ j \in 0 .. l - 1  BY <1>2
  <2> QED  BY <2>1 DEF Powers
<1>3. Nat \subseteq T
  <2>1. \A j \in Nat : j \in T => j + 1 \in T  BY <1>2
  <2> HIDE DEF T
  <2> QED  BY <1>1, <2>1, OneByOne
<1> QED  BY <1>3

\* Powers are what they should be.
LEMMA PowerIs ==
  ASSUME NEW b \in Int
  PROVE  /\ Power(b, 0) = 1
         /\ \A k \in Nat : Power(b, k) \in Int /\ Power(b, k + 1) = b * Power(b, k)
<1> DEFINE g(k) == CHOOSE f : Powers(f, b, k)
           f == [k \in Nat |-> g(k)[k]]
           IsAll(p) == p = [j \in Nat |-> IF j = 0 THEN 1 ELSE b * p[j - 1]]
           p1 == CHOOSE p : IsAll(p)
<1>1. \A k \in Nat : Powers(g(k), b, k)  BY PowersExist
<1> HIDE DEF g
<1>2. f[0] = 1 /\ \A k \in Nat : f[k] \in Int  BY <1>1 DEF Powers
<1>3. ASSUME NEW k \in Nat  PROVE f[k + 1] = b * f[k]
  <2>1. Powers(g(k), b, k) /\ Powers(g(k + 1), b, k + 1) /\ k + 1 \in Nat  BY <1>1
  <2>2. g(k + 1)[k + 1] = b * g(k + 1)[k]
    <3>1. k \in 0 .. (k + 1) - 1  OBVIOUS
    <3> QED  BY <2>1, <3>1 DEF Powers
  <2>3. g(k)[k] = g(k + 1)[k]
    <3>1. k <= k + 1 /\ k \in 0 .. k  OBVIOUS
    <3> QED  BY <2>1, <3>1, PowersAlike
  <2> QED  BY <2>2, <2>3
<1>4. f = [k \in Nat |-> f[k]]  OBVIOUS
<1> HIDE DEF f
<1>5. IsAll(f)
  <2>1. ASSUME NEW k \in Nat  PROVE f[k] = IF k = 0 THEN 1 ELSE b * f[k - 1]
    <3>1. CASE k = 0  BY <1>2, <3>1
    <3>2. CASE k # 0
      <4>1. k - 1 \in Nat /\ (k - 1) + 1 = k  BY <3>2
      <4>2. f[(k - 1) + 1] = b * f[k - 1]  BY <1>3, <4>1
      <4> QED  BY <3>2, <4>1, <4>2
    <3> QED  BY <3>1, <3>2
  <2> QED  BY <1>4, <2>1
<1>6. IsAll(p1)
  <2> HIDE DEF IsAll
  <2> QED  BY <1>5
<1>7. \A k : Power(b, k) = p1[k]  BY Zenon DEF Power
<1> HIDE DEF p1
<1>8. p1[0] = 1 /\ \A k \in Nat : p1[k + 1] = b * p1[k]
  <2>1. p1[0] = 1  BY <1>6
  <2>2. ASSUME NEW k \in Nat  PROVE p1[k + 1] = b * p1[k]
    <3>1. k + 1 \in Nat /\ k + 1 # 0 /\ (k + 1) - 1 = k  OBVIOUS
    <3>2. p1[k + 1] = IF k + 1 = 0 THEN 1 ELSE b * p1[(k + 1) - 1]  BY <1>6, <3>1
    <3> QED  BY <3>1, <3>2
  <2> QED  BY <2>1, <2>2
<1>9. \A k \in Nat : p1[k] \in Int
  <2> DEFINE T == {k \in Nat : p1[k] \in Int}
  <2>1. 0 \in T /\ \A k \in Nat : k \in T => k + 1 \in T  BY <1>8
  <2>2. Nat \subseteq T
    <3> HIDE DEF T
    <3> QED  BY <2>1, OneByOne
  <2> QED  BY <2>2
<1> QED  BY <1>7, <1>8, <1>9

\* They grow if the base is greater than 1.
LEMMA PowerPositive ==
  ASSUME NEW b \in Nat \ {0}, NEW k \in Nat
  PROVE  Power(b, k) \in Nat \ {0}
<1> DEFINE T == {j \in Nat : Power(b, j) \in Nat \ {0}}
<1>1. 0 \in T
  <2>1. Power(b, 0) = 1  BY PowerIs
  <2> QED  BY <2>1
<1>2. ASSUME NEW j \in Nat, j \in T  PROVE j + 1 \in T
  <2>1. Power(b, j) \in Nat \ {0} /\ Power(b, j + 1) = b * Power(b, j)  BY <1>2, PowerIs
  <2>2. \A x, y \in Nat \ {0} : x * y \in Nat \ {0}  OBVIOUS
  <2> QED  BY <2>1, <2>2
<1>3. Nat \subseteq T
  <2> HIDE DEF T
  <2> QED  BY <1>1, <1>2, OneByOne
<1> QED  BY <1>3

LEMMA PowerGrows ==
  ASSUME NEW b \in Nat \ {0}, NEW k \in Nat, NEW l \in Nat
  PROVE  Power(b, k) <= Power(b, k + l)
<1> DEFINE T == {j \in Nat : Power(b, k) <= Power(b, k + j)}
<1>1. 0 \in T
  <2>1. k + 0 = k /\ Power(b, k) \in Nat  BY PowerPositive
  <2> QED  BY <2>1
<1>2. ASSUME NEW j \in Nat, j \in T  PROVE j + 1 \in T
  <2>1. k + j \in Nat /\ (k + j) + 1 = k + (j + 1)  OBVIOUS
  <2>2. Power(b, k + j) \in Nat /\ Power(b, (k + j) + 1) = b * Power(b, k + j)
    BY <2>1, PowerPositive, PowerIs
  <2>3. \A x \in Nat : x <= b * x  OBVIOUS
  <2>4. Power(b, k + j) <= Power(b, k + (j + 1))  BY <2>1, <2>2, <2>3
  <2>5. Power(b, k) \in Nat /\ Power(b, k + (j + 1)) \in Nat  BY PowerPositive
  <2> QED  BY <1>2, <2>2, <2>4, <2>5
<1>3. Nat \subseteq T
  <2> HIDE DEF T
  <2> QED  BY <1>1, <1>2, OneByOne
<1> QED  BY <1>3

\* Quotient and remainder are the only ones.
LEMMA Quotient ==
  ASSUME NEW x \in Nat, NEW y \in Nat \ {0}, NEW q \in Int, NEW r \in 0 .. y - 1, x = y * q + r
  PROVE  x \div y = q
<1> DEFINE p == x \div y
           s == x % y
<1>1. p \in Int /\ s \in 0 .. y - 1 /\ x = y * p + s  OBVIOUS
<1> HIDE DEF p, s
<1>2. y * (p - q) = r - s  BY <1>1
<1>3. r - s < y /\ r - s > -y  BY <1>1
<1>4. p - q \in Int  BY <1>1
<1>5. ASSUME p - q >= 1  PROVE FALSE
  <2>1. y * (p - q) >= y  BY <1>4, <1>5
  <2> QED  BY <1>1, <1>2, <1>3, <2>1
<1>6. ASSUME p - q <= -1  PROVE FALSE
  <2>1. y * (p - q) <= -y  BY <1>4, <1>6
  <2> QED  BY <1>1, <1>2, <1>3, <2>1
<1> QED  BY <1>1, <1>4, <1>5, <1>6 DEF p

\* Dividing by a product is dividing twice.
LEMMA DivideTwice ==
  ASSUME NEW x \in Nat, NEW y \in Nat \ {0}, NEW z \in Nat \ {0}
  PROVE  x \div (y * z) = (x \div y) \div z
<1> DEFINE m == x \div y
           r == x % y
           q == m \div z
           s == m % z
<1>1. m \in Nat /\ r \in 0 .. y - 1 /\ x = y * m + r  OBVIOUS
<1> HIDE DEF m, r
<1>2. q \in Nat /\ s \in 0 .. z - 1 /\ m = z * q + s  BY <1>1
<1> HIDE DEF q, s
<1>3. y * z \in Nat \ {0}  OBVIOUS
<1>4. x = (y * z) * q + (y * s + r)  BY <1>1, <1>2
<1>5. y * s + r \in 0 .. y * z - 1
  <2>1. y * s \in Nat /\ y * s <= y * (z - 1)  BY <1>2
  <2>2. y * (z - 1) = y * z - y  OBVIOUS
  <2> QED  BY <1>1, <1>3, <2>1, <2>2
<1> HIDE DEF m, q
<1>6. x \div (y * z) = q  BY <1>2, <1>3, <1>4, <1>5, Quotient
<1> QED  BY <1>6 DEF q, m

\* n has k digits to the base b.
HasLength(n, b, k) == n < Power(b, k) /\ (k = 1 \/ n >= Power(b, k - 1))

LEMMA LongOnce ==
  ASSUME NEW n \in Nat, NEW b \in Nat \ {0}, NEW k \in Nat \ {0}, NEW l \in Nat \ {0},
         HasLength(n, b, k), HasLength(n, b, l)
  PROVE  k = l
<1>1. ASSUME NEW x \in Nat \ {0}, NEW y \in Nat \ {0}, HasLength(n, b, x), HasLength(n, b, y), x < y
      PROVE  FALSE
  <2>1. n < Power(b, x) /\ n >= Power(b, y - 1)  BY <1>1 DEF HasLength
  <2>2. (y - 1) - x \in Nat /\ y - 1 = x + ((y - 1) - x)  BY <1>1
  <2>3. Power(b, x) <= Power(b, y - 1)  BY <2>2, PowerGrows
  <2>4. Power(b, x) \in Nat /\ Power(b, y - 1) \in Nat  BY <1>1, PowerPositive
  <2> QED  BY <2>1, <2>3, <2>4
<1> QED  BY <1>1

LEMMA LongShort ==
  ASSUME NEW n \in Nat, NEW b \in Nat \ {0}, n < b
  PROVE  HasLength(n, b, 1)
<1>1. Power(b, 0) = 1 /\ Power(b, 0 + 1) = b * Power(b, 0)  BY PowerIs
<1> QED  BY <1>1 DEF HasLength

LEMMA LongLonger ==
  ASSUME NEW n \in Nat, NEW b \in Nat \ {0}, n >= b, NEW k \in Nat \ {0}, HasLength(n \div b, b, k)
  PROVE  HasLength(n, b, k + 1)
<1> DEFINE m == n \div b
           P == Power(b, k)
<1>1. m \in Nat /\ n >= b * m /\ n < b * (m + 1)  OBVIOUS
<1>2. P \in Nat /\ Power(b, k + 1) = b * P  BY PowerIs, PowerPositive
<1>3. m < P  BY DEF HasLength
<1> HIDE DEF m, P
<1>4. n < b * P
  <2>1. m + 1 <= P  BY <1>1, <1>2, <1>3
  <2>2. b * (m + 1) <= b * P  BY <1>1, <1>2, <2>1
  <2> QED  BY <1>1, <1>2, <2>2
<1>5. n >= P
  <2>1. CASE k = 1
    <3>1. Power(b, 0) = 1 /\ Power(b, 0 + 1) = b * Power(b, 0)  BY PowerIs
    <3> QED  BY <2>1, <3>1 DEF P
  <2>2. CASE k # 1
    <3>1. m >= Power(b, k - 1)  BY <2>2 DEF HasLength, m
    <3>2. k - 1 \in Nat /\ (k - 1) + 1 = k  OBVIOUS
    <3>3. Power(b, k - 1) \in Nat /\ P = b * Power(b, k - 1)
      <4>1. Power(b, (k - 1) + 1) = b * Power(b, k - 1)  BY <3>2, PowerIs
      <4> QED  BY <3>2, <4>1, PowerPositive DEF P
    <3>4. b * m >= b * Power(b, k - 1)  BY <1>1, <3>1, <3>3
    <3> QED  BY <1>1, <1>2, <3>3, <3>4
  <2> QED  BY <2>1, <2>2
<1>6. (k + 1) - 1 = k  OBVIOUS
<1> QED  BY <1>2, <1>4, <1>5, <1>6 DEF HasLength, P

\* Every number has a number of digits.
LEMMA LongExists ==
  ASSUME NEW b \in Nat, b > 1, NEW n \in Nat
  PROVE  \E k \in 1 .. n + 1 : HasLength(n, b, k)
<1> DEFINE T == {l \in Nat : \E k \in 1 .. l + 1 : HasLength(l, b, k)}
<1>1. ASSUME NEW l \in Nat, \A j \in 0 .. l - 1 : j \in T  PROVE l \in T
  <2>1. CASE l < b  BY <2>1, LongShort
  <2>2. CASE l >= b
    <3>1. l \div b \in 0 .. l - 1  BY <2>2
    <3>2. PICK k \in 1 .. (l \div b) + 1 : HasLength(l \div b, b, k)  BY <1>1, <3>1
    <3>3. k \in Nat \ {0} /\ k + 1 \in 1 .. l + 1  BY <3>1, <3>2
    <3>4. HasLength(l, b, k + 1)  BY <2>2, <3>2, <3>3, LongLonger
    <3> QED  BY <3>3, <3>4
  <2> QED  BY <2>1, <2>2
<1>2. Nat \subseteq T
  <2> HIDE DEF T
  <2> QED  BY <1>1, FromSmaller
<1> QED  BY <1>2

Glyph == {Digits[k] : k \in 1 .. 16}
DigitAt(n, b, e) == Digits[((n \div Power(b, e)) % b) + 1]

\* A numeral, place by place.
LEMMA NumeralIs ==
  ASSUME NEW b \in 2 .. 16, NEW n \in Nat, NEW k \in 1 .. n + 1, HasLength(n, b, k)
  PROVE  /\ Numeral(n, b) = [j \in 1 .. k |-> DigitAt(n, b, k - j)]
         /\ Numeral(n, b) \in Seq(Glyph) /\ Len(Numeral(n, b)) = k
<1> DEFINE len == CHOOSE l \in 1 .. n + 1 : HasLength(n, b, l)
<1>1. len = k
  <2>1. \A l \in 1 .. n + 1 : HasLength(n, b, l) => l = k  BY LongOnce
  <2> QED  BY <2>1
<1>2. Numeral(n, b) = [j \in 1 .. len |-> DigitAt(n, b, len - j)]
  BY Zenon DEF Numeral, HasLength, DigitAt
<1> HIDE DEF len
<1>3. Numeral(n, b) = [j \in 1 .. k |-> DigitAt(n, b, k - j)]  BY <1>1, <1>2
<1>4. ASSUME NEW j \in 1 .. k  PROVE DigitAt(n, b, k - j) \in Glyph
  <2>1. k - j \in Nat  OBVIOUS
  <2>2. Power(b, k - j) \in Nat \ {0}  BY <2>1, PowerPositive
  <2>3. (n \div Power(b, k - j)) % b \in 0 .. b - 1
    <3>1. \A x \in Nat, y \in Nat \ {0} : (x \div y) % b \in 0 .. b - 1  OBVIOUS
    <3> QED  BY <2>2, <3>1
  <2> QED  BY <2>3 DEF DigitAt, Glyph
<1> QED  BY <1>3, <1>4

\* The last digit, and what is in front of it.
LEMMA NumeralShort ==
  ASSUME NEW b \in 2 .. 16, NEW n \in Nat, n < b
  PROVE  Numeral(n, b) = <<Digits[(n % b) + 1]>>
<1>1. HasLength(n, b, 1) /\ 1 \in 1 .. n + 1  BY LongShort
<1>2. Numeral(n, b) = [j \in 1 .. 1 |-> DigitAt(n, b, 1 - j)]  BY <1>1, NumeralIs
<1>3. DigitAt(n, b, 0) = Digits[(n % b) + 1]
  <2>1. Power(b, 0) = 1  BY PowerIs
  <2>2. n \div 1 = n  OBVIOUS
  <2> QED  BY <2>1, <2>2 DEF DigitAt
<1>4. Numeral(n, b) = [j \in 1 .. 1 |-> Digits[(n % b) + 1]]  BY <1>2, <1>3
<1> QED  BY <1>4

\* A number of several digits: that of its quotient by the base, and one more.
LEMMA NumeralLonger ==
  ASSUME NEW b \in 2 .. 16, NEW n \in Nat, n >= b
  PROVE  /\ Numeral(n, b) = Append(Numeral(n \div b, b), Digits[(n % b) + 1])
         /\ Len(Numeral(n, b)) = Len(Numeral(n \div b, b)) + 1
<1> DEFINE m == n \div b
           x == Digits[(n % b) + 1]
<1>1. m \in 0 .. n - 1  OBVIOUS
<1>2. PICK k \in 1 .. m + 1 : HasLength(m, b, k)
  <2>1. m \in Nat /\ b \in Nat /\ b > 1  BY <1>1
  <2> HIDE DEF m
  <2> QED  BY <2>1, LongExists
<1>3. k \in Nat \ {0} /\ k + 1 \in 1 .. n + 1 /\ m \in Nat  BY <1>1, <1>2
<1>4. HasLength(n, b, k + 1)  BY <1>2, <1>3, LongLonger
<1>5. /\ Numeral(m, b) = [j \in 1 .. k |-> DigitAt(m, b, k - j)]
      /\ Numeral(m, b) \in Seq(Glyph) /\ Len(Numeral(m, b)) = k
  BY <1>2, <1>3, NumeralIs
<1>6. /\ Numeral(n, b) = [j \in 1 .. k + 1 |-> DigitAt(n, b, (k + 1) - j)]
      /\ Numeral(n, b) \in Seq(Glyph) /\ Len(Numeral(n, b)) = k + 1
  BY <1>3, <1>4, NumeralIs
<1>7. ASSUME NEW j \in 1 .. k  PROVE DigitAt(n, b, (k + 1) - j) = DigitAt(m, b, k - j)
  <2>1. k - j \in Nat /\ (k + 1) - j = (k - j) + 1  BY <1>3
  <2>2. Power(b, k - j) \in Nat \ {0}  BY <2>1, PowerPositive
  <2> DEFINE e == k - j
  <2>3. e \in Nat  BY <2>1
  <2> HIDE DEF e
  <2>4. Power(b, e + 1) = b * Power(b, e)  BY <2>3, PowerIs
  <2>5. n \div (b * Power(b, k - j)) = m \div Power(b, k - j)  BY <2>2, DivideTwice
  <2> QED  BY <2>1, <2>4, <2>5 DEF DigitAt, e
<1>8. DigitAt(n, b, (k + 1) - (k + 1)) = x
  <2>1. Power(b, 0) = 1 /\ (k + 1) - (k + 1) = 0  BY <1>3, PowerIs
  <2>2. n \div 1 = n  OBVIOUS
  <2> QED  BY <2>1, <2>2 DEF DigitAt
<1>9. x \in Glyph  BY DEF Glyph
<1> HIDE DEF m, x
<1>10. Append(Numeral(m, b), x) \in Seq(Glyph) /\ Len(Append(Numeral(m, b), x)) = k + 1
  BY <1>5, <1>9
<1>11. ASSUME NEW j \in 1 .. k + 1  PROVE Numeral(n, b)[j] = Append(Numeral(m, b), x)[j]
  <2>1. CASE j = k + 1
    <3>1. Append(Numeral(m, b), x)[k + 1] = x  BY <1>5, <1>9
    <3> QED  BY <1>6, <1>8, <2>1, <3>1
  <2>2. CASE j # k + 1
    <3>1. j \in 1 .. k  BY <1>3, <2>2
    <3>2. Append(Numeral(m, b), x)[j] = Numeral(m, b)[j]  BY <1>5, <1>9, <3>1
    <3>3. Numeral(m, b)[j] = DigitAt(m, b, k - j)  BY <1>5, <3>1
    <3> QED  BY <1>6, <1>7, <3>1, <3>2, <3>3
  <2> QED  BY <2>1, <2>2
<1>12. Numeral(n, b) = Append(Numeral(m, b), x)  BY <1>6, <1>10, <1>11, SeqEqual
<1> QED  BY <1>5, <1>6, <1>12 DEF m, x

-----------------------------------------------------------------------------
(* printnum prints numerals.                                               *)

LEMMA RepeatIs ==
  ASSUME NEW S, NEW p \in S, NEW n \in Int
  PROVE  /\ Repeat(p, n) \in Seq(S)
         /\ Len(Repeat(p, n)) = (IF n >= 0 THEN n ELSE 0)
         /\ \A j \in 1 .. Len(Repeat(p, n)) : Repeat(p, n)[j] = p
         /\ n <= 0 => Repeat(p, n) = <<>>
<1> DEFINE l == IF n >= 0 THEN n ELSE 0
           q == [k \in 1 .. l |-> p]
<1>1. Repeat(p, n) = q
  <2>1. Max({n, 0}) = l  BY MaxOf
  <2> HIDE DEF l
  <2> QED  BY <2>1 DEF Repeat
<1>2. l \in Nat  OBVIOUS
<1>3. q \in Seq(S) /\ Len(q) = l /\ \A j \in 1 .. l : q[j] = p
  <2> HIDE DEF l
  <2> QED  BY <1>2
<1>4. n <= 0 => q = <<>>
  <2>1. \A t \in Seq(S) : Len(t) = 0 => t = <<>>  OBVIOUS
  <2> HIDE DEF q
  <2> QED  BY <1>3, <2>1
<1> HIDE DEF q
<1> QED  BY <1>1, <1>3, <1>4

\* The number n to the base b with p in front of it, in a field of width w.
Padded(n, b, w, p) == Repeat(p, w - Len(Numeral(n, b))) \o Numeral(n, b)

\* What printnum puts behind each other is such a numeral, with its padding.
LEMMA NumeralType ==
  ASSUME NEW b \in 2 .. 16, NEW n \in Nat
  PROVE  Numeral(n, b) \in Seq(Glyph) /\ Len(Numeral(n, b)) \in Nat
<1>1. PICK k \in 1 .. n + 1 : HasLength(n, b, k)
  <2>1. b \in Nat /\ b > 1  OBVIOUS
  <2> QED  BY <2>1, LongExists
<1>2. Numeral(n, b) \in Seq(Glyph) /\ Len(Numeral(n, b)) = k  BY <1>1, NumeralIs
<1> QED  BY <1>2

LEMMA PaddedShort ==
  ASSUME NEW b \in 2 .. 16, NEW n \in Nat, NEW w \in Int, NEW p, n < b
  PROVE  Padded(n, b, w, p) = Append(Repeat(p, w - 1), Digits[(n % b) + 1])
<1> DEFINE x == Digits[(n % b) + 1]
           S == Glyph \cup {p}
<1>1. Numeral(n, b) = <<x>>  BY NumeralShort
<1>2. Len(<<x>>) = 1  OBVIOUS
<1>3. x \in S
  <2>1. (n % b) + 1 \in 1 .. 16  OBVIOUS
  <2> QED  BY <2>1 DEF Glyph
<1> HIDE DEF x
<1>4. Padded(n, b, w, p) = Repeat(p, w - 1) \o <<x>>  BY <1>1, <1>2 DEF Padded
<1>5. Repeat(p, w - 1) \in Seq(S)
  <2>1. p \in S /\ w - 1 \in Int  OBVIOUS
  <2> HIDE DEF S
  <2> QED  BY <2>1, RepeatIs
<1> HIDE DEF S
<1>6. Append(Repeat(p, w - 1), x) = Repeat(p, w - 1) \o <<x>>  BY <1>3, <1>5, AppendIsConcat
<1> QED  BY <1>4, <1>6 DEF x

LEMMA PaddedLonger ==
  ASSUME NEW b \in 2 .. 16, NEW n \in Nat, NEW w \in Int, NEW p, n >= b
  PROVE  Padded(n, b, w, p) = Append(Padded(n \div b, b, w - 1, p), Digits[(n % b) + 1])
<1> DEFINE x == Digits[(n % b) + 1]
           S == Glyph \cup {p}
           N == Numeral(n \div b, b)
           R == Repeat(p, (w - 1) - Len(N))
<1>1. n \div b \in Nat  OBVIOUS
<1>2. Numeral(n, b) = Append(N, x) /\ Len(Numeral(n, b)) = Len(N) + 1  BY NumeralLonger
<1>3. N \in Seq(Glyph) /\ Len(N) \in Nat  BY <1>1, NumeralType
<1>4. x \in S
  <2>1. (n % b) + 1 \in 1 .. 16  OBVIOUS
  <2> QED  BY <2>1 DEF Glyph
<1>5. N \in Seq(S)  BY <1>3
<1>6. R \in Seq(S)
  <2>1. p \in S /\ (w - 1) - Len(N) \in Int  BY <1>3
  <2> HIDE DEF S, N
  <2> QED  BY <2>1, RepeatIs
<1>7. w - Len(Numeral(n, b)) = (w - 1) - Len(N)  BY <1>2, <1>3
<1>8. Padded(n, b, w, p) = R \o Append(N, x)  BY Zenon, <1>2, <1>7 DEF Padded
<1>9. Padded(n \div b, b, w - 1, p) = R \o N  BY Zenon DEF Padded
<1> HIDE DEF x, S, N, R
<1>10. Append(N, x) = N \o <<x>>  BY <1>4, <1>5, AppendIsConcat
<1>11. R \o N \in Seq(S) /\ <<x>> \in Seq(S)  BY <1>4, <1>5, <1>6
<1>12. Append(R \o N, x) = (R \o N) \o <<x>>  BY <1>4, <1>11, AppendIsConcat
<1>13. (R \o N) \o <<x>> = R \o (N \o <<x>>)  BY <1>5, <1>6, <1>11, ConcatAssociative
<1> QED  BY <1>8, <1>9, <1>10, <1>12, <1>13 DEF x

\* printnum prints the number, to its base, in a field of its width.
LEMMA PrintnumIs ==
  ASSUME NEW b \in 2 .. 16, NEW n \in Nat, NEW w \in Int, NEW p
  PROVE  printnum(n, b, w, p) = Padded(n, b, w, p)
<1> DEFINE IsPn(f) == f = [a \in Nat \X Int |->
                             Append(IF a[1] >= b THEN f[<<a[1] \div b, a[2] - 1>>]
                                    ELSE Repeat(p, a[2] - 1), Digits[(a[1] % b) + 1])]
           g == [a \in Nat \X Int |-> Padded(a[1], b, a[2], p)]
           pn1 == CHOOSE f : IsPn(f)
<1>1. \A l \in Nat, v \in Int : g[<<l, v>>] = Padded(l, b, v, p)  OBVIOUS
<1>2. ASSUME NEW a \in Nat \X Int
      PROVE  g[a] = Append(IF a[1] >= b THEN g[<<a[1] \div b, a[2] - 1>>]
                           ELSE Repeat(p, a[2] - 1), Digits[(a[1] % b) + 1])
  <2>1. PICK l \in Nat, v \in Int : a = <<l, v>>  OBVIOUS
  <2>2. a[1] = l /\ a[2] = v /\ g[a] = Padded(l, b, v, p)  BY <1>1, <2>1
  <2> HIDE DEF g
  <2>3. CASE l >= b
    <3>1. l \div b \in Nat /\ v - 1 \in Int  OBVIOUS
    <3>2. g[<<l \div b, v - 1>>] = Padded(l \div b, b, v - 1, p)  BY <1>1, <3>1
    <3>3. Padded(l, b, v, p) = Append(Padded(l \div b, b, v - 1, p), Digits[(l % b) + 1])
      BY <2>3, PaddedLonger
    <3> QED  BY <2>2, <2>3, <3>2, <3>3
  <2>4. CASE l < b
    <3>1. Padded(l, b, v, p) = Append(Repeat(p, v - 1), Digits[(l % b) + 1])
      BY <2>4, PaddedShort
    <3>2. ~(l >= b)  BY <2>4
    <3> QED  BY <2>2, <3>1, <3>2
  <2>5. l >= b \/ l < b  OBVIOUS
  <2> QED  BY <2>3, <2>4, <2>5
<1>3. g = [a \in Nat \X Int |-> g[a]]  OBVIOUS
<1> HIDE DEF g
<1>4. IsPn(g)  BY <1>2, <1>3
<1>5. IsPn(pn1)
  <2> HIDE DEF IsPn
  <2> QED  BY <1>4
<1>6. printnum(n, b, w, p) = pn1[<<n, w>>]  BY Zenon DEF printnum
<1> HIDE DEF pn1
<1>7. ASSUME NEW l \in Nat, NEW v \in Int
      PROVE  pn1[<<l, v>>] = Append(IF l >= b THEN pn1[<<l \div b, v - 1>>]
                                    ELSE Repeat(p, v - 1), Digits[(l % b) + 1])
  <2>1. <<l, v>> \in Nat \X Int /\ <<l, v>>[1] = l /\ <<l, v>>[2] = v  OBVIOUS
  <2> QED  BY <1>5, <2>1
<1> DEFINE T == {l \in Nat : \A v \in Int : pn1[<<l, v>>] = Padded(l, b, v, p)}
<1>8. ASSUME NEW l \in Nat, \A j \in 0 .. l - 1 : j \in T  PROVE l \in T
  <2> SUFFICES ASSUME NEW v \in Int  PROVE pn1[<<l, v>>] = Padded(l, b, v, p)
    OBVIOUS
  <2>1. CASE l >= b
    <3>1. l \div b \in 0 .. l - 1 /\ v - 1 \in Int  BY <2>1
    <3>2. pn1[<<l \div b, v - 1>>] = Padded(l \div b, b, v - 1, p)  BY <1>8, <3>1
    <3>3. Padded(l, b, v, p) = Append(Padded(l \div b, b, v - 1, p), Digits[(l % b) + 1])
      BY <2>1, PaddedLonger
    <3> QED  BY <1>7, <2>1, <3>2, <3>3
  <2>2. CASE l < b
    <3>1. Padded(l, b, v, p) = Append(Repeat(p, v - 1), Digits[(l % b) + 1])
      BY <2>2, PaddedShort
    <3>2. ~(l >= b)  BY <2>2
    <3> QED  BY <1>7, <3>1, <3>2
  <2>3. l >= b \/ l < b  OBVIOUS
  <2> QED  BY <2>1, <2>2, <2>3
<1>9. Nat \subseteq T
  <2> HIDE DEF T
  <2> QED  BY <1>8, FromSmaller
<1> QED  BY <1>6, <1>9

-----------------------------------------------------------------------------
(* The format that a directive renders, and where its parts begin.         *)

AltAt(d)   == IF d.pad = " " THEN 2 ELSE 3
WidthAt(d) == IF d.alt THEN AltAt(d) + 1 ELSE AltAt(d)
NoWidth(d) == d.width # NULL /\ d.width = 0
PrecAt(d)  == IF NoWidth(d) THEN WidthAt(d) ELSE WidthAt(d) + 1
LongAt(d)  == IF d.prec = 0 THEN PrecAt(d) ELSE PrecAt(d) + 2
ConvAt(d)  == LongAt(d) + d.ls

LEMMA DirectiveIs ==
  ASSUME NEW d \in Directives
  PROVE  /\ d.conv \in Conversions /\ d.alt \in BOOLEAN
         /\ d.ls \in Nat /\ d.prec \in 0 .. 9 /\ d.width \in 0 .. 9 \cup {NULL}
BY Zenon, PrintfAssumption DEF Directive

LEMMA PadIs ==
  ASSUME NEW d \in Directives
  PROVE  /\ AltAt(d) = 2 => d.pad = " "
         /\ AltAt(d) = 3 => d.pad \in {"-", "0"}
<1>1. d.pad \in {" ", "-", "0"}  BY Zenon, PrintfAssumption DEF Directive
<1>2. 2 # 3  OBVIOUS
<1> QED  BY Zenon, <1>1, <1>2 DEF AltAt

\* The places lie in this order.
LEMMA Places ==
  ASSUME NEW d \in Directives
  PROVE  /\ AltAt(d) \in {2, 3} /\ WidthAt(d) \in AltAt(d) .. AltAt(d) + 1
         /\ PrecAt(d) \in WidthAt(d) .. WidthAt(d) + 1
         /\ LongAt(d) \in {PrecAt(d), PrecAt(d) + 2}
         /\ ConvAt(d) \in Nat /\ ConvAt(d) >= LongAt(d)
         /\ LongAt(d) \in Nat /\ PrecAt(d) \in Nat /\ WidthAt(d) \in Nat
<1>1. AltAt(d) \in {2, 3}  BY Zenon DEF AltAt
<1>2. WidthAt(d) \in {AltAt(d), AltAt(d) + 1}  BY DEF WidthAt
<1>3. PrecAt(d) \in {WidthAt(d), WidthAt(d) + 1}  BY DEF PrecAt
<1>4. LongAt(d) \in {PrecAt(d), PrecAt(d) + 2}  BY DEF LongAt
<1>5. ConvAt(d) = LongAt(d) + d.ls /\ d.ls \in Nat  BY DirectiveIs DEF ConvAt
<1> QED  BY <1>1, <1>2, <1>3, <1>4, <1>5

\* t is q with one part more, r.
Longer(t, S, q, r) ==
  /\ t \in Seq(S) /\ Len(t) = Len(q) + Len(r)
  /\ \A k \in 1 .. Len(q) : t[k] = q[k]
  /\ \A k \in 1 .. Len(r) : t[Len(q) + k] = r[k]

LEMMA Joined ==
  ASSUME NEW S, NEW q \in Seq(S), NEW r \in Seq(S)
  PROVE  Longer(q \o r, S, q, r)
BY DEF Longer

\* Which characters Render puts where.
LEMMA RenderIs ==
  ASSUME NEW d \in Directives
  PROVE  /\ Len(Render(d)) = ConvAt(d) /\ \E S : Render(d) \in Seq(S)
         /\ Render(d)[1] = "%"
         /\ AltAt(d) = 3 => Render(d)[2] = d.pad
         /\ d.alt => Render(d)[AltAt(d)] = "#"
         /\ ~NoWidth(d) =>
              Render(d)[WidthAt(d)] = IF d.width = NULL THEN "*" ELSE Digits[d.width + 1]
         /\ d.prec # 0 => /\ Render(d)[PrecAt(d)] = "."
                          /\ Render(d)[PrecAt(d) + 1] = Digits[d.prec + 1]
         /\ \A k \in LongAt(d) .. ConvAt(d) - 1 : Render(d)[k] = "l"
         /\ Render(d)[ConvAt(d)] = d.conv
<1> DEFINE flag   == IF d.pad = " " THEN <<>> ELSE <<d.pad>>
           alt    == IF d.alt THEN <<"#">> ELSE <<>>
           field  == IF d.width = NULL THEN <<"*">>
                     ELSE IF d.width = 0 THEN <<>> ELSE <<Digits[d.width + 1]>>
           prec   == IF d.prec = 0 THEN <<>> ELSE <<".", Digits[d.prec + 1]>>
           long   == Repeat("l", d.ls)
           S      == {"%", "#", "*", ".", "l", d.pad, d.conv,
                      Digits[d.width + 1], Digits[d.prec + 1]}
           q1     == <<"%">>
           q2     == q1 \o flag
           q3     == q2 \o alt
           q4     == q3 \o field
           q5     == q4 \o prec
           q6     == q5 \o long
           q7     == q6 \o <<d.conv>>
<1>1. Render(d) = q7  BY Zenon DEF Render
<1>2. {"%", "#", "*", ".", "l", d.pad, d.conv, Digits[d.width + 1], Digits[d.prec + 1]} \subseteq S
  OBVIOUS
<1> HIDE DEF S
<1>0. /\ AltAt(d) \in Nat /\ WidthAt(d) \in Nat /\ PrecAt(d) \in Nat /\ LongAt(d) \in Nat
      /\ ConvAt(d) \in Nat /\ 2 <= AltAt(d) /\ AltAt(d) <= WidthAt(d) /\ WidthAt(d) <= PrecAt(d)
      /\ PrecAt(d) <= LongAt(d) /\ LongAt(d) <= ConvAt(d)
  BY Places
<1>3. /\ q1 \in Seq(S) /\ Len(q1) = 1 /\ q1[1] = "%"
      /\ <<d.conv>> \in Seq(S) /\ Len(<<d.conv>>) = 1 /\ <<d.conv>>[1] = d.conv
  BY <1>2
<1>4. flag \in Seq(S) /\ Len(flag) = AltAt(d) - 2 /\ (AltAt(d) = 3 => flag[1] = d.pad)
  <2>1. CASE d.pad = " "
    <3>1. flag = <<>> /\ AltAt(d) = 2  BY Zenon, <2>1 DEF AltAt
    <3> HIDE DEF flag
    <3>2. <<>> \in Seq(S) /\ Len(<<>>) = 0  OBVIOUS
    <3> QED  BY <3>1, <3>2
  <2>2. CASE d.pad # " "
    <3>1. flag = <<d.pad>> /\ AltAt(d) = 3  BY Zenon, <2>2 DEF AltAt
    <3> HIDE DEF flag
    <3>2. <<d.pad>> \in Seq(S) /\ Len(<<d.pad>>) = 3 - 2 /\ <<d.pad>>[1] = d.pad  BY <1>2
    <3> QED  BY <3>1, <3>2
  <2> QED  BY Zenon, <2>1, <2>2
<1>5. alt \in Seq(S) /\ Len(alt) = WidthAt(d) - AltAt(d) /\ (d.alt => alt[1] = "#")
  BY <1>2, Places DEF WidthAt
<1>6. /\ field \in Seq(S) /\ Len(field) = PrecAt(d) - WidthAt(d)
      /\ ~NoWidth(d) => field[1] = IF d.width = NULL THEN "*" ELSE Digits[d.width + 1]
  BY <1>2, Places DEF PrecAt, NoWidth
<1>7. /\ prec \in Seq(S) /\ Len(prec) = LongAt(d) - PrecAt(d)
      /\ d.prec # 0 => prec[1] = "." /\ prec[2] = Digits[d.prec + 1]
  BY <1>2, Places DEF LongAt
<1>8. long \in Seq(S) /\ Len(long) = d.ls /\ \A k \in 1 .. d.ls : long[k] = "l"
  <2>1. d.ls \in Int /\ d.ls >= 0 /\ "l" \in S  BY <1>2, DirectiveIs
  <2> QED  BY <2>1, RepeatIs
<1>9. ConvAt(d) - LongAt(d) = d.ls /\ d.ls \in Nat  BY Places, DirectiveIs DEF ConvAt
<1> HIDE DEF flag, alt, field, prec, long, q1
<1>10. /\ q2 \in Seq(S) /\ Len(q2) = AltAt(d) - 1 /\ q2[1] = "%"
       /\ AltAt(d) = 3 => q2[2] = d.pad
  <2>0. q1 \in Seq(S) /\ flag \in Seq(S)  BY <1>3, <1>4
  <2>1. Longer(q2, S, q1, flag)  BY <2>0, Joined
  <2> HIDE DEF q2
  <2> QED  BY <1>3, <1>4, <2>1, Places DEF Longer
<1> HIDE DEF q2
<1>11. /\ q3 \in Seq(S) /\ Len(q3) = WidthAt(d) - 1
       /\ \A k \in 1 .. AltAt(d) - 1 : q3[k] = q2[k]
       /\ d.alt => q3[AltAt(d)] = "#"
  <2>0. q2 \in Seq(S) /\ alt \in Seq(S)  BY <1>5, <1>10
  <2>1. Longer(q3, S, q2, alt)  BY <2>0, Joined
  <2> HIDE DEF q3
  <2>2. d.alt => Len(alt) = 1  BY <1>5, Places DEF WidthAt
  <2>3. Len(q3) = WidthAt(d) - 1  BY <1>0, <1>5, <1>10, <2>1 DEF Longer
  <2>4. \A k \in 1 .. AltAt(d) - 1 : q3[k] = q2[k]  BY <1>0, <1>10, <2>1 DEF Longer
  <2>5. Len(q2) + 1 = AltAt(d)  BY <1>0, <1>10
  <2>6. d.alt => q3[AltAt(d)] = "#"  BY <1>5, <2>1, <2>2, <2>5 DEF Longer
  <2> QED  BY <2>1, <2>3, <2>4, <2>6 DEF Longer
<1> HIDE DEF q3
<1>12. /\ q4 \in Seq(S) /\ Len(q4) = PrecAt(d) - 1
       /\ \A k \in 1 .. WidthAt(d) - 1 : q4[k] = q3[k]
       /\ ~NoWidth(d) => q4[WidthAt(d)] = IF d.width = NULL THEN "*" ELSE Digits[d.width + 1]
  <2>0. q3 \in Seq(S) /\ field \in Seq(S)  BY <1>6, <1>11
  <2>1. Longer(q4, S, q3, field)  BY <2>0, Joined
  <2> HIDE DEF q4
  <2>2. ~NoWidth(d) => Len(field) = 1  BY <1>6, Places DEF PrecAt
  <2>3. Len(q4) = PrecAt(d) - 1  BY <1>0, <1>6, <1>11, <2>1 DEF Longer
  <2>4. \A k \in 1 .. WidthAt(d) - 1 : q4[k] = q3[k]  BY <1>0, <1>11, <2>1 DEF Longer
  <2>5. Len(q3) + 1 = WidthAt(d)  BY <1>0, <1>11
  <2>6. ASSUME ~NoWidth(d)  PROVE q4[WidthAt(d)] = field[1]
    <3>1. 1 \in 1 .. Len(field)  BY <2>2, <2>6
    <3>2. q4[Len(q3) + 1] = field[1]  BY <2>1, <3>1 DEF Longer
    <3> QED  BY <2>5, <3>2
  <2> QED  BY <1>6, <2>1, <2>3, <2>4, <2>6 DEF Longer
<1> HIDE DEF q4
<1>13. /\ q5 \in Seq(S) /\ Len(q5) = LongAt(d) - 1
       /\ \A k \in 1 .. PrecAt(d) - 1 : q5[k] = q4[k]
       /\ d.prec # 0 => q5[PrecAt(d)] = "." /\ q5[PrecAt(d) + 1] = Digits[d.prec + 1]
  <2>0. q4 \in Seq(S) /\ prec \in Seq(S)  BY <1>7, <1>12
  <2>1. Longer(q5, S, q4, prec)  BY <2>0, Joined
  <2> HIDE DEF q5
  <2>2. d.prec # 0 => Len(prec) = 2  BY <1>7, Places DEF LongAt
  <2>3. Len(q4) + 1 = PrecAt(d) /\ Len(q4) + 2 = PrecAt(d) + 1  BY <1>12, Places
  <2>4. Len(q5) = LongAt(d) - 1  BY <1>0, <1>7, <1>12, <2>1 DEF Longer
  <2>5. \A k \in 1 .. PrecAt(d) - 1 : q5[k] = q4[k]  BY <1>0, <1>12, <2>1 DEF Longer
  <2>6. ASSUME d.prec # 0  PROVE q5[PrecAt(d)] = prec[1] /\ q5[PrecAt(d) + 1] = prec[2]
    <3>1. 1 \in 1 .. Len(prec) /\ 2 \in 1 .. Len(prec)  BY <2>2, <2>6
    <3>2. q5[Len(q4) + 1] = prec[1] /\ q5[Len(q4) + 2] = prec[2]  BY <2>1, <3>1 DEF Longer
    <3> QED  BY <2>3, <3>2
  <2> QED  BY <1>7, <2>1, <2>4, <2>5, <2>6 DEF Longer
<1> HIDE DEF q5
<1>14. /\ q6 \in Seq(S) /\ Len(q6) = ConvAt(d) - 1
       /\ \A k \in 1 .. LongAt(d) - 1 : q6[k] = q5[k]
       /\ \A k \in LongAt(d) .. ConvAt(d) - 1 : q6[k] = "l"
  <2>0. q5 \in Seq(S) /\ long \in Seq(S)  BY <1>8, <1>13
  <2>1. Longer(q6, S, q5, long)  BY <2>0, Joined
  <2> HIDE DEF q6
  <2>2. ASSUME NEW k \in LongAt(d) .. ConvAt(d) - 1  PROVE q6[k] = "l"
    <3> DEFINE j == k - (LongAt(d) - 1)
    <3>1. j \in 1 .. d.ls /\ (LongAt(d) - 1) + j = k  BY <1>0, <1>9
    <3> HIDE DEF j
    <3>2. q6[(LongAt(d) - 1) + j] = long[j]  BY <1>8, <1>13, <2>1, <3>1 DEF Longer
    <3> QED  BY <1>8, <3>1, <3>2
  <2> QED  BY <1>8, <1>9, <1>13, <2>1, <2>2, Places DEF Longer
<1> HIDE DEF q6
<1>15. /\ q7 \in Seq(S) /\ Len(q7) = ConvAt(d)
       /\ \A k \in 1 .. ConvAt(d) - 1 : q7[k] = q6[k]
       /\ q7[ConvAt(d)] = d.conv
  <2> DEFINE last == <<d.conv>>
  <2>1. last \in Seq(S) /\ Len(last) = 1 /\ last[1] = d.conv  BY <1>3
  <2> HIDE DEF last
  <2>5. q6 \in Seq(S)  BY <1>14
  <2>2. Longer(q6 \o last, S, q6, last)  BY <2>1, <2>5, Joined
  <2>3. q7 = q6 \o last  BY DEF last
  <2> HIDE DEF q7
  <2>4. Len(q6) + 1 = ConvAt(d)  BY <1>14, Places
  <2> QED  BY <1>14, <2>1, <2>2, <2>3, <2>4, Places DEF Longer
<1> HIDE DEF q7
<1>16. \A k \in 1 .. LongAt(d) - 1 : q7[k] = q5[k]  BY <1>0, <1>14, <1>15
<1>17. \A k \in 1 .. PrecAt(d) - 1 : q7[k] = q4[k]  BY <1>0, <1>13, <1>16
<1>18. \A k \in 1 .. WidthAt(d) - 1 : q7[k] = q3[k]  BY <1>0, <1>12, <1>17
<1>19. \A k \in 1 .. AltAt(d) - 1 : q7[k] = q2[k]  BY <1>0, <1>11, <1>18
<1>20. q7[1] = "%" /\ (AltAt(d) = 3 => q7[2] = d.pad)  BY <1>10, <1>19, Places
<1>21. d.alt => q7[AltAt(d)] = "#"
  <2>1. d.alt => AltAt(d) \in 1 .. WidthAt(d) - 1  BY Places DEF WidthAt
  <2> QED  BY <1>11, <1>18, <2>1
<1>22. ~NoWidth(d) => q7[WidthAt(d)] = IF d.width = NULL THEN "*" ELSE Digits[d.width + 1]
  <2>1. ~NoWidth(d) => WidthAt(d) \in 1 .. PrecAt(d) - 1  BY Places DEF PrecAt
  <2> QED  BY <1>12, <1>17, <2>1
<1>23. d.prec # 0 => q7[PrecAt(d)] = "." /\ q7[PrecAt(d) + 1] = Digits[d.prec + 1]
  <2>1. d.prec # 0 => PrecAt(d) \in 1 .. LongAt(d) - 1 /\ PrecAt(d) + 1 \in 1 .. LongAt(d) - 1
    BY Places DEF LongAt
  <2> QED  BY <1>13, <1>16, <2>1
<1>24. \A k \in LongAt(d) .. ConvAt(d) - 1 : q7[k] = "l"
  <2>1. \A k \in LongAt(d) .. ConvAt(d) - 1 : k \in 1 .. ConvAt(d) - 1  BY Places
  <2> QED  BY <1>14, <1>15, <2>1
<1> QED  BY <1>1, <1>15, <1>20, <1>21, <1>22, <1>23, <1>24

-----------------------------------------------------------------------------
(* A directive that is read: what is known of its flags at each place.     *)

\* What lies at position k of the format that d renders: x, and where k is.
PadPlace(d, k, x)   == k = 2 /\ AltAt(d) = 3 /\ x = d.pad /\ x \in {"-", "0"}
AltPlace(d, k, x)   == k = AltAt(d) /\ d.alt /\ WidthAt(d) = k + 1 /\ x = "#"
StarPlace(d, k, x)  == k = WidthAt(d) /\ PrecAt(d) = k + 1 /\ d.width = NULL /\ x = "*"
WidthPlace(d, k, x) == /\ k = WidthAt(d) /\ PrecAt(d) = k + 1
                       /\ d.width # NULL /\ d.width \in 1 .. 9 /\ x = Digits[d.width + 1]
DotPlace(d, k, x)   == k = PrecAt(d) /\ d.prec # 0 /\ LongAt(d) = k + 2 /\ x = "."
PrecPlace(d, k, x)  == /\ k = PrecAt(d) + 1 /\ LongAt(d) = k + 1
                       /\ d.prec \in 1 .. 9 /\ x = Digits[d.prec + 1]
LongPlace(d, k, x)  == k \in LongAt(d) .. ConvAt(d) - 1 /\ x = "l"
ConvPlace(d, k, x)  == k = ConvAt(d) /\ x = d.conv

\* Each position of a format holds what one of these says.
LEMMA PlaceIs ==
  ASSUME NEW d \in Directives, NEW k \in 2 .. ConvAt(d)
  PROVE  LET x == Render(d)[k]
         IN  \/ PadPlace(d, k, x) \/ AltPlace(d, k, x) \/ StarPlace(d, k, x) \/ WidthPlace(d, k, x)
             \/ DotPlace(d, k, x) \/ PrecPlace(d, k, x) \/ LongPlace(d, k, x) \/ ConvPlace(d, k, x)
<1> DEFINE x == Render(d)[k]
<1>1. /\ AltAt(d) \in {2, 3} /\ WidthAt(d) \in {AltAt(d), AltAt(d) + 1}
      /\ PrecAt(d) \in {WidthAt(d), WidthAt(d) + 1} /\ LongAt(d) \in {PrecAt(d), PrecAt(d) + 2}
      /\ ConvAt(d) \in Nat /\ ConvAt(d) >= LongAt(d)
  BY Places
<1>2. CASE k < AltAt(d)
  <2>1. k = 2 /\ AltAt(d) = 3  BY <1>1, <1>2
  <2> QED  BY <2>1, PadIs, RenderIs DEF PadPlace
<1>3. CASE k >= AltAt(d) /\ k < WidthAt(d)
  <2>1. k = AltAt(d) /\ WidthAt(d) = k + 1  BY <1>1, <1>3
  <2>2. d.alt  BY <1>1, <2>1 DEF WidthAt
  <2> QED  BY <2>1, <2>2, RenderIs DEF AltPlace
<1>4. CASE k >= WidthAt(d) /\ k < PrecAt(d)
  <2>1. k = WidthAt(d) /\ PrecAt(d) = k + 1  BY <1>1, <1>4
  <2>2. ~NoWidth(d)  BY <1>1, <2>1 DEF PrecAt
  <2>3. x = IF d.width = NULL THEN "*" ELSE Digits[d.width + 1]  BY <2>1, <2>2, RenderIs
  <2>4. d.width # NULL => d.width \in 1 .. 9  BY <2>2, DirectiveIs DEF NoWidth
  <2> QED  BY <2>1, <2>3, <2>4 DEF StarPlace, WidthPlace
<1>5. CASE k >= PrecAt(d) /\ k < LongAt(d)
  <2>1. k \in {PrecAt(d), PrecAt(d) + 1} /\ LongAt(d) = PrecAt(d) + 2  BY <1>1, <1>5
  <2>2. d.prec # 0  BY <1>1, <2>1 DEF LongAt
  <2>3. d.prec \in 1 .. 9  BY <2>2, DirectiveIs
  <2>4. Render(d)[PrecAt(d)] = "." /\ Render(d)[PrecAt(d) + 1] = Digits[d.prec + 1]
    BY <2>2, RenderIs
  <2>5. CASE k = PrecAt(d)
    <3>1. LongAt(d) = k + 2 /\ x = "."  BY <2>1, <2>4, <2>5
    <3> QED  BY <2>2, <2>5, <3>1 DEF DotPlace
  <2>6. CASE k = PrecAt(d) + 1
    <3>1. LongAt(d) = k + 1 /\ x = Digits[d.prec + 1]  BY <1>1, <2>1, <2>4, <2>6
    <3> QED  BY <2>3, <2>6, <3>1 DEF PrecPlace
  <2> QED  BY <2>1, <2>5, <2>6
<1>6. CASE k >= LongAt(d) /\ k < ConvAt(d)
  <2>1. k \in LongAt(d) .. ConvAt(d) - 1  BY <1>1, <1>6
  <2> QED  BY <2>1, RenderIs DEF LongPlace
<1>7. CASE k = ConvAt(d)  BY <1>7, RenderIs DEF ConvPlace
<1> QED  BY <1>1, <1>2, <1>3, <1>4, <1>5, <1>6, <1>7

LEMMA DecimalDigits ==
  ASSUME NEW k \in 1 .. 9
  PROVE  /\ Digits[k + 1] \in {"1", "2", "3", "4", "5", "6", "7", "8", "9"}
         /\ Digits[k + 1] \in Decimal \ {"0"}
         /\ ValueOf(Digits[k + 1]) = k
<1>1. \A l, m \in 1 .. 10 : Digits[l] = Digits[m] => l = m  BY DEF Digits
<1>2. k + 1 \in 1 .. 10  OBVIOUS
<1>3. (CHOOSE l \in 1 .. 10 : Digits[l] = Digits[k + 1]) = k + 1
  <2> DEFINE P(l) == Digits[l] = Digits[k + 1]
  <2>1. P(k + 1) /\ \A l \in 1 .. 10 : P(l) => l = k + 1  BY <1>1, <1>2
  <2> HIDE DEF P
  <2>2. (CHOOSE l \in 1 .. 10 : P(l)) = k + 1  BY <1>2, <2>1
  <2> QED  BY <2>2 DEF P
<1>4. ValueOf(Digits[k + 1]) = k
  <2>1. ValueOf(Digits[k + 1]) = (CHOOSE l \in 1 .. 10 : Digits[l] = Digits[k + 1]) - 1
    BY Zenon DEF ValueOf
  <2>2. ValueOf(Digits[k + 1]) = (k + 1) - 1  BY Zenon, <1>3, <2>1
  <2> QED  BY <2>2
<1>5. Digits[k + 1] \in {"1", "2", "3", "4", "5", "6", "7", "8", "9"}  BY DEF Digits
<1>6. Digits[k + 1] \in Decimal  BY <1>2 DEF Decimal
<1> QED  BY <1>4, <1>5, <1>6

\* A digit is followed by none.
LEMMA OneDigit ==
  ASSUME NEW d \in Directives, NEW k \in 2 .. ConvAt(d),
         WidthPlace(d, k, Render(d)[k]) \/ PrecPlace(d, k, Render(d)[k])
  PROVE  k + 1 \in 2 .. ConvAt(d) /\ Render(d)[k + 1] \notin Decimal
<1>1. /\ WidthAt(d) \in Nat /\ PrecAt(d) \in Nat /\ LongAt(d) \in Nat /\ ConvAt(d) \in Nat
      /\ AltAt(d) \in {2, 3} /\ AltAt(d) <= WidthAt(d) /\ WidthAt(d) <= PrecAt(d)
      /\ PrecAt(d) <= LongAt(d) /\ LongAt(d) <= ConvAt(d)
  BY Places
<1> DEFINE x == Render(d)[k + 1]
<1>2. k + 1 \in 2 .. ConvAt(d) /\ (k + 1 = PrecAt(d) \/ k + 1 = LongAt(d))
  BY <1>1 DEF WidthPlace, PrecPlace
<1>3. DotPlace(d, k + 1, x) \/ LongPlace(d, k + 1, x) \/ ConvPlace(d, k + 1, x)
  <2>1. \/ PadPlace(d, k + 1, x) \/ AltPlace(d, k + 1, x) \/ StarPlace(d, k + 1, x)
        \/ WidthPlace(d, k + 1, x) \/ DotPlace(d, k + 1, x) \/ PrecPlace(d, k + 1, x)
        \/ LongPlace(d, k + 1, x) \/ ConvPlace(d, k + 1, x)
    BY <1>2, PlaceIs
  <2>2. ~PadPlace(d, k + 1, x) /\ ~AltPlace(d, k + 1, x) /\ ~StarPlace(d, k + 1, x)
        /\ ~WidthPlace(d, k + 1, x)
    BY <1>1, <1>2 DEF PadPlace, AltPlace, StarPlace, WidthPlace
  <2>3. ~PrecPlace(d, k + 1, x)
    BY <1>1, <1>2 DEF WidthPlace, PrecPlace
  <2> QED  BY <2>1, <2>2, <2>3
<1>4. x \in {".", "l"} \cup Conversions
  BY <1>3, DirectiveIs DEF DotPlace, LongPlace, ConvPlace
<1>5. Decimal = {"0", "1", "2", "3", "4", "5", "6", "7", "8", "9"}  BY DEF Decimal, Digits
<1>6. x \notin Decimal  BY <1>4, <1>5 DEF Conversions
<1> QED  BY <1>2, <1>6

\* Of two widths that are not positive each does as well as the other.
SameWidth(w, f) == w \in Int /\ f \in Int /\ (w = f \/ (w <= 0 /\ f <= 0))

\* The field width of d has been read into w; t are the arguments taken.
FieldRead(d, t, w) ==
  IF d.width = NULL THEN \E x \in Int : t = <<<<"int", x>>>> /\ SameWidth(w, x)
  ELSE t = <<>> /\ SameWidth(w, d.width)

\* The flags in front of position k: padding p, alternative form a, width w,
\* precision r; and the arguments taken, t.
FlagsAt(d, k, p, a, w, r, t) ==
  /\ k \in 2 .. ConvAt(d)
  /\ k >= AltAt(d) => p = d.pad
  /\ a = IF d.alt /\ k >= WidthAt(d) THEN 1 ELSE 0
  /\ k < PrecAt(d) => w = -1 /\ t = <<>>
  /\ k >= PrecAt(d) => FieldRead(d, t, w)
  /\ d.prec # 0 /\ k > PrecAt(d) => w >= 0
  /\ r = IF d.prec # 0 /\ k >= LongAt(d) THEN d.prec ELSE -1

\* The directive as far as it has been read; nothing has been printed yet.
ReadPart == out = <<>> /\ FlagsAt(directive, pos, padc, altflag, width, precision, taken)

Reading == directive \in Directives /\ fmt = Render(directive) /\ loop = "switch" /\ ReadPart

\* The format and its end.
LEMMA FmtIs ==
  ASSUME directive \in Directives, fmt = Render(directive)
  PROVE  /\ Len(fmt) = ConvAt(directive) /\ ConvAt(directive) \in Nat /\ ConvAt(directive) >= 2
         /\ \E S : fmt \in Seq(S)
         /\ \A k \in 1 .. ConvAt(directive) : At(k) = Render(directive)[k]
         /\ At(ConvAt(directive) + 1) = NUL
<1>1. Len(fmt) = ConvAt(directive) /\ \E S : fmt \in Seq(S)  BY RenderIs
<1>2. ConvAt(directive) \in Nat /\ ConvAt(directive) >= 2  BY Places
<1>3. \A k \in 1 .. ConvAt(directive) : At(k) = Render(directive)[k]  BY <1>1 DEF At
<1>4. At(ConvAt(directive) + 1) = NUL
  <2>1. ConvAt(directive) + 1 \notin 1 .. Len(fmt)  BY <1>1, <1>2
  <2> QED  BY <2>1 DEF At
<1> QED  BY <1>1, <1>2, <1>3, <1>4

\* The character that is read next.
LEMMA ChPlace ==
  ASSUME Reading
  PROVE  LET d == directive
         IN  \/ PadPlace(d, pos, ch) \/ AltPlace(d, pos, ch) \/ StarPlace(d, pos, ch)
             \/ WidthPlace(d, pos, ch) \/ DotPlace(d, pos, ch) \/ PrecPlace(d, pos, ch)
             \/ LongPlace(d, pos, ch) \/ ConvPlace(d, pos, ch)
<1>1. directive \in Directives /\ fmt = Render(directive) /\ pos \in 2 .. ConvAt(directive)
  BY DEF Reading, ReadPart, FlagsAt
<1>2. pos \in 1 .. ConvAt(directive)  BY <1>1
<1>3. ch = Render(directive)[pos]  BY <1>1, <1>2, FmtIs DEF ch
<1> QED  BY <1>1, <1>3, PlaceIs

\* Which characters that leaves to the steps.
LEMMA ChIn ==
  ASSUME Reading
  PROVE  /\ PadPlace(directive, pos, ch) <=> ch \in {"-", "0"}
         /\ AltPlace(directive, pos, ch) <=> ch = "#"
         /\ StarPlace(directive, pos, ch) <=> ch = "*"
         /\ WidthPlace(directive, pos, ch) \/ PrecPlace(directive, pos, ch)
              <=> ch \in {"1", "2", "3", "4", "5", "6", "7", "8", "9"}
         /\ DotPlace(directive, pos, ch) <=> ch = "."
         /\ LongPlace(directive, pos, ch) <=> ch = "l"
         /\ ConvPlace(directive, pos, ch) <=> ch \in Conversions
<1>1. directive \in Directives /\ directive.conv \in Conversions
  BY DirectiveIs DEF Reading
<1>2. WidthPlace(directive, pos, ch) \/ PrecPlace(directive, pos, ch)
        => ch \in {"1", "2", "3", "4", "5", "6", "7", "8", "9"}
  BY DecimalDigits DEF WidthPlace, PrecPlace
<1>3. /\ PadPlace(directive, pos, ch) => ch \in {"-", "0"}
      /\ AltPlace(directive, pos, ch) => ch = "#"
      /\ StarPlace(directive, pos, ch) => ch = "*"
      /\ DotPlace(directive, pos, ch) => ch = "."
      /\ LongPlace(directive, pos, ch) => ch = "l"
      /\ ConvPlace(directive, pos, ch) => ch \in Conversions
  BY <1>1 DEF PadPlace, AltPlace, StarPlace, DotPlace, LongPlace, ConvPlace
<1> QED  BY <1>2, <1>3, ChPlace DEF Conversions

LEMMA DecimalIs == Decimal = {"0", "1", "2", "3", "4", "5", "6", "7", "8", "9"}
BY DEF Decimal, Digits

\* The value of a single digit.
LEMMA OneDigitValue ==
  ASSUME NEW x, ValueOf(x) \in Int
  PROVE  DecimalValue(<<x>>) = ValueOf(x)
<1> DEFINE IsV(v) == v = [k \in 0 .. Len(<<x>>) |->
                            IF k = 0 THEN 0 ELSE v[k - 1] * 10 + ValueOf(<<x>>[k])]
           v1 == CHOOSE v : IsV(v)
           g == [k \in 0 .. 1 |-> IF k = 0 THEN 0 ELSE ValueOf(x)]
<1>1. Len(<<x>>) = 1 /\ <<x>>[1] = x  OBVIOUS
<1>2. IsV(g)
  <2>1. g[0] = 0 /\ g[1] = ValueOf(x) /\ g = [k \in 0 .. 1 |-> g[k]]  OBVIOUS
  <2> HIDE DEF g
  <2>2. \A k \in 0 .. 1 : g[k] = IF k = 0 THEN 0 ELSE g[k - 1] * 10 + ValueOf(<<x>>[k])
    <3>1. \A k \in 0 .. 1 : k = 0 \/ k = 1  OBVIOUS
    <3>2. g[1] = g[1 - 1] * 10 + ValueOf(<<x>>[1])  BY <1>1, <2>1
    <3> QED  BY <2>1, <3>1, <3>2
  <2> QED  BY <1>1, <2>1, <2>2
<1> HIDE DEF g
<1>3. IsV(v1)
  <2> HIDE DEF IsV
  <2> QED  BY <1>2
<1>4. DecimalValue(<<x>>) = v1[Len(<<x>>)]  BY Zenon DEF DecimalValue
<1> HIDE DEF v1
<1>5. v1[0] = 0 /\ v1[1] = v1[1 - 1] * 10 + ValueOf(<<x>>[1])  BY <1>1, <1>3
<1>6. v1[1] = ValueOf(x)  BY <1>1, <1>5
<1> QED  BY <1>1, <1>4, <1>6

\* The digit that is read is a number, and nothing but it.
LEMMA DigitReads ==
  ASSUME Reading, Digit
  PROVE  \E n \in 1 .. 9 :
           /\ ch = Digits[n + 1] /\ Number(n) /\ pos' = pos + 1
           /\ WidthPlace(directive, pos, ch) \/ PrecPlace(directive, pos, ch)
<1> DEFINE P(k) == At(k + 1) \notin Decimal /\ \A j \in pos .. k : At(j) \in Decimal
           last == CHOOSE k \in pos .. Len(fmt) : P(k)
<1>1. /\ ch \in Decimal \ {"0"} /\ Number(DecimalValue(SubSeq(fmt, pos, last)))
      /\ pos' = last + 1
  BY DEF Digit
<1>2. ch \in {"1", "2", "3", "4", "5", "6", "7", "8", "9"}  BY <1>1, DecimalIs
<1>3. WidthPlace(directive, pos, ch) \/ PrecPlace(directive, pos, ch)  BY <1>2, ChIn
<1>4. directive \in Directives /\ fmt = Render(directive) /\ pos \in 2 .. ConvAt(directive)
  BY DEF Reading, ReadPart, FlagsAt
<1>5. /\ Len(fmt) = ConvAt(directive) /\ ConvAt(directive) \in Nat /\ ch = Render(directive)[pos]
      /\ \A k \in 1 .. ConvAt(directive) : At(k) = Render(directive)[k]
      /\ \E S : fmt \in Seq(S)
  <2>1. pos \in 1 .. ConvAt(directive)  BY <1>4
  <2> QED  BY <1>4, <2>1, FmtIs DEF ch
<1>6. pos + 1 \in 2 .. ConvAt(directive) /\ Render(directive)[pos + 1] \notin Decimal
  BY <1>3, <1>4, <1>5, OneDigit
<1>7. At(pos) \in Decimal /\ At(pos + 1) \notin Decimal
  <2>1. pos \in 1 .. ConvAt(directive) /\ pos + 1 \in 1 .. ConvAt(directive)  BY <1>4, <1>6
  <2> QED  BY <1>1, <1>5, <1>6, <2>1
<1>8. last = pos
  <2>1. P(pos)
    <3>1. \A j \in pos .. pos : j = pos  BY <1>4
    <3> QED  BY <1>7, <3>1
  <2>2. \A k \in pos .. Len(fmt) : P(k) => k = pos
    <3> SUFFICES ASSUME NEW k \in pos .. Len(fmt), P(k), k # pos  PROVE FALSE
      OBVIOUS
    <3>1. pos + 1 \in pos .. k  BY <1>4, <1>5
    <3> QED  BY <1>7, <3>1
  <2>3. pos \in pos .. Len(fmt)  BY <1>4, <1>5
  <2> HIDE DEF P
  <2> QED  BY <2>1, <2>2, <2>3
<1> HIDE DEF last
<1>9. SubSeq(fmt, pos, pos) = <<ch>>
  <2>1. pos \in 1 .. Len(fmt)  BY <1>4, <1>5
  <2>2. ch = fmt[pos]  BY <2>1 DEF ch, At
  <2>3. PICK S : fmt \in Seq(S)  BY <1>5
  <2>4. SubSeq(fmt, pos, pos) = SubSeq(fmt, pos, pos - 1) \o <<fmt[pos]>>
    <3>1. pos \in pos .. Len(fmt)  BY <2>1
    <3> QED  BY <2>1, <2>3, <3>1, SubSeqRecursiveSecond
  <2>5. SubSeq(fmt, pos, pos - 1) = <<>>
    <3>1. pos \in Int /\ pos - 1 \in Int /\ pos - 1 < pos  BY <2>1
    <3> QED  BY <3>1, SubSeqEmpty
  <2>6. <<>> \o <<ch>> = <<ch>>  OBVIOUS
  <2> QED  BY <2>2, <2>4, <2>5, <2>6
<1>10. PICK n \in 1 .. 9 : ch = Digits[n + 1]
  BY <1>3 DEF WidthPlace, PrecPlace
<1>11. ValueOf(ch) = n  BY <1>10, DecimalDigits
<1>12. DecimalValue(<<ch>>) = n  BY <1>11, OneDigitValue
<1> QED  BY <1>1, <1>3, <1>8, <1>9, <1>10, <1>12

\* At the first character behind the '%' nothing has been read.
LEMMA NoFlagsYet ==
  ASSUME NEW d \in Directives
  PROVE  FlagsAt(d, 2, " ", 0, -1, -1, <<>>)
<1> DEFINE p == " "
<1>1. 2 >= AltAt(d) => p = d.pad
  <2>1. AltAt(d) \in {2, 3}  BY Places
  <2>2. 2 >= AltAt(d) => AltAt(d) = 2  BY <2>1
  <2> QED  BY Zenon, <2>2, PadIs
<1> HIDE DEF p
<1>2. FlagsAt(d, 2, p, 0, -1, -1, <<>>)
  <2>1. /\ AltAt(d) \in {2, 3} /\ WidthAt(d) \in Nat /\ PrecAt(d) \in Nat /\ LongAt(d) \in Nat
        /\ ConvAt(d) \in Nat /\ AltAt(d) <= WidthAt(d) /\ WidthAt(d) <= PrecAt(d)
        /\ PrecAt(d) <= LongAt(d) /\ LongAt(d) <= ConvAt(d)
    BY Places
  <2>2. ~(d.alt /\ 2 >= WidthAt(d))  BY <2>1 DEF WidthAt
  <2>3. 2 >= PrecAt(d) => FieldRead(d, <<>>, -1)
    <3> SUFFICES ASSUME 2 >= PrecAt(d)  PROVE FieldRead(d, <<>>, -1)
      OBVIOUS
    <3>1. PrecAt(d) = WidthAt(d)  BY <2>1
    <3>2. NoWidth(d)  BY <2>1, <3>1 DEF PrecAt
    <3> QED  BY <3>2 DEF NoWidth, FieldRead, SameWidth
  <2>4. ~(d.prec # 0 /\ 2 >= LongAt(d))  BY <2>1 DEF LongAt
  <2>5. ~(2 > PrecAt(d))  BY <2>1
  <2> QED  BY <1>1, <2>1, <2>2, <2>3, <2>4, <2>5 DEF FlagsAt
<1> QED  BY <1>2 DEF p

\* Where there is no width, its place is passed without reading anything.
LEMMA FieldPassed ==
  ASSUME NEW d \in Directives, NEW k \in 2 .. ConvAt(d), NEW p, NEW a, NEW w, NEW r, NEW t,
         FlagsAt(d, k, p, a, w, r, t), k < WidthAt(d), k + 1 >= PrecAt(d)
  PROVE  FieldRead(d, t, w)
<1>1. WidthAt(d) \in Nat /\ PrecAt(d) \in Nat /\ WidthAt(d) <= PrecAt(d)  BY Places
<1>2. PrecAt(d) = WidthAt(d) /\ k < PrecAt(d)  BY <1>1
<1>3. NoWidth(d)  BY <1>1, <1>2 DEF PrecAt
<1>4. w = -1 /\ t = <<>>  BY <1>2 DEF FlagsAt
<1> QED  BY <1>3, <1>4 DEF NoWidth, FieldRead, SameWidth

\* What each character of a directive adds to what is known of the flags.
LEMMA PadRead ==
  ASSUME NEW d \in Directives, NEW k, NEW x, NEW p, NEW a, NEW w, NEW r, NEW t,
         FlagsAt(d, k, p, a, w, r, t), PadPlace(d, k, x)
  PROVE  FlagsAt(d, k + 1, x, a, w, r, t)
<1>1. /\ WidthAt(d) \in Nat /\ PrecAt(d) \in Nat /\ LongAt(d) \in Nat
      /\ ConvAt(d) \in Nat /\ AltAt(d) <= WidthAt(d) /\ WidthAt(d) <= PrecAt(d)
      /\ PrecAt(d) <= LongAt(d) /\ LongAt(d) <= ConvAt(d)
  BY Places
<1>2. k = 2 /\ AltAt(d) = 3 /\ x = d.pad  BY DEF PadPlace
<1>3. k + 1 >= PrecAt(d) => FieldRead(d, t, w)
  <2>1. k < WidthAt(d) /\ k \in 2 .. ConvAt(d)  BY <1>1, <1>2
  <2> QED  BY <2>1, FieldPassed
<1>4. ~(d.alt /\ k + 1 >= WidthAt(d))  BY <1>1, <1>2 DEF WidthAt
<1>5. ~(d.prec # 0 /\ k + 1 >= LongAt(d))  BY <1>1, <1>2 DEF LongAt
<1>6. k + 1 \in 2 .. ConvAt(d) /\ ~(k + 1 > PrecAt(d)) /\ ~(k >= WidthAt(d)) /\ k < PrecAt(d)
      /\ ~(k >= LongAt(d))
  BY <1>1, <1>2
<1> QED  BY <1>2, <1>3, <1>4, <1>5, <1>6 DEF FlagsAt

LEMMA AltRead ==
  ASSUME NEW d \in Directives, NEW k, NEW x, NEW p, NEW a, NEW w, NEW r, NEW t,
         FlagsAt(d, k, p, a, w, r, t), AltPlace(d, k, x)
  PROVE  FlagsAt(d, k + 1, p, 1, w, r, t)
<1>1. /\ AltAt(d) \in {2, 3} /\ WidthAt(d) \in Nat /\ PrecAt(d) \in Nat /\ LongAt(d) \in Nat
      /\ ConvAt(d) \in Nat /\ AltAt(d) <= WidthAt(d) /\ WidthAt(d) <= PrecAt(d)
      /\ PrecAt(d) <= LongAt(d) /\ LongAt(d) <= ConvAt(d)
  BY Places
<1>2. k = AltAt(d) /\ WidthAt(d) = k + 1 /\ d.alt  BY DEF AltPlace
<1>3. k + 1 >= PrecAt(d) => FieldRead(d, t, w)
  <2>1. k < WidthAt(d) /\ k \in 2 .. ConvAt(d)  BY <1>1, <1>2
  <2> QED  BY <2>1, FieldPassed
<1>4. ~(d.prec # 0 /\ k + 1 >= LongAt(d))  BY <1>1, <1>2 DEF LongAt
<1>5. k + 1 \in 2 .. ConvAt(d) /\ ~(k + 1 > PrecAt(d)) /\ k < PrecAt(d) /\ ~(k >= LongAt(d))
      /\ k + 1 >= WidthAt(d) /\ k >= AltAt(d)
  BY <1>1, <1>2
<1> QED  BY <1>2, <1>3, <1>4, <1>5 DEF FlagsAt

LEMMA StarRead ==
  ASSUME NEW d \in Directives, NEW k, NEW x, NEW p, NEW a, NEW w, NEW r, NEW t, NEW n \in Int,
         FlagsAt(d, k, p, a, w, r, t), StarPlace(d, k, x)
  PROVE  FlagsAt(d, k + 1, p, a, n, -1, Append(t, <<"int", n>>)) /\ w = -1
<1>1. /\ AltAt(d) \in {2, 3} /\ WidthAt(d) \in Nat /\ PrecAt(d) \in Nat /\ LongAt(d) \in Nat
      /\ ConvAt(d) \in Nat /\ AltAt(d) <= WidthAt(d) /\ WidthAt(d) <= PrecAt(d)
      /\ PrecAt(d) <= LongAt(d) /\ LongAt(d) <= ConvAt(d)
  BY Places
<1>2. k = WidthAt(d) /\ PrecAt(d) = k + 1 /\ d.width = NULL  BY DEF StarPlace
<1>3. t = <<>> /\ w = -1 /\ Append(t, <<"int", n>>) = <<<<"int", n>>>>
  <2>1. t = <<>> /\ w = -1  BY <1>1, <1>2 DEF FlagsAt
  <2>2. \A e : Append(<<>>, e) = <<e>>  OBVIOUS
  <2> QED  BY Zenon, <2>1, <2>2
<1>4. FieldRead(d, Append(t, <<"int", n>>), n)  BY <1>2, <1>3 DEF FieldRead, SameWidth
<1>5. ~(d.prec # 0 /\ k + 1 >= LongAt(d))  BY <1>1, <1>2 DEF LongAt
<1>6. k + 1 \in 2 .. ConvAt(d) /\ k + 1 >= PrecAt(d) /\ ~(k + 1 < PrecAt(d))
      /\ ~(k + 1 > PrecAt(d)) /\ k + 1 >= WidthAt(d) /\ k >= AltAt(d) /\ k >= WidthAt(d)
  BY <1>1, <1>2
<1> QED  BY <1>3, <1>4, <1>5, <1>6 DEF FlagsAt

LEMMA WidthRead ==
  ASSUME NEW d \in Directives, NEW k, NEW x, NEW p, NEW a, NEW w, NEW r, NEW t,
         FlagsAt(d, k, p, a, w, r, t), WidthPlace(d, k, x)
  PROVE  FlagsAt(d, k + 1, p, a, d.width, -1, t) /\ w = -1
<1>1. /\ AltAt(d) \in {2, 3} /\ WidthAt(d) \in Nat /\ PrecAt(d) \in Nat /\ LongAt(d) \in Nat
      /\ ConvAt(d) \in Nat /\ AltAt(d) <= WidthAt(d) /\ WidthAt(d) <= PrecAt(d)
      /\ PrecAt(d) <= LongAt(d) /\ LongAt(d) <= ConvAt(d)
  BY Places
<1>2. k = WidthAt(d) /\ PrecAt(d) = k + 1 /\ d.width # NULL /\ d.width \in 1 .. 9
  BY DEF WidthPlace
<1>3. t = <<>> /\ w = -1  BY <1>1, <1>2 DEF FlagsAt
<1>4. FieldRead(d, t, d.width)  BY <1>2, <1>3 DEF FieldRead, SameWidth
<1>5. ~(d.prec # 0 /\ k + 1 >= LongAt(d))  BY <1>1, <1>2 DEF LongAt
<1>6. k + 1 \in 2 .. ConvAt(d) /\ k + 1 >= PrecAt(d) /\ ~(k + 1 < PrecAt(d))
      /\ ~(k + 1 > PrecAt(d)) /\ k + 1 >= WidthAt(d) /\ k >= AltAt(d) /\ k >= WidthAt(d)
  BY <1>1, <1>2
<1> QED  BY <1>3, <1>4, <1>5, <1>6 DEF FlagsAt

LEMMA DotRead ==
  ASSUME NEW d \in Directives, NEW k, NEW x, NEW p, NEW a, NEW w, NEW r, NEW t,
         FlagsAt(d, k, p, a, w, r, t), DotPlace(d, k, x)
  PROVE  FlagsAt(d, k + 1, p, a, IF w < 0 THEN 0 ELSE w, r, t)
<1> DEFINE u == IF w < 0 THEN 0 ELSE w
<1>1. /\ AltAt(d) \in {2, 3} /\ WidthAt(d) \in Nat /\ PrecAt(d) \in Nat /\ LongAt(d) \in Nat
      /\ ConvAt(d) \in Nat /\ AltAt(d) <= WidthAt(d) /\ WidthAt(d) <= PrecAt(d)
      /\ PrecAt(d) <= LongAt(d) /\ LongAt(d) <= ConvAt(d)
  BY Places
<1>2. k = PrecAt(d) /\ LongAt(d) = k + 2  BY DEF DotPlace
<1>3. FieldRead(d, t, w)  BY <1>1, <1>2 DEF FlagsAt
<1>4. FieldRead(d, t, u) /\ u >= 0
  <2>1. w \in Int  BY <1>3 DEF FieldRead, SameWidth
  <2>2. \A f : SameWidth(w, f) => SameWidth(u, f)  BY <2>1 DEF SameWidth
  <2>3. u >= 0  BY <2>1
  <2> HIDE DEF u
  <2> QED  BY <1>3, <2>2, <2>3 DEF FieldRead
<1> HIDE DEF u
<1>5. k + 1 \in 2 .. ConvAt(d) /\ ~(k + 1 < PrecAt(d)) /\ ~(k + 1 >= LongAt(d)) /\ ~(k >= LongAt(d))
      /\ k + 1 >= WidthAt(d) /\ k >= AltAt(d) /\ k >= WidthAt(d) /\ k + 1 >= AltAt(d)
  BY <1>1, <1>2
<1>6. FlagsAt(d, k + 1, p, a, u, r, t)  BY <1>4, <1>5 DEF FlagsAt
<1> QED  BY <1>6 DEF u

LEMMA PrecRead ==
  ASSUME NEW d \in Directives, NEW k, NEW x, NEW p, NEW a, NEW w, NEW r, NEW t,
         FlagsAt(d, k, p, a, w, r, t), PrecPlace(d, k, x)
  PROVE  FlagsAt(d, k + 1, p, a, w, d.prec, t) /\ w \in Int /\ w >= 0
<1>1. /\ AltAt(d) \in {2, 3} /\ WidthAt(d) \in Nat /\ PrecAt(d) \in Nat /\ LongAt(d) \in Nat
      /\ ConvAt(d) \in Nat /\ AltAt(d) <= WidthAt(d) /\ WidthAt(d) <= PrecAt(d)
      /\ PrecAt(d) <= LongAt(d) /\ LongAt(d) <= ConvAt(d)
  BY Places
<1>2. k = PrecAt(d) + 1 /\ LongAt(d) = k + 1 /\ d.prec \in 1 .. 9  BY DEF PrecPlace
<1>3. FieldRead(d, t, w) /\ w >= 0  BY <1>1, <1>2 DEF FlagsAt
<1>4. w \in Int  BY <1>3 DEF FieldRead, SameWidth
<1>5. k + 1 \in 2 .. ConvAt(d) /\ ~(k + 1 < PrecAt(d)) /\ k + 1 >= LongAt(d)
      /\ k + 1 >= WidthAt(d) /\ k >= AltAt(d) /\ k >= WidthAt(d) /\ d.prec # 0
  BY <1>1, <1>2
<1> QED  BY <1>3, <1>4, <1>5 DEF FlagsAt

LEMMA LongRead ==
  ASSUME NEW d \in Directives, NEW k, NEW x, NEW p, NEW a, NEW w, NEW r, NEW t,
         FlagsAt(d, k, p, a, w, r, t), LongPlace(d, k, x)
  PROVE  FlagsAt(d, k + 1, p, a, w, r, t)
<1>1. /\ AltAt(d) \in {2, 3} /\ WidthAt(d) \in Nat /\ PrecAt(d) \in Nat /\ LongAt(d) \in Nat
      /\ ConvAt(d) \in Nat /\ AltAt(d) <= WidthAt(d) /\ WidthAt(d) <= PrecAt(d)
      /\ PrecAt(d) <= LongAt(d) /\ LongAt(d) <= ConvAt(d)
  BY Places
<1>2. k \in LongAt(d) .. ConvAt(d) - 1  BY DEF LongPlace
<1>3. FieldRead(d, t, w)  BY <1>1, <1>2 DEF FlagsAt
<1>4. d.prec # 0 => k > PrecAt(d) /\ w >= 0  BY <1>1, <1>2 DEF FlagsAt, LongAt
<1>5. k + 1 \in 2 .. ConvAt(d) /\ ~(k + 1 < PrecAt(d)) /\ k + 1 >= LongAt(d) /\ k >= LongAt(d)
      /\ k + 1 >= WidthAt(d) /\ k >= AltAt(d) /\ k >= WidthAt(d)
  BY <1>1, <1>2
<1> QED  BY <1>3, <1>4, <1>5 DEF FlagsAt

-----------------------------------------------------------------------------
(* What a directive prints.                                                *)

\* The exception that the property makes.
Excepted == directive.pad = "-" /\ directive.conv \in {"d", "u", "o", "x", "p"}

\* What has been printed and what is still to be printed are the meaning.
Right == \/ Excepted
         \/ /\ \E S : out \in Seq(S) /\ todo \in Seq(S)
            /\ out \o todo = Meaning(directive)

\* In front of the '%', inside the directive, behind it, and at the end.
InFront == loop = "text" /\ pos = 1 /\ out = <<>> /\ todo = <<>> /\ taken = <<>>
Behind  == /\ loop \in {"text", "putch"} /\ pos = ConvAt(directive) + 1
           /\ (loop = "text" <=> todo = <<>>)
           /\ Right
Ended   == loop = "done" /\ (ret = -3 \/ Excepted \/ out = Meaning(directive))

DInv == directive # NULL =>
          /\ directive \in Directives /\ fmt = Render(directive)
          /\ InFront \/ Reading \/ Behind \/ Ended

LEMMA DirectiveInit == PrintInit => DInv
<1> SUFFICES ASSUME PrintInit, directive # NULL  PROVE DInv
  BY DEF DInv
<1>1. directive \in Directives /\ fmt = Render(directive)
  BY DEF PrintInit
<1>2. InFront \/ Ended
  <2>1. IF size # NULL /\ size < 1 THEN ret = -3 /\ loop = "done" ELSE ret = 0 /\ loop = "text"
    BY DEF PrintInit
  <2>2. pos = 1 /\ out = <<>> /\ todo = <<>> /\ taken = <<>>  BY DEF PrintInit
  <2> QED  BY <2>1, <2>2 DEF InFront, Ended
<1> QED  BY <1>1, <1>2 DEF DInv

\* Of what precedes a step: the place in the format, and that the loops are
\* not mixed up.
LEMMA LoopOf ==
  ASSUME DInv, directive # NULL
  PROVE  /\ directive \in Directives /\ fmt = Render(directive)
         /\ loop = "switch" => Reading
         /\ loop = "putch" => Behind
         /\ loop = "text" => \/ InFront /\ ch = "%"
                             \/ Behind /\ ch = NUL
<1>1. directive \in Directives /\ fmt = Render(directive)  BY DEF DInv
<1>2. /\ loop = "switch" => Reading
      /\ loop = "putch" => Behind
      /\ loop = "text" => InFront \/ Behind
  BY DEF DInv, InFront, Reading, Behind, Ended
<1>3. InFront => ch = "%"
  <2>1. 1 \in 1 .. ConvAt(directive)  BY <1>1, FmtIs
  <2>2. At(1) = "%"  BY <1>1, <2>1, FmtIs, RenderIs
  <2> QED  BY <2>2 DEF ch, InFront
<1>4. Behind => ch = NUL  BY <1>1, FmtIs DEF ch, Behind
<1> QED  BY <1>1, <1>2, <1>3, <1>4

\* One lemma for each step: the '%', the flags, ...
LEMMA PercentRight ==
  ASSUME DInv, directive # NULL, Percent
  PROVE  DInv'
<1>1. InFront /\ directive \in Directives /\ fmt = Render(directive)
  <2>1. loop = "text" /\ ch = "%"  BY Zenon DEF Percent
  <2> QED  BY <2>1, LoopOf DEF NUL
<1>2. /\ FlagsAt(directive, 2, padc', 0, -1, -1, <<>>)
  <2>1. padc' = " "  BY Zenon DEF Percent
  <2> QED  BY Zenon, <1>1, <2>1, NoFlagsYet
<1>3. /\ width' = -1 /\ precision' = -1 /\ altflag' = 0 /\ pos' = pos + 1 /\ loop' = "switch"
      /\ directive' = directive /\ fmt' = fmt /\ taken' = taken /\ out' = out
  BY Zenon DEF Percent, given, sink
<1>4. pos' = 2 /\ taken' = <<>> /\ out' = <<>>  BY <1>1, <1>3 DEF InFront
<1>5. ReadPart'  BY Zenon, <1>2, <1>3, <1>4 DEF ReadPart
<1>6. Reading'  BY Zenon, <1>1, <1>3, <1>5 DEF Reading
<1> QED  BY Zenon, <1>1, <1>3, <1>6 DEF DInv

\* A flag has been read as it should.
LEMMA ReadingOn ==
  ASSUME Reading, NextChar,
         FlagsAt(directive, pos + 1, padc', altflag', width', precision', taken')
  PROVE  DInv'
<1>1. /\ pos' = pos + 1 /\ directive' = directive /\ fmt' = fmt /\ out' = out /\ loop' = loop
  BY DEF NextChar, given, sink
<1>2. ReadPart'  BY Zenon, <1>1 DEF ReadPart, Reading
<1>3. Reading'  BY Zenon, <1>1, <1>2 DEF Reading
<1> QED  BY Zenon, <1>1, <1>3 DEF DInv, Reading

LEMMA PadRight ==
  ASSUME Reading, Pad
  PROVE  DInv'
<1>1. PadPlace(directive, pos, ch)  BY ChIn DEF Pad
<1>2. directive \in Directives /\ FlagsAt(directive, pos, padc, altflag, width, precision, taken)
  BY DEF Reading, ReadPart
<1>3. FlagsAt(directive, pos + 1, ch, altflag, width, precision, taken)  BY <1>1, <1>2, PadRead
<1>4. /\ padc' = ch /\ altflag' = altflag /\ width' = width /\ precision' = precision
      /\ taken' = taken /\ NextChar
  BY DEF Pad
<1>5. FlagsAt(directive, pos + 1, padc', altflag', width', precision', taken')
  BY Zenon, <1>3, <1>4
<1> QED  BY <1>4, <1>5, ReadingOn

LEMMA DigitRight ==
  ASSUME Reading, Digit
  PROVE  DInv'
<1>1. PICK n \in 1 .. 9 :
        /\ ch = Digits[n + 1] /\ Number(n) /\ pos' = pos + 1
        /\ WidthPlace(directive, pos, ch) \/ PrecPlace(directive, pos, ch)
  BY DigitReads
<1>2. directive \in Directives /\ FlagsAt(directive, pos, padc, altflag, width, precision, taken)
  BY DEF Reading, ReadPart
<1>3. /\ padc' = padc /\ altflag' = altflag /\ taken' = taken /\ NextChar
  BY <1>1 DEF Digit, NextChar
<1>4. FlagsAt(directive, pos + 1, padc, altflag, width', precision', taken)
  <2>1. CASE WidthPlace(directive, pos, ch)
    <3>1. FlagsAt(directive, pos + 1, padc, altflag, directive.width, -1, taken) /\ width = -1
      BY <1>2, <2>1, WidthRead
    <3>2. directive.width = n
      <4>1. directive.width \in 1 .. 9 /\ ch = Digits[directive.width + 1]
        BY <2>1 DEF WidthPlace
      <4> QED  BY <1>1, <4>1, DecimalDigits
    <3>3. width' = n /\ precision' = -1  BY <1>1, <3>1 DEF Number
    <3> QED  BY Zenon, <3>1, <3>2, <3>3
  <2>2. CASE PrecPlace(directive, pos, ch)
    <3>1. /\ FlagsAt(directive, pos + 1, padc, altflag, width, directive.prec, taken)
          /\ width \in Int /\ width >= 0
      BY <1>2, <2>2, PrecRead
    <3>2. directive.prec = n
      <4>1. directive.prec \in 1 .. 9 /\ ch = Digits[directive.prec + 1]
        BY <2>2 DEF PrecPlace
      <4> QED  BY <1>1, <4>1, DecimalDigits
    <3>3. width' = width /\ precision' = n
      <4>1. ~(width < 0)  BY <3>1
      <4> QED  BY <1>1, <4>1 DEF Number
    <3> QED  BY Zenon, <3>1, <3>2, <3>3
  <2> QED  BY <1>1, <2>1, <2>2
<1>5. FlagsAt(directive, pos + 1, padc', altflag', width', precision', taken')
  BY Zenon, <1>3, <1>4
<1> QED  BY <1>3, <1>5, ReadingOn

LEMMA StarRight ==
  ASSUME Reading, Star
  PROVE  DInv'
<1>1. StarPlace(directive, pos, ch)  BY ChIn DEF Star
<1>2. directive \in Directives /\ FlagsAt(directive, pos, padc, altflag, width, precision, taken)
  BY DEF Reading, ReadPart
<1>3. PICK n \in Int2(W) : Number(n) /\ taken' = Append(taken, <<"int", n>>)  BY DEF Star, Take
<1>4. n \in Int
  <2>1. W - 1 \in Nat  BY PrintfAssumption
  <2>2. Power(2, W - 1) \in Int  BY <2>1, PowerPositive
  <2> QED  BY <2>2 DEF Int2
<1>5. /\ FlagsAt(directive, pos + 1, padc, altflag, n, -1, Append(taken, <<"int", n>>))
      /\ width = -1
  BY <1>1, <1>2, <1>4, StarRead
<1>6. /\ padc' = padc /\ altflag' = altflag /\ width' = n /\ precision' = -1 /\ NextChar
  <2>1. width < 0  BY <1>5
  <2> QED  BY <1>3, <2>1 DEF Star, Number
<1>7. FlagsAt(directive, pos + 1, padc', altflag', width', precision', taken')
  BY Zenon, <1>3, <1>5, <1>6
<1> QED  BY <1>6, <1>7, ReadingOn

LEMMA DotRight ==
  ASSUME Reading, Dot
  PROVE  DInv'
<1>1. DotPlace(directive, pos, ch)  BY ChIn DEF Dot
<1>2. directive \in Directives /\ FlagsAt(directive, pos, padc, altflag, width, precision, taken)
  BY DEF Reading, ReadPart
<1>3. FlagsAt(directive, pos + 1, padc, altflag, IF width < 0 THEN 0 ELSE width, precision, taken)
  BY <1>1, <1>2, DotRead
<1>4. /\ padc' = padc /\ altflag' = altflag /\ width' = (IF width < 0 THEN 0 ELSE width)
      /\ precision' = precision /\ taken' = taken /\ NextChar
  BY DEF Dot
<1>5. FlagsAt(directive, pos + 1, padc', altflag', width', precision', taken')
  BY Zenon, <1>3, <1>4
<1> QED  BY <1>4, <1>5, ReadingOn

LEMMA AltRight ==
  ASSUME Reading, Alt
  PROVE  DInv'
<1>1. AltPlace(directive, pos, ch)  BY ChIn DEF Alt
<1>2. directive \in Directives /\ FlagsAt(directive, pos, padc, altflag, width, precision, taken)
  BY DEF Reading, ReadPart
<1>3. FlagsAt(directive, pos + 1, padc, 1, width, precision, taken)  BY <1>1, <1>2, AltRead
<1>4. /\ padc' = padc /\ altflag' = 1 /\ width' = width /\ precision' = precision
      /\ taken' = taken /\ NextChar
  BY DEF Alt
<1>5. FlagsAt(directive, pos + 1, padc', altflag', width', precision', taken')
  BY Zenon, <1>3, <1>4
<1> QED  BY <1>4, <1>5, ReadingOn

LEMMA LongRight ==
  ASSUME Reading, Long
  PROVE  DInv'
<1>1. LongPlace(directive, pos, ch)  BY ChIn DEF Long
<1>2. directive \in Directives /\ FlagsAt(directive, pos, padc, altflag, width, precision, taken)
  BY DEF Reading, ReadPart
<1>3. FlagsAt(directive, pos + 1, padc, altflag, width, precision, taken)
  BY <1>1, <1>2, LongRead
<1>4. /\ padc' = padc /\ altflag' = altflag /\ width' = width /\ precision' = precision
      /\ taken' = taken /\ NextChar
  BY DEF Long
<1>5. FlagsAt(directive, pos + 1, padc', altflag', width', precision', taken')
  BY Zenon, <1>3, <1>4
<1> QED  BY <1>4, <1>5, ReadingOn

\* ... and nothing else: the directive is a proper one.
LEMMA NotUnknown ==
  ASSUME Reading
  PROVE  ~Unknown /\ ~ConvPercent
<1>1. ch \in {"-", "0", "#", "*", "1", "2", "3", "4", "5", "6", "7", "8", "9", ".", "l"}
             \cup Conversions
  BY ChIn, ChPlace
<1>2. ch \in Known /\ ch # "%"  BY <1>1, DecimalIs DEF Known, Conversions
<1> QED  BY <1>2 DEF Unknown, ConvPercent

\* ... and the conversions.  A width of which only the sign counts.
LEMMA SamePadding ==
  ASSUME NEW w, NEW f, SameWidth(w, f), NEW n \in Nat, NEW p
  PROVE  w - n \in Int /\ Repeat(p, w - n) = Repeat(p, f - n)
<1>1. w \in Int /\ f \in Int /\ (w = f \/ (w <= 0 /\ f <= 0))  BY DEF SameWidth
<1>2. CASE w <= 0 /\ f <= 0
  <2> DEFINE S == {p}
  <2>1. p \in S  OBVIOUS
  <2> HIDE DEF S
  <2>2. w - n \in Int /\ w - n <= 0 /\ f - n \in Int /\ f - n <= 0  BY <1>1, <1>2
  <2> QED  BY <2>1, <2>2, RepeatIs
<1> QED  BY <1>1, <1>2

LEMMA PaddedType ==
  ASSUME NEW b \in 2 .. 16, NEW n \in Nat, NEW w \in Int, NEW p
  PROVE  Padded(n, b, w, p) \in Seq(Glyph \cup {p})
<1> DEFINE S == Glyph \cup {p}
           N == Numeral(n, b)
<1>1. N \in Seq(Glyph) /\ Len(N) \in Nat  BY NumeralType
<1>2. N \in Seq(S) /\ p \in S  BY <1>1
<1> HIDE DEF S, N
<1>3. w - Len(N) \in Int  BY <1>1
<1>4. Repeat(p, w - Len(N)) \in Seq(S)  BY <1>2, <1>3, RepeatIs
<1>5. Repeat(p, w - Len(N)) \o N \in Seq(S)  BY <1>2, <1>4
<1> QED  BY <1>5 DEF Padded, N, S

LEMMA PaddedSame ==
  ASSUME NEW b \in 2 .. 16, NEW n \in Nat, NEW w, NEW f, SameWidth(w, f), NEW p
  PROVE  /\ printnum(n, b, w, p) = Padded(n, b, f, p)
         /\ printnum(n, b, w, p) \in Seq(Glyph \cup {p})
<1>1. w \in Int /\ f \in Int  BY DEF SameWidth
<1>2. printnum(n, b, w, p) = Padded(n, b, w, p)  BY <1>1, PrintnumIs
<1>3. Len(Numeral(n, b)) \in Nat  BY NumeralType
<1>4. Padded(n, b, w, p) = Padded(n, b, f, p)  BY <1>3, SamePadding DEF Padded
<1> QED  BY <1>1, <1>2, <1>4, PaddedType

LEMMA LastTaken ==
  ASSUME NEW d \in Directives, NEW w, NEW t, FieldRead(d, t, w), NEW e, NEW v,
         NEW u, u = Append(t, <<e, v>>)
  PROVE  /\ u[Len(u)] = <<e, v>> /\ u[Len(u)][2] = v
         /\ SameWidth(w, IF d.width = NULL THEN u[1][2] ELSE d.width)
<1> DEFINE a == <<e, v>>
<1>1. a[2] = v  OBVIOUS
<1> HIDE DEF a
<1>2. u = Append(t, a)  BY DEF a
<1>3. CASE d.width = NULL
  <2>1. PICK x \in Int : t = <<<<"int", x>>>> /\ SameWidth(w, x)  BY <1>3 DEF FieldRead
  <2> DEFINE b == <<"int", x>>
  <2>2. b[2] = x  OBVIOUS
  <2> HIDE DEF b
  <2>3. t = <<b>>  BY <2>1 DEF b
  <2>4. Len(u) = 2 /\ u[2] = a /\ u[1] = b  BY <1>2, <2>3
  <2> QED  BY <1>1, <1>3, <2>1, <2>2, <2>4 DEF a
<1>4. CASE d.width # NULL
  <2>1. t = <<>> /\ SameWidth(w, d.width)  BY <1>4 DEF FieldRead
  <2>2. Len(u) = 1 /\ u[1] = a  BY <1>2, <2>1
  <2> QED  BY <1>1, <1>4, <2>1, <2>2 DEF a
<1> QED  BY <1>3, <1>4

\* The state in which a conversion starts.
AtConversion ==
  LET d == directive
  IN  /\ d \in Directives /\ fmt = Render(d) /\ out = <<>>
      /\ pos = ConvAt(d) /\ ch = d.conv /\ padc = d.pad
      /\ altflag = IF d.alt THEN 1 ELSE 0
      /\ precision = IF d.prec = 0 THEN -1 ELSE d.prec
      /\ FieldRead(d, taken, width)

\* There is only one place for a conversion.
LEMMA ConversionStarts ==
  ASSUME Reading, ch \in Conversions
  PROVE  AtConversion
<1> DEFINE d == directive
<1>1. ConvPlace(d, pos, ch)  BY ChIn
<1>2. /\ d \in Directives /\ fmt = Render(d) /\ out = <<>>
      /\ FlagsAt(d, pos, padc, altflag, width, precision, taken)
  BY DEF Reading, ReadPart
<1>3. /\ AltAt(d) \in {2, 3} /\ WidthAt(d) \in Nat /\ PrecAt(d) \in Nat /\ LongAt(d) \in Nat
      /\ ConvAt(d) \in Nat /\ AltAt(d) <= WidthAt(d) /\ WidthAt(d) <= PrecAt(d)
      /\ PrecAt(d) <= LongAt(d) /\ LongAt(d) <= ConvAt(d)
  BY <1>2, Places
<1>4. pos = ConvAt(d) /\ ch = d.conv  BY <1>1 DEF ConvPlace
<1>5. pos >= AltAt(d) /\ pos >= WidthAt(d) /\ pos >= PrecAt(d) /\ pos >= LongAt(d)
  BY <1>3, <1>4
<1> HIDE DEF d
<1>6. d \in Directives /\ fmt = Render(d) /\ out = <<>>  BY <1>2
<1> QED  BY <1>2, <1>4, <1>5 DEF AtConversion, FlagsAt, d

\* A conversion that prints the meaning.
LEMMA ConversionEnds ==
  ASSUME Reading, ch \in Conversions, NEW s, Converts(s),
         Excepted' \/ (s = Meaning(directive)' /\ \E S : s \in Seq(S))
  PROVE  DInv'
<1>1. AtConversion  BY ConversionStarts
<1>2. /\ todo' = s /\ loop' = (IF s = <<>> THEN "text" ELSE "putch") /\ out' = out
      /\ pos' = pos + 1 /\ directive' = directive /\ fmt' = fmt
  BY DEF Converts, Prints, sink, given
<1>3. out' = <<>> /\ pos' = ConvAt(directive) + 1  BY <1>1, <1>2 DEF AtConversion
<1>4. ASSUME s = Meaning(directive)', NEW S, s \in Seq(S)  PROVE Right'
  <2>1. out' \in Seq(S) /\ todo' \in Seq(S) /\ out' \o todo' = s  BY <1>2, <1>3, <1>4
  <2>2. (\E U : out \in Seq(U) /\ todo \in Seq(U))'  BY Zenon, <2>1
  <2> QED  BY Zenon, <1>4, <2>1, <2>2 DEF Right
<1>5. loop' \in {"text", "putch"} /\ (loop' = "text" <=> todo' = <<>>)  BY <1>2
<1>6. Behind'  BY Zenon, <1>2, <1>3, <1>4, <1>5 DEF Behind, Right
<1> QED  BY Zenon, <1>1, <1>2, <1>6 DEF DInv, AtConversion

\* The argument that it takes, and the width.
LEMMA ConversionTakes ==
  ASSUME Reading, ch \in Conversions, directive' = directive, NEW e, NEW v, Take(e, v)
  PROVE  /\ AtConversion
         /\ Value' = v /\ taken'[Len(taken')] = <<e, v>>
         /\ SameWidth(width, FieldOf(directive)')
<1>1. AtConversion  BY ConversionStarts
<1>2. taken' = Append(taken, <<e, v>>)  BY DEF Take
<1>3. directive \in Directives /\ FieldRead(directive, taken, width)  BY <1>1 DEF AtConversion
<1>4. PICK u : u = taken'  OBVIOUS
<1>5. /\ u[Len(u)] = <<e, v>> /\ u[Len(u)][2] = v
      /\ SameWidth(width, IF directive.width = NULL THEN u[1][2] ELSE directive.width)
  BY <1>2, <1>3, <1>4, LastTaken
<1>6. Value' = v  BY Zenon, <1>4, <1>5 DEF Value
<1>7. SameWidth(width, FieldOf(directive)')  BY Zenon, <1>4, <1>5 DEF FieldOf
<1> QED  BY Zenon, <1>1, <1>4, <1>5, <1>6, <1>7

\* Numbers: the field of the meaning is the one that printnum fills.
LEMMA NumberMeant ==
  ASSUME Reading, ch \in Conversions, directive' = directive, NEW e, NEW v, Take(e, v),
         NEW n \in Nat, NEW b \in 2 .. 16
  PROVE  /\ PadTo(directive, n, b)' = printnum(n, b, width, padc)
         /\ printnum(n, b, width, padc) \in Seq(Glyph \cup {padc})
<1>1. AtConversion /\ SameWidth(width, FieldOf(directive)')  BY ConversionTakes
<1>2. PICK f : f = FieldOf(directive)'  OBVIOUS
<1>3. /\ printnum(n, b, width, padc) = Padded(n, b, f, padc)
      /\ printnum(n, b, width, padc) \in Seq(Glyph \cup {padc})
  BY <1>1, <1>2, PaddedSame
<1>4. padc = directive.pad  BY <1>1 DEF AtConversion
<1>5. PadTo(directive, n, b)' = Padded(n, b, f, padc)
  BY Zenon, <1>2, <1>4 DEF PadTo, Padded
<1> QED  BY Zenon, <1>3, <1>5

\* Negating the smallest long long does not leave 2 W bits.
LEMMA WidthsOfInt ==
  /\ \A k \in {W, 2 * W} : /\ Power(2, k) \in Nat /\ Power(2, k - 1) \in Nat
                           /\ Power(2, k - 1) < Power(2, 2 * W)
  /\ Bits(lflag) \in {W, 2 * W}
<1>1. W \in Nat \ {0}  BY PrintfAssumption
<1>2. ASSUME NEW k \in {W, 2 * W}
      PROVE  /\ Power(2, k) \in Nat /\ Power(2, k - 1) \in Nat
             /\ Power(2, k - 1) < Power(2, 2 * W)
  <2>1. /\ k \in Nat /\ k - 1 \in Nat /\ (k - 1) + 1 = k
        /\ 2 * W - k \in Nat /\ k + (2 * W - k) = 2 * W
    BY <1>1
  <2>2. Power(2, k - 1) \in Nat \ {0} /\ Power(2, k) \in Nat /\ Power(2, 2 * W) \in Nat
    BY <1>1, <2>1, PowerPositive
  <2>3. Power(2, (k - 1) + 1) = 2 * Power(2, k - 1)  BY <2>1, PowerIs
  <2>4. Power(2, k) <= Power(2, 2 * W)
    <3>1. PICK l \in Nat : k + l = 2 * W  BY <2>1
    <3>2. 2 \in Nat \ {0}  OBVIOUS
    <3>3. Power(2, k) <= Power(2, k + l)  BY Zenon, <2>1, <3>1, <3>2, PowerGrows
    <3> QED  BY <3>1, <3>3
  <2> QED  BY <2>1, <2>2, <2>3, <2>4
<1> QED  BY <1>2 DEF Bits

LEMMA UnsignedRight ==
  ASSUME Reading, ConvUnsigned
  PROVE  DInv'
<1>1. ch \in Conversions /\ ch \in {"u", "o", "x"}  BY DEF ConvUnsigned, Conversions
<1>2. PICK v \in Uint2(Bits(lflag)) : /\ Take("int", v)
                                      /\ Converts(printnum(v, BaseOf[ch], width, padc))
  BY DEF ConvUnsigned
<1>3. v \in Nat  BY <1>2, WidthsOfInt DEF Uint2
<1>4. directive' = directive  BY <1>2 DEF Converts, given
<1>5. AtConversion /\ Value' = v  BY <1>1, <1>2, <1>4, ConversionTakes
<1>6. ch = directive.conv  BY <1>5 DEF AtConversion
<1>0. PICK b : b = BaseOf[ch]  OBVIOUS
<1>7. b \in 2 .. 16 /\ (ch = "u" => b = 10) /\ (ch = "o" => b = 8) /\ (ch = "x" => b = 16)
  BY <1>0, <1>1 DEF BaseOf
<1>8. Converts(printnum(v, b, width, padc))  BY <1>0, <1>2
<1>9. /\ PadTo(directive, v, b)' = printnum(v, b, width, padc)
      /\ printnum(v, b, width, padc) \in Seq(Glyph \cup {padc})
  BY Zenon, <1>1, <1>2, <1>3, <1>4, <1>7, NumberMeant
<1>10. Meaning(directive)' = PadTo(directive, v, b)'
  <2>1. CASE ch = "u"
    <3>1. directive'.conv = "u" /\ b = 10  BY Zenon, <1>4, <1>6, <1>7, <2>1
    <3>2. Meaning(directive)' = PadTo(directive, v, 10)'  BY Zenon, <1>5, <3>1 DEF Meaning
    <3> QED  BY Zenon, <3>1, <3>2
  <2>2. CASE ch = "o"
    <3>1. directive'.conv = "o" /\ b = 8  BY Zenon, <1>4, <1>6, <1>7, <2>2
    <3>2. Meaning(directive)' = PadTo(directive, v, 8)'  BY Zenon, <1>5, <3>1 DEF Meaning
    <3> QED  BY Zenon, <3>1, <3>2
  <2>3. CASE ch = "x"
    <3>1. directive'.conv = "x" /\ b = 16  BY Zenon, <1>4, <1>6, <1>7, <2>3
    <3>2. Meaning(directive)' = PadTo(directive, v, 16)'  BY Zenon, <1>5, <3>1 DEF Meaning
    <3> QED  BY Zenon, <3>1, <3>2
  <2> QED  BY Zenon, <1>1, <2>1, <2>2, <2>3
<1> QED  BY <1>1, <1>8, <1>9, <1>10, ConversionEnds

LEMMA PointerRight ==
  ASSUME Reading, ConvPointer
  PROVE  DInv'
<1>1. ch \in Conversions /\ ch = "p"  BY DEF ConvPointer, Conversions
<1>2. PICK v \in Uint2(W) : /\ Take("int", v)
                            /\ Converts(<<"0", "x">> \o printnum(v, 16, width, padc))
  BY DEF ConvPointer
<1>3. v \in Nat  BY <1>2, WidthsOfInt DEF Uint2
<1>4. directive' = directive  BY <1>2 DEF Converts, given
<1>5. AtConversion /\ Value' = v  BY <1>1, <1>2, <1>4, ConversionTakes
<1>6. directive'.conv = "p"  BY <1>1, <1>4, <1>5 DEF AtConversion
<1> DEFINE n == printnum(v, 16, width, padc)
           S == Glyph \cup {padc, "0", "x"}
<1>7. PadTo(directive, v, 16)' = n /\ n \in Seq(Glyph \cup {padc})
  <2>1. 16 \in 2 .. 16  OBVIOUS
  <2> QED  BY Zenon, <1>1, <1>2, <1>3, <1>4, <2>1, NumberMeant
<1> HIDE DEF n
<1>8. <<"0", "x">> \o n \in Seq(S)
  <2>1. <<"0", "x">> \in Seq(S) /\ n \in Seq(S)  BY <1>7
  <2> HIDE DEF S
  <2> QED  BY <2>1
<1>9. Meaning(directive)' = <<"0", "x">> \o n  BY Zenon, <1>5, <1>6, <1>7 DEF Meaning
<1>10. Converts(<<"0", "x">> \o n)  BY <1>2 DEF n
<1> HIDE DEF S
<1> QED  BY <1>1, <1>8, <1>9, <1>10, ConversionEnds

LEMMA SignedRight ==
  ASSUME Reading, ConvSigned
  PROVE  DInv'
<1>1. ch \in Conversions /\ ch = "d"  BY DEF ConvSigned, Conversions
<1>2. PICK v \in Int2(Bits(lflag)) :
        /\ Take("int", v)
        /\ Converts(IF v < 0
                    THEN <<"-">> \o printnum((-v) % Power(2, 2 * W), 10, width, padc)
                    ELSE printnum(v, 10, width, padc))
  BY DEF ConvSigned
<1>3. directive' = directive  BY <1>2 DEF Converts, given
<1>4. AtConversion /\ Value' = v  BY <1>1, <1>2, <1>3, ConversionTakes
<1>5. directive'.conv = "d"  BY <1>1, <1>3, <1>4 DEF AtConversion
<1>6. v \in Int /\ (v < 0 => (-v) % Power(2, 2 * W) = -v)
  <2> DEFINE M == Power(2, 2 * W)
             H == Power(2, Bits(lflag) - 1)
  <2>1. H \in Nat /\ H < M
    <3>1. PICK k \in {W, 2 * W} : k = Bits(lflag)  BY WidthsOfInt
    <3> QED  BY <3>1, WidthsOfInt
  <2>2. M \in Nat  BY WidthsOfInt
  <2>3. v \in -H .. H - 1  BY <1>2 DEF Int2
  <2> HIDE DEF M, H
  <2>4. v \in Int /\ (v < 0 => (-v) \in 0 .. M - 1)  BY <2>1, <2>2, <2>3
  <2>5. \A a \in 0 .. M - 1 : a % M = a  BY <2>2
  <2>6. v < 0 => (-v) % M = -v  BY <2>4, <2>5
  <2> QED  BY <2>4, <2>6 DEF M
<1>7. Abs(v) \in Nat /\ (v < 0 => Abs(v) = -v) /\ (~(v < 0) => Abs(v) = v)  BY <1>6 DEF Abs
<1> DEFINE n == printnum(Abs(v), 10, width, padc)
           S == Glyph \cup {padc, "-"}
<1>8. PadTo(directive, Abs(v), 10)' = n /\ n \in Seq(Glyph \cup {padc})
  <2>1. 10 \in 2 .. 16  OBVIOUS
  <2> QED  BY Zenon, <1>1, <1>2, <1>3, <1>7, <2>1, NumberMeant
<1>9. Converts(IF v < 0 THEN <<"-">> \o n ELSE n)  BY Zenon, <1>2, <1>6, <1>7
<1> HIDE DEF n
<1>10. n \in Seq(S) /\ <<"-">> \in Seq(S)  BY <1>8
<1> HIDE DEF S
<1>11. <<>> \o n = n /\ <<"-">> \o n \in Seq(S)  BY <1>10
<1>12. Meaning(directive)' = (IF v < 0 THEN <<"-">> ELSE <<>>) \o n
  BY Zenon, <1>4, <1>5, <1>8 DEF Meaning
<1>13. CASE v < 0
  <2>1. Converts(<<"-">> \o n) /\ Meaning(directive)' = <<"-">> \o n
    BY Zenon, <1>9, <1>12, <1>13
  <2> QED  BY <1>1, <1>11, <2>1, ConversionEnds
<1>14. CASE ~(v < 0)
  <2>1. Converts(n) /\ Meaning(directive)' = n  BY Zenon, <1>9, <1>11, <1>12, <1>14
  <2> QED  BY <1>1, <1>10, <2>1, ConversionEnds
<1> QED  BY Zenon, <1>13, <1>14

LEMMA CharRight ==
  ASSUME Reading, ConvChar
  PROVE  DInv'
<1>1. ch \in Conversions /\ ch = "c"  BY DEF ConvChar, Conversions
<1>2. PICK v \in {"a", "ctl"} : Converts(<<v>>) /\ Take("char", v)  BY DEF ConvChar
<1>3. directive' = directive  BY <1>2 DEF Converts, given
<1>4. AtConversion /\ Value' = v  BY <1>1, <1>2, <1>3, ConversionTakes
<1>5. directive'.conv = "c"  BY <1>1, <1>3, <1>4 DEF AtConversion
<1>6. Meaning(directive)' = <<v>>  BY Zenon, <1>4, <1>5 DEF Meaning
<1>7. <<v>> \in Seq({v})  OBVIOUS
<1> QED  BY <1>1, <1>2, <1>6, <1>7, ConversionEnds

\* Without a width, a number is printed as its numeral.
LEMMA NumberAlone ==
  ASSUME NEW n \in Nat, NEW p
  PROVE  printnum(n, 10, -1, p) = Numeral(n, 10)
<1> DEFINE N == Numeral(n, 10)
<1>1. N \in Seq(Glyph) /\ Len(N) \in Nat
  <2>1. 10 \in 2 .. 16  OBVIOUS
  <2> QED  BY <2>1, NumeralType
<1>2. 10 \in 2 .. 16 /\ -1 \in Int  OBVIOUS
<1>3. printnum(n, 10, -1, p) = Padded(n, 10, -1, p)  BY <1>2, PrintnumIs
<1>4. Repeat(p, -1 - Len(N)) = <<>>
  <2> DEFINE T == {p}
  <2>1. p \in T /\ -1 - Len(N) \in Int /\ -1 - Len(N) <= 0  BY <1>1
  <2> HIDE DEF T, N
  <2> QED  BY <2>1, RepeatIs
<1>5. Padded(n, 10, -1, p) = <<>> \o N  BY <1>4 DEF Padded
<1> HIDE DEF N
<1>6. printnum(n, 10, -1, p) = N  BY <1>1, <1>3, <1>5
<1> QED  BY <1>6 DEF N

\* %e: an error without a message has its number printed.
LEMMA ErrorTextIs ==
  ASSUME NEW n \in Nat
  PROVE  /\ ErrorText(n) = IF n \in 1 .. MAXERROR - 1 THEN <<"message", Digits[n + 1]>>
                           ELSE (<<"error">> \o <<>>) \o Numeral(n, 10)
         /\ ErrorText(n) \in Seq(Glyph \cup {"message", "error", Digits[n + 1]})
<1> DEFINE N == Numeral(n, 10)
           S == Glyph \cup {"message", "error", Digits[n + 1]}
<1>1. N \in Seq(Glyph) /\ Len(N) \in Nat
  <2>1. 10 \in 2 .. 16  OBVIOUS
  <2> QED  BY <2>1, NumeralType
<1>2. \A p : printnum(n, 10, -1, p) = N  BY NumberAlone
<1>3. Abs(n) = n /\ ~(n < 0)  BY DEF Abs
<1>4. <<"error">> \in Seq(S) /\ N \in Seq(S) /\ <<"message", Digits[n + 1]>> \in Seq(S)
  BY <1>1
<1> HIDE DEF S, N
<1>5. (<<"error">> \o <<>>) \o N \in Seq(S)
  BY <1>4
<1>6. ErrorText(n) = IF n \in 1 .. MAXERROR - 1 THEN <<"message", Digits[n + 1]>>
                     ELSE (<<"error">> \o <<>>) \o N
  <2>1. ErrorText(n) = IF n \in 1 .. MAXERROR - 1 THEN <<"message", Digits[n + 1]>>
                       ELSE (<<"error">> \o <<>>) \o printnum(n, 10, -1, " ")
    BY Zenon, <1>3 DEF ErrorText
  <2>2. printnum(n, 10, -1, " ") = N  BY Zenon, <1>2
  <2> QED  BY Zenon, <2>1, <2>2
<1>7. ErrorText(n) \in Seq(S)  BY Zenon, <1>4, <1>5, <1>6
<1> QED  BY Zenon, <1>6, <1>7 DEF N, S

\* The number of a negative error has its sign.
LEMMA NegativeErrorIs ==
  ASSUME NEW n \in Nat, n > 0
  PROVE  /\ ErrorText(-n) = (<<"error">> \o <<"-">>) \o Numeral(n, 10)
         /\ ErrorText(-n) \in Seq(Glyph \cup {"error", "-"})
<1> DEFINE N == Numeral(n, 10)
           S == Glyph \cup {"error", "-"}
<1>1. N \in Seq(Glyph) /\ Len(N) \in Nat
  <2>1. 10 \in 2 .. 16  OBVIOUS
  <2> QED  BY <2>1, NumeralType
<1>2. \A p : printnum(n, 10, -1, p) = N  BY NumberAlone
<1>3. Abs(-n) = n /\ -n < 0 /\ -n \notin 1 .. MAXERROR - 1  BY DEF Abs
<1>4. N \in Seq(S)  BY <1>1
<1> HIDE DEF S, N
<1>5. ErrorText(-n) = (<<"error">> \o <<"-">>) \o printnum(n, 10, -1, " ")
  BY Zenon, <1>3 DEF ErrorText
<1>6. printnum(n, 10, -1, " ") = N  BY Zenon, <1>2
<1>7. <<"error">> \o <<"-">> \in Seq(S)  BY DEF S
<1>8. (<<"error">> \o <<"-">>) \o N \in Seq(S)  BY <1>4, <1>7
<1>9. ErrorText(-n) = (<<"error">> \o <<"-">>) \o N  BY Zenon, <1>5, <1>6
<1> QED  BY Zenon, <1>8, <1>9 DEF N, S

LEMMA ErrorRight ==
  ASSUME Reading, ConvError
  PROVE  DInv'
<1>1. ch \in Conversions /\ ch = "e"  BY DEF ConvError, Conversions
<1>2. PICK v \in Int2(W) :
        /\ Take("int", v)
        /\ Converts(ErrorText(IF v = -Power(2, W - 1) THEN v ELSE Abs(v)))
  BY DEF ConvError
<1>3. directive' = directive  BY <1>2 DEF Converts, given
<1>4. AtConversion /\ Value' = v  BY <1>1, <1>2, <1>3, ConversionTakes
<1>5. directive'.conv = "e"  BY <1>1, <1>3, <1>4 DEF AtConversion
<1>6. v \in Int  BY <1>2, WidthsOfInt DEF Int2
<1>7. Abs(v) \in Nat  BY <1>6 DEF Abs
<1>8. Meaning(directive)' = IF Abs(v) \in 1 .. MAXERROR - 1 /\ v # -Power(2, W - 1)
                            THEN <<"message", Digits[Abs(v) + 1]>>
                            ELSE (<<"error">> \o (IF v = -Power(2, W - 1) THEN <<"-">> ELSE <<>>))
                                 \o Numeral(Abs(v), 10)
  BY Zenon, <1>4, <1>5 DEF Meaning
<1>9. CASE v = -Power(2, W - 1)
  <2>1. Power(2, W - 1) \in Nat /\ Power(2, W - 1) > 0
    <3>1. W - 1 \in Nat  BY PrintfAssumption
    <3> QED  BY <3>1, PowerPositive
  <2>2. PICK n \in Nat : n = Power(2, W - 1) /\ n > 0  BY <2>1
  <2>3. v = -n /\ Abs(v) = n  BY <1>9, <2>2 DEF Abs
  <2>4. Converts(ErrorText(-n))  BY <1>2, <1>9, <2>3
  <2>5. Meaning(directive)' = ErrorText(-n)
    <3>1. ErrorText(-n) = (<<"error">> \o <<"-">>) \o Numeral(n, 10)  BY <2>2, NegativeErrorIs
    <3> QED  BY Zenon, <1>8, <1>9, <2>3, <3>1
  <2>6. \E S : ErrorText(-n) \in Seq(S)  BY <2>2, NegativeErrorIs
  <2> QED  BY <1>1, <2>4, <2>5, <2>6, ConversionEnds
<1>10. CASE v # -Power(2, W - 1)
  <2>1. Converts(ErrorText(Abs(v)))  BY <1>2, <1>10
  <2>2. Meaning(directive)' = ErrorText(Abs(v))  BY Zenon, <1>7, <1>8, <1>10, ErrorTextIs
  <2>3. \E S : ErrorText(Abs(v)) \in Seq(S)  BY <1>7, ErrorTextIs
  <2> QED  BY <1>1, <2>1, <2>2, <2>3, ConversionEnds
<1> QED  BY Zenon, <1>9, <1>10

\* %s: the string, or what stands for the null pointer, cut at the precision.
LEMMA StringFieldIs ==
  ASSUME AtConversion, directive.conv = "s", NEW f, SameWidth(width, f),
         NEW v, FieldOf(directive)' = f, directive' = directive, Value' = v,
         NEW T, NEW text \in Seq(T), text = IF v = NULL THEN <<"(", "n", "u", "l", "l", ")">> ELSE v
  PROVE  StringField(text) = Meaning(directive)' /\ \E S : StringField(text) \in Seq(S)
<1> DEFINE d == directive
           n == IF precision < 0 \/ precision > Len(text) THEN Len(text) ELSE precision
           m == IF d.prec = 0 THEN Len(text) ELSE Min({d.prec, Len(text)})
           g == [k \in 1 .. n |-> IF altflag = 1 /\ text[k] \in Unprintable THEN "?" ELSE text[k]]
           h == [k \in 1 .. m |-> IF d.alt /\ text[k] = "ctl" THEN "?" ELSE text[k]]
           S == T \cup {"?"}
<1>1. /\ d \in Directives /\ padc = d.pad /\ altflag = IF d.alt THEN 1 ELSE 0
      /\ precision = IF d.prec = 0 THEN -1 ELSE d.prec
  BY DEF AtConversion
<1>2. d.prec \in 0 .. 9 /\ Len(text) \in Nat  BY <1>1, DirectiveIs
<1>3. m = n /\ n \in Nat /\ n <= Len(text)
  <2>1. m = IF d.prec = 0 THEN Len(text) ELSE IF d.prec <= Len(text) THEN d.prec ELSE Len(text)
    BY <1>2, MinOf
  <2> HIDE DEF m
  <2> QED  BY <1>1, <1>2, <2>1
<1> HIDE DEF m, n
<1>4. g = h
  <2>1. altflag = 1 <=> d.alt  BY <1>1
  <2>2. \A x : x \in Unprintable <=> x = "ctl"  BY DEF Unprintable
  <2> QED  BY <1>3, <2>1, <2>2
<1>5. g \in Seq(S) /\ Len(g) = n
  <2>1. \A k \in 1 .. n : g[k] \in S
    <3>1. \A k \in 1 .. n : text[k] \in T  BY <1>2, <1>3
    <3> QED  BY <3>1
  <2> QED  BY <1>3, <2>1
<1> HIDE DEF g, h, d
<1>6. StringField(text) = IF padc # "-" THEN Repeat(padc, width - n) \o g
                          ELSE g \o Repeat(" ", width - n)
  BY Zenon DEF StringField, n, g
<1>7. Shown(directive', Value') = g
  <2>1. Shown(directive', v) = h  BY Zenon DEF Shown, h, m, d
  <2> QED  BY Zenon, <1>4, <2>1
<1>8. Meaning(directive)' = IF padc = "-" THEN g \o Repeat(" ", f - Len(g))
                            ELSE Repeat(padc, f - Len(g)) \o g
  <2>1. directive'.conv = "s"  BY Zenon
  <2>2. directive'.pad = padc  BY Zenon, <1>1 DEF d
  <2> QED  BY Zenon, <1>7, <2>1, <2>2 DEF Meaning
<1>9. \A p : Repeat(p, width - n) = Repeat(p, f - Len(g))
  <2>1. Len(g) = n /\ n \in Nat  BY <1>3, <1>5
  <2> QED  BY <2>1, SamePadding
<1>10. StringField(text) = Meaning(directive)'  BY Zenon, <1>6, <1>8, <1>9
<1>11. \A p : /\ g \o Repeat(p, width - n) \in Seq(S \cup {p})
             /\ Repeat(p, width - n) \o g \in Seq(S \cup {p})
  <2> TAKE p
  <2> DEFINE U == S \cup {p}
  <2>1. g \in Seq(U) /\ p \in U  BY <1>5
  <2>2. width - n \in Int  BY <1>3, SamePadding
  <2> HIDE DEF U
  <2>3. Repeat(p, width - n) \in Seq(U)  BY <2>1, <2>2, RepeatIs
  <2>4. g \o Repeat(p, width - n) \in Seq(U) /\ Repeat(p, width - n) \o g \in Seq(U)
    BY <2>1, <2>3
  <2> QED  BY <2>4 DEF U
<1>12. \E U : StringField(text) \in Seq(U)  BY Zenon, <1>6, <1>11
<1> QED  BY Zenon, <1>10, <1>12

LEMMA StringRight ==
  ASSUME Reading, ConvString
  PROVE  DInv'
<1>1. ch \in Conversions /\ ch = "s"  BY DEF ConvString, Conversions
<1>2. PICK v \in Strings \cup {NULL} :
        /\ Take("string", v)
        /\ Converts(StringField(IF v = NULL THEN <<"(", "n", "u", "l", "l", ")">> ELSE v))
  BY DEF ConvString
<1> DEFINE text == IF v = NULL THEN <<"(", "n", "u", "l", "l", ")">> ELSE v
           T == Char \cup {"(", "n", "u", "l", ")"}
<1>3. directive' = directive  BY <1>2 DEF Converts, given
<1>4. AtConversion /\ Value' = v /\ SameWidth(width, FieldOf(directive)')
  BY <1>1, <1>2, <1>3, ConversionTakes
<1>5. directive.conv = "s"  BY <1>1, <1>4 DEF AtConversion
<1>6. text \in Seq(T)
  <2>1. CASE v = NULL
    <3>1. <<"(", "n", "u", "l", "l", ")">> \in Seq(T)  OBVIOUS
    <3> QED  BY Zenon, <2>1, <3>1
  <2>2. CASE v # NULL
    <3>1. v \in Seq(Char)  BY <1>2, <2>2, PrintfAssumption
    <3>2. v \in Seq(T)  BY <3>1
    <3> QED  BY Zenon, <2>2, <3>2
  <2> QED  BY <2>1, <2>2
<1>7. PICK f : f = FieldOf(directive)'  OBVIOUS
<1>8. PICK tx : tx = text  OBVIOUS
<1>9. Converts(StringField(tx))  BY Zenon, <1>2, <1>8
<1> HIDE DEF T
<1>10. StringField(tx) = Meaning(directive)' /\ \E S : StringField(tx) \in Seq(S)
  <2>1. SameWidth(width, f)  BY Zenon, <1>4, <1>7
  <2>2. tx \in Seq(T) /\ tx = IF v = NULL THEN <<"(", "n", "u", "l", "l", ")">> ELSE v
    BY Zenon, <1>6, <1>8
  <2> QED  BY Zenon, <1>3, <1>4, <1>5, <1>7, <2>1, <2>2, StringFieldIs
<1> HIDE DEF text
<1> QED  BY <1>1, <1>9, <1>10, ConversionEnds

\* The characters are printed one by one, up to the end of the format.
LEMMA PutchRight ==
  ASSUME DInv, directive # NULL, Putch
  PROVE  DInv'
<1>1. Behind /\ directive \in Directives /\ fmt = Render(directive)
  <2>1. loop = "putch"  BY DEF Putch
  <2> QED  BY <2>1, LoopOf
<1>2. /\ out' = Append(out, Head(todo)) /\ todo' = Tail(todo)
      /\ loop' = (IF Tail(todo) = <<>> THEN "text" ELSE "putch")
      /\ pos' = pos /\ directive' = directive /\ fmt' = fmt /\ taken' = taken
  BY DEF Putch, given
<1>3. Right'
  <2>0. loop = "putch"  BY DEF Putch
  <2>1. CASE Excepted
    <3>1. Excepted'  BY <1>2, <2>1 DEF Excepted
    <3> QED  BY <3>1 DEF Right
  <2>2. CASE ~Excepted
    <3>1. Right  BY <1>1 DEF Behind
    <3>2. PICK S : out \in Seq(S) /\ todo \in Seq(S)  BY <2>2, <3>1 DEF Right
    <3>3. out \o todo = Meaning(directive)  BY <2>2, <3>1 DEF Right
    <3>4. todo # <<>>  BY <1>1, <2>0 DEF Behind
    <3>5. out' \in Seq(S) /\ todo' \in Seq(S) /\ out' \o todo' = out \o todo
      BY <1>2, <3>2, <3>4
    <3>6. Meaning(directive)' = Meaning(directive)
      BY Zenon, <1>2 DEF Meaning, Value, PadTo, FieldOf
    <3>7. (\E U : out \in Seq(U) /\ todo \in Seq(U))'  BY Zenon, <3>5
    <3> QED  BY Zenon, <3>3, <3>5, <3>6, <3>7 DEF Right
  <2> QED  BY <2>1, <2>2
<1>4. loop' \in {"text", "putch"} /\ (loop' = "text" <=> todo' = <<>>)  BY <1>2
<1>5. Behind'  BY Zenon, <1>1, <1>2, <1>3, <1>4 DEF Behind
<1> QED  BY Zenon, <1>1, <1>2, <1>5 DEF DInv

\* The end of the format is behind the directive, when all is printed.
LEMMA EndRight ==
  ASSUME DInv, directive # NULL, EndOfFormat
  PROVE  DInv'
<1>1. Behind /\ directive \in Directives /\ fmt = Render(directive)
  <2>1. loop = "text" /\ ch = NUL  BY Zenon DEF EndOfFormat
  <2>2. ~(NUL = "%")  BY DEF NUL
  <2> QED  BY <2>1, <2>2, LoopOf
<1>2. /\ loop' = "done" /\ loop = "text" /\ out' = out
      /\ directive' = directive /\ fmt' = fmt /\ taken' = taken
  BY DEF EndOfFormat, given, sink
<1>3. Excepted \/ out = Meaning(directive)
  <2>1. ASSUME ~Excepted  PROVE out = Meaning(directive)
    <3>1. Right /\ todo = <<>>  BY <1>1, <1>2 DEF Behind
    <3>2. PICK S : out \in Seq(S)  BY <2>1, <3>1 DEF Right
    <3>3. out \o <<>> = Meaning(directive)  BY <2>1, <3>1 DEF Right
    <3>4. out \o <<>> = out  BY <3>2
    <3> QED  BY <3>3, <3>4
  <2> QED  BY <2>1
<1>4. Excepted => Excepted'  BY <1>2 DEF Excepted
<1>5. Meaning(directive)' = Meaning(directive)
  BY Zenon, <1>2 DEF Meaning, Value, PadTo, FieldOf
<1>6. Ended'  BY Zenon, <1>2, <1>3, <1>4, <1>5 DEF Ended
<1> QED  BY Zenon, <1>1, <1>2, <1>6 DEF DInv

\* Every step keeps the invariant: of the steps of the switch, the only one that
\* can be taken is the one for the place that has been reached.
LEMMA DirectiveNext == DInv /\ [PrintNext]_printVars => DInv'
<1> SUFFICES ASSUME DInv, [PrintNext]_printVars  PROVE DInv'
  OBVIOUS
<1>1. CASE UNCHANGED printVars
  <2>1. /\ directive' = directive /\ fmt' = fmt /\ pos' = pos /\ todo' = todo /\ out' = out
        /\ taken' = taken /\ ret' = ret /\ loop' = loop /\ padc' = padc /\ width' = width
        /\ precision' = precision /\ altflag' = altflag
    BY <1>1 DEF printVars, given, flags, sink
  <2>2. Excepted' = Excepted /\ Meaning(directive)' = Meaning(directive)
    BY Zenon, <2>1 DEF Excepted, Meaning, Value, PadTo, FieldOf
  <2>3. Right' = Right  BY Zenon, <2>1, <2>2 DEF Right
  <2>4. /\ InFront' = InFront /\ Reading' = Reading /\ Behind' = Behind /\ Ended' = Ended
    BY Zenon, <2>1, <2>2, <2>3 DEF InFront, Reading, ReadPart, Behind, Ended
  <2> QED  BY Zenon, <2>1, <2>4 DEF DInv
<1>2. CASE PrintNext /\ directive = NULL
  <2>1. directive' = directive
    BY <1>2 DEF PrintNext, Putch, Literal, EndOfFormat, Percent, Flag, Pad, Digit, Star, Dot, Alt,
                Long, NextChar, Conversion, ConvChar, ConvError, ConvString, ConvSigned,
                ConvUnsigned, ConvPointer, ConvPercent, Converts, Unknown, given
  <2> QED  BY <1>2, <2>1 DEF DInv
<1>3. CASE PrintNext /\ directive # NULL
  <2>1. loop = "switch" => Reading  BY <1>3, LoopOf
  <2>2. CASE Putch        BY <1>3, <2>2, PutchRight
  <2>3. CASE Literal
    <3>1. loop = "text" /\ ch # "%" /\ ch # NUL  BY <2>3 DEF Literal
    <3> QED  BY <1>3, <3>1, LoopOf
  <2>4. CASE EndOfFormat  BY <1>3, <2>4, EndRight
  <2>5. CASE Percent      BY <1>3, <2>5, PercentRight
  <2>6. CASE Pad          BY <2>1, <2>6, PadRight DEF Pad
  <2>7. CASE Digit        BY <2>1, <2>7, DigitRight DEF Digit
  <2>8. CASE Star         BY <2>1, <2>8, StarRight DEF Star
  <2>9. CASE Dot          BY <2>1, <2>9, DotRight DEF Dot
  <2>10. CASE Alt         BY <2>1, <2>10, AltRight DEF Alt
  <2>11. CASE Long        BY <2>1, <2>11, LongRight DEF Long
  <2>12. CASE ConvChar      BY <2>1, <2>12, CharRight DEF ConvChar
  <2>13. CASE ConvError     BY <2>1, <2>13, ErrorRight DEF ConvError
  <2>14. CASE ConvString    BY <2>1, <2>14, StringRight DEF ConvString
  <2>15. CASE ConvSigned    BY <2>1, <2>15, SignedRight DEF ConvSigned
  <2>16. CASE ConvUnsigned  BY <2>1, <2>16, UnsignedRight DEF ConvUnsigned
  <2>17. CASE ConvPointer   BY <2>1, <2>17, PointerRight DEF ConvPointer
  <2>18. CASE ConvPercent
    <3>1. Reading  BY <2>1, <2>18 DEF ConvPercent
    <3> QED  BY <2>18, <3>1, NotUnknown
  <2>19. CASE Unknown
    <3>1. Reading  BY <2>1, <2>19 DEF Unknown
    <3> QED  BY <2>19, <3>1, NotUnknown
  <2> QED
    BY <1>3, <2>2, <2>3, <2>4, <2>5, <2>6, <2>7, <2>8, <2>9, <2>10, <2>11, <2>12, <2>13, <2>14,
       <2>15, <2>16, <2>17, <2>18, <2>19 DEF PrintNext, Flag, Conversion
<1> QED  BY <1>1, <1>2, <1>3

\* A proper conversion prints what it means, for every value of every length,
\* every width, precision and number of bits, with the two exceptions that the
\* property names (lib/printfmt.c:82-245).
THEOREM MeaningTheorem == PrintSpec => []DirectivePrintsMeaning
<1>1. DInv => DirectivePrintsMeaning
  <2> SUFFICES ASSUME DInv, loop = "done", directive # NULL, ret # -3
               PROVE  Excepted \/ out = Meaning(directive)
    BY Zenon DEF DirectivePrintsMeaning, Excepted
  <2>1. Ended  BY DEF DInv, InFront, Reading, Behind
  <2> QED  BY <2>1 DEF Ended
<1> QED  BY <1>1, DirectiveInit, DirectiveNext, PTL DEF PrintSpec
===============================================================================
