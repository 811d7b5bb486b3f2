---------------------------- MODULE Keyboard_proofs ----------------------------
(***************************************************************************)
(* What holds of the keyboard driver for every keyboard, every capacity of *)
(* the controller and every number of bytes that are not from the          *)
(* keyboard.                                                               *)
(***************************************************************************)
EXTENDS Keyboard, SequenceTheorems, TLAPS

-----------------------------------------------------------------------------
(* The tables.                                                             *)

\* shiftcode holds modifier flags, at the keys of the tables, togglecode locks.
LEMMA Codes ==
  ASSUME NEW k \in Byte
  PROVE  /\ shiftcode[k] \subseteq Modifiers
         /\ togglecode[k] \subseteq Locks
         /\ "CTL" \in shiftcode[k] <=> k \in {29, 157}
         /\ "ALT" \in shiftcode[k] <=> k \in {56, 184}
         /\ k \notin {29, 157, 42, 54, 56, 184} => shiftcode[k] = {}
         /\ k \notin {58, 69, 70} => togglecode[k] = {}
<1>1. shiftcode[k] = IF k \in {29, 157} THEN {"CTL"}
                     ELSE IF k \in {42, 54} THEN {"SHIFT"}
                     ELSE IF k \in {56, 184} THEN {"ALT"} ELSE {}
  BY DEF shiftcode
<1>2. togglecode[k] = IF k = 58 THEN {"CAPSLOCK"}
                      ELSE IF k = 69 THEN {"NUMLOCK"}
                      ELSE IF k = 70 THEN {"SCROLLLOCK"} ELSE {}
  BY DEF togglecode
<1>3. k \in Int  BY DEF Byte
<1>4. /\ shiftcode[k] \subseteq Modifiers
      /\ "CTL" \in shiftcode[k] <=> k \in {29, 157}
      /\ "ALT" \in shiftcode[k] <=> k \in {56, 184}
      /\ k \notin {29, 157, 42, 54, 56, 184} => shiftcode[k] = {}
  BY <1>1, <1>3 DEF Modifiers
<1> QED  BY <1>2, <1>3, <1>4 DEF Locks

\* The arrow block.
LEMMA Arrows ==
  \A i \in 1 .. 12 : /\ arrows[i] \in {NO} \cup 225 .. 233
                     /\ arrows[i] = KEY_DEL <=> i = 12
BY DEF arrows, NO, KEY_UP, KEY_PGUP, KEY_LF, KEY_RT, KEY_END, KEY_DN, KEY_PGDN,
       KEY_INS, KEY_DEL

\* The keypad and the other named entries.
LEMMA Named ==
  /\ \A i \in 1 .. 13 : keypad[i] \in 43 .. 57
  /\ \A k \in DOMAIN others : others[k] \in {10, KEY_HOME} \cup 43 .. 57
<1>1. \A i \in 1 .. 13 : keypad[i] \in 43 .. 57  BY DEF keypad
<1>2. ASSUME NEW k \in DOMAIN others  PROVE others[k] \in {10, KEY_HOME} \cup 43 .. 57
  <2>1. CASE k \in 71 .. 83
    <3>1. k - 70 \in 1 .. 13 /\ others[k] = keypad[k - 70]  BY <2>1 DEF others
    <3> QED  BY <1>1, <3>1
  <2>2. CASE k \in {156, 181, 199}  BY <2>2 DEF others
  <2> QED  BY <2>1, <2>2 DEF others
<1> QED  BY <1>1, <1>2

\* The rows.
LEMMA RowLengths == Len(normalrow) = 58 /\ Len(shiftrow) = 58 /\ Len(ctlrow) = 56
<1>1. Len(normalrow) = 58  BY DEF normalrow
<1>2. Len(shiftrow) = 58  BY DEF shiftrow
<1>3. Len(ctlrow) = 56  BY DEF ctlrow
<1> QED  BY <1>1, <1>2, <1>3

LEMMA NormalRow == \A i \in 1 .. 58 : normalrow[i] \in 0 .. 122
BY DEF normalrow, NO

LEMMA ShiftRow == \A i \in 1 .. 58 : shiftrow[i] \in 0 .. 126
BY DEF shiftrow, NO

LEMMA CtlRow == \A i \in 1 .. 56 : ctlrow[i] \in {239} \cup 0 .. 28
BY DEF ctlrow, NO

\* An entry of a table is one of its row, one of the arrow block, one of the
\* named entries, or NO.
LEMMA Entries ==
  ASSUME NEW k \in Byte
  PROVE  /\ normalmap[k] = IF k < 58 THEN normalrow[k + 1]
                           ELSE IF k \in 200 .. 211 THEN arrows[k - 199]
                           ELSE IF k \in DOMAIN others THEN others[k] ELSE NO
         /\ shiftmap[k] = IF k < 58 THEN shiftrow[k + 1]
                          ELSE IF k \in 200 .. 211 THEN arrows[k - 199]
                          ELSE IF k \in DOMAIN others THEN others[k] ELSE NO
         /\ ctlmap[k] = IF k < 56 THEN ctlrow[k + 1]
                        ELSE IF k \in 200 .. 211 THEN arrows[k - 199]
                        ELSE IF k = 151 THEN KEY_HOME ELSE IF k = 181 THEN 239 ELSE NO
<1>1. Len(normalrow) = 58 /\ Len(shiftrow) = 58 /\ Len(ctlrow) = 56  BY RowLengths
<1>2. normalmap[k] = IF k < 58 THEN normalrow[k + 1]
                     ELSE IF k \in 200 .. 211 THEN arrows[k - 199]
                     ELSE IF k \in DOMAIN others THEN others[k] ELSE NO
  BY <1>1 DEF normalmap, Table
<1>3. shiftmap[k] = IF k < 58 THEN shiftrow[k + 1]
                    ELSE IF k \in 200 .. 211 THEN arrows[k - 199]
                    ELSE IF k \in DOMAIN others THEN others[k] ELSE NO
  BY <1>1 DEF shiftmap, Table
<1>4. ctlmap[k] = IF k < 56 THEN ctlrow[k + 1]
                  ELSE IF k \in 200 .. 211 THEN arrows[k - 199]
                  ELSE IF k = 151 THEN KEY_HOME ELSE IF k = 181 THEN 239 ELSE NO
  BY <1>1 DEF ctlmap, Table
<1> QED  BY <1>2, <1>3, <1>4

\* The three tables hold bytes, and the delete key in one place only.
LEMMA Tables ==
  ASSUME NEW k \in Byte
  PROVE  /\ normalmap[k] \in Byte /\ (normalmap[k] = KEY_DEL <=> k = 211)
         /\ shiftmap[k] \in Byte /\ (shiftmap[k] = KEY_DEL <=> k = 211)
         /\ ctlmap[k] \in Byte /\ (ctlmap[k] = KEY_DEL <=> k = 211)
<1>1. k \in 0 .. 255  BY DEF Byte
<1>2. k < 58 => k + 1 \in 1 .. 58 /\ k # 211  BY <1>1
<1>3. k < 56 => k + 1 \in 1 .. 56 /\ k # 211  BY <1>1
<1>4. k \in 200 .. 211 => /\ arrows[k - 199] \in {NO} \cup 225 .. 233
                          /\ arrows[k - 199] = KEY_DEL <=> k = 211
  <2> SUFFICES ASSUME k \in 200 .. 211
               PROVE  /\ arrows[k - 199] \in {NO} \cup 225 .. 233
                      /\ arrows[k - 199] = KEY_DEL <=> k = 211
    OBVIOUS
  <2>1. k - 199 \in 1 .. 12 /\ (k - 199 = 12 <=> k = 211)  OBVIOUS
  <2> QED  BY <2>1, Arrows
<1>5. CASE k \in 200 .. 211
  <2>1. /\ normalmap[k] = arrows[k - 199] /\ shiftmap[k] = arrows[k - 199]
        /\ ctlmap[k] = arrows[k - 199]
    BY <1>5, Entries
  <2>2. arrows[k - 199] \in Byte  BY <1>4, <1>5 DEF Byte, NO
  <2> QED  BY <1>4, <1>5, <2>1, <2>2
<1>6. CASE k \notin 200 .. 211
  <2> DEFINE Plain == {NO, 10, 239, KEY_HOME} \cup 0 .. 126
  <2>1. \A c \in Plain : c \in Byte /\ c # KEY_DEL
    BY DEF Byte, NO, KEY_DEL, KEY_HOME
  <2>2. k # 211  BY <1>6
  <2>3. normalmap[k] \in Plain /\ shiftmap[k] \in Plain
    <3>1. CASE k < 58
      <4>1. normalmap[k] = normalrow[k + 1] /\ shiftmap[k] = shiftrow[k + 1]
        BY <3>1, Entries
      <4>2. PICK i \in 1 .. 58 : i = k + 1  BY <1>2, <3>1
      <4>3. normalrow[i] \in 0 .. 122  BY NormalRow
      <4>4. shiftrow[i] \in 0 .. 126  BY ShiftRow
      <4> QED  BY <4>1, <4>2, <4>3, <4>4
    <3>2. CASE ~(k < 58) /\ k \in DOMAIN others
      <4>1. normalmap[k] = others[k] /\ shiftmap[k] = others[k]  BY <1>6, <3>2, Entries
      <4>2. others[k] \in {10, KEY_HOME} \cup 43 .. 57  BY <3>2, Named
      <4> QED  BY <4>1, <4>2
    <3>3. CASE ~(k < 58) /\ k \notin DOMAIN others
      BY <1>6, <3>3, Entries
    <3> QED  BY <3>1, <3>2, <3>3
  <2>4. ctlmap[k] \in Plain
    <3>1. CASE k < 56
      <4>1. ctlmap[k] = ctlrow[k + 1]  BY <3>1, Entries
      <4>2. PICK i \in 1 .. 56 : i = k + 1  BY <1>3, <3>1
      <4>3. ctlrow[i] \in {239} \cup 0 .. 28  BY CtlRow
      <4> QED  BY <4>1, <4>2, <4>3
    <3>2. CASE ~(k < 56)  BY <1>6, <3>2, Entries
    <3> QED  BY <3>1, <3>2
  <2> HIDE DEF Plain
  <2> QED  BY <2>1, <2>2, <2>3, <2>4
<1> QED  BY <1>5, <1>6

\* The indices of the letters in the tables.
Letters == (16 .. 25) \cup (30 .. 38) \cup (44 .. 50)

\* The letters of the three rows.
LEMMA LetterRows ==
  ASSUME NEW i \in 1 .. 58
  PROVE  /\ normalrow[i] \in Lower <=> i - 1 \in Letters
         /\ i - 1 \in Letters => /\ shiftrow[i] = normalrow[i] - 32
                                 /\ ctlrow[i] = normalrow[i] - 96
<1>1. normalrow[i] \in Lower <=> i - 1 \in Letters
  BY DEF normalrow, NO, Lower, Letters
<1>2. i - 1 \in Letters => shiftrow[i] = normalrow[i] - 32
  BY DEF normalrow, shiftrow, NO, Letters
<1>3. i - 1 \in Letters => ctlrow[i] = normalrow[i] - 96
  BY DEF normalrow, ctlrow, NO, Letters
<1> QED  BY <1>1, <1>2, <1>3

\* A key that gives a lower-case letter gives its upper case with Shift and its
\* control code with Ctrl, and is no modifier or lock.
LEMMA LetterKeys ==
  ASSUME NEW k \in Byte, normalmap[k] \in Lower
  PROVE  /\ shiftmap[k] = normalmap[k] - 32
         /\ ctlmap[k] = normalmap[k] - 96
         /\ shiftcode[k] = {} /\ togglecode[k] = {}
<1>1. k \in Int /\ 0 <= k  BY DEF Byte
<1>2. k < 58
  <2> SUFFICES ASSUME k >= 58  PROVE FALSE  BY <1>1
  <2>1. CASE k \in 200 .. 211
    <3>1. k - 199 \in 1 .. 12 /\ normalmap[k] = arrows[k - 199]  BY <2>1, Entries
    <3>2. arrows[k - 199] \in {NO} \cup 225 .. 233  BY <3>1, Arrows
    <3> QED  BY <3>1, <3>2 DEF Lower, NO
  <2>2. CASE k \notin 200 .. 211
    <3>1. normalmap[k] = IF k \in DOMAIN others THEN others[k] ELSE NO
      BY <1>1, <2>2, Entries
    <3>2. normalmap[k] = NO \/ normalmap[k] \in {10, KEY_HOME} \cup 43 .. 57
      BY <3>1, Named
    <3> QED  BY <3>2 DEF KEY_HOME, NO, Lower
  <2> QED  BY <2>1, <2>2
<1>3. k + 1 \in 1 .. 58 /\ (k + 1) - 1 = k  BY <1>1, <1>2
<1>4. normalmap[k] = normalrow[k + 1] /\ shiftmap[k] = shiftrow[k + 1]
  BY <1>2, Entries
<1>5. k \in Letters  BY <1>3, <1>4, LetterRows
<1>6. ctlmap[k] = ctlrow[k + 1]
  <2>1. k < 56  BY <1>5 DEF Letters
  <2> QED  BY <2>1, Entries
<1>7. shiftcode[k] = {} /\ togglecode[k] = {}
  BY <1>5, Codes DEF Letters
<1> QED  BY <1>3, <1>4, <1>5, <1>6, <1>7, LetterRows

-----------------------------------------------------------------------------
(* The inductive invariant: the controller holds whole events, an escape   *)
(* before exactly the bytes that need one, and E0ESC stands for the escape *)
(* that has been read.                                                     *)

Ends == {"press", "release"}

\* The bytes the controller can hold.
Finals == {Final(k, e) : k \in Keys, e \in Ends}
Sent   == {Prefix, Noise} \cup Finals

\* A byte that stands after an escape.
Escaped(d) == d.ends # "nothing" /\ d.key >= 128

\* The bytes of a sequence of events.
Whole(q) ==
  /\ \A i \in 1 .. Len(q) : q[i] \in Sent
  /\ \A i \in 1 .. Len(q) : q[i] = Prefix => i < Len(q)
  /\ \A i \in 2 .. Len(q) : Escaped(q[i]) <=> q[i - 1] = Prefix

IInv == TypeOK /\ Whole(fifo) /\ EscapeMatchesNextByte /\ ModifiersMatchKeys

\* What a byte of the controller is.
LEMMA SentBytes ==
  ASSUME NEW k \in Keys, NEW e \in Ends
  PROVE  /\ k \in Byte /\ k \in Int
         /\ Final(k, e) \in Datum
         /\ Final(k, e).ends = e /\ Final(k, e).key = k /\ ~Final(k, e).aux
         /\ Final(k, e) # Prefix
         /\ Final(k, e).byte # ESCAPE
         /\ e = "press"   => Final(k, e).byte = IF k < 128 THEN k ELSE k - 128
         /\ e = "press"   => Final(k, e).byte < 128
         /\ e = "release" => Final(k, e).byte = IF k < 128 THEN k + 128 ELSE k
         /\ e = "release" => Final(k, e).byte >= 128
         /\ Escaped(Final(k, e)) <=> k >= 128
<1>1. k \in 0 .. 255 /\ k # 96 /\ k # 224  BY KeysAssumption DEF Byte
<1>2. e = "press" \/ e = "release"  BY DEF Ends
<1>3. /\ Final(k, e).byte = (IF k < 128 THEN k ELSE k - 128) + (IF e = "release" THEN 128 ELSE 0)
      /\ Final(k, e).ends = e /\ Final(k, e).key = k /\ Final(k, e).aux = FALSE
  BY DEF Final
<1>4. /\ e = "press"   => Final(k, e).byte = IF k < 128 THEN k ELSE k - 128
      /\ e = "release" => Final(k, e).byte = IF k < 128 THEN k + 128 ELSE k
  BY <1>1, <1>3
<1>5. Final(k, e).byte \in Byte /\ Final(k, e).byte # ESCAPE
  BY <1>1, <1>2, <1>4 DEF Byte, ESCAPE
<1>6. Final(k, e) \in Datum
  BY <1>2, <1>3, <1>5 DEF Final, Datum
<1>7. Final(k, e) # Prefix  BY <1>2, <1>3 DEF Prefix
<1> QED  BY <1>1, <1>2, <1>3, <1>4, <1>5, <1>6, <1>7 DEF Byte, Escaped

LEMMA OtherBytes ==
  /\ Prefix \in Datum /\ Prefix.byte = ESCAPE /\ Prefix.ends = "nothing" /\ ~Prefix.aux
  /\ Noise \in Datum /\ Noise.aux /\ Noise.ends = "nothing" /\ Noise # Prefix
  /\ ~Escaped(Prefix) /\ ~Escaped(Noise)
BY DEF Prefix, Noise, Datum, Byte, ESCAPE, NO, Escaped

LEMMA InitHolds == Init => IInv
<1> SUFFICES ASSUME Init  PROVE IInv  OBVIOUS
<1> USE DEF Init
<1>1. TypeOK
  <2>1. fifo \in Seq(Datum)  OBVIOUS
  <2>2. mouse \in 0 .. MaxMouse  BY KeysAssumption
  <2>3. typed \in Byte  BY DEF NO, Byte
  <2> QED  BY <2>1, <2>2, <2>3 DEF TypeOK
<1>2. Whole(fifo)  BY DEF Whole
<1>3. EscapeMatchesNextByte  BY DEF EscapeMatchesNextByte
<1>4. ModifiersMatchKeys
  <2>1. ASSUME NEW m \in Modifiers  PROVE m \notin shift  OBVIOUS
  <2>2. \A m \in Modifiers, k \in Keys : KeysOf(m) = {k} => ~(KeysOf(m) \subseteq down)  OBVIOUS
  <2> QED  BY <2>1, <2>2 DEF ModifiersMatchKeys
<1> QED  BY <1>1, <1>2, <1>3, <1>4 DEF IInv

\* A byte is read, a byte or an escape and a byte are sent.
LEMMA WholeTail ==
  ASSUME NEW q \in Seq(Datum), q # <<>>, Whole(q)
  PROVE  /\ Whole(Tail(q)) /\ Tail(q) \in Seq(Datum)
         /\ Head(q) \in Sent
         /\ Head(q) = Prefix <=> Tail(q) # <<>> /\ Escaped(Head(Tail(q)))
<1>1. /\ Len(q) \in Nat \ {0} /\ Tail(q) \in Seq(Datum) /\ Len(Tail(q)) = Len(q) - 1
      /\ \A i \in 1 .. Len(q) - 1 : Tail(q)[i] = q[i + 1]
      /\ Head(q) = q[1]
  OBVIOUS
<1>2. PICK n \in Nat \ {0}, t \in Seq(Datum) : n = Len(q) /\ t = Tail(q)  BY <1>1
<1>3. Len(t) = n - 1 /\ \A i \in 1 .. n - 1 : t[i] = q[i + 1] /\ i + 1 \in 2 .. n /\ i + 1 \in 1 .. n
  BY <1>1, <1>2
<1>4. /\ \A i \in 1 .. n : q[i] \in Sent
      /\ \A i \in 1 .. n : q[i] = Prefix => i < n
      /\ \A i \in 2 .. n : Escaped(q[i]) <=> q[i - 1] = Prefix
  BY <1>2 DEF Whole
<1>5. Whole(t)
  <2>1. \A i \in 1 .. Len(t) : t[i] \in Sent  BY <1>3, <1>4
  <2>2. \A i \in 1 .. Len(t) : t[i] = Prefix => i < Len(t)  BY <1>3, <1>4
  <2>3. ASSUME NEW i \in 2 .. Len(t)  PROVE Escaped(t[i]) <=> t[i - 1] = Prefix
    <3>1. i \in 1 .. n - 1 /\ i - 1 \in 1 .. n - 1 /\ (i - 1) + 1 = i /\ (i + 1) - 1 = i
      BY <1>3
    <3>2. t[i] = q[i + 1] /\ t[i - 1] = q[i] /\ i + 1 \in 2 .. n  BY <1>3, <3>1
    <3> QED  BY <1>4, <3>1, <3>2
  <2> QED  BY <2>1, <2>2, <2>3 DEF Whole
<1>6. Head(q) \in Sent  BY <1>1, <1>2, <1>4
<1>7. Head(q) = Prefix <=> t # <<>> /\ Escaped(Head(t))
  <2>1. q[1] = Prefix => n > 1  BY <1>2, <1>4
  <2>2. t # <<>> <=> n > 1  BY <1>2, <1>3
  <2>3. ASSUME n > 1  PROVE Escaped(Head(t)) <=> q[1] = Prefix
    <3>1. 2 \in 2 .. n /\ 1 \in 1 .. n - 1 /\ 2 - 1 = 1 /\ 1 + 1 = 2  BY <2>3
    <3>2. Head(t) = q[2]  BY <1>3, <2>2, <2>3, <3>1
    <3> QED  BY <1>4, <3>1, <3>2
  <2> QED  BY <1>1, <2>1, <2>2, <2>3
<1> QED  BY <1>2, <1>5, <1>6, <1>7

LEMMA WholeAppend ==
  ASSUME NEW q \in Seq(Datum), Whole(q), NEW d \in Sent, d # Prefix, ~Escaped(d)
  PROVE  Whole(Append(q, d))
<1>1. PICK n \in Nat : n = Len(q)  OBVIOUS
<1>2. PICK t : t = Append(q, d)  OBVIOUS
<1>3. Len(t) = n + 1 /\ (\A i \in 1 .. n : t[i] = q[i]) /\ t[n + 1] = d
  BY <1>1, <1>2
<1>4. /\ \A i \in 1 .. n : q[i] \in Sent
      /\ \A i \in 1 .. n : q[i] = Prefix => i < n
      /\ \A i \in 2 .. n : Escaped(q[i]) <=> q[i - 1] = Prefix
  BY <1>1 DEF Whole
<1>5. \A i \in 1 .. n + 1 : i \in 1 .. n \/ i = n + 1  OBVIOUS
<1>6. \A i \in 1 .. n + 1 : t[i] \in Sent  BY <1>3, <1>4, <1>5
<1>7. \A i \in 1 .. n + 1 : t[i] = Prefix => i < n + 1  BY <1>3, <1>4, <1>5
<1>8. ASSUME NEW i \in 2 .. n + 1  PROVE Escaped(t[i]) <=> t[i - 1] = Prefix
  <2>1. i - 1 \in 1 .. n /\ t[i - 1] = q[i - 1]  BY <1>3
  <2>2. CASE i = n + 1  BY <1>3, <1>4, <2>1, <2>2
  <2>3. CASE i # n + 1
    <3>1. i \in 2 .. n /\ i \in 1 .. n  BY <2>3
    <3> QED  BY <1>3, <1>4, <2>1, <3>1
  <2> QED  BY <2>2, <2>3
<1> QED  BY <1>2, <1>3, <1>6, <1>7, <1>8 DEF Whole

LEMMA WholeEscaped ==
  ASSUME NEW q \in Seq(Datum), Whole(q), NEW d \in Sent, d # Prefix, Escaped(d)
  PROVE  Whole(q \o <<Prefix, d>>)
<1>1. PICK n \in Nat : n = Len(q)  OBVIOUS
<1>2. PICK t : t = q \o <<Prefix, d>>  OBVIOUS
<1>3. /\ Len(t) = n + 2 /\ (\A i \in 1 .. n : t[i] = q[i])
      /\ t[n + 1] = Prefix /\ t[n + 2] = d
  BY <1>1, <1>2
<1>4. /\ \A i \in 1 .. n : q[i] \in Sent
      /\ \A i \in 1 .. n : q[i] = Prefix => i < n
      /\ \A i \in 2 .. n : Escaped(q[i]) <=> q[i - 1] = Prefix
  BY <1>1 DEF Whole
<1>5. \A i \in 1 .. n + 2 : i \in 1 .. n \/ i = n + 1 \/ i = n + 2  OBVIOUS
<1>6. Prefix \in Sent /\ ~Escaped(Prefix)  BY OtherBytes DEF Sent
<1>7. \A i \in 1 .. n + 2 : t[i] \in Sent  BY <1>3, <1>4, <1>5, <1>6
<1>8. \A i \in 1 .. n + 2 : t[i] = Prefix => i < n + 2  BY <1>3, <1>4, <1>5
<1>9. ASSUME NEW i \in 2 .. n + 2  PROVE Escaped(t[i]) <=> t[i - 1] = Prefix
  <2>1. CASE i = n + 2
    <3>1. i - 1 = n + 1  BY <2>1
    <3> QED  BY <1>3, <2>1, <3>1
  <2>2. CASE i = n + 1
    <3>1. i - 1 = n /\ n \in 1 .. n  BY <2>2
    <3>2. t[i - 1] # Prefix  BY <1>3, <1>4, <3>1
    <3> QED  BY <1>3, <1>6, <2>2, <3>2
  <2>3. CASE i \in 2 .. n
    <3>1. i \in 1 .. n /\ i - 1 \in 1 .. n  BY <2>3
    <3>2. t[i] = q[i] /\ t[i - 1] = q[i - 1]  BY <1>3, <3>1
    <3> QED  BY <1>4, <2>3, <3>2
  <2> QED  BY <2>1, <2>2, <2>3
<1> QED  BY <1>2, <1>3, <1>7, <1>8, <1>9 DEF Whole

-----------------------------------------------------------------------------
(* What a byte that is read does.                                          *)

\* AfterPress and AfterRelease change modifiers and locks only.
LEMMA FlagsAfter ==
  ASSUME NEW s, s \subseteq Flags, NEW k \in Byte
  PROVE  /\ AfterPress(s \ {"E0ESC"}, k) \subseteq Flags \ {"E0ESC"}
         /\ AfterRelease(s, k) \ {"E0ESC"} \subseteq Flags \ {"E0ESC"}
         /\ AfterRelease(s, k) \ {"E0ESC"} = AfterRelease(s \ {"E0ESC"}, k)
         /\ \A m \in Modifiers : m \in AfterPress(s \ {"E0ESC"}, k) <=> m \in s \cup shiftcode[k]
         /\ \A m \in Modifiers : m \in AfterRelease(s, k) \ {"E0ESC"} <=> m \in s \ shiftcode[k]
<1>1. /\ shiftcode[k] \subseteq Modifiers /\ togglecode[k] \subseteq Locks  BY Codes
<1>2. \A m \in Modifiers : m \notin Locks /\ m # "E0ESC"  BY DEF Modifiers, Locks
<1>3. "E0ESC" \notin Modifiers \cup Locks  BY DEF Modifiers, Locks
<1>4. Flags = Modifiers \cup Locks \cup {"E0ESC"}  BY DEF Flags
<1>5. AfterPress(s \ {"E0ESC"}, k) =
        (((s \ {"E0ESC"}) \cup shiftcode[k]) \ togglecode[k])
        \cup (togglecode[k] \ ((s \ {"E0ESC"}) \cup shiftcode[k]))
  BY DEF AfterPress
<1>6. AfterRelease(s, k) = s \ shiftcode[k]
      /\ AfterRelease(s \ {"E0ESC"}, k) = (s \ {"E0ESC"}) \ shiftcode[k]
  BY DEF AfterRelease
<1>7. AfterPress(s \ {"E0ESC"}, k) \subseteq Flags \ {"E0ESC"}  BY <1>1, <1>3, <1>4, <1>5
<1>8. \A m \in Modifiers : m \in AfterPress(s \ {"E0ESC"}, k) <=> m \in s \cup shiftcode[k]
  BY <1>1, <1>2, <1>5
<1> QED  BY <1>2, <1>6, <1>7, <1>8

\* The byte at the head of the controller, and what becomes of the rest.
LEMMA HeadByte ==
  ASSUME IInv, Ready
  PROVE  /\ Whole(Tail(fifo)) /\ Tail(fifo) \in Seq(Datum)
         /\ "E0ESC" \in shift <=> Escaped(Head(fifo))
         /\ Head(fifo) = Prefix <=> Tail(fifo) # <<>> /\ Escaped(Head(Tail(fifo)))
         /\ Head(fifo) = Prefix \/ \E k \in Keys, e \in Ends : Head(fifo) = Final(k, e)
<1>1. fifo # <<>> /\ ~Head(fifo).aux  BY DEF Ready
<1>2. fifo \in Seq(Datum) /\ Whole(fifo)  BY DEF IInv, TypeOK
<1>3. /\ Whole(Tail(fifo)) /\ Tail(fifo) \in Seq(Datum)
      /\ Head(fifo) \in Sent
      /\ Head(fifo) = Prefix <=> Tail(fifo) # <<>> /\ Escaped(Head(Tail(fifo)))
  BY <1>1, <1>2, WholeTail
<1>4. Head(fifo) # Noise  BY <1>1, OtherBytes
<1>5. Head(fifo) = Prefix \/ \E k \in Keys, e \in Ends : Head(fifo) = Final(k, e)
  BY <1>3, <1>4 DEF Sent, Finals
<1>6. "E0ESC" \in shift <=> Escaped(Head(fifo))
  BY <1>1 DEF IInv, EscapeMatchesNextByte, Escaped
<1> QED  BY <1>3, <1>5, <1>6

\* An escape is remembered.
LEMMA EscapeRead ==
  ASSUME IInv, EscapeByte
  PROVE  /\ Head(fifo) = Prefix
         /\ shift' = shift \cup {"E0ESC"}
         /\ UNCHANGED <<typed, rebooting, down, mouse>>
<1>1. Ready /\ Head(fifo).byte = ESCAPE  BY DEF EscapeByte, data
<1>2. Head(fifo) = Prefix  BY <1>1, HeadByte, SentBytes
<1>3. down' = down  BY <1>2, OtherBytes DEF EscapeByte, Consume, DownAfter
<1> QED  BY <1>2, <1>3 DEF EscapeByte, Consume

\* Any other byte tells of its key, whichever of the two kinds of scan code
\* the key has: the flag E0ESC makes up for what the byte leaves out.
LEMMA ReleaseRead ==
  ASSUME IInv, ReleaseByte
  PROVE  \E k \in Keys : /\ Head(fifo) = Final(k, "release")
                         /\ shift' = AfterRelease(shift, k) \ {"E0ESC"}
                         /\ down' = down \ {k}
                         /\ UNCHANGED <<typed, rebooting, mouse>>
<1>1. Ready /\ Head(fifo).byte # ESCAPE /\ Head(fifo).byte >= 128  BY DEF ReleaseByte, data
<1>2. PICK k \in Keys, e \in Ends : Head(fifo) = Final(k, e)
  BY <1>1, HeadByte, OtherBytes
<1>3. k \in Int /\ e = "release"
  <2>1. e = "press" => Head(fifo).byte < 128  BY <1>2, SentBytes
  <2>2. Head(fifo).byte \in Int
    BY <1>2, SentBytes DEF Datum, Byte
  <2> QED  BY <1>1, <2>1, <2>2, SentBytes DEF Ends
<1>4. Head(fifo).byte = (IF k < 128 THEN k + 128 ELSE k) /\ ("E0ESC" \in shift <=> k >= 128)
  BY <1>1, <1>2, <1>3, HeadByte, SentBytes
<1>5. (IF "E0ESC" \in shift THEN data ELSE data - 128) = k
  BY <1>3, <1>4 DEF data
<1>6. shift' = AfterRelease(shift, k) \ {"E0ESC"}  BY <1>5 DEF ReleaseByte
<1>7. Head(fifo).ends = "release" /\ Head(fifo).key = k  BY <1>2, <1>3, SentBytes
<1>8. down' = down \ {k}  BY <1>7 DEF ReleaseByte, Consume, DownAfter
<1> QED  BY <1>2, <1>3, <1>6, <1>8 DEF ReleaseByte, Consume

LEMMA PressRead ==
  ASSUME IInv, PressByte
  PROVE  \E k \in Keys : /\ Head(fifo) = Final(k, "press")
                         /\ Head(fifo).key = k
                         /\ shift' = AfterPress(shift \ {"E0ESC"}, k)
                         /\ typed' = IF CharOf(shift', k) = NO THEN typed ELSE CharOf(shift', k)
                         /\ rebooting' = Reboots(shift', k)
                         /\ down' = down \cup {k}
                         /\ UNCHANGED mouse
<1>1. Ready /\ Head(fifo).byte < 128  BY DEF PressByte, data
<1>2. Head(fifo) # Prefix  BY <1>1, OtherBytes DEF ESCAPE
<1>3. PICK k \in Keys, e \in Ends : Head(fifo) = Final(k, e)
  BY <1>1, <1>2, HeadByte
<1>4. k \in Int /\ e = "press"
  <2>1. e = "release" => Head(fifo).byte >= 128  BY <1>3, SentBytes
  <2>2. Head(fifo).byte \in Int
    BY <1>3, SentBytes DEF Datum, Byte
  <2> QED  BY <1>1, <2>1, <2>2, SentBytes DEF Ends
<1>5. Head(fifo).byte = (IF k < 128 THEN k ELSE k - 128) /\ ("E0ESC" \in shift <=> k >= 128)
  BY <1>1, <1>3, <1>4, HeadByte, SentBytes
<1>6. (IF "E0ESC" \in shift THEN data + 128 ELSE data) = k
  BY <1>4, <1>5 DEF data
<1>7. /\ shift' = AfterPress(shift \ {"E0ESC"}, k)
      /\ typed' = IF CharOf(shift', k) = NO THEN typed ELSE CharOf(shift', k)
      /\ rebooting' = Reboots(shift', k)
  BY <1>6 DEF PressByte
<1>8. Head(fifo).ends = "press" /\ Head(fifo).key = k  BY <1>3, <1>4, SentBytes
<1>9. down' = down \cup {k}  BY <1>8 DEF PressByte, Consume, DownAfter
<1> QED  BY <1>3, <1>4, <1>7, <1>8, <1>9 DEF PressByte, Consume

\* A key gives a byte, and KEY_DEL only if it is the delete key.
LEMMA CharType ==
  ASSUME NEW s, NEW k \in Byte
  PROVE  CharOf(s, k) \in Byte /\ (CharOf(s, k) = KEY_DEL <=> k = 211)
<1>1. PICK c \in Byte : c = charcode(s)[k] /\ (c = KEY_DEL <=> k = 211)
  BY Tables DEF charcode
<1>2. CapsLocked(c) \in Byte /\ (CapsLocked(c) = KEY_DEL <=> c = KEY_DEL)
  BY DEF CapsLocked, Byte, Lower, Upper, KEY_DEL
<1> QED  BY <1>1, <1>2 DEF CharOf

-----------------------------------------------------------------------------
(* Every step keeps the invariant.                                         *)

\* A byte of the controller is read.
LEMMA PollKeeps == IInv /\ Poll => IInv'
<1> SUFFICES ASSUME IInv, Poll  PROVE IInv'  OBVIOUS
<1>1. Ready /\ fifo' = Tail(fifo)
  BY DEF Poll, EscapeByte, ReleaseByte, PressByte, Consume
<1>2. /\ shift \subseteq Flags /\ typed \in Byte /\ mouse \in 0 .. MaxMouse
      /\ rebooting \in BOOLEAN /\ down \subseteq Keys /\ caps \in BOOLEAN
  BY DEF IInv, TypeOK
<1>3. /\ shift' \subseteq Flags /\ typed' \in Byte /\ mouse' = mouse
      /\ rebooting' \in BOOLEAN /\ down' \subseteq Keys
      /\ "E0ESC" \in shift' <=> Head(fifo) = Prefix
      /\ \A m \in Modifiers :
           \/ (m \in shift' <=> m \in shift) /\ down' = down
           \/ \E k \in Keys : /\ (m \in shift' <=> m \in shift \ shiftcode[k])
                              /\ down' = down \ {k}
           \/ \E k \in Keys : /\ (m \in shift' <=> m \in shift \cup shiftcode[k])
                              /\ down' = down \cup {k}
  <2>1. CASE EscapeByte
    BY <1>2, <2>1, EscapeRead DEF Flags, Modifiers
  <2>2. CASE ReleaseByte
    <3>1. PICK k \in Keys : /\ Head(fifo) = Final(k, "release")
                            /\ shift' = AfterRelease(shift, k) \ {"E0ESC"}
                            /\ down' = down \ {k}
                            /\ UNCHANGED <<typed, rebooting, mouse>>
      BY <2>2, ReleaseRead
    <3>2. k \in Byte /\ Head(fifo) # Prefix  BY <3>1, SentBytes DEF Ends
    <3>3. /\ shift' \subseteq Flags \ {"E0ESC"}
          /\ \A m \in Modifiers : m \in shift' <=> m \in shift \ shiftcode[k]
      BY <1>2, <3>1, <3>2, FlagsAfter
    <3> QED  BY <1>2, <3>1, <3>2, <3>3
  <2>3. CASE PressByte
    <3>1. PICK k \in Keys : /\ Head(fifo) = Final(k, "press")
                            /\ shift' = AfterPress(shift \ {"E0ESC"}, k)
                            /\ typed' = IF CharOf(shift', k) = NO THEN typed
                                        ELSE CharOf(shift', k)
                            /\ rebooting' = Reboots(shift', k)
                            /\ down' = down \cup {k}
                            /\ mouse' = mouse
      BY <2>3, PressRead
    <3>2. k \in Byte /\ Head(fifo) # Prefix  BY <3>1, SentBytes DEF Ends
    <3>3. /\ shift' \subseteq Flags \ {"E0ESC"}
          /\ \A m \in Modifiers : m \in shift' <=> m \in shift \cup shiftcode[k]
      BY <1>2, <3>1, <3>2, FlagsAfter
    <3>4. typed' \in Byte /\ rebooting' \in BOOLEAN
      BY <1>2, <3>1, <3>2, CharType DEF Reboots
    <3> QED  BY <1>2, <3>1, <3>2, <3>3, <3>4
  <2> QED  BY <2>1, <2>2, <2>3 DEF Poll
<1>4. /\ Whole(fifo)' /\ fifo' \in Seq(Datum)
      /\ "E0ESC" \in shift' <=> fifo' # <<>> /\ Escaped(Head(fifo'))
  BY <1>1, <1>3, HeadByte DEF Whole
<1>5. TypeOK'
  <2>1. caps' = CapsAfter  BY DEF Poll, EscapeByte, ReleaseByte, PressByte, Consume
  <2>2. caps' \in BOOLEAN  BY <1>2, <2>1 DEF CapsAfter
  <2> QED  BY <1>2, <1>3, <1>4, <2>2 DEF TypeOK
<1>6. EscapeMatchesNextByte'  BY <1>4 DEF EscapeMatchesNextByte, Escaped
<1>7. ModifiersMatchKeys'
  <2> SUFFICES ASSUME NEW m \in Modifiers
               PROVE  /\ m \in shift' => KeysOf(m) \cap down' # {}
                      /\ (\E k \in Keys : KeysOf(m) = {k})
                           => (m \in shift' <=> KeysOf(m) \subseteq down')
    BY DEF ModifiersMatchKeys, KeysOf
  <2>1. /\ m \in shift => KeysOf(m) \cap down # {}
        /\ (\E k \in Keys : KeysOf(m) = {k}) => (m \in shift <=> KeysOf(m) \subseteq down)
    BY DEF IInv, ModifiersMatchKeys
  <2>2. CASE (m \in shift' <=> m \in shift) /\ down' = down  BY <2>1, <2>2
  <2>3. ASSUME NEW k \in Keys, m \in shift' <=> m \in shift \ shiftcode[k], down' = down \ {k}
        PROVE  /\ m \in shift' => KeysOf(m) \cap down' # {}
               /\ (\E q \in Keys : KeysOf(m) = {q})
                    => (m \in shift' <=> KeysOf(m) \subseteq down')
    <3>1. k \in KeysOf(m) <=> m \in shiftcode[k]  BY DEF KeysOf
    <3> QED  BY <2>1, <2>3, <3>1
  <2>4. ASSUME NEW k \in Keys, m \in shift' <=> m \in shift \cup shiftcode[k], down' = down \cup {k}
        PROVE  /\ m \in shift' => KeysOf(m) \cap down' # {}
               /\ (\E q \in Keys : KeysOf(m) = {q})
                    => (m \in shift' <=> KeysOf(m) \subseteq down')
    <3>1. k \in KeysOf(m) <=> m \in shiftcode[k]  BY DEF KeysOf
    <3> QED  BY <2>1, <2>4, <3>1
  <2> QED  BY <1>3, <2>2, <2>3, <2>4
<1> QED  BY <1>4, <1>5, <1>6, <1>7 DEF IInv

\* The controller receives bytes, and the machine resets.
LEMMA SendKeeps ==
  ASSUME IInv, UNCHANGED <<shift, typed, rebooting, down, caps>>, mouse' \in 0 .. MaxMouse,
         NEW d \in Sent, d # Prefix,
         fifo' = IF Escaped(d) THEN fifo \o <<Prefix, d>> ELSE Append(fifo, d)
  PROVE  IInv'
<1>1. fifo \in Seq(Datum) /\ Whole(fifo) /\ TypeOK /\ ModifiersMatchKeys  BY DEF IInv, TypeOK
<1>2. d \in Datum /\ Prefix \in Datum /\ ~Escaped(Prefix)
  BY SentBytes, OtherBytes DEF Sent, Finals
<1>3. Whole(fifo)'
  <2>1. Whole(fifo')
    BY <1>1, WholeAppend, WholeEscaped
  <2> QED  BY <2>1 DEF Whole
<1>4. fifo' \in Seq(Datum)  BY <1>1, <1>2
<1>5. TypeOK'  BY <1>1, <1>4 DEF TypeOK
<1>6. ModifiersMatchKeys'  BY <1>1 DEF ModifiersMatchKeys, KeysOf
<1>7. EscapeMatchesNextByte'
  <2>1. "E0ESC" \in shift <=> fifo # <<>> /\ Escaped(Head(fifo))
    BY DEF IInv, EscapeMatchesNextByte, Escaped
  <2>2. fifo' # <<>>  BY <1>1, <1>2, SMTT(20)
  <2>3. CASE fifo = <<>>
    <3>1. Head(fifo') = IF Escaped(d) THEN Prefix ELSE d  BY <1>2, <2>3
    <3> QED  BY <1>2, <2>1, <2>2, <2>3, <3>1 DEF EscapeMatchesNextByte, Escaped
  <2>4. CASE fifo # <<>>
    <3>1. Head(fifo') = Head(fifo)  BY <1>1, <1>2, <2>4
    <3> QED  BY <2>1, <2>2, <2>4, <3>1 DEF EscapeMatchesNextByte, Escaped
  <2> QED  BY <2>3, <2>4
<1> QED  BY <1>3, <1>5, <1>6, <1>7 DEF IInv

LEMMA NextKeeps == IInv /\ [Next]_vars => IInv'
<1> SUFFICES ASSUME IInv, [Next]_vars  PROVE IInv'  OBVIOUS
<1>1. CASE Poll  BY <1>1, PollKeeps
<1>2. CASE Restart
  <2>1. /\ mouse' \in 0 .. MaxMouse /\ fifo' = <<>> /\ shift' = {} /\ typed' = NO
        /\ rebooting' = FALSE /\ down' = {} /\ caps' = FALSE
    BY <1>2 DEF Restart, IInv, TypeOK
  <2>2. fifo' \in Seq(Datum) /\ typed' \in Byte  BY <2>1 DEF NO, Byte
  <2>3. TypeOK'  BY <2>1, <2>2 DEF TypeOK
  <2>4. Whole(fifo)'  BY <2>1 DEF Whole
  <2>5. EscapeMatchesNextByte'  BY <2>1 DEF EscapeMatchesNextByte
  <2>6. ModifiersMatchKeys'  BY <2>1 DEF ModifiersMatchKeys
  <2> QED  BY <2>3, <2>4, <2>5, <2>6 DEF IInv
<1>3. CASE MouseByte
  <2>1. /\ mouse' \in 0 .. MaxMouse /\ fifo' = Append(fifo, Noise)
        /\ UNCHANGED <<shift, typed, rebooting, down, caps>>
    BY <1>3, KeysAssumption DEF MouseByte, IInv, TypeOK
  <2>2. Noise \in Sent /\ Noise # Prefix /\ ~Escaped(Noise)  BY OtherBytes DEF Sent
  <2> QED  BY <2>1, <2>2, SendKeeps
<1>4. ASSUME NEW k \in Keys, NEW e \in Ends, KeyEvent(k, e)  PROVE IInv'
  <2>1. /\ mouse' \in 0 .. MaxMouse
        /\ fifo' = fifo \o (IF k < 128 THEN <<Final(k, e)>> ELSE <<Prefix, Final(k, e)>>)
        /\ UNCHANGED <<shift, typed, rebooting, down, caps>>
    BY <1>4 DEF KeyEvent, Bytes, IInv, TypeOK
  <2>2. /\ Final(k, e) \in Sent /\ Final(k, e) # Prefix
        /\ Escaped(Final(k, e)) <=> k >= 128
        /\ k \in Int /\ Final(k, e) \in Datum
    BY SentBytes DEF Sent, Finals
  <2>3. fifo \o <<Final(k, e)>> = Append(fifo, Final(k, e))
    BY <2>2, AppendIsConcat DEF IInv, TypeOK
  <2>4. fifo' = IF Escaped(Final(k, e)) THEN fifo \o <<Prefix, Final(k, e)>>
                ELSE Append(fifo, Final(k, e))
    BY <2>1, <2>2, <2>3
  <2> QED  BY <2>1, <2>2, <2>4, SendKeeps
<1>5. CASE UNCHANGED vars
  BY <1>5 DEF vars, IInv, TypeOK, Whole, EscapeMatchesNextByte, ModifiersMatchKeys, KeysOf
<1> QED  BY <1>1, <1>2, <1>3, <1>4, <1>5 DEF Next, Ends

-----------------------------------------------------------------------------
(* Theorems.                                                               *)

LEMMA Always == Spec => []IInv
BY InitHolds, NextKeeps, PTL DEF Spec

\* kbd_proc_data's flags, the last character and the keys that are down keep
\* their types: no scan code, escaped or not, leads out of the tables.
THEOREM TypeTheorem == Spec => []TypeOK
<1>1. IInv => TypeOK  BY DEF IInv
<1> QED  BY <1>1, Always, PTL

\* The flag E0ESC that kbd_proc_data keeps from one call to the next belongs to
\* the byte that comes next, whatever keys and other bytes come in between.
THEOREM EscapeTheorem == Spec => []EscapeMatchesNextByte
<1>1. IInv => EscapeMatchesNextByte  BY DEF IInv
<1> QED  BY <1>1, Always, PTL

\* The modifier flags of kbd_proc_data stand for keys that are down.
THEOREM ModifierTheorem == Spec => []ModifiersMatchKeys
<1>1. IInv => ModifiersMatchKeys  BY DEF IInv
<1> QED  BY <1>1, Always, PTL

\* The reset line goes up only when Del goes down while the flags of a Ctrl and
\* of an Alt key are set, and always then.
LEMMA RebootStep ==
  ASSUME IInv, PressByte
  PROVE  rebooting' <=> Head(fifo).key = 211 /\ {"CTL", "ALT"} \subseteq shift
<1>1. PICK k \in Keys : /\ Head(fifo) = Final(k, "press")
                        /\ Head(fifo).key = k
                        /\ shift' = AfterPress(shift \ {"E0ESC"}, k)
                        /\ rebooting' = Reboots(shift', k)
  BY PressRead
<1>2. k \in Byte  BY <1>1, SentBytes DEF Ends
<1>3. Reboots(shift', k) <=> {"CTL", "ALT"} \subseteq shift' /\ k = 211
  BY <1>2, CharType DEF Reboots
<1>4. ASSUME k = 211, NEW m \in {"CTL", "ALT"}  PROVE m \in shift' <=> m \in shift
  <2>1. shiftcode[k] = {}  BY <1>2, <1>4, Codes
  <2>2. shift \subseteq Flags  BY DEF IInv, TypeOK
  <2>3. m \in Modifiers  BY DEF Modifiers
  <2>4. m \in shift' <=> m \in shift \cup shiftcode[k]
    BY <1>1, <1>2, <2>2, <2>3, FlagsAfter
  <2> QED  BY <2>1, <2>4
<1> QED  BY <1>1, <1>3, <1>4

\* On a keyboard with two Ctrl or two Alt keys too, only Del restarts the
\* machine, and only while a Ctrl and an Alt key are down.
OnlyChordReboots ==
  [][PressByte /\ rebooting' => /\ Head(fifo).key = 211
                                /\ KeysOf("CTL") \cap down # {}
                                /\ KeysOf("ALT") \cap down # {}]_vars

THEOREM OnlyChordTheorem == Spec => OnlyChordReboots
<1>1. ASSUME IInv, [Next]_vars
      PROVE  [PressByte /\ rebooting' => /\ Head(fifo).key = 211
                                         /\ KeysOf("CTL") \cap down # {}
                                         /\ KeysOf("ALT") \cap down # {}]_vars
  <2> SUFFICES ASSUME PressByte, rebooting'
               PROVE  /\ Head(fifo).key = 211
                      /\ KeysOf("CTL") \cap down # {}
                      /\ KeysOf("ALT") \cap down # {}
    OBVIOUS
  <2>1. Head(fifo).key = 211 /\ "CTL" \in shift /\ "ALT" \in shift  BY <1>1, RebootStep
  <2>2. "CTL" \in Modifiers /\ "ALT" \in Modifiers  BY DEF Modifiers
  <2> QED  BY <1>1, <2>1, <2>2 DEF IInv, ModifiersMatchKeys
<1> QED  BY <1>1, Always, PTL DEF Spec, OnlyChordReboots

\* With one Ctrl and one Alt key at most (of two, the first to come up clears
\* the flag of both), Ctrl-Alt-Del restarts the machine and nothing else does.
THEOREM RebootTheorem ==
  ASSUME ~({29, 157} \subseteq Keys), ~({56, 184} \subseteq Keys)
  PROVE  Spec => RebootIffChord
<1>1. ASSUME NEW m \in {"CTL", "ALT"}
      PROVE  KeysOf(m) = {} \/ \E k \in Keys : KeysOf(m) = {k}
  <2>1. ASSUME NEW k \in Keys, m \in shiftcode[k]
        PROVE  k \in IF m = "CTL" THEN {29, 157} ELSE {56, 184}
    <3>1. k \in Byte  BY KeysAssumption
    <3> QED  BY <2>1, <3>1, Codes
  <2>2. KeysOf(m) \subseteq IF m = "CTL" THEN {29, 157} ELSE {56, 184}
    BY <2>1 DEF KeysOf
  <2>3. KeysOf(m) \subseteq Keys  BY DEF KeysOf
  <2>4. \A p, q \in KeysOf(m) : p = q  BY <2>2, <2>3
  <2> QED  BY <2>3, <2>4
<1>2. ASSUME IInv, [Next]_vars
      PROVE  [PressByte => (rebooting' <=> /\ Head(fifo).key = 211
                                           /\ KeysOf("CTL") \cap down # {}
                                           /\ KeysOf("ALT") \cap down # {})]_vars
  <2> SUFFICES ASSUME PressByte
               PROVE  rebooting' <=> /\ Head(fifo).key = 211
                                     /\ KeysOf("CTL") \cap down # {}
                                     /\ KeysOf("ALT") \cap down # {}
    OBVIOUS
  <2>1. ASSUME NEW m \in {"CTL", "ALT"}  PROVE m \in shift <=> KeysOf(m) \cap down # {}
    <3>1. m \in Modifiers  BY DEF Modifiers
    <3>2. m \in shift => KeysOf(m) \cap down # {}
      BY <1>2, <3>1 DEF IInv, ModifiersMatchKeys
    <3>3. ASSUME NEW k \in Keys, KeysOf(m) = {k}  PROVE m \in shift <=> k \in down
      BY <1>2, <3>1, <3>3 DEF IInv, ModifiersMatchKeys
    <3> QED  BY <1>1, <3>2, <3>3
  <2>2. rebooting' <=> Head(fifo).key = 211 /\ {"CTL", "ALT"} \subseteq shift
    BY <1>2, RebootStep
  <2> QED  BY <2>1, <2>2
<1> QED  BY <1>2, Always, PTL DEF Spec, RebootIffChord

\* The CapsLock flag counts the times that CapsLock has gone down.
CapsPart == caps <=> "CAPSLOCK" \in shift

LEMMA CapsKeeps == IInv /\ CapsPart /\ [Next]_vars => CapsPart'
<1> SUFFICES ASSUME IInv, CapsPart, [Next]_vars  PROVE CapsPart'  OBVIOUS
<1>1. caps \in BOOLEAN /\ shift \subseteq Flags  BY DEF IInv, TypeOK
<1>2. CASE EscapeByte
  <2>1. caps' = caps  BY <1>2, EscapeRead, OtherBytes DEF EscapeByte, Consume, CapsAfter
  <2> QED  BY <1>2, <2>1, EscapeRead DEF CapsPart
<1>3. CASE ReleaseByte
  <2>1. PICK k \in Keys : /\ Head(fifo) = Final(k, "release")
                          /\ shift' = AfterRelease(shift, k) \ {"E0ESC"}
    BY <1>3, ReleaseRead
  <2>2. k \in Byte /\ Head(fifo).ends = "release"  BY <2>1, SentBytes DEF Ends
  <2>3. caps' = caps  BY <1>3, <2>2 DEF ReleaseByte, Consume, CapsAfter
  <2>4. "CAPSLOCK" \notin shiftcode[k]  BY <2>2, Codes DEF Modifiers
  <2> QED  BY <2>1, <2>3, <2>4 DEF CapsPart, AfterRelease
<1>4. CASE PressByte
  <2>1. PICK k \in Keys : /\ Head(fifo) = Final(k, "press") /\ Head(fifo).key = k
                          /\ shift' = AfterPress(shift \ {"E0ESC"}, k)
    BY <1>4, PressRead
  <2>2. k \in Byte /\ Head(fifo).ends = "press"  BY <2>1, SentBytes DEF Ends
  <2>3. caps' = IF k = 58 THEN ~caps ELSE caps
    BY <1>4, <2>1, <2>2 DEF PressByte, Consume, CapsAfter
  <2>4. "CAPSLOCK" \notin shiftcode[k]  BY <2>2, Codes DEF Modifiers
  <2>5. "CAPSLOCK" \in togglecode[k] <=> k = 58  BY <2>2 DEF togglecode
  <2>6. "CAPSLOCK" \in shift' <=> IF k = 58 THEN "CAPSLOCK" \notin shift ELSE "CAPSLOCK" \in shift
    BY <2>1, <2>4, <2>5 DEF AfterPress
  <2>7. CASE k = 58  BY <2>3, <2>6, <2>7 DEF CapsPart
  <2>8. CASE k # 58  BY <2>3, <2>6, <2>8 DEF CapsPart
  <2> QED  BY <2>7, <2>8
<1>5. CASE Restart  BY <1>5 DEF Restart, CapsPart
<1>6. CASE MouseByte \/ (\E k \in Keys, e \in {"press", "release"} : KeyEvent(k, e)) \/ UNCHANGED vars
  BY <1>6 DEF MouseByte, KeyEvent, vars, CapsPart
<1> QED  BY <1>2, <1>3, <1>4, <1>5, <1>6 DEF Next, Poll

\* Letters: kbd_proc_data gives them in the case that Shift and CapsLock ask
\* for, and as control codes with Ctrl, for every letter of the tables.
THEOREM LetterTheorem == Spec => LetterCase
<1>1. ASSUME IInv, CapsPart, PressByte, normalmap[Head(fifo).key] \in Lower
      PROVE  typed' = IF "CTL" \in shift THEN normalmap[Head(fifo).key] - 96
                      ELSE IF ("SHIFT" \in shift) # caps
                           THEN normalmap[Head(fifo).key] - 32
                           ELSE normalmap[Head(fifo).key]
  <2>1. PICK k \in Keys : /\ Head(fifo) = Final(k, "press")
                          /\ Head(fifo).key = k
                          /\ shift' = AfterPress(shift \ {"E0ESC"}, k)
                          /\ typed' = IF CharOf(shift', k) = NO THEN typed
                                      ELSE CharOf(shift', k)
    BY <1>1, PressRead
  <2>2. k \in Byte  BY <2>1, SentBytes DEF Ends
  <2>3. PICK c : c = normalmap[k] /\ c \in Lower  BY <1>1, <2>1
  <2>4. /\ shiftmap[k] = c - 32 /\ ctlmap[k] = c - 96
        /\ shiftcode[k] = {} /\ togglecode[k] = {}
    BY <2>2, <2>3, LetterKeys
  <2>5. shift' = shift \ {"E0ESC"}  BY <2>1, <2>4 DEF AfterPress
  <2>6. \A f \in {"CTL", "SHIFT", "CAPSLOCK"} : f \in shift' <=> f \in shift  BY <2>5
  <2>7. CharOf(shift', k) = IF "CTL" \in shift THEN c - 96
                            ELSE IF ("SHIFT" \in shift) # ("CAPSLOCK" \in shift)
                                 THEN c - 32 ELSE c
    <3>1. c \in 97 .. 122  BY <2>3 DEF Lower
    <3>2. CASE "CTL" \in shift
      <4>1. charcode(shift')[k] = c - 96  BY <2>4, <2>6, <3>2 DEF charcode
      <4>2. CapsLocked(c - 96) = c - 96  BY <3>1 DEF CapsLocked, Lower, Upper
      <4> QED  BY <3>2, <4>1, <4>2 DEF CharOf
    <3>3. CASE "CTL" \notin shift /\ "SHIFT" \in shift
      <4>1. charcode(shift')[k] = c - 32  BY <2>4, <2>6, <3>3 DEF charcode
      <4>2. CapsLocked(c - 32) = c  BY <3>1 DEF CapsLocked, Lower, Upper
      <4> QED  BY <2>6, <3>3, <4>1, <4>2 DEF CharOf
    <3>4. CASE "CTL" \notin shift /\ "SHIFT" \notin shift
      <4>1. charcode(shift')[k] = c  BY <2>3, <2>6, <3>4 DEF charcode
      <4>2. CapsLocked(c) = c - 32  BY <3>1 DEF CapsLocked, Lower, Upper
      <4> QED  BY <2>6, <3>4, <4>1, <4>2 DEF CharOf
    <3> QED  BY <3>2, <3>3, <3>4
  <2>8. CharOf(shift', k) # NO  BY <2>3, <2>7 DEF Lower, NO
  <2>9. (("SHIFT" \in shift) # ("CAPSLOCK" \in shift)) <=> (("SHIFT" \in shift) # caps)
    BY <1>1 DEF CapsPart, IInv, TypeOK
  <2> QED  BY <2>1, <2>3, <2>7, <2>8, <2>9
<1>2. Init => CapsPart  BY DEF Init, CapsPart
<1>3. Spec => []CapsPart  BY <1>2, Always, CapsKeeps, PTL DEF Spec
<1>4. IInv /\ CapsPart /\ [Next]_vars =>
        [PressByte /\ normalmap[Head(fifo).key] \in Lower =>
           typed' = IF "CTL" \in shift THEN normalmap[Head(fifo).key] - 96
                    ELSE IF ("SHIFT" \in shift) # caps
                         THEN normalmap[Head(fifo).key] - 32
                         ELSE normalmap[Head(fifo).key]]_vars
  BY <1>1
<1> QED  BY <1>3, <1>4, Always, PTL DEF Spec, LetterCase

-----------------------------------------------------------------------------
(* The refinement of KeyEvents.                                            *)

\* The instance's tables are those of this module.
LEMMA SameTables ==
  ASSUME NEW s, NEW k
  PROVE  /\ Events!AfterPress(s, k) = AfterPress(s, k)
         /\ Events!AfterRelease(s, k) = AfterRelease(s, k)
         /\ Events!CharOf(s, k) = CharOf(s, k)
         /\ Events!Reboots(s, k) = Reboots(s, k)
         /\ Events!NO = NO
<1>1. Events!NO = NO  BY DEF Events!NO, NO
<1>2. Events!shiftcode = shiftcode /\ Events!togglecode = togglecode
  BY DEF Events!shiftcode, shiftcode, Events!togglecode, togglecode, Events!Byte, Byte
<1>3. Events!AfterPress(s, k) = AfterPress(s, k) /\ Events!AfterRelease(s, k) = AfterRelease(s, k)
  BY <1>2 DEF Events!AfterPress, AfterPress, Events!AfterRelease, AfterRelease
<1>4. Events!arrows = arrows /\ Events!others = others
  BY DEF Events!arrows, arrows, Events!others, others, Events!keypad, keypad,
         Events!NO, NO, Events!KEY_HOME, KEY_HOME, Events!KEY_UP, KEY_UP,
         Events!KEY_PGUP, KEY_PGUP, Events!KEY_LF, KEY_LF, Events!KEY_RT, KEY_RT,
         Events!KEY_END, KEY_END, Events!KEY_DN, KEY_DN, Events!KEY_PGDN, KEY_PGDN,
         Events!KEY_INS, KEY_INS, Events!KEY_DEL, KEY_DEL
<1>5. ASSUME NEW low, NEW named  PROVE Events!Table(low, named) = Table(low, named)
  BY <1>1, <1>4 DEF Events!Table, Table, Events!Byte, Byte
<1>6. Events!normalrow = normalrow /\ Events!shiftrow = shiftrow /\ Events!ctlrow = ctlrow
  BY DEF Events!normalrow, normalrow, Events!shiftrow, shiftrow, Events!ctlrow, ctlrow,
         Events!NO, NO
<1>7. Events!normalmap = normalmap /\ Events!shiftmap = shiftmap
  BY <1>4, <1>5, <1>6 DEF Events!normalmap, normalmap, Events!shiftmap, shiftmap
<1>8. Events!ctlmap = ctlmap
  BY <1>5, <1>6 DEF Events!ctlmap, ctlmap, Events!KEY_HOME, KEY_HOME
<1>9. Events!charcode(s) = charcode(s)
  BY <1>7, <1>8 DEF Events!charcode, charcode
<1>10. ASSUME NEW c  PROVE Events!CapsLocked(c) = CapsLocked(c)
  BY DEF Events!CapsLocked, CapsLocked, Events!Lower, Lower, Events!Upper, Upper
<1>11. Events!CharOf(s, k) = CharOf(s, k)
  BY <1>9, <1>10 DEF Events!CharOf, CharOf
<1>12. Events!Reboots(s, k) = Reboots(s, k)
  BY <1>11 DEF Events!Reboots, Reboots, Events!KEY_DEL, KEY_DEL
<1> QED  BY <1>1, <1>3, <1>11, <1>12

\* Flag by flag, AfterPress is what KeyEvents says.
LEMMA FlagByFlag ==
  ASSUME NEW s, s \subseteq Flags, NEW k \in Byte
  PROVE  AfterPress(s \ {"E0ESC"}, k) =
           {f \in Events!Modifiers \cup Events!Locks :
              IF f \in Events!Locks
                THEN f \in s \ {"E0ESC"} <=> f \notin Events!togglecode[k]
                ELSE f \in s \ {"E0ESC"} \/ f \in Events!shiftcode[k]}
<1>1. /\ shiftcode[k] \subseteq Modifiers /\ togglecode[k] \subseteq Locks  BY Codes
<1>2. /\ Events!Modifiers = Modifiers /\ Events!Locks = Locks
      /\ Events!shiftcode = shiftcode /\ Events!togglecode = togglecode
  BY DEF Events!Modifiers, Modifiers, Events!Locks, Locks, Events!shiftcode, shiftcode,
         Events!togglecode, togglecode, Events!Byte, Byte
<1>3. \A m \in Modifiers : m \notin Locks  BY DEF Modifiers, Locks
<1>4. s \ {"E0ESC"} \subseteq Modifiers \cup Locks  BY DEF Flags
<1> DEFINE old == s \ {"E0ESC"}
           new == {f \in Modifiers \cup Locks :
                     IF f \in Locks THEN f \in old <=> f \notin togglecode[k]
                                    ELSE f \in old \/ f \in shiftcode[k]}
<1>5. ASSUME NEW f  PROVE f \in AfterPress(old, k) <=> f \in new
  <2>1. f \in AfterPress(old, k)
          <=> \/ (f \in old \/ f \in shiftcode[k]) /\ f \notin togglecode[k]
              \/ f \in togglecode[k] /\ ~(f \in old \/ f \in shiftcode[k])
    BY DEF AfterPress
  <2>2. CASE f \in Locks
    <3>1. f \notin shiftcode[k]  BY <1>1, <1>3, <2>2
    <3>2. f \in new <=> (f \in old <=> f \notin togglecode[k])  BY <1>1, <2>2
    <3>3. CASE f \in togglecode[k]  BY <2>1, <3>1, <3>2, <3>3
    <3>4. CASE f \notin togglecode[k]  BY <2>1, <3>1, <3>2, <3>4
    <3> QED  BY <3>3, <3>4
  <2>3. CASE f \notin Locks
    <3>1. f \notin togglecode[k]  BY <1>1, <2>3
    <3>2. f \in new <=> f \in old \/ f \in shiftcode[k]  BY <1>1, <1>4, <2>3
    <3> QED  BY <2>1, <3>1, <3>2
  <2> QED  BY <2>2, <2>3
<1>6. AfterPress(old, k) = new  BY <1>5
<1> QED  BY <1>2, <1>6

\* The first byte of an event is no step of KeyEvents, the last is its step.
LEMMA StepIsEvent ==
  ASSUME IInv, [Next]_vars
  PROVE  [Events!EventNext]_Events!eventVars
<1> DEFINE mods == shift \ {"E0ESC"}
<1>1. shift \subseteq Flags  BY DEF IInv, TypeOK
<1>2. CASE EscapeByte
  <2>1. mods' = mods /\ UNCHANGED <<typed, rebooting>>  BY <1>2, EscapeRead
  <2> QED  BY <2>1 DEF Events!eventVars
<1>3. CASE ReleaseByte
  <2>1. PICK k \in Keys : /\ Head(fifo) = Final(k, "release")
                          /\ shift' = AfterRelease(shift, k) \ {"E0ESC"}
                          /\ UNCHANGED <<typed, rebooting>>
    BY <1>3, ReleaseRead
  <2>2. k \in Byte  BY KeysAssumption
  <2>3. mods' = AfterRelease(mods, k)
    <3>1. shift' = AfterRelease(mods, k)  BY <1>1, <2>1, <2>2, FlagsAfter
    <3>2. "E0ESC" \notin shift'  BY <2>1
    <3> QED  BY <3>1, <3>2
  <2>4. ~rebooting  BY <1>3 DEF ReleaseByte, Ready
  <2>5. Events!Release(k)
    BY <2>1, <2>3, <2>4, SameTables DEF Events!Release
  <2> QED  BY <2>5 DEF Events!EventNext
<1>4. CASE PressByte
  <2>1. PICK k \in Keys : /\ shift' = AfterPress(mods, k)
                          /\ typed' = IF CharOf(shift', k) = NO THEN typed
                                      ELSE CharOf(shift', k)
                          /\ rebooting' = Reboots(shift', k)
    BY <1>4, PressRead
  <2>2. k \in Byte  BY KeysAssumption
  <2>3. mods' = shift'
    <3>1. "E0ESC" \notin shift'  BY <1>1, <2>1, <2>2, FlagsAfter
    <3> QED  BY <3>1
  <2>4. ~rebooting  BY <1>4 DEF PressByte, Ready
  <2>5. mods' = {f \in Events!Modifiers \cup Events!Locks : Events!FlagAfter(f, k)}
    BY <1>1, <2>1, <2>2, <2>3, FlagByFlag DEF Events!FlagAfter
  <2>6. Events!Press(k)
    BY <2>1, <2>3, <2>4, <2>5, SameTables DEF Events!Press
  <2> QED  BY <2>6 DEF Events!EventNext
<1>5. CASE Restart
  <2>1. Events!Restart
    BY <1>5, SameTables DEF Restart, Events!Restart
  <2> QED  BY <2>1 DEF Events!EventNext
<1>6. CASE MouseByte \/ (\E k \in Keys, e \in {"press", "release"} : KeyEvent(k, e)) \/ UNCHANGED vars
  BY <1>6 DEF MouseByte, KeyEvent, vars, Events!eventVars
<1> QED  BY <1>2, <1>3, <1>4, <1>5, <1>6 DEF Next, Poll

\* kbd_proc_data, which sees scan codes byte by byte, does what KeyEvents says
\* of keys that go down and come up.
THEOREM EventsTheorem == Spec => ImplementsEvents
<1>1. Init => Events!EventInit
  BY SameTables DEF Init, Events!EventInit
<1>2. IInv /\ [Next]_vars => [Events!EventNext]_Events!eventVars
  BY StepIsEvent
<1> QED  BY <1>1, <1>2, Always, PTL DEF Spec, ImplementsEvents, Events!EventSpec

=============================================================================
