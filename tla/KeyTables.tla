------------------------------ MODULE KeyTables ------------------------------
(***************************************************************************)
(* The keyboard tables of kern/console.c and what kbd_proc_data computes   *)
(* from them.  A table is a function on bytes; a value of the variable     *)
(* "shift" is the set of its flags; characters are their codes.            *)
(***************************************************************************)
EXTENDS Integers, Sequences

Byte == 0 .. 255

Modifiers == {"SHIFT", "CTL", "ALT"}
Locks     == {"CAPSLOCK", "NUMLOCK", "SCROLLLOCK"}
Flags     == Modifiers \cup Locks \cup {"E0ESC"}

NO == 0

KEY_HOME == 224
KEY_END  == 225
KEY_UP   == 226
KEY_DN   == 227
KEY_LF   == 228
KEY_RT   == 229
KEY_PGUP == 230
KEY_PGDN == 231
KEY_INS  == 232
KEY_DEL  == 233

shiftcode ==
  [k \in Byte |-> IF k \in {29, 157} THEN {"CTL"}
                 ELSE IF k \in {42, 54} THEN {"SHIFT"}
                 ELSE IF k \in {56, 184} THEN {"ALT"} ELSE {}]

togglecode ==
  [k \in Byte |-> IF k = 58 THEN {"CAPSLOCK"}
                 ELSE IF k = 69 THEN {"NUMLOCK"}
                 ELSE IF k = 70 THEN {"SCROLLLOCK"} ELSE {}]

\* The arrow block above the keypad, from index 200 on, the same in the three
\* tables.
arrows == <<KEY_UP, KEY_PGUP, NO, KEY_LF, NO, KEY_RT, NO, KEY_END, KEY_DN, KEY_PGDN,
            KEY_INS, KEY_DEL>>

\* A table with the entries low from index 0 on, the arrow block, the entries
\* of named at their indices, and NO elsewhere.
Table(low, named) ==
  [k \in Byte |-> IF k < Len(low) THEN low[k + 1]
                 ELSE IF k \in 200 .. 211 THEN arrows[k - 199]
                 ELSE IF k \in DOMAIN named THEN named[k] ELSE NO]

\* The digits, '-', '+' and '.' of the keypad, from index 71 on.
keypad == <<55, 56, 57, 45, 52, 53, 54, 43, 49, 50, 51, 48, 46>>

\* The rows of the main keys.  The '/' entries of the last, here and below, are
\* '/' - '@', which is -17: 239 as a uint8_t.
normalrow ==
  <<NO, 27, 49, 50, 51, 52, 53, 54, 55, 56, 57, 48, 45, 61, 8, 9,
    113, 119, 101, 114, 116, 121, 117, 105, 111, 112, 91, 93, 10, NO, 97, 115,
    100, 102, 103, 104, 106, 107, 108, 59, 39, 96, NO, 92, 122, 120, 99, 118,
    98, 110, 109, 44, 46, 47, NO, 42, NO, 32>>

shiftrow ==
  <<NO, 27, 33, 64, 35, 36, 37, 94, 38, 42, 40, 41, 95, 43, 8, 9,
    81, 87, 69, 82, 84, 89, 85, 73, 79, 80, 123, 125, 10, NO, 65, 83,
    68, 70, 71, 72, 74, 75, 76, 58, 34, 126, NO, 124, 90, 88, 67, 86,
    66, 78, 77, 60, 62, 63, NO, 42, NO, 32>>

ctlrow ==
  <<NO, NO, NO, NO, NO, NO, NO, NO, NO, NO, NO, NO, NO, NO, NO, NO,
    17, 23, 5, 18, 20, 25, 21, 9, 15, 16, NO, NO, 13, NO, 1, 19,
    4, 6, 7, 8, 10, 11, 12, NO, NO, NO, NO, 28, 26, 24, 3, 22,
    2, 14, 13, NO, NO, 239, NO, NO>>

\* The keypad with its Enter and '/', and Home.
others ==
  [k \in (71 .. 83) \cup {156, 181, 199} |->
     IF k \in 71 .. 83 THEN keypad[k - 70]
     ELSE IF k = 156 THEN 10 ELSE IF k = 181 THEN 47 ELSE KEY_HOME]

normalmap == Table(normalrow, others)

shiftmap == Table(shiftrow, others)

ctlmap == Table(ctlrow, [k \in {151, 181} |-> IF k = 151 THEN KEY_HOME ELSE 239])

charcode(mods) == IF "CTL" \in mods THEN ctlmap
                  ELSE IF "SHIFT" \in mods THEN shiftmap ELSE normalmap

Lower == 97 .. 122
Upper == 65 .. 90

\* Mutant of CapsLocked: the lower end of the first range is not tested.
CapsLockedBelow(c) == IF c <= 122 THEN c - 32 ELSE c

\* What CAPSLOCK makes of a character.
CapsLocked(c) == IF c \in Lower THEN c - 32
                 ELSE IF c \in Upper THEN c + 32 ELSE c

\* Mutant of AfterPress: a lock is set, "|=", instead of turned over, "^=".
AfterPressSets(mods, k) == mods \cup shiftcode[k] \cup togglecode[k]

\* The flags after key k goes down.
AfterPress(mods, k) ==
  LET m == mods \cup shiftcode[k]
      t == togglecode[k]
  IN  (m \ t) \cup (t \ m)

\* The flags after key k comes up.
AfterRelease(mods, k) == mods \ shiftcode[k]

\* The character that key k gives under the flags mods.
CharOf(mods, k) ==
  LET c == charcode(mods)[k]
  IN  IF "CAPSLOCK" \in mods THEN CapsLocked(c) ELSE c

\* Mutant of Reboots: one of Ctrl and Alt is enough.
RebootsOnEither(mods, k) ==
  {"CTL", "ALT"} \cap mods # {} /\ CharOf(mods, k) = KEY_DEL

\* Ctrl-Alt-Del.
Reboots(mods, k) == {"CTL", "ALT"} \subseteq mods /\ CharOf(mods, k) = KEY_DEL
=============================================================================
