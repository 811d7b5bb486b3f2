------------------------------- MODULE Keyboard -------------------------------
(***************************************************************************)
(* kbd_proc_data of kern/console.c and the 8042 controller it polls.       *)
(*                                                                         *)
(* A key is named by its index in the tables.  Keys below 128 send one     *)
(* byte when they go down and that byte + 128 when they come up; the other *)
(* keys send 0xE0 first.  Keys go down and come up in any order: a key may *)
(* be held when the kernel starts, repeat while it is held, and have       *)
(* events lost on the way.  The bytes of one event stay together.          *)
(*                                                                         *)
(* A poll that returns -1 changes nothing and is no step of the model.     *)
(***************************************************************************)
EXTENDS KeyTables

CONSTANTS
  Keys,        \* keys of the keyboard, by table index
  FifoCap,     \* bound: bytes the controller holds
  MaxMouse     \* bound: bytes that do not come from the keyboard

ESCAPE == 224  \* 0xE0

\* The scan codes 0x60 and 0xE0 0x60 belong to no key: their release would
\* read 0xE0.
ASSUME KeysAssumption ==
  /\ Keys \subseteq Byte \ {96, 224}
  /\ FifoCap \in Nat
  /\ MaxMouse \in Nat

VARIABLES
  fifo,        \* bytes in the controller, oldest first
  mouse,       \* bytes sent so far that do not come from the keyboard
  shift,       \* the flags of kbd_proc_data
  typed,       \* history: the last character returned
  rebooting,   \* the reset line has been raised (port 0x92)
  down,        \* history: keys whose last decoded event was "goes down"
  caps         \* history: CapsLock has gone down an odd number of times

vars == <<fifo, mouse, shift, typed, rebooting, down, caps>>

\* A byte of the controller: what it is, and the key event it ends, if any.
\* aux is the status bit "transmission error or from mouse".
Datum == [byte : Byte, aux : BOOLEAN, ends : {"nothing", "press", "release"},
          key : Keys \cup {NO}]

Prefix == [byte |-> ESCAPE, aux |-> FALSE, ends |-> "nothing", key |-> NO]
Noise  == [byte |-> 0, aux |-> TRUE, ends |-> "nothing", key |-> NO]
Final(k, e) ==
  [byte |-> (IF k < 128 THEN k ELSE k - 128) + (IF e = "release" THEN 128 ELSE 0),
   aux |-> FALSE, ends |-> e, key |-> k]

\* The bytes that tell of event e of key k.
Bytes(k, e) ==
  IF k < 128 THEN <<Final(k, e)>> ELSE <<Prefix, Final(k, e)>>

-----------------------------------------------------------------------------
(* The controller.                                                         *)

KeyEvent(k, e) ==
  /\ ~rebooting
  /\ Len(fifo) + Len(Bytes(k, e)) <= FifoCap
  /\ fifo' = fifo \o Bytes(k, e)
  /\ UNCHANGED <<mouse, shift, typed, rebooting, down, caps>>

MouseByte ==
  /\ ~rebooting
  /\ Len(fifo) < FifoCap
  /\ mouse < MaxMouse
  /\ mouse' = mouse + 1
  /\ fifo' = Append(fifo, Noise)
  /\ UNCHANGED <<shift, typed, rebooting, down, caps>>

\* The keys down once the first byte of the controller is decoded.
DownAfter ==
  CASE Head(fifo).ends = "press"   -> down \cup {Head(fifo).key}
    [] Head(fifo).ends = "release" -> down \ {Head(fifo).key}
    [] OTHER -> down

\* Each time CapsLock goes down, it turns over.
CapsAfter ==
  IF Head(fifo).ends = "press" /\ Head(fifo).key = 58 THEN ~caps ELSE caps

-----------------------------------------------------------------------------
(* kbd_proc_data.                                                          *)

\* The controller has a byte, and it comes from the keyboard.
Ready == ~rebooting /\ fifo # <<>> /\ ~Head(fifo).aux

data == Head(fifo).byte

\* The byte is read.
Consume ==
  /\ fifo' = Tail(fifo)
  /\ down' = DownAfter
  /\ caps' = CapsAfter
  /\ UNCHANGED mouse

\* "E0 escape character".
EscapeByte ==
  /\ Ready
  /\ data = ESCAPE
  /\ shift' = shift \cup {"E0ESC"}
  /\ Consume
  /\ UNCHANGED <<typed, rebooting>>

\* Mutants of ReleaseByte: the escape outlives the release; every key is
\* released under its escaped code.
ReleaseByteKeepsEscape ==
  /\ Ready
  /\ data # ESCAPE /\ data >= 128
  /\ LET k == IF "E0ESC" \in shift THEN data ELSE data - 128
     IN  shift' = AfterRelease(shift, k)
  /\ Consume
  /\ UNCHANGED <<typed, rebooting>>

ReleaseByteUnmasked ==
  /\ Ready
  /\ data # ESCAPE /\ data >= 128
  /\ shift' = AfterRelease(shift, data) \ {"E0ESC"}
  /\ Consume
  /\ UNCHANGED <<typed, rebooting>>

\* "Key released".
ReleaseByte ==
  /\ Ready
  /\ data # ESCAPE /\ data >= 128
  /\ LET k == IF "E0ESC" \in shift THEN data ELSE data - 128
     IN  shift' = AfterRelease(shift, k) \ {"E0ESC"}
  /\ Consume
  /\ UNCHANGED <<typed, rebooting>>

\* Mutant of PressByte: "or with 0x80" is missing.
PressByteUnescaped ==
  /\ Ready
  /\ data < 128
  /\ shift' = AfterPress(shift \ {"E0ESC"}, data)
  /\ typed' = IF CharOf(shift', data) = NO THEN typed ELSE CharOf(shift', data)
  /\ rebooting' = Reboots(shift', data)
  /\ Consume

\* A key goes down and, with the flags it leaves, gives a character.
PressByte ==
  /\ Ready
  /\ data < 128
  /\ LET k == IF "E0ESC" \in shift THEN data + 128 ELSE data
     IN  /\ shift' = AfterPress(shift \ {"E0ESC"}, k)
         /\ typed' = IF CharOf(shift', k) = NO THEN typed ELSE CharOf(shift', k)
         /\ rebooting' = Reboots(shift', k)
  /\ Consume

Poll == EscapeByte \/ ReleaseByte \/ PressByte

-----------------------------------------------------------------------------
Init ==
  /\ fifo = <<>>
  /\ mouse = 0
  /\ shift = {}
  /\ typed = NO
  /\ rebooting = FALSE
  /\ down = {}
  /\ caps = FALSE

\* The machine resets, and with it controller and kernel.
Restart ==
  /\ rebooting
  /\ fifo' = <<>>
  /\ shift' = {}
  /\ typed' = NO
  /\ rebooting' = FALSE
  /\ down' = {}
  /\ caps' = FALSE
  /\ UNCHANGED mouse

Next ==
  \/ Poll
  \/ Restart
  \/ MouseByte
  \/ \E k \in Keys, e \in {"press", "release"} : KeyEvent(k, e)

Spec == Init /\ [][Next]_vars

\* cons_getc polls the keyboard in every turn of getchar's loop.
FairSpec == Spec /\ WF_vars(Poll)

-----------------------------------------------------------------------------
(* Properties.                                                             *)

TypeOK ==
  /\ fifo \in Seq(Datum)
  /\ mouse \in 0 .. MaxMouse
  /\ shift \subseteq Flags
  /\ typed \in Byte
  /\ rebooting \in BOOLEAN
  /\ down \subseteq Keys
  /\ caps \in BOOLEAN

\* The keys that set modifier m.
KeysOf(m) == {k \in Keys : m \in shiftcode[k]}

\* A modifier flag is set only while one of its keys is down, and if it has
\* just one key, exactly then.  (Of two keys that share a flag, the first to
\* come up clears it.)
ModifiersMatchKeys ==
  \A m \in Modifiers :
    /\ m \in shift => KeysOf(m) \cap down # {}
    /\ (\E k \in Keys : KeysOf(m) = {k}) => (m \in shift <=> KeysOf(m) \subseteq down)

\* E0ESC is set exactly between the two bytes of an escaped scan code, so
\* no byte is ever combined with an escape that was not sent for it.
EscapeMatchesNextByte ==
  "E0ESC" \in shift <=> /\ fifo # <<>>
                        /\ Head(fifo).ends # "nothing" /\ Head(fifo).key >= 128

\* Ctrl-Alt-Del restarts the machine, and nothing else does: when Del goes
\* down, the reset line is raised if and only if a Ctrl and an Alt flag stand
\* for a key that is down.  (The chord holds a single Ctrl and Alt key.)
RebootIffChord ==
  [][PressByte => (rebooting' <=> /\ Head(fifo).key = 211
                                  /\ KeysOf("CTL") \cap down # {}
                                  /\ KeysOf("ALT") \cap down # {})]_vars

\* Letters: without Ctrl, the case is upper when either Shift is held or
\* CapsLock has been pressed an odd number of times since the start, but not
\* both, whatever else was typed in between (a held CapsLock repeats, and each
\* repeat counts); with Ctrl, the control code whatever the case.
LetterCase ==
  [][PressByte /\ normalmap[Head(fifo).key] \in Lower =>
       typed' = IF "CTL" \in shift THEN normalmap[Head(fifo).key] - 96
                ELSE IF ("SHIFT" \in shift) # caps
                     THEN normalmap[Head(fifo).key] - 32
                     ELSE normalmap[Head(fifo).key]]_vars

\* Byte by byte, kbd_proc_data does what KeyEvents says of whole key events.
Events == INSTANCE KeyEvents WITH mods <- shift \ {"E0ESC"}
ImplementsEvents == Events!EventSpec

\* kbd_proc_data's comment "Ignore data from mouse" (kern/console.c:325): a
\* byte that is not from the keyboard does not stay in its way.
MouseDataIgnored ==
  (fifo # <<>> /\ Head(fifo).aux) ~> (fifo = <<>> \/ ~Head(fifo).aux)
=============================================================================
