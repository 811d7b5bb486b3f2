---------------------------- MODULE ConsoleInput ----------------------------
(***************************************************************************)
(* Console input of kern/console.c: the circular buffer "cons", the loop   *)
(* that drains a device into it (cons_intr), the two polls (serial_intr,   *)
(* kbd_intr), cons_getc and getchar.                                       *)
(*                                                                         *)
(* The kernel is one thread with interrupts disabled (boot/boot.S never    *)
(* enables them), so the only concurrency is between its steps and the     *)
(* arrival of characters at the devices.  One step of the kernel is one    *)
(* turn of a loop: characters arrive between any two of them.              *)
(*                                                                         *)
(* A character is named by its origin, the no-th datum of its device.  An  *)
(* item NoChar in a device is a datum whose proc() returns 0: a NUL byte   *)
(* of the serial line, or a scan code that does not finish a character.    *)
(* Bytes a device drops on its own, before the kernel could read them,     *)
(* count as never sent.                                                    *)
(***************************************************************************)
EXTENDS Integers, Sequences

CONSTANTS
  CONSBUFSIZE,     \* slots of cons.buf (512 in the code)
  DevCap,          \* bound: data a device holds until it is read
  MaxSent,         \* bound: data a device sends in a behaviour
  NoChar           \* the 0 of the code: no character

Dev == {"serial", "kbd"}

Char == [dev : Dev, no : 0 .. MaxSent]

Item == Char \cup {NoChar}

ASSUME InputAssumption ==
  /\ CONSBUFSIZE \in Nat \ {0}
  /\ DevCap \in Nat \ {0}
  /\ MaxSent \in Nat
  /\ NoChar \notin Char

VARIABLES
  buf, rpos, wpos,   \* the fields of cons
  serial_exists,     \* set by serial_init
  port,              \* TRUE iff the machine has a COM1 port
  rx,                \* data waiting in each device, oldest first
  sent,              \* data sent by each device so far
  pc,                \* where the kernel is
  ret,               \* value of the last cons_getc
  last,              \* history: number of the last character returned, by device
  owed,              \* history: characters stored and not yet returned
  laps               \* history: times wpos caught up with rpos

ring  == <<buf, rpos, wpos>>
uart  == <<serial_exists, port>>
ghost == <<last, owed, laps>>
vars  == <<ring, uart, rx, sent, pc, ret, ghost>>

Slot == 0 .. CONSBUFSIZE - 1

\* Mutants of NextPos: the wrap is missing; it comes one slot early.
NextPosNoWrap(p) == p + 1
NextPosEarly(p)  == IF p + 2 >= CONSBUFSIZE THEN 0 ELSE p + 1

\* The index that follows p in the circular buffer.
NextPos(p) == IF p + 1 = CONSBUFSIZE THEN 0 ELSE p + 1

\* Number of characters between the read and the write index.
Count == IF wpos >= rpos THEN wpos - rpos ELSE CONSBUFSIZE - rpos + wpos

\* The slot of the i-th character that a reader will get.
SlotOf(i) == IF rpos + i - 1 < CONSBUFSIZE THEN rpos + i - 1
             ELSE rpos + i - 1 - CONSBUFSIZE

\* The readable contents of the buffer, oldest first.
Unread == [i \in 1 .. Count |-> buf[SlotOf(i)]]

-----------------------------------------------------------------------------
(* The devices.                                                            *)

\* The next character of device d, or a datum that yields none, arrives.
Arrive(d) ==
  /\ d = "serial" => port
  /\ Len(rx[d]) < DevCap
  /\ sent[d] < MaxSent
  /\ sent' = [sent EXCEPT ![d] = @ + 1]
  /\ \E c \in {[dev |-> d, no |-> sent[d] + 1], NoChar} :
       rx' = [rx EXCEPT ![d] = Append(@, c)]
  /\ UNCHANGED <<ring, uart, pc, ret, ghost>>

\* serial_proc_data and kbd_proc_data return something other than -1.  A port
\* that does not exist reads as 0xFF: its status says "data available".
HasData(d) == (d = "serial" /\ ~port) \/ rx[d] # <<>>

FloatingBus == [dev |-> "serial", no |-> 0]

\* The datum that proc() reads, and what is left in the device.
Datum(d) == IF rx[d] # <<>> THEN Head(rx[d]) ELSE FloatingBus
Rest(d)  == IF rx[d] # <<>> THEN Tail(rx[d]) ELSE <<>>

-----------------------------------------------------------------------------
(* The kernel.                                                             *)

\* cons_init: serial_init probes the port and discards a datum that is
\* already there; kbd_init does nothing.
ConsInit ==
  /\ pc = "boot"
  /\ serial_exists' = port
  /\ rx' = [rx EXCEPT !["serial"] = Rest("serial")]
  /\ pc' = "caller"
  /\ UNCHANGED <<ring, port, sent, ret, ghost>>

\* getchar: the first call of cons_getc, whose first poll is serial_intr.
Getchar ==
  /\ pc = "caller"
  /\ pc' = "serial_intr"
  /\ UNCHANGED <<ring, uart, rx, sent, ret, ghost>>

\* Mutant of Stash: the write index is advanced before the store.
StashAfter(c) ==
  /\ buf' = [buf EXCEPT ![NextPos(wpos)] = c]
  /\ wpos' = NextPos(wpos)
  /\ owed' = owed + 1
  /\ laps' = IF NextPos(wpos) = rpos THEN laps + 1 ELSE laps

\* Store c and advance the write index.
Stash(c) ==
  /\ buf' = [buf EXCEPT ![wpos] = c]
  /\ wpos' = NextPos(wpos)
  /\ owed' = owed + 1
  /\ laps' = IF NextPos(wpos) = rpos THEN laps + 1 ELSE laps

\* One turn of the loop of cons_intr for device d.
ConsIntrTurn(d) ==
  /\ HasData(d)
  /\ rx' = [rx EXCEPT ![d] = Rest(d)]
  /\ \/ /\ Datum(d) = NoChar
        /\ UNCHANGED <<buf, wpos, owed, laps>>
     \/ /\ Datum(d) # NoChar
        /\ Stash(Datum(d))
  /\ UNCHANGED <<rpos, uart, sent, pc, ret, last>>

\* Mutant of SerialTurn: nobody asks whether the port exists.
SerialTurnUnchecked ==
  /\ pc = "serial_intr"
  /\ ConsIntrTurn("serial")

\* The kernel is in serial_intr and goes round cons_intr's loop.
SerialTurn ==
  /\ pc = "serial_intr"
  /\ serial_exists
  /\ ConsIntrTurn("serial")

\* Mutant of SerialDone: cons_getc does not call kbd_intr.
SerialDoneNoKbd ==
  /\ pc = "serial_intr"
  /\ serial_exists => ~HasData("serial")
  /\ pc' = "fetch"
  /\ UNCHANGED <<ring, uart, rx, sent, ret, ghost>>

\* serial_intr returns: there is no port, or no datum.
SerialDone ==
  /\ pc = "serial_intr"
  /\ serial_exists => ~HasData("serial")
  /\ pc' = "kbd_intr"
  /\ UNCHANGED <<ring, uart, rx, sent, ret, ghost>>

KbdTurn ==
  /\ pc = "kbd_intr"
  /\ ConsIntrTurn("kbd")

KbdDone ==
  /\ pc = "kbd_intr"
  /\ ~HasData("kbd")
  /\ pc' = "fetch"
  /\ UNCHANGED <<ring, uart, rx, sent, ret, ghost>>

\* Mutant of Fetch: the read index jumps to the write index.
FetchLatest ==
  /\ pc = "fetch"
  /\ rpos # wpos
  /\ ret' = buf[rpos]
  /\ rpos' = wpos
  /\ last' = [last EXCEPT ![buf[rpos].dev] = buf[rpos].no]
  /\ owed' = owed - 1
  /\ pc' = "caller"
  /\ UNCHANGED <<buf, wpos, uart, rx, sent, laps>>

\* cons_getc takes the oldest character; getchar returns it.
Fetch ==
  /\ pc = "fetch"
  /\ rpos # wpos
  /\ ret' = buf[rpos]
  /\ rpos' = NextPos(rpos)
  /\ last' = [last EXCEPT ![buf[rpos].dev] = buf[rpos].no]
  /\ owed' = owed - 1
  /\ pc' = "caller"
  /\ UNCHANGED <<buf, wpos, uart, rx, sent, laps>>

\* cons_getc returns 0 and getchar calls it again.
FetchNone ==
  /\ pc = "fetch"
  /\ rpos = wpos
  /\ ret' = NoChar
  /\ pc' = "serial_intr"
  /\ UNCHANGED <<ring, uart, rx, sent, ghost>>

-----------------------------------------------------------------------------
Init ==
  /\ buf = [s \in Slot |-> NoChar]
  /\ rpos = 0
  /\ wpos = 0
  /\ serial_exists = FALSE
  /\ port \in BOOLEAN
  /\ rx = [d \in Dev |-> <<>>]
  /\ sent = [d \in Dev |-> 0]
  /\ pc = "boot"
  /\ ret = NoChar
  /\ last = [d \in Dev |-> 0]
  /\ owed = 0
  /\ laps = 0

Kernel == ConsInit \/ Getchar \/ SerialTurn \/ SerialDone \/ KbdTurn \/ KbdDone
          \/ Fetch \/ FetchNone

Next == Kernel \/ \E d \in Dev : Arrive(d)

Spec == Init /\ [][Next]_vars

\* The processor never stops, and the monitor calls getchar again and again.
\* Nobody has to type.
FairSpec == Spec /\ WF_vars(Kernel)

-----------------------------------------------------------------------------
(* Properties.                                                             *)

TypeOK ==
  /\ buf \in [Slot -> Item]
  /\ rpos \in Slot
  /\ wpos \in Slot
  /\ serial_exists \in BOOLEAN
  /\ port \in BOOLEAN
  /\ rx \in [Dev -> Seq(Item)]
  /\ sent \in [Dev -> 0 .. MaxSent]
  /\ pc \in {"boot", "caller", "serial_intr", "kbd_intr", "fetch"}
  /\ ret \in Item
  /\ last \in [Dev -> 0 .. MaxSent]
  /\ owed \in Nat
  /\ laps \in Nat

\* Characters are lost only a whole buffer at a time: what was stored and not
\* returned is what can still be read, plus CONSBUFSIZE for each time the
\* write index caught up with the read index.
LossIsWholeLaps == owed = Count + CONSBUFSIZE * laps

\* The slots between the read and the write index.
Readable(s) == IF rpos <= wpos THEN rpos <= s /\ s < wpos
               ELSE rpos <= s \/ s < wpos

\* A reader never gets the contents of a slot that no device has filled.
ReadableAreChars == \A s \in Slot : Readable(s) => buf[s] # NoChar

\* Item c is a character of device d.
From(c, d) == c # NoChar /\ c.dev = d

\* The characters of one device are read in the order they were typed, none
\* twice: after the last one returned come those in the buffer, then those
\* still in the device.  A port that does not exist, and whose status register
\* therefore always says "data available", supplies none.
InOrder ==
  \A d \in Dev :
    LET line == Unread \o rx[d]
    IN  \A j \in 1 .. Len(line) : From(line[j], d) =>
          /\ last[d] < line[j].no
          /\ \A i \in 1 .. j - 1 : From(line[i], d) => line[i].no < line[j].no

\* The circular buffer is the queue of InputFifo.
Fifo == INSTANCE InputFifo
          WITH Capacity <- CONSBUFSIZE, queue <- Unread, got <- ret
ImplementsFifo == Fifo!FifoSpec

\* No poll starves: when a device has something, all of it is eventually
\* stored, and the readers catch up with the buffer.
ReadersCatchUp ==
  \A d \in Dev : (rx[d] # <<>>) ~> (rx[d] = <<>> /\ Unread = <<>>)
=============================================================================
