---------------------------- MODULE ConsoleOutput ----------------------------
(***************************************************************************)
(* Console output of kern/console.c: cons_putc sends each character to the *)
(* serial port, the parallel port and the display, in this order.  The two *)
(* ports are waited for, but only for so many polls; then the character is *)
(* sent whatever the port says.                                            *)
(*                                                                         *)
(* A character is named by its number: the kernel prints 1, 2, 3, ...  The *)
(* ports work, or fail to, at their own pace.                              *)
(***************************************************************************)
EXTENDS Integers, Sequences

CONSTANTS
  Timeout,     \* polls before a port is given up (12800 in the code)
  MaxOut       \* bound: characters printed in a behaviour

ASSUME OutputAssumption == Timeout \in Nat /\ MaxOut \in Nat

NONE == 0

Port == {"serial", "lpt"}

VARIABLES
  c,           \* the character being printed, the last one when none is
  i,           \* polls of the port so far
  pc,          \* where cons_putc is
  present,     \* the ports that the machine has
  thr,         \* the serial port's transmit register, NONE when free
  wire,        \* characters sent over the serial line
  latch,       \* the parallel port's data register
  busy,        \* the printer is busy
  paper,       \* characters the printer has taken
  shown,       \* characters given to cga_putc
  forced       \* history: the ports that were given up at least once

vars == <<c, i, pc, present, thr, wire, latch, busy, paper, shown, forced>>

serialPort == <<thr, wire>>
printer    == <<latch, busy, paper>>

-----------------------------------------------------------------------------
(* The devices.  A port that does not exist reads as 0xFF: always ready.   *)

Transmit ==
  /\ thr # NONE
  /\ wire' = Append(wire, thr)
  /\ thr' = NONE
  /\ UNCHANGED <<c, i, pc, present, printer, shown, forced>>

PrinterReady ==
  /\ busy
  /\ busy' = FALSE
  /\ UNCHANGED <<c, i, pc, present, serialPort, latch, paper, shown, forced>>

Ready(port) == port \in present => IF port = "serial" THEN thr = NONE ELSE ~busy

-----------------------------------------------------------------------------
(* cons_putc.                                                              *)

\* The kernel prints the next character.
Putchar ==
  /\ pc = "caller"
  /\ c < MaxOut
  /\ c' = c + 1
  /\ i' = 0
  /\ pc' = "serial"
  /\ UNCHANGED <<present, serialPort, printer, shown, forced>>

\* Mutant of Wait: the polls are not counted.
WaitForEver(port) ==
  /\ pc = port
  /\ ~Ready(port)
  /\ UNCHANGED vars

\* One turn of the loop that waits for a port.
Wait(port) ==
  /\ pc = port
  /\ ~Ready(port)
  /\ i < Timeout
  /\ i' = i + 1
  /\ UNCHANGED <<c, pc, present, serialPort, printer, shown, forced>>

\* Mutant of GoAhead: the wait is over after the first poll.
GoAheadAtOnce(port) ==
  /\ pc = port
  /\ forced' = IF i = Timeout THEN forced \cup {port} ELSE forced

\* The wait for the port is over: it is ready, or given up.
GoAhead(port) ==
  /\ pc = port
  /\ Ready(port) \/ i = Timeout
  /\ forced' = IF Ready(port) THEN forced ELSE forced \cup {port}

\* serial_putc writes the transmit register, full or not.
SerialWrite ==
  /\ GoAhead("serial")
  /\ thr' = IF "serial" \in present THEN c ELSE NONE
  /\ i' = 0
  /\ pc' = "lpt"
  /\ UNCHANGED <<c, present, wire, printer, shown>>

\* lpt_putc writes the data register ...
LptWrite ==
  /\ GoAhead("lpt")
  /\ latch' = c
  /\ pc' = "strobe"
  /\ UNCHANGED <<c, i, present, serialPort, busy, paper, shown>>

\* Mutant of Strobe: the strobe line may be pulsed more than once.
StrobeTwice ==
  /\ pc = "strobe"
  /\ IF "lpt" \in present THEN paper' = Append(paper, latch) ELSE UNCHANGED paper
  /\ pc' \in {"strobe", "cga"}
  /\ UNCHANGED <<c, i, present, serialPort, latch, busy, shown, forced>>

\* ... and pulses the strobe line: a printer that is not busy takes the
\* character.
Strobe ==
  /\ pc = "strobe"
  /\ IF "lpt" \in present /\ ~busy THEN paper' = Append(paper, latch) /\ busy' = TRUE
     ELSE UNCHANGED <<paper, busy>>
  /\ pc' = "cga"
  /\ UNCHANGED <<c, i, present, serialPort, latch, shown, forced>>

CgaPutc ==
  /\ pc = "cga"
  /\ shown' = Append(shown, c)
  /\ pc' = "caller"
  /\ UNCHANGED <<c, i, present, serialPort, printer, forced>>

Kernel == Wait("serial") \/ SerialWrite \/ Wait("lpt") \/ LptWrite \/ Strobe \/ CgaPutc

-----------------------------------------------------------------------------
Init ==
  /\ c = 0 /\ i = 0
  /\ pc = "caller"
  /\ present \in SUBSET Port
  /\ thr = NONE /\ wire = <<>>
  /\ latch = NONE /\ busy \in BOOLEAN /\ paper = <<>>
  /\ shown = <<>>
  /\ forced = {}

Next == Putchar \/ Kernel \/ Transmit \/ PrinterReady

Spec == Init /\ [][Next]_vars

\* The processor runs on.  Nothing is assumed of the devices: they may be
\* slow or dead.
FairSpec == Spec /\ WF_vars(Kernel)

-----------------------------------------------------------------------------
(* Properties.                                                             *)

Increasing(s) == \A j, k \in 1 .. Len(s) : j < k => s[j] < s[k]

\* However often a port is given up, what arrives behind it, and what the
\* display shows meanwhile, is in the order it was printed, and nothing twice.
ArrivesInOrder ==
  /\ Increasing(IF thr = NONE THEN wire ELSE Append(wire, thr))
  /\ Increasing(paper)
  /\ Increasing(shown)

\* The numbers printed so far on a port that cons_putc leaves at pc.
Printed(stages) == [n \in 1 .. IF pc \in stages THEN c - 1 ELSE c |-> n]

\* A port that was always waited for long enough has lost nothing, and the
\* display misses nothing, whatever the ports do.
NothingLostUnlessForced ==
  /\ shown = Printed({"serial", "lpt", "strobe", "cga"})
  /\ "serial" \in present \ forced =>
       Printed({"serial"}) = IF thr = NONE THEN wire ELSE Append(wire, thr)
  /\ "lpt" \in present \ forced => Printed({"serial", "lpt", "strobe"}) = paper

\* Printing never hangs, even with dead ports.
PutcReturns == (pc # "caller") ~> (pc = "caller")
=============================================================================
