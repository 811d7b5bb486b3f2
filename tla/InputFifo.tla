------------------------------ MODULE InputFifo ------------------------------
(***************************************************************************)
(* What the console input buffer of kern/console.c promises its readers,   *)
(* without indices: a first-in first-out queue of at most Capacity - 1     *)
(* characters.  The character that would make it Capacity long empties the *)
(* queue instead: the write index has caught up with the read index, and   *)
(* equal indices mean "nothing to read".                                   *)
(***************************************************************************)
EXTENDS Naturals, Sequences

CONSTANTS
  Capacity,   \* slots of the buffer
  Char,       \* characters
  NoChar      \* what a reader gets when nothing is queued

VARIABLES
  queue,      \* characters accepted and not yet read, oldest first
  got         \* result of the last read

fifoVars == <<queue, got>>

FifoInit == queue = <<>> /\ got = NoChar

\* A device hands over c.
Put(c) ==
  /\ queue' = IF Len(queue) + 1 < Capacity THEN Append(queue, c) ELSE <<>>
  /\ UNCHANGED got

\* A reader takes the oldest character.
Get ==
  /\ queue # <<>>
  /\ got' = Head(queue)
  /\ queue' = Tail(queue)

\* A reader finds nothing.
GetNothing ==
  /\ queue = <<>>
  /\ got' = NoChar
  /\ UNCHANGED queue

FifoNext == (\E c \in Char : Put(c)) \/ Get \/ GetNothing

FifoSpec == FifoInit /\ [][FifoNext]_fifoVars
==============================================================================
