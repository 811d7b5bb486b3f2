------------------------------ MODULE KeyEvents ------------------------------
(***************************************************************************)
(* What the keyboard driver of kern/console.c promises, without scan-code  *)
(* bytes: keys go down and come up, modifier and lock flags follow them,   *)
(* a key that goes down gives the character of its table, and one chord    *)
(* restarts the machine.                                                   *)
(***************************************************************************)
EXTENDS KeyTables

CONSTANT Keys       \* the keys of the keyboard, by their table index

VARIABLES
  mods,             \* modifier and lock flags
  typed,            \* the last character produced
  rebooting         \* the reset line has been raised

eventVars == <<mods, typed, rebooting>>

EventInit == mods = {} /\ typed = NO /\ rebooting = FALSE

\* A lock turns over each time its key goes down; a modifier is set, and stays.
FlagAfter(f, k) ==
  IF f \in Locks THEN f \in mods <=> f \notin togglecode[k]
                  ELSE f \in mods \/ f \in shiftcode[k]

Press(k) ==
  /\ ~rebooting
  /\ mods' = {f \in Modifiers \cup Locks : FlagAfter(f, k)}
  /\ typed' = IF CharOf(mods', k) = NO THEN typed ELSE CharOf(mods', k)
  /\ rebooting' = Reboots(mods', k)

Release(k) ==
  /\ ~rebooting
  /\ mods' = AfterRelease(mods, k)
  /\ UNCHANGED <<typed, rebooting>>

Restart ==
  /\ rebooting
  /\ mods' = {} /\ typed' = NO /\ rebooting' = FALSE

EventNext == (\E k \in Keys : Press(k) \/ Release(k)) \/ Restart

EventSpec == EventInit /\ [][EventNext]_eventVars
=============================================================================
