\* 29: left Ctrl, 42 and 54: the Shift keys, 184: right Alt, 58: CapsLock,
\* 30: the letter A, 211: Del of the arrow block.
\* A byte that is not from the keyboard stays in its way for ever: the system
\* may stop (see the run keyboard_mouse).
CHECK_DEADLOCK FALSE
SPECIFICATION FairSpec
CONSTANTS
  Keys = {29, 42, 54, 184, 58, 30, 211}
  FifoCap = 2
  MaxMouse = 1
INVARIANTS TypeOK ModifiersMatchKeys EscapeMatchesNextByte
PROPERTIES RebootIffChord LetterCase ImplementsEvents
