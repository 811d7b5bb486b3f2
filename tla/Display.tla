------------------------------- MODULE Display -------------------------------
(***************************************************************************)
(* The text-mode display of kern/console.c (cga_putc) as operators on a    *)
(* screen, a record of the cells crt_buf and the cursor crt_pos.           *)
(*                                                                         *)
(* A character is a member of Glyph or one of the four that cga_putc       *)
(* treats specially.  Colour attributes are left out: the kernel prints    *)
(* every character with the same one.                                      *)
(***************************************************************************)
EXTENDS Integers, Sequences

CONSTANTS CRT_ROWS, CRT_COLS,
          Glyph,     \* characters that show in a cell
          Space      \* the blank one

ASSUME DisplayAssumption ==
  /\ CRT_ROWS \in Nat \ {0}
  /\ CRT_COLS \in Nat \ {0}
  /\ Space \in Glyph
  /\ Glyph \cap {"bs", "nl", "cr", "tab"} = {}

CRT_SIZE == CRT_ROWS * CRT_COLS

Cell == 0 .. CRT_SIZE - 1

Screen == [cell : [Cell -> Glyph], pos : Cell]

Control == {"bs", "nl", "cr", "tab"}

\* Mutant of Scrolled: the cells stay where they are.
ScrolledCursorOnly(s) ==
  IF s.pos < CRT_SIZE THEN s ELSE [s EXCEPT !.pos = @ - CRT_COLS]

\* One row up, if the cursor has left the screen.
Scrolled(s) ==
  IF s.pos < CRT_SIZE THEN s
  ELSE [cell |-> [i \in Cell |-> IF i + CRT_COLS \in Cell
                                 THEN s.cell[i + CRT_COLS] ELSE Space],
        pos  |-> s.pos - CRT_COLS]

\* A glyph in the cell under the cursor.
Write(s, g) ==
  Scrolled([cell |-> [s.cell EXCEPT ![s.pos] = g], pos |-> s.pos + 1])

Backspace(s) ==
  IF s.pos = 0 THEN s
  ELSE [cell |-> [s.cell EXCEPT ![s.pos - 1] = Space], pos |-> s.pos - 1]

RowStart(p) == p - (p % CRT_COLS)

\* cga_putc.
Putc(s, c) ==
  CASE c = "bs"  -> Backspace(s)
    [] c = "nl"  -> Scrolled([s EXCEPT !.pos = RowStart(@ + CRT_COLS)])
    [] c = "cr"  -> [s EXCEPT !.pos = RowStart(@)]
    [] c = "tab" -> LET spaces[k \in 0 .. 5] ==
                          IF k = 0 THEN s ELSE Write(spaces[k - 1], Space)
                    IN  spaces[5]
    [] OTHER     -> Write(s, c)
=============================================================================
