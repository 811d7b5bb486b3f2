------------------------------- MODULE Monitor -------------------------------
(***************************************************************************)
(* The kernel monitor: monitor and runcmd of kern/monitor.c, readline of   *)
(* lib/readline.c, and the display they write on.  getchar supplies any    *)
(* character in every turn of readline's loop.                             *)
(***************************************************************************)
EXTENDS Display, SequencesExt

CONSTANTS
  BUFLEN,      \* size of readline's static buffer (1024 in the code)
  MAXARGS,     \* size of runcmd's argv (16 in the code)
  PROMPT,      \* the prompt, "K> "
  Commands,    \* what each command prints, by its name
  TOOMANY,     \* "Too many arguments"
  UNKNOWN      \* "Unknown command", which the name follows

DEL == "del"   \* 0x7f: a backspace, and a glyph of the character generator
NUL == "nul"

ASSUME MonitorAssumption ==
  /\ BUFLEN \in Nat \ {0}
  /\ MAXARGS \in Nat \ {0}
  /\ DEL \in Glyph /\ NUL \notin Glyph
  /\ PROMPT \in Seq(Glyph)
  /\ \A name \in DOMAIN Commands :
       name \in Seq(Glyph) /\ Commands[name] \in Seq(Glyph \cup Control)
  /\ TOOMANY \in Seq(Glyph \cup Control)
  /\ UNKNOWN \in Seq(Glyph \cup Control)

VARIABLES
  crt,         \* the screen
  buf,         \* readline's buffer
  i,           \* readline's index: characters in the line
  p,           \* runcmd's position in the buffer
  argv,        \* runcmd's arguments, as positions in the buffer
  pc,          \* where the monitor is
  line         \* history: the line as the user has edited it

vars == <<crt, buf, i, p, argv, pc, line>>

Index == 0 .. BUFLEN - 1

Erase   == {"bs", DEL}
Enter   == {"nl", "cr"}
Input   == Glyph \cup Control

WHITESPACE == {"tab", "cr", "nl", Space}

Puts(s, str) ==
  LET shown[k \in 0 .. Len(str)] == IF k = 0 THEN s ELSE Putc(shown[k - 1], str[k])
  IN  shown[Len(str)]

-----------------------------------------------------------------------------
(* readline.                                                               *)

\* readline starts: it prints the prompt.
Prompt ==
  /\ pc = "prompt"
  /\ crt' = Puts(crt, PROMPT)
  /\ i' = 0
  /\ line' = <<>>
  /\ pc' = "read"
  /\ UNCHANGED <<buf, p, argv>>

\* Mutant of EraseChar: the test for an empty line is missing.
EraseCharAlways(c) ==
  /\ pc = "read"
  /\ c \in Erase
  /\ crt' = Putc(crt, "bs")
  /\ i' = i - 1
  /\ line' = IF line = <<>> THEN line ELSE Front(line)
  /\ UNCHANGED <<buf, p, argv, pc>>

\* Backspace or DEL takes the last character off.
EraseChar(c) ==
  /\ pc = "read"
  /\ c \in Erase /\ i > 0
  /\ crt' = Putc(crt, "bs")
  /\ i' = i - 1
  /\ line' = Front(line)
  /\ UNCHANGED <<buf, p, argv, pc>>

\* Any other printing character goes into the line while there is room.  A DEL
\* that has nothing to take off is such a character.
InsertChar(c) ==
  /\ pc = "read"
  /\ c \in Glyph
  /\ c \in Erase => i = 0
  /\ i < BUFLEN - 1
  /\ crt' = Putc(crt, c)
  /\ buf' = [buf EXCEPT ![i] = c]
  /\ i' = i + 1
  /\ line' = Append(line, c)
  /\ UNCHANGED <<p, argv, pc>>

\* Mutant of EndLine: the line is not terminated.
EndLineOpen(c) ==
  /\ pc = "read"
  /\ c \in Enter
  /\ crt' = Putc(crt, "nl")
  /\ pc' = "runcmd"
  /\ UNCHANGED <<buf, i, p, argv, line>>

\* The line is complete; monitor calls runcmd with it.
EndLine(c) ==
  /\ pc = "read"
  /\ c \in Enter
  /\ crt' = Putc(crt, "nl")
  /\ buf' = [buf EXCEPT ![i] = NUL]
  /\ pc' = "runcmd"
  /\ UNCHANGED <<i, p, argv, line>>

\* What is left has no effect: readline asks for another character.
ReadChar == \E c \in Input : EraseChar(c) \/ InsertChar(c) \/ EndLine(c)

-----------------------------------------------------------------------------
(* runcmd.                                                                 *)

StartRuncmd ==
  /\ pc = "runcmd"
  /\ p' = 0
  /\ argv' = <<>>
  /\ pc' = "gobble"
  /\ UNCHANGED <<crt, buf, i, line>>

\* Mutant of Gobble: white space is passed over and left in the buffer.
GobbleKeeps ==
  /\ pc = "gobble"
  /\ buf[p] \in WHITESPACE
  /\ p' = p + 1
  /\ UNCHANGED <<crt, buf, i, argv, pc, line>>

\* Mutant of Gobble: the position stays.
GobbleInPlace ==
  /\ pc = "gobble"
  /\ buf[p] \in WHITESPACE
  /\ buf' = [buf EXCEPT ![p] = Space]
  /\ UNCHANGED <<crt, i, p, argv, pc, line>>

\* One turn of the loop that gobbles white space.
Gobble ==
  /\ pc = "gobble"
  /\ buf[p] \in WHITESPACE
  /\ buf' = [buf EXCEPT ![p] = NUL]
  /\ p' = p + 1
  /\ UNCHANGED <<crt, i, argv, pc, line>>

\* The line is used up.
EndOfLine ==
  /\ pc = "gobble"
  /\ buf[p] = NUL
  /\ pc' = "lookup"
  /\ UNCHANGED <<crt, buf, i, p, argv, line>>

\* "Too many arguments": the command is abandoned.
TooMany ==
  /\ pc = "gobble"
  /\ buf[p] \notin WHITESPACE \cup {NUL}
  /\ Len(argv) = MAXARGS - 1
  /\ crt' = Puts(crt, TOOMANY)
  /\ pc' = "prompt"
  /\ UNCHANGED <<buf, i, p, argv, line>>

StartArg ==
  /\ pc = "gobble"
  /\ buf[p] \notin WHITESPACE \cup {NUL}
  /\ Len(argv) # MAXARGS - 1
  /\ argv' = Append(argv, p)
  /\ pc' = "scan"
  /\ UNCHANGED <<crt, buf, i, p, line>>

\* One turn of the loop that scans past an argument.
Scan ==
  /\ pc = "scan"
  /\ buf[p] \notin WHITESPACE \cup {NUL}
  /\ p' = p + 1
  /\ UNCHANGED <<crt, buf, i, argv, pc, line>>

EndArg ==
  /\ pc = "scan"
  /\ buf[p] \in WHITESPACE \cup {NUL}
  /\ pc' = "gobble"
  /\ UNCHANGED <<crt, buf, i, p, argv, line>>

\* The C string at position k of the buffer.
StringAt(k) ==
  LET end == CHOOSE e \in k .. BUFLEN - 1 :
               buf[e] = NUL /\ \A j \in k .. e - 1 : buf[j] # NUL
  IN  [j \in 1 .. end - k |-> buf[k + j - 1]]

\* The command of that name runs and returns 0, or the name is unknown.
Reply(name) ==
  IF name \in DOMAIN Commands THEN Commands[name] ELSE UNKNOWN \o name \o <<"nl">>

\* No argument: nothing happens.  Otherwise argv[0] is the command.
Lookup ==
  /\ pc = "lookup"
  /\ crt' = IF argv = <<>> THEN crt ELSE Puts(crt, Reply(StringAt(argv[1])))
  /\ pc' = "prompt"
  /\ UNCHANGED <<buf, i, p, argv, line>>

Runcmd == StartRuncmd \/ Gobble \/ EndOfLine \/ TooMany \/ StartArg \/ Scan
          \/ EndArg \/ Lookup

-----------------------------------------------------------------------------
\* cga_init takes the cursor where the boot firmware left it.  It leaves the cells as
\* they are, too; a blank screen stands for any, as no property looks at old text.
Init ==
  /\ \E s \in Cell : crt = [cell |-> [k \in Cell |-> Space], pos |-> s]
  /\ buf = [k \in Index |-> NUL]
  /\ i = 0
  /\ p = 0
  /\ argv = <<>>
  /\ pc = "prompt"
  /\ line = <<>>

Next == Prompt \/ ReadChar \/ Runcmd

Spec == Init /\ [][Next]_vars

\* The kernel runs on; the user need not type.
FairSpec == Spec /\ WF_vars(Prompt \/ Runcmd)

-----------------------------------------------------------------------------
(* Properties.                                                             *)

TypeOK ==
  /\ crt \in Screen
  /\ buf \in [Index -> Glyph \cup {NUL}]
  /\ i \in Index
  /\ p \in Index
  /\ argv \in Seq(Index)
  /\ pc \in {"prompt", "read", "runcmd", "gobble", "scan", "lookup"}
  /\ line \in Seq(Glyph)

\* What you see is what you get: the cells before the cursor show the prompt
\* and the line, character for character, after any typing, erasing, wrapping
\* and scrolling; of a line longer than the screen, the end.
ScreenShowsLine ==
  pc = "read" =>
    LET text  == PROMPT \o line
        Shows(k) == crt.cell[crt.pos - Len(text) + k - 1] = text[k]
    IN  \A k \in 1 .. Len(text) : crt.pos - Len(text) + k > 0 => Shows(k)

\* The string that readline returns is the line, although the buffer still
\* holds what earlier lines left and the NULs that runcmd stored.
ReturnedLineIsWhole == pc = "runcmd" => StringAt(0) = line

\* The positions at which the words of the line start.
WordStarts ==
  LET Blank(k) == k = 0 \/ line[k] \in WHITESPACE
  IN  {k \in 0 .. Len(line) - 1 : Blank(k) /\ line[k + 1] \notin WHITESPACE}

\* The word of the line that starts at position k.
WordAt(k) ==
  LET Ends(e) == e = Len(line) \/ line[e + 1] \in WHITESPACE
      end     == CHOOSE e \in k .. Len(line) :
                   Ends(e) /\ \A j \in k .. e - 1 : ~Ends(j)
  IN  SubSeq(line, k + 1, end)

\* When the command is looked up, its arguments are the words of the line, all
\* of them in order, each a string of its own; there are fewer than MAXARGS,
\* so argv[argc] = 0 stays inside argv.
ArgumentsAreWords ==
  pc = "lookup" =>
    /\ Range(argv) = WordStarts
    /\ \A j, k \in 1 .. Len(argv) : j < k => argv[j] < argv[k]
    /\ \A k \in 1 .. Len(argv) : StringAt(argv[k]) = WordAt(argv[k])
    /\ Len(argv) < MAXARGS

\* Every line is dealt with and the prompt comes back.
PromptReturns == (pc = "runcmd") ~> (pc = "read")
=============================================================================
