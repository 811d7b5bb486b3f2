-------------------------------- MODULE Printf --------------------------------
(***************************************************************************)
(* Formatted output: vprintfmt and printnum of lib/printfmt.c, and the two *)
(* functions that receive its characters: sprintputch (vsnprintf, into a   *)
(* buffer) and putch of kern/printf.c (cprintf, onto the console).         *)
(*                                                                         *)
(* A format is a sequence of characters; the NUL that ends it lies one     *)
(* position behind.  A step reads a character of the format, or calls      *)
(* putch.  Arguments are chosen when they are taken.  An int or long has W *)
(* bits (32 in the code), a long long has 2 W.                             *)
(***************************************************************************)
EXTENDS Integers, SequencesExt

CONSTANTS
  W,           \* bits of an int
  Directives,  \* proper conversions to be tried, see Render
  WildFormats, \* formats to be tried that need not be proper
  Strings,     \* arguments of %s
  BufSizes,    \* sizes of the buffer given to vsnprintf
  NULL         \* the null pointer, and "none"

MAXERROR == 7

NUL == "nul"

\* The digits of all bases, and characters outside ' ' .. '~'.
Digits == <<"0", "1", "2", "3", "4", "5", "6", "7", "8", "9",
            "a", "b", "c", "d", "e", "f">>
Unprintable == {"ctl"}

\* What a format consists of; the NUL is not in it.
Char == STRING \ {NUL}

\* The characters that end a directive and print something of an argument, and
\* the directives that Render writes out.
Conversions == {"c", "e", "s", "d", "u", "o", "x", "p"}
Directive == [conv : Conversions, pad : {" ", "-", "0"}, alt : BOOLEAN,
              width : 0 .. 9 \cup {NULL}, prec : 0 .. 9, ls : Nat]

ASSUME PrintfAssumption ==
  /\ W \in Nat \ {0}
  /\ BufSizes \subseteq Int
  /\ Directives \subseteq Directive /\ WildFormats \subseteq Seq(Char)
  /\ Strings \subseteq Seq(Char)
  /\ NULL \notin Strings /\ NULL \notin BufSizes /\ NULL \notin Directives

\* b to the power k.
Power(b, k) == LET p[j \in Nat] == IF j = 0 THEN 1 ELSE b * p[j - 1] IN p[k]

Int2(w)  == -Power(2, w - 1) .. Power(2, w - 1) - 1
Uint2(w) == 0 .. Power(2, w) - 1
Bits(lflag) == IF lflag >= 2 THEN 2 * W ELSE W

VARIABLES
  fmt,         \* the format
  size,        \* the caller: NULL for cprintf, n for vsnprintf
  directive,   \* history: the conversion that fmt renders, or NULL
  pos,         \* position of the next character of fmt
  start,       \* history: position behind the '%' being processed
  padc, width, precision, lflag, altflag,
  todo,        \* what vprintfmt prints before it reads on
  out,         \* everything given to putch
  buf, cnt,    \* vsnprintf's buffer and counter
  taken,       \* history: arguments taken, with their types
  ret,         \* the value returned to the caller
  loop           \* the loop vprintfmt is in

flags == <<padc, width, precision, lflag, altflag>>
given == <<fmt, size, directive>>
sink  == <<out, buf, cnt>>
printVars  == <<given, pos, start, flags, todo, sink, taken, ret, loop>>

\* The character at position k of the format.
At(k) == IF k \in 1 .. Len(fmt) THEN fmt[k] ELSE NUL

ch == At(pos)

Decimal == {Digits[k] : k \in 1 .. 10}
ValueOf(d) == (CHOOSE k \in 1 .. 10 : Digits[k] = d) - 1

\* n times c; nothing if n is negative.
Repeat(c, n) == [k \in 1 .. Max({n, 0}) |-> c]

\* The characters of s are to be printed: putch is called for each.
Prints(s) ==
  /\ todo' = s
  /\ loop' = IF s = <<>> THEN "text" ELSE "putch"
  /\ UNCHANGED sink

\* Mutant of SprintPut: the place for the final NUL is given away.
SprintPutToEnd(c) == buf' = IF Len(buf) < size THEN Append(buf, c) ELSE buf

\* sprintputch: the buffer takes what fits before the final NUL.
SprintPut(c) == buf' = IF Len(buf) < size - 1 THEN Append(buf, c) ELSE buf

\* One call of putch.  The counter of cprintf stays 0: "*cnt++" increments the
\* pointer.
Putch ==
  /\ loop = "putch"
  /\ out' = Append(out, Head(todo))
  /\ IF size = NULL THEN UNCHANGED <<buf, cnt>>
     ELSE SprintPut(Head(todo)) /\ cnt' = cnt + 1
  /\ todo' = Tail(todo)
  /\ loop' = IF Tail(todo) = <<>> THEN "text" ELSE "putch"
  /\ UNCHANGED <<given, pos, start, flags, taken, ret>>

\* Mutant of printnum: the digits above the last are not counted.
PrintnumPadsOver(num, base, w, c) ==
  LET pn[a \in Nat \X Int] ==
        Append(IF a[1] >= base THEN pn[<<a[1] \div base, a[2]>>]
               ELSE Repeat(c, a[2] - 1),
               Digits[(a[1] % base) + 1])
  IN  pn[<<num, w>>]

printnum(num, base, w, c) ==
  LET pn[a \in Nat \X Int] ==
        Append(IF a[1] >= base THEN pn[<<a[1] \div base, a[2] - 1>>]
               ELSE Repeat(c, a[2] - 1),
               Digits[(a[1] % base) + 1])
  IN  pn[<<num, w>>]

\* The next argument is v.
Take(type, v) == taken' = Append(taken, <<type, v>>)

-----------------------------------------------------------------------------
(* The loop over the format.                                               *)

Literal ==
  /\ loop = "text"
  /\ ch \notin {"%", NUL}
  /\ Prints(<<ch>>)
  /\ pos' = pos + 1
  /\ UNCHANGED <<given, start, flags, taken, ret>>

\* The format is used up.  vsnprintf returns what would have been written,
\* cprintf its counter.
EndOfFormat ==
  /\ loop = "text"
  /\ ch = NUL
  /\ ret' = cnt
  /\ loop' = "done"
  /\ UNCHANGED <<given, pos, start, flags, todo, sink, taken>>

Percent ==
  /\ loop = "text"
  /\ ch = "%"
  /\ padc' = " " /\ width' = -1 /\ precision' = -1 /\ lflag' = 0 /\ altflag' = 0
  /\ pos' = pos + 1
  /\ start' = pos + 1
  /\ loop' = "switch"
  /\ UNCHANGED <<given, todo, sink, taken, ret>>

-----------------------------------------------------------------------------
(* The flags: each goes back to the switch.                                *)

NextChar ==
  /\ pos' = pos + 1
  /\ UNCHANGED <<given, start, todo, sink, ret, loop>>

Pad ==
  /\ loop = "switch"
  /\ ch \in {"-", "0"}
  /\ padc' = ch
  /\ NextChar
  /\ UNCHANGED <<width, precision, lflag, altflag, taken>>

\* process_precision: the first number is the width, the second the precision.
Number(n) ==
  IF width < 0 THEN width' = n /\ precision' = -1
  ELSE precision' = n /\ UNCHANGED width

\* The value of the digits s.
DecimalValue(s) ==
  LET v[k \in 0 .. Len(s)] == IF k = 0 THEN 0 ELSE v[k - 1] * 10 + ValueOf(s[k])
  IN  v[Len(s)]

\* The digits are read to the last one.
Digit ==
  /\ loop = "switch"
  /\ ch \in Decimal \ {"0"}
  /\ LET last == CHOOSE k \in pos .. Len(fmt) :
                   At(k + 1) \notin Decimal /\ \A j \in pos .. k : At(j) \in Decimal
     IN  /\ Number(DecimalValue(SubSeq(fmt, pos, last)))
         /\ pos' = last + 1
  /\ UNCHANGED <<given, start, padc, lflag, altflag, todo, sink, taken, ret, loop>>

Star ==
  /\ loop = "switch"
  /\ ch = "*"
  /\ \E n \in Int2(W) : Number(n) /\ Take("int", n)
  /\ NextChar
  /\ UNCHANGED <<padc, lflag, altflag>>

Dot ==
  /\ loop = "switch"
  /\ ch = "."
  /\ width' = IF width < 0 THEN 0 ELSE width
  /\ NextChar
  /\ UNCHANGED <<padc, precision, lflag, altflag, taken>>

Alt ==
  /\ loop = "switch"
  /\ ch = "#"
  /\ altflag' = 1
  /\ NextChar
  /\ UNCHANGED <<padc, width, precision, lflag, taken>>

Long ==
  /\ loop = "switch"
  /\ ch = "l"
  /\ lflag' = lflag + 1
  /\ NextChar
  /\ UNCHANGED <<padc, width, precision, altflag, taken>>

-----------------------------------------------------------------------------
(* The conversions.  width and precision are used up by some of them, but  *)
(* the next '%' sets them again: they are left alone here.                 *)

\* The conversion prints s and the loop goes on behind it.
Converts(s) ==
  /\ Prints(s)
  /\ pos' = pos + 1
  /\ UNCHANGED <<given, start, flags, ret>>

ConvChar ==
  /\ loop = "switch"
  /\ ch = "c"
  /\ \E c \in {"a", "ctl"} : Converts(<<c>>) /\ Take("char", c)

Abs(n) == IF n < 0 THEN -n ELSE n

ErrorText(err) ==
  IF err \in 1 .. MAXERROR - 1 THEN <<"message", Digits[err + 1]>>
  ELSE <<"error">> \o (IF err < 0 THEN <<"-">> ELSE <<>>)
                   \o printnum(Abs(err), 10, -1, " ")

\* err = -err, if err is negative, leaves the smallest int as it is (C does not
\* define it, the processor does).  4 bytes times this index wraps to 0, so that
\* the entry of error_string that is read is the first: NULL, no message.
ConvError ==
  /\ loop = "switch"
  /\ ch = "e"
  /\ \E v \in Int2(W) :
       /\ Take("int", v)
       /\ Converts(ErrorText(IF v = -Power(2, W - 1) THEN v ELSE Abs(v)))

\* The characters of s, at most precision of them, in a field of width.
StringField(s) ==
  LET n     == IF precision < 0 \/ precision > Len(s) THEN Len(s) ELSE precision
      shown == [k \in 1 .. n |-> IF altflag = 1 /\ s[k] \in Unprintable THEN "?" ELSE s[k]]
  IN  IF padc # "-" THEN Repeat(padc, width - n) \o shown
      ELSE shown \o Repeat(" ", width - n)

ConvString ==
  /\ loop = "switch"
  /\ ch = "s"
  /\ \E s \in Strings \cup {NULL} :
       /\ Take("string", s)
       /\ Converts(StringField(IF s = NULL THEN <<"(", "n", "u", "l", "l", ")">> ELSE s))

\* num = -num is a negation of unsigned numbers of 2 W bits.
ConvSigned ==
  /\ loop = "switch"
  /\ ch = "d"
  /\ \E v \in Int2(Bits(lflag)) :
       /\ Take("int", v)
       /\ Converts(IF v < 0
                   THEN <<"-">> \o printnum((-v) % Power(2, 2 * W), 10, width, padc)
                   ELSE printnum(v, 10, width, padc))

BaseOf == [u |-> 10, o |-> 8, x |-> 16]

ConvUnsigned ==
  /\ loop = "switch"
  /\ ch \in {"u", "o", "x"}
  /\ \E v \in Uint2(Bits(lflag)) :
       Take("int", v) /\ Converts(printnum(v, BaseOf[ch], width, padc))

ConvPointer ==
  /\ loop = "switch"
  /\ ch = "p"
  /\ \E v \in Uint2(W) :
       Take("int", v) /\ Converts(<<"0", "x">> \o printnum(v, 16, width, padc))

ConvPercent ==
  /\ loop = "switch"
  /\ ch = "%"
  /\ Converts(<<"%">>)
  /\ UNCHANGED taken

Known == Decimal \cup Conversions \cup {"-", "*", ".", "#", "l", "%"}

\* Mutants of Unknown: the format is not taken back; it is taken back over the
\* '%' as well.
UnknownInPlace ==
  /\ loop = "switch"
  /\ ch \notin Known
  /\ Prints(<<"%">>)
  /\ UNCHANGED <<given, pos, start, flags, taken, ret>>

UnknownAgain ==
  /\ loop = "switch"
  /\ ch \notin Known
  /\ Prints(<<>>)
  /\ pos' = start - 1
  /\ UNCHANGED <<given, start, flags, taken, ret>>

\* Anything else, the end of the format included: the '%' is printed and the
\* format taken back to the character behind it.
Unknown ==
  /\ loop = "switch"
  /\ ch \notin Known
  /\ Prints(<<"%">>)
  /\ pos' = CHOOSE k \in 2 .. pos : At(k - 1) = "%" /\ \A j \in k .. pos - 1 : At(j) # "%"
  /\ UNCHANGED <<given, start, flags, taken, ret>>

-----------------------------------------------------------------------------
\* The characters of a proper conversion d: at most one padding flag, a width
\* (NULL: taken from the arguments; 0: none), a precision (0: none), the
\* length, and the conversion.
Render(d) ==
  <<"%">> \o (IF d.pad = " " THEN <<>> ELSE <<d.pad>>)
          \o (IF d.alt THEN <<"#">> ELSE <<>>)
          \o (IF d.width = NULL THEN <<"*">>
              ELSE IF d.width = 0 THEN <<>> ELSE <<Digits[d.width + 1]>>)
          \o (IF d.prec = 0 THEN <<>> ELSE <<".", Digits[d.prec + 1]>>)
          \o Repeat("l", d.ls) \o <<d.conv>>

\* vsnprintf gives up at once if there is no place for the NUL.
PrintInit ==
  /\ \/ \E d \in Directives : directive = d /\ fmt = Render(d)
     \/ directive = NULL /\ fmt \in WildFormats
  /\ size \in BufSizes \cup {NULL}
  /\ pos = 1 /\ start = 0
  /\ padc = " " /\ width = -1 /\ precision = -1 /\ lflag = 0 /\ altflag = 0
  /\ todo = <<>> /\ out = <<>> /\ buf = <<>> /\ cnt = 0
  /\ taken = <<>>
  /\ IF size # NULL /\ size < 1 THEN ret = -3 /\ loop = "done"
     ELSE ret = 0 /\ loop = "text"

Flag == Pad \/ Digit \/ Star \/ Dot \/ Alt \/ Long

Conversion == ConvChar \/ ConvError \/ ConvString \/ ConvSigned \/ ConvUnsigned
              \/ ConvPointer \/ ConvPercent

PrintNext == Putch \/ Literal \/ EndOfFormat \/ Percent \/ Flag \/ Conversion \/ Unknown

PrintSpec == PrintInit /\ [][PrintNext]_printVars

\* The call is not interrupted.
FairPrintSpec == PrintSpec /\ WF_printVars(PrintNext)

-----------------------------------------------------------------------------
(* Properties.                                                             *)

\* vsnprintf never writes behind the buffer; what it holds is the longest
\* part of the output that leaves room for the NUL, and the value returned is
\* the length of the whole output.
BufferHoldsPrefix ==
  size # NULL /\ size >= 1 =>
    /\ buf = SubSeq(out, 1, Min({size - 1, Len(out)}))
    /\ loop = "done" => ret = Len(out)

\* n to the base b, without leading zeros.
Numeral(n, b) ==
  LET len == CHOOSE k \in 1 .. n + 1 : n < Power(b, k) /\ (k = 1 \/ n >= Power(b, k - 1))
  IN  [j \in 1 .. len |-> Digits[((n \div Power(b, len - j)) % b) + 1]]

\* The argument that a proper conversion d converts, and its width.
Value == taken[Len(taken)][2]
FieldOf(d) == IF d.width = NULL THEN taken[1][2] ELSE d.width

\* The number n to the base b, padded on the left.
PadTo(d, n, b) == Repeat(d.pad, FieldOf(d) - Len(Numeral(n, b))) \o Numeral(n, b)

\* What %s shows of the string v.
Shown(d, v) ==
  LET text == IF v = NULL THEN <<"(", "n", "u", "l", "l", ")">> ELSE v
      len  == IF d.prec = 0 THEN Len(text) ELSE Min({d.prec, Len(text)})
  IN  [k \in 1 .. len |-> IF d.alt /\ text[k] = "ctl" THEN "?" ELSE text[k]]

\* What a proper conversion d means.  Padding counts the digits of a number,
\* not its sign or its "0x".  An error has a message whatever its sign; the
\* smallest int is no error with a message, and keeps its sign.
Meaning(d) ==
  LET v     == Value
      blank == FieldOf(d) - Len(Shown(d, v))
  IN  CASE d.conv = "d" -> (IF v < 0 THEN <<"-">> ELSE <<>>) \o PadTo(d, Abs(v), 10)
        [] d.conv = "u" -> PadTo(d, v, 10)
        [] d.conv = "o" -> PadTo(d, v, 8)
        [] d.conv = "x" -> PadTo(d, v, 16)
        [] d.conv = "p" -> <<"0", "x">> \o PadTo(d, v, 16)
        [] d.conv = "c" -> <<v>>
        [] d.conv = "s" -> IF d.pad = "-" THEN Shown(d, v) \o Repeat(" ", blank)
                           ELSE Repeat(d.pad, blank) \o Shown(d, v)
        [] d.conv = "e" -> LET smallest == v = -Power(2, W - 1)
                           IN  IF Abs(v) \in 1 .. MAXERROR - 1 /\ ~smallest
                               THEN <<"message", Digits[Abs(v) + 1]>>
                               ELSE <<"error">> \o (IF smallest THEN <<"-">> ELSE <<>>)
                                                \o Numeral(Abs(v), 10)

\* A proper conversion prints its meaning, for every value of every length,
\* the smallest ones included.  A string has a field like a number, and padding
\* on either side of it: so the code, while the head of lib/printfmt.c (lines
\* 12-13) says that only the numeric formats have that.  The one exception: a
\* number with the flag '-' (see PadsOnTheRight).
DirectivePrintsMeaning ==
  loop = "done" /\ directive # NULL /\ ret # -3 =>
    \/ directive.pad = "-" /\ directive.conv \in {"d", "u", "o", "x", "p"}
    \/ out = Meaning(directive)

\* A '%' that no conversion follows is not lost, nor is a character behind it,
\* whatever flags, widths and lengths were skipped to find that out.
UnknownPrintsItself ==
  loop = "done" /\ ret # -3
    /\ (\A k \in 1 .. Len(fmt) : fmt[k] \notin Conversions /\ (k > 1 => fmt[k] # "%"))
  => out = fmt

\* Every format is used up, proper or not.
Terminates == <>(loop = "done")

\* vprintfmt's comment, "flag to pad on the right" (lib/printfmt.c:107): with
\* the flag '-', a number is followed by what pads it.
PadsOnTheRight ==
  loop = "done" /\ directive # NULL /\ size = NULL
    /\ directive.pad = "-" /\ directive.conv = "u" /\ directive.width # NULL =>
      LET n == Numeral(taken[1][2], 10)
      IN  out = n \o Repeat(" ", directive.width - Len(n))
=============================================================================
