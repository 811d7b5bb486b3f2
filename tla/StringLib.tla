------------------------------ MODULE StringLib ------------------------------
(***************************************************************************)
(* The string library, lib/string.c: one call of one of its functions, a   *)
(* step for each turn of a loop or repetition of a string instruction.     *)
(* The functions written in assembly are the ones that are built (ASM 1).  *)
(*                                                                         *)
(* A call is a record of the function and its arguments, called by the     *)
(* same names for all: dst and src (p and q of strcmp, s1 and s2 of        *)
(* memcmp, v and s where there is only one), n, the character c, and base. *)
(* Memory is Size bytes; a long has W bits (32 in the code).               *)
(***************************************************************************)
EXTENDS Integers, FiniteSetsExt

CONSTANTS
  Size,        \* bytes of memory
  WORD,        \* bytes that movsl and stosl move (4 in the code)
  W,           \* bits of a long
  Inputs,      \* calls to be tried, each with the memory it finds
  NULL         \* the null pointer

Addr == 0 .. Size - 1
Byte == 0 .. 255

Functions == {"strlen", "strnlen", "strcpy", "strcat", "strncpy", "strlcpy", "strcmp",
              "strncmp", "strchr", "strfind", "memset", "memmove", "memcpy", "memcmp",
              "memfind", "strtol"}

CallRecord == [fn : Functions, dst : 0 .. Size, src : 0 .. Size, n : Nat, c : Nat, base : Nat]

\* The functions that move blocks; what they are given lies in memory.
BlockFunctions == {"memset", "memmove", "memcpy"}
InMemory(k) == k.fn \in BlockFunctions => k.src + k.n <= Size /\ k.dst + k.n <= Size

\* The string at a of memory m ends; how many bytes it has before the 0 and with it.
Ends(m, a) == \E e \in a .. Size - 1 : m[e] = 0
Length(m, a) == Min({k \in 0 .. Size - 1 - a : m[a + k] = 0})
Extent(m, a) == Length(m, a) + 1

\* There is room for l bytes at a, clear of the m bytes at b.
Clear(a, l, b, m) == a + l <= Size /\ (a + l <= b \/ b + m <= a)

\* What the other functions require: strings end, bytes that are counted lie in
\* memory, and a copy has room and stays clear of its source.
Proper(k, m) ==
  LET src == Extent(m, k.src)
      dst == Extent(m, k.dst)
  IN  /\ k.fn \in {"strlen", "strcpy", "strcat", "strncpy", "strlcpy", "strcmp", "strchr",
                   "strfind", "strtol"} => Ends(m, k.src)
      /\ k.fn \in {"strcat", "strcmp"} => Ends(m, k.dst)
      /\ k.fn \in {"strnlen", "strncmp"} => Ends(m, k.src) \/ k.src + k.n <= Size
      /\ k.fn = "strncmp" => Ends(m, k.dst) \/ k.dst + k.n <= Size
      /\ k.fn \in {"memcmp", "memfind"} => k.src + k.n <= Size
      /\ k.fn = "memcmp"  => k.dst + k.n <= Size
      /\ k.fn = "strcpy"  => Clear(k.dst, src, k.src, src)
      /\ k.fn = "strcat"  => Clear(k.dst, dst - 1 + src, k.src, src)
      /\ k.fn = "strncpy" => Clear(k.dst, k.n, k.src, src)
      /\ k.fn = "strlcpy" => Clear(k.dst, IF k.n < src THEN k.n ELSE src, k.src, src)

ASSUME StringAssumption ==
  /\ Size \in Nat /\ WORD \in Nat \ {0} /\ W \in Nat \ {0}
  /\ Inputs \subseteq [call : CallRecord, mem : [Addr -> Byte]]
  /\ \A i \in Inputs : InMemory(i.call) /\ Proper(i.call, i.mem)

VARIABLES
  call, mem0,  \* the call, and memory when it was made
  mem,
  s, d, n,     \* the pointers and the counter that the function moves
  unit,        \* bytes that the string instruction moves at a time
  df,          \* the direction flag: string instructions go backwards
  val, base,   \* strtol: the value so far, and the base
  neg,         \* strtol: there was a '-'
  pc,          \* the loop the function is in
  ret          \* the value returned

regs == <<unit, df, val, base, neg>>
vars == <<call, mem0, mem, s, d, n, regs, pc, ret>>

Is(f) == call.fn = f /\ pc = "loop"

\* One turn of a loop.
Turn(s1, d1, n1, m1) ==
  /\ s' = s1 /\ d' = d1 /\ n' = n1 /\ mem' = m1
  /\ UNCHANGED <<call, mem0, regs, pc, ret>>

\* The function returns v and leaves memory as m1.
Finish(v, m1) ==
  /\ ret' = v
  /\ mem' = m1
  /\ pc' = "done"
  /\ UNCHANGED <<call, mem0, s, d, n, regs>>

Return(v) == Finish(v, mem)

With(a, b) == [mem EXCEPT ![a] = b]

-----------------------------------------------------------------------------
(* Strings.                                                                *)

strlen ==
  /\ Is("strlen")
  /\ IF mem[s] # 0 THEN Turn(s + 1, d, n + 1, mem) ELSE Return(n)

strnlen ==
  /\ Is("strnlen")
  /\ IF n > 0 /\ mem[s] # 0 THEN Turn(s + 1, d, n - 1, mem) ELSE Return(s - call.src)

strcpy ==
  /\ Is("strcpy") \/ Is("strcat")
  /\ IF mem[s] # 0 THEN Turn(s + 1, d + 1, n, With(d, mem[s]))
     ELSE Finish(call.dst, With(d, 0))

\* strcat looks for the end of dst, and goes on as strcpy.
strcat ==
  /\ call.fn = "strcat" /\ pc = "seek"
  /\ d' = IF mem[d] # 0 THEN d + 1 ELSE d
  /\ pc' = IF mem[d] # 0 THEN "seek" ELSE "loop"
  /\ UNCHANGED <<call, mem0, mem, s, n, regs, ret>>

strncpy ==
  /\ Is("strncpy")
  /\ IF n > 0 THEN Turn(IF mem[s] # 0 THEN s + 1 ELSE s, d + 1, n - 1, With(d, mem[s]))
     ELSE Return(call.dst)

\* Mutant of strlcpy: the size is tested after it was used.
strlcpyPost ==
  /\ Is("strlcpy")
  /\ IF n > 0 /\ mem[s] # 0 THEN Turn(s + 1, d + 1, n - 1, With(d, mem[s]))
     ELSE Finish(d - call.dst, IF call.n > 0 THEN With(d, 0) ELSE mem)

strlcpy ==
  /\ Is("strlcpy")
  /\ IF n > 1 /\ mem[s] # 0 THEN Turn(s + 1, d + 1, n - 1, With(d, mem[s]))
     ELSE Finish(d - call.dst, IF call.n > 0 THEN With(d, 0) ELSE mem)

strcmp ==
  /\ Is("strcmp")
  /\ IF mem[d] # 0 /\ mem[d] = mem[s] THEN Turn(s + 1, d + 1, n, mem)
     ELSE Return(mem[d] - mem[s])

strncmp ==
  /\ Is("strncmp")
  /\ IF n > 0 /\ mem[d] # 0 /\ mem[d] = mem[s] THEN Turn(s + 1, d + 1, n - 1, mem)
     ELSE Return(IF n = 0 THEN 0 ELSE mem[d] - mem[s])

strchr ==
  /\ Is("strchr")
  /\ IF mem[s] # 0 /\ mem[s] # call.c THEN Turn(s + 1, d, n, mem)
     ELSE Return(IF mem[s] # 0 THEN s ELSE NULL)

strfind ==
  /\ Is("strfind")
  /\ IF mem[s] # 0 /\ mem[s] # call.c THEN Turn(s + 1, d, n, mem) ELSE Return(s)

memcmp ==
  /\ Is("memcmp")
  /\ IF n > 0 /\ mem[d] = mem[s] THEN Turn(s + 1, d + 1, n - 1, mem)
     ELSE Return(IF n = 0 THEN 0 ELSE mem[d] - mem[s])

memfind ==
  /\ Is("memfind")
  /\ IF s < call.src + call.n /\ mem[s] # call.c % 256 THEN Turn(s + 1, d, n, mem)
     ELSE Return(s)

-----------------------------------------------------------------------------
(* memset and memmove: string instructions with a repeat prefix.           *)

Aligned(a) == a % WORD = 0

\* Words if everything is a multiple of them; stosb and stosl go forwards.
SetStart ==
  /\ call.fn = "memset" /\ pc = "entry"
  /\ unit' = IF Aligned(call.dst) /\ Aligned(call.n) THEN WORD ELSE 1
  /\ n' = call.n \div unit'
  /\ df' = FALSE
  /\ pc' = "loop"
  /\ UNCHANGED <<call, mem0, mem, s, d, val, base, neg, ret>>

\* A word is filled with copies of the byte.
Stos ==
  /\ Is("memset")
  /\ IF n > 0
     THEN Turn(s, d + unit, n - 1,
               [a \in Addr |-> IF a \in d .. d + unit - 1 THEN call.c % 256 ELSE mem[a]])
     ELSE Return(call.dst)

\* The source starts below the destination and reaches into it.
Overlap == call.src < call.dst /\ call.src + call.n > call.dst

\* Mutant of MoveStart: always forwards.
MoveStartForwards ==
  /\ call.fn \in {"memmove", "memcpy"} /\ pc = "entry"
  /\ unit' = IF Aligned(call.src) /\ Aligned(call.dst) /\ Aligned(call.n) THEN WORD ELSE 1
  /\ n' = call.n \div unit'
  /\ df' = FALSE
  /\ s' = call.src /\ d' = call.dst
  /\ pc' = "loop"
  /\ UNCHANGED <<call, mem0, mem, val, base, neg, ret>>

\* Downwards from the last unit if they overlap so, upwards otherwise.
MoveStart ==
  /\ call.fn \in {"memmove", "memcpy"} /\ pc = "entry"
  /\ unit' = IF Aligned(call.src) /\ Aligned(call.dst) /\ Aligned(call.n) THEN WORD ELSE 1
  /\ n' = call.n \div unit'
  /\ df' = Overlap
  /\ s' = IF Overlap THEN call.src + call.n - unit' ELSE call.src
  /\ d' = IF Overlap THEN call.dst + call.n - unit' ELSE call.dst
  /\ pc' = "loop"
  /\ UNCHANGED <<call, mem0, mem, val, base, neg, ret>>

Step == IF df THEN -unit ELSE unit

Movs ==
  /\ Is("memmove") \/ Is("memcpy")
  /\ n > 0
  /\ Turn(s + Step, d + Step, n - 1,
          [a \in Addr |-> IF a \in d .. d + unit - 1 THEN mem[s + (a - d)] ELSE mem[a]])

\* "Some versions of GCC rely on DF being clear".
MoveEnd ==
  /\ Is("memmove") \/ Is("memcpy")
  /\ n = 0
  /\ ret' = call.dst
  /\ df' = FALSE
  /\ pc' = "done"
  /\ UNCHANGED <<call, mem0, mem, s, d, n, unit, val, base, neg>>

-----------------------------------------------------------------------------
(* strtol.                                                                 *)

\* b to the power k.
Power(b, k) == LET p[i \in Nat] == IF i = 0 THEN 1 ELSE b * p[i - 1] IN p[k]

\* A number of W bits, two's complement.
Wrapped(v) == ((v + Power(2, W - 1)) % Power(2, W)) - Power(2, W - 1)

\* The value of the character b as a digit; -1 if it is none.
Digit(b) == IF b \in 48 .. 57 THEN b - 48
            ELSE IF b \in 97 .. 122 THEN b - 87
            ELSE IF b \in 65 .. 90 THEN b - 55 ELSE -1

\* The character b counts in the base k.
IsDigit(b, k) == Digit(b) \in 0 .. k - 1

White ==
  /\ call.fn = "strtol" /\ pc = "white"
  /\ mem[s] \in {9, 32}
  /\ s' = s + 1
  /\ UNCHANGED <<call, mem0, mem, d, n, regs, pc, ret>>

\* Mutant of HexPrefix: "0x" is passed over in any base.
HexPrefixAnyBase(a) == mem[a] = 48 /\ mem[a + 1] = 120

\* The base that is given, or is told by the first characters at a, and the
\* length of what told it.
HexPrefix(a) == call.base \in {0, 16} /\ mem[a] = 48 /\ mem[a + 1] = 120
Prefix(a) ==
  IF HexPrefix(a) THEN <<16, 2>>
  ELSE IF call.base # 0 THEN <<call.base, 0>>
  ELSE IF mem[a] = 48 THEN <<8, 1>> ELSE <<10, 0>>

Sign ==
  /\ call.fn = "strtol" /\ pc = "white"
  /\ mem[s] \notin {9, 32}
  /\ LET a == IF mem[s] \in {43, 45} THEN s + 1 ELSE s
     IN  base' = Prefix(a)[1] /\ s' = a + Prefix(a)[2]
  /\ neg' = (mem[s] = 45)
  /\ pc' = "loop"
  /\ UNCHANGED <<call, mem0, mem, d, n, unit, df, val, ret>>

\* "we don't properly detect overflow!"
Digits ==
  /\ Is("strtol")
  /\ IsDigit(mem[s], base)
  /\ s' = s + 1
  /\ val' = Wrapped(val * base + Digit(mem[s]))
  /\ UNCHANGED <<call, mem0, mem, d, n, unit, df, base, neg, pc, ret>>

EndOfNumber ==
  /\ Is("strtol")
  /\ ~IsDigit(mem[s], base)
  /\ Return(IF neg THEN Wrapped(-val) ELSE val)

-----------------------------------------------------------------------------
Init ==
  /\ \E i \in Inputs : call = i.call /\ mem = i.mem
  /\ mem0 = mem
  /\ s = call.src /\ d = call.dst
  /\ n = IF call.fn = "strlen" THEN 0 ELSE call.n
  /\ unit = 1 /\ df = FALSE
  /\ val = 0 /\ base = 0 /\ neg = FALSE
  /\ pc = CASE call.fn \in BlockFunctions -> "entry"
            [] call.fn = "strcat" -> "seek"
            [] call.fn = "strtol" -> "white"
            [] OTHER -> "loop"
  /\ ret = NULL

Strings == strlen \/ strnlen \/ strcpy \/ strcat \/ strncpy \/ strlcpy \/ strcmp
           \/ strncmp \/ strchr \/ strfind \/ memcmp \/ memfind
Blocks  == SetStart \/ Stos \/ MoveStart \/ Movs \/ MoveEnd
strtol  == White \/ Sign \/ Digits \/ EndOfNumber

Next == Strings \/ Blocks \/ strtol

Spec == Init /\ [][Next]_vars

-----------------------------------------------------------------------------
(* What the functions are for, without their loops.                        *)

Done == pc = "done"

\* memmove, memcpy and memset: what memory holds afterwards is what it would
\* hold had the source first been copied elsewhere, however source and
\* destination overlap, and words and bytes make no difference; the code that
\* follows finds the direction flag clear.
Moved == [a \in Addr |->
            IF a \notin call.dst .. call.dst + call.n - 1 THEN mem0[a]
            ELSE IF call.fn = "memset" THEN call.c % 256
            ELSE mem0[call.src + (a - call.dst)]]

MovesAreCopies ==
  Done /\ call.fn \in BlockFunctions => mem = Moved /\ ret = call.dst /\ ~df

\* The least of the set, or what is given if it is empty.
First(set, none) == IF set = {} THEN none ELSE Min(set)

\* The first of l places where the strings at p and q of memory m differ or end.
Place(m, p, q, l) == First({i \in 0 .. l - 1 : m[p + i] # m[q + i] \/ m[p + i] = 0}, l)

\* What a call k returns that is made with memory m: P and Q are the bytes of
\* its two strings.
Result(k, m) ==
  LET P(i) == m[k.dst + i]
      Q(i) == m[k.src + i]
      len  == Length(m, k.src)
      find == First({i \in 0 .. len - 1 : Q(i) = k.c}, len)
      place(l) == Place(m, k.dst, k.src, l)
      diff(i, l) == IF i = l THEN 0 ELSE P(i) - Q(i)
  IN  CASE k.fn = "strlen"  -> len
        [] k.fn = "strnlen" -> First({i \in 0 .. k.n - 1 : Q(i) = 0}, k.n)
        [] k.fn = "strlcpy" -> IF k.n = 0 THEN 0 ELSE Min({len, k.n - 1})
        [] k.fn = "strcmp"  -> diff(place(len + 1), len + 1)
        [] k.fn = "strncmp" -> diff(place(k.n), k.n)
        [] k.fn = "strchr"  -> IF find < len THEN k.src + find ELSE NULL
        [] k.fn = "strfind" -> k.src + find
        [] k.fn = "memcmp"  -> diff(First({i \in 0 .. k.n - 1 : P(i) # Q(i)}, k.n), k.n)
        [] k.fn = "memfind" -> k.src + First({i \in 0 .. k.n - 1 : Q(i) = k.c % 256}, k.n)
        [] OTHER -> k.dst

\* The first l bytes of the string at a of memory m, and zeros behind them.
Text(m, a, l) == [i \in Nat |-> IF i < l THEN m[a + i] ELSE 0]

\* Memory m with l bytes at a replaced by those of the text.
Replaced(m, a, l, text) == [b \in Addr |-> IF b \in a .. a + l - 1 THEN text[b - a] ELSE m[b]]

\* What such a call leaves in memory.
Written(k, m) ==
  LET len == Length(m, k.src)
      string == Text(m, k.src, len)
  IN  CASE k.fn = "strcpy"  -> Replaced(m, k.dst, len + 1, string)
        [] k.fn = "strcat"  -> Replaced(m, k.dst + Length(m, k.dst), len + 1, string)
        [] k.fn = "strncpy" -> Replaced(m, k.dst, k.n, string)
        [] k.fn = "strlcpy" /\ k.n > 0 ->
             LET l == Min({len, k.n - 1}) IN Replaced(m, k.dst, l + 1, Text(m, k.src, l))
        [] OTHER -> m

StringFunctions == Functions \ (BlockFunctions \cup {"strtol"})

\* The other functions return and write what their names promise, and nothing
\* else in memory changes: a bounded copy keeps within its bound and ends with
\* a 0, comparisons order bytes without sign, a character that is not found
\* gives the null pointer or the end of the string.
StringsAreRight ==
  Done /\ call.fn \in StringFunctions => ret = Result(call, mem0) /\ mem = Written(call, mem0)

\* The least place from a on whose byte is not in the set.
After(a, set) == Min({k \in a .. Size - 1 : mem0[k] \notin set})

\* What the argument of strtol consists of: the places of its sign and of what
\* follows it, its base, where its digits start and where they end.
SignAt == After(call.src, {9, 32})
Unsigned == IF mem0[SignAt] \in {43, 45} THEN SignAt + 1 ELSE SignAt
Hex == mem0[Unsigned] = 48 /\ mem0[Unsigned + 1] = 120
Radix == IF call.base # 0 THEN call.base
         ELSE IF Hex THEN 16 ELSE IF mem0[Unsigned] = 48 THEN 8 ELSE 10
FirstDigit == IF Hex /\ Radix = 16 THEN Unsigned + 2 ELSE Unsigned
NumberEnd == After(FirstDigit, {b \in Byte : IsDigit(b, Radix)})

\* The value of the last k digits: each counts with the power of its place.
LastDigits(k) ==
  LET v[i \in 0 .. NumberEnd - FirstDigit] ==
        IF i = 0 THEN 0 ELSE Digit(mem0[NumberEnd - i]) * Power(Radix, i - 1) + v[i - 1]
  IN  v[k]

\* strtol returns the number that its argument shows, in W bits however many
\* digits there are, with the sign and in the base given or told by 0 or 0x,
\* and stops behind its last digit.
NumberIsRight ==
  LET value == LastDigits(NumberEnd - FirstDigit)
  IN  Done /\ call.fn = "strtol" =>
        /\ ret = Wrapped(IF mem0[SignAt] = 45 THEN -value ELSE value)
        /\ s = NumberEnd
==============================================================================
