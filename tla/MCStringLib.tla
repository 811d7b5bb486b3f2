---------------------------- MODULE MCStringLib ----------------------------
(* Calls of every function of StringLib.                                    *)
EXTENDS StringLib

CONSTANT FreeCells  \* bytes of memory that are tried with different contents

Call(f, a, b, m, k, r) == [fn |-> f, dst |-> a, src |-> b, n |-> m, c |-> k, base |-> r]

\* Memory with g in its first bytes and zeros behind.
Padded(g) == [a \in Addr |-> IF a + 1 \in DOMAIN g THEN g[a + 1] ELSE 0]

\* Moves between all places, in memory where no two bytes are the same; the
\* character that fills may have more than 8 bits.
MoveInputs ==
  {[call |-> k, mem |-> [a \in Addr |-> 10 + a]] :
     k \in {Call(f, a, b, m, 263, 0) :
              f \in BlockFunctions, a \in 0 .. Size, b \in 0 .. Size, m \in 0 .. Size}}

\* Which arguments a function has, so that no others are tried.
HasDst == {"strcpy", "strcat", "strncpy", "strlcpy", "strcmp", "strncmp", "memcmp"}
HasN == {"strnlen", "strncpy", "strlcpy", "strncmp", "memcmp", "memfind"}
HasC == {"strchr", "strfind", "memfind"}

StringInputs ==
  {i \in [call : {k \in [fn : StringFunctions, dst : 0 .. FreeCells,
                         src : 0 .. FreeCells, n : 0 .. FreeCells, c : {0, 200, 257}, base : {0}] :
                    /\ k.fn \notin HasDst => k.dst = 0
                    /\ k.fn \notin HasN => k.n = 0
                    /\ k.c = 257 => k.fn = "memfind"
                    /\ k.fn \notin HasC => k.c = 0},
          mem : {Padded(g) : g \in [1 .. FreeCells -> {0, 1, 200}]}] : Proper(i.call, i.mem)}

\* Blank, plus, minus, three digits, x, a letter digit of base 16, the end.
NumberInputs ==
  {[call |-> Call("strtol", 0, 0, 0, 0, r), mem |-> Padded(g)] :
     r \in {0, 8, 10, 16}, g \in [1 .. FreeCells -> {0, 32, 43, 45, 48, 49, 56, 97, 120}]}

MCInputs ==
  {i \in MoveInputs : InMemory(i.call)} \cup StringInputs \cup NumberInputs
=============================================================================
