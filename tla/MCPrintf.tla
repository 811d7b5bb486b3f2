------------------------------- MODULE MCPrintf -------------------------------
(***************************************************************************)
(* Ints of 4 bits; every conversion with every padding and, where the code *)
(* looks at them, precision, '#' and length; and all formats of a '%' with *)
(* at most three characters behind it, proper or not.                      *)
(***************************************************************************)
EXTENDS Printf

Conv(convs, pads, alts, widths, precs, lengths) ==
  [conv : convs, pad : pads, alt : alts, width : widths, prec : precs, ls : lengths]

AllPads == {" ", "-", "0"}

MCDirectives ==
  Conv({"d", "u", "o", "x"}, AllPads, {FALSE}, {0, 3}, {0}, {0, 1, 2})
  \cup Conv({"d", "x", "p"}, AllPads, {FALSE}, {0, 3, NULL}, {0}, {0})
  \cup Conv({"s"}, AllPads, BOOLEAN, {0, 1, 3, NULL}, {0, 1, 2}, {0})
  \cup Conv({"c", "e"}, {" "}, {FALSE}, {0, 3}, {0}, {0})

MCWildFormats ==
  LET Alphabet == {"q", "%", "-", "0", "2", ".", "#", "l", "*", "s", "e"}
  IN  {<<"%">> \o f : f \in UNION {[1 .. n -> Alphabet] : n \in 0 .. 3}}

MCStrings == {<<>>, <<"a">>, <<"a", "ctl", "a">>}
===============================================================================
