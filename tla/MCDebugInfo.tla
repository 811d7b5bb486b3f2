----------------------------- MODULE MCDebugInfo -----------------------------
(***************************************************************************)
(* Tables of a header, a file, and four more stabs.  Files come in the     *)
(* order of their addresses, which are not 0, and so do the functions of   *)
(* the whole table, none before its file or behind the next one.           *)
(***************************************************************************)
EXTENDS DebugInfo

Entry == [n_type : {"SO", "FUN"}, n_value : 1 .. MaxAddr - 1]
         \cup [n_type : {"SOL", "PSYM", "SLINE"}, n_value : {0}]

InOrder(t) ==
  LET Code == {i \in DOMAIN t : t[i].n_type \in {"SO", "FUN"}}
  IN  \A i, j \in Code : i < j => t[i].n_value <= t[j].n_value

MCTables ==
  LET Header == [n_type |-> "UNDF", n_value |-> 0]
      Bodies == {t \in [1 .. N - 1 -> Entry] : t[1].n_type = "SO" /\ InOrder(t)}
  IN  {[i \in 0 .. N - 1 |-> IF i = 0 THEN Header ELSE t[i]] : t \in Bodies}
===============================================================================
