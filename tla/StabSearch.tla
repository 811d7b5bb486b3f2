------------------------------ MODULE StabSearch ------------------------------
(***************************************************************************)
(* stab_binsearch of kern/kdebug.c: the binary search among the stabs of   *)
(* one type, which lie scattered between stabs of other types.             *)
(*                                                                         *)
(* Its arguments (table, region, type and address) do not change, and the  *)
(* search runs to its end: a step is one turn of one of its three loops.   *)
(* Here they are any; DebugInfo calls it with those of debuginfo_eip.      *)
(***************************************************************************)
EXTENDS Integers

CONSTANTS
  N,           \* entries of the symbol table
  MaxAddr      \* the largest address (2^32 - 1 in the code)

ASSUME StabAssumption == N \in Nat /\ MaxAddr \in Nat

VARIABLES
  stabs,               \* the table
  lo, hi, type, addr0, \* the arguments: *region_left, *region_right, type, addr
  left, right,         \* *region_left, *region_right
  l, r, m, addr,       \* the local variables
  any_matches,
  pc                   \* the loop the search is in

input == <<stabs, lo, hi, type, addr0>>
vars  == <<input, left, right, l, r, m, addr, any_matches, pc>>

Addr == 0 .. MaxAddr

\* The types that debuginfo_eip tells apart, and one that it does not look at.
Types == {"UNDF", "SO", "FUN", "SOL", "PSYM", "SLINE"}

Stab == [n_type : Types, n_value : Addr]

Match(i) == stabs[i].n_type = type

\* "Some stab types are arranged in increasing order by instruction address."
\* Two stabs may share an address.
Sorted == \A i, j \in lo .. hi :
            i < j /\ Match(i) /\ Match(j) => stabs[i].n_value <= stabs[j].n_value

true_m == (l + r) \div 2

-----------------------------------------------------------------------------
Init ==
  /\ stabs \in [0 .. N - 1 -> Stab]
  /\ lo \in 0 .. N
  /\ hi \in lo - 1 .. N - 1
  /\ type \in Types
  /\ Sorted
  /\ addr0 \in Addr
  /\ left = lo /\ right = hi
  /\ l = lo /\ r = hi /\ m = 0
  /\ addr = addr0
  /\ any_matches = FALSE
  /\ pc = "loop"

\* Start in the middle of the part that is left.
Bisect ==
  /\ pc = "loop"
  /\ l <= r
  /\ m' = true_m
  /\ pc' = "scan"
  /\ UNCHANGED <<input, left, right, l, r, addr, any_matches>>

\* "search for earliest stab with right type".
ScanBack ==
  /\ pc = "scan"
  /\ m >= l
  /\ ~Match(m)
  /\ m' = m - 1
  /\ UNCHANGED <<input, left, right, l, r, addr, any_matches, pc>>

\* "no match in [l, m]".
NoneBelow ==
  /\ pc = "scan"
  /\ m < l
  /\ l' = true_m + 1
  /\ pc' = "loop"
  /\ UNCHANGED <<input, left, right, r, m, addr, any_matches>>

Compare ==
  /\ pc = "scan"
  /\ m >= l
  /\ Match(m)
  /\ any_matches' = TRUE
  /\ pc' = "loop"
  /\ UNCHANGED <<input, m>>

Below ==
  /\ Compare
  /\ stabs[m].n_value < addr
  /\ left' = m
  /\ l' = true_m + 1
  /\ UNCHANGED <<right, r, addr>>

\* Mutants of Above: one stab too many is cut off; the stab that was compared
\* stays in the region.
AboveTooFar ==
  /\ Compare
  /\ stabs[m].n_value > addr
  /\ right' = m - 2
  /\ r' = m - 2
  /\ UNCHANGED <<left, l, addr>>

AboveKeepsIt ==
  /\ Compare
  /\ stabs[m].n_value > addr
  /\ right' = m
  /\ r' = m - 1
  /\ UNCHANGED <<left, l, addr>>

Above ==
  /\ Compare
  /\ stabs[m].n_value > addr
  /\ right' = m - 1
  /\ r' = m - 1
  /\ UNCHANGED <<left, l, addr>>

\* Mutant of Exact: the address is not increased.
ExactSameAddr ==
  /\ Compare
  /\ stabs[m].n_value = addr
  /\ left' = m
  /\ l' = m
  /\ UNCHANGED <<right, r, addr>>

\* "exact match for 'addr', but continue loop to find *region_right".
Exact ==
  /\ Compare
  /\ stabs[m].n_value = addr
  /\ left' = m
  /\ l' = m
  /\ addr' = IF addr = MaxAddr THEN 0 ELSE addr + 1
  /\ UNCHANGED <<right, r>>

\* Mutant of NoMatches: the region is left as it was.
NoMatchesWhole ==
  /\ pc = "loop"
  /\ l > r
  /\ ~any_matches
  /\ pc' = "done"
  /\ UNCHANGED <<input, left, right, l, r, m, addr, any_matches>>

NoMatches ==
  /\ pc = "loop"
  /\ l > r
  /\ ~any_matches
  /\ right' = left - 1
  /\ pc' = "done"
  /\ UNCHANGED <<input, left, l, r, m, addr, any_matches>>

\* "find rightmost region containing 'addr'".
StartRegion ==
  /\ pc = "loop"
  /\ l > r
  /\ any_matches
  /\ l' = right
  /\ pc' = "region"
  /\ UNCHANGED <<input, left, right, r, m, addr, any_matches>>

RegionBack ==
  /\ pc = "region"
  /\ l > left
  /\ ~Match(l)
  /\ l' = l - 1
  /\ UNCHANGED <<input, left, right, r, m, addr, any_matches, pc>>

RegionDone ==
  /\ pc = "region"
  /\ l > left => Match(l)
  /\ left' = l
  /\ pc' = "done"
  /\ UNCHANGED <<input, right, l, r, m, addr, any_matches>>

Next == Bisect \/ ScanBack \/ NoneBelow \/ Below \/ Above \/ Exact
        \/ NoMatches \/ StartRegion \/ RegionBack \/ RegionDone

Spec == Init /\ [][Next]_vars

-----------------------------------------------------------------------------
(* Properties.                                                             *)

\* Types.  The bounds of the search stay in the region it was given, or one
\* position beside it, and so does m while it is used.
TypeOK ==
  /\ stabs \in [0 .. N - 1 -> Stab]
  /\ lo \in 0 .. N
  /\ hi \in lo - 1 .. N - 1
  /\ type \in Types
  /\ addr0 \in Addr
  /\ left \in lo - 1 .. hi + 1 /\ right \in lo - 1 .. hi
  /\ l \in lo - 1 .. hi + 1 /\ r \in lo - 1 .. hi
  /\ m \in Int /\ (pc = "scan" => m \in lo - 1 .. hi)
  /\ addr \in Addr
  /\ any_matches \in BOOLEAN
  /\ pc \in {"loop", "scan", "region", "done"}

\* The matching stabs of the region that do not start after the address.  The
\* last of them is the one that contains it.
Candidates == {i \in lo .. hi : Match(i) /\ stabs[i].n_value <= addr0}

\* No two stabs start at the address and right behind it.
Separate ==
  ~\E i, j \in lo .. hi : /\ Match(i) /\ stabs[i].n_value = addr0
                          /\ Match(j) /\ stabs[j].n_value = addr0 + 1

\* If a matching stab contains the address, *region_left is that stab, the
\* last one when several share its address, and *region_right is just before
\* the next matching stab, or the end of the region.  "addr++" is why stabs at
\* consecutive addresses are left out (see FoundContainsAddr), and the largest
\* address, after which comes 0.
FoundIsBracketed ==
  pc = "done" /\ addr0 # MaxAddr /\ Separate /\ Candidates # {} =>
    /\ left \in Candidates
    /\ \A i \in Candidates : i <= left
    /\ left <= right /\ right <= hi
    /\ \A i \in left + 1 .. right : ~Match(i)
    /\ right = hi \/ Match(right + 1)

\* A region without a stab of the type comes back empty.
NoMatchIsEmpty ==
  pc = "done" /\ (\A i \in lo .. hi : ~Match(i)) => left > right

\* stab_binsearch's comment, "*region_left points to the matching stab that
\* contains 'addr'" (kern/kdebug.c:31): if there is such a stab, *region_left
\* does not start after the address.
FoundContainsAddr ==
  pc = "done" /\ addr0 # MaxAddr /\ Candidates # {} => left \in Candidates
==============================================================================
