-------------------------- MODULE StabSearch_proofs --------------------------
(***************************************************************************)
(* Proofs about StabSearch, and about DebugInfo, which calls it twice, for *)
(* tables of any length and any addresses.                                 *)
(***************************************************************************)
EXTENDS DebugInfo, TLAPS

(***************************************************************************)
(* The loop invariant of the binary search.  [l, r] is the part that has   *)
(* not been looked at: below it no matching stab starts after the address, *)
(* and the last of them is *region_left; above it all of them do, and the  *)
(* first of them is right behind *region_right.  The argument addr0 is     *)
(* used where the code compares with addr, which has been increased if an  *)
(* exact match was found: this is where Separate is needed.                *)
(***************************************************************************)
Starts(i) == Match(i) /\ stabs[i].n_value <= addr0

Searching == pc \in {"loop", "scan"}

\* Nothing matching was passed over below l.
BelowPart ==
  Searching =>
    /\ l \in lo .. hi + 1
    /\ left = lo \/ (left \in lo .. hi /\ Match(left))
    /\ \A i \in lo .. hi : i < l /\ Match(i) => any_matches /\ i <= left
    /\ IF any_matches THEN \E i \in lo .. hi : Match(i) ELSE left = lo

\* Nothing matching was passed over above r.
AbovePart ==
  Searching =>
    /\ r \in lo - 1 .. hi /\ right = r
    /\ \A i \in lo .. hi : i > r /\ Match(i) => any_matches
    /\ r = hi \/ Match(r + 1)

ScanPart ==
  pc = "scan" =>
    /\ l <= r
    /\ m \in l - 1 .. true_m
    /\ \A i \in lo .. hi : m < i /\ i <= true_m => ~Match(i)

\* The comparisons agree with the argument addr0.
OrderPart ==
  Searching /\ addr0 # MaxAddr /\ Separate =>
    /\ addr = addr0 \/
         (addr = addr0 + 1 /\ \E i \in lo .. hi : Match(i) /\ stabs[i].n_value = addr0)
    /\ left = lo \/ Starts(left)
    /\ \A i \in lo .. hi : i < l /\ Match(i) => Starts(i)
    /\ \A i \in lo .. hi : i > r /\ Match(i) => stabs[i].n_value > addr0

\* Before and in the last loop: the bounds are final.
RegionPart ==
  pc = "region" =>
    /\ right \in lo - 1 .. hi
    /\ left \in lo .. hi
    /\ l = right \/ (left <= l /\ l <= right)
    /\ \E i \in lo .. hi : Match(i)
    /\ right = hi \/ Match(right + 1)
    /\ \A i \in left + 1 .. right : ~Match(i)
    /\ addr0 # MaxAddr /\ Separate =>
         /\ left = lo \/ Starts(left)
         /\ \A i \in lo .. hi : Starts(i) => i <= left /\ i <= right

\* At the end: what is returned is a region, or an empty one where the search
\* began, and *region_left is still there if no stab contains the address.
DonePart ==
  pc = "done" =>
    /\ left \in lo - 1 .. hi + 1 /\ right \in left - 1 .. hi
    /\ left < lo => Match(lo)
    /\ addr0 # MaxAddr /\ Separate /\ Candidates = {} => left = lo \/ Match(lo)

IInv == /\ TypeOK /\ Sorted /\ BelowPart /\ AbovePart /\ ScanPart /\ OrderPart
        /\ RegionPart /\ DonePart /\ FoundIsBracketed /\ NoMatchIsEmpty

LEMMA MiddleIsBetween ==
  ASSUME l \in Int, r \in Int, l <= r
  PROVE  true_m \in l .. r
  BY DEF true_m

LEMMA InitIInv == Init => IInv
<1> SUFFICES ASSUME Init
             PROVE  IInv
  OBVIOUS
<1> USE StabAssumption DEF Init
<1>1. TypeOK /\ Sorted
  <2>1. lo \in 0 .. N /\ hi \in lo - 1 .. N - 1
    OBVIOUS
  <2>2. left \in lo - 1 .. hi + 1 /\ right \in lo - 1 .. hi
    BY <2>1
  <2>3. l \in lo - 1 .. hi + 1 /\ r \in lo - 1 .. hi /\ m \in Int /\ pc # "scan"
    BY <2>1
  <2> QED
    BY <2>1, <2>2, <2>3 DEF TypeOK
<1>2. BelowPart /\ AbovePart /\ ScanPart /\ OrderPart
  BY DEF BelowPart, AbovePart, ScanPart, OrderPart, Searching
<1>3. RegionPart /\ DonePart /\ FoundIsBracketed /\ NoMatchIsEmpty
  BY DEF RegionPart, DonePart, FoundIsBracketed, NoMatchIsEmpty
<1> QED
  BY <1>1, <1>2, <1>3 DEF IInv

\* The input of the search does not change, nor what is said of it.
LEMMA InputFixed ==
  ASSUME UNCHANGED input
  PROVE  /\ lo' = lo /\ hi' = hi /\ type' = type /\ addr0' = addr0
         /\ \A i : Match(i)' <=> Match(i)
         /\ \A i : Starts(i)' <=> Starts(i)
         /\ \A i : stabs'[i] = stabs[i]
         /\ Sorted' <=> Sorted
         /\ Separate' <=> Separate
  BY DEF input, Match, Starts, Sorted, Separate

LEMMA BisectKeepsIInv == IInv /\ Bisect => IInv'
<1> SUFFICES ASSUME IInv, Bisect
             PROVE  IInv'
  OBVIOUS
<1>1. true_m \in l .. r /\ true_m' = true_m /\ m' = true_m
  BY MiddleIsBetween DEF IInv, TypeOK, Bisect, true_m
<1>2. UNCHANGED input
  BY DEF Bisect
<1> USE StabAssumption
<1>3. TypeOK' /\ Sorted'
  BY <1>1, <1>2, InputFixed DEF IInv, TypeOK, Bisect, input
<1>4. BelowPart' /\ AbovePart'
  BY <1>2, InputFixed DEF IInv, Bisect, BelowPart, AbovePart, Searching
<1>5. ScanPart'
  BY <1>1, <1>2, InputFixed DEF IInv, TypeOK, Bisect, ScanPart
<1>6. OrderPart'
  BY <1>2, InputFixed DEF IInv, Bisect, OrderPart, Searching
<1>7. RegionPart' /\ DonePart' /\ FoundIsBracketed' /\ NoMatchIsEmpty'
  BY DEF Bisect, RegionPart, DonePart, FoundIsBracketed, NoMatchIsEmpty
<1> QED
  BY <1>3, <1>4, <1>5, <1>6, <1>7 DEF IInv

LEMMA ScanBackKeepsIInv == IInv /\ ScanBack => IInv'
<1> SUFFICES ASSUME IInv, ScanBack
             PROVE  IInv'
  OBVIOUS
<1>1. UNCHANGED <<input, left, right, l, r, addr, any_matches, pc>>
  BY DEF ScanBack
<1>2. /\ m \in lo .. hi /\ m >= l /\ m' = m - 1
      /\ true_m' = true_m /\ true_m \in l .. r
  BY MiddleIsBetween DEF IInv, TypeOK, ScanBack, BelowPart, AbovePart, ScanPart,
     Searching, true_m
<1> USE StabAssumption
<1>3. TypeOK' /\ Sorted'
  BY <1>1, <1>2, InputFixed DEF IInv, TypeOK, input
<1>4. BelowPart' /\ AbovePart'
  BY <1>1, InputFixed DEF IInv, BelowPart, AbovePart, Searching
<1>5. ScanPart'
  BY <1>1, <1>2, InputFixed DEF IInv, TypeOK, ScanBack, ScanPart
<1>6. OrderPart'
  BY <1>1, InputFixed DEF IInv, OrderPart, Searching
<1>7. RegionPart' /\ DonePart' /\ FoundIsBracketed' /\ NoMatchIsEmpty'
  BY <1>1 DEF ScanBack, RegionPart, DonePart, FoundIsBracketed, NoMatchIsEmpty
<1> QED
  BY <1>3, <1>4, <1>5, <1>6, <1>7 DEF IInv

LEMMA NoneBelowKeepsIInv == IInv /\ NoneBelow => IInv'
<1> SUFFICES ASSUME IInv, NoneBelow
             PROVE  IInv'
  OBVIOUS
<1>1. UNCHANGED <<input, left, right, r, m, addr, any_matches>>
  BY DEF NoneBelow
<1>2. true_m \in l .. r /\ l' = true_m + 1
  BY MiddleIsBetween DEF IInv, TypeOK, NoneBelow, ScanPart
<1>3. \A i \in lo .. hi : i < l' /\ Match(i) => i < l
  BY <1>2 DEF IInv, TypeOK, NoneBelow, ScanPart
<1> USE StabAssumption
<1>4. TypeOK' /\ Sorted'
  BY <1>1, <1>2, InputFixed DEF IInv, TypeOK, NoneBelow, input
<1>5. BelowPart'
  BY <1>1, <1>2, <1>3, InputFixed DEF IInv, TypeOK, NoneBelow, BelowPart, Searching
<1>6. AbovePart'
  BY <1>1, InputFixed DEF IInv, NoneBelow, AbovePart, Searching
<1>7. OrderPart'
  BY <1>1, <1>3, InputFixed DEF IInv, NoneBelow, OrderPart, Searching
<1>8. ScanPart' /\ RegionPart' /\ DonePart' /\ FoundIsBracketed' /\ NoMatchIsEmpty'
  BY DEF NoneBelow, ScanPart, RegionPart, DonePart, FoundIsBracketed, NoMatchIsEmpty
<1> QED
  BY <1>4, <1>5, <1>6, <1>7, <1>8 DEF IInv

\* What holds when a matching stab has been found at m.
AtMatch ==
  /\ l \in Int /\ r \in Int /\ true_m \in Int
  /\ m \in lo .. hi /\ Match(m) /\ m <= true_m /\ true_m \in l .. r
  /\ \A i \in lo .. hi : Match(i) /\ i <= true_m => i <= m
  /\ \A i \in lo .. hi : Match(i) /\ i <= m => stabs[i].n_value <= stabs[m].n_value
  /\ \A i \in lo .. hi : Match(i) /\ i >= m => stabs[i].n_value >= stabs[m].n_value
  /\ \A i \in lo .. hi : stabs[i].n_value \in Addr

LEMMA CompareFacts ==
  ASSUME IInv, Compare
  PROVE  /\ AtMatch
         /\ UNCHANGED input /\ m' = m /\ any_matches' = TRUE
         /\ pc = "scan" /\ pc' = "loop"
         /\ ScanPart' /\ RegionPart' /\ DonePart' /\ FoundIsBracketed' /\ NoMatchIsEmpty'
<1>1. /\ UNCHANGED input /\ m' = m /\ pc' = "loop"
      /\ any_matches' = TRUE /\ pc = "scan" /\ m >= l /\ Match(m)
  BY DEF Compare
<1>2. true_m \in l .. r /\ l \in Int /\ r \in Int /\ true_m \in Int
  BY <1>1, MiddleIsBetween DEF IInv, TypeOK, ScanPart
<1>3. m \in lo .. hi /\ m <= true_m
  BY <1>1, <1>2 DEF IInv, TypeOK, BelowPart, AbovePart, ScanPart, Searching
<1>4. \A i \in lo .. hi : Match(i) /\ i <= true_m => i <= m
  BY <1>1, <1>2, <1>3 DEF IInv, TypeOK, ScanPart
<1>5. \A i \in lo .. hi : stabs[i].n_value \in Addr
  BY StabAssumption DEF IInv, TypeOK, Stab
<1>6. /\ \A i \in lo .. hi : Match(i) /\ i <= m => stabs[i].n_value <= stabs[m].n_value
      /\ \A i \in lo .. hi : Match(i) /\ i >= m => stabs[i].n_value >= stabs[m].n_value
  <2> SUFFICES ASSUME NEW i \in lo .. hi, Match(i)
               PROVE  /\ i <= m => stabs[i].n_value <= stabs[m].n_value
                      /\ i >= m => stabs[i].n_value >= stabs[m].n_value
    OBVIOUS
  <2>1. CASE i = m
    BY <2>1, <1>3, <1>5, StabAssumption DEF Addr
  <2>2. CASE i < m
    BY <2>2, <1>1, <1>3 DEF IInv, Sorted
  <2>3. CASE i > m
    BY <2>3, <1>1, <1>3, <1>5, StabAssumption DEF IInv, Sorted, Addr
  <2> QED
    BY <2>1, <2>2, <2>3, <1>3
<1>7. ScanPart' /\ RegionPart' /\ DonePart' /\ FoundIsBracketed' /\ NoMatchIsEmpty'
  BY <1>1 DEF ScanPart, RegionPart, DonePart, FoundIsBracketed, NoMatchIsEmpty
<1> QED
  BY <1>1, <1>2, <1>3, <1>4, <1>5, <1>6, <1>7 DEF AtMatch

LEMMA BelowKeepsIInv == IInv /\ Below => IInv'
<1> SUFFICES ASSUME IInv, Below
             PROVE  IInv'
  OBVIOUS
<1>1. /\ left' = m /\ l' = true_m + 1
      /\ UNCHANGED <<right, r, addr>> /\ stabs[m].n_value < addr
  BY DEF Below
<1>2. /\ AtMatch
      /\ UNCHANGED input /\ m' = m /\ any_matches' = TRUE
      /\ pc = "scan" /\ pc' = "loop"
  BY CompareFacts DEF Below
<1> USE StabAssumption
<1>3. \A i \in lo .. hi : i < l' /\ Match(i) => i <= m
  BY <1>1, <1>2 DEF IInv, TypeOK, AtMatch
<1>4. TypeOK' /\ Sorted'
  <2>1. m \in lo - 1 .. hi + 1 /\ true_m + 1 \in lo - 1 .. hi + 1
    BY <1>2 DEF IInv, TypeOK, AtMatch
  <2> QED
    BY <1>1, <1>2, <2>1, InputFixed DEF IInv, TypeOK, input
<1>5. BelowPart'
  <2>1. l' \in lo .. hi + 1
    BY <1>1, <1>2 DEF IInv, TypeOK, AtMatch
  <2> QED
    BY <1>1, <1>2, <1>3, <2>1, InputFixed DEF AtMatch, BelowPart
<1>6. AbovePart'
  BY <1>1, <1>2, InputFixed DEF IInv, AbovePart, Searching
<1>7. OrderPart'
  <2> SUFFICES ASSUME addr0 # MaxAddr, Separate
               PROVE  OrderPart'
    BY <1>2, InputFixed DEF OrderPart
  <2>1. stabs[m].n_value <= addr0
    BY <1>1, <1>2 DEF IInv, TypeOK, AtMatch, OrderPart, Searching, Addr
  <2>2. Starts(m) /\ \A i \in lo .. hi : i <= m /\ Match(i) => Starts(i)
    BY <1>2, <2>1 DEF IInv, TypeOK, AtMatch, Starts, Addr
  <2> QED
    BY <1>1, <1>2, <1>3, <2>2, InputFixed DEF IInv, OrderPart, Searching
<1> QED
  BY <1>4, <1>5, <1>6, <1>7, CompareFacts DEF IInv, Below

LEMMA AboveKeepsIInv == IInv /\ Above => IInv'
<1> SUFFICES ASSUME IInv, Above
             PROVE  IInv'
  OBVIOUS
<1>1. /\ right' = m - 1 /\ r' = m - 1
      /\ UNCHANGED <<left, l, addr>> /\ stabs[m].n_value > addr
  BY DEF Above
<1>2. /\ AtMatch
      /\ UNCHANGED input /\ m' = m /\ any_matches' = TRUE
      /\ pc = "scan" /\ pc' = "loop"
  BY CompareFacts DEF Above
<1> USE StabAssumption
<1>4. TypeOK' /\ Sorted'
  <2>1. m - 1 \in lo - 1 .. hi
    BY <1>2 DEF IInv, TypeOK, AtMatch
  <2> QED
    BY <1>1, <1>2, <2>1, InputFixed DEF IInv, TypeOK, input
<1>5. BelowPart'
  BY <1>1, <1>2, InputFixed DEF IInv, AtMatch, BelowPart, Searching
<1>6. AbovePart'
  <2>1. m - 1 \in lo - 1 .. hi /\ (m - 1) + 1 = m
    BY <1>2 DEF IInv, TypeOK, AtMatch
  <2> QED
    BY <1>1, <1>2, <2>1, InputFixed DEF AtMatch, AbovePart
<1>7. OrderPart'
  <2> SUFFICES ASSUME addr0 # MaxAddr, Separate
               PROVE  OrderPart'
    BY <1>2, InputFixed DEF OrderPart
  <2>1. stabs[m].n_value > addr0
    BY <1>1, <1>2 DEF IInv, TypeOK, AtMatch, OrderPart, Searching, Addr
  <2>2. \A i \in lo .. hi : i > m - 1 /\ Match(i) => stabs[i].n_value > addr0
    BY <1>2, <2>1 DEF IInv, TypeOK, AtMatch, Addr
  <2> QED
    BY <1>1, <1>2, <2>2, InputFixed DEF IInv, OrderPart, Searching
<1> QED
  BY <1>4, <1>5, <1>6, <1>7, CompareFacts DEF IInv, Above

LEMMA ExactKeepsIInv == IInv /\ Exact => IInv'
<1> SUFFICES ASSUME IInv, Exact
             PROVE  IInv'
  OBVIOUS
<1>1. /\ left' = m /\ l' = m
      /\ addr' = IF addr = MaxAddr THEN 0 ELSE addr + 1
      /\ UNCHANGED <<right, r>> /\ stabs[m].n_value = addr
  BY DEF Exact
<1>2. /\ AtMatch
      /\ UNCHANGED input /\ m' = m /\ any_matches' = TRUE
      /\ pc = "scan" /\ pc' = "loop"
  BY CompareFacts DEF Exact
<1> USE StabAssumption
<1>3. \A i \in lo .. hi : i < m => i <= m
  BY DEF IInv, TypeOK
<1>4. TypeOK' /\ Sorted'
  <2>1. m \in lo - 1 .. N /\ addr' \in Addr
    BY <1>1, <1>2 DEF IInv, TypeOK, AtMatch, Addr
  <2> QED
    BY <1>1, <1>2, <2>1, InputFixed DEF IInv, TypeOK, input
<1>5. BelowPart'
  <2>1. l' \in lo .. hi + 1
    BY <1>1, <1>2 DEF IInv, TypeOK, AtMatch
  <2> QED
    BY <1>1, <1>2, <1>3, <2>1, InputFixed DEF AtMatch, BelowPart
<1>6. AbovePart'
  BY <1>1, <1>2, InputFixed DEF IInv, AbovePart, Searching
<1>7. OrderPart'
  <2> SUFFICES ASSUME addr0 # MaxAddr, Separate
               PROVE  OrderPart'
    BY <1>2, InputFixed DEF OrderPart
  <2>1. addr = addr0
    BY <1>1, <1>2 DEF IInv, AtMatch, OrderPart, Searching, Separate
  <2>2. Starts(m) /\ \A i \in lo .. hi : i <= m /\ Match(i) => Starts(i)
    BY <1>1, <1>2, <2>1 DEF AtMatch, Starts
  <2>3. addr' = addr0 + 1
    BY <1>1, <2>1
  <2> QED
    BY <1>1, <1>2, <1>3, <2>1, <2>2, <2>3, InputFixed
       DEF IInv, AtMatch, OrderPart, Searching
<1> QED
  BY <1>4, <1>5, <1>6, <1>7, CompareFacts DEF IInv, Exact

LEMMA NoMatchesKeepsIInv == IInv /\ NoMatches => IInv'
<1> SUFFICES ASSUME IInv, NoMatches
             PROVE  IInv'
  OBVIOUS
<1>1. /\ pc = "loop" /\ l > r /\ any_matches = FALSE /\ right' = left - 1 /\ pc' = "done"
      /\ UNCHANGED <<input, left, l, r, m, addr, any_matches>>
  BY DEF NoMatches, IInv, TypeOK
<1> USE StabAssumption
<1>2. left = lo /\ \A i \in lo .. hi : ~Match(i)
  BY <1>1 DEF IInv, TypeOK, BelowPart, AbovePart, Searching
<1>3. TypeOK' /\ Sorted'
  BY <1>1, <1>2, InputFixed DEF IInv, TypeOK, input
<1>4. FoundIsBracketed'
  BY <1>1, <1>2, InputFixed DEF FoundIsBracketed, Candidates
<1>5. NoMatchIsEmpty'
  BY <1>1, <1>2 DEF IInv, TypeOK, NoMatchIsEmpty
<1>7. DonePart'
  BY <1>1, <1>2, InputFixed DEF IInv, TypeOK, DonePart
<1>6. BelowPart' /\ AbovePart' /\ ScanPart' /\ OrderPart' /\ RegionPart'
  BY <1>1 DEF BelowPart, AbovePart, ScanPart, OrderPart, RegionPart, Searching
<1> QED
  BY <1>3, <1>4, <1>5, <1>6, <1>7 DEF IInv

LEMMA StartRegionKeepsIInv == IInv /\ StartRegion => IInv'
<1> SUFFICES ASSUME IInv, StartRegion
             PROVE  IInv'
  OBVIOUS
<1>1. /\ pc = "loop" /\ l > r /\ any_matches = TRUE /\ l' = right /\ pc' = "region"
      /\ UNCHANGED <<input, left, right, r, m, addr, any_matches>>
  BY DEF StartRegion, IInv, TypeOK
<1> USE StabAssumption
<1>2. TypeOK' /\ Sorted'
  BY <1>1, InputFixed DEF IInv, TypeOK, input
<1>3. RegionPart'
  <2>1. /\ right = r /\ right \in lo - 1 .. hi
        /\ \E i \in lo .. hi : Match(i)
        /\ right = hi \/ Match(right + 1)
    BY <1>1 DEF IInv, BelowPart, AbovePart, Searching
  <2>2. left \in lo .. hi
    BY <1>1, <2>1 DEF IInv, TypeOK, BelowPart, Searching
  <2>3. \A i \in lo .. hi : Match(i) /\ i <= right => i <= left
    BY <1>1, <2>1 DEF IInv, TypeOK, BelowPart, Searching
  <2>4. \A i \in left + 1 .. right : ~Match(i)
    BY <2>1, <2>2, <2>3 DEF IInv, TypeOK
  <2>5. ASSUME addr0 # MaxAddr, Separate
        PROVE  /\ left = lo \/ Starts(left)
               /\ \A i \in lo .. hi : Starts(i) => i <= left /\ i <= right
    <3>1. \A i \in lo .. hi : Starts(i) => Match(i) /\ i <= right
      BY <1>1, <2>1, <2>5 DEF IInv, TypeOK, Stab, Addr, OrderPart, Searching, Starts
    <3>2. left = lo \/ Starts(left)
      BY <1>1, <2>5 DEF IInv, OrderPart, Searching
    <3> QED
      BY <2>3, <3>1, <3>2
  <2> QED
    BY <1>1, <2>1, <2>2, <2>4, <2>5, InputFixed DEF RegionPart
<1>4. BelowPart' /\ AbovePart' /\ ScanPart' /\ OrderPart' /\ FoundIsBracketed'
      /\ DonePart' /\ NoMatchIsEmpty'
  BY <1>1 DEF BelowPart, AbovePart, ScanPart, OrderPart, Searching,
     DonePart, FoundIsBracketed, NoMatchIsEmpty
<1> QED
  BY <1>2, <1>3, <1>4 DEF IInv

LEMMA RegionBackKeepsIInv == IInv /\ RegionBack => IInv'
<1> SUFFICES ASSUME IInv, RegionBack
             PROVE  IInv'
  OBVIOUS
<1>1. /\ pc = "region" /\ l > left /\ l' = l - 1
      /\ UNCHANGED <<input, left, right, r, m, addr, any_matches, pc>>
  BY DEF RegionBack
<1> USE StabAssumption
<1>2. l \in left .. right /\ left \in lo .. hi /\ right \in lo - 1 .. hi
  BY <1>1 DEF IInv, TypeOK, RegionPart
<1>3. TypeOK' /\ Sorted'
  BY <1>1, <1>2, InputFixed DEF IInv, TypeOK, input
<1>4. RegionPart'
  BY <1>1, <1>2, InputFixed DEF IInv, TypeOK, RegionPart
<1>5. BelowPart' /\ AbovePart' /\ ScanPart' /\ OrderPart' /\ FoundIsBracketed'
      /\ DonePart' /\ NoMatchIsEmpty'
  BY <1>1 DEF BelowPart, AbovePart, ScanPart, OrderPart, Searching,
     DonePart, FoundIsBracketed, NoMatchIsEmpty
<1> QED
  BY <1>3, <1>4, <1>5 DEF IInv

LEMMA RegionDoneKeepsIInv == IInv /\ RegionDone => IInv'
<1> SUFFICES ASSUME IInv, RegionDone
             PROVE  IInv'
  OBVIOUS
<1>1. /\ pc = "region" /\ (l > left => Match(l)) /\ left' = l /\ pc' = "done"
      /\ UNCHANGED <<input, right, l, r, m, addr, any_matches>>
  BY DEF RegionDone
<1> USE StabAssumption
<1>2. /\ left \in lo .. hi /\ right \in lo - 1 .. hi
      /\ l = right \/ (left <= l /\ l <= right)
      /\ \A i \in left + 1 .. right : ~Match(i)
      /\ right = hi \/ Match(right + 1)
      /\ \E i \in lo .. hi : Match(i)
  BY <1>1 DEF IInv, RegionPart
<1>3. TypeOK' /\ Sorted'
  BY <1>1, <1>2, InputFixed DEF IInv, TypeOK, input
<1>4. FoundIsBracketed'
  <2> SUFFICES ASSUME addr0 # MaxAddr, Separate, NEW c \in Candidates
               PROVE  FoundIsBracketed'
    BY <1>1, InputFixed DEF FoundIsBracketed, Candidates
  <2>1. /\ \A i \in lo .. hi : Starts(i) => i <= left /\ i <= right
        /\ left = lo \/ Starts(left)
    BY <1>1 DEF IInv, RegionPart
  <2>2. c \in lo .. hi /\ Starts(c)
    BY DEF Candidates, Starts
  <2>3. Starts(left) /\ left <= right
    <3>1. CASE left = lo
      <4>1. c = left
        BY <2>1, <2>2, <3>1 DEF IInv, TypeOK
      <4> QED
        BY <2>1, <2>2, <4>1
    <3>2. CASE Starts(left)
      BY <1>2, <2>1, <3>2
    <3> QED
      BY <2>1, <3>1, <3>2
  <2>4. l = left
    BY <1>1, <1>2, <2>3 DEF IInv, TypeOK
  <2>5. left \in Candidates /\ \A i \in Candidates : i <= left
    BY <1>2, <2>1, <2>3 DEF Candidates, Starts
  <2>6. Candidates' = Candidates
    BY <1>1, InputFixed DEF Candidates
  <2> QED
    BY <1>1, <1>2, <2>3, <2>4, <2>5, <2>6, InputFixed DEF IInv, TypeOK, FoundIsBracketed
<1>5. NoMatchIsEmpty'
  BY <1>1, <1>2, InputFixed DEF NoMatchIsEmpty
<1>7. DonePart'
  <2>1. l <= right /\ l \in lo - 1 .. hi /\ (l = left \/ (l = right /\ l < left))
    BY <1>1, <1>2 DEF IInv, TypeOK
  <2>2. l < lo => Match(lo)
    <3>1. l < lo => right = lo - 1 /\ right # hi
      BY <1>2, <2>1 DEF IInv, TypeOK
    <3>2. (lo - 1) + 1 = lo
      BY DEF IInv, TypeOK
    <3> QED
      BY <1>2, <3>1, <3>2
  <2>3. ASSUME addr0 # MaxAddr, Separate, Candidates = {}  PROVE l = lo \/ Match(lo)
    <3>1. left = lo
      BY <1>1, <1>2, <2>3 DEF IInv, RegionPart, Starts, Candidates
    <3> QED
      BY <2>1, <2>2, <3>1
  <2>4. Candidates' = Candidates
    BY <1>1, InputFixed DEF Candidates
  <2>5. l \in lo - 1 .. hi + 1 /\ right \in l - 1 .. hi
    BY <1>2, <2>1 DEF IInv, TypeOK
  <2> QED
    BY <1>1, <2>2, <2>3, <2>4, <2>5, InputFixed DEF DonePart
<1>6. BelowPart' /\ AbovePart' /\ ScanPart' /\ OrderPart' /\ RegionPart'
  BY <1>1 DEF BelowPart, AbovePart, ScanPart, OrderPart, RegionPart, Searching
<1> QED
  BY <1>3, <1>4, <1>5, <1>6, <1>7 DEF IInv

LEMMA NextKeepsIInv == IInv /\ [Next]_vars => IInv'
<1> SUFFICES ASSUME IInv, [Next]_vars
             PROVE  IInv'
  OBVIOUS
<1>1. CASE UNCHANGED vars
  <2>1. UNCHANGED input /\ UNCHANGED <<left, right, l, r, m, addr, any_matches, pc>>
    BY <1>1 DEF vars
  <2>2. TypeOK' /\ Sorted' /\ BelowPart' /\ AbovePart' /\ OrderPart'
    BY <2>1, InputFixed DEF IInv, TypeOK, input, BelowPart, AbovePart, OrderPart, Searching
  <2>3. ScanPart' /\ RegionPart'
    BY <2>1, InputFixed DEF IInv, ScanPart, true_m, RegionPart
  <2>4. DonePart' /\ FoundIsBracketed' /\ NoMatchIsEmpty'
    BY <2>1, InputFixed DEF IInv, DonePart, FoundIsBracketed, NoMatchIsEmpty, Candidates
  <2> QED
    BY <2>2, <2>3, <2>4 DEF IInv
<1>2. CASE Next
  BY <1>2, BisectKeepsIInv, ScanBackKeepsIInv, NoneBelowKeepsIInv, BelowKeepsIInv,
     AboveKeepsIInv, ExactKeepsIInv, NoMatchesKeepsIInv, StartRegionKeepsIInv,
     RegionBackKeepsIInv, RegionDoneKeepsIInv DEF Next
<1> QED
  BY <1>1, <1>2

\* The loop invariant holds throughout the search, for every table.
THEOREM LoopInvariant == Spec => []IInv
  BY InitIInv, NextKeepsIInv, PTL DEF Spec

\* The ends of the search, the region it returns and the position it looks at
\* never leave the region that was given, by more than one position.
THEOREM TypeCorrect == Spec => []TypeOK
<1>1. IInv => TypeOK
  BY DEF IInv
<1> QED
  BY <1>1, LoopInvariant, PTL

\* stab_binsearch finds the stab that contains the address and the end of its
\* region, in every table that has no stab right behind the address.
THEOREM SearchFinds == Spec => []FoundIsBracketed
<1>1. IInv => FoundIsBracketed
  BY DEF IInv
<1> QED
  BY <1>1, LoopInvariant, PTL

\* stab_binsearch returns an empty region if there is no stab of the type.
THEOREM SearchMisses == Spec => []NoMatchIsEmpty
<1>1. IInv => NoMatchIsEmpty
  BY DEF IInv
<1> QED
  BY <1>1, LoopInvariant, PTL
-----------------------------------------------------------------------------
(* debuginfo_eip: the inductive invariant ties what the two searches have  *)
(* found, and what is reported of it, to the table.                        *)

Premise == strs > 0 /\ eip # MaxAddr /\ Apart

\* Stab i is of type t and does not start after eip.
Before(t, i) == TypeOf(i) = t /\ stabs[i].n_value <= eip

\* Stab k is the last such stab in i .. j.
IsLast(t, i, j, k) ==
  k \in i .. j /\ Before(t, k) /\ \A n \in i .. j : Before(t, n) => n <= k

\* No stab of type t lies behind i before j, and one, or the end, behind j.
Block(t, i, j, end) ==
  /\ i <= j /\ j <= end
  /\ \A k \in i + 1 .. j : TypeOf(k) # t
  /\ j = end \/ TypeOf(j + 1) = t

IsSource(f, k, i) ==
  /\ i \in f .. k
  /\ i = f \/ TypeOf(i) = "SOL"
  /\ \A j \in i + 1 .. k : TypeOf(j) # "SOL"

Blank == [eip_file |-> UNKNOWN, eip_fn_name |-> UNKNOWN,
          eip_fn_addr |-> eip, eip_fn_narg |-> 0]

Info == [eip_file : Int, eip_fn_name : Int, eip_fn_addr : Addr, eip_fn_narg : Nat]

InfoType ==
  /\ Linked(stabs) /\ eip \in Addr /\ strs \in Nat
  /\ info \in Info
  /\ lfun \in Int /\ rfun \in Int /\ lline \in Int

\* The search that runs is the one that was called.
CallPart ==
  /\ at = "file" =>
       type = "SO" /\ lo = 0 /\ hi = N - 1 /\ addr0 = eip /\ info = Blank
  /\ at = "fun" =>
       type = "FUN" /\ lo = lfile /\ hi = rfile /\ addr0 = eip /\ info = Blank

\* The file that contains the address.
FilePart ==
  at \in {"fun", "line", "args", "ok"} =>
    /\ lfile \in 1 .. N /\ rfile \in lfile - 1 .. N - 1
    /\ Premise => IsLast("SO", 0, N - 1, lfile) /\ Block("SO", lfile, rfile, N - 1)

\* What is reported in a file without functions.
NoFunctionPart ==
  /\ lfun > rfun
  /\ info.eip_fn_name = UNKNOWN /\ info.eip_fn_addr = eip /\ info.eip_fn_narg = 0
  /\ IF at = "line" THEN lline = lfile /\ info.eip_file = UNKNOWN
     ELSE at = "ok" /\ info.eip_file = NameOr(lfile, UNKNOWN)

\* What is reported of function k, and how far its source and its arguments
\* have been looked for.
FunctionPart(k) ==
  /\ lfun = k /\ Block("FUN", k, rfun, rfile)
  /\ info.eip_fn_name = NameOr(k, UNKNOWN)
  /\ info.eip_fn_addr = stabs[k].n_value
  /\ at = "line" => /\ lline \in lfile .. k
                    /\ \A j \in lline + 1 .. k : TypeOf(j) # "SOL"
                    /\ info.eip_file = UNKNOWN /\ info.eip_fn_narg = 0
  /\ at # "line" => /\ \E i \in lfile .. k : IsSource(lfile, k, i) /\ info.eip_file = NameOr(i, UNKNOWN)
                    /\ k + info.eip_fn_narg <= rfun
                    /\ \A j \in k + 1 .. k + info.eip_fn_narg : TypeOf(j) = "PSYM"
  /\ at = "args" => lline = k + info.eip_fn_narg + 1 /\ lline <= rfun
  /\ at = "ok" => \/ k + info.eip_fn_narg + 1 >= rfun
                  \/ TypeOf(k + info.eip_fn_narg + 1) # "PSYM"

FunPart ==
  at \in {"line", "args", "ok"} /\ Premise =>
    /\ (\A j \in lfile .. rfile : TypeOf(j) # "FUN") => NoFunctionPart
    /\ \A k \in lfile .. rfile : IsLast("FUN", lfile, rfile, k) => FunctionPart(k)

FailPart == at = "fail" /\ Premise => \A i \in 0 .. N - 1 : ~Before("SO", i)

IInfo == IInv /\ InfoType /\ CallPart /\ FilePart /\ FunPart /\ FailPart

LEMMA Table ==
  ASSUME stabs \in [0 .. N - 1 -> Stab], Linked(stabs)
  PROVE  /\ TypeOf(0) # "SO"
         /\ \A i \in 0 .. N - 1 : stabs[i] \in Stab /\ stabs[i].n_value \in Addr
         /\ \A i \in 0 .. N - 1 : TypeOf(i) = "SO" => stabs[i].n_value # 0
         /\ \A t \in {"SO", "FUN"} : \A i, j \in 0 .. N - 1 :
              i < j /\ TypeOf(i) = t /\ TypeOf(j) = t => stabs[i].n_value <= stabs[j].n_value
<1>1. DOMAIN stabs = 0 .. N - 1  OBVIOUS
<1> QED  BY <1>1 DEF Linked, TypeOf, Stab

\* The table, the address and the strings do not change, nor what is said of them.
LEMMA InfoFixed ==
  ASSUME UNCHANGED <<stabs, eip, strs>>
  PROVE  /\ stabs' = stabs /\ eip' = eip /\ strs' = strs
         /\ Linked(stabs)' <=> Linked(stabs)
         /\ Premise' <=> Premise
         /\ Blank' = Blank
         /\ \A i : TypeOf(i)' = TypeOf(i)
         /\ \A i, d : NameOr(i, d)' = NameOr(i, d)
         /\ \A t, i : Before(t, i)' <=> Before(t, i)
         /\ \A t, i, j, k : IsLast(t, i, j, k)' <=> IsLast(t, i, j, k)
         /\ \A t, i, j, k : Block(t, i, j, k)' <=> Block(t, i, j, k)
         /\ \A f, k, i : IsSource(f, k, i)' <=> IsSource(f, k, i)
<1>1. stabs' = stabs /\ eip' = eip /\ strs' = strs  OBVIOUS
<1>2. Linked(stabs)' <=> Linked(stabs)  BY <1>1 DEF Linked
<1>3. Premise' <=> Premise  BY <1>1 DEF Premise, Apart, TypeOf
<1>4. Blank' = Blank  BY <1>1 DEF Blank
<1>5. \A i : TypeOf(i)' = TypeOf(i)  BY <1>1 DEF TypeOf
<1>6. \A i, d : NameOr(i, d)' = NameOr(i, d)  BY <1>1 DEF NameOr
<1>7. \A t, i : Before(t, i)' <=> Before(t, i)  BY <1>1 DEF Before, TypeOf
<1>8. \A t, i, j, k : IsLast(t, i, j, k)' <=> IsLast(t, i, j, k)
  BY <1>7 DEF IsLast
<1>9. \A t, i, j, k : Block(t, i, j, k)' <=> Block(t, i, j, k)
  BY <1>5 DEF Block
<1>10. \A f, k, i : IsSource(f, k, i)' <=> IsSource(f, k, i)
  BY <1>5 DEF IsSource
<1> QED  BY <1>1, <1>2, <1>3, <1>4, <1>5, <1>6, <1>7, <1>8, <1>9, <1>10

\* A search that is called begins like one with any arguments.
LEMMA CallInv ==
  ASSUME stabs \in [0 .. N - 1 -> Stab], Linked(stabs), eip \in Addr,
         NEW t \in {"SO", "FUN"}, NEW i \in 0 .. N, NEW j \in i - 1 .. N - 1,
         Call(t, i, j)
  PROVE  IInv' /\ stabs' = stabs
<1>1. (Init => IInv)'  BY InitIInv, PTL
<1>2. /\ type' = t /\ lo' = i /\ hi' = j /\ left' = i /\ right' = j
      /\ addr0' = eip /\ addr' = eip /\ l' = i /\ r' = j /\ m' = 0
      /\ any_matches' = FALSE /\ pc' = "loop" /\ stabs' = stabs
  BY DEF Call
<1>3. Sorted'
  <2>1. \A a, b \in i .. j : a \in 0 .. N - 1 /\ b \in 0 .. N - 1  BY StabAssumption
  <2> QED  BY <1>2, <2>1, Table DEF Sorted, Match, TypeOf
<1>4. t \in Types  BY DEF Types
<1> QED  BY <1>1, <1>2, <1>3, <1>4 DEF Init

\* What a search of debuginfo_eip has found.
LEMMA Found ==
  ASSUME IInv, pc = "done", addr0 = eip, Premise, type \in {"SO", "FUN"}
  PROVE  /\ \A k \in lo .. hi : Before(type, k) =>
              IsLast(type, lo, hi, left) /\ Block(type, left, right, hi)
         /\ (\A k \in lo .. hi : ~Before(type, k)) => left = lo \/ TypeOf(lo) = type
<1>1. lo \in Nat /\ hi \in Int /\ hi <= N - 1  BY StabAssumption DEF IInv, TypeOK
<1>2. Separate
  <2>1. \A j \in lo .. hi : j \in 0 .. N - 1  BY <1>1, StabAssumption
  <2> QED  BY <2>1 DEF Premise, Apart, Separate, Match, TypeOf
<1>3. Candidates = {k \in lo .. hi : Before(type, k)}
  BY DEF Candidates, Before, Match, TypeOf
<1>4. ASSUME NEW k \in lo .. hi, Before(type, k)
      PROVE  IsLast(type, lo, hi, left) /\ Block(type, left, right, hi)
  <2>1. Candidates # {} /\ addr0 # MaxAddr  BY <1>3, <1>4 DEF Premise
  <2>2. /\ left \in Candidates /\ \A i \in Candidates : i <= left
        /\ left <= right /\ right <= hi
        /\ \A i \in left + 1 .. right : ~Match(i)
        /\ right = hi \/ Match(right + 1)
    BY <1>2, <2>1 DEF IInv, FoundIsBracketed
  <2> QED  BY <1>3, <2>2 DEF IsLast, Block, Match, TypeOf
<1>5. ASSUME \A k \in lo .. hi : ~Before(type, k)
      PROVE  left = lo \/ TypeOf(lo) = type
  <2>1. Candidates = {} /\ addr0 # MaxAddr  BY <1>3, <1>5 DEF Premise
  <2> QED  BY <1>2, <2>1 DEF IInv, DonePart, Match, TypeOf
<1> QED  BY <1>4, <1>5

LEMMA InfoInitInv == InfoInit => IInfo
<1> SUFFICES ASSUME InfoInit  PROVE IInfo  OBVIOUS
<1> USE DEF InfoInit
<1>1. TypeOK
  <2>1. stabs \in [0 .. N - 1 -> Stab] /\ N \in Nat  BY InfoAssumption, StabAssumption
  <2>2. /\ lo \in 0 .. N /\ hi \in lo - 1 .. N - 1
        /\ left \in lo - 1 .. hi + 1 /\ right \in lo - 1 .. hi
        /\ l \in lo - 1 .. hi + 1 /\ r \in lo - 1 .. hi /\ m \in Int /\ pc # "scan"
    BY <2>1
  <2>3. type \in Types /\ addr0 \in Addr /\ addr \in Addr  BY DEF Types
  <2> QED  BY <2>1, <2>2, <2>3 DEF TypeOK
<1>2. Sorted /\ BelowPart /\ AbovePart /\ ScanPart /\ OrderPart /\ RegionPart
  BY DEF Sorted, BelowPart, AbovePart, ScanPart, OrderPart, RegionPart, Searching
<1>3. DonePart /\ FoundIsBracketed /\ NoMatchIsEmpty
  BY DEF DonePart, FoundIsBracketed, NoMatchIsEmpty, Candidates
<1>4. InfoType
  BY InfoAssumption, StabAssumption DEF InfoType, Info, UNKNOWN, Addr
<1>5. CallPart /\ FilePart /\ FunPart /\ FailPart
  BY DEF CallPart, FilePart, FunPart, FailPart
<1> QED  BY <1>1, <1>2, <1>3, <1>4, <1>5 DEF IInv, IInfo
LEMMA EnterInv == IInfo /\ Enter => IInfo'
<1> SUFFICES ASSUME IInfo, Enter  PROVE IInfo'  OBVIOUS
<1>1. /\ at = "entry" /\ UNCHANGED <<eip, strs, bounds>>
      /\ info' = Blank
      /\ \/ at' \in {"panic", "fail"} /\ UNCHANGED vars /\ (at' = "panic" \/ strs = 0)
         \/ at' = "file" /\ Call("SO", 0, N - 1)
  BY DEF Enter, Blank
<1>2. /\ stabs \in [0 .. N - 1 -> Stab] /\ Linked(stabs) /\ eip \in Addr /\ strs \in Nat
      /\ lfun \in Int /\ rfun \in Int /\ lline \in Int
  BY DEF IInfo, IInv, TypeOK, InfoType
<1>3. IInv' /\ stabs' = stabs
  <2>1. CASE UNCHANGED vars  BY <2>1, NextKeepsIInv DEF IInfo, vars, input
  <2>2. CASE Call("SO", 0, N - 1)  BY <1>2, <2>2, CallInv, StabAssumption
  <2> QED  BY <1>1, <2>1, <2>2
<1>4. UNCHANGED <<stabs, eip, strs>> /\ UNCHANGED <<lfile, rfile, lfun, rfun, lline>>
  BY <1>1, <1>3 DEF bounds
<1>5. InfoType'
  <2>1. Blank \in Info  BY <1>2 DEF Blank, Info, UNKNOWN
  <2> QED  BY <1>1, <1>2, <1>4, <2>1, InfoFixed DEF InfoType
<1>6. CallPart'
  BY <1>1, <1>4, InfoFixed DEF CallPart, Call
<1>7. FilePart' /\ FunPart'  BY <1>1 DEF FilePart, FunPart
<1>8. FailPart'
  BY <1>1, <1>4 DEF FailPart, Premise
<1> QED  BY <1>3, <1>5, <1>6, <1>7, <1>8 DEF IInfo

LEMMA SearchInv == IInfo /\ Search => IInfo'
<1> SUFFICES ASSUME IInfo, Search  PROVE IInfo'  OBVIOUS
<1>1. Next /\ UNCHANGED <<eip, strs, info, bounds, at>>  BY DEF Search
<1>2. UNCHANGED input
  BY <1>1 DEF Next, Bisect, ScanBack, NoneBelow, Below, Above, Exact, NoMatches,
     StartRegion, RegionBack, RegionDone, Compare
<1>3. IInv'  BY <1>1, NextKeepsIInv DEF IInfo
<1>4. /\ UNCHANGED <<stabs, eip, strs>> /\ UNCHANGED <<lfile, rfile, lfun, rfun, lline>>
      /\ UNCHANGED <<info, at, type, lo, hi, addr0>>
  BY <1>1, <1>2 DEF input, bounds
<1>5. InfoType'  BY <1>4 DEF IInfo, InfoType
<1>6. CallPart'  BY <1>4, InfoFixed DEF IInfo, CallPart
<1>7. FilePart'  BY <1>4, InfoFixed DEF IInfo, FilePart
<1>8. NoFunctionPart' <=> NoFunctionPart
  BY <1>4, InfoFixed DEF NoFunctionPart
<1>9. \A k : FunctionPart(k)' <=> FunctionPart(k)
  BY <1>4, InfoFixed DEF FunctionPart
<1>10. FunPart'  BY <1>4, <1>8, <1>9, InfoFixed DEF IInfo, FunPart
<1>11. FailPart'  BY <1>4, InfoFixed DEF IInfo, FailPart
<1> QED  BY <1>3, <1>5, <1>6, <1>7, <1>10, <1>11 DEF IInfo

LEMMA FileFoundInv == IInfo /\ FileFound => IInfo'
<1> SUFFICES ASSUME IInfo, FileFound  PROVE IInfo'  OBVIOUS
<1>1. /\ at = "file" /\ pc = "done" /\ lfile' = left /\ rfile' = right
      /\ UNCHANGED <<eip, strs, info, lfun, rfun, lline>>
      /\ \/ left = 0 /\ at' = "fail" /\ UNCHANGED vars
         \/ left # 0 /\ at' = "fun" /\ Call("FUN", left, right)
  BY DEF FileFound, Returned
<1>2. /\ stabs \in [0 .. N - 1 -> Stab] /\ Linked(stabs) /\ eip \in Addr
      /\ type = "SO" /\ lo = 0 /\ hi = N - 1 /\ addr0 = eip /\ info = Blank
  BY <1>1 DEF IInfo, IInv, TypeOK, InfoType, CallPart
<1>3. TypeOf(0) # "SO"  BY <1>2, Table
<1>4. left \in 0 .. N /\ right \in left - 1 .. N - 1
  <2>1. left \in -1 .. N /\ right \in left - 1 .. N - 1 /\ (left < 0 => Match(0))
    BY <1>1, <1>2, StabAssumption DEF IInfo, IInv, DonePart
  <2>2. ~Match(0)  BY <1>2, <1>3 DEF Match, TypeOf
  <2> QED  BY <2>1, <2>2, StabAssumption
<1>5. IInv' /\ stabs' = stabs
  <2>1. CASE UNCHANGED vars  BY <2>1, NextKeepsIInv DEF IInfo, vars, input
  <2>2. CASE Call("FUN", left, right)  BY <1>2, <1>4, <2>2, CallInv
  <2> QED  BY <1>1, <2>1, <2>2
<1>6. UNCHANGED <<stabs, eip, strs>>  BY <1>1, <1>5
<1>7. InfoType'  BY <1>1, <1>6, InfoFixed DEF IInfo, InfoType
<1>8. CallPart'
  <2>1. ASSUME Call("FUN", left, right)
        PROVE  type' = "FUN" /\ lo' = left /\ hi' = right /\ addr0' = eip
    BY <2>1 DEF Call
  <2>2. info' = Blank'  BY <1>1, <1>2, <1>6, InfoFixed
  <2> QED  BY <1>1, <2>1, <2>2 DEF CallPart
<1>9. ASSUME Premise
      PROVE  IF left = 0 THEN \A k \in 0 .. N - 1 : ~Before("SO", k)
             ELSE IsLast("SO", 0, N - 1, left) /\ Block("SO", left, right, N - 1)
  <2>1. /\ \A k \in 0 .. N - 1 : Before("SO", k) =>
               IsLast("SO", 0, N - 1, left) /\ Block("SO", left, right, N - 1)
        /\ (\A k \in 0 .. N - 1 : ~Before("SO", k)) => left = 0
    BY <1>1, <1>2, <1>3, <1>9, Found DEF IInfo
  <2>2. IsLast("SO", 0, N - 1, left) => left # 0  BY <1>3 DEF IsLast, Before
  <2> QED  BY <2>1, <2>2
<1>10. FilePart'
  <2> SUFFICES ASSUME left # 0, at' = "fun"
               PROVE  /\ left \in 1 .. N /\ right \in left - 1 .. N - 1
                      /\ Premise => /\ IsLast("SO", 0, N - 1, left)
                                    /\ Block("SO", left, right, N - 1)
    BY <1>1, <1>6, InfoFixed DEF FilePart
  <2>1. left \in 1 .. N  BY <1>4, StabAssumption
  <2> QED  BY <1>4, <1>9, <2>1
<1>11. FailPart'  BY <1>1, <1>6, <1>9, InfoFixed DEF FailPart
<1>12. FunPart'  BY <1>1 DEF FunPart
<1> QED  BY <1>5, <1>7, <1>8, <1>10, <1>11, <1>12 DEF IInfo
\* What is known of file and function is not disturbed by steps that keep them.
LEMMA FilePartKept ==
  ASSUME FilePart, UNCHANGED <<stabs, eip, strs>>, UNCHANGED <<lfile, rfile>>,
         at' \in {"line", "args", "ok"} => at \in {"fun", "line", "args", "ok"},
         at' # "fun"
  PROVE  FilePart'
BY InfoFixed DEF FilePart

LEMMA FunFoundInv == IInfo /\ FunFound => IInfo'
<1> SUFFICES ASSUME IInfo, FunFound  PROVE IInfo'  OBVIOUS
<1>1. /\ at = "fun" /\ pc = "done" /\ at' = "line" /\ lfun' = left /\ rfun' = right
      /\ UNCHANGED <<vars, eip, strs, lfile, rfile>>
      /\ IF left <= right
         THEN /\ info' = [info EXCEPT !.eip_fn_name = NameOr(left, @),
                                      !.eip_fn_addr = stabs[left].n_value]
              /\ lline' = left
         ELSE info' = [info EXCEPT !.eip_fn_addr = eip] /\ lline' = lfile
  BY DEF FunFound, Returned
<1>2. /\ stabs \in [0 .. N - 1 -> Stab] /\ Linked(stabs) /\ eip \in Addr /\ info \in Info
      /\ type = "FUN" /\ lo = lfile /\ hi = rfile /\ addr0 = eip /\ info = Blank
      /\ lfile \in 1 .. N /\ rfile \in lfile - 1 .. N - 1
  BY <1>1 DEF IInfo, IInv, TypeOK, InfoType, CallPart, FilePart
<1>3. left \in 0 .. N /\ right \in left - 1 .. N - 1
  <2>1. left \in lfile - 1 .. rfile + 1 /\ right \in left - 1 .. rfile
    BY <1>1, <1>2 DEF IInfo, IInv, DonePart
  <2> QED  BY <1>2, <2>1, StabAssumption
<1>4. UNCHANGED <<stabs, eip, strs>> /\ UNCHANGED vars  BY <1>1 DEF vars, input
<1>5. IInv'  BY <1>4, NextKeepsIInv DEF IInfo
<1>6. /\ info'.eip_file = UNKNOWN /\ info'.eip_fn_narg = 0
      /\ IF left <= right
         THEN /\ info'.eip_fn_name = NameOr(left, UNKNOWN)
              /\ info'.eip_fn_addr = stabs[left].n_value /\ lline' = left
         ELSE info'.eip_fn_name = UNKNOWN /\ info'.eip_fn_addr = eip /\ lline' = lfile
  BY <1>1, <1>2 DEF Blank, UNKNOWN
<1>7. InfoType'
  <2>1. left <= right => stabs[left].n_value \in Addr /\ NameOr(left, UNKNOWN) \in Int
    BY <1>2, <1>3, Table, StabAssumption DEF NameOr, UNKNOWN
  <2>2. info' \in Info
    BY <1>1, <1>2, <2>1 DEF Info, Blank, UNKNOWN
  <2>3. lfun' \in Int /\ rfun' \in Int /\ lline' \in Int
    BY <1>1, <1>2, <1>3, StabAssumption
  <2> QED  BY <1>4, <2>2, <2>3, InfoFixed DEF IInfo, InfoType
<1>8. CallPart' /\ FailPart'  BY <1>1 DEF CallPart, FailPart
<1>9. FilePart'  BY <1>1, <1>4, FilePartKept DEF IInfo
<1>10. ASSUME Premise, \A j \in lfile .. rfile : TypeOf(j) # "FUN"
       PROVE  NoFunctionPart'
  <2>1. left > right
    BY <1>1, <1>2, <1>10 DEF IInfo, IInv, NoMatchIsEmpty, Match, TypeOf
  <2>2. ~(left <= right)  BY <1>3, <2>1, StabAssumption
  <2> QED  BY <1>1, <1>4, <1>6, <2>1, <2>2 DEF NoFunctionPart, UNKNOWN
<1>11. ASSUME Premise, NEW k \in lfile .. rfile, IsLast("FUN", lfile, rfile, k)
       PROVE  FunctionPart(k)'
  <2>1. Before("FUN", k)  BY <1>11 DEF IsLast
  <2>2. IsLast("FUN", lfile, rfile, left) /\ Block("FUN", left, right, rfile)
    BY <1>1, <1>2, <1>11, <2>1, Found DEF IInfo
  <2>3. left = k
    BY <1>2, <1>11, <2>2, StabAssumption DEF IsLast
  <2>4. left <= right  BY <2>2 DEF Block
  <2>5. \A j \in k + 1 .. k : TypeOf(j)' # "SOL"  BY <1>2, <1>11
  <2> QED  BY <1>1, <1>2, <1>4, <1>6, <1>11, <2>2, <2>3, <2>4, <2>5, InfoFixed
           DEF FunctionPart
<1>12. FunPart'
  <2> SUFFICES ASSUME Premise
               PROVE  /\ (\A j \in lfile .. rfile : TypeOf(j) # "FUN") => NoFunctionPart'
                      /\ \A k \in lfile .. rfile :
                           IsLast("FUN", lfile, rfile, k) => FunctionPart(k)'
    BY <1>1, <1>4, InfoFixed DEF FunPart
  <2> QED  BY <1>10, <1>11
<1> QED  BY <1>5, <1>7, <1>8, <1>9, <1>12 DEF IInfo

\* The first stab of the file names a source, and the others of the file do
\* only if they are of type SOL.
LEMMA SourceNames ==
  ASSUME IInfo, Premise, at = "line"
  PROVE  /\ lline = lfile => NamesSource
         /\ lline \in lfile + 1 .. rfile => (NamesSource <=> TypeOf(lline) = "SOL")
<1>1. /\ stabs \in [0 .. N - 1 -> Stab] /\ Linked(stabs)
      /\ IsLast("SO", 0, N - 1, lfile) /\ Block("SO", lfile, rfile, N - 1)
  BY DEF IInfo, IInv, TypeOK, InfoType, FilePart
<1>2. lfile \in 0 .. N - 1 /\ TypeOf(lfile) = "SO"  BY <1>1 DEF IsLast, Before
<1>3. stabs[lfile].n_value # 0  BY <1>1, <1>2, Table
<1> QED  BY <1>1, <1>2, <1>3 DEF NamesSource, Block

LEMMA LineBackInv == IInfo /\ LineBack => IInfo'
<1> SUFFICES ASSUME IInfo, LineBack  PROVE IInfo'  OBVIOUS
<1>1. /\ at = "line" /\ at' = "line" /\ lline >= lfile /\ ~NamesSource
      /\ lline' = lline - 1 /\ info' = info
      /\ UNCHANGED <<stabs, eip, strs>> /\ UNCHANGED vars
      /\ UNCHANGED <<lfile, rfile, lfun, rfun>>
  BY DEF LineBack, vars, input
<1>2. IInv'  BY <1>1, NextKeepsIInv DEF IInfo
<1>3. InfoType'  BY <1>1, InfoFixed DEF IInfo, InfoType
<1>4. CallPart' /\ FailPart'  BY <1>1 DEF CallPart, FailPart
<1>5. FilePart'  BY <1>1, FilePartKept DEF IInfo
<1>6. lfile \in Nat /\ rfile \in Int /\ lline \in Int
  BY <1>1, StabAssumption DEF IInfo, FilePart, InfoType
<1>7. ASSUME Premise  PROVE ~NoFunctionPart
  BY <1>1, <1>7, SourceNames DEF NoFunctionPart
<1>8. ASSUME Premise, NEW k \in lfile .. rfile, FunctionPart(k)
      PROVE  FunctionPart(k)'
  <2>1. lline \in lfile .. k /\ \A j \in lline + 1 .. k : TypeOf(j) # "SOL"
    BY <1>1, <1>8 DEF FunctionPart
  <2>2. lline \in lfile + 1 .. rfile /\ TypeOf(lline) # "SOL"
    BY <1>1, <1>6, <1>8, <2>1, SourceNames
  <2>3. lline - 1 \in lfile .. k  BY <1>6, <1>8, <2>1, <2>2
  <2>4. \A j \in (lline - 1) + 1 .. k : TypeOf(j) # "SOL"
    BY <1>6, <2>1, <2>2
  <2> QED  BY <1>1, <1>8, <2>3, <2>4, InfoFixed DEF FunctionPart
<1>9. FunPart'
  <2> SUFFICES ASSUME Premise
               PROVE  /\ (\A j \in lfile .. rfile : TypeOf(j) # "FUN") => NoFunctionPart'
                      /\ \A k \in lfile .. rfile :
                           IsLast("FUN", lfile, rfile, k) => FunctionPart(k)'
    BY <1>1, InfoFixed DEF FunPart
  <2> QED  BY <1>1, <1>7, <1>8 DEF IInfo, FunPart
<1> QED  BY <1>2, <1>3, <1>4, <1>5, <1>9 DEF IInfo
LEMMA SourceFoundInv == IInfo /\ SourceFound => IInfo'
<1> SUFFICES ASSUME IInfo, SourceFound  PROVE IInfo'  OBVIOUS
<1>1. /\ at = "line" /\ (lline >= lfile => NamesSource)
      /\ info' = [info EXCEPT !.eip_file = IF lline >= lfile THEN NameOr(lline, @) ELSE @]
      /\ at' = IF lfun < rfun THEN "args" ELSE "ok"
      /\ lline' = IF lfun < rfun THEN lfun + 1 ELSE lline
      /\ UNCHANGED <<stabs, eip, strs>> /\ UNCHANGED vars
      /\ UNCHANGED <<lfile, rfile, lfun, rfun>>
  BY DEF SourceFound, vars, input
<1>2. info \in Info /\ lline \in Int /\ lfun \in Int /\ rfun \in Int
      /\ lfile \in Nat /\ rfile \in Int
  BY <1>1, StabAssumption DEF IInfo, InfoType, FilePart
<1>3. IInv'  BY <1>1, NextKeepsIInv DEF IInfo
<1>4. /\ info' \in Info
      /\ info'.eip_fn_name = info.eip_fn_name /\ info'.eip_fn_addr = info.eip_fn_addr
      /\ info'.eip_fn_narg = info.eip_fn_narg
      /\ lline >= lfile /\ info.eip_file = UNKNOWN => info'.eip_file = NameOr(lline, UNKNOWN)
  <2>1. PICK v \in Int : v = IF lline >= lfile THEN NameOr(lline, info.eip_file) ELSE info.eip_file
    BY <1>2 DEF NameOr, Info
  <2>2. info' = [info EXCEPT !.eip_file = v]  BY <1>1, <2>1
  <2> QED  BY <1>2, <2>1, <2>2 DEF Info
<1>5. InfoType'
  <2>1. lline' \in Int  BY <1>1, <1>2
  <2> QED  BY <1>1, <1>2, <1>4, <2>1, InfoFixed DEF IInfo, InfoType
<1>6. at' \in {"args", "ok"}  BY <1>1
<1>7. CallPart' /\ FailPart'  BY <1>6 DEF CallPart, FailPart
<1>8. FilePart'  BY <1>1, <1>6, FilePartKept DEF IInfo
<1>9. ASSUME NoFunctionPart  PROVE NoFunctionPart'
  <2>1. ~(lfun < rfun) /\ at' = "ok"  BY <1>1, <1>2, <1>9 DEF NoFunctionPart
  <2>2. lline = lfile /\ info.eip_file = UNKNOWN /\ lline >= lfile
    BY <1>1, <1>2, <1>9 DEF NoFunctionPart
  <2> QED  BY <1>1, <1>4, <1>9, <2>1, <2>2, InfoFixed DEF NoFunctionPart
<1>10. ASSUME Premise, NEW k \in lfile .. rfile, FunctionPart(k)
       PROVE  FunctionPart(k)'
  <2>1. /\ lline \in lfile .. k /\ (\A j \in lline + 1 .. k : TypeOf(j) # "SOL")
        /\ info.eip_file = UNKNOWN /\ info.eip_fn_narg = 0 /\ lfun = k
        /\ Block("FUN", k, rfun, rfile)
    BY <1>1, <1>10 DEF FunctionPart
  <2>2. IsSource(lfile, k, lline)
    <3>1. lline >= lfile  BY <1>2, <2>1
    <3>2. lline = lfile \/ lline \in lfile + 1 .. rfile  BY <1>2, <1>10, <2>1
    <3>3. lline = lfile \/ TypeOf(lline) = "SOL"  BY <1>1, <1>10, <3>1, <3>2, SourceNames
    <3> QED  BY <2>1, <3>3 DEF IsSource
  <2>3. info'.eip_file = NameOr(lline, UNKNOWN) /\ info'.eip_fn_narg = 0
    BY <1>2, <1>4, <2>1
  <2>4. k <= rfun /\ k + 0 = k /\ k \in Int /\ k + 0 + 1 = k + 1
    BY <1>2, <1>10, <2>1 DEF Block
  <2>5. \A j \in k + 1 .. k + 0 : TypeOf(j) = "PSYM"  BY <2>4
  <2>6. at' = "args" => lline' = k + 1 /\ k + 1 <= rfun
    BY <1>1, <1>2, <2>1, <2>4
  <2>7. at' = "ok" => k + 1 >= rfun  BY <1>1, <1>2, <2>1, <2>4
  <2>8. \E i \in lfile .. k : IsSource(lfile, k, i) /\ info'.eip_file = NameOr(i, UNKNOWN)
    BY <2>1, <2>2, <2>3
  <2> QED
    BY <1>1, <1>4, <1>6, <1>10, <2>1, <2>3, <2>4, <2>5, <2>6, <2>7, <2>8, InfoFixed
       DEF FunctionPart
<1>11. FunPart'
  <2> SUFFICES ASSUME Premise
               PROVE  /\ (\A j \in lfile .. rfile : TypeOf(j) # "FUN") => NoFunctionPart'
                      /\ \A k \in lfile .. rfile :
                           IsLast("FUN", lfile, rfile, k) => FunctionPart(k)'
    BY <1>1, InfoFixed DEF FunPart
  <2> QED  BY <1>1, <1>9, <1>10 DEF IInfo, FunPart
<1> QED  BY <1>3, <1>5, <1>7, <1>8, <1>11 DEF IInfo

LEMMA CountArgInv == IInfo /\ CountArg => IInfo'
<1> SUFFICES ASSUME IInfo, CountArg  PROVE IInfo'  OBVIOUS
<1>1. /\ at = "args" /\ at' = "args" /\ lline < rfun /\ TypeOf(lline) = "PSYM"
      /\ info' = [info EXCEPT !.eip_fn_narg = @ + 1] /\ lline' = lline + 1
      /\ UNCHANGED <<stabs, eip, strs>> /\ UNCHANGED vars
      /\ UNCHANGED <<lfile, rfile, lfun, rfun>>
  BY DEF CountArg, IsArgument, vars, input
<1>2. info \in Info /\ lline \in Int /\ rfun \in Int /\ lfile \in Nat /\ rfile \in Int
  BY <1>1, StabAssumption DEF IInfo, InfoType, FilePart
<1>3. IInv'  BY <1>1, NextKeepsIInv DEF IInfo
<1>4. /\ info' \in Info /\ info'.eip_file = info.eip_file
      /\ info'.eip_fn_name = info.eip_fn_name /\ info'.eip_fn_addr = info.eip_fn_addr
      /\ info'.eip_fn_narg = info.eip_fn_narg + 1
  BY <1>1, <1>2 DEF Info
<1>5. InfoType'
  <2>1. lline' \in Int  BY <1>1, <1>2
  <2> QED  BY <1>1, <1>4, <2>1, InfoFixed DEF IInfo, InfoType
<1>6. CallPart' /\ FailPart'  BY <1>1 DEF CallPart, FailPart
<1>7. FilePart'  BY <1>1, FilePartKept DEF IInfo
<1>8. ~NoFunctionPart  BY <1>1 DEF NoFunctionPart
<1>9. ASSUME NEW k \in lfile .. rfile, FunctionPart(k)
      PROVE  FunctionPart(k)'
  <2>1. PICK n \in Nat : n = info.eip_fn_narg  BY <1>2 DEF Info
  <2>2. /\ lfun = k /\ Block("FUN", k, rfun, rfile)
        /\ lline = k + n + 1 /\ lline <= rfun /\ k + n <= rfun
        /\ \A j \in k + 1 .. k + n : TypeOf(j) = "PSYM"
        /\ \E i \in lfile .. k : IsSource(lfile, k, i) /\ info.eip_file = NameOr(i, UNKNOWN)
    BY <1>1, <1>9, <2>1 DEF FunctionPart
  <2>3. k + (n + 1) <= rfun /\ lline' = k + (n + 1) + 1 /\ lline' <= rfun
    BY <1>1, <1>2, <1>9, <2>2
  <2>4. \A j \in k + 1 .. k + (n + 1) : TypeOf(j) = "PSYM"
    <3>1. \A j \in k + 1 .. k + (n + 1) : j \in k + 1 .. k + n \/ j = k + n + 1
      BY <1>2, <1>9
    <3> QED  BY <1>1, <2>2, <3>1
  <2>5. info'.eip_fn_narg = n + 1  BY <1>4, <2>1
  <2> QED
    BY <1>1, <1>4, <1>9, <2>2, <2>3, <2>4, <2>5, InfoFixed DEF FunctionPart
<1>10. FunPart'
  <2> SUFFICES ASSUME Premise
               PROVE  /\ (\A j \in lfile .. rfile : TypeOf(j) # "FUN") => NoFunctionPart'
                      /\ \A k \in lfile .. rfile :
                           IsLast("FUN", lfile, rfile, k) => FunctionPart(k)'
    BY <1>1, InfoFixed DEF FunPart
  <2> QED  BY <1>1, <1>8, <1>9 DEF IInfo, FunPart
<1> QED  BY <1>3, <1>5, <1>6, <1>7, <1>10 DEF IInfo

LEMMA ArgsDoneInv == IInfo /\ ArgsDone => IInfo'
<1> SUFFICES ASSUME IInfo, ArgsDone  PROVE IInfo'  OBVIOUS
<1>1. /\ at = "args" /\ at' = "ok" /\ ~(lline < rfun /\ TypeOf(lline) = "PSYM")
      /\ UNCHANGED <<stabs, eip, strs>> /\ UNCHANGED vars
      /\ UNCHANGED <<lfile, rfile, lfun, rfun, lline, info>>
  BY DEF ArgsDone, IsArgument, vars, input, bounds
<1>2. lline \in Int /\ rfun \in Int  BY DEF IInfo, InfoType
<1>3. IInv'  BY <1>1, NextKeepsIInv DEF IInfo
<1>4. InfoType'  BY <1>1, InfoFixed DEF IInfo, InfoType
<1>5. CallPart' /\ FailPart'  BY <1>1 DEF CallPart, FailPart
<1>6. FilePart'  BY <1>1, FilePartKept DEF IInfo
<1>7. ~NoFunctionPart  BY <1>1 DEF NoFunctionPart
<1>8. ASSUME NEW k \in lfile .. rfile, FunctionPart(k)
      PROVE  FunctionPart(k)'
  <2>1. lline = k + info.eip_fn_narg + 1  BY <1>1, <1>8 DEF FunctionPart
  <2>2. k + info.eip_fn_narg + 1 >= rfun \/ TypeOf(k + info.eip_fn_narg + 1) # "PSYM"
    BY <1>1, <1>2, <2>1
  <2> QED  BY <1>1, <1>8, <2>2, InfoFixed DEF FunctionPart
<1>9. FunPart'
  <2> SUFFICES ASSUME Premise
               PROVE  /\ (\A j \in lfile .. rfile : TypeOf(j) # "FUN") => NoFunctionPart'
                      /\ \A k \in lfile .. rfile :
                           IsLast("FUN", lfile, rfile, k) => FunctionPart(k)'
    BY <1>1, InfoFixed DEF FunPart
  <2> QED  BY <1>1, <1>7, <1>8 DEF IInfo, FunPart
<1> QED  BY <1>3, <1>4, <1>5, <1>6, <1>9 DEF IInfo

LEMMA InfoStep == IInfo /\ [InfoNext]_infoVars => IInfo'
<1> SUFFICES ASSUME IInfo, [InfoNext]_infoVars  PROVE IInfo'  OBVIOUS
<1>1. CASE UNCHANGED infoVars
  <2>1. UNCHANGED vars /\ UNCHANGED <<eip, strs, info, bounds, at>>  BY <1>1 DEF infoVars
  <2>2. /\ UNCHANGED <<stabs, eip, strs>> /\ UNCHANGED <<lfile, rfile, lfun, rfun, lline>>
        /\ UNCHANGED <<info, at, type, lo, hi, addr0>>
    BY <2>1 DEF vars, input, bounds
  <2>3. IInv'  BY <2>1, NextKeepsIInv DEF IInfo
  <2>4. InfoType' /\ CallPart' /\ FilePart' /\ FailPart'
    BY <2>2, InfoFixed DEF IInfo, InfoType, CallPart, FilePart, FailPart
  <2>5. FunPart'
    BY <2>2, InfoFixed DEF IInfo, FunPart, NoFunctionPart, FunctionPart
  <2> QED  BY <2>3, <2>4, <2>5 DEF IInfo
<1>2. CASE InfoNext
  BY <1>2, EnterInv, SearchInv, FileFoundInv, FunFoundInv, LineBackInv, SourceFoundInv,
     CountArgInv, ArgsDoneInv DEF InfoNext
<1> QED  BY <1>1, <1>2

LEMMA InfoInvariant == InfoSpec => []IInfo
  BY InfoInitInv, InfoStep, PTL DEF InfoSpec
\* Only one stab names the source.
LEMMA SourceIs ==
  ASSUME NEW f \in Int, NEW k \in Int, NEW i \in f .. k, IsSource(f, k, i)
  PROVE  SourceAt(f, k) = i
<1> DEFINE Q(x) == /\ x = f \/ TypeOf(x) = "SOL"
                   /\ \A j \in x + 1 .. k : TypeOf(j) # "SOL"
<1>1. Q(i)  BY DEF IsSource
<1>2. ASSUME NEW x \in f .. k, Q(x)  PROVE x = i
  <2>1. CASE x < i
    <3>1. i \in x + 1 .. k /\ i # f  BY <2>1
    <3> QED  BY <1>1, <1>2, <3>1
  <2>2. CASE i < x
    <3>1. x \in i + 1 .. k /\ x # f  BY <2>2
    <3> QED  BY <1>1, <1>2, <3>1
  <2> QED  BY <2>1, <2>2
<1>3. (CHOOSE x \in f .. k : Q(x)) = i
  <2> HIDE DEF Q
  <2> QED  BY <1>1, <1>2
<1> QED  BY <1>3 DEF SourceAt

\* The last stab that starts at or before the address, as the property has it.
LEMMA LastIs ==
  ASSUME NEW t, NEW s, NEW k
  PROVE  k \in LastOf(t, s) <=> k \in s /\ Before(t, k) /\ \A n \in s : Before(t, n) => n <= k
BY DEF LastOf, Before

\* The stabs of the file are those up to the one that the search returned.
LEMMA FileIs ==
  ASSUME IInfo, Premise, at = "ok"
  PROVE  FileOf(lfile) = lfile .. rfile
<1>1. lfile \in Nat /\ rfile \in Int /\ rfile <= N - 1 /\ Block("SO", lfile, rfile, N - 1)
  BY StabAssumption DEF IInfo, FilePart
<1>2. ASSUME NEW i \in lfile .. rfile  PROVE i \in FileOf(lfile)
  <2>1. i \in lfile .. N - 1 /\ \A j \in lfile + 1 .. i : j \in lfile + 1 .. rfile
    BY <1>1, StabAssumption
  <2> QED  BY <1>1, <2>1 DEF FileOf, Block
<1>3. ASSUME NEW i \in FileOf(lfile)  PROVE i \in lfile .. rfile
  <2>1. i \in lfile .. N - 1 /\ \A j \in lfile + 1 .. i : TypeOf(j) # "SO"  BY DEF FileOf
  <2>2. ~(i > rfile)
    <3> SUFFICES ASSUME i > rfile  PROVE FALSE  OBVIOUS
    <3>1. rfile + 1 \in lfile + 1 .. i /\ rfile # N - 1
      BY <1>1, <2>1, StabAssumption DEF Block
    <3> QED  BY <1>1, <2>1, <3>1 DEF Block
  <2> QED  BY <1>1, <2>1, <2>2, StabAssumption
<1> QED  BY <1>2, <1>3

\* The regions that debuginfo_eip gives to its searches.
RegionGiven ==
  /\ at = "file" => lo = 0 /\ hi = N - 1
  /\ at = "fun" => lo = lfile /\ hi = rfile

\* Both searches of debuginfo_eip keep their indices in the region they are
\* given: the whole table, then what the first search found for the file.
THEOREM InfoTypeTheorem == InfoSpec => [](TypeOK /\ RegionGiven)
<1>1. IInfo => TypeOK /\ RegionGiven  BY DEF IInfo, IInv, CallPart, RegionGiven
<1> QED  BY <1>1, InfoInvariant, PTL

\* What stab_binsearch promises, it keeps in both calls.
THEOREM InfoSearchTheorem == InfoSpec => [](FoundIsBracketed /\ NoMatchIsEmpty)
<1>1. IInfo => FoundIsBracketed /\ NoMatchIsEmpty  BY DEF IInfo, IInv
<1> QED  BY <1>1, InfoInvariant, PTL

\* debuginfo_eip reports the file, the function, the source in force and the
\* arguments that the table has for the address, for every table that is in
\* order, and fails exactly if no file contains it.
THEOREM InfoTheorem == InfoSpec => []InfoIsRight
<1>1. ASSUME IInfo  PROVE InfoIsRight
  <2> SUFFICES ASSUME at \in {"fail", "ok"}, Premise  PROVE
         /\ at = "fail" <=> LastOf("SO", 0 .. N - 1) = {}
         /\ at = "ok" =>
              \A f \in LastOf("SO", 0 .. N - 1) :
                /\ (\A j \in FileOf(f) : TypeOf(j) # "FUN") =>
                     info = [eip_file |-> NameOr(f, UNKNOWN), eip_fn_name |-> UNKNOWN,
                             eip_fn_addr |-> eip, eip_fn_narg |-> 0]
                /\ \A k \in LastOf("FUN", FileOf(f)) :
                     LET n == info.eip_fn_narg
                     IN  /\ info.eip_fn_name = NameOr(k, UNKNOWN)
                         /\ info.eip_fn_addr = stabs[k].n_value
                         /\ info.eip_file = NameOr(SourceAt(f, k), UNKNOWN)
                         /\ \A j \in k + 1 .. k + n : TypeOf(j) = "PSYM"
                         /\ Closed /\ k + n + 1 < N => TypeOf(k + n + 1) # "PSYM"
    BY DEF InfoIsRight, Premise
  <2>1. CASE at = "fail"
    <3>1. \A i \in 0 .. N - 1 : ~Before("SO", i)  BY <1>1, <2>1 DEF IInfo, FailPart
    <3>2. LastOf("SO", 0 .. N - 1) = {}
      <4> SUFFICES ASSUME NEW k \in LastOf("SO", 0 .. N - 1)  PROVE FALSE  OBVIOUS
      <4>1. k \in 0 .. N - 1 /\ Before("SO", k)  BY DEF LastOf, Before
      <4> QED  BY <3>1, <4>1
    <3> QED  BY <2>1, <3>2
  <2>2. CASE at = "ok"
    <3>1. /\ lfile \in 1 .. N /\ rfile \in lfile - 1 .. N - 1
          /\ IsLast("SO", 0, N - 1, lfile) /\ Block("SO", lfile, rfile, N - 1)
          /\ info \in Info /\ rfun \in Int
      BY <1>1, <2>2 DEF IInfo, FilePart, InfoType
    <3>2. lfile \in LastOf("SO", 0 .. N - 1)  BY <3>1, LastIs DEF IsLast
    <3>3. \A f \in LastOf("SO", 0 .. N - 1) : f = lfile
      <4> SUFFICES ASSUME NEW f \in LastOf("SO", 0 .. N - 1)  PROVE f = lfile  OBVIOUS
      <4>1. /\ f \in 0 .. N - 1 /\ Before("SO", f)
            /\ \A n \in 0 .. N - 1 : Before("SO", n) => n <= f
        BY LastIs
      <4> QED  BY <3>1, <4>1, StabAssumption DEF IsLast
    <3>4. FileOf(lfile) = lfile .. rfile  BY <1>1, <2>2, FileIs
    <3>5. ASSUME \A j \in FileOf(lfile) : TypeOf(j) # "FUN"
          PROVE  info = [eip_file |-> NameOr(lfile, UNKNOWN), eip_fn_name |-> UNKNOWN,
                         eip_fn_addr |-> eip, eip_fn_narg |-> 0]
      <4>1. NoFunctionPart  BY <1>1, <2>2, <3>4, <3>5 DEF IInfo, FunPart
      <4> QED  BY <2>2, <3>1, <4>1 DEF NoFunctionPart, Info
    <3>6. ASSUME NEW k \in LastOf("FUN", FileOf(lfile)), NEW n, n = info.eip_fn_narg
          PROVE  /\ info.eip_fn_name = NameOr(k, UNKNOWN)
                 /\ info.eip_fn_addr = stabs[k].n_value
                 /\ info.eip_file = NameOr(SourceAt(lfile, k), UNKNOWN)
                 /\ \A j \in k + 1 .. k + n : TypeOf(j) = "PSYM"
                 /\ Closed /\ k + n + 1 < N => TypeOf(k + n + 1) # "PSYM"
      <4>1. k \in lfile .. rfile /\ IsLast("FUN", lfile, rfile, k)
        BY <3>4, LastIs DEF IsLast
      <4>2. FunctionPart(k)  BY <1>1, <2>2, <4>1 DEF IInfo, FunPart
      <4>3. PICK i \in lfile .. k : IsSource(lfile, k, i) /\ info.eip_file = NameOr(i, UNKNOWN)
        BY <2>2, <4>2 DEF FunctionPart
      <4>4. SourceAt(lfile, k) = i
        BY <3>1, <4>1, <4>3, SourceIs, StabAssumption
      <4>5. /\ n \in Nat /\ k \in Nat /\ k + n <= rfun /\ Block("FUN", k, rfun, rfile)
            /\ k + n + 1 >= rfun \/ TypeOf(k + n + 1) # "PSYM"
        BY <2>2, <3>1, <3>6, <4>1, <4>2, StabAssumption DEF FunctionPart, Info
      <4>6. ASSUME Closed, k + n + 1 < N  PROVE TypeOf(k + n + 1) # "PSYM"
        <5>1. CASE k + n + 1 = rfun + 1
          <6>1. TypeOf(rfun + 1) = "FUN" \/ TypeOf(rfun + 1) = "SO"
            BY <3>1, <4>5, <4>6, <5>1, StabAssumption DEF Block
          <6> QED  BY <5>1, <6>1
        <5>2. CASE k + n + 1 = rfun
          <6>1. rfun \in 1 .. N - 1  BY <4>5, <4>6, <5>2, StabAssumption
          <6>2. rfun + 1 < N => TypeOf(rfun + 1) = "FUN" \/ TypeOf(rfun + 1) = "SO"
            BY <3>1, <4>5, StabAssumption DEF Block
          <6>3. TypeOf(rfun) # "PSYM"  BY <4>6, <6>1, <6>2 DEF Closed
          <6> QED  BY <5>2, <6>3
        <5> QED  BY <3>1, <4>5, <5>1, <5>2
      <4> QED  BY <2>2, <3>6, <4>2, <4>3, <4>4, <4>6 DEF FunctionPart
    <3> QED  BY <2>2, <3>2, <3>3, <3>5, <3>6
  <2> QED  BY <2>1, <2>2
<1> QED  BY <1>1, InfoInvariant, PTL

===============================================================================
