----------------------------- MODULE MCBootLoader -----------------------------
(***************************************************************************)
(* Sectors of 2 bytes, 16 addresses; two sectors of headers; kernels of no *)
(* segment, of one, and of two that may touch, overlap, share a sector,    *)
(* swap places, or wrap around the end of the address space; some with the *)
(* empty header for a stack that linkers add.                              *)
(***************************************************************************)
EXTENDS BootLoader

Seg(p, shift, m, f) == [pa |-> p, offset |-> (p + shift) % Space, memsz |-> m, filesz |-> f]

\* Up to two bytes that the file does not have.
Some(places, shifts) ==
  {Seg(p, d, m, f) : p \in places, d \in shifts, m \in 0 .. 3, f \in 0 .. 3}

Sized(segments) == {s \in segments : s.filesz <= s.memsz /\ s.memsz <= s.filesz + 2}

\* The places of the BSS, if s is the segment that has it: as kern/kernel.ld has it,
\* with a byte of the file behind it; or what the file does not have.
BssOf(s) ==
  LET top == s.pa + s.memsz
  IN  IF s.filesz = s.memsz /\ s.memsz > 1 THEN {<<e, top - 1>> : e \in s.pa .. top - 2}
      ELSE {<<s.pa + s.filesz, top>>}

Kernel(segments, b) == [segments |-> segments, edata |-> b[1], end |-> b[2]]

MCKernels ==
  LET Ones == {<<s>> : s \in Sized(Some({2, 4, 5, 13, 14}, {0, 1, 2}))}
      Twos == {<<s, t>> : s \in {u \in Sized(Some({5, 6, 8, 9, 10}, {0, 2})) : u.filesz = u.memsz},
                          t \in Sized(Some(7 .. 9, {0, 4}))}
      All  == UNION {{Kernel(i, b) : b \in BssOf(i[Len(i)])} : i \in Ones \cup Twos}
              \cup UNION {{Kernel(<<i[1], Seg(0, 0, 0, 0)>>, b) : b \in BssOf(i[1])} : i \in Ones}
  IN  {Kernel(<<>>, <<0, 0>>)} \cup {k \in All : k.end < Space}

\* What junk may be taken for: a segment like others, one on top of the
\* headers, one in the last sector, and one whose end wraps.
MCGarbage == {Seg(4, 0, 1, 1), Seg(0, 2, 2, 2), Seg(14, 0, 1, 1), Seg(15, 1, 3, 3)}
===============================================================================
