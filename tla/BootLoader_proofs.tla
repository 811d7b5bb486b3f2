---------------------------- MODULE BootLoader_proofs ----------------------------
(***************************************************************************)
(* What the boot loader leaves in memory, for every sector size, address   *)
(* space and kernel file.                                                  *)
(***************************************************************************)
EXTENDS BootLoader, WellFoundedInduction, TLAPS

-----------------------------------------------------------------------------
(* Sectors.  No prover here knows that a number is its quotient and        *)
(* remainder when the divisor is not a literal; it follows from the least  *)
(* element of a set of naturals.                                           *)

LEMMA SectorSize == SECTSIZE \in Nat \ {0, 1}
BY BootAssumption

LEMMA NatMin ==
  ASSUME NEW T, T \subseteq Nat, T # {}
  PROVE  \E m \in T : \A k \in T : m <= k
<1> DEFINE R == {ss \in Nat \X Nat : ss[1] < ss[2]}
<1>1. IsWellFoundedOn(R, Nat)
  BY NatLessThanWellFounded DEF OpToRel
<1>2. PICK m \in T : \A k \in T : ~(<<k, m>> \in R)
  <2> HIDE DEF R
  <2> QED  BY <1>1, WFMin
<1>3. \A k \in T : ~(k < m)  BY <1>2
<1> QED  BY <1>2, <1>3

LEMMA QuotientRemainder ==
  ASSUME NEW a \in Nat
  PROVE  \E q \in Nat, r \in 0 .. SECTSIZE - 1 :
           a = q * SECTSIZE + r /\ a % SECTSIZE = r /\ a \div SECTSIZE = q
<1> USE SectorSize
<1> DEFINE T == {n \in Nat : \E q \in Nat : n + q * SECTSIZE = a}
<1>1. a \in T
  <2>1. a + 0 * SECTSIZE = a  OBVIOUS
  <2> QED  BY <2>1
<1>2. PICK m \in T : \A k \in T : m <= k
  <2>1. T \subseteq Nat /\ T # {}  BY <1>1
  <2> HIDE DEF T
  <2> QED  BY <2>1, NatMin
<1>3. PICK q \in Nat : m + q * SECTSIZE = a  BY <1>2
<1>4. m < SECTSIZE
  <2> SUFFICES ASSUME m >= SECTSIZE  PROVE FALSE  OBVIOUS
  <2>1. m - SECTSIZE \in Nat  OBVIOUS
  <2>2. (q + 1) * SECTSIZE = q * SECTSIZE + SECTSIZE  OBVIOUS
  <2>3. (m - SECTSIZE) + (q + 1) * SECTSIZE = a  BY <1>3, <2>2
  <2>4. q + 1 \in Nat  OBVIOUS
  <2>5. m - SECTSIZE \in T  BY ONLY <2>1, <2>3, <2>4
  <2>6. m <= m - SECTSIZE  BY <1>2, <2>5
  <2> QED  BY <2>6
<1>5. q * SECTSIZE \in Nat  OBVIOUS
<1>6. a = q * SECTSIZE + m /\ m \in 0 .. SECTSIZE - 1  BY <1>3, <1>4, <1>5
<1>7. (q * SECTSIZE + m) % SECTSIZE = m /\ (q * SECTSIZE + m) \div SECTSIZE = q
  BY <1>6
<1> QED  BY <1>6, <1>7

\* The addresses at which sectors start.
Boundary == {q * SECTSIZE : q \in Nat}

LEMMA BoundaryStep ==
  ASSUME NEW x \in Boundary, NEW y \in Boundary
  PROVE  /\ x \in Nat /\ x % SECTSIZE = 0
         /\ x + SECTSIZE \in Boundary
         /\ x < y => x + SECTSIZE <= y
<1> USE SectorSize
<1>1. PICK p \in Nat : x = p * SECTSIZE  BY DEF Boundary
<1>2. PICK q \in Nat : y = q * SECTSIZE  BY DEF Boundary
<1>3. x \in Nat /\ x % SECTSIZE = 0
  <2>1. (p * SECTSIZE + 0) % SECTSIZE = 0  OBVIOUS
  <2>2. p * SECTSIZE \in Nat  OBVIOUS
  <2> QED  BY <1>1, <2>1, <2>2
<1>4. x + SECTSIZE = (p + 1) * SECTSIZE /\ p + 1 \in Nat  BY <1>1
<1>5. x + SECTSIZE \in Boundary  BY <1>4 DEF Boundary
<1>6. ASSUME x < y  PROVE x + SECTSIZE <= y
  <2>1. p * SECTSIZE < q * SECTSIZE  BY <1>1, <1>2, <1>6
  <2>2. p < q  BY <2>1
  <2>3. p + 1 <= q  BY <2>2
  <2>4. (p + 1) * SECTSIZE <= q * SECTSIZE  BY <2>3
  <2> QED  BY <1>2, <1>4, <2>4
<1> QED  BY <1>3, <1>5, <1>6

LEMMA Sector ==
  ASSUME NEW a \in Nat
  PROVE  /\ SectorStart(a) \in Boundary /\ SectorStart(a) \in Nat
         /\ SectorStart(a) <= a /\ a < SectorStart(a) + SECTSIZE
         /\ a % SECTSIZE = 0 => a \in Boundary
         /\ a % SECTSIZE = a - SectorStart(a)
         /\ (a \div SECTSIZE) * SECTSIZE = SectorStart(a) /\ a \div SECTSIZE \in Nat
<1> USE SectorSize
<1>1. PICK q \in Nat, r \in 0 .. SECTSIZE - 1 :
         a = q * SECTSIZE + r /\ a % SECTSIZE = r /\ a \div SECTSIZE = q
  BY QuotientRemainder
<1>2. PICK x \in Nat : x = q * SECTSIZE  OBVIOUS
<1>3. SectorStart(a) = x /\ a = x + r
  <2>1. a = x + r  BY <1>1, <1>2
  <2>2. SectorStart(a) = a - r  BY <1>1 DEF SectorStart
  <2> QED  BY <2>1, <2>2
<1>4. x \in Boundary  BY <1>2 DEF Boundary
<1>5. r = 0 => a = x  BY <1>3
<1>6. a % SECTSIZE = a - x /\ (a \div SECTSIZE) * SECTSIZE = x /\ a \div SECTSIZE \in Nat
  BY <1>1, <1>2, <1>3
<1>7. x <= a /\ a < x + SECTSIZE  BY <1>3
<1> QED  BY <1>1, <1>3, <1>4, <1>5, <1>6, <1>7

\* The address at which a sector starts, and another address.
LEMMA SectorOf ==
  ASSUME NEW x \in Boundary, NEW a \in Nat
  PROVE  /\ SectorStart(a) = x <=> x <= a /\ a < x + SECTSIZE
         /\ SectorStart(a) < x <=> a < x
         /\ SectorStart(a) >= x <=> a >= x
<1> USE SectorSize
<1>1. PICK y \in Boundary : /\ y = SectorStart(a) /\ y \in Nat
                            /\ y <= a /\ a < y + SECTSIZE
  BY Sector
<1>2. x \in Nat  BY BoundaryStep
<1>3. x < y => x + SECTSIZE <= y  BY BoundaryStep
<1>4. y < x => y + SECTSIZE <= x  BY BoundaryStep
<1> QED  BY <1>1, <1>2, <1>3, <1>4

\* The ends of the address space and of the headers' page are ends of sectors.
LEMMA Ends ==
  /\ Space \in Boundary /\ ELFHDR \in Boundary
  /\ ELFHDR + HDRSECTS * SECTSIZE \in Boundary
  /\ HDRSECTS * SECTSIZE \in Nat /\ HDRSECTS * SECTSIZE >= SECTSIZE
  /\ ELFHDR + HDRSECTS * SECTSIZE <= Space - SECTSIZE
<1> USE SectorSize, BootAssumption
<1>1. Space \in Nat /\ ELFHDR \in Nat  BY DEF Addr
<1>2. Space \in Boundary /\ ELFHDR \in Boundary  BY <1>1, Sector
<1>3. PICK p \in Nat : ELFHDR = p * SECTSIZE  BY <1>2 DEF Boundary
<1>4. ELFHDR + HDRSECTS * SECTSIZE = (p + HDRSECTS) * SECTSIZE /\ p + HDRSECTS \in Nat
  BY <1>3
<1>5. ELFHDR + HDRSECTS * SECTSIZE \in Boundary  BY <1>4 DEF Boundary
<1>6. HDRSECTS * SECTSIZE \in Nat /\ HDRSECTS * SECTSIZE >= SECTSIZE  OBVIOUS
<1>7. ELFHDR + HDRSECTS * SECTSIZE + SECTSIZE <= Space  BY <1>2, <1>5, BoundaryStep
<1> QED  BY <1>1, <1>2, <1>5, <1>6, <1>7

-----------------------------------------------------------------------------
(* The inductive invariant.  The headers are read as if they were part -1  *)
(* of the kernel, ahead of its segments, parts 1, 2, ...                   *)

Headers == [pa |-> ELFHDR, offset |-> 0,
            filesz |-> HDRSECTS * SECTSIZE, memsz |-> HDRSECTS * SECTSIZE]

Part(k) == IF k = -1 THEN Headers ELSE image[k]

Parts == {-1} \cup 1 .. Len(image)

\* Part k lies at the same place in its sectors in memory and in the file.
Aligned(s) == s.pa % SECTSIZE = s.offset % SECTSIZE

\* Nothing disturbs the headers, and no read has failed.
Undisturbed == NoWrap /\ HeadersKept /\ failed = 0

TypePart ==
  /\ image \in Seq(Segment)
  /\ mem \in [Addr -> Int]
  /\ ph \in Parts
  /\ pa \in Nat /\ end_pa \in Nat /\ offset \in Nat
  /\ pc \in {"bootmain", "bad", "readseg", "readsect", "entry", "kernel", "lost"}
  /\ disk \in {"ready", "busy", "error"}
  /\ failed \in Nat
  /\ failed = 0 => disk # "error"
  /\ pc = "bootmain" => ph = -1

\* readseg is at a sector of part ph, and offset is where the file has it.
ReadPart ==
  pc # "bootmain" =>
    /\ end_pa = Part(ph).pa + Part(ph).memsz
    /\ pa \in Boundary
    /\ SectorStart(Part(ph).pa) <= pa
    /\ pa < end_pa /\ Aligned(Part(ph)) =>
         (offset - 1) * SECTSIZE = pa + Part(ph).offset - Part(ph).pa
    /\ pc = "readsect" => pa < end_pa
    /\ pc = "entry" => pa >= end_pa /\ (ph = Len(image) \/ Len(image) = 0)

\* The sectors that readseg has passed: those of the parts before ph, and of
\* part ph those below pa.
Passed(k, a) == k < ph \/ (k = ph /\ a < pa)

\* What they hold is what the file has for them.
LoadedPart ==
  pc \notin {"bootmain", "kernel"} =>
    \A k \in Parts : k = -1 \/ Loadable =>
      \A a \in Footprint(Part(k)) :
        Passed(k, a) => mem[a] = a + Part(k).offset - Part(k).pa

IInv ==
  /\ TypePart
  /\ Undisturbed => ReadPart /\ LoadedPart
  /\ OnlyFootprintWritten
  /\ ImageIsTheFiles

-----------------------------------------------------------------------------
(* Types.                                                                  *)

LEMMA SpaceFacts == Space \in Nat /\ Space > 0 /\ ELFHDR \in Nat /\ 0 \in Addr
BY BootAssumption DEF Addr

LEMMA Wraps ==
  ASSUME NEW x \in Nat
  PROVE  x % Space \in Nat /\ (x < Space => x % Space = x)
BY SpaceFacts

LEMMA ReadsegType ==
  ASSUME NEW p \in Nat, NEW count \in Nat, NEW off \in Nat, Readseg(p, count, off)
  PROVE  pa' \in Nat /\ end_pa' \in Nat /\ offset' \in Nat /\ pc' = "readseg"
<1>1. SectorStart(p) \in Nat /\ off \div SECTSIZE \in Nat  BY Sector
<1>2. (p + count) % Space \in Nat  BY Wraps
<1> QED  BY <1>1, <1>2 DEF Readseg

LEMMA HeadersType == Headers \in Segment
<1>1. ELFHDR \in Addr /\ 0 \in Addr /\ HDRSECTS * SECTSIZE \in Addr
  BY Ends, SpaceFacts, SectorSize, BootAssumption DEF Addr
<1> QED  BY <1>1 DEF Headers, Segment

LEMMA PartType ==
  ASSUME image \in Seq(Segment), NEW k \in Parts
  PROVE  /\ Part(k) \in Segment
         /\ Part(k).pa \in Nat /\ Part(k).offset \in Nat
         /\ Part(k).filesz \in Nat /\ Part(k).memsz \in Nat
         /\ Part(k).offset < Space
         /\ Part(k).pa < Space
<1>1. Part(k) \in Segment  BY HeadersType DEF Part, Parts
<1> QED  BY <1>1, SpaceFacts DEF Segment, Addr

LEMMA HeaderType ==
  ASSUME image \in Seq(Segment), NEW n \in 1 .. Len(image), NEW s \in Header(n)
  PROVE  s.pa \in Nat /\ s.memsz \in Nat /\ s.offset \in Nat
<1>1. s \in Segment  BY BootAssumption DEF Header
<1> QED  BY <1>1, SpaceFacts DEF Segment, Addr

LEMMA TypeInit == Init => TypePart
<1> SUFFICES ASSUME Init  PROVE TypePart  OBVIOUS
<1>1. image \in Seq(Segment)  BY BootAssumption DEF Init, KernelFile
<1>2. mem \in [Addr -> Int]  BY DEF Init, OLD
<1> QED  BY <1>1, <1>2, Zenon DEF Init, TypePart, Parts

LEMMA TypeStep == TypePart /\ [Next]_vars => TypePart'
<1> SUFFICES ASSUME TypePart, [Next]_vars  PROVE TypePart'  OBVIOUS
<1> USE DEF TypePart
<1>1. CASE Start
  <2>1. pa' \in Nat /\ end_pa' \in Nat /\ offset' \in Nat /\ pc' = "readseg"
    BY <1>1, ReadsegType, Ends, SpaceFacts DEF Start
  <2> QED  BY <1>1, <2>1 DEF Start, file, Parts
<1>2. CASE NextSegment
  <2>1. PICK n \in 1 .. Len(image) :
          ph' = n /\ \E s \in Header(n) : Readseg(s.pa, s.memsz, s.offset)
    BY <1>2 DEF NextSegment, Parts
  <2>2. PICK s \in Header(n) : Readseg(s.pa, s.memsz, s.offset)  BY <2>1
  <2>3. s.pa \in Nat /\ s.memsz \in Nat /\ s.offset \in Nat  BY HeaderType
  <2>4. pa' \in Nat /\ end_pa' \in Nat /\ offset' \in Nat /\ pc' = "readseg"
    BY <2>2, <2>3, ReadsegType
  <2> QED  BY <1>2, <2>1, <2>4 DEF NextSegment, file, Parts
<1>3. CASE Transfer
  <2>1. pa' \in Nat /\ offset' \in Nat
    BY <1>3, Wraps, SectorSize DEF Transfer
  <2>2. mem' \in [Addr -> Int]
    <3>1. \A a \in Addr : DiskByte(offset, a - pa) \in Int
      BY SectorSize, SpaceFacts DEF DiskByte, Addr
    <3> QED  BY <1>3, <3>1 DEF Transfer, JUNK
  <2> QED  BY <1>3, <2>1, <2>2 DEF Transfer, file, Parts
<1>4. CASE ClearBss
  <2>1. mem' \in [Addr -> Int]  BY <1>4 DEF ClearBss, ZERO
  <2> QED  BY <1>4, <2>1 DEF ClearBss, file, segs, Parts
<1>5. CASE Command  BY <1>5 DEF Command, More, file, segs, Parts
<1>6. CASE BadImage \/ Misled  BY <1>6 DEF BadImage, Misled, file, segs, Parts
<1>7. CASE Enter  BY <1>7 DEF Enter, file, segs, Parts
<1>8. CASE DiskDone  BY <1>8 DEF DiskDone, file, segs, Parts
<1>9. CASE DiskError
  <2>1. failed' \in Nat /\ failed' # 0  BY <1>9 DEF DiskError
  <2> QED  BY <1>9, <2>1 DEF DiskError, file, segs, Parts
<1>10. CASE UNCHANGED vars  BY <1>10 DEF vars, file, segs, Parts
<1> QED
  BY <1>1, <1>2, <1>3, <1>4, <1>5, <1>6, <1>7, <1>8, <1>9, <1>10 DEF Next, Loader

-----------------------------------------------------------------------------
(* The sectors of a part.                                                  *)

LEMMA SameFile ==
  ASSUME UNCHANGED file
  PROVE  /\ NoWrap' = NoWrap /\ HeadersKept' = HeadersKept /\ Loadable' = Loadable
         /\ Parts' = Parts /\ Bss' = Bss /\ BssInSegment' = BssInSegment
         /\ \A k : Part(k)' = Part(k)
<1>1. image' = image /\ edata' = edata /\ end' = end  BY DEF file
<1>2. NoWrap' = NoWrap /\ HeadersKept' = HeadersKept /\ Parts' = Parts /\ Bss' = Bss
  BY <1>1 DEF NoWrap, HeadersKept, Parts, Bss
<1>3. BssInSegment' = BssInSegment  BY <1>1, <1>2 DEF BssInSegment
<1>4. Loadable' = Loadable  BY <1>1, <1>2, <1>3 DEF Loadable
<1>5. \A k : Part(k)' = Part(k)  BY <1>1 DEF Part
<1> QED  BY <1>2, <1>3, <1>4, <1>5

LEMMA Fits ==
  ASSUME image \in Seq(Segment), NoWrap, NEW k \in Parts
  PROVE  Part(k).pa + Part(k).memsz <= Space - SECTSIZE
<1>1. CASE k = -1
  <2>1. Part(k).pa = ELFHDR /\ Part(k).memsz = HDRSECTS * SECTSIZE
    BY <1>1 DEF Part, Headers
  <2> QED  BY <2>1, Ends
<1>2. CASE k # -1  BY <1>2 DEF NoWrap, Parts, Part
<1> QED  BY <1>1, <1>2

\* A part fills the sectors from that of its first byte to that of its last;
\* one without bytes has the sector it lies in, if it is not the start of one.
LEMMA FootprintOf ==
  ASSUME NEW s, s.pa \in Nat, s.memsz \in Nat, NEW a \in Addr
  PROVE  a \in Footprint(s) <=>
           SectorStart(s.pa) <= SectorStart(a) /\ SectorStart(a) < s.pa + s.memsz
<1> DEFINE p == SectorStart(s.pa)
           q == SectorStart(a)
<1>1. p \in Nat /\ q \in Nat  BY Sector, SpaceFacts DEF Addr
<1>2. CASE s.memsz = 0 /\ s.pa % SECTSIZE = 0
  <2>1. p = s.pa  BY <1>2, SectorSize DEF SectorStart
  <2>2. a \notin Footprint(s)  BY <1>2 DEF Footprint
  <2> HIDE DEF p, q
  <2>3. ~(p <= q /\ q < s.pa + s.memsz)  BY <1>1, <1>2, <2>1
  <2> QED  BY <2>2, <2>3 DEF p, q
<1>3. CASE ~(s.memsz = 0 /\ s.pa % SECTSIZE = 0)
  <2>1. a \in Footprint(s) <=> q >= p /\ q < s.pa + s.memsz  BY <1>3 DEF Footprint
  <2> HIDE DEF p, q
  <2>2. q >= p <=> p <= q  BY <1>1
  <2> QED  BY <2>1, <2>2 DEF p, q
<1> QED  BY <1>2, <1>3

LEMMA HeadersFootprint == Footprint(Headers) = HeaderPage
<1>1. Headers.pa = ELFHDR /\ Headers.memsz = HDRSECTS * SECTSIZE  BY DEF Headers
<1>2. Headers.pa \in Nat /\ Headers.memsz \in Nat  BY <1>1, Ends, SpaceFacts
<1>3. SectorStart(ELFHDR) = ELFHDR  BY BootAssumption, SpaceFacts DEF SectorStart
<1>4. ASSUME NEW a \in Addr  PROVE a \in Footprint(Headers) <=> a \in HeaderPage
  <2>1. a \in Nat  BY SpaceFacts DEF Addr
  <2>2. SectorStart(a) >= ELFHDR <=> a >= ELFHDR  BY <2>1, Ends, SectorOf
  <2>3. SectorStart(a) < ELFHDR + HDRSECTS * SECTSIZE <=> a < ELFHDR + HDRSECTS * SECTSIZE
    BY <2>1, Ends, SectorOf
  <2>4. SectorStart(a) \in Nat  BY <2>1, Sector
  <2>5. ELFHDR <= SectorStart(a) <=> a >= ELFHDR  BY <2>2, <2>4, SpaceFacts
  <2>6. a \in Footprint(Headers) <=> a >= ELFHDR /\ a < ELFHDR + HDRSECTS * SECTSIZE
    BY <1>1, <1>2, <1>3, <2>3, <2>5, FootprintOf
  <2> QED  BY <2>6 DEF HeaderPage
<1>5. Footprint(Headers) \subseteq Addr /\ HeaderPage \subseteq Addr
  BY DEF Footprint, HeaderPage
<1> QED  BY <1>4, <1>5

\* The bytes of a segment, in memory and in the file, lie in its sectors.
LEMMA BytesInFootprint ==
  ASSUME NEW s, s.pa \in Nat, s.memsz \in Nat, NEW a \in Addr,
         a >= s.pa, a < s.pa + s.memsz
  PROVE  a \in Footprint(s)
<1>1. a \in Nat  BY SpaceFacts DEF Addr
<1>2. PICK x \in Boundary : x = SectorStart(s.pa) /\ x <= s.pa /\ x \in Nat  BY Sector
<1>3. PICK y \in Nat : y = SectorStart(a) /\ y <= a  BY <1>1, Sector
<1>4. a >= x  BY <1>1, <1>2
<1>5. y >= x  BY <1>1, <1>2, <1>3, <1>4, SectorOf
<1>6. x <= y /\ y < s.pa + s.memsz  BY <1>1, <1>2, <1>3, <1>5
<1> QED  BY <1>2, <1>3, <1>6, FootprintOf

\* The sectors below the end of a part, from its first, are its footprint.
LEMMA Covered ==
  ASSUME NEW s, s.pa \in Nat, s.memsz \in Nat, NEW a \in Footprint(s),
         NEW x \in Boundary, s.pa + s.memsz <= x
  PROVE  a < x
<1>1. a \in Addr  BY DEF Footprint
<1>2. a \in Nat /\ x \in Nat  BY <1>1, SpaceFacts, BoundaryStep DEF Addr
<1>3. SectorStart(a) < s.pa + s.memsz /\ SectorStart(a) \in Nat  BY <1>1, <1>2, FootprintOf, Sector
<1>4. SectorStart(a) < x  BY <1>2, <1>3
<1> QED  BY <1>2, <1>4, SectorOf

-----------------------------------------------------------------------------
(* The steps of readseg and bootmain.                                      *)

LEMMA Before ==
  TypePart /\ [Next]_vars => UNCHANGED file /\ (Undisturbed' => Undisturbed)
<1> SUFFICES ASSUME TypePart, [Next]_vars
             PROVE  UNCHANGED file /\ (Undisturbed' => Undisturbed)
  OBVIOUS
<1>1. UNCHANGED file
  BY DEF Next, Loader, Start, BadImage, Misled, Command, Transfer, NextSegment, Enter,
         ClearBss, DiskDone, DiskError, vars
<1>2. failed' = 0 => failed = 0
  <2>1. CASE DiskError  BY <2>1 DEF DiskError, TypePart
  <2>2. CASE ~DiskError
    BY <2>2 DEF Next, Loader, Start, BadImage, Misled, Command, Transfer, NextSegment, Enter,
                ClearBss, DiskDone, vars
  <2> QED  BY <2>1, <2>2
<1> QED  BY <1>1, <1>2, SameFile DEF Undisturbed

\* The bytes of part k are in memory.
IsLoaded(k) ==
  k = -1 \/ Loadable =>
    \A a \in Footprint(Part(k)) : mem[a] = a + Part(k).offset - Part(k).pa

\* When readseg is done with part ph, the parts up to it are in memory.
LEMMA AllLoaded ==
  ASSUME TypePart, ReadPart, LoadedPart, pc \notin {"bootmain", "kernel"}, pa >= end_pa,
         NEW k \in Parts, k <= ph
  PROVE  IsLoaded(k)
<1> SUFFICES ASSUME k = -1 \/ Loadable, NEW a \in Footprint(Part(k))
             PROVE  mem[a] = a + Part(k).offset - Part(k).pa
  BY DEF IsLoaded
<1>1. ASSUME k = ph  PROVE a < pa
  <2>1. Part(k).pa \in Nat /\ Part(k).memsz \in Nat  BY PartType DEF TypePart
  <2>2. pa \in Boundary /\ Part(k).pa + Part(k).memsz <= pa
    BY <1>1, <2>1 DEF ReadPart, TypePart
  <2> QED  BY <2>1, <2>2, Covered
<1>2. k = ph \/ k < ph  BY SpaceFacts DEF TypePart, Parts
<1>3. Passed(k, a)  BY <1>1, <1>2 DEF Passed
<1> QED  BY <1>3 DEF LoadedPart

\* readseg starts to read part k.
LEMMA ReadsegStarts ==
  ASSUME TypePart, NoWrap, UNCHANGED <<file, mem>>, NEW k \in Parts, ph' = k,
         Readseg(Part(k).pa, Part(k).memsz, Part(k).offset),
         \A j \in Parts : j < k => IsLoaded(j)
  PROVE  ReadPart' /\ LoadedPart'
<1>1. PICK p, m, f \in Nat : p = Part(k).pa /\ m = Part(k).memsz /\ f = Part(k).offset
  BY PartType DEF TypePart
<1>2. end_pa' = p + m
  <2>1. p + m <= Space - SECTSIZE  BY <1>1, Fits DEF TypePart
  <2>2. p + m \in Nat /\ p + m < Space  BY <2>1, SectorSize, SpaceFacts
  <2>3. (p + m) % Space = p + m  BY <2>2, Wraps
  <2> QED  BY <1>1, <2>3 DEF Readseg
<1>3. PICK x \in Boundary : x = SectorStart(p) /\ x \in Nat /\ p % SECTSIZE = p - x  BY Sector
<1>4. pa' = x /\ offset' = f \div SECTSIZE + 1 /\ pc' = "readseg"
  BY <1>1, <1>3 DEF Readseg
<1>5. Aligned(Part(k)) => (offset' - 1) * SECTSIZE = x + f - p
  <2>1. PICK q, y \in Nat : /\ q = f \div SECTSIZE /\ y = SectorStart(f)
                            /\ q * SECTSIZE = y /\ f % SECTSIZE = f - y
    BY Sector
  <2>2. offset' - 1 = q  BY <1>4, <2>1
  <2>3. (offset' - 1) * SECTSIZE = y  BY <2>1, <2>2
  <2>4. Aligned(Part(k)) => p - x = f - y  BY <1>1, <1>3, <2>1 DEF Aligned
  <2> QED  BY <1>3, <2>1, <2>3, <2>4
<1>6. Part(k)' = Part(k)  BY SameFile
<1>7. ReadPart'
  <2>1. Part(ph)' = Part(k)  BY <1>6 DEF Part
  <2>2. x <= pa'  BY <1>3, <1>4
  <2> QED  BY <1>1, <1>2, <1>3, <1>4, <1>5, <2>1, <2>2 DEF ReadPart
<1>8. LoadedPart'
  <2> SUFFICES ASSUME NEW j \in Parts, j = -1 \/ Loadable, NEW a \in Footprint(Part(j)),
                      j < k \/ (j = k /\ a < x)
               PROVE  mem[a] = a + Part(j).offset - Part(j).pa
    BY <1>4, SameFile DEF LoadedPart, Passed
  <2>1. CASE j < k  BY <2>1 DEF IsLoaded
  <2>2. CASE j = k /\ a < x
    <3>1. a \in Addr /\ a \in Nat  BY SpaceFacts DEF Footprint, Addr
    <3>2. PICK y \in Nat : y = SectorStart(a) /\ (y < x <=> a < x)
      BY <1>3, <3>1, Sector, SectorOf
    <3>3. x <= y  BY <1>1, <1>3, <2>2, <3>1, <3>2, FootprintOf
    <3> QED  BY <1>3, <2>2, <3>2, <3>3
  <2> QED  BY <2>1, <2>2
<1> QED  BY <1>7, <1>8

LEMMA StartRead ==
  ASSUME TypePart, Undisturbed, Start
  PROVE  ReadPart' /\ LoadedPart'
<1>1. ph = -1 /\ -1 \in Parts /\ UNCHANGED <<file, mem, ph>>
  BY DEF Start, TypePart, Parts
<1>2. Part(-1) = Headers  BY DEF Part
<1>3. Readseg(Part(-1).pa, Part(-1).memsz, Part(-1).offset)
  BY <1>2 DEF Start, Headers
<1>4. \A j \in Parts : ~(j < -1)  BY DEF Parts
<1>5. NoWrap  BY DEF Undisturbed
<1> QED  BY <1>1, <1>3, <1>4, <1>5, ReadsegStarts

\* The program header read is the one of the kernel's file.
LEMMA HeaderIsTheFiles ==
  ASSUME TypePart, Undisturbed, IsLoaded(-1), NEW n \in 1 .. Len(image)
  PROVE  Header(n) = {image[n]}
<1>1. n \in Nat /\ n < HDRSECTS * SECTSIZE  BY Ends DEF Undisturbed, HeadersKept, TypePart
<1>2. ELFHDR + n \in HeaderPage
  <2>1. ELFHDR + n >= ELFHDR /\ ELFHDR + n < ELFHDR + HDRSECTS * SECTSIZE
    BY <1>1, Ends, SpaceFacts
  <2>2. ELFHDR + n \in 0 .. Space - 1
    BY <1>1, <2>1, Ends, SpaceFacts, SectorSize
  <2> QED  BY <2>1, <2>2 DEF HeaderPage, Addr
<1>3. Part(-1) = Headers  BY DEF Part
<1>4. mem[ELFHDR + n] = (ELFHDR + n) + 0 - ELFHDR
  BY <1>2, <1>3, HeadersFootprint DEF IsLoaded, Headers
<1>5. mem[ELFHDR + n] = n  BY <1>1, <1>4, SpaceFacts
<1> QED  BY <1>5 DEF Header

LEMMA NextSegmentRead ==
  ASSUME TypePart, Undisturbed, ReadPart, LoadedPart, NextSegment
  PROVE  ReadPart' /\ LoadedPart'
<1>1. pc = "readseg" /\ pa >= end_pa  BY DEF NextSegment, SegDone, More, TypePart
<1>2. PICK n \in 1 .. Len(image) :
         /\ n = IF ph = -1 THEN 1 ELSE ph + 1
         /\ ph' = n
         /\ \E s \in Header(n) : Readseg(s.pa, s.memsz, s.offset)
  BY DEF NextSegment, TypePart, Parts
<1>3. n \in Parts /\ -1 \in Parts /\ -1 <= ph /\ n # -1  BY DEF Parts, TypePart
<1>4. \A j \in Parts : j < n => j <= ph  BY <1>2 DEF Parts, TypePart
<1>5. \A j \in Parts : j < n => IsLoaded(j)  BY <1>1, <1>4, AllLoaded
<1>6. IsLoaded(-1)  BY <1>2, <1>3, <1>5
<1>7. Header(n) = {Part(n)}  BY <1>3, <1>6, HeaderIsTheFiles DEF Part
<1>8. Readseg(Part(n).pa, Part(n).memsz, Part(n).offset)  BY <1>2, <1>7
<1>9. UNCHANGED <<file, mem>>  BY DEF NextSegment
<1>10. NoWrap  BY DEF Undisturbed
<1> QED  BY <1>2, <1>3, <1>5, <1>8, <1>9, <1>10, ReadsegStarts

\* A sector is read without error: it is the next one of part ph.
LEMMA SectorRead ==
  ASSUME TypePart, Undisturbed, ReadPart, Transfer
  PROVE  /\ pa' = pa + SECTSIZE
         /\ \A a \in Addr : SectorStart(a) # pa => mem'[a] = mem[a]
         /\ \A a \in Addr : SectorStart(a) = pa =>
              /\ a \in Footprint(Part(ph))
              /\ Aligned(Part(ph)) => mem'[a] = a + Part(ph).offset - Part(ph).pa
<1>1. pc = "readsect" /\ disk # "busy" /\ disk # "error" /\ pa < end_pa
  BY DEF Transfer, TypePart, Undisturbed, ReadPart
<1>2. ph \in Parts /\ pa \in Nat  BY DEF TypePart
<1>3. PICK p, m, f \in Nat : p = Part(ph).pa /\ m = Part(ph).memsz /\ f = Part(ph).offset
  BY <1>2, PartType DEF TypePart
<1>4. PICK x \in Nat : x = SectorStart(p)  BY Sector
<1>5. pa < p + m /\ x <= pa  BY <1>1, <1>3, <1>4 DEF ReadPart
<1>6. pa' = pa + SECTSIZE
  <2>1. p + m <= Space - SECTSIZE  BY <1>2, <1>3, Fits DEF Undisturbed, TypePart
  <2>2. pa + SECTSIZE \in Nat /\ pa + SECTSIZE < Space
    BY <1>2, <1>5, <2>1, SectorSize, SpaceFacts
  <2> QED  BY <2>2, Wraps DEF Transfer
<1>7. ASSUME NEW a \in Addr, SectorStart(a) # pa  PROVE mem'[a] = mem[a]
  BY <1>7 DEF Transfer
<1>8. ASSUME NEW a \in Addr, SectorStart(a) = pa  PROVE a \in Footprint(Part(ph))
  BY <1>3, <1>4, <1>5, <1>8, FootprintOf
<1>9. ASSUME NEW a \in Addr, SectorStart(a) = pa, Aligned(Part(ph))
      PROVE  mem'[a] = a + Part(ph).offset - Part(ph).pa
  <2>1. mem'[a] = (offset - 1) * SECTSIZE + (a - pa)
    BY <1>1, <1>9 DEF Transfer, DiskByte
  <2>2. (offset - 1) * SECTSIZE = pa + f - p  BY <1>1, <1>3, <1>9 DEF ReadPart
  <2>3. a \in Nat  BY SpaceFacts DEF Addr
  <2>4. mem'[a] = (pa + f - p) + (a - pa)  BY <2>1, <2>2
  <2>5. mem'[a] = a + f - p  BY <1>2, <2>3, <2>4
  <2> QED  BY <1>3, <2>5
<1> QED  BY <1>6, <1>7, <1>8, <1>9

LEMMA TransferRead ==
  ASSUME TypePart, Undisturbed, ReadPart, LoadedPart, Transfer
  PROVE  ReadPart' /\ LoadedPart'
<1>1. /\ pc = "readsect" /\ pc' = "readseg" /\ UNCHANGED file
      /\ ph' = ph /\ end_pa' = end_pa /\ offset' = (offset + 1) % Space
  BY DEF Transfer
<1>2. ph \in Parts /\ pa \in Nat /\ offset \in Nat /\ end_pa \in Nat  BY DEF TypePart
<1>3. pa' = pa + SECTSIZE  BY SectorRead
<1>4. PICK p, m, f \in Nat : /\ p = Part(ph).pa /\ m = Part(ph).memsz /\ f = Part(ph).offset
                             /\ f < Space
  BY <1>2, PartType DEF TypePart
<1>5. end_pa = p + m /\ pa \in Boundary /\ pa < end_pa /\ p + m <= Space - SECTSIZE
  BY <1>1, <1>2, <1>4, Fits DEF ReadPart, Undisturbed, TypePart
<1>6. PICK x \in Nat : x = SectorStart(p) /\ x <= pa
  BY <1>1, <1>4, Sector DEF ReadPart
<1>7. ASSUME pa' < end_pa, Aligned(Part(ph))
      PROVE  (offset' - 1) * SECTSIZE = pa' + f - p
  <2>1. (offset - 1) * SECTSIZE = pa + f - p  BY <1>1, <1>4, <1>5, <1>7 DEF ReadPart
  <2>2. offset * SECTSIZE = (offset - 1) * SECTSIZE + SECTSIZE  BY <1>2, SectorSize
  <2>3. offset * SECTSIZE = pa' + f - p  BY <1>2, <1>3, <2>1, <2>2, SectorSize
  <2>4. offset + 1 < Space
    <3>1. offset * SECTSIZE < 2 * Space - SECTSIZE - 1
      BY <1>2, <1>3, <1>4, <1>5, <1>7, <2>3, SectorSize, SpaceFacts
    <3>2. offset * SECTSIZE >= offset * 2  BY <1>2, SectorSize
    <3>3. offset * 2 < 2 * Space - 3
      BY <1>2, <3>1, <3>2, SectorSize, SpaceFacts
    <3> QED  BY <1>2, <3>3, SpaceFacts
  <2>5. offset' = offset + 1  BY <1>1, <1>2, <2>4, Wraps
  <2>6. offset' - 1 = offset  BY <1>2, <2>5
  <2> QED  BY <2>3, <2>6
<1>8. ReadPart'
  <2>1. Part(ph)' = Part(ph)  BY <1>1, SameFile DEF Part
  <2>2. pa' \in Boundary /\ x <= pa'
    BY <1>2, <1>3, <1>5, <1>6, SectorSize, BoundaryStep
  <2>3. Aligned(Part(ph))' = Aligned(Part(ph))  BY <2>1 DEF Aligned
  <2> QED  BY <1>1, <1>4, <1>5, <1>6, <1>7, <2>1, <2>2, <2>3 DEF ReadPart
<1>9. LoadedPart'
  <2> SUFFICES ASSUME NEW k \in Parts, k = -1 \/ Loadable, NEW a \in Footprint(Part(k)),
                      k < ph \/ (k = ph /\ a < pa + SECTSIZE)
               PROVE  mem'[a] = a + Part(k).offset - Part(k).pa
    BY <1>1, <1>3, SameFile DEF LoadedPart, Passed
  <2>1. a \in Addr /\ a \in Nat  BY SpaceFacts DEF Footprint, Addr
  <2>2. CASE SectorStart(a) # pa
    <3>1. mem'[a] = mem[a]  BY <2>1, <2>2, SectorRead
    <3>2. k = ph /\ a < pa + SECTSIZE => a < pa
      BY <1>2, <1>5, <2>1, <2>2, SectorSize, SectorOf
    <3>3. Passed(k, a)  BY <3>2 DEF Passed
    <3> QED  BY <1>1, <3>1, <3>3 DEF LoadedPart
  <2>3. CASE SectorStart(a) = pa
    <3>1. a \in Footprint(Part(ph))  BY <2>1, <2>3, SectorRead
    <3>2. Aligned(Part(ph)) /\ Part(ph).offset - Part(ph).pa = Part(k).offset - Part(k).pa
      <4>1. CASE ph = -1
        <5>1. k = -1  BY <4>1 DEF Parts
        <5>2. Aligned(Headers)
          <6>1. ELFHDR % SECTSIZE = 0 /\ 0 % SECTSIZE = 0  BY BootAssumption, SectorSize
          <6> QED  BY <6>1 DEF Aligned, Headers
        <5> QED  BY <4>1, <5>1, <5>2 DEF Part
      <4>2. CASE ph # -1
        <5>1. ph \in 1 .. Len(image) /\ Part(ph) = image[ph]  BY <1>2, <4>2 DEF Parts, Part
        <5>2. k # -1
          <6>1. Footprint(image[ph]) \cap HeaderPage = {}
            BY <5>1 DEF Undisturbed, HeadersKept
          <6>2. k = -1 => a \in HeaderPage  BY HeadersFootprint DEF Part
          <6> QED  BY <3>1, <5>1, <6>1, <6>2
        <5>3. k \in 1 .. Len(image) /\ Part(k) = image[k] /\ Loadable  BY <5>2 DEF Parts, Part
        <5>4. Footprint(image[k]) \cap Footprint(image[ph]) # {}  BY <3>1, <5>1, <5>3
        <5> QED  BY <5>1, <5>3, <5>4 DEF Loadable, Aligned
      <4> QED  BY <4>1, <4>2
    <3>3. mem'[a] = a + Part(ph).offset - Part(ph).pa  BY <2>1, <2>3, <3>2, SectorRead
    <3> QED  BY <3>2, <3>3
  <2> QED  BY <2>2, <2>3
<1> QED  BY <1>8, <1>9

\* The kernel clears bytes that a segment has: no others are written.
LEMMA BssInFootprint ==
  ASSUME TypePart, BssInSegment, NEW a \in Bss
  PROVE  \E i \in 1 .. Len(image) : a \in Footprint(image[i])
<1>1. PICK i \in 1 .. Len(image) : a \in MemoryBytes(image[i])  BY DEF BssInSegment
<1>2. PICK s \in Segment : s = image[i]  BY DEF TypePart
<1>3. a \in Addr /\ a >= s.pa /\ a < s.pa + s.memsz  BY <1>1, <1>2 DEF MemoryBytes
<1>4. s.pa \in Nat /\ s.memsz \in Nat  BY SpaceFacts DEF Segment, Addr
<1>5. a \in Footprint(s)  BY <1>3, <1>4, BytesInFootprint
<1> QED  BY <1>2, <1>5

LEMMA ReadStep ==
  TypePart /\ Undisturbed /\ ReadPart /\ LoadedPart /\ [Next]_vars => ReadPart' /\ LoadedPart'
<1> SUFFICES ASSUME TypePart, Undisturbed, ReadPart, LoadedPart, [Next]_vars
             PROVE  ReadPart' /\ LoadedPart'
  OBVIOUS
<1>1. CASE Start  BY <1>1, StartRead
<1>2. CASE NextSegment  BY <1>2, NextSegmentRead
<1>3. CASE Transfer  BY <1>3, TransferRead
<1>4. CASE ClearBss
  <2>1. LoadedPart'  BY <1>4 DEF ClearBss, LoadedPart
  <2>2. /\ pc' = "kernel" /\ pc = "entry" /\ UNCHANGED <<file, ph, pa, end_pa, offset>>
    BY <1>4 DEF ClearBss, segs
  <2>3. Part(ph)' = Part(ph)  BY <2>2, SameFile DEF Part
  <2>4. ReadPart'  BY <2>2, <2>3 DEF ReadPart, Aligned
  <2> QED  BY <2>1, <2>4
<1>5. CASE Command \/ BadImage \/ Misled \/ Enter \/ DiskDone \/ DiskError \/ UNCHANGED vars
  <2>1. UNCHANGED <<file, mem, ph, pa, end_pa, offset>>
    BY <1>5 DEF Command, BadImage, Misled, Enter, DiskDone, DiskError, segs, vars
  <2>2. /\ pc' = "bootmain" <=> pc = "bootmain"
        /\ pc' = "kernel" <=> pc = "kernel"
        /\ pc' = "readsect" => pc = "readsect" \/ pa < end_pa
        /\ pc' = "entry" => pc = "entry" \/ (pa >= end_pa /\ (ph = Len(image) \/ Len(image) = 0))
    BY <1>5 DEF Command, BadImage, Misled, Enter, DiskDone, DiskError, vars, SegDone, More,
                TypePart
  <2>3. Part(ph)' = Part(ph) /\ image' = image  BY <2>1, SameFile DEF Part, file
  <2>4. Aligned(Part(ph))' = Aligned(Part(ph))  BY <2>3 DEF Aligned
  <2>5. ReadPart'  BY <2>1, <2>2, <2>3, <2>4 DEF ReadPart
  <2>6. LoadedPart'  BY <2>1, <2>2, SameFile DEF LoadedPart, Passed
  <2> QED  BY <2>5, <2>6
<1> QED
  BY <1>1, <1>2, <1>3, <1>4, <1>5 DEF Next, Loader

LEMMA FootprintStep ==
  TypePart /\ (Undisturbed => ReadPart) /\ OnlyFootprintWritten /\ [Next]_vars
    => OnlyFootprintWritten'
<1> SUFFICES ASSUME TypePart, Undisturbed => ReadPart, OnlyFootprintWritten, [Next]_vars,
                    Undisturbed', BssInSegment
             PROVE  \A a \in Addr : mem'[a] # OLD =>
                      a \in HeaderPage \/ \E i \in 1 .. Len(image) : a \in Footprint(image[i])
  BY Before, SameFile DEF OnlyFootprintWritten, Undisturbed, file
<1>1. Undisturbed  BY Before
<1> TAKE a \in Addr
<1> HAVE mem'[a] # OLD
<1>2. mem[a] # OLD => a \in HeaderPage \/ \E i \in 1 .. Len(image) : a \in Footprint(image[i])
  BY <1>1 DEF OnlyFootprintWritten, Undisturbed
<1>3. CASE Transfer
  <2>1. CASE SectorStart(a) # pa  BY <1>1, <1>2, <1>3, <2>1, SectorRead
  <2>2. CASE SectorStart(a) = pa
    <3>1. a \in Footprint(Part(ph))  BY <1>1, <1>3, <2>2, SectorRead
    <3>2. ph = -1 => a \in HeaderPage  BY <3>1, HeadersFootprint DEF Part
    <3>3. ph # -1 => ph \in 1 .. Len(image) /\ Part(ph) = image[ph]
      BY DEF Part, Parts, TypePart
    <3> QED  BY <3>1, <3>2, <3>3
  <2> QED  BY <2>1, <2>2
<1>4. CASE ClearBss
  <2>1. CASE a \in Bss  BY <2>1, BssInFootprint
  <2>2. CASE a \notin Bss  BY <1>2, <1>4, <2>2 DEF ClearBss
  <2> QED  BY <2>1, <2>2
<1>5. CASE ~Transfer /\ ~ClearBss
  <2>1. mem' = mem
    BY <1>5 DEF Next, Loader, Start, BadImage, Misled, Command, NextSegment, Enter,
                DiskDone, DiskError, vars
  <2> QED  BY <1>2, <2>1
<1> QED  BY <1>3, <1>4, <1>5

LEMMA ImageStep ==
  TypePart /\ (Undisturbed => ReadPart /\ LoadedPart) /\ ImageIsTheFiles /\ [Next]_vars
    => ImageIsTheFiles'
<1> SUFFICES ASSUME TypePart, Undisturbed => ReadPart /\ LoadedPart, ImageIsTheFiles,
                    [Next]_vars
             PROVE  ImageIsTheFiles'
  OBVIOUS
<1>0. UNCHANGED file /\ image' = image /\ Bss' = Bss /\ Loadable' = Loadable
  BY Before, SameFile DEF file
<1> SUFFICES ASSUME pc' = "kernel", Loadable, failed' = 0
             PROVE  /\ \A i \in 1 .. Len(image) : \A a \in FileBytes(image[i]) \ Bss :
                         mem'[a] = image[i].offset + (a - image[i].pa)
                    /\ \A a \in Bss : mem'[a] = ZERO
  BY <1>0 DEF ImageIsTheFiles, FileBytes
<1>1. UNCHANGED file /\ Loadable  BY <1>0
<1>2. Undisturbed
  <2>1. Undisturbed'  BY SameFile, Before DEF Loadable, Undisturbed
  <2> QED  BY <2>1, Before
<1>3. CASE ClearBss
  <2>1. mem' = [a \in Addr |-> IF a \in Bss THEN ZERO ELSE mem[a]] /\ pc = "entry"
    BY <1>3 DEF ClearBss
  <2>2. \A a \in Bss : mem'[a] = ZERO  BY <2>1 DEF Bss
  <2>3. ASSUME NEW i \in 1 .. Len(image), NEW a \in FileBytes(image[i]) \ Bss
        PROVE  mem'[a] = image[i].offset + (a - image[i].pa)
    <3>1. i \in Parts /\ Part(i) = image[i] /\ i <= ph
      BY <1>1, <1>2, <2>1 DEF Parts, Part, ReadPart, TypePart
    <3>2. IsLoaded(i)  BY <1>2, <2>1, <3>1, AllLoaded DEF ReadPart
    <3>3. PICK p, m, f, o \in Nat : /\ p = image[i].pa /\ m = image[i].memsz
                                    /\ f = image[i].filesz /\ o = image[i].offset
      BY <3>1, PartType DEF TypePart
    <3>4. a \in Addr /\ a >= p /\ a < p + f /\ f <= m /\ a \notin Bss
      BY <1>1, <2>3, <3>3 DEF FileBytes, Loadable
    <3>5. a \in Nat  BY <3>4, SpaceFacts DEF Addr
    <3>6. a < p + m
      <4>1. p + f <= p + m  BY <3>3, <3>4
      <4>2. p + f \in Nat /\ p + m \in Nat  BY ONLY p \in Nat, f \in Nat, m \in Nat
      <4> QED  BY <3>4, <3>5, <4>1, <4>2
    <3>7. a \in Footprint(image[i])  BY <3>3, <3>4, <3>6, BytesInFootprint
    <3>8. mem[a] = a + o - p  BY <1>1, <3>1, <3>2, <3>3, <3>7 DEF IsLoaded
    <3>9. mem'[a] = mem[a]  BY <2>1, <3>4
    <3>10. mem'[a] = o + (a - p)  BY <3>3, <3>5, <3>8, <3>9
    <3> QED  BY <3>3, <3>10
  <2> QED  BY <2>2, <2>3
<1>4. CASE ~ClearBss
  <2>1. pc = "kernel" /\ UNCHANGED mem
    BY <1>4 DEF Next, Loader, Start, BadImage, Misled, Command, Transfer, NextSegment, Enter,
                DiskDone, DiskError, Readseg, vars
  <2> QED  BY <1>1, <1>2, <2>1 DEF ImageIsTheFiles, Undisturbed
<1> QED  BY <1>3, <1>4

LEMMA InvInit == Init => IInv
<1> SUFFICES ASSUME Init  PROVE IInv  OBVIOUS
<1>1. TypePart  BY TypeInit
<1>2. pc = "bootmain" /\ \A a \in Addr : mem[a] = OLD  BY DEF Init
<1> QED
  BY <1>1, <1>2 DEF IInv, ReadPart, LoadedPart, OnlyFootprintWritten, ImageIsTheFiles

LEMMA InvStep == IInv /\ [Next]_vars => IInv'
<1> SUFFICES ASSUME IInv, [Next]_vars  PROVE IInv'  OBVIOUS
<1>1. TypePart'  BY TypeStep DEF IInv
<1>2. Undisturbed' => ReadPart' /\ LoadedPart'  BY Before, ReadStep DEF IInv
<1>3. OnlyFootprintWritten'  BY FootprintStep DEF IInv
<1>4. ImageIsTheFiles'  BY ImageStep DEF IInv
<1> QED  BY <1>1, <1>2, <1>3, <1>4 DEF IInv

LEMMA Invariant == Spec => []IInv
BY InvInit, InvStep, PTL DEF Spec

\* Reading whole sectors, as readseg does, the loader writes no byte outside
\* those of the headers' page and of the segments, as long as the segments
\* leave the headers alone and the disk reads without error.
THEOREM FootprintTheorem == Spec => []OnlyFootprintWritten
<1>1. IInv => OnlyFootprintWritten  BY DEF IInv
<1> QED  BY <1>1, Invariant, PTL

\* For a loadable kernel and a disk without errors, the kernel starts with the
\* bytes of its file where they belong and with zeros in its BSS, wherever in
\* a segment that lies, in whatever order the segments are and however their
\* sectors overlap.
THEOREM ImageTheorem == Spec => []ImageIsTheFiles
<1>1. IInv => ImageIsTheFiles  BY DEF IInv
<1> QED  BY <1>1, Invariant, PTL

=============================================================================
