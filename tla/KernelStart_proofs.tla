------------------------- MODULE KernelStart_proofs -------------------------
(***************************************************************************)
(* For page tables of any size and a kernel that lies anywhere in what one *)
(* page table maps: no access misses its home, and what has to be intact   *)
(* is, up to the monitor and through any panics and warnings.              *)
(***************************************************************************)
EXTENDS KernelStart, SequenceTheorems, TLAPS

Early == {"seta20.1", "seta20.2", "protcseg", "bootmain"}

\* The 8042 gets the command and then its datum, and the line is on before
\* anything above it is used.
BusPart ==
  /\ a20 \in BOOLEAN /\ expects \in BOOLEAN
  /\ kbc \in {NULL} \cup Bytes
  /\ pc = "seta20.1" => kbc \in {NULL, "other"}
  /\ pc = "seta20.2" => kbc = "d1" \/ (kbc = NULL /\ expects)
  /\ pc \in {"protcseg", "bootmain"} => (kbc = "df" /\ expects) \/ (kbc = NULL /\ a20)
  /\ pc \notin Early => kbc = NULL /\ a20

\* Paging is on from the jump to the kernel's addresses.
PagingPart ==
  /\ pg = (pc \notin Loading \cup {"entry", "cr0"})
  /\ cr3 = IF pc \in Loading \cup {"entry"} THEN NULL ELSE PGDIR

\* What returns has something to return to, and so has what is returned to.
Returning == {"entering", "leaving"} \cup Warning

CallPart ==
  /\ pc \in Loading \cup Low32 \cup InC
  /\ ret \in Seq(MayFail)
  /\ pc \in Returning => ret # <<>>
  /\ \A i \in DOMAIN ret : ret[i] \in Returning => i < Len(ret)

StaticPart ==
  /\ crt_buf \in {0, CGA, KERNBASE + CGA}
  /\ panicstr \in {NULL} \cup Messages
  /\ fmt \in {NULL} \cup Messages
  /\ pc \in MayFail => crt_buf = KERNBASE + CGA

MemPart ==
  /\ mem \in [Page -> {"bios", "boot", "elf", "file", "zero"}]
  /\ MemoryIsRight

IInv == BusPart /\ PagingPart /\ CallPart /\ StaticPart /\ MemPart /\ AccessesAreRight

-----------------------------------------------------------------------------
(* Address translation.                                                    *)

\* The pages that the start uses are naturals below the end of the first table.
LEMMA Pages ==
  /\ Kernel \subseteq Nat /\ Kernel \subseteq Page /\ Kernel \subseteq 0 .. NPTENTRIES - 1
  /\ TEXT \in Kernel /\ STACK \in Kernel /\ PGDIR \in Kernel /\ PGTABLE \in Kernel
  /\ BSS \subseteq Kernel
  /\ {TEXT, STACK, PGDIR, PGTABLE} \cap BSS = {}
  /\ \A p \in Kernel : p >= 256
  /\ Boot = 7 /\ ELFHDR = 16 /\ CGA = 184
  /\ 0 \in Page /\ Boot \in Page /\ ELFHDR \in Page /\ CGA \in Page
  /\ CGA \in 0 .. NPTENTRIES - 1 /\ NPTENTRIES \in Nat /\ KERNBASE \in Nat \ {0}
<1>1. Kernel \subseteq 256 .. 511  BY StartAssumption DEF Line20
<1>2. Kernel \subseteq 0 .. NPTENTRIES - 1  BY StartAssumption
<1>3. CGA \in 0 .. NPTENTRIES - 1 /\ NPTENTRIES \in Nat /\ KERNBASE \in Nat \ {0}
  BY StartAssumption DEF CGA
<1>4. {TEXT, STACK, PGDIR, PGTABLE} \cap BSS = {}  BY StartAssumption
<1>5. /\ Boot = 7 /\ ELFHDR = 16 /\ CGA = 184  BY DEF Boot, ELFHDR, CGA
<1>6. /\ TEXT \in Kernel /\ STACK \in Kernel /\ PGDIR \in Kernel /\ PGTABLE \in Kernel
      /\ BSS \subseteq Kernel
  BY DEF Kernel
<1>7. /\ Kernel \subseteq Page /\ 0 \in Page /\ Boot \in Page /\ ELFHDR \in Page /\ CGA \in Page
  BY DEF Page
<1>8. Kernel \subseteq Nat /\ \A p \in Kernel : p >= 256
  BY <1>1
<1> QED  BY <1>2, <1>3, <1>4, <1>5, <1>6, <1>7, <1>8

LEMMA Division ==
  ASSUME NEW a \in Nat, NEW u \in Nat \ {0}
  PROVE  a = u * (a \div u) + (a % u) /\ a \div u \in Nat /\ a % u \in 0 .. u - 1
<1>1. a = u * (a \div u) + (a % u)  BY SMT
<1>2. a \div u \in Nat  BY SMT
<1>3. a % u \in 0 .. u - 1  BY SMT
<1> QED  BY <1>1, <1>2, <1>3

LEMMA Small ==
  ASSUME NEW u \in Nat \ {0}, NEW t \in Int, u * t < u, u * t > -u
  PROVE  t = 0
<1>1. CASE t >= 1
  <2>1. u * (t - 1) >= 0  BY <1>1, SMT
  <2>2. u * (t - 1) = u * t - u  BY SMT
  <2> QED  BY <2>1, <2>2
<1>2. CASE t <= -1
  <2>1. u * (-1 - t) >= 0  BY <1>2, SMT
  <2>2. u * (-1 - t) = -u - u * t  BY SMT
  <2> QED  BY <2>1, <2>2
<1> QED  BY <1>1, <1>2

\* Division with remainder has one result.
LEMMA Unique ==
  ASSUME NEW u \in Nat \ {0}, NEW q \in Nat, NEW p \in 0 .. u - 1
  PROVE  (p + u * q) \div u = q /\ (p + u * q) % u = p
<1> DEFINE a == p + u * q
<1>0. u * q \in Nat  BY SMT
<1>1. a \in Nat  BY <1>0
<1>2. a = u * (a \div u) + (a % u) /\ a \div u \in Nat /\ a % u \in 0 .. u - 1
  BY <1>1, Division
<1> DEFINE k == a \div u
           t == k - q
<1>3. t \in Int /\ k \in Int  BY <1>2
<1>4. u * t = u * k - u * q
  <2> HIDE DEF k
  <2> QED  BY <1>3, SMT
<1>5. u * t = p - (a % u)
  <2>1. u * k \in Int  BY <1>3
  <2> QED  BY <1>0, <1>2, <1>4, <2>1
<1>6. u * t < u /\ u * t > -u  BY <1>2, <1>5
<1>7. t = 0
  <2> HIDE DEF t
  <2> QED  BY <1>3, <1>6, Small
<1>8. a \div u = q  BY <1>2, <1>7
<1>9. a % u = p  BY <1>0, <1>2, <1>8
<1> QED  BY <1>8, <1>9

\* Both mappings lead to the same physical pages; the low one may not be
\* written.
LEMMA Tables ==
  ASSUME NEW p \in 0 .. NPTENTRIES - 1
  PROVE  /\ PDX(p + KERNBASE) = PDX(KERNBASE) /\ PTX(p + KERNBASE) = p
         /\ PDX(p) = 0 /\ PTX(p) = p
         /\ PDX(KERNBASE) \in 0 .. NPDENTRIES - 1 /\ PDX(KERNBASE) # 0
<1> DEFINE u == NPTENTRIES
           q == KERNBASE \div NPTENTRIES
<1>1. u \in Nat \ {0} /\ NPDENTRIES \in Nat /\ KERNBASE \in Nat \ {0} /\ KERNBASE % u = 0
  BY StartAssumption
<1>2. KERNBASE = u * q /\ q \in Nat  BY <1>1, Division
<1>3. q < NPDENTRIES  BY StartAssumption
<1>4. q # 0  BY <1>1, <1>2
<1>0. p \in 0 .. u - 1  OBVIOUS
<1>5. (p + u * q) \div u = q /\ (p + u * q) % u = p
  <2> HIDE DEF u, q
  <2> QED  BY <1>0, <1>1, <1>2, Unique
<1>6. (p + u * 0) \div u = 0 /\ (p + u * 0) % u = p
  <2> HIDE DEF u
  <2> QED  BY <1>0, <1>1, Unique
<1>7. u * 0 = 0 /\ p + 0 = p  BY <1>1
<1>8. q % NPDENTRIES = q /\ 0 % NPDENTRIES = 0  BY <1>1, <1>2, <1>3, SMT
<1>9. KERNBASE \div u = q  OBVIOUS
<1> QED  BY <1>1, <1>2, <1>3, <1>4, <1>5, <1>6, <1>7, <1>8 DEF PDX, PTX

\* Under paging, a high address reaches its page to read and to write.
LEMMA WalkHigh ==
  ASSUME NEW p \in 0 .. NPTENTRIES - 1, cr3 = PGDIR, NEW rights \in SUBSET {"P", "W"}
  PROVE  Walk(p + KERNBASE, rights) = p
<1>1. /\ PDX(p + KERNBASE) = PDX(KERNBASE) /\ PTX(p + KERNBASE) = p
      /\ PDX(KERNBASE) \in 0 .. NPDENTRIES - 1 /\ PDX(KERNBASE) # 0
  BY Tables
<1>2. RELOC(PGTABLE + KERNBASE) = PGTABLE  BY Pages DEF RELOC
<1>3. entry_pgdir[PDX(KERNBASE)] = Entry(PGTABLE, {"P", "W"})  BY <1>1, <1>2 DEF entry_pgdir
<1>4. entry_pgtable[p] = Entry(p, {"P", "W"})  BY DEF entry_pgtable
<1> QED  BY <1>1, <1>3, <1>4 DEF Walk, Entry

\* A low address reaches its page to read.
LEMMA WalkLow ==
  ASSUME NEW p \in 0 .. NPTENTRIES - 1, cr3 = PGDIR
  PROVE  Walk(p, {"P"}) = p /\ Walk(p, {"P", "W"}) = NULL
<1>1. PDX(p) = 0 /\ PTX(p) = p /\ 0 \in 0 .. NPDENTRIES - 1
  BY Tables, StartAssumption
<1>2. RELOC(PGTABLE + KERNBASE) = PGTABLE  BY Pages DEF RELOC
<1>3. entry_pgdir[0] = Entry(PGTABLE, {"P"})  BY <1>1, <1>2 DEF entry_pgdir
<1>4. entry_pgtable[p] = Entry(p, {"P", "W"})  BY DEF entry_pgtable
<1> QED  BY <1>1, <1>3, <1>4 DEF Walk, Entry

\* With line 20 on, every page is itself; without, those below 1 MB are.
LEMMA WireOpen == a20 => \A p : Wire(p) = p
BY DEF Wire

LEMMA WireBelow == \A p \in 0 .. 255 : Wire(p) = p
<1> SUFFICES ASSUME NEW p \in 0 .. 255  PROVE Wire(p) = p  OBVIOUS
<1>1. p \div 256 = 0 /\ 0 % 2 = 0  BY SMT
<1> QED  BY <1>1 DEF Wire, Line20

\* A step whose accesses reach their homes is not wild.
LEMMA TouchRight ==
  ASSUME ~wild, NEW reads, NEW writes, Touch(reads, writes),
         \A r \in reads : Reaches(r.va, {"P"}) = r.home,
         \A w \in writes : Reaches(w.va, {"P", "W"}) = w.home
  PROVE  ~wild'
BY DEF Touch

\* What code at its linked address touches.
LEMMA HighReaches ==
  ASSUME pg, cr3 = PGDIR, a20, NEW p \in 0 .. NPTENTRIES - 1, NEW rights \in SUBSET {"P", "W"}
  PROVE  Reaches(p + KERNBASE, rights) = p
<1>1. Walk(p + KERNBASE, rights) = p /\ p # NULL  BY WalkHigh, StartAssumption
<1> QED  BY <1>1, WireOpen DEF Reaches

\* Steps that access nothing else but what they should.
LEMMA CodeRight ==
  ASSUME pg, cr3 = PGDIR, a20, ~wild, NEW reads, NEW writes, Code(reads, writes),
         \A r \in reads \cup writes : \E p \in 0 .. NPTENTRIES - 1 : r = [va |-> p + KERNBASE, home |-> p]
  PROVE  ~wild'
<1>1. \A r \in {High(TEXT)} \cup reads \cup {High(STACK)} \cup writes :
        \E p \in 0 .. NPTENTRIES - 1 : r = [va |-> p + KERNBASE, home |-> p]
  BY Pages DEF High
<1>2. \A r \in {High(TEXT)} \cup reads \cup {High(STACK)} \cup writes :
        Reaches(r.va, {"P"}) = r.home /\ Reaches(r.va, {"P", "W"}) = r.home
  BY <1>1, HighReaches
<1> QED  BY <1>2 DEF Code, Touch

\* Nor is one that prints.
LEMMA PrintRight ==
  ASSUME pg, cr3 = PGDIR, a20, ~wild, Prints, crt_buf = KERNBASE + CGA
  PROVE  ~wild'
<1>1. \A r \in Statics : \E p \in 0 .. NPTENTRIES - 1 : r = [va |-> p + KERNBASE, home |-> p]
  BY Pages DEF Statics, High
<1>2. CGA + KERNBASE = KERNBASE + CGA /\ CGA \in 0 .. NPTENTRIES - 1  BY Pages
<1>3. \A r \in Statics \cup (Statics \cup {[va |-> crt_buf, home |-> CGA]}) :
        \E p \in 0 .. NPTENTRIES - 1 : r = [va |-> p + KERNBASE, home |-> p]
  BY <1>1, <1>2
<1> QED  BY <1>3, CodeRight DEF Prints

\* Before paging.
LEMMA LowReaches ==
  ASSUME ~pg, NEW p, a20 \/ p \in 0 .. 255, NEW rights
  PROVE  Reaches(p, rights) = p
BY WireOpen, WireBelow DEF Reaches

-----------------------------------------------------------------------------
(* The invariant.                                                          *)

LEMMA InitHolds == Init => IInv
<1> SUFFICES ASSUME Init  PROVE IInv  OBVIOUS
<1>1. BusPart  BY DEF Init, BusPart, Early, Bytes
<1>2. PagingPart  BY DEF Init, PagingPart, Loading
<1>3. CallPart  BY DEF Init, CallPart, Loading, Returning, Warning
<1>4. StaticPart
  BY StartAssumption DEF Init, StaticPart, MayFail, Reporting, Warning
<1>5. MemPart
  <2>1. pc = "seta20.1" /\ mem = [p \in Page |-> IF p = Boot THEN "boot" ELSE "bios"]  BY DEF Init
  <2>2. mem[Boot] = "boot"  BY <2>1, Pages
  <2>3. mem \in [Page -> {"bios", "boot", "elf", "file", "zero"}]  BY <2>1
  <2> QED
    BY <2>1, <2>2, <2>3 DEF MemPart, MemoryIsRight, Low32, InC, MayFail, Reporting, Warning
<1>6. AccessesAreRight  BY DEF Init, AccessesAreRight
<1> QED  BY <1>1, <1>2, <1>3, <1>4, <1>5, <1>6 DEF IInv

\* The steps before C code.
BootStep == \/ seta20_1 \/ seta20_2 \/ protcseg \/ ReadHeaders \/ LoadKernel
            \/ SetCr3 \/ SetCr0 \/ JumpUp \/ relocated

BootPlaces == Loading \cup Low32

\* The accesses of those steps: all at the addresses where things are.
LEMMA BootTouches ==
  ASSUME BootStep, ~relocated
  PROVE  \E pages1, pages2 \in SUBSET Page :
           /\ Touch({Low(p) : p \in pages1}, {Low(p) : p \in pages2})
           /\ pc \in Early => pages1 \cup pages2 \subseteq {Boot, ELFHDR}
           /\ pc = "jump" => pages1 = {TEXT} /\ pages2 = {}
<1> DEFINE Good(pages1, pages2) ==
      /\ Touch({Low(p) : p \in pages1}, {Low(p) : p \in pages2})
      /\ pc \in Early => pages1 \cup pages2 \subseteq {Boot, ELFHDR}
      /\ pc = "jump" => pages1 = {TEXT} /\ pages2 = {}
<1> SUFFICES \E pages1, pages2 \in SUBSET Page : Good(pages1, pages2)  OBVIOUS
<1>0. \A a : {Low(p) : p \in {a}} = {Low(a)}  OBVIOUS
<1>1. CASE seta20_1 \/ seta20_2
  <2>1. {Low(p) : p \in {Boot}} = {Low(Boot)} /\ {Low(p) : p \in {}} = {}  OBVIOUS
  <2>2. Touch({Low(Boot)}, {}) /\ pc # "jump"  BY <1>1 DEF seta20_1, seta20_2, Goto
  <2>3. Good({Boot}, {})  BY <2>1, <2>2
  <2>4. {Boot} \in SUBSET Page /\ {} \in SUBSET Page  BY Pages
  <2> HIDE DEF Good
  <2> QED  BY <2>3, <2>4
<1>2. CASE protcseg
  <2>1. Touch({Low(Boot)}, {Low(Boot)}) /\ pc # "jump"  BY <1>2 DEF protcseg, Goto
  <2>2. Good({Boot}, {Boot})  BY <1>0, <2>1
  <2>3. {Boot} \in SUBSET Page  BY Pages
  <2> HIDE DEF Good
  <2> QED  BY <2>2, <2>3
<1>3. CASE ReadHeaders
  <2>1. Touch({Low(Boot)}, {Low(Boot), Low(ELFHDR)}) /\ pc # "jump"  BY <1>3 DEF ReadHeaders, Goto
  <2>2. {Low(p) : p \in {Boot, ELFHDR}} = {Low(Boot), Low(ELFHDR)}  OBVIOUS
  <2>3. Good({Boot}, {Boot, ELFHDR})  BY <1>0, <2>1, <2>2
  <2>4. {Boot} \in SUBSET Page /\ {Boot, ELFHDR} \in SUBSET Page  BY Pages
  <2> HIDE DEF Good
  <2> QED  BY <2>3, <2>4
<1>4. CASE LoadKernel
  <2>1. /\ Touch({Low(Boot), Low(ELFHDR)}, {Low(Boot)} \cup {Low(p) : p \in Kernel})
        /\ pc = "load"
    BY <1>4 DEF LoadKernel, Goto
  <2>2. /\ {Low(p) : p \in {Boot, ELFHDR}} = {Low(Boot), Low(ELFHDR)}
        /\ {Low(p) : p \in {Boot} \cup Kernel} = {Low(Boot)} \cup {Low(p) : p \in Kernel}
    OBVIOUS
  <2>3. Good({Boot, ELFHDR}, {Boot} \cup Kernel)  BY <2>1, <2>2 DEF Early
  <2>4. {Boot, ELFHDR} \in SUBSET Page /\ {Boot} \cup Kernel \in SUBSET Page  BY Pages
  <2> HIDE DEF Good
  <2> QED  BY <2>3, <2>4
<1>5. CASE SetCr3
  <2>1. Touch({Low(TEXT)}, {Low(0)}) /\ pc = "entry"  BY <1>5 DEF SetCr3, Goto
  <2>2. Good({TEXT}, {0})  BY <1>0, <2>1 DEF Early
  <2>3. {TEXT} \in SUBSET Page /\ {0} \in SUBSET Page  BY Pages
  <2> HIDE DEF Good
  <2> QED  BY <2>2, <2>3
<1>6. CASE SetCr0 \/ JumpUp
  <2>1. {Low(p) : p \in {TEXT}} = {Low(TEXT)} /\ {Low(p) : p \in {}} = {}  OBVIOUS
  <2>2. Touch({Low(TEXT)}, {}) /\ pc \in {"cr0", "jump"}  BY <1>6 DEF SetCr0, JumpUp, Goto
  <2>3. Good({TEXT}, {})  BY <2>1, <2>2 DEF Early
  <2>4. {TEXT} \in SUBSET Page /\ {} \in SUBSET Page  BY Pages
  <2> HIDE DEF Good
  <2> QED  BY <2>3, <2>4
<1> QED  BY <1>1, <1>2, <1>3, <1>4, <1>5, <1>6 DEF BootStep

LEMMA BootAccess == IInv /\ BootStep => ~wild'
<1> SUFFICES ASSUME IInv, BootStep  PROVE ~wild'  OBVIOUS
<1> USE DEF IInv, AccessesAreRight
<1>1. Boot \in 0 .. 255 /\ ELFHDR \in 0 .. 255  BY Pages
<1>2. CASE ~relocated
  <2>1. PICK pages1, pages2 \in SUBSET Page :
          /\ Touch({Low(p) : p \in pages1}, {Low(p) : p \in pages2})
          /\ pc \in Early => pages1 \cup pages2 \subseteq {Boot, ELFHDR}
          /\ pc = "jump" => pages1 = {TEXT} /\ pages2 = {}
    BY <1>2, BootTouches
  <2>2. /\ \A p \in pages1 : Reaches(p, {"P"}) = p
        /\ \A p \in pages2 : Reaches(p, {"P", "W"}) = p
    <3>1. CASE pc \in Early
      <4>1. ~pg  BY <3>1 DEF PagingPart, Early, Loading
      <4>2. pages1 \subseteq 0 .. 255 /\ pages2 \subseteq 0 .. 255  BY <1>1, <2>1, <3>1
      <4> QED  BY <4>1, <4>2, LowReaches
    <3>2. CASE pc = "jump"
      <4>1. pg /\ cr3 = PGDIR /\ a20  BY <3>2 DEF PagingPart, Loading, BusPart, Early
      <4>2. Walk(TEXT, {"P"}) = TEXT /\ TEXT # NULL  BY <4>1, WalkLow, Pages, StartAssumption
      <4>3. Reaches(TEXT, {"P"}) = TEXT  BY <4>1, <4>2, WireOpen DEF Reaches
      <4> QED  BY <2>1, <3>2, <4>3
    <3>3. CASE pc \notin Early /\ pc # "jump"
      <4>1. ~pg /\ a20
        BY <1>2, <3>3 DEF BootStep, seta20_1, seta20_2, protcseg, ReadHeaders, LoadKernel, SetCr3, SetCr0,
                          JumpUp, Goto, PagingPart, Loading, BusPart, Early
      <4> QED  BY <4>1, LowReaches
    <3> QED  BY <3>1, <3>2, <3>3
  <2>3. /\ \A r \in {Low(p) : p \in pages1} : Reaches(r.va, {"P"}) = r.home
        /\ \A w \in {Low(p) : p \in pages2} : Reaches(w.va, {"P", "W"}) = w.home
    BY <2>2 DEF Low
  <2> QED  BY <2>1, <2>3, TouchRight
<1>5. CASE relocated
  <2>1. pg /\ cr3 = PGDIR /\ a20
    BY <1>5 DEF relocated, Goto, PagingPart, Loading, BusPart, Early
  <2>2. Code({}, {})  BY <1>5 DEF relocated, Code
  <2> QED  BY <2>1, <2>2, CodeRight
<1> QED  BY <1>2, <1>5

LEMMA BootKeeps == IInv /\ BootStep => IInv'
<1> SUFFICES ASSUME IInv, BootStep  PROVE IInv'  OBVIOUS
<1> USE DEF IInv
<1>1. BusPart'
  <2>1. CASE seta20_1
    <3>1. pc' = "seta20.2" /\ kbc' = "d1" /\ a20' = a20 /\ expects' = expects
      BY <2>1 DEF seta20_1, Goto
    <3> QED  BY <3>1 DEF BusPart, Early, Bytes
  <2>2. CASE seta20_2
    <3>1. /\ pc = "seta20.2" /\ pc' = "protcseg" /\ kbc = NULL /\ kbc' = "df"
          /\ a20' = a20 /\ expects' = expects
      BY <2>2 DEF seta20_2, Goto
    <3>2. NULL # "d1"  BY StartAssumption DEF Bytes
    <3>3. expects  BY <3>1, <3>2 DEF BusPart
    <3>4. expects'  BY <3>1, <3>3
    <3> QED  BY <3>1, <3>4 DEF BusPart, Early, Bytes
  <2>3. CASE protcseg  BY <2>3 DEF protcseg, Goto, bus, BusPart, Early
  <2>4. CASE ReadHeaders
    <3>1. pc = "bootmain" /\ pc' = "load" /\ kbc = NULL /\ bus' = bus
      BY <2>4 DEF ReadHeaders, Goto
    <3>2. NULL # "df"  BY StartAssumption DEF Bytes
    <3>3. a20  BY <3>1, <3>2 DEF BusPart
    <3> QED  BY <3>1, <3>3 DEF bus, BusPart, Early
  <2>5. CASE LoadKernel \/ SetCr3 \/ SetCr0 \/ JumpUp \/ relocated
    <3>1. pc \in {"load", "entry", "cr0", "jump", "relocated"}
          /\ pc' \in {"entry", "cr0", "jump", "relocated", "memset"} /\ bus' = bus
      BY <2>5 DEF LoadKernel, SetCr3, SetCr0, JumpUp, relocated, Goto
    <3> QED  BY <3>1 DEF bus, BusPart, Early
  <2> QED  BY <2>1, <2>2, <2>3, <2>4, <2>5 DEF BootStep
<1>2. PagingPart'
  <2>1. CASE seta20_1 \/ seta20_2 \/ protcseg \/ ReadHeaders \/ LoadKernel
    <3>1. pc \in Loading /\ pc' \in Loading \cup {"entry"} /\ paging' = paging
      BY <2>1 DEF seta20_1, seta20_2, protcseg, ReadHeaders, LoadKernel, Goto, Loading
    <3> QED  BY <3>1 DEF PagingPart, paging
  <2>2. CASE SetCr3
    <3>1. pc = "entry" /\ pc' = "cr0" /\ cr3' = PGDIR /\ pg' = pg
      BY <2>2, Pages DEF SetCr3, Goto, RELOC
    <3> QED  BY <3>1 DEF PagingPart, Loading
  <2>3. CASE SetCr0
    <3>1. pc = "cr0" /\ pc' = "jump" /\ pg' = TRUE /\ cr3' = cr3  BY <2>3 DEF SetCr0, Goto
    <3> QED  BY <3>1 DEF PagingPart, Loading
  <2>4. CASE JumpUp \/ relocated
    <3>1. pc \in {"jump", "relocated"} /\ pc' \in {"relocated", "memset"} /\ paging' = paging
      BY <2>4 DEF JumpUp, relocated, Goto
    <3> QED  BY <3>1 DEF PagingPart, paging, Loading
  <2> QED  BY <2>1, <2>2, <2>3, <2>4 DEF BootStep
<1>3. /\ pc \in BootPlaces \ {"memset"} /\ pc' \in BootPlaces \cup {"memset"} /\ ret' = ret
      /\ statics' = statics /\ locals' = locals
  BY DEF BootStep, seta20_1, seta20_2, protcseg, ReadHeaders, LoadKernel, SetCr3, SetCr0, JumpUp,
         relocated, Goto, BootPlaces, Loading, Low32
<1>4. pc' \notin MayFail /\ pc' \notin Returning
  BY <1>3 DEF BootPlaces, Loading, Low32, MayFail, Reporting, Warning, Returning
<1>5. CallPart'
  BY <1>3, <1>4 DEF CallPart, BootPlaces, InC
<1>6. StaticPart'  BY <1>3, <1>4 DEF StaticPart, statics, locals
<1>7. MemPart'
  <2>1. CASE seta20_1 \/ seta20_2 \/ protcseg
    BY <2>1 DEF seta20_1, seta20_2, protcseg, Goto, MemPart, MemoryIsRight, Loading, Low32, InC, MayFail,
                Reporting, Warning
  <2>2. CASE ReadHeaders
    <3>1. Wire(ELFHDR) = ELFHDR  BY Pages, WireBelow
    <3>2. mem' = [p \in Page |-> IF p = ELFHDR THEN "elf" ELSE mem[p]]
      BY <2>2, <3>1 DEF ReadHeaders, Fill
    <3>3. pc = "bootmain" /\ pc' = "load"  BY <2>2 DEF ReadHeaders, Goto
    <3> QED
      BY <3>2, <3>3, Pages DEF MemPart, MemoryIsRight, Loading, Low32, InC, MayFail, Reporting, Warning
  <2>3. CASE LoadKernel
    <3>1. pc = "load" /\ pc' = "entry" /\ a20  BY <2>3 DEF LoadKernel, Goto, BusPart, Early
    <3>2. {Wire(q) : q \in Kernel} = Kernel  BY <3>1, WireOpen
    <3>3. mem' = [p \in Page |-> IF p \in Kernel THEN "file" ELSE mem[p]]
      BY <2>3, <3>2 DEF LoadKernel, Fill
    <3> QED
      BY <3>1, <3>3, Pages DEF MemPart, MemoryIsRight, Loading, Low32, InC, MayFail, Reporting, Warning
  <2>4. CASE SetCr3 \/ SetCr0 \/ JumpUp \/ relocated
    <3>1. mem' = mem /\ pc \in Low32 /\ pc' \in Low32 \cup {"memset"}
      BY <2>4 DEF SetCr3, SetCr0, JumpUp, relocated, Goto, Low32
    <3> QED
      BY <3>1 DEF MemPart, MemoryIsRight, Loading, Low32, InC, MayFail, Reporting, Warning
  <2> QED  BY <2>1, <2>2, <2>3, <2>4 DEF BootStep
<1>8. AccessesAreRight'  BY BootAccess DEF AccessesAreRight
<1> QED  BY <1>1, <1>2, <1>5, <1>6, <1>7, <1>8

LEMMA KbcKeeps == IInv /\ KbcTakes => IInv'
<1> SUFFICES ASSUME IInv, KbcTakes  PROVE IInv'  OBVIOUS
<1> USE DEF IInv
<1>1. /\ kbc # NULL /\ kbc' = NULL /\ pc' = pc /\ ret' = ret /\ paging' = paging /\ mem' = mem
      /\ statics' = statics /\ locals' = locals /\ wild' = wild
      /\ a20' = (a20 \/ (expects /\ kbc = "df")) /\ expects' = (kbc = "d1")
  BY DEF KbcTakes
<1>2. pc \in Early  BY <1>1 DEF BusPart
<1>3. BusPart'
  <2>1. a20' \in BOOLEAN /\ expects' \in BOOLEAN  BY <1>1
  <2>2. pc = "seta20.2" => expects'  BY <1>1 DEF BusPart
  <2>3. pc \in {"protcseg", "bootmain"} => a20'  BY <1>1 DEF BusPart
  <2> QED  BY <1>1, <1>2, <2>1, <2>2, <2>3 DEF BusPart
<1>4. PagingPart' /\ CallPart' /\ StaticPart' /\ AccessesAreRight'
  BY <1>1 DEF PagingPart, CallPart, StaticPart, AccessesAreRight, paging, statics, locals
<1>5. MemPart'  BY <1>1 DEF MemPart, MemoryIsRight
<1> QED  BY <1>3, <1>4, <1>5

\* The steps of C code, and of those the ones after cons_init.
Printing == \/ Hello \/ Entering \/ Leaving \/ Welcome \/ Prompt \/ Command
            \/ Report \/ WarnPrint \/ WarnReturn

LEMMA Printers ==
  ASSUME IInv, Printing \/ Failing
  PROVE  /\ pc \in MayFail /\ pc' \in MayFail
         /\ bus' = bus /\ paging' = paging /\ mem' = mem /\ crt_buf' = crt_buf
         /\ panicstr' \in {NULL} \cup Messages /\ fmt' \in {NULL} \cup Messages
         /\ Prints \/ (\E msg \in Messages : Code(Statics, Statics)) \/ Code({}, {})
<1> USE DEF IInv
<1>1. CASE Printing
  <2>1. /\ pc \in MayFail /\ Prints
        /\ bus' = bus /\ paging' = paging /\ mem' = mem /\ statics' = statics /\ fmt' = fmt
    BY <1>1 DEF Printing, Hello, Entering, Leaving, Welcome, Prompt, Command, Report, WarnPrint,
                WarnReturn, Goto, MayFail, Reporting, Warning, locals
  <2>2. pc' \in MayFail
    <3>1. CASE Leaving \/ WarnReturn
      <4>1. pc \in Returning /\ pc' = Head(ret)
        BY <3>1 DEF Leaving, WarnReturn, Goto, Returning, Warning
      <4>2. ret \in Seq(MayFail) /\ ret # <<>>  BY <4>1 DEF CallPart
      <4> QED  BY <4>1, <4>2
    <3>2. CASE ~(Leaving \/ WarnReturn)
      BY <1>1, <3>2 DEF Printing, Hello, Entering, Welcome, Prompt, Command, Report, WarnPrint,
                Goto, MayFail, Reporting, Warning
    <3> QED  BY <3>1, <3>2
  <2> QED  BY <2>1, <2>2 DEF StaticPart, statics
<1>2. CASE Warn
  <2>1. /\ pc \in MayFail /\ pc' = "warn.head" /\ Code({}, {})
        /\ bus' = bus /\ paging' = paging /\ mem' = mem /\ statics' = statics /\ fmt' = fmt
    BY <1>2 DEF Warn, locals
  <2> QED  BY <2>1 DEF StaticPart, statics, MayFail, Warning
<1>3. ASSUME NEW msg \in Messages, Panic(msg)
      PROVE  /\ pc \in MayFail /\ pc' \in {"monitor", "panic.head"} /\ Code(Statics, Statics)
             /\ bus' = bus /\ paging' = paging /\ mem' = mem /\ crt_buf' = crt_buf
             /\ panicstr' \in {panicstr, msg} /\ fmt' \in {fmt, msg}
  BY <1>3 DEF Panic
<1>4. CASE \E msg \in Messages : Panic(msg)
  BY <1>3, <1>4 DEF StaticPart, MayFail, Reporting
<1> QED  BY <1>1, <1>2, <1>4 DEF Failing

\* Arithmetic of a stack that loses one entry.
LEMMA Shorter ==
  ASSUME NEW k \in Nat, NEW j, j = k - 1, 1 < k
  PROVE  j # 0
BY SMT

\* Nothing returns to where a panic or a warning cannot have been called.
LEMMA CallsKept == IInv /\ (Printing \/ Failing) => CallPart'
<1> SUFFICES ASSUME IInv, Printing \/ Failing  PROVE CallPart'  OBVIOUS
<1> USE DEF IInv
<1>1. pc \in MayFail /\ pc' \in MayFail  BY Printers
<1>2. ret \in Seq(MayFail) /\ Len(ret) \in Nat  BY DEF CallPart
<1> DEFINE Deep(q) == \A i \in DOMAIN q : q[i] \in Returning => i < Len(q)
<1>3. Deep(ret)  BY DEF CallPart
<1> SUFFICES ret' \in Seq(MayFail) /\ (pc' \in Returning => ret' # <<>>) /\ Deep(ret')
  BY <1>1 DEF CallPart, InC
<1>4. ASSUME NEW p \in MayFail, p \in Returning => ret # <<>>
      PROVE  <<p>> \o ret \in Seq(MayFail) /\ <<p>> \o ret # <<>> /\ Deep(<<p>> \o ret)
  <2> DEFINE new == <<p>> \o ret
  <2>1. new \in Seq(MayFail) /\ Len(new) = Len(ret) + 1  BY <1>2
  <2>2. new[1] = p /\ \A i \in 2 .. Len(new) : new[i] = ret[i - 1]  BY <1>2
  <2>3. ASSUME NEW i \in DOMAIN new, new[i] \in Returning  PROVE i < Len(new)
    <3>1. i \in 1 .. Len(new)  BY <2>1
    <3>2. CASE i = 1
      <4>1. ret # <<>>  BY <1>4, <2>2, <2>3, <3>2
      <4>2. Len(ret) > 0  BY <1>2, <4>1
      <4> QED  BY <1>2, <2>1, <3>2, <4>2
    <3>3. CASE i # 1
      <4>1. i - 1 \in DOMAIN ret /\ ret[i - 1] \in Returning
        BY <1>2, <2>1, <2>2, <2>3, <3>1, <3>3
      <4>2. i - 1 < Len(ret)  BY <1>3, <4>1
      <4> QED  BY <1>2, <2>1, <3>1, <4>2
    <3> QED  BY <3>2, <3>3
  <2>4. new # <<>>  BY <1>2, <2>1
  <2> QED  BY <2>1, <2>3, <2>4
<1>5. ASSUME ret # <<>>
      PROVE  /\ Tail(ret) \in Seq(MayFail) /\ Deep(Tail(ret))
             /\ Head(ret) \in Returning => Tail(ret) # <<>>
  <2> DEFINE new == Tail(ret)
  <2>1. new \in Seq(MayFail) /\ Len(new) = Len(ret) - 1 /\ Len(ret) > 0  BY <1>2, <1>5
  <2>2. \A i \in 1 .. Len(new) : new[i] = ret[i + 1]  BY <1>2, <1>5
  <2>3. ASSUME NEW i \in DOMAIN new, new[i] \in Returning  PROVE i < Len(new)
    <3>1. i \in 1 .. Len(new)  BY <2>1
    <3>2. i + 1 \in DOMAIN ret /\ ret[i + 1] \in Returning  BY <1>2, <2>1, <2>2, <2>3, <3>1
    <3>3. i + 1 < Len(ret)  BY <1>3, <3>2
    <3> QED  BY <1>2, <2>1, <3>1, <3>3
  <2>4. ASSUME Head(ret) \in Returning  PROVE new # <<>>
    <3>1. 1 \in DOMAIN ret /\ ret[1] \in Returning  BY <1>2, <2>1, <2>4
    <3>2. 1 < Len(ret)  BY <1>3, <3>1
    <3> HIDE DEF new
    <3>3. Len(ret) \in Nat  BY <1>2
    <3>4. Len(new) = Len(ret) - 1  BY <2>1
    <3>5. Len(new) # 0  BY <3>2, <3>3, <3>4, Shorter
    <3> QED  BY <3>5
  <2> QED  BY <2>1, <2>3, <2>4
<1>6. <<"monitor">> \in Seq(MayFail) /\ <<"monitor">> # <<>> /\ Deep(<<"monitor">>)
  <2>1. "monitor" \in MayFail /\ "monitor" \notin Returning  BY DEF MayFail, Returning, Warning
  <2>2. <<"monitor">>[1] = "monitor" /\ Len(<<"monitor">>) = 1 /\ DOMAIN <<"monitor">> = {1}
    OBVIOUS
  <2>3. <<"monitor">> \in Seq(MayFail) /\ <<"monitor">> # <<>>  BY <2>1
  <2>4. Deep(<<"monitor">>)  BY <2>1, <2>2
  <2> QED  BY <2>3, <2>4
<1> HIDE DEF Deep
<1>7. CASE Hello
  <2>1. ret' = <<"monitor">>  BY <1>7 DEF Hello
  <2> QED  BY <1>6, <2>1
<1>8. CASE Entering
  <2>1. pc \in Returning /\ ret # <<>> /\ ret' \in {ret, <<"leaving">> \o ret}
    BY <1>8 DEF Entering, CallPart, Returning
  <2>2. "leaving" \in MayFail  BY DEF MayFail
  <2> QED  BY <1>2, <1>3, <1>4, <2>1, <2>2
<1>9. CASE Leaving \/ WarnReturn
  <2>1. pc \in Returning /\ pc' = Head(ret) /\ ret' = Tail(ret)
    BY <1>9 DEF Leaving, WarnReturn, Goto, Returning, Warning
  <2>2. ret # <<>>  BY <2>1 DEF CallPart
  <2> QED  BY <1>5, <2>1, <2>2
<1>10. CASE Welcome \/ Prompt \/ Command \/ Report
  <2>1. ret' = ret /\ pc' \notin Returning
    BY <1>10 DEF Welcome, Prompt, Command, Report, Goto, Returning, Warning
  <2> QED  BY <1>2, <1>3, <2>1
<1>11. CASE WarnPrint
  <2>1. ret' = ret /\ pc \in Returning  BY <1>11 DEF WarnPrint, Goto, Returning, Warning
  <2> QED  BY <1>2, <1>3, <2>1 DEF CallPart
<1>12. CASE Warn
  <2>1. ret' = <<pc>> \o ret /\ (pc \in Returning => ret # <<>>)  BY <1>12 DEF Warn, CallPart
  <2> QED  BY <1>1, <1>4, <2>1
<1>13. CASE \E msg \in Messages : Panic(msg)
  <2>1. ret' = ret /\ pc' \in {"monitor", "panic.head"}  BY <1>13 DEF Panic
  <2> QED  BY <1>2, <1>3, <2>1 DEF Returning, Warning
<1> QED
  BY <1>7, <1>8, <1>9, <1>10, <1>11, <1>12, <1>13 DEF Printing, Failing

LEMMA PrintingKeeps == IInv /\ (Printing \/ Failing) => IInv'
<1> SUFFICES ASSUME IInv, Printing \/ Failing  PROVE IInv'  OBVIOUS
<1> USE DEF IInv
<1>1. /\ pc \in MayFail /\ pc' \in MayFail
      /\ bus' = bus /\ paging' = paging /\ mem' = mem /\ crt_buf' = crt_buf
      /\ panicstr' \in {NULL} \cup Messages /\ fmt' \in {NULL} \cup Messages
      /\ Prints \/ (\E msg \in Messages : Code(Statics, Statics)) \/ Code({}, {})
  BY Printers
<1>2. MayFail \cap (Loading \cup Low32 \cup Early \cup {"memset", "cons_init"}) = {}
      /\ MayFail \subseteq InC \ {"memset"}
  BY DEF MayFail, Reporting, Warning, Loading, Low32, Early, InC
<1>3. BusPart' /\ PagingPart'
  <2>1. "seta20.1" \in Early /\ "seta20.2" \in Early /\ "protcseg" \in Early /\ "bootmain" \in Early
        /\ "entry" \in Low32 /\ "cr0" \in Low32
    BY DEF Early, Low32
  <2>2. a20 /\ kbc = NULL /\ a20' = a20 /\ kbc' = kbc /\ expects' = expects
    BY <1>1, <1>2 DEF BusPart, bus
  <2>3. pg /\ cr3 = PGDIR /\ pg' = pg /\ cr3' = cr3  BY <1>1, <1>2, <2>1 DEF PagingPart, paging
  <2>4. BusPart'  BY <1>1, <1>2, <2>1, <2>2 DEF BusPart
  <2>5. PagingPart'  BY <1>1, <1>2, <2>1, <2>3 DEF PagingPart
  <2> QED  BY <2>4, <2>5
<1>4. StaticPart'  BY <1>1 DEF StaticPart
<1>5. MemPart'
  <2>1. \A p \in Kernel : mem[p] = IF p \in BSS THEN "zero" ELSE "file"
    BY <1>1, <1>2 DEF MemPart, MemoryIsRight
  <2>2. pc' \notin Loading /\ pc' # "load" /\ pc' \notin Low32 \cup {"memset"}
    BY <1>1, <1>2 DEF Loading
  <2> QED  BY <1>1, <2>1, <2>2 DEF MemPart, MemoryIsRight
<1>6. ~wild'
  <2>1. pg /\ cr3 = PGDIR /\ a20 /\ ~wild /\ crt_buf = KERNBASE + CGA
    <3>1. pc \notin Loading \cup {"entry", "cr0"} /\ pc \notin Early
      BY <1>1, <1>2 DEF Low32
    <3> QED  BY <1>1, <3>1 DEF PagingPart, BusPart, AccessesAreRight, StaticPart, Loading
  <2>2. \A r \in Statics : \E p \in 0 .. NPTENTRIES - 1 : r = [va |-> p + KERNBASE, home |-> p]
    BY Pages DEF Statics, High
  <2>3. CASE Prints  BY <2>1, <2>3, PrintRight
  <2>4. CASE Code(Statics, Statics)
    <3>1. \A r \in Statics \cup Statics :
            \E p \in 0 .. NPTENTRIES - 1 : r = [va |-> p + KERNBASE, home |-> p]
      BY <2>2
    <3> QED  BY <2>1, <2>4, <3>1, CodeRight
  <2>5. CASE Code({}, {})  BY <2>1, <2>5, CodeRight
  <2> QED  BY <1>1, <2>3, <2>4, <2>5
<1> QED  BY <1>3, <1>4, <1>5, <1>6, CallsKept DEF AccessesAreRight

\* Clearing the BSS and initialising the console.
LEMMA InitKeeps == IInv /\ (ClearBss \/ cons_init) => IInv'
<1> SUFFICES ASSUME IInv, ClearBss \/ cons_init  PROVE IInv'  OBVIOUS
<1> USE DEF IInv
<1>1. /\ pc \in {"memset", "cons_init"} /\ pc' \in {"cons_init", "hello"}
      /\ ret' = ret /\ bus' = bus /\ paging' = paging /\ fmt' = fmt
  BY DEF ClearBss, cons_init, Goto, locals
<1>2. a20 /\ pg /\ cr3 = PGDIR /\ ~wild
  BY <1>1 DEF BusPart, Early, PagingPart, Loading, AccessesAreRight
<1>3. BusPart' /\ PagingPart'
  BY <1>1 DEF BusPart, bus, Early, PagingPart, paging, Loading
<1>4. CallPart'
  BY <1>1 DEF CallPart, InC, MayFail, Returning, Warning
<1>5. StaticPart'
  <2>1. CASE ClearBss
    BY <1>1, <2>1 DEF ClearBss, Goto, StaticPart, MayFail, Reporting, Warning
  <2>2. CASE cons_init  BY <1>1, <2>2 DEF cons_init, StaticPart
  <2> QED  BY <2>1, <2>2
<1>6. MemPart'
  <2>1. CASE ClearBss
    <3>1. pc = "memset" /\ pc' = "cons_init"  BY <2>1 DEF ClearBss, Goto
    <3>2. {Wire(q) : q \in BSS} = BSS  BY <1>2, WireOpen
    <3>3. mem' = [p \in Page |-> IF p \in BSS THEN "zero" ELSE mem[p]]
      BY <2>1, <3>2 DEF ClearBss, Fill
    <3> QED
      BY <3>1, <3>3, Pages DEF MemPart, MemoryIsRight, Loading, Low32, InC
  <2>2. CASE cons_init
    <3>1. pc = "cons_init" /\ pc' = "hello" /\ mem' = mem  BY <2>2 DEF cons_init, Goto
    <3> QED  BY <3>1 DEF MemPart, MemoryIsRight, Loading, Low32, InC
  <2> QED  BY <2>1, <2>2
<1>7. ~wild'
  <2>1. \A r \in Statics \cup {High(CGA)} :
          \E p \in 0 .. NPTENTRIES - 1 : r = [va |-> p + KERNBASE, home |-> p]
    BY Pages DEF Statics, High
  <2>2. Code({}, Statics) \/ Code({}, Statics \cup {High(CGA)})
    BY DEF ClearBss, cons_init
  <2>3. CASE Code({}, Statics)
    <3>1. \A r \in {} \cup Statics : \E p \in 0 .. NPTENTRIES - 1 : r = [va |-> p + KERNBASE, home |-> p]
      BY <2>1
    <3> QED  BY <1>2, <2>3, <3>1, CodeRight
  <2>4. CASE Code({}, Statics \cup {High(CGA)})
    <3>1. \A r \in {} \cup (Statics \cup {High(CGA)}) :
            \E p \in 0 .. NPTENTRIES - 1 : r = [va |-> p + KERNBASE, home |-> p]
      BY <2>1
    <3> QED  BY <1>2, <2>4, <3>1, CodeRight
  <2> QED  BY <2>2, <2>3, <2>4
<1> QED  BY <1>3, <1>4, <1>5, <1>6, <1>7 DEF AccessesAreRight

LEMMA NextKeeps == IInv /\ [Next]_vars => IInv'
<1> SUFFICES ASSUME IInv, [Next]_vars  PROVE IInv'  OBVIOUS
<1>1. CASE UNCHANGED vars
  BY <1>1 DEF IInv, vars, bus, paging, statics, locals, history, BusPart, PagingPart, CallPart,
              StaticPart, MemPart, MemoryIsRight, AccessesAreRight
<1>2. CASE Next
  <2>1. BootStep \/ KbcTakes \/ ClearBss \/ cons_init \/ Printing \/ Failing
    BY <1>2 DEF Next, Machine, BootStep, Printing
  <2> QED  BY <2>1, BootKeeps, KbcKeeps, InitKeeps, PrintingKeeps
<1> QED  BY <1>1, <1>2

\* No access misses its home, from the boot sector's first instruction on.
THEOREM AccessTheorem == Spec => []AccessesAreRight
<1>1. IInv => AccessesAreRight  BY DEF IInv
<1> QED  BY <1>1, InitHolds, NextKeeps, PTL DEF Spec

\* What is loaded stays as it was loaded, but for the BSS.
THEOREM MemoryTheorem == Spec => []MemoryIsRight
<1>1. IInv => MemoryIsRight  BY DEF IInv, MemPart
<1> QED  BY <1>1, InitHolds, NextKeeps, PTL DEF Spec

\* The types.
THEOREM TypeCorrect == Spec => []TypeOK
<1>1. IInv => TypeOK
  <2> SUFFICES ASSUME IInv  PROVE TypeOK  OBVIOUS
  <2>1. \A i \in DOMAIN ret : ret[i] \in MayFail  BY DEF IInv, CallPart
  <2>2. pg \in BOOLEAN /\ cr3 \in {NULL, PGDIR}  BY DEF IInv, PagingPart
  <2> QED  BY <2>1, <2>2 DEF IInv, BusPart, CallPart, StaticPart, MemPart, TypeOK
<1> QED  BY <1>1, InitHolds, NextKeeps, PTL DEF Spec

-----------------------------------------------------------------------------
(* Panics and warnings.                                                    *)

(***************************************************************************)
(* Where control can still get to by returning: the place it is at, and    *)
(* those on the stack that only places that return lie above.  A panic     *)
(* returns nowhere, so what is below it on the stack is dead.              *)
(***************************************************************************)
Active == {i \in DOMAIN ret : pc \in Returning /\ \A j \in 1 .. i - 1 : ret[j] \in Returning}

Live == {pc} \cup {ret[i] : i \in Active}

\* How much of the report is out at a place in it.
Stage == [p \in Reporting |-> CASE p = "panic.head" -> 0 [] p = "panic.text" -> 1 [] OTHER -> 2]

\* A report that can go on has been printed up to just there, and is the one
\* of the first panic.
ReportPart ==
  /\ first \in {NULL} \cup Messages
  /\ pc \notin InC \ {"memset"} => first = NULL
  /\ IF first = NULL THEN reported = <<>> ELSE fmt = first
  /\ \A p \in Live \cap Reporting : first # NULL /\ Len(reported) = Stage[p]
  /\ PanicReportedOnce

\* Pushing a place, popping one, and staying give control no other place to
\* return to.
LEMMA LivePushed ==
  ASSUME ret \in Seq(MayFail), NEW p \in MayFail, ret' = <<p>> \o ret,
         p \in Returning => pc \in Returning
  PROVE  Live' \subseteq {pc', p} \cup Live
<1> SUFFICES ASSUME NEW i \in Active'  PROVE ret'[i] \in {p} \cup Live
  BY DEF Live
<1>1. /\ Len(ret') = Len(ret) + 1 /\ DOMAIN ret' = 1 .. Len(ret) + 1 /\ Len(ret) \in Nat
      /\ DOMAIN ret = 1 .. Len(ret)
      /\ ret'[1] = p /\ \A j \in 1 .. Len(ret) : ret'[j + 1] = ret[j]
  OBVIOUS
<1>2. i \in 1 .. Len(ret) + 1 /\ \A j \in 1 .. i - 1 : ret'[j] \in Returning  BY <1>1 DEF Active
<1>3. CASE i = 1  BY <1>1, <1>3
<1>4. CASE i # 1
  <2>1. i - 1 \in 1 .. Len(ret) /\ ret'[i] = ret[i - 1]
    <3>1. i - 1 \in 1 .. Len(ret) /\ (i - 1) + 1 = i  BY <1>1, <1>2, <1>4
    <3> QED  BY <1>1, <3>1
  <2>2. pc \in Returning
    <3>1. 1 \in 1 .. i - 1  BY <1>2, <1>4, <1>1
    <3> QED  BY <1>1, <1>2, <3>1
  <2>3. ASSUME NEW j \in 1 .. (i - 1) - 1  PROVE ret[j] \in Returning
    <3>1. j + 1 \in 1 .. i - 1 /\ j \in 1 .. Len(ret)  BY <1>1, <1>2
    <3> QED  BY <1>1, <1>2, <3>1
  <2>4. i - 1 \in Active  BY <1>1, <2>1, <2>2, <2>3 DEF Active
  <2> QED  BY <2>1, <2>4 DEF Live
<1> QED  BY <1>3, <1>4

LEMMA LivePopped ==
  ASSUME ret \in Seq(MayFail), ret # <<>>, pc \in Returning, pc' = Head(ret), ret' = Tail(ret)
  PROVE  Live' \subseteq Live
<1>1. /\ Len(ret) \in Nat \ {0} /\ DOMAIN ret = 1 .. Len(ret) /\ DOMAIN ret' = 1 .. Len(ret) - 1
      /\ pc' = ret[1] /\ \A j \in 1 .. Len(ret) - 1 : ret'[j] = ret[j + 1]
  OBVIOUS
<1>2. 1 \in Active  BY <1>1 DEF Active
<1>3. pc' \in Live  BY <1>1, <1>2 DEF Live
<1>4. ASSUME NEW i \in Active'  PROVE ret'[i] \in Live
  <2>1. /\ i \in 1 .. Len(ret) - 1 /\ ret[1] \in Returning
        /\ \A j \in 1 .. i - 1 : ret'[j] \in Returning
    BY <1>1 DEF Active
  <2>2. ASSUME NEW j \in 1 .. (i + 1) - 1  PROVE ret[j] \in Returning
    <3>1. CASE j = 1  BY <2>1, <3>1
    <3>2. CASE j # 1
      <4>1. j - 1 \in 1 .. i - 1 /\ j - 1 \in 1 .. Len(ret) - 1 /\ (j - 1) + 1 = j
        BY <1>1, <2>1, <3>2
      <4> QED  BY <1>1, <2>1, <4>1
    <3> QED  BY <3>1, <3>2
  <2>3. i + 1 \in DOMAIN ret  BY <1>1, <2>1
  <2>4. i + 1 \in Active  BY <2>2, <2>3 DEF Active
  <2> QED  BY <1>1, <2>1, <2>4 DEF Live
<1> QED  BY <1>3, <1>4 DEF Live

LEMMA LiveStays ==
  ASSUME ret' = ret, pc' \in Returning => pc \in Returning
  PROVE  Live' \subseteq {pc'} \cup Live
BY DEF Live, Active

\* Where nothing returns, nothing else is live.
LEMMA LiveAlone ==
  ASSUME pc' \notin Returning
  PROVE  Live' = {pc'}
BY DEF Live, Active

LEMMA ReportInit == Init => ReportPart
<1> SUFFICES ASSUME Init  PROVE ReportPart  OBVIOUS
<1>1. pc = "seta20.1" /\ first = NULL /\ reported = <<>>  BY DEF Init
<1>2. pc \notin InC \ {"memset"} /\ pc \notin Reporting /\ pc \notin Returning
  BY <1>1 DEF InC, MayFail, Reporting, Warning, Returning
<1>3. Live = {pc}  BY <1>2 DEF Live, Active
<1>4. PanicReportedOnce  BY <1>1, <1>2 DEF PanicReportedOnce
<1> QED  BY <1>1, <1>2, <1>3, <1>4 DEF ReportPart

\* Before the console can be used there is neither panic nor report.
LEMMA ReportBefore ==
  ASSUME IInv, ReportPart, BootStep \/ KbcTakes \/ ClearBss \/ cons_init
  PROVE  ReportPart'
<1>1. CASE KbcTakes
  BY <1>1 DEF KbcTakes, ReportPart, PanicReportedOnce, Live, Active, statics, locals, history
<1>2. CASE ~KbcTakes
  <2>1. /\ pc \in BootPlaces \cup {"memset", "cons_init"} /\ pc' \in BootPlaces \cup {"memset", "cons_init", "hello"}
        /\ fmt' = fmt /\ history' = history
    BY <1>2 DEF BootStep, seta20_1, seta20_2, protcseg, ReadHeaders, LoadKernel, SetCr3, SetCr0, JumpUp,
         relocated, ClearBss, cons_init, Goto, BootPlaces, Loading, Low32, locals
  <2>2. pc' \notin Returning /\ pc' \notin Reporting
    BY <2>1 DEF BootPlaces, Loading, Low32, Returning, Reporting, Warning
  <2>3. Live' \cap Reporting = {}  BY <2>2, LiveAlone
  <2>4. pc' \notin InC \ {"memset"} => pc \notin InC \ {"memset"}
    BY <1>2 DEF BootStep, seta20_1, seta20_2, protcseg, ReadHeaders, LoadKernel, SetCr3, SetCr0, JumpUp,
         relocated, ClearBss, cons_init, Goto, InC, MayFail, Reporting, Warning
  <2>5. pc' \in InC \ {"memset"} => panicstr' = first'
    <3>1. CASE ClearBss
      <4>1. pc = "memset" /\ panicstr' = NULL  BY <3>1 DEF ClearBss, Goto
      <4> QED  BY <2>1, <4>1 DEF ReportPart, history
    <3>2. CASE cons_init
      <4>1. pc = "cons_init" /\ panicstr' = panicstr  BY <3>2 DEF cons_init, Goto
      <4> QED  BY <2>1, <4>1 DEF ReportPart, PanicReportedOnce, InC, history
    <3>3. CASE BootStep
      <4>1. pc' \in BootPlaces \cup {"memset"}
        BY <3>3 DEF BootStep, seta20_1, seta20_2, protcseg, ReadHeaders, LoadKernel, SetCr3, SetCr0, JumpUp,
             relocated, Goto, BootPlaces, Loading, Low32
      <4> QED  BY <4>1 DEF BootPlaces, Loading, Low32, InC, MayFail, Reporting, Warning
    <3> QED  BY <1>2, <3>1, <3>2, <3>3
  <2>6. PanicReportedOnce'  BY <2>1, <2>5 DEF ReportPart, PanicReportedOnce, history
  <2> QED  BY <2>1, <2>3, <2>4, <2>6 DEF ReportPart, history
<1> QED  BY <1>1, <1>2

\* What neither panics nor reports leaves the report as it is.
LEMMA ReportUntouched ==
  ASSUME IInv, ReportPart, pc \in MayFail, pc' \in MayFail,
         fmt' = fmt, panicstr' = panicstr, reported' = reported, first' = first,
         Live' \cap Reporting \subseteq Live
  PROVE  ReportPart'
<1>1. pc \in InC \ {"memset"} /\ pc' \in InC \ {"memset"}
  BY DEF InC, MayFail, Reporting, Warning
<1> QED  BY <1>1 DEF ReportPart, PanicReportedOnce

\* A prefix and the element behind it.
LEMMA LongerPrefix ==
  ASSUME NEW S, NEW s \in Seq(S), NEW k \in Nat, k < Len(s)
  PROVE  Append(SubSeq(s, 1, k), s[k + 1]) = SubSeq(s, 1, k + 1) /\ Len(SubSeq(s, 1, k)) = k
<1>1. Len(s) \in Nat /\ \A i \in 1 .. Len(s) : s[i] \in S  BY ElementOfSeq
<1>2. /\ SubSeq(s, 1, k) \in Seq(S) /\ Len(SubSeq(s, 1, k)) = k
      /\ \A i \in 1 .. k : SubSeq(s, 1, k)[i] = s[i]
  BY <1>1, SubSeqProperties
<1>3. /\ SubSeq(s, 1, k + 1) \in Seq(S) /\ Len(SubSeq(s, 1, k + 1)) = k + 1
      /\ \A i \in 1 .. k + 1 : SubSeq(s, 1, k + 1)[i] = s[i]
  BY <1>1, SubSeqProperties
<1>4. s[k + 1] \in S  BY <1>1
<1> DEFINE t == Append(SubSeq(s, 1, k), s[k + 1])
<1>5. /\ t \in Seq(S) /\ Len(t) = k + 1 /\ t[k + 1] = s[k + 1]
      /\ \A i \in 1 .. k : t[i] = s[i]
  BY <1>2, <1>4, AppendProperties
<1>6. \A i \in 1 .. k + 1 : t[i] = s[i]  BY <1>5
<1> HIDE DEF t
<1>7. t = SubSeq(s, 1, k + 1)  BY <1>3, <1>5, <1>6, SeqEqual
<1> QED  BY <1>2, <1>7 DEF t

LEMMA ReportStep ==
  ASSUME IInv, ReportPart, Report
  PROVE  ReportPart'
<1> DEFINE report == <<<<"panic.head", first>>, <<"panic.text", first>>, <<"panic.end", first>>>>
<1>0. PICK n : n = Len(reported)  OBVIOUS
<1>1. /\ pc \in Reporting /\ pc' \in {"panic.text", "panic.end", "monitor"}
      /\ pc = "panic.head" => pc' = "panic.text"
      /\ pc = "panic.text" => pc' = "panic.end"
      /\ pc = "panic.end" => pc' = "monitor"
      /\ reported' = Append(reported, <<pc, fmt>>)
      /\ fmt' = fmt /\ first' = first /\ panicstr' = panicstr
  BY DEF Report, Goto, Reporting, statics, locals
<1>2. pc \in Live  BY DEF Live
<1>3. first # NULL /\ fmt = first /\ n = Stage[pc]  BY <1>0, <1>1, <1>2 DEF ReportPart
<1>4. /\ pc = "panic.head" => n = 0
      /\ pc = "panic.text" => n = 1
      /\ pc = "panic.end" => n = 2
  BY <1>1, <1>3 DEF Stage
<1>5. /\ report[1] = <<"panic.head", first>> /\ report[2] = <<"panic.text", first>>
      /\ report[3] = <<"panic.end", first>>
  OBVIOUS
<1> DEFINE Line == {<<"panic.head", first>>, <<"panic.text", first>>, <<"panic.end", first>>}
<1>15. report \in Seq(Line) /\ Len(report) = 3  OBVIOUS
<1>6. /\ reported = SubSeq(report, 1, n)
      /\ pc \in InC \ {"memset"} => panicstr = first
  BY <1>0 DEF ReportPart, PanicReportedOnce
<1>7. report' = report  BY <1>1
<1>8. n \in 0 .. 2 /\ <<pc, fmt>> = report[n + 1]
  <2> HIDE DEF report
  <2>1. CASE pc = "panic.head"
    <3>1. n = 0 /\ n + 1 = 1  BY <1>4, <2>1
    <3> QED  BY <1>3, <1>5, <2>1, <3>1
  <2>2. CASE pc = "panic.text"
    <3>1. n = 1 /\ n + 1 = 2  BY <1>4, <2>2
    <3> QED  BY <1>3, <1>5, <2>2, <3>1
  <2>3. CASE pc = "panic.end"
    <3>1. n = 2 /\ n + 1 = 3  BY <1>4, <2>3
    <3> QED  BY <1>3, <1>5, <2>3, <3>1
  <2> QED  BY <1>1, <2>1, <2>2, <2>3 DEF Reporting
<1>9. reported' = SubSeq(report, 1, n + 1) /\ Len(reported') = n + 1
  <2> HIDE DEF report, Line
  <2>1. Append(SubSeq(report, 1, n), report[n + 1]) = SubSeq(report, 1, n + 1)
    <3>1. n \in Nat /\ n < Len(report)  BY <1>8, <1>15
    <3> QED  BY <1>15, <3>1, LongerPrefix
  <2>2. Len(SubSeq(report, 1, n + 1)) = n + 1
    <3>1. \A i \in 1 .. n + 1 : report[i] \in Line
      <4>1. \A i \in 1 .. n + 1 : i \in 1 .. Len(report)  BY <1>8, <1>15
      <4> QED  BY <1>15, <4>1, ElementOfSeq
    <3> QED  BY <1>8, <3>1, SubSeqProperties
  <2> QED  BY <1>1, <1>6, <1>8, <2>1, <2>2
<1>10. Live' = {pc'}
  <2>1. pc' \notin Returning  BY <1>1 DEF Returning, Warning
  <2> QED  BY <2>1, LiveAlone
<1>11. pc' \in Reporting => Len(reported') = Stage[pc']
  <2> HIDE DEF report
  <2>0. Stage["panic.text"] = 1 /\ Stage["panic.end"] = 2  BY DEF Stage, Reporting
  <2>1. CASE pc = "panic.head"
    <3>1. n = 0 /\ n + 1 = 1  BY <1>4, <2>1
    <3> QED  BY <1>1, <1>9, <2>0, <2>1, <3>1
  <2>2. CASE pc = "panic.text"
    <3>1. n = 1 /\ n + 1 = 2  BY <1>4, <2>2
    <3> QED  BY <1>1, <1>9, <2>0, <2>2, <3>1
  <2>3. CASE pc = "panic.end"  BY <1>1, <2>3 DEF Reporting
  <2> QED  BY <1>1, <2>1, <2>2, <2>3 DEF Reporting
<1>12. panicstr' = first' /\ pc' \in InC \ {"memset"}
  BY <1>1, <1>6 DEF InC, MayFail, Reporting
<1>13. PanicReportedOnce'
  <2>1. Len(reported') <= 3
    <3> HIDE DEF report
    <3> QED  BY <1>8, <1>9
  <2>2. reported' = SubSeq(report', 1, Len(reported'))  BY <1>7, <1>9
  <2> QED  BY <1>7, <1>12, <1>15, <2>1, <2>2 DEF PanicReportedOnce
<1>14. \A p \in Live' \cap Reporting : first' # NULL /\ Len(reported') = Stage[p]
  BY <1>1, <1>3, <1>10, <1>11
<1> QED  BY <1>1, <1>3, <1>12, <1>13, <1>14 DEF ReportPart

LEMMA ReportPanic ==
  ASSUME IInv, ReportPart, NEW msg \in Messages, Panic(msg)
  PROVE  ReportPart'
<1>1. /\ pc \in MayFail /\ reported' = reported
      /\ first' = IF first = NULL THEN msg ELSE first
      /\ IF panicstr # NULL THEN pc' = "monitor" /\ UNCHANGED <<panicstr, fmt>>
         ELSE pc' = "panic.head" /\ panicstr' = msg /\ fmt' = msg
  BY DEF Panic
<1>2. pc \in InC \ {"memset"}  BY <1>1 DEF InC, MayFail, Reporting, Warning
<1>3. panicstr = first  BY <1>2 DEF ReportPart, PanicReportedOnce
<1>4. msg # NULL  BY StartAssumption
<1>5. pc' \in {"monitor", "panic.head"} /\ pc' \in InC \ {"memset"} /\ pc' \notin Returning
  BY <1>1 DEF InC, MayFail, Reporting, Returning, Warning
<1>6. Live' = {pc'}  BY <1>5, LiveAlone
<1>7. CASE first # NULL
  <2>1. pc' \notin Reporting  BY <1>1, <1>3, <1>7 DEF Reporting
  <2> QED
    BY <1>1, <1>3, <1>5, <1>6, <1>7, <2>1 DEF ReportPart, PanicReportedOnce
<1>8. CASE first = NULL
  <2>1. pc' = "panic.head" /\ panicstr' = msg /\ fmt' = msg /\ first' = msg  BY <1>1, <1>3, <1>8
  <2>2. reported' = <<>>  BY <1>1, <1>8 DEF ReportPart
  <2>3. Stage["panic.head"] = 0  BY DEF Stage, Reporting
  <2>4. PanicReportedOnce'
    <3> DEFINE report == <<<<"panic.head", first>>, <<"panic.text", first>>, <<"panic.end", first>>>>
    <3>1. Len(reported') = 0 /\ Len(report') = 3  BY <2>2
    <3>2. SubSeq(report', 1, 0) = <<>>
      <4> HIDE DEF report
      <4> QED  BY SubSeqEmpty
    <3>3. Len(reported') <= Len(report')  BY <3>1
    <3>4. reported' = SubSeq(report', 1, Len(reported'))  BY <2>2, <3>1, <3>2
    <3> QED  BY <2>1, <3>3, <3>4 DEF PanicReportedOnce
  <2>5. first' # NULL /\ first' \in {NULL} \cup Messages /\ fmt' = first'  BY <1>4, <2>1
  <2>6. \A p \in Live' \cap Reporting : first' # NULL /\ Len(reported') = Stage[p]
    BY <1>6, <2>1, <2>2, <2>3, <2>5
  <2> QED  BY <1>5, <2>4, <2>5, <2>6 DEF ReportPart
<1> QED  BY <1>7, <1>8

LEMMA ReportDuring ==
  ASSUME IInv, ReportPart, Printing \/ Failing
  PROVE  ReportPart'
<1>1. pc \in MayFail /\ pc' \in MayFail  BY Printers
<1>2. ret \in Seq(MayFail)  BY DEF IInv, CallPart
<1>3. CASE Report  BY <1>3, ReportStep
<1>4. CASE \E msg \in Messages : Panic(msg)  BY <1>4, ReportPanic
<1>5. CASE ~Report /\ ~(\E msg \in Messages : Panic(msg))
  <2>1. fmt' = fmt /\ panicstr' = panicstr /\ reported' = reported /\ first' = first
    BY <1>5 DEF Printing, Hello, Entering, Leaving, Welcome, Prompt, Command, WarnPrint, WarnReturn,
                Failing, Warn, statics, locals, history
  <2> SUFFICES Live' \cap Reporting \subseteq Live  BY <1>1, <2>1, ReportUntouched
  <2>2. CASE Hello
    <3>1. pc' = "entering" /\ ret' = <<"monitor">>  BY <2>2 DEF Hello, Goto
    <3>2. Live' \subseteq {pc', "monitor"}  BY <3>1 DEF Live, Active
    <3> QED  BY <3>1, <3>2 DEF Reporting
  <2>3. CASE Entering
    <3>1. pc = "entering" /\ pc' \in {"entering", "leaving"} /\ ret' \in {ret, <<"leaving">> \o ret}
      BY <2>3 DEF Entering
    <3>2. {pc, pc', "leaving"} \subseteq Returning \cap (MayFail \ Reporting)
      BY <3>1 DEF Returning, MayFail, Reporting
    <3>3. Live' \subseteq {pc', "leaving"} \cup Live
      BY <1>2, <3>1, <3>2, LivePushed, LiveStays
    <3> QED  BY <3>2, <3>3
  <2>4. CASE Leaving \/ WarnReturn
    <3>1. pc \in Returning /\ pc' = Head(ret) /\ ret' = Tail(ret)
      BY <2>4 DEF Leaving, WarnReturn, Goto, Returning, Warning
    <3>2. ret # <<>>  BY <3>1 DEF IInv, CallPart
    <3> QED  BY <1>2, <3>1, <3>2, LivePopped
  <2>5. CASE Welcome \/ Prompt \/ Command
    <3>1. pc' \notin Returning /\ pc' \notin Reporting
      BY <2>5 DEF Welcome, Prompt, Command, Goto, Returning, Reporting, Warning
    <3> QED  BY <3>1, LiveAlone
  <2>6. CASE WarnPrint
    <3>1. ret' = ret /\ pc \in Returning /\ pc' \notin Reporting
      BY <2>6 DEF WarnPrint, Goto, Returning, Warning, Reporting
    <3> QED  BY <3>1, LiveStays
  <2>7. CASE Warn
    <3>1. ret' = <<pc>> \o ret /\ pc' \notin Reporting /\ pc \in Live
      BY <2>7 DEF Warn, Reporting, Live
    <3>2. Live' \subseteq {pc', pc} \cup Live  BY <1>1, <1>2, <3>1, LivePushed
    <3> QED  BY <3>1, <3>2
  <2> QED  BY <1>5, <2>2, <2>3, <2>4, <2>5, <2>6, <2>7 DEF Printing, Failing
<1> QED  BY <1>3, <1>4, <1>5

LEMMA ReportKept == IInv /\ ReportPart /\ [Next]_vars => ReportPart'
<1> SUFFICES ASSUME IInv, ReportPart, [Next]_vars  PROVE ReportPart'  OBVIOUS
<1>1. CASE UNCHANGED vars
  BY <1>1 DEF vars, statics, locals, history, ReportPart, PanicReportedOnce, Live, Active
<1>2. CASE Next
  <2>1. BootStep \/ KbcTakes \/ ClearBss \/ cons_init \/ Printing \/ Failing
    BY <1>2 DEF Next, Machine, BootStep, Printing
  <2> QED  BY <2>1, ReportBefore, ReportDuring
<1> QED  BY <1>1, <1>2

\* However panics and warnings nest, the first panic is reported, at most once
\* and in order, and panicstr keeps its message.
THEOREM PanicTheorem == Spec => []PanicReportedOnce
<1>1. Spec => []IInv  BY InitHolds, NextKeeps, PTL DEF Spec
<1>2. ReportPart => PanicReportedOnce  BY DEF ReportPart
<1> QED  BY <1>1, <1>2, ReportInit, ReportKept, PTL DEF Spec
=============================================================================
