------------------------------ MODULE BootLoader ------------------------------
(***************************************************************************)
(* The boot loader, boot/main.c, and the disk it reads the kernel from;    *)
(* then the first thing the kernel does, in kern/init.c: clear its BSS.    *)
(*                                                                         *)
(* A byte of the kernel's file is named by its place in the file, and so   *)
(* is what the loader puts in memory.  A program header takes one byte,    *)
(* the i-th at place i; byte 0 stands for the ELF header.  Addresses are   *)
(* physical, those of the BSS too.                                         *)
(***************************************************************************)
EXTENDS Integers, Sequences

CONSTANTS
  SECTSIZE,    \* bytes of a sector (512 in the code)
  Space,       \* number of physical addresses (2^32 in the code)
  ELFHDR,      \* where the headers are read to (0x10000)
  HDRSECTS,    \* sectors read there (8)
  Kernels,     \* kernel files to be tried
  Garbage,     \* what a program header may read that is not there
  MaxFailed    \* bound: reads that fail

Addr    == 0 .. Space - 1
Segment == [pa : Addr, offset : Addr, filesz : Addr, memsz : Addr]

\* A kernel: its segments, and the two symbols the linker sets round its BSS.
KernelFile == [segments : Seq(Segment), edata : Addr, end : Addr]

ASSUME BootAssumption ==
  /\ SECTSIZE \in Nat \ {0, 1}
  /\ Space \in Nat /\ Space % SECTSIZE = 0
  /\ ELFHDR \in Addr /\ ELFHDR % SECTSIZE = 0
  /\ HDRSECTS \in Nat \ {0} /\ ELFHDR + HDRSECTS * SECTSIZE < Space
  /\ Kernels \subseteq KernelFile
  /\ Garbage \subseteq Segment
  /\ MaxFailed \in Nat

\* Other bytes: what memory held before, what a failed read gives, zero.
OLD  == -1
JUNK == -2
ZERO == -3

VARIABLES
  image,       \* the program headers of the kernel's file
  edata, end,  \* where its BSS starts and ends
  magic,       \* TRUE iff the file starts with ELF_MAGIC
  mem,         \* physical memory
  ph,          \* number of program headers passed so far
  pa, end_pa, offset,   \* readseg's variables
  pc,          \* where the loader is
  disk,        \* "ready", "busy", or "error"
  failed       \* history: number of reads that failed

segs == <<pa, end_pa, offset>>
file == <<image, edata, end, magic>>
vars == <<file, mem, ph, segs, pc, disk, failed>>

SectorStart(a) == a - (a % SECTSIZE)

-----------------------------------------------------------------------------
(* The disk: sector n holds the n-th part of the file, from 1.             *)

DiskByte(n, k) == (n - 1) * SECTSIZE + k

DiskDone ==
  /\ disk = "busy"
  /\ disk' = "ready"
  /\ UNCHANGED <<file, mem, ph, segs, pc, failed>>

\* The disk is ready as well, but has no data.
DiskError ==
  /\ disk = "busy"
  /\ failed < MaxFailed
  /\ disk' = "error"
  /\ failed' = failed + 1
  /\ UNCHANGED <<file, mem, ph, segs, pc>>

-----------------------------------------------------------------------------
(* readseg and readsect.                                                   *)

\* Mutant of Readseg: the end is taken from the rounded start.
ReadsegRoundedEnd(p, count, off) ==
  /\ end_pa' = (SectorStart(p) + count) % Space
  /\ pa' = SectorStart(p)
  /\ offset' = off \div SECTSIZE + 1
  /\ pc' = "readseg"

\* Start to read count bytes at off in the file to p in memory.
Readseg(p, count, off) ==
  /\ end_pa' = (p + count) % Space
  /\ pa' = SectorStart(p)
  /\ offset' = off \div SECTSIZE + 1
  /\ pc' = "readseg"

\* Mutant of More: one sector more than needed.
MoreThanAsked == pc = "readseg" /\ pa <= end_pa

More == pc = "readseg" /\ pa < end_pa

\* readsect: the disk is ready, and gets the command.
Command ==
  /\ More
  /\ disk # "busy"
  /\ disk' = "busy"
  /\ pc' = "readsect"
  /\ UNCHANGED <<file, mem, ph, segs, failed>>

\* Mutant of Transfer: an error counts as not ready.
TransferIfNoError ==
  /\ pc = "readsect"
  /\ disk = "ready"
  /\ mem' = [a \in Addr |-> IF SectorStart(a) # pa THEN mem[a]
                            ELSE DiskByte(offset, a - pa)]
  /\ pa' = (pa + SECTSIZE) % Space
  /\ offset' = (offset + 1) % Space
  /\ pc' = "readseg"
  /\ UNCHANGED <<file, ph, end_pa, disk, failed>>

\* readsect: the disk is ready again, and the sector is read; waitdisk looks
\* at two bits of the status, neither of which tells of an error.
Transfer ==
  /\ pc = "readsect"
  /\ disk # "busy"
  /\ mem' = [a \in Addr |-> IF SectorStart(a) # pa THEN mem[a]
                            ELSE IF disk = "error" THEN JUNK
                            ELSE DiskByte(offset, a - pa)]
  /\ pa' = (pa + SECTSIZE) % Space
  /\ offset' = (offset + 1) % Space
  /\ pc' = "readseg"
  /\ UNCHANGED <<file, ph, end_pa, disk, failed>>

-----------------------------------------------------------------------------
(* bootmain.  ph counts the program headers, and is -1 while the page that  *)
(* holds them is read.                                                     *)

SegDone == pc = "readseg" /\ ~More

Start ==
  /\ pc = "bootmain"
  /\ Readseg(ELFHDR, HDRSECTS * SECTSIZE, 0)
  /\ UNCHANGED <<file, mem, ph, disk, failed>>

\* What the ELF header says is read where it lies in memory.
ElfHeader == mem[ELFHDR] = 0
IsElf == ElfHeader /\ magic

BadImage ==
  /\ SegDone
  /\ ph = -1 /\ ~IsElf
  /\ pc' = "bad"
  /\ UNCHANGED <<file, mem, ph, segs, disk, failed>>

\* What a failed read gave may have the magic number by chance; all that
\* follows is chance as well.
Misled ==
  /\ SegDone
  /\ ph = -1 /\ ~ElfHeader
  /\ pc' = "lost"
  /\ UNCHANGED <<file, mem, ph, segs, disk, failed>>

\* The program headers are read where they lie in memory, one by one.
Header(n) ==
  IF mem[ELFHDR + n] = n THEN {image[n]} ELSE Garbage

NextSegment ==
  /\ SegDone
  /\ ph = -1 => IsElf
  /\ LET n == IF ph = -1 THEN 1 ELSE ph + 1
     IN  /\ n <= Len(image)
         /\ ph' = n
         /\ \E s \in Header(n) : Readseg(s.pa, s.memsz, s.offset)
  /\ UNCHANGED <<file, mem, disk, failed>>

\* All segments are loaded: call the entry point, of which the ELF header
\* tells.
Enter ==
  /\ SegDone
  /\ ph = -1 => IsElf
  /\ IF ph = -1 THEN Len(image) = 0 ELSE ph = Len(image)
  /\ pc' = IF ElfHeader THEN "entry" ELSE "lost"
  /\ UNCHANGED <<file, mem, ph, segs, disk, failed>>

\* The BSS.  The linker puts it at the end of the data and a byte of the file
\* behind it, so that the file has bytes for it as well.
Bss == {a \in Addr : edata <= a /\ a < end}

\* i386_init: memset(edata, 0, end - edata).
ClearBss ==
  /\ pc = "entry"
  /\ mem' = [a \in Addr |-> IF a \in Bss THEN ZERO ELSE mem[a]]
  /\ pc' = "kernel"
  /\ UNCHANGED <<file, ph, segs, disk, failed>>

-----------------------------------------------------------------------------
Init ==
  /\ \E k \in Kernels : image = k.segments /\ edata = k.edata /\ end = k.end
  /\ magic \in BOOLEAN
  /\ mem = [a \in Addr |-> OLD]
  /\ ph = -1
  /\ pa = 0 /\ end_pa = 0 /\ offset = 0
  /\ pc = "bootmain"
  /\ disk = "ready"
  /\ failed = 0

Loader == Start \/ BadImage \/ Misled \/ Command \/ Transfer \/ NextSegment \/ Enter
          \/ ClearBss

Next == Loader \/ DiskDone \/ DiskError

Spec == Init /\ [][Next]_vars

\* The processor runs on, and the disk answers each command, be it with an
\* error: waitdisk waits for ever for one that does not.
FairSpec == Spec /\ WF_vars(Loader) /\ WF_vars(DiskDone \/ DiskError)

-----------------------------------------------------------------------------
(* Properties.                                                             *)

\* The addresses that readseg may overwrite for segment s: whole sectors.
Footprint(s) ==
  IF s.memsz = 0 /\ s.pa % SECTSIZE = 0 THEN {}
  ELSE {a \in Addr : SectorStart(a) >= SectorStart(s.pa) /\ SectorStart(a) < s.pa + s.memsz}

\* The addresses for which segment s has bytes, in the file and in memory.
FileBytes(s)   == {a \in Addr : a >= s.pa /\ a < s.pa + s.filesz}
MemoryBytes(s) == {a \in Addr : a >= s.pa /\ a < s.pa + s.memsz}

HeaderPage == {a \in Addr : a >= ELFHDR /\ a < ELFHDR + HDRSECTS * SECTSIZE}

\* No segment reaches the last sector of the address space.
NoWrap == \A i \in 1 .. Len(image) : image[i].pa + image[i].memsz <= Space - SECTSIZE

\* The program headers fit the page that is read for them, and stay there
\* while the segments are loaded.
HeadersKept ==
  /\ Len(image) < HDRSECTS * SECTSIZE
  /\ \A i \in 1 .. Len(image) : Footprint(image[i]) \cap HeaderPage = {}

\* The linker puts the BSS into one of the segments.
BssInSegment == Bss # {} => \E i \in 1 .. Len(image) : Bss \subseteq MemoryBytes(image[i])

\* What the boot loader needs of a kernel file.  Segments stay away from the
\* headers and the end of the address space; they lie at the same place in
\* their sectors in memory and in the file, and have no more bytes in the file
\* than in memory; one of them has the BSS; and a sector that two of them share
\* holds the same bytes for both.  Their order does not matter.
Loadable ==
  /\ NoWrap
  /\ HeadersKept
  /\ BssInSegment
  /\ \A i \in 1 .. Len(image) :
       /\ image[i].pa % SECTSIZE = image[i].offset % SECTSIZE
       /\ image[i].filesz <= image[i].memsz
  /\ \A i, j \in 1 .. Len(image) :
       Footprint(image[i]) \cap Footprint(image[j]) # {} =>
         image[i].offset - image[i].pa = image[j].offset - image[j].pa

\* The kernel starts with the image that its file describes: the bytes of the
\* file where they belong, up to the BSS and behind it, and zeros in the BSS,
\* also where the file has something for it.
ImageIsTheFiles ==
  pc = "kernel" /\ Loadable /\ failed = 0 =>
    /\ \A i \in 1 .. Len(image) : \A a \in FileBytes(image[i]) \ Bss :
         mem[a] = image[i].offset + (a - image[i].pa)
    /\ \A a \in Bss : mem[a] = ZERO

\* "Might copy more than asked": but never more than fills the sectors of the
\* headers and of the segments.
OnlyFootprintWritten ==
  NoWrap /\ HeadersKept /\ BssInSegment /\ failed = 0 =>
    \A a \in Addr : mem[a] # OLD =>
      a \in HeaderPage \/ \E i \in 1 .. Len(image) : a \in Footprint(image[i])

\* A header that a failed read took away.
HeaderLost == \E n \in 0 .. Len(image) : mem[ELFHDR + n] = JUNK

\* Errors in the bytes of the segments go unnoticed, and never keep the kernel
\* from starting: loading ends, in the kernel or because the file is none,
\* unless a header is lost.  Of a loader without its headers nothing is
\* promised: a header read from junk may make readseg go round for ever.
BootEnds ==
  Loadable => <>(pc = "kernel" \/ (pc = "bad" /\ ~magic) \/ HeaderLost)
===============================================================================
