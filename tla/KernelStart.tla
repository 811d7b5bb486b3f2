----------------------------- MODULE KernelStart -----------------------------
(***************************************************************************)
(* From the boot sector to the monitor: boot/boot.S (address line 20,      *)
(* protected mode), what boot/main.c leaves in memory (BootLoader has its  *)
(* details), kern/entry.S with the page tables of kern/entrypgdir.c, and   *)
(* kern/init.c with panic and warn.                                        *)
(*                                                                         *)
(* Addresses are page numbers.  An access says which virtual page it uses  *)
(* and in which physical page, its home, the data are that it means.  The  *)
(* segments of the bootstrap GDT are flat: linear addresses are virtual.   *)
(***************************************************************************)
EXTENDS Integers, Sequences

CONSTANTS
  NPTENTRIES, NPDENTRIES,  \* entries of a page table, of a page directory (1024)
  KERNBASE,                \* page where the kernel is linked (0xF0000)
  TEXT, STACK, PGDIR, PGTABLE,   \* physical pages of the kernel's sections, of
  BSS,                           \* bootstack, entry_pgdir, entry_pgtable; BSS is a set
  Messages,                \* what panic is called with
  MaxPanics, MaxWarns,     \* bounds: calls of panic and warn
  NULL

Boot   == 7    \* 0x7c00: the boot sector, with the stack below it
ELFHDR == 16   \* 0x10000
CGA    == 184  \* 0xb8000: the text display
Line20 == 256  \* the bit of address line 20 in a page number

Kernel == {TEXT, STACK, PGDIR, PGTABLE} \cup BSS
Page   == {0, Boot, ELFHDR, CGA} \cup Kernel \cup {p - Line20 : p \in Kernel}

\* What the 8042 is given: the command that a datum for its output port
\* follows, that datum, something else.
Bytes == {"d1", "df", "other"}

ASSUME StartAssumption ==
  /\ NPTENTRIES \in Nat \ {0} /\ NPDENTRIES \in Nat
  /\ KERNBASE \in Nat \ {0} /\ KERNBASE % NPTENTRIES = 0
  /\ KERNBASE \div NPTENTRIES < NPDENTRIES
  /\ Kernel \subseteq Line20 .. 2 * Line20 - 1
  /\ Kernel \subseteq 0 .. NPTENTRIES - 1
  /\ CGA < NPTENTRIES
  /\ {TEXT, STACK, PGDIR, PGTABLE} \cap BSS = {}
  /\ NULL \notin Int \cup Bytes \cup Messages

VARIABLES
  pc, ret,     \* where the processor is, and where the calls it is in return to
  a20,         \* address line 20 is enabled
  kbc,         \* input buffer of the 8042: a command or datum not taken yet
  expects,     \* the 8042 has taken 0xd1: a datum goes to its output port
  pg,          \* paging (and write protection) is on
  cr3,         \* physical page of the page directory
  mem,         \* what the physical pages hold
  crt_buf, panicstr,   \* static variables
  x,           \* argument of test_backtrace
  fmt,         \* argument of the last call of panic that reports
  wild,        \* history: an access did not reach its home
  reported,    \* history: what panic has printed, each with its message
  first,       \* history: what panic was called with first
  panics, warns        \* history: calls so far

bus     == <<a20, kbc, expects>>
paging  == <<pg, cr3>>
statics == <<crt_buf, panicstr>>
locals  == <<x, fmt>>
history == <<reported, first, panics, warns>>
vars    == <<pc, ret, bus, paging, mem, statics, locals, wild, history>>

-----------------------------------------------------------------------------
(* Address translation.                                                    *)

PDX(v) == (v \div NPTENTRIES) % NPDENTRIES
PTX(v) == v % NPTENTRIES
RELOC(v) == v - KERNBASE

Entry(p, flags) == [addr |-> p, flags |-> flags]

\* Mutant of entry_pgdir: only the addresses the kernel is linked at.
HighOnly ==
  [i \in 0 .. NPDENTRIES - 1 |->
     IF i = PDX(KERNBASE) THEN Entry(RELOC(PGTABLE + KERNBASE), {"P", "W"}) ELSE Entry(0, {})]

entry_pgdir ==
  [i \in 0 .. NPDENTRIES - 1 |->
     IF i = 0 THEN Entry(RELOC(PGTABLE + KERNBASE), {"P"})
     ELSE IF i = PDX(KERNBASE) THEN Entry(RELOC(PGTABLE + KERNBASE), {"P", "W"})
     ELSE Entry(0, {})]

entry_pgtable == [i \in 0 .. NPTENTRIES - 1 |-> Entry(i, {"P", "W"})]

\* What the processor makes of a virtual page that is used with the rights
\* given, which are checked in both tables: the physical page, or NULL.
Walk(v, rights) ==
  LET pde == entry_pgdir[PDX(v)]
      pte == entry_pgtable[PTX(v)]
  IN  IF cr3 = PGDIR /\ rights \subseteq pde.flags /\ pde.addr = PGTABLE /\ rights \subseteq pte.flags
      THEN pte.addr ELSE NULL

\* Without line 20 its bit is 0.
Wire(p) == IF a20 \/ (p \div Line20) % 2 = 0 THEN p ELSE p - Line20

Reaches(v, rights) ==
  IF ~pg THEN Wire(v)
  ELSE IF Walk(v, rights) = NULL THEN NULL ELSE Wire(Walk(v, rights))

\* Accesses to the address where something is, and where it is linked.
Low(p)  == [va |-> p, home |-> p]
High(p) == [va |-> p + KERNBASE, home |-> p]

\* A step reads and writes (instructions are read, calls write the stack).
Touch(reads, writes) ==
  wild' = (wild \/ (\E r \in reads : Reaches(r.va, {"P"}) # r.home)
                \/ (\E w \in writes : Reaches(w.va, {"P", "W"}) # w.home))

Goto(from, to) == pc = from /\ pc' = to

-----------------------------------------------------------------------------
(* boot.S.  The loops that wait for the 8042 turn until its buffer is      *)
(* empty; a byte written before that replaces the one in it.               *)

KbcTakes ==
  /\ kbc # NULL
  /\ kbc' = NULL
  /\ a20' = (a20 \/ (expects /\ kbc = "df"))
  /\ expects' = (kbc = "d1")
  /\ UNCHANGED <<pc, ret, paging, mem, statics, locals, wild, history>>

seta20_1 ==
  /\ Goto("seta20.1", "seta20.2")
  /\ kbc = NULL
  /\ kbc' = "d1"
  /\ Touch({Low(Boot)}, {})
  /\ UNCHANGED <<ret, a20, expects, paging, mem, statics, locals, history>>

\* Mutant of seta20_2: it does not wait.
seta20_2AtOnce ==
  /\ Goto("seta20.2", "protcseg")
  /\ kbc' = "df"
  /\ Touch({Low(Boot)}, {})
  /\ UNCHANGED <<ret, a20, expects, paging, mem, statics, locals, history>>

\* Then lgdt, the switch to protected mode, and the jump behind it.
seta20_2 ==
  /\ Goto("seta20.2", "protcseg")
  /\ kbc = NULL
  /\ kbc' = "df"
  /\ Touch({Low(Boot)}, {})
  /\ UNCHANGED <<ret, a20, expects, paging, mem, statics, locals, history>>

protcseg ==
  /\ Goto("protcseg", "bootmain")
  /\ Touch({Low(Boot)}, {Low(Boot)})
  /\ UNCHANGED <<ret, bus, paging, mem, statics, locals, history>>

Fill(pages, what) == [p \in Page |-> IF p \in {Wire(q) : q \in pages} THEN what ELSE mem[p]]

\* The headers come first; the 8042 is done long before the disk is.
ReadHeaders ==
  /\ Goto("bootmain", "load")
  /\ kbc = NULL
  /\ mem' = Fill({ELFHDR}, "elf")
  /\ Touch({Low(Boot)}, {Low(Boot), Low(ELFHDR)})
  /\ UNCHANGED <<ret, bus, paging, statics, locals, history>>

\* The segments, the BSS with what the file has there; then the entry point is
\* called, whose address is in the headers.
LoadKernel ==
  /\ Goto("load", "entry")
  /\ mem' = Fill(Kernel, "file")
  /\ Touch({Low(Boot), Low(ELFHDR)}, {Low(Boot)} \cup {Low(p) : p \in Kernel})
  /\ UNCHANGED <<ret, bus, paging, statics, locals, history>>

-----------------------------------------------------------------------------
(* entry.S.                                                                *)

\* Mutant of SetCr3: the address is not relocated.
SetCr3Linked ==
  /\ Goto("entry", "cr0")
  /\ cr3' = PGDIR + KERNBASE
  /\ Touch({Low(TEXT)}, {Low(0)})
  /\ UNCHANGED <<ret, bus, pg, mem, statics, locals, history>>

\* The flag for a warm boot is at 0x472.
SetCr3 ==
  /\ Goto("entry", "cr0")
  /\ cr3' = RELOC(PGDIR + KERNBASE)
  /\ Touch({Low(TEXT)}, {Low(0)})
  /\ UNCHANGED <<ret, bus, pg, mem, statics, locals, history>>

SetCr0 ==
  /\ Goto("cr0", "jump")
  /\ pg' = TRUE
  /\ Touch({Low(TEXT)}, {})
  /\ UNCHANGED <<ret, bus, cr3, mem, statics, locals, history>>

\* "we're still running at a low EIP (why is this okay?)"
JumpUp ==
  /\ Goto("jump", "relocated")
  /\ Touch({Low(TEXT)}, {})
  /\ UNCHANGED <<ret, bus, paging, mem, statics, locals, history>>

\* The frame pointer is cleared, the stack pointer set, and C code called.
relocated ==
  /\ Goto("relocated", "memset")
  /\ Touch({High(TEXT)}, {High(STACK)})
  /\ UNCHANGED <<ret, bus, paging, mem, statics, locals, history>>

-----------------------------------------------------------------------------
(* i386_init.  C code runs where it is linked, with the kernel's stack.    *)

Code(reads, writes) == Touch({High(TEXT)} \cup reads, {High(STACK)} \cup writes)

Statics == {High(p) : p \in BSS}

\* Printing writes to the display, at the address that crt_buf holds.
Prints == Code(Statics, Statics \cup {[va |-> crt_buf, home |-> CGA]})

\* memset(edata, 0, end - edata): static variables are 0 after it.
ClearBss ==
  /\ Goto("memset", "cons_init")
  /\ mem' = Fill(BSS, "zero")
  /\ crt_buf' = 0 /\ panicstr' = NULL
  /\ Code({}, Statics)
  /\ UNCHANGED <<ret, bus, paging, locals, history>>

\* cga_init tries the display's memory and keeps its address in crt_buf.
cons_init ==
  /\ Goto("cons_init", "hello")
  /\ crt_buf' = KERNBASE + CGA
  /\ Code({}, Statics \cup {High(CGA)})
  /\ UNCHANGED <<ret, bus, paging, mem, panicstr, locals, history>>

\* "6828 decimal is ...", and the call test_backtrace(5).
Hello ==
  /\ Goto("hello", "entering")
  /\ Prints
  /\ ret' = <<"monitor">> /\ x' = 5
  /\ UNCHANGED <<bus, paging, mem, statics, fmt, history>>

\* Entering: one call deeper, or mon_backtrace, which does nothing yet.
Entering ==
  /\ pc = "entering"
  /\ Prints
  /\ IF x > 0 THEN pc' = pc /\ x' = x - 1 /\ ret' = <<"leaving">> \o ret
     ELSE pc' = "leaving" /\ UNCHANGED <<x, ret>>
  /\ UNCHANGED <<bus, paging, mem, statics, fmt, history>>

Leaving ==
  /\ Goto("leaving", Head(ret))
  /\ Prints
  /\ ret' = Tail(ret)
  /\ x' = x + 1
  /\ UNCHANGED <<bus, paging, mem, statics, fmt, history>>

\* monitor: the welcome, and the prompt with a command, again and again.
Welcome ==
  /\ Goto("monitor", "prompt")
  /\ Prints
  /\ UNCHANGED <<ret, bus, paging, mem, statics, locals, history>>

Prompt ==
  /\ Goto("prompt", "command")
  /\ Prints
  /\ UNCHANGED <<ret, bus, paging, mem, statics, locals, history>>

Command ==
  /\ Goto("command", "prompt")
  /\ Prints
  /\ UNCHANGED <<ret, bus, paging, mem, statics, locals, history>>

-----------------------------------------------------------------------------
(* panic and warn, which may be called wherever the console may be used,   *)
(* and by what they call themselves.                                       *)

Reporting == {"panic.head", "panic.text", "panic.end"}
Warning   == {"warn.head", "warn.text", "warn.end"}
MayFail   == {"hello", "entering", "leaving", "monitor", "prompt", "command"}
             \cup Reporting \cup Warning

\* Mutants of Panic: the flag is not looked at; a panic in a panic stops.
PanicAgain(msg) ==
  /\ pc \in MayFail /\ panics < MaxPanics
  /\ panics' = panics + 1
  /\ first' = IF first = NULL THEN msg ELSE first
  /\ pc' = "panic.head" /\ panicstr' = msg /\ fmt' = msg
  /\ Code(Statics, Statics)
  /\ UNCHANGED <<ret, bus, paging, mem, crt_buf, x, reported, warns>>

PanicStops(msg) ==
  /\ pc \in MayFail /\ panics < MaxPanics
  /\ panics' = panics + 1
  /\ first' = IF first = NULL THEN msg ELSE first
  /\ IF panicstr # NULL THEN pc' = "dead" /\ UNCHANGED <<panicstr, fmt>>
     ELSE pc' = "panic.head" /\ panicstr' = msg /\ fmt' = msg
  /\ Code(Statics, Statics)
  /\ UNCHANGED <<ret, bus, paging, mem, crt_buf, x, reported, warns>>

\* Nothing returns to what called it: it goes on to the monitor, for ever.
Panic(msg) ==
  /\ pc \in MayFail /\ panics < MaxPanics
  /\ panics' = panics + 1
  /\ first' = IF first = NULL THEN msg ELSE first
  /\ IF panicstr # NULL THEN pc' = "monitor" /\ UNCHANGED <<panicstr, fmt>>
     ELSE pc' = "panic.head" /\ panicstr' = msg /\ fmt' = msg
  /\ Code(Statics, Statics)
  /\ UNCHANGED <<ret, bus, paging, mem, crt_buf, x, reported, warns>>

\* The three prints of a report.
Report ==
  /\ Goto("panic.head", "panic.text") \/ Goto("panic.text", "panic.end") \/ Goto("panic.end", "monitor")
  /\ Prints
  /\ reported' = Append(reported, <<pc, fmt>>)
  /\ UNCHANGED <<ret, bus, paging, mem, statics, locals, first, panics, warns>>

Warn ==
  /\ pc \in MayFail /\ warns < MaxWarns
  /\ warns' = warns + 1
  /\ pc' = "warn.head"
  /\ ret' = <<pc>> \o ret
  /\ Code({}, {})
  /\ UNCHANGED <<bus, paging, mem, statics, locals, reported, first, panics>>

WarnPrint ==
  /\ Goto("warn.head", "warn.text") \/ Goto("warn.text", "warn.end")
  /\ Prints
  /\ UNCHANGED <<ret, bus, paging, mem, statics, locals, history>>

WarnReturn ==
  /\ Goto("warn.end", Head(ret))
  /\ Prints
  /\ ret' = Tail(ret)
  /\ UNCHANGED <<bus, paging, mem, statics, locals, history>>

-----------------------------------------------------------------------------
Init ==
  /\ pc = "seta20.1" /\ ret = <<>>
  /\ a20 \in BOOLEAN /\ kbc \in {NULL, "other"} /\ expects = FALSE
  /\ pg = FALSE /\ cr3 = NULL
  /\ mem = [p \in Page |-> IF p = Boot THEN "boot" ELSE "bios"]
  /\ crt_buf \in {0, CGA} /\ panicstr \in {NULL} \cup Messages
  /\ x = 0 /\ fmt = NULL
  /\ wild = FALSE
  /\ reported = <<>> /\ first = NULL
  /\ panics = 0 /\ warns = 0

Machine == \/ seta20_1 \/ seta20_2 \/ protcseg \/ ReadHeaders \/ LoadKernel
           \/ SetCr3 \/ SetCr0 \/ JumpUp \/ relocated
           \/ ClearBss \/ cons_init \/ Hello \/ Entering \/ Leaving
           \/ Welcome \/ Command
           \/ Report \/ WarnPrint \/ WarnReturn

Failing == Warn \/ \E msg \in Messages : Panic(msg)

Next == Machine \/ Prompt \/ KbcTakes \/ Failing

Spec == Init /\ [][Next]_vars

\* The processor runs on, and the 8042 takes what it is given.  Nobody has to
\* type a line (Prompt).
FairSpec == Spec /\ WF_vars(Machine) /\ WF_vars(KbcTakes)

-----------------------------------------------------------------------------
(* Properties.                                                             *)

Loading == {"seta20.1", "seta20.2", "protcseg", "bootmain", "load"}
Low32   == {"entry", "cr0", "jump", "relocated"}
InC     == {"memset", "cons_init"} \cup MayFail

TypeOK ==
  /\ pc \in Loading \cup Low32 \cup InC
  /\ \A i \in DOMAIN ret : ret[i] \in MayFail
  /\ a20 \in BOOLEAN /\ pg \in BOOLEAN /\ expects \in BOOLEAN
  /\ kbc \in {NULL} \cup Bytes
  /\ cr3 \in {NULL, PGDIR}
  /\ mem \in [Page -> {"bios", "boot", "elf", "file", "zero"}]
  /\ crt_buf \in {0, CGA, KERNBASE + CGA}
  /\ panicstr \in {NULL} \cup Messages

\* Every instruction, call and datum is where the address that the code uses
\* for it leads at that moment: before line 20 and paging are on and after, at
\* the low addresses the first instructions under paging still run at, on
\* either stack, at the display; and what is written may be.
AccessesAreRight == ~wild

\* The loader is intact while it runs, and so is the kernel, of which nothing
\* has been cleared but the BSS.
MemoryIsRight ==
  /\ pc \in Loading => mem[Boot] = "boot"
  /\ pc = "load" => mem[ELFHDR] = "elf"
  /\ pc \in Low32 \cup {"memset"} => \A p \in Kernel : mem[p] = "file"
  /\ pc \in InC \ {"memset"} => \A p \in Kernel : mem[p] = IF p \in BSS THEN "zero" ELSE "file"

\* However panics and warnings nest, what is reported is the first panic, once
\* and in order, and its message is the one that panicstr keeps.
PanicReportedOnce ==
  LET report == <<<<"panic.head", first>>, <<"panic.text", first>>, <<"panic.end", first>>>>
  IN  /\ Len(reported) <= Len(report)
      /\ reported = SubSeq(report, 1, Len(reported))
      /\ pc \in InC \ {"memset"} => panicstr = first

\* The kernel gets to the monitor's prompt, and back to it, whatever failed.
MonitorReached == []<>(pc = "prompt")
==============================================================================
