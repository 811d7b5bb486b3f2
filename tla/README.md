# A TLA+ model of JOS, lab 1

JOS is the teaching kernel of MIT 6.828; this tree is its first lab: a boot
loader, a kernel that starts, prints, reads the console and runs a tiny
monitor.  This directory holds TLA+ modules that model its parts, TLC
configurations that check them on small instances, and TLAPS proofs.

Source paths below are relative to `src/`.

    tlasany M.tla                                parse
    tlc -workers 2 -config X.cfg M               check a run (runs are in PROJECT.json)
    tlapm M_proofs.tla                           check the proofs of a component

## 1. The system

One processor, one thread.  `boot/boot.S` disables interrupts and nothing in
the kernel enables them, so there are no handlers: everything is polled.  The
concurrency that is left, and the subject of most models here, is between the
steps of the kernel and the devices: characters arrive, transmit registers
empty, printers get ready between any two of the kernel's steps.

| Component | Code | State | Operations | Talks to |
|---|---|---|---|---|
| boot loader | `boot/boot.S`, `boot/main.c` | memory, disk registers | `bootmain`, `readseg`, `readsect`, `waitdisk` | disk; jumps to the ELF entry |
| processor start-up | `kern/entry.S`, `kern/entrypgdir.c` | CR0, CR3, stack, first page table | `entry` | `i386_init` |
| kernel start, panic | `kern/init.c` | `panicstr` | `i386_init`, `_panic`, `_warn` | console, printf, monitor |
| console input | `kern/console.c` | `cons` (ring buffer), `serial_exists` | `cons_init`, `serial_init`, `serial_intr`, `kbd_intr`, `cons_intr`, `cons_getc`, `getchar` | UART, 8042, keyboard decoder |
| keyboard | `kern/console.c`, `inc/kbdreg.h` | `shift` | `kbd_proc_data` | 8042, reset port |
| console output | `kern/console.c` | none (poll counters) | `cons_putc`, `serial_putc`, `lpt_putc`, `cputchar` | UART, parallel port, display |
| text display | `kern/console.c` | `crt_buf`, `crt_pos` | `cga_init`, `cga_putc` | CRT controller |
| formatted output | `lib/printfmt.c`, `kern/printf.c` | per call | `vprintfmt`, `printnum`, `vsnprintf`, `cprintf` | `cputchar` |
| string library | `lib/string.c` | memory of the caller | `memmove`, `memset`, `strlcpy`, `strtol`, ... | everyone |
| line editor | `lib/readline.c` | static `buf`, `i` | `readline` | `getchar`, `cputchar`, `cprintf` |
| monitor | `kern/monitor.c` | the line, `argv` | `monitor`, `runcmd`, `mon_help`, `mon_kerninfo` | `readline`, `cprintf` |
| symbol search | `kern/kdebug.c` | `*region_left`, `*region_right` | `stab_binsearch` | symbol table |
| debug information | `kern/kdebug.c` | `*info` | `debuginfo_eip` | `stab_binsearch` |

### What is hard, and what would make each part correct

* **Console input.**  Two devices fill one ring buffer that has no full test.
  Arrivals interleave with both polls and with the reader.  Correct: a reader
  gets characters in the order typed, none twice, none invented; what is lost
  is known exactly; the polls starve neither device nor reader.
* **Keyboard.**  Its state lives across calls: the 0xE0 escape joins two bytes,
  modifier flags follow keys through any sequence of events, locks change
  what later keys mean.  Correct: bytes decode to the key events that were sent.
* **Console output.**  Each wait for a port is bounded, then the character is
  sent anyway, over one that may not have left.  Correct: printing always
  returns, losses happen only after a timeout, order survives, the display
  misses nothing.
* **Display with line editor and monitor.**  Erasing over row boundaries and
  after scrolling, full lines, a buffer that keeps old contents and the NULs of
  the last command, a bounded `argv`.  Correct: the screen shows the line, the
  line is what was edited, the arguments are its words, the prompt returns.
* **Symbol search and debug information.**  A binary search over a table in
  which only some entries count and which changes its own key when it finds it,
  called twice, the second time in the region that the first one found.
  Correct: it ends, what it returns brackets the address, and what is reported
  is the function, source and arguments in force at the address.
* **Formatted output.**  Padding, precision, the smallest integers, a bounded
  target buffer.
* **String library.**  Overlapping moves by words and bytes, in two directions;
  bounds met exactly; numbers that do not fit.  Correct: what each function
  does to memory and returns can be said without its loops.
* **Boot loader.**  Whole sectors are read around segments that need not be
  aligned; the order of the segments decides who overwrites whom; the disk is
  awaited without a timeout.
* **Start-up.**  Order: address line 20 before memory above 1 MB, both mappings
  before paging, BSS before statics, console before the first `cprintf`; a panic
  inside a panic.  Correct: every access reaches what it means at that moment,
  nothing but the BSS is cleared, one panic is reported and the monitor reached.

## 2. The modules

| Module | Models | Kind |
|---|---|---|
| `InputFifo` | what console input promises: a queue that empties when it would get `Capacity` long | abstract specification |
| `ConsoleInput` | ring buffer, polls, `cons_getc`, `getchar`; the devices | implements `InputFifo` |
| `ConsoleInput_proofs` | its theorems | proofs |
| `KeyTables` | key maps and what one key event does to the flags | operators |
| `KeyEvents` | what the keyboard promises: whole key events | abstract specification |
| `Keyboard` | `kbd_proc_data` byte by byte, the 8042 | implements `KeyEvents` |
| `Keyboard_proofs` | its theorems | proofs |
| `Display` | `cga_putc` | operators |
| `Monitor`, `MCMonitor` | `readline` and `runcmd` on a `Display` | composition |
| `Monitor_proofs` | theorems of `Display` and `Monitor` | proofs |
| `ConsoleOutput` | `cons_putc` and the three devices behind it | component |
| `StabSearch` | `stab_binsearch` | component |
| `StabSearch_proofs` | theorems of `StabSearch` and `DebugInfo` | proofs |
| `DebugInfo`, `MCDebugInfo` | `debuginfo_eip`, which calls `StabSearch` twice | composition |
| `StringLib`, `MCStringLib` | all functions of `lib/string.c` | component |
| `StringLib_proofs` | its theorems | proofs |
| `Printf`, `MCPrintf` | `vprintfmt` and `printnum`, called by `cprintf` and `vsnprintf` | component |
| `Output_proofs` | theorems of `ConsoleOutput` and `Printf` | proofs |
| `BootLoader`, `MCBootLoader` | `boot/main.c`, the disk, and the clearing of the BSS in `i386_init` | component |
| `BootLoader_proofs` | its theorems | proofs |
| `KernelStart` | `boot/boot.S`, `kern/entry.S`, `kern/entrypgdir.c`, `kern/init.c`, and as single steps what they call | composition |
| `KernelStart_proofs` | its theorems | proofs |

A definition called `XyzSomething` after a comment "Mutant of Xyz" is `Xyz` with
one plausible bug.  It is not part of the model: putting it in the place of
`Xyz` must make TLC find a property violated, which shows that the property
says something about that code.

### ConsoleInput

A step of the kernel is one turn of a loop: `SerialTurn`/`KbdTurn` are one turn
of the loop in `cons_intr` (call `proc`, store, wrap), `SerialDone`/`KbdDone`
are `proc` returning -1, `Fetch` and `FetchNone` are the end of `cons_getc`.
`pc` says which call the kernel is in.  A character is a record of its device and
its number there, which is what lets properties speak about order; the item
`NoChar` stands for a datum for which `proc` returns 0 (a NUL byte, a key
without a character), which `cons_intr` drops.  `port` says whether the machine
has a serial port; without one, its registers read 0xFF, and the model lets
`serial_proc_data` "receive" the character `FloatingBus` for ever.  `last`,
`owed` and `laps` are history variables: the code has no such state, no guard
reads them.

`InputFifo` fixes what the code does with a full buffer: the `CONSBUFSIZE`-th
unread character empties it.

### Keyboard

A key is its index in `normalmap` (scan code, plus 128 when escaped).  `KeyEvent`
puts the one or two bytes of a key event in the controller in any order of keys,
with repeats, keys held since before the start, and releases never seen to be
pressed.  `EscapeByte`, `ReleaseByte`, `PressByte` are the three branches of
`kbd_proc_data`.  A poll with nothing to read changes nothing and is not a step.
`rebooting` is the write to port 0x92; after it the machine starts afresh.
`down` and `caps` are history variables: the keys that are down, and whether CapsLock
has gone down an odd number of times.  `KeyEvents` says flag by flag what a key does to
the flags, where the code works on all of them by `|=` and `^=` (`AfterPress`).

### Display and Monitor

`Putc(screen, c)` is `cga_putc`, with the scroll that ends it.  Its colour
attributes are left out (every caller prints with the same one), and so are the
writes of the cursor position to the CRT controller, which is output only.

`Monitor` takes `readline` character by character, `runcmd` by turns of its two
loops.  `getchar` is any character at any time.  `Lookup` compares `argv[0]` with the
names of `Commands`, and prints what that command prints, or that it is unknown.
`line` is a history variable: the line as its user has edited it.

### ConsoleOutput

`Wait` is one turn of a polling loop, `GoAhead` its end: ready or given up.
`SerialWrite`, `LptWrite`, `Strobe`, `CgaPutc` follow in the order of
`cons_putc`.  The devices, `Transmit` and `PrinterReady`, work at any pace or
not at all; either port may be missing.  A tab reaches the ports as itself and
then, because `cga_putc` calls `cons_putc` for the five spaces, as five
further characters: in the model, five more `Putchar`.

### StabSearch

The three loops of `stab_binsearch`, a step for each turn: `Bisect`, `ScanBack`,
`NoneBelow`, the three outcomes of the comparison (`Below`, `Above`, `Exact`),
and the ending.  Table, region and address are any; entries of the type searched
for are in order of address (the comment of the function requires that), and
two may share one.  `addr` is a 32-bit integer: it wraps at `MaxAddr`.  `TypeOK` says of
each index that it stays in the region `lo .. hi` given, or one position beside it.

### DebugInfo

`DebugInfo` extends `StabSearch`: its `Search` is any step of the search, `Call`
starts one, and `at` says where `debuginfo_eip` waits for it.  `Enter` is the part
up to the first call, `FileFound` and `FunFound` what follows each call, `LineBack`
and `SourceFound` the scan for the source file, `CountArg` and `ArgsDone` the count of
arguments.  The string of stab i is named i; `strs` says how many strings the table
holds.  Where this repository leaves the search for the line number to the
student, nothing happens.  `InfoIsRight` states what is reported without any
search, from the table alone; where the compiler's tables never differ it says
so by named premises (`Closed`, `Apart`).  Tables are `Linked`, as
compiler and linker write them: stab 0 is a header and not a file, as index 0
stands for "not found"; files are in order of address, and so are functions; no
file starts at address 0.

### StringLib

A behaviour is one call: `Init` chooses it and the memory it finds, a step is one
turn of a loop or one repetition of a string instruction.  The built version of
`memset` and `memmove` is the one in assembly (`ASM` is 1), so units of `WORD` bytes
and the direction flag are state.  `MovesAreCopies`, `StringsAreRight` and
`NumberIsRight` say what the functions do without their loops.  Strings end in
memory, copies have room and do not overlap their source (`Proper`): the
functions require that, and nothing in the kernel calls them otherwise.  What a
call returns and writes (`Result`, `Written`) is a function of the call and the
memory it finds.  `strtol` adds up its digits from the left and wraps at each of
them; the reference (`LastDigits`) gives each digit the power of its place and
wraps once, at the end.

### KernelStart

Addresses are page numbers, and a step is a few instructions that use the same
pages.  Each says which virtual page it uses and where the data that it means
are (`Low`: where things were loaded; `High`: where they are linked; the display is
used at the address that `crt_buf` holds).  `Reaches` is what the machine makes of the
address: without paging the address itself, with paging what the walk of the two
tables gives, if present and writable where written (`CR0_WP` is set), and in both
cases without bit 20 while address line 20 is off.  `wild` records that the two
ever differed.  The 8042 takes what is in its input buffer at any time; a byte
written before that would be lost, which is why `boot.S` waits twice.  After the
last byte it does not wait: `ReadHeaders` assumes that the 8042 has taken it by
then.

`bootmain` is two steps here, the headers and the segments; `BootLoader` has its
loops.  The BSS is whole pages here; `BootLoader` clears it byte by byte.  `Panic`
and `Warn` may come at any of the places where the console works, within each
other too; `ret` is the stack of places to return to, which a panic never uses.

### Printf

A step reads a character of the format in one of `vprintfmt`'s two loops, or
calls `putch` (`Putch`) for one character of what is to be printed.  `start` and
`directive` are history variables.  `printnum` is the recursive function of the
code, and `Numeral` the reference it is compared with, which is not recursive:
the digits of a number by division with the powers of the base.  An int has 4
bits instead of 32, a long long 8, so that all of them are tried.  Error
messages are one symbol each.  `%e` of the smallest int, which has no opposite, reads
`error_string` at a negative index.  C leaves that undefined; on the 32-bit machine that
`GNUmakefile` builds for, 4 times this index wraps to 0, the entry read is the first one, which
is NULL, and the number is printed: that is what the model does.

`DirectivePrintsMeaning` says what a conversion prints as the code means it: `%s` with a
width is padded, on either side, because lines 178-180 and 186-187 are there for nothing else.
The head of `lib/printfmt.c` (lines 12-13) says that only the numeric formats have width and
padding: the property and its proof show that the code does otherwise.  The flag `-` on numbers
is left to `PadsOnTheRight`, which is violated.

### BootLoader

`Readseg` is the head of `readseg`, `More` its loop's test, `Command` and `Transfer`
the two halves of `readsect` around the two calls of `waitdisk`; `NextSegment`
and `Enter` are `bootmain`, and `ClearBss` is the `memset` with which the kernel starts.
A byte of the file is named by its position, so that a property can say which byte lies
where.  Addresses wrap at `Space`; a sector has at least 2 bytes.

A kernel file is its segments and the two symbols `edata` and `end`.  `kern/kernel.ld`
puts a byte behind `end`, so the BSS of this kernel lies inside the bytes that the
file has, and `ClearBss` clears bytes that were loaded; other linker scripts leave the
BSS out of the file (`p_filesz` below `p_memsz`).  The run has kernels of both kinds.

ELF header and program headers are read from memory, where a segment may have overwritten
them or a failed read may have put something else: a read may fail, `waitdisk` looks at
BSY and RDY only, and the loader takes what the data port then gives (`JUNK`).  A program
header that is not there any more may read as any segment of `Garbage`.  An ELF header
that is not there stops the loader as a bad file or, if it has the magic number by chance,
sends it anywhere (`Misled`, and `Enter` for the entry point; `pc` is `"lost"`).  The
loader's own code and stack are not part of the model's memory.

`ImageIsTheFiles` is about files that are `Loadable`: segments and their bytes
in the file lie alike in their sectors (`readseg` rounds both down), `p_filesz`
is at most `p_memsz` (the loader reads `p_memsz` bytes and ignores `p_filesz`),
no address wraps (`NoWrap`), no segment comes near the headers (`HeadersKept`), the BSS
lies in one of the segments (`BssInSegment`), and where two segments share a sector the
file has the same bytes for both.  Such a kernel starts with zeros in all of its BSS and
with the bytes of its file everywhere else.  `OnlyFootprintWritten` needs `NoWrap`,
`HeadersKept` and `BssInSegment` only; it does need those, as a header that a segment
overwrites sends the loader anywhere.

`BootEnds` says what is left of "the kernel starts" if nobody looks at the disk's errors:
an error among the bytes of the segments never keeps the kernel from starting, and a file with
the magic number is never refused, unless a header was lost.  Without that last premise
it would be false: a header of junk may name a segment in the last sector of the address
space, for which `readseg` goes round for ever.  The run contains such headers.

## 3. The runs

All bounds are CONSTANTS of the configurations.

| Run | Checks | Bounds, and why they do |
|---|---|---|
| `console_input` | `TypeOK`, `LossIsWholeLaps`, `ReadableAreChars`, `InOrder`, `ImplementsFifo`, `ReadersCatchUp` | 3 slots, 2 data per device at a time, 3 in all: 6 characters go twice round the buffer and overrun it; both kinds of machine |
| `keyboard` | `TypeOK`, `ModifiersMatchKeys`, `EscapeMatchesNextByte`, `RebootIffChord`, `LetterCase`, `ImplementsEvents` | 7 keys, one for each way a key can matter: both Shifts (one flag, two keys), a plain and an escaped modifier, a lock, a letter, Del; 2 bytes in the controller, one byte that is not from the keyboard |
| `console_output` | `ArrivesInOrder`, `NothingLostUnlessForced`, `PutcReturns` | 5 characters, 2 polls instead of 12800: each port can be in time, late by one, or dead, at each character |
| `monitor` | `TypeOK`, `ScreenShowsLine`, `ReturnedLineIsWhole`, `ArgumentsAreWords`, `PromptReturns` | screen of 3 rows of 2, 5 characters per line (so that a line and its prompt can fill the screen exactly), 2 arguments, two commands and unknown ones, any number of lines |
| `debug_info` | `TypeOK`, `FoundIsBracketed`, `NoMatchIsEmpty` (of each of the two searches), `InfoIsRight`, `Returns` | all tables of a header, a file and 4 more stabs of 5 types with files and functions in order, 5 addresses, of which one is a user's, string tables of 0, 3 and 6 |
| `string_lib` | `MovesAreCopies`, `StringsAreRight`, `NumberIsRight` | 9 bytes and words of 2: all moves between all places, aligned or not, that overlap either way, of 0 to 9 bytes; all contents of 4 bytes with a signed one, bounds of 0 to 4; all texts of 4 of 9 characters in 4 bases, in longs of 6 bits, which three digits overflow |
| `printf` | `BufferHoldsPrefix`, `DirectivePrintsMeaning`, `UnknownPrintsItself`, `Terminates` | all values of 4 and 8 bits, all conversions with the flags they look at, all formats of a `%` and up to 3 of 12 characters, buffers of 0, 1 and 3 |
| `boot_loader` | `ImageIsTheFiles`, `OnlyFootprintWritten`, `BootEnds` | sectors of 2, 16 addresses, up to 2 segments of up to 3 bytes at any place relative to sectors and to each other, the BSS in the bytes of the file or behind them; one failed read, of any sector; 4 segments that a lost header may read as: a plain one, one over the headers, one in the last sector, one that wraps |
| `kernel_start` | `TypeOK`, `AccessesAreRight`, `MemoryIsRight`, `PanicReportedOnce`, `MonitorReached` | page tables of 1024 entries and the kernel's real addresses; 3 panics with 2 messages and 2 warnings: one before, in, and after a report each |
| `keyboard_mouse` | `MouseDataIgnored` (violated) | one key |
| `stab_search_next` | `FoundContainsAddr` (violated) | 2 entries, 3 addresses |
| `printf_pad` | `PadsOnTheRight` (violated) | as `printf`, proper conversions only |

Deadlock is checked where the system cannot stop.  It is not checked in the
searches, `debug_info`, `string_lib` and `printf` (they return), in `boot_loader`
(the kernel is entered, or the loader spins or is lost), in `console_output` (everything is
printed) and in the keyboard runs (a byte that is not from the keyboard stops
the driver, which is a finding of its own).

### Fairness

Weak fairness of the kernel's own steps, and nothing else: the processor never
stops, `monitor` loops for ever, and a disabled interrupt cannot divert it.  No
device is assumed to do anything; nobody has to type, no port has to get ready.
There are two exceptions.  The disk of `BootLoader` answers each command, with
data or an error: without that `waitdisk` waits for ever, as the code does.  The
8042 of `KernelStart` takes what it is given: without that `boot.S` waits for ever.
`Prompt` in `KernelStart`, where somebody types a line, gets no fairness.
Nothing is assumed of panics and warnings: `MonitorReached` holds with any
number of them up to the bound.
`Keyboard` has fairness of `Poll`, since `getchar`'s loop polls the keyboard in
each turn; that every turn gets there is what `ReadersCatchUp` shows for
`ConsoleInput`.

That is where one bound carries weight: with unboundedly many characters, a
device that sends faster than `cons_intr` drains would keep it in its loop for
ever, in the code as well.  `MaxSent` excludes that.

## 4. What is proved

For all values of the constants, under the ASSUMEs named in the modules and
nothing else.

**ConsoleInput** (`InputAssumption`: at least one slot; `NoChar` is no
character).  The inductive invariant `IInv` is `TypeOK /\ LossIsWholeLaps /\
ReadableAreChars`: `TypeOK` alone is not inductive, since `Fetch` takes one
off `owed` and asks for the device of `buf[rpos]`, which is right only because what
lies between the indices was stored and counted.  From it follow `TypeCorrect`, `LossTheorem`, `ReadableTheorem`, and
`Refinement`: every step is a `Put`, a `Get`, a `GetNothing` or a stutter of
`InputFifo` under the mapping `queue <- Unread`, the slots from `rpos` to `wpos`
read around the end of the buffer.

**StabSearch** (`StabAssumption`: sizes are naturals).  `LoopInvariant`: the
inductive invariant `IInv` says that `l .. r` is the part not looked at; that
below it no stab of the type starts after the address and `left` is the last of
them (`BelowPart`); that above it all do and the first is right behind `right`
(`AbovePart`); that the scan back has passed no stab of the type (`ScanPart`);
and that `addr` is the argument or, after an exact match, one more (`OrderPart`).
`SearchFinds` (`FoundIsBracketed`) holds under the premises it states: no stab
right behind the address (`Separate`; without it the statement is false, see
the findings) and an address that is not the largest, which `addr++` would wrap.
`SearchMisses` proves `NoMatchIsEmpty`, and `TypeCorrect` that every index stays in
the region it was given, or one position beside it.

**DebugInfo** (`InfoAssumption`: the tables are `Linked`).  `IInfo` adds to `IInv`: while a search runs, its
arguments are the ones that `debuginfo_eip` gave it (`CallPart`), so that what `DonePart` says of the end of a
search speaks of the file, or of the function in that file; `FilePart` keeps what the
first search found; `FunctionPart` follows the function, the source found by going
backwards and the arguments counted, `NoFunctionPart` a file without functions;
`FailPart` is the empty answer.  `DonePart` has one case that the properties
of the search alone do not need: if all stabs of the type start behind the address,
`*region_left` is still where the search began, or at a stab of the type, which
`debuginfo_eip` takes for "no function" or for the function of the wrong case named
in the findings.  `InfoTypeTheorem` and `InfoSearchTheorem` carry `TypeOK`, `FoundIsBracketed` and
`NoMatchIsEmpty` over to both searches, the former with `RegionGiven`: the first search gets the whole
table, the second what the first one found; `InfoTheorem` is `InfoIsRight`, for tables of any length, with
the premises that the property states (`Apart`, an address that is not the largest,
a string table that was accepted).

**StringLib** (`StringAssumption`: sizes are naturals, `WORD` at least 1; blocks to be
moved lie in memory; calls are `Proper`).  `MovesAreRight` is `MovesAreCopies`, for every memory, place,
length and word size.  The invariant counts how many units are moved: memory is
the final memory (`Moved`) in the part already done, from below or, with the direction
flag set, from above, and the initial memory everywhere else; and `df` is set only if
the source starts below the destination and reaches into it.  What the next unit
reads is therefore still what was there at the start, because the part already
written lies on the other side of it.

`StringsTheorem` is `StringsAreRight`, for every proper call of the twelve functions on strings,
with an invariant of their own, `SInv`: no byte passed over ends the loop (`PassedPart`);
the counter and the second pointer keep step with the first (`CountPart`);
and what a copy has written is the beginning of the source as it was, and zeros
behind its end (`CopyPart`).  For each function one lemma says that where
the loop stops is where `Result` and `Written` say, the least element of a set, and one that a
turn keeps the invariant; `CopyReads` that no copy reads what it wrote (`CopyHasRoom`), and
`LengthOf` that a string that ends has a length.

`NumberTheorem` is `NumberIsRight`, for every memory, base and
number of bits.  The invariant `NInv` goes through `strtol`'s three loops: before the sign only white
space has been passed (`WhitePart`); behind it, the digits have started where `FirstDigit`
says, and the value so far, read on with the digits that are left, gives the value of
all of them (`ReadPart`, `Completes`).  The value so far is the wrapped one, and that
wrapping at each digit does no harm is what the lemmas on `Wrapped` say.  Powers are a
recursive function in the model; what they and `LastDigits` compute is proved by induction,
in the form described under Monitor.

**KernelStart** (`StartAssumption`: the kernel's pages lie from 1 to 2 MB, in the
first page table, apart from the BSS; `KERNBASE` is the start of a page table).
The inductive invariant ties each place in the code to what the machine must be
like there: the state of the 8042 up to line 20, what is loaded, `cr3` and paging,
`crt_buf`.  Lemmas compute the walk of the two page tables, for low addresses to read
and for high addresses to read and write.  `AccessTheorem`, `MemoryTheorem` and
`TypeCorrect` follow.

The same invariant, with one more part, gives `PanicTheorem` (`PanicReportedOnce`).
`ReportPart` looks at the places that control is at or will return to (`Live`): each
place in the report of a panic has its stage, the number of things reported when
control is there, so a panic in the middle of a report never lets it continue or start
again; and `fmt` is the first panic's message once there is one.

**ConsoleInput, order** (`OrderTheorem`, `InOrder`).  `OrderPart`: for each device, what is
unread in the buffer followed by what is still in the device is a `Line`, numbers that rise
from above `last`, the last one read, to `sent`.  `Line` survives reading a datum,
storing it, emptying the buffer, fetching, and a datum without a character.

**Keyboard** (`KeysAssumption`: keys are indices of `normalmap`, none of them 96 or 224,
which would be an escape byte).  The invariant adds `Whole(fifo)` to the properties: what is in the controller
is whole key events, an escape before exactly the bytes that need one, save that the
first may have lost its escape to `E0ESC`.  The key tables are constants of the model as
they are of the code; lemmas say what the proofs need of them (which entries are modifiers,
locks, letters, and that lower, upper and control maps agree on the letters), proved by
going through their rows.  `TypeTheorem`, `EscapeTheorem`, `ModifierTheorem` and `LetterTheorem` follow;
`EventsTheorem` is the refinement of `KeyEvents`: an escape is a stutter, each other byte
the event it ends (`FlagByFlag` leads from `AfterPress` to what `KeyEvents` says).
`LetterTheorem` rests on one part more, `CapsPart`: the flag CAPSLOCK is on exactly if that key
has gone down an odd number of times.  `RebootTheorem` assumes keyboards with one Ctrl and one Alt key (the run
`keyboard` has such a keyboard): with two, releasing one clears the flag while the other
is held.  `OnlyChordTheorem` has no such premise: no restart without Ctrl, Alt and Del.

**ConsoleOutput** (`OutputAssumption`).  For each port the invariant says what has been
passed to it (`Passed(..)`, c or c - 1, by the place in `cons_putc`): what came out and
what is in the port's register are characters in rising order up to there
(`SerialPart`, `PrinterPart`), and all of them if no wait was given up; the display
shows all (`DisplayPart`).  While the strobe is pulsed the data register holds `c`.
`OrderTheorem` and `LossTheorem` follow, for any number of characters and any patience.

**Printf** (`PrintfAssumption`: formats and strings hold no NUL, directives are as `Directive` says, sizes
are integers).  `Printf` shares no name with `ConsoleOutput`, so that one module has the
theorems of both.
`BufferPart` adds to `BufferHoldsPrefix` that `cnt` counts the whole output; then a character more
is appended exactly if the buffer was not full (`PrefixNext`).  `UInv` says, of a
format that has no conversion and no `%` but at its start, that what is printed or about to be
printed is the format up to `pos`, and that in the switch nothing is printed yet and
`pos` is behind the `%`.  As no other `%` is there, `Unknown` goes back to the second
character, over however many flags and digits were read (`LastDigit`).  A
rendered directive is not such a format (`RenderConverts`).  `BufferTheorem` and `UnknownTheorem`
follow, for formats, arguments and buffers of every size.

`MeaningTheorem` is `DirectivePrintsMeaning`, for every directive, string, argument and
number of bits.  It has two halves.  `PrintnumIs`: for a number to be printed in a base
from 2 to 16, what the recursion of `printnum` puts behind each other is `Padded`, the
`Numeral` behind as much padding as the width leaves; by induction over the number, from
`NumeralLonger` (a numeral is that of the quotient and one digit more), which rests on
dividing twice being dividing by the product.  And `DInv`, an invariant with one part for each
stretch of the format: in front of the `%`; inside the directive, where `FlagsAt` says of every
place between the characters that `Render` writes what the flags must be by then (`RenderIs`
and `ChIn` say which characters these are, so no step but the one for that place
can be taken); behind it, where what was printed followed by what is waiting in `todo`
is the meaning; and at the end.  Two widths that are not positive do the same
(`SameWidth`): a negative `*` stays in `width` but is made 0 by a `.`, and no width
at all is -1.

**BootLoader** (`BootAssumption`: a sector has at least 2 bytes; the address space and the place
of the headers are whole sectors; the headers fit below the end of the address space).
`Boundary`, the set of sector starts, is reasoned about through the least multiple of
`SECTSIZE` above an address; nothing about division is assumed.  The parts of the image (`Parts`)
are the headers, part -1, and the segments.  As long as headers and sums are undisturbed
(`Undisturbed`: the premises of the properties), `ReadPart` ties `pa` and `offset` to the part being read, and
`LoadedPart` says that the sectors passed so far hold what the file has for them; sectors
shared by two parts may be read twice, with the same bytes.  `FootprintTheorem` and
`ImageTheorem` follow, for any number, order and overlap of segments, and wherever in one
of them the BSS lies: `ClearBss` changes no byte outside it.  The premise `NoWrap` of both is
that no sum of addresses reaches `Space`; the code checks nothing of the kind.

**Monitor and Display** (`DisplayAssumption`: a screen of at least one row and column;
`MonitorAssumption`).  Lemmas say what `cga_putc` does to a text that stands before the
cursor (`Shows`): a character written behind it makes it longer, also if the screen
scrolls, and a backspace shorter, also over the start of a row.  `LinePart`: `buf` holds the
line, with NULs for the white space that `runcmd` has passed.  `ArgPart`: `argv` has
the words that start where `runcmd` has been.  `TypeTheorem`, `ScreenTheorem`,
`LineTheorem` and `ArgumentsTheorem` follow; in the last, a word found in the buffer ends at the first
NUL, and that is where it ends in the line.  What a string does to the screen is a recursive function in `Display`;
that it exists, and what it computes, is proved by induction in the form that a
set of naturals that holds 0 and, with n, n + 1 is all of them (`NatInd`, from the
least element of the others), which needs no theorem with an operator as parameter.

Every invariant and every action property that a run checks is also proved
(`RebootIffChord` for keyboards with one Ctrl and one Alt key).  Only model-checked is liveness (`ReadersCatchUp`, `PutcReturns`, `PromptReturns`,
`Returns`, `Terminates`, `BootEnds`, `MonitorReached`), which TLAPS does not reach.

## 5. Findings

Places where the code does something else than a comment says; each has a run
that shows it.

1. `kern/console.c:326`: data that is not from the keyboard is not "ignored"
   (`console.c:325`) but left in the controller, where it blocks the keyboard.
2. `kern/kdebug.c:80`: after an exact match the search looks for `addr + 1`; a
   stab that starts there is taken for the one that contains `addr`.
3. `lib/printfmt.c:45`: the flag `-` pads a number on the left, with minus signs;
   `printfmt.c:107` calls it the "flag to pad on the right".

Seen on the way and modelled as the code has it; no run of its own shows them:

* 0 from `cons_getc` need not mean "none waiting" (`kern/console.c:409`): a burst
  of exactly `CONSBUFSIZE` characters disappears, as `LossIsWholeLaps` says.
* If every stab of the type starts behind the address, the region that
  `stab_binsearch` gives back is not empty, although `kern/kdebug.c:32-34` says
  that it would be.  In a file whose functions all start behind the address,
  `debuginfo_eip` therefore reports the stab of the file as a function
  (`InfoIsRight` excludes that case, in its wording).
* CapsLock toggles with each repeat while it is held.
* The two Shift keys share one flag, as do both Ctrl and both Alt keys: the
  first to come up clears it.
* `readline`: DEL in an empty line is inserted, being `>= ' '`; so are the key
  codes of the arrow block (0xE2 and up).  Its branch for a negative character
  never runs, as `getchar` does not return one.
* `ctlmap` has `KEY_HOME` at 0x97, where the other maps have it at 0xC7.
* `runcmd` reports too many arguments at the 16th, although `argv` has 16 places:
  one is for the final 0.
* `cprintf` always returns 0: `*cnt++` in `kern/printf.c:13` increments the
  pointer, not the counter.
* `%s` honours the width and pads, with zeros too (`lib/printfmt.c:178-187`), though "Space or
  zero padding and a field width are supported for the numeric formats only"
  (`lib/printfmt.c:12-13`).  `DirectivePrintsMeaning` states it as the code has it.
* `%e` of the smallest int indexes `error_string` at -2^31 (`lib/printfmt.c:167-168`), as
  `err = -err` leaves it negative; that it is then printed as a number, and no stray message,
  is owed to 32-bit addresses.
* `%.0s` prints the whole string: the 0 behind the point is taken for the flag.
  A sign and the `0x` of `%p` are printed before the padding and do not count.
* `readseg` rounds a segment down and may overwrite the end of an earlier one:
  "we load in increasing order" (`boot/main.c:86`) protects only against what is read
  behind a segment.  `Loadable` in `BootLoader` says which files are safe; the order
  is no part of it.  A kernel linked with `kern/kernel.ld` is such a file.
* `lpt_putc` ends its strobe by writing 0x08, which also lowers the
  printer's initialisation line.

## 6. What is not modelled

* The CRT controller's copy of the cursor, colour, the monochrome adapter.
  `cga_init` takes the cursor from the hardware unchecked; the model assumes it
  is on the screen.
* The content of messages, and `mon_kerninfo`'s arithmetic.
* Line numbers and the length of the function's name in `debuginfo_eip`.
* The C versions of `memset` and `memmove`, which are not built.
* In `KernelStart`: the descriptors of the bootstrap segments (flat, taken as the
  identity), the depth of the stacks, addresses within a page, and an 8042 that has
  not taken the datum for line 20 when the loader needs it.
* In `Printf`, text and messages beyond the few characters that differ in effect;
  in `BootLoader`, the ELF fields nobody reads and the disk's address registers.
* `inc/x86.h`: single instructions; they appear as the steps of the devices.
* Build, grading and linking (`GNUmakefile`, `gradelib.py`, `boot/sign.pl`, ...)
  and `user/`, `fs/`, which are not built.

## 7. Plan

All components are modelled, and all safety properties of the runs are proved.  What is
left:

1. Composition: the keyboard decoder as the `kbd` device of `ConsoleInput`.
2. `Display` with the colour attributes and the controller's copy of the cursor.
