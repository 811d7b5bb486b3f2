-------------------------- MODULE StringLib_proofs --------------------------
(***************************************************************************)
(* memmove, memcpy and memset do what MovesAreCopies says, for memory,     *)
(* words and calls of every size: however source and destination overlap,  *)
(* and whether bytes are moved or words, forwards or backwards. The        *)
(* functions on strings do what StringsAreRight says, for every proper     *)
(* call. strtol returns the number that NumberIsRight says, for every      *)
(* argument and base, and longs of any size.                               *)
(***************************************************************************)
EXTENDS StringLib, WellFoundedInduction, NaturalsInduction, TLAPS

m == call.n
src == call.src
dst == call.dst

\* What the string instruction still has to move, in bytes.
Left == n * unit

\* Memory in which the bytes of the destination from lo up to, but not
\* including, hi are what they should be, and the others untouched.
MovedFrom(lo, hi) == [a \in Addr |-> IF a \in lo .. hi - 1 THEN Moved[a] ELSE mem0[a]]

CallPart ==
  /\ call \in CallRecord /\ InMemory(call)
  /\ mem0 \in [Addr -> Byte]
  /\ unit \in Nat \ {0} /\ n \in Nat /\ df \in BOOLEAN
  /\ d \in Int /\ s \in Int

\* Before the loop nothing has been touched.
EntryPart == pc = "entry" => mem = mem0 /\ d = dst /\ s = src /\ ~df

\* In the loop: upwards, the first bytes are in place and both pointers are
\* behind them; downwards, the last ones.
LoopPart ==
  pc = "loop" =>
    /\ Left \in 0 .. m
    /\ ~df => /\ d = dst + (m - Left)
              /\ call.fn # "memset" => s = src + (m - Left)
              /\ mem = MovedFrom(dst, d)
    /\ df  => /\ d = dst + Left - unit /\ s = src + Left - unit
              /\ mem = MovedFrom(dst + Left, dst + m)

\* The direction is the one that does not destroy what is still to be moved.
DirectionPart ==
  pc = "loop" =>
    IF df THEN call.fn # "memset" /\ src < dst
    ELSE call.fn = "memset" \/ dst <= src \/ src + m <= dst

PlacePart == pc \in {"entry", "loop", "done"}

IInv ==
  call.fn \in BlockFunctions =>
    CallPart /\ PlacePart /\ EntryPart /\ LoopPart /\ DirectionPart /\ MovesAreCopies

\* The sizes and places are naturals, and blocks lie in memory.
LEMMA Ranges ==
  ASSUME CallPart
  PROVE  /\ Size \in Nat /\ WORD \in Nat \ {0}
         /\ m \in Nat /\ src \in Nat /\ dst \in Nat
         /\ call.fn \in BlockFunctions => src + m <= Size /\ dst + m <= Size
BY StringAssumption DEF CallPart, CallRecord, InMemory, m, src, dst

\* The inductive invariant holds at the call.
LEMMA InitHolds == Init => IInv
<1> SUFFICES ASSUME Init, call.fn \in BlockFunctions
             PROVE  CallPart /\ PlacePart /\ EntryPart /\ LoopPart /\ DirectionPart /\ MovesAreCopies
  BY DEF IInv
<1>1. PICK i \in Inputs : call = i.call /\ mem = i.mem  BY DEF Init
<1>2. i \in [call : CallRecord, mem : [Addr -> Byte]] /\ InMemory(i.call)
  BY StringAssumption
<1>3. pc = "entry"  BY DEF Init, BlockFunctions
<1>4. call \in CallRecord /\ InMemory(call) /\ mem \in [Addr -> Byte]  BY <1>1, <1>2
<1>5. n = call.n  BY DEF Init, BlockFunctions
<1>6. CallPart
  <2>1. mem0 = mem /\ unit = 1 /\ df = FALSE /\ s = call.src /\ d = call.dst  BY DEF Init
  <2>2. call.n \in Nat /\ call.src \in Int /\ call.dst \in Int
    BY <1>4, StringAssumption DEF CallRecord
  <2>3. mem0 \in [Addr -> Byte] /\ df \in BOOLEAN  BY <1>4, <2>1
  <2>4. unit \in Nat \ {0} /\ n \in Nat /\ d \in Int /\ s \in Int  BY <1>5, <2>1, <2>2
  <2> QED  BY <1>4, <2>3, <2>4 DEF CallPart
<1> QED
  BY <1>3, <1>6 DEF Init, PlacePart, EntryPart, LoopPart, DirectionPart, MovesAreCopies, Done, src, dst

\* One repetition less is one unit less.
LEMMA OneLess ==
  ASSUME NEW k \in Nat, NEW u \in Nat \ {0}, k > 0
  PROVE  /\ (k - 1) * u = k * u - u
         /\ k * u >= u
         /\ k - 1 \in Nat
         /\ (k - 1) * u >= 0
<1>1. (k - 1) * u = k * u - u  BY SMT
<1>2. \A x, y \in Nat : x * y \in Nat  BY SMT
<1>3. k - 1 \in Nat  BY SMT
<1>4. (k - 1) * u \in Nat  BY <1>2, <1>3
<1> QED  BY <1>1, <1>3, <1>4

\* Nothing is left over when everything is aligned.
LEMMA Whole ==
  ASSUME NEW k \in Nat, NEW u \in Nat \ {0}, k % u = 0
  PROVE  (k \div u) * u = k /\ k \div u \in Nat
<1>1. k = u * (k \div u) + (k % u)  BY SMT
<1>2. k \div u \in Nat  BY SMT
<1> QED  BY <1>1, <1>2, SMT

\* A range that ends before it starts is empty.
LEMMA Backwards ==
  ASSUME NEW k \in Int, NEW a
  PROVE  a \notin k .. k - 1
BY SMT

\* What MovedFrom holds at an address: in general, in the part moved, elsewhere.
LEMMA MovedAt ==
  ASSUME NEW lo \in Int, NEW hi \in Int, NEW a \in Addr
  PROVE  MovedFrom(lo, hi)[a] = IF a \in lo .. hi - 1 THEN Moved[a] ELSE mem0[a]
BY DEF MovedFrom

LEMMA MovedIn ==
  ASSUME NEW lo, NEW hi, NEW a \in Addr, a \in lo .. hi - 1
  PROVE  MovedFrom(lo, hi)[a] = Moved[a]
BY Zenon DEF MovedFrom

LEMMA NotMoved ==
  ASSUME NEW lo, NEW hi, NEW a \in Addr, a \notin lo .. hi - 1
  PROVE  MovedFrom(lo, hi)[a] = mem0[a]
BY Zenon DEF MovedFrom

\* Moving one unit upwards.
LEMMA Upwards ==
  ASSUME CallPart, call.fn \in BlockFunctions, call.fn # "memset", dst <= src \/ src + m <= dst,
         NEW done \in Nat, done + unit <= m, mem = MovedFrom(dst, dst + done)
  PROVE  [a \in Addr |-> IF a \in dst + done .. dst + done + unit - 1
                         THEN mem[src + done + (a - (dst + done))] ELSE mem[a]]
         = MovedFrom(dst, dst + done + unit)
<1> DEFINE new(a) == IF a \in dst + done .. dst + done + unit - 1
                     THEN mem[src + done + (a - (dst + done))] ELSE mem[a]
<1> SUFFICES ASSUME NEW a \in Addr
             PROVE  new(a) = MovedFrom(dst, dst + done + unit)[a]
  BY DEF MovedFrom
<1>0. unit \in Nat \ {0}  BY DEF CallPart
<1>1. CASE a \in dst + done .. dst + done + unit - 1
  <2> DEFINE b == src + done + (a - (dst + done))
  <2>1. b \in Addr /\ b = src + (a - dst) /\ b \notin dst .. dst + done - 1
    BY <1>0, <1>1, Ranges DEF Addr
  <2>2. mem[b] = mem0[b]  BY <2>1, MovedAt, Ranges
  <2>3. a \in dst .. dst + m - 1 /\ a \in dst .. (dst + done + unit) - 1
    BY <1>0, <1>1, Ranges DEF Addr
  <2>4. Moved[a] = mem0[b]  BY <2>1, <2>3 DEF Moved, m, src, dst
  <2>5. new(a) = mem[b]  BY <1>1
  <2>6. MovedFrom(dst, dst + done + unit)[a] = Moved[a]  BY <2>3, MovedIn, Zenon
  <2> HIDE DEF new, b
  <2> QED  BY <2>2, <2>4, <2>5, <2>6
<1>2. CASE a \notin dst + done .. dst + done + unit - 1
  <2>1. a \in dst .. (dst + done) - 1 <=> a \in dst .. (dst + done + unit) - 1
    BY <1>0, <1>2, Ranges DEF Addr
  <2>2. MovedFrom(dst, dst + done)[a] = MovedFrom(dst, dst + done + unit)[a]
    <3>1. CASE a \in dst .. (dst + done) - 1  BY <2>1, <3>1, MovedIn, Zenon
    <3>2. CASE a \notin dst .. (dst + done) - 1  BY <2>1, <3>2, NotMoved, Zenon
    <3> QED  BY <3>1, <3>2
  <2>3. new(a) = mem[a]  BY <1>2
  <2> HIDE DEF new
  <2> QED  BY <2>2, <2>3
<1> QED  BY <1>1, <1>2

\* Moving one unit downwards.
LEMMA Downwards ==
  ASSUME CallPart, call.fn \in BlockFunctions, call.fn # "memset", src < dst,
         NEW left \in Nat, left >= unit, left <= m, mem = MovedFrom(dst + left, dst + m)
  PROVE  [a \in Addr |-> IF a \in dst + left - unit .. dst + left - unit + unit - 1
                         THEN mem[src + left - unit + (a - (dst + left - unit))] ELSE mem[a]]
         = MovedFrom(dst + left - unit, dst + m)
<1> DEFINE new(a) == IF a \in dst + left - unit .. dst + left - unit + unit - 1
                     THEN mem[src + left - unit + (a - (dst + left - unit))] ELSE mem[a]
<1> SUFFICES ASSUME NEW a \in Addr
             PROVE  new(a) = MovedFrom(dst + left - unit, dst + m)[a]
  BY DEF MovedFrom
<1>0. unit \in Nat \ {0}  BY DEF CallPart
<1>1. CASE a \in dst + left - unit .. dst + left - unit + unit - 1
  <2> DEFINE b == src + left - unit + (a - (dst + left - unit))
  <2>1. b \in Addr /\ b = src + (a - dst) /\ b \notin dst + left .. dst + m - 1
    BY <1>0, <1>1, Ranges DEF Addr
  <2>2. mem[b] = mem0[b]  BY <2>1, MovedAt, Ranges
  <2>3. a \in dst .. dst + m - 1 /\ a \in dst + left - unit .. (dst + m) - 1
    BY <1>0, <1>1, Ranges DEF Addr
  <2>4. Moved[a] = mem0[b]  BY <2>1, <2>3 DEF Moved, m, src, dst
  <2>5. new(a) = mem[b]  BY <1>1
  <2>6. MovedFrom(dst + left - unit, dst + m)[a] = Moved[a]  BY <2>3, MovedIn, Zenon
  <2> HIDE DEF new, b
  <2> QED  BY <2>2, <2>4, <2>5, <2>6
<1>2. CASE a \notin dst + left - unit .. dst + left - unit + unit - 1
  <2>1. a \in dst + left .. (dst + m) - 1 <=> a \in dst + left - unit .. (dst + m) - 1
    BY <1>0, <1>2, Ranges DEF Addr
  <2>2. MovedFrom(dst + left, dst + m)[a] = MovedFrom(dst + left - unit, dst + m)[a]
    <3>1. CASE a \in dst + left .. (dst + m) - 1  BY <2>1, <3>1, MovedIn, Zenon
    <3>2. CASE a \notin dst + left .. (dst + m) - 1  BY <2>1, <3>2, NotMoved, Zenon
    <3> QED  BY <3>1, <3>2
  <2>3. new(a) = mem[a]  BY <1>2
  <2> HIDE DEF new
  <2> QED  BY <2>2, <2>3
<1> QED  BY <1>1, <1>2

\* Filling one unit.
LEMMA Fills ==
  ASSUME CallPart, call.fn = "memset",
         NEW done \in Nat, done + unit <= m, mem = MovedFrom(dst, dst + done)
  PROVE  [a \in Addr |-> IF a \in dst + done .. dst + done + unit - 1 THEN call.c % 256 ELSE mem[a]]
         = MovedFrom(dst, dst + done + unit)
<1> DEFINE new(a) == IF a \in dst + done .. dst + done + unit - 1 THEN call.c % 256 ELSE mem[a]
<1> SUFFICES ASSUME NEW a \in Addr
             PROVE  new(a) = MovedFrom(dst, dst + done + unit)[a]
  BY DEF MovedFrom
<1>0. unit \in Nat \ {0}  BY DEF CallPart
<1>1. CASE a \in dst + done .. dst + done + unit - 1
  <2>1. a \in dst .. dst + m - 1 /\ a \in dst .. (dst + done + unit) - 1
    BY <1>0, <1>1, Ranges DEF Addr
  <2>2. Moved[a] = call.c % 256  BY <2>1 DEF Moved, m, dst
  <2>3. MovedFrom(dst, dst + done + unit)[a] = Moved[a]  BY <2>1, MovedIn, Zenon
  <2>4. new(a) = call.c % 256  BY <1>1
  <2> HIDE DEF new
  <2> QED  BY <2>2, <2>3, <2>4
<1>2. CASE a \notin dst + done .. dst + done + unit - 1
  <2>1. a \in dst .. (dst + done) - 1 <=> a \in dst .. (dst + done + unit) - 1
    BY <1>0, <1>2, Ranges DEF Addr
  <2>2. MovedFrom(dst, dst + done)[a] = MovedFrom(dst, dst + done + unit)[a]
    <3>1. CASE a \in dst .. (dst + done) - 1  BY <2>1, <3>1, MovedIn, Zenon
    <3>2. CASE a \notin dst .. (dst + done) - 1  BY <2>1, <3>2, NotMoved, Zenon
    <3> QED  BY <3>1, <3>2
  <2>3. new(a) = mem[a]  BY <1>2
  <2> HIDE DEF new
  <2> QED  BY <2>2, <2>3
<1> QED  BY <1>1, <1>2

\* When nothing has been moved memory is as it was, and when all has been, it
\* is what was promised.
LEMMA NoneAndAll ==
  ASSUME CallPart, call.fn \in BlockFunctions
  PROVE  /\ MovedFrom(dst, dst) = mem0
         /\ MovedFrom(dst + m, dst + m) = mem0
         /\ MovedFrom(dst, dst + m) = Moved
<1>1. mem0 = [a \in Addr |-> mem0[a]]  BY DEF CallPart
<1>2. \A a \in Addr : MovedFrom(dst, dst)[a] = mem0[a] /\ MovedFrom(dst + m, dst + m)[a] = mem0[a]
  <2> SUFFICES ASSUME NEW a \in Addr
               PROVE  MovedFrom(dst, dst)[a] = mem0[a] /\ MovedFrom(dst + m, dst + m)[a] = mem0[a]
    OBVIOUS
  <2>1. ASSUME NEW k \in Int  PROVE MovedFrom(k, k)[a] = mem0[a]
    BY Backwards DEF MovedFrom
  <2>2. dst \in Int /\ dst + m \in Int  BY Ranges
  <2> QED  BY <2>1, <2>2
<1>3. MovedFrom(dst, dst) = mem0
  <2>1. MovedFrom(dst, dst) = [a \in Addr |-> MovedFrom(dst, dst)[a]]  BY DEF MovedFrom
  <2> QED  BY <1>1, <1>2, <2>1
<1>6. MovedFrom(dst + m, dst + m) = mem0
  <2>1. MovedFrom(dst + m, dst + m) = [a \in Addr |-> MovedFrom(dst + m, dst + m)[a]]
    BY DEF MovedFrom
  <2> QED  BY <1>1, <1>2, <2>1
<1>4. \A a \in Addr : a \notin dst .. dst + m - 1 => Moved[a] = mem0[a]
  BY DEF Moved, m, dst
<1>5. Moved = [a \in Addr |-> Moved[a]]  BY DEF Moved
<1>7. MovedFrom(dst, dst + m) = Moved
  <2>1. \A a \in Addr : MovedFrom(dst, dst + m)[a] = Moved[a]  BY <1>4, MovedAt, Ranges
  <2>2. MovedFrom(dst, dst + m) = [a \in Addr |-> MovedFrom(dst, dst + m)[a]]  BY DEF MovedFrom
  <2> QED  BY <1>5, <2>1, <2>2
<1> QED  BY <1>3, <1>6, <1>7

\* Entering the loop: everything is still to be moved, in the direction that
\* the overlap asks for.
LEMMA StartKeeps ==
  ASSUME IInv, call.fn \in BlockFunctions, SetStart \/ MoveStart
  PROVE  CallPart' /\ PlacePart' /\ EntryPart' /\ LoopPart' /\ DirectionPart' /\ MovesAreCopies'
<1> USE DEF IInv
<1>1. /\ pc = "entry" /\ pc' = "loop"
      /\ call' = call /\ mem0' = mem0 /\ mem' = mem
      /\ unit' \in {1, WORD} /\ n' = m \div unit'
      /\ m % unit' = 0
  BY Ranges DEF SetStart, MoveStart, Aligned, m
<1>2. /\ mem = mem0 /\ d = dst /\ s = src  BY <1>1 DEF EntryPart
<1>3. /\ unit' \in Nat \ {0} /\ n' \in Nat /\ n' * unit' = m
  <2>1. unit' \in Nat \ {0} /\ m \in Nat  BY <1>1, Ranges
  <2> QED  BY <1>1, <2>1, Whole
<1>4. /\ df' \in BOOLEAN
      /\ ~df' => d' = dst /\ s' = src
      /\ df'  => d' = dst + m - unit' /\ s' = src + m - unit'
      /\ df' <=> (call.fn # "memset" /\ Overlap)
  <2>1. CASE SetStart
    <3>1. df' = FALSE /\ d' = d /\ s' = s /\ call.fn = "memset"  BY <2>1 DEF SetStart
    <3> QED  BY <1>2, <3>1
  <2>2. CASE MoveStart
    <3>1. /\ df' = Overlap /\ call.fn # "memset"
          /\ s' = IF Overlap THEN src + m - unit' ELSE src
          /\ d' = IF Overlap THEN dst + m - unit' ELSE dst
      BY <2>2 DEF MoveStart, m, src, dst
    <3>2. Overlap \in BOOLEAN  BY DEF Overlap
    <3> QED  BY <3>1, <3>2
  <2> QED  BY <2>1, <2>2
<1>5. m' = m /\ src' = src /\ dst' = dst /\ Left' = m  BY <1>1, <1>3 DEF m, src, dst, Left
<1>6. mem' = MovedFrom(dst, dst)' /\ mem' = MovedFrom(dst + m, dst + m)'
  <2>1. MovedFrom(dst, dst)' = MovedFrom(dst, dst) /\ MovedFrom(dst + m, dst + m)' = MovedFrom(dst + m, dst + m)
    BY <1>1, <1>5 DEF MovedFrom, Moved
  <2> QED  BY <1>1, <1>2, <2>1, NoneAndAll
<1>7. CallPart'
  <2>1. d' \in Int /\ s' \in Int  BY <1>3, <1>4, Ranges
  <2>2. InMemory(call)' = InMemory(call)  BY <1>1 DEF InMemory
  <2> QED  BY <1>1, <1>3, <1>4, <2>1, <2>2 DEF CallPart
<1>8. LoopPart'
  <2>1. Left' \in 0 .. m'  BY <1>5, Ranges
  <2>2. CASE ~df'
    <3>1. d' = dst + (m - Left') /\ s' = src + (m - Left') /\ d' = dst  BY <1>4, <1>5, <2>2, Ranges
    <3> QED  BY <1>5, <1>6, <2>1, <2>2, <3>1 DEF LoopPart
  <2>3. CASE df'
    <3>1. d' = dst + Left' - unit' /\ s' = src + Left' - unit'  BY <1>4, <1>5, <2>3
    <3> QED  BY <1>5, <1>6, <2>1, <2>3, <3>1 DEF LoopPart
  <2> QED  BY <1>4, <2>2, <2>3
<1>9. DirectionPart'
  <2>1. Overlap <=> (src < dst /\ src + m > dst)  BY DEF Overlap, src, dst, m
  <2>2. CASE df'  BY <1>1, <1>4, <1>5, <2>1, <2>2 DEF DirectionPart
  <2>3. CASE ~df'
    <3>1. call.fn = "memset" \/ dst <= src \/ src + m <= dst  BY <1>4, <2>1, <2>3, Ranges
    <3> QED  BY <1>1, <1>5, <2>3, <3>1 DEF DirectionPart
  <2> QED  BY <1>4, <2>2, <2>3
<1> QED
  BY <1>1, <1>7, <1>8, <1>9 DEF PlacePart, EntryPart, MovesAreCopies, Done

\* One repetition of the string instruction.
LEMMA TurnKeeps ==
  ASSUME IInv, call.fn \in BlockFunctions, (Stos /\ n > 0) \/ Movs
  PROVE  CallPart' /\ PlacePart' /\ EntryPart' /\ LoopPart' /\ DirectionPart' /\ MovesAreCopies'
<1> USE DEF IInv
<1>1. /\ pc = "loop" /\ pc' = "loop" /\ n > 0 /\ n' = n - 1
      /\ call' = call /\ mem0' = mem0 /\ unit' = unit /\ df' = df
  BY DEF Stos, Movs, Is, Turn, regs
<1>2. /\ n \in Nat /\ unit \in Nat \ {0} /\ m \in Nat /\ src \in Nat /\ dst \in Nat
      /\ s \in Int /\ d \in Int
  BY Ranges DEF CallPart
<1>3. /\ m' = m /\ src' = src /\ dst' = dst  BY <1>1 DEF m, src, dst
<1>4. /\ Left \in 0 .. m /\ Left >= unit
      /\ n' \in Nat /\ Left' = Left - unit /\ Left' \in 0 .. m
  <2>1. Left \in 0 .. m  BY <1>1 DEF LoopPart
  <2>2. /\ (n - 1) * unit = n * unit - unit /\ n * unit >= unit
        /\ n - 1 \in Nat /\ (n - 1) * unit >= 0
    BY <1>1, <1>2, OneLess
  <2> QED  BY <1>1, <1>2, <2>1, <2>2 DEF Left
<1>5. CallPart'
  <2>1. InMemory(call)' = InMemory(call)  BY <1>1 DEF InMemory
  <2>2. d' \in Int /\ s' \in Int
    BY <1>2 DEF Stos, Movs, Turn, Step
  <2> QED  BY <1>1, <1>2, <1>4, <2>1, <2>2 DEF CallPart
<1>6. DirectionPart'  BY <1>1, <1>3 DEF DirectionPart
<1>7. \A lo, hi \in Int : MovedFrom(lo, hi)' = MovedFrom(lo, hi)
  BY <1>1 DEF MovedFrom, Moved
<1>8. ASSUME Stos, n > 0  PROVE LoopPart'
  <2>1. /\ call.fn = "memset" /\ ~df /\ d' = d + unit
        /\ mem' = [a \in Addr |-> IF a \in d .. d + unit - 1 THEN call.c % 256 ELSE mem[a]]
    BY <1>1, <1>8 DEF Stos, Is, Turn, DirectionPart
  <2> DEFINE done == m - Left
  <2>2. done \in Nat /\ done + unit <= m /\ d = dst + done /\ mem = MovedFrom(dst, dst + done)
    BY <1>1, <1>2, <1>4, <2>1 DEF LoopPart
  <2>3. mem' = MovedFrom(dst, dst + done + unit)
    <3> HIDE DEF done
    <3> QED  BY <2>1, <2>2, Fills
  <2>4. d' = dst + (m - Left') /\ dst + done + unit = d'
    BY <1>2, <1>4, <2>1, <2>2
  <2>5. mem' = MovedFrom(dst, d)'
    BY <1>1, <1>3, <2>3, <2>4 DEF MovedFrom, Moved
  <2> QED  BY <1>1, <1>3, <1>4, <2>1, <2>4, <2>5 DEF LoopPart
<1>9. ASSUME Movs, ~df  PROVE LoopPart'
  <2>1. /\ call.fn # "memset" /\ d' = d + unit /\ s' = s + unit
        /\ mem' = [a \in Addr |-> IF a \in d .. d + unit - 1 THEN mem[s + (a - d)] ELSE mem[a]]
    BY <1>9 DEF Movs, Is, Turn, Step
  <2> DEFINE done == m - Left
  <2>2. /\ done \in Nat /\ done + unit <= m /\ d = dst + done /\ s = src + done
        /\ mem = MovedFrom(dst, dst + done)
    BY <1>1, <1>2, <1>4, <1>9, <2>1 DEF LoopPart
  <2>3. dst <= src \/ src + m <= dst  BY <1>1, <1>9, <2>1 DEF DirectionPart
  <2>4. mem' = MovedFrom(dst, dst + done + unit)
    <3> HIDE DEF done
    <3> QED  BY <2>1, <2>2, <2>3, Upwards
  <2>5. d' = dst + (m - Left') /\ s' = src + (m - Left') /\ dst + done + unit = d'
    BY <1>2, <1>4, <2>1, <2>2
  <2>6. mem' = MovedFrom(dst, d)'
    BY <1>1, <1>3, <2>4, <2>5 DEF MovedFrom, Moved
  <2> QED  BY <1>1, <1>3, <1>4, <1>9, <2>5, <2>6 DEF LoopPart
<1>10. ASSUME Movs, df  PROVE LoopPart'
  <2>1. /\ call.fn # "memset" /\ d' = d + -unit /\ s' = s + -unit
        /\ mem' = [a \in Addr |-> IF a \in d .. d + unit - 1 THEN mem[s + (a - d)] ELSE mem[a]]
    BY <1>10 DEF Movs, Is, Turn, Step
  <2>2. /\ d = dst + Left - unit /\ s = src + Left - unit
        /\ mem = MovedFrom(dst + Left, dst + m)
    BY <1>1, <1>10 DEF LoopPart
  <2>3. src < dst  BY <1>1, <1>10 DEF DirectionPart
  <2>4. mem' = MovedFrom(dst + Left - unit, dst + m)
    BY <1>4, <2>1, <2>2, <2>3, Downwards
  <2>5. d' = dst + Left' - unit /\ s' = src + Left' - unit /\ dst + Left - unit = dst + Left'
    BY <1>2, <1>4, <2>1, <2>2
  <2>6. mem' = MovedFrom(dst + Left, dst + m)'
    BY <1>1, <1>3, <2>4, <2>5 DEF MovedFrom, Moved
  <2> QED  BY <1>1, <1>3, <1>4, <1>10, <2>5, <2>6 DEF LoopPart
<1>11. LoopPart'  BY <1>8, <1>9, <1>10 DEF CallPart
<1> QED
  BY <1>1, <1>5, <1>6, <1>11 DEF PlacePart, EntryPart, MovesAreCopies, Done

\* Nothing is left to be moved.
LEMMA EndKeeps ==
  ASSUME IInv, call.fn \in BlockFunctions, (Stos /\ ~(n > 0)) \/ MoveEnd
  PROVE  CallPart' /\ PlacePart' /\ EntryPart' /\ LoopPart' /\ DirectionPart' /\ MovesAreCopies'
<1> USE DEF IInv
<1>1. /\ pc = "loop" /\ pc' = "done" /\ n = 0 /\ ret' = call.dst /\ df' \in BOOLEAN
      /\ call' = call /\ mem0' = mem0 /\ mem' = mem /\ unit' = unit /\ n' = n /\ s' = s /\ d' = d
  <2>1. CASE Stos /\ ~(n > 0)
    BY <2>1 DEF Stos, Is, Return, Finish, regs, CallPart
  <2>2. CASE MoveEnd  BY <2>2 DEF MoveEnd, Is
  <2> QED  BY <2>1, <2>2
<1>2. ~df'
  <2>1. CASE Stos /\ ~(n > 0)
    <3>1. ~df /\ df' = df  BY <1>1, <2>1 DEF Stos, Is, Return, Finish, regs, DirectionPart
    <3> QED  BY <3>1
  <2>2. CASE MoveEnd  BY <2>2 DEF MoveEnd
  <2> QED  BY <2>1, <2>2
<1>3. Left = 0  BY <1>1 DEF Left, CallPart
<1>4. mem = Moved
  <2>1. mem = MovedFrom(dst, dst + m)
    BY <1>1, <1>3, Ranges DEF LoopPart, CallPart
  <2> QED  BY <2>1, NoneAndAll
<1>5. CallPart'
  <2>1. InMemory(call)' = InMemory(call)  BY <1>1 DEF InMemory
  <2> QED  BY <1>1, <2>1 DEF CallPart
<1>6. MovesAreCopies'
  <2>1. Moved' = Moved  BY <1>1 DEF Moved
  <2> QED  BY <1>1, <1>2, <1>4, <2>1 DEF MovesAreCopies
<1> QED
  BY <1>1, <1>5, <1>6 DEF PlacePart, EntryPart, LoopPart, DirectionPart

\* Every step keeps it: one of the block functions, as above, or one of another
\* function, about which it says nothing.
LEMMA NextKeeps == IInv /\ [Next]_vars => IInv'
<1> SUFFICES ASSUME IInv, [Next]_vars, call'.fn \in BlockFunctions
             PROVE  (CallPart /\ PlacePart /\ EntryPart /\ LoopPart /\ DirectionPart /\ MovesAreCopies)'
  BY DEF IInv
<1>1. CASE UNCHANGED vars
  <2>1. call' = call /\ mem0' = mem0 /\ mem' = mem /\ unit' = unit /\ n' = n /\ s' = s /\ d' = d
        /\ df' = df /\ pc' = pc /\ ret' = ret
    BY <1>1 DEF vars, regs
  <2> QED
    BY <2>1 DEF IInv, CallPart, InMemory, PlacePart, EntryPart, LoopPart, DirectionPart,
                MovesAreCopies, Done, Moved, MovedFrom, Left, m, src, dst
<1>2. CASE Strings
  <2>1. call.fn \notin BlockFunctions /\ call' = call
    BY <1>2 DEF Strings, strlen, strnlen, strcpy, strcat, strncpy, strlcpy, strcmp, strncmp, strchr,
         strfind, memcmp, memfind, Is, Turn, Return, Finish, BlockFunctions
  <2> QED  BY <2>1
<1>3. CASE strtol
  <2>1. call.fn \notin BlockFunctions /\ call' = call
    BY <1>3 DEF strtol, White, Sign, Digits, EndOfNumber, Is, Return, Finish, BlockFunctions
  <2> QED  BY <2>1
<1>4. CASE Blocks
  <2>1. call' = call
    BY <1>4 DEF Blocks, SetStart, Stos, MoveStart, Movs, MoveEnd, Turn, Return, Finish
  <2> QED  BY <1>4, <2>1, StartKeeps, TurnKeeps, EndKeeps DEF Blocks
<1> QED  BY <1>1, <1>2, <1>3, <1>4 DEF Next

\* memmove, memcpy and memset leave what a move through a copy would leave.
THEOREM MovesAreRight == Spec => []MovesAreCopies
<1>1. IInv => MovesAreCopies  BY DEF IInv, MovesAreCopies
<1> QED  BY <1>1, InitHolds, NextKeeps, PTL DEF Spec

-----------------------------------------------------------------------------
(* Least elements, and the lengths of strings.                             *)

\* A set of naturals has a least element.
LEMMA Least ==
  ASSUME NEW T, T \subseteq Nat, T # {}
  PROVE  \E x \in T : \A y \in T : x <= y
<1> DEFINE R == {ss \in Nat \X Nat : ss[1] < ss[2]}
<1>1. IsWellFoundedOn(R, Nat)
  BY NatLessThanWellFounded DEF OpToRel
<1>2. PICK x \in T : \A y \in T : ~(<<y, x>> \in R)
  <2> HIDE DEF R
  <2> QED  BY <1>1, WFMin
<1>3. \A y \in T : ~(y < x)  BY <1>2
<1> QED  BY <1>2, <1>3

\* Min is the least element, and First that or the default.
LEMMA MinIs ==
  ASSUME NEW T, T \subseteq Int, NEW x \in T, \A y \in T : x <= y
  PROVE  Min(T) = x
<1>1. \A z \in T : (\A y \in T : z <= y) => z = x  OBVIOUS
<1>2. Min(T) = CHOOSE z \in T : \A y \in T : z <= y  BY Zenon DEF Min
<1> QED  BY <1>1, <1>2

LEMMA FirstIs ==
  ASSUME NEW T, T \subseteq Int, NEW x \in T, \A y \in T : x <= y, NEW none
  PROVE  First(T, none) = x
BY MinIs DEF First

LEMMA FirstNone ==
  ASSUME NEW T, T = {}, NEW none
  PROVE  First(T, none) = none
BY DEF First

\* The smaller of two numbers.
LEMMA MinOfTwo ==
  ASSUME NEW x \in Int, NEW y \in Int
  PROVE  Min({x, y}) = IF x <= y THEN x ELSE y
<1>1. CASE x <= y
  <2>1. Min({x, y}) = x
    <3> DEFINE T == {x, y}
    <3>1. T \subseteq Int /\ x \in T /\ \A z \in T : x <= z  BY <1>1
    <3> HIDE DEF T
    <3>2. Min(T) = x  BY <3>1, MinIs
    <3> QED  BY <3>2 DEF T
  <2> QED  BY <1>1, <2>1
<1>2. CASE ~(x <= y)
  <2>1. Min({x, y}) = y
    <3> DEFINE T == {x, y}
    <3>1. T \subseteq Int /\ y \in T /\ \A z \in T : y <= z  BY <1>2
    <3> HIDE DEF T
    <3>2. Min(T) = y  BY <3>1, MinIs
    <3> QED  BY <3>2 DEF T
  <2> QED  BY <1>2, <2>1
<1> QED  BY <1>1, <1>2

\* The length is where the first 0 is.
LEMMA LengthIs ==
  ASSUME NEW mm, NEW a \in Nat, NEW l \in Nat, a + l < Size,
         mm[a + l] = 0, \A i \in 0 .. l - 1 : mm[a + i] # 0
  PROVE  Length(mm, a) = l
<1> DEFINE T == {k \in 0 .. Size - 1 - a : mm[a + k] = 0}
<1>1. T \subseteq Int /\ l \in T  BY StringAssumption
<1>2. \A y \in T : l <= y  BY StringAssumption
<1> HIDE DEF T
<1>3. Min(T) = l  BY <1>1, <1>2, MinIs
<1> QED  BY <1>3 DEF Length, T

\* A string that ends has a length.
LEMMA LengthOf ==
  ASSUME NEW mm, NEW a \in Nat, Ends(mm, a)
  PROVE  /\ Length(mm, a) \in Nat
         /\ a + Length(mm, a) < Size
         /\ mm[a + Length(mm, a)] = 0
         /\ \A i \in 0 .. Length(mm, a) - 1 : mm[a + i] # 0
<1> DEFINE T == {k \in 0 .. Size - 1 - a : mm[a + k] = 0}
<1>1. PICK e \in a .. Size - 1 : mm[e] = 0  BY DEF Ends
<1>2. e - a \in T /\ T \subseteq Nat
  <2>1. e - a \in 0 .. Size - 1 - a /\ a + (e - a) = e  BY <1>1, StringAssumption
  <2> QED  BY <1>1, <2>1, StringAssumption
<1>3. PICK l \in T : \A y \in T : l <= y
  <2> HIDE DEF T
  <2> QED  BY <1>2, Least
<1>4. l \in Nat /\ a + l < Size /\ mm[a + l] = 0  BY <1>3, StringAssumption
<1>5. \A i \in 0 .. l - 1 : mm[a + i] # 0
  <2> SUFFICES ASSUME NEW i \in 0 .. l - 1, mm[a + i] = 0  PROVE FALSE  OBVIOUS
  <2>1. i \in T  BY <1>4, StringAssumption
  <2> QED  BY <1>3, <1>4, <2>1
<1>6. Length(mm, a) = l  BY <1>4, <1>5, LengthIs
<1> QED  BY <1>4, <1>5, <1>6

-----------------------------------------------------------------------------
(* Replaced text.                                                          *)

\* Nothing replaced; one byte more replaced; the same bytes; other places.
LEMMA ReplacedNone ==
  ASSUME NEW mm \in [Addr -> Byte], NEW a \in Nat, NEW text
  PROVE  Replaced(mm, a, 0, text) = mm
<1>1. \A b : b \notin a .. a + 0 - 1  OBVIOUS
<1>2. Replaced(mm, a, 0, text) = [b \in Addr |-> mm[b]]  BY <1>1 DEF Replaced
<1> QED  BY <1>2

LEMMA ReplacedNext ==
  ASSUME NEW mm, NEW a \in Nat, NEW l \in Nat, NEW text, NEW v, v = text[l]
  PROVE  [Replaced(mm, a, l, text) EXCEPT ![a + l] = v] = Replaced(mm, a, l + 1, text)
<1> DEFINE old == Replaced(mm, a, l, text)
           new == Replaced(mm, a, l + 1, text)
<1>1. DOMAIN old = Addr /\ old = [b \in Addr |-> old[b]]  BY DEF Replaced
<1>2. new = [b \in Addr |-> new[b]]  BY DEF Replaced
<1>3. ASSUME NEW b \in Addr  PROVE [old EXCEPT ![a + l] = v][b] = new[b]
  <2>0. b \in Nat  BY StringAssumption DEF Addr
  <2>1. CASE b = a + l
    <3>1. b \in a .. a + (l + 1) - 1 /\ b - a = l  BY <2>0, <2>1
    <3>2. new[b] = text[l]  BY <3>1 DEF Replaced
    <3>3. [old EXCEPT ![a + l] = v][b] = v
      <4> HIDE DEF old
      <4> QED  BY <1>1, <2>1
    <3> QED  BY <3>2, <3>3
  <2>2. CASE b # a + l
    <3>1. b \in a .. a + (l + 1) - 1 <=> b \in a .. a + l - 1  BY <2>0, <2>2
    <3>2. new[b] = old[b]  BY <3>1 DEF Replaced
    <3>3. [old EXCEPT ![a + l] = v][b] = old[b]
      <4> HIDE DEF old
      <4> QED  BY <1>1, <2>2
    <3> QED  BY <3>2, <3>3
  <2> QED  BY <2>1, <2>2
<1>4. [old EXCEPT ![a + l] = v] = [b \in Addr |-> [old EXCEPT ![a + l] = v][b]]
  <2> HIDE DEF old
  <2> QED  BY <1>1
<1> HIDE DEF old, new
<1>5. [old EXCEPT ![a + l] = v] = new  BY <1>2, <1>3, <1>4
<1> QED  BY <1>5 DEF old, new

LEMMA ReplacedSame ==
  ASSUME NEW mm, NEW a \in Nat, NEW l \in Nat, NEW t1, NEW t2, \A i \in 0 .. l - 1 : t1[i] = t2[i]
  PROVE  Replaced(mm, a, l, t1) = Replaced(mm, a, l, t2)
<1>1. ASSUME NEW b \in Addr, b \in a .. a + l - 1  PROVE t1[b - a] = t2[b - a]
  <2>1. b - a \in 0 .. l - 1  BY <1>1 DEF Addr
  <2> QED  BY <2>1
<1> QED  BY <1>1 DEF Replaced

LEMMA ReplacedElsewhere ==
  ASSUME NEW mm, NEW a, NEW l, NEW text, NEW b \in Addr, b \notin a .. a + l - 1
  PROVE  Replaced(mm, a, l, text)[b] = mm[b]
BY Zenon DEF Replaced

-----------------------------------------------------------------------------
(* The inductive invariant of the string functions.                        *)

Copying == {"strcpy", "strcat", "strncpy", "strlcpy"}

\* How far the source has been read, its length, and where a copy goes.
passed == s - src
len == Length(mem0, src)
start == IF call.fn = "strcat" THEN dst + Length(mem0, dst) ELSE dst

\* The call is a proper one, and the pointers have moved forwards.
StringCallPart ==
  /\ call \in CallRecord /\ Proper(call, mem0)
  /\ mem0 \in [Addr -> Byte]
  /\ s \in Nat /\ d \in Nat /\ n \in Nat /\ src <= s /\ dst <= d
  /\ pc \in {"seek", "loop", "done"}

\* strcat first looks for the end of dst.
SeekPart ==
  pc = "seek" =>
    /\ call.fn = "strcat" /\ mem = mem0 /\ s = src
    /\ \A i \in 0 .. d - dst - 1 : mem0[dst + i] # 0

\* No byte that was passed ends the loop.
PassedPart ==
  pc = "loop" /\ call.fn # "strncpy" =>
    \A i \in 0 .. passed - 1 :
      /\ call.fn \in {"strlen", "strnlen", "strchr", "strfind", "strcpy", "strcat", "strlcpy"} =>
           mem0[src + i] # 0
      /\ call.fn \in {"strchr", "strfind"} => mem0[src + i] # call.c
      /\ call.fn = "memfind" => mem0[src + i] # call.c % 256
      /\ call.fn \in {"strcmp", "strncmp"} => mem0[dst + i] # 0
      /\ call.fn \in {"strcmp", "strncmp", "memcmp"} => mem0[dst + i] = mem0[src + i]

\* What is counted, and the second pointer.
CountPart ==
  pc = "loop" =>
    /\ call.fn = "strlen" => n = passed
    /\ call.fn \in {"strnlen", "strlcpy", "strncmp", "memcmp"} => n = call.n - passed
    /\ call.fn = "strlcpy" => n > 0 \/ call.n = 0
    /\ call.fn = "memfind" => passed <= call.n
    /\ call.fn \in {"strcmp", "strncmp", "memcmp"} => d = dst + passed

\* What has been written: behind the end of its source strncpy writes zeros.
CopyPart ==
  pc = "loop" =>
    IF call.fn \in Copying
    THEN /\ start <= d
         /\ mem = Replaced(mem0, start, d - start, Text(mem0, src, len))
         /\ call.fn = "strncpy" => /\ n = call.n - (d - start)
                                   /\ passed = IF d - start < len THEN d - start ELSE len
         /\ call.fn # "strncpy" => d = start + passed
    ELSE mem = mem0

SInv ==
  call.fn \in StringFunctions =>
    StringCallPart /\ SeekPart /\ PassedPart /\ CountPart /\ CopyPart /\ StringsAreRight

\* What is promised to be written.
LEMMA WrittenOf ==
  ASSUME NEW k, NEW mm
  PROVE  LET end == Length(mm, k.src)
             l == Min({end, k.n - 1})
         IN  /\ k.fn = "strcpy" => Written(k, mm) = Replaced(mm, k.dst, end + 1, Text(mm, k.src, end))
             /\ k.fn = "strcat" => Written(k, mm) =
                  Replaced(mm, k.dst + Length(mm, k.dst), end + 1, Text(mm, k.src, end))
             /\ k.fn = "strncpy" => Written(k, mm) = Replaced(mm, k.dst, k.n, Text(mm, k.src, end))
             /\ k.fn = "strlcpy" /\ k.n > 0 =>
                  Written(k, mm) = Replaced(mm, k.dst, l + 1, Text(mm, k.src, l))
             /\ k.fn = "strlcpy" /\ ~(k.n > 0) => Written(k, mm) = mm
             /\ k.fn \in StringFunctions \ Copying => Written(k, mm) = mm
BY Zenon DEF Written, Copying, StringFunctions, BlockFunctions, Functions

-----------------------------------------------------------------------------
(* What a proper call may rely on.                                         *)

\* Types and distances in the course of a call.
LEMMA CallFacts ==
  ASSUME StringCallPart
  PROVE  /\ Size \in Nat /\ src \in Nat /\ dst \in Nat /\ call.n \in Nat
         /\ passed \in Nat /\ s = src + passed
         /\ call \in CallRecord /\ Proper(call, mem0)
         /\ s \in Nat /\ d \in Nat /\ n \in Nat /\ dst <= d
<1>1. Size \in Nat /\ src \in Nat /\ dst \in Nat /\ call.n \in Nat
  BY StringAssumption DEF StringCallPart, CallRecord, src, dst
<1>2. s \in Nat /\ d \in Nat /\ n \in Nat /\ src <= s /\ dst <= d
  BY DEF StringCallPart
<1> QED  BY <1>1, <1>2 DEF passed, StringCallPart

\* The strings that must end, and the room that a copy has.
LEMMA SourceEnds ==
  ASSUME StringCallPart,
         call.fn \in {"strlen", "strchr", "strfind", "strcmp", "strcpy", "strcat", "strncpy", "strlcpy"}
  PROVE  /\ len \in Nat /\ src + len < Size
         /\ mem0[src + len] = 0 /\ \A i \in 0 .. len - 1 : mem0[src + i] # 0
<1>1. Ends(mem0, src)
  <2>1. Proper(call, mem0)  BY CallFacts
  <2> QED  BY <2>1 DEF Proper, src
<1> QED  BY <1>1, CallFacts, LengthOf DEF len

\* strcat finds a string at its destination.
LEMMA DestinationEnds ==
  ASSUME StringCallPart, call.fn = "strcat"
  PROVE  /\ Length(mem0, dst) \in Nat /\ dst + Length(mem0, dst) < Size
         /\ mem0[dst + Length(mem0, dst)] = 0
         /\ \A i \in 0 .. Length(mem0, dst) - 1 : mem0[dst + i] # 0
<1>1. Ends(mem0, dst)
  <2>1. Proper(call, mem0)  BY CallFacts
  <2> QED  BY <2>1 DEF Proper, dst
<1> QED  BY <1>1, CallFacts, LengthOf

\* Where a copy goes is not before dst.
LEMMA StartFacts ==
  ASSUME StringCallPart
  PROVE  start \in Nat /\ dst <= start
<1>1. CASE call.fn = "strcat"
  <2>1. start = dst + Length(mem0, dst)  BY <1>1 DEF start
  <2> QED  BY <1>1, <2>1, DestinationEnds, CallFacts
<1>2. CASE call.fn # "strcat"  BY <1>2, CallFacts DEF start
<1> QED  BY <1>1, <1>2

\* How many bytes a copy may write.
room == IF call.fn = "strncpy" THEN call.n
        ELSE IF call.fn = "strlcpy" /\ call.n < len + 1 THEN call.n ELSE len + 1

\* It fits in memory, and is written clear of the source with its 0.
LEMMA CopyHasRoom ==
  ASSUME StringCallPart, call.fn \in Copying
  PROVE  /\ room \in Nat /\ start + room <= Size
         /\ start + room <= src \/ src + len < dst
<1>1. Proper(call, mem0)  BY CallFacts
<1>2. len \in Nat  BY SourceEnds DEF Copying
<1>3. Extent(mem0, call.src) = len + 1  BY DEF Extent, len, src
<1>4. CASE call.fn = "strcpy"
  <2>1. Clear(dst, len + 1, src, len + 1)  BY <1>1, <1>3, <1>4 DEF Proper, src, dst
  <2>2. start = dst /\ room = len + 1  BY <1>4 DEF start, room
  <2> QED  BY <1>2, <2>1, <2>2, CallFacts DEF Clear
<1>5. CASE call.fn = "strcat"
  <2>1. Clear(dst, Extent(mem0, dst) - 1 + (len + 1), src, len + 1)
    BY <1>1, <1>3, <1>5 DEF Proper, src, dst
  <2>2. Extent(mem0, dst) = Length(mem0, dst) + 1 /\ Length(mem0, dst) \in Nat
    BY <1>5, DestinationEnds DEF Extent
  <2>3. start = dst + Length(mem0, dst) /\ room = len + 1  BY <1>5 DEF start, room
  <2> QED  BY <1>2, <2>1, <2>2, <2>3, CallFacts DEF Clear
<1>6. CASE call.fn = "strncpy"
  <2>1. Clear(dst, call.n, src, len + 1)  BY <1>1, <1>3, <1>6 DEF Proper, src, dst
  <2>2. start = dst /\ room = call.n  BY <1>6 DEF start, room
  <2> QED  BY <1>2, <2>1, <2>2, CallFacts DEF Clear
<1>7. CASE call.fn = "strlcpy"
  <2>1. Clear(dst, IF call.n < len + 1 THEN call.n ELSE len + 1, src, len + 1)
    BY <1>1, <1>3, <1>7 DEF Proper, src, dst
  <2>2. start = dst /\ room = IF call.n < len + 1 THEN call.n ELSE len + 1
    BY <1>7 DEF start, room
  <2> QED  BY <1>2, <2>1, <2>2, CallFacts DEF Clear
<1> QED  BY <1>4, <1>5, <1>6, <1>7 DEF Copying

\* A string of which no byte was passed that is 0 is not over yet.
LEMMA NotBeyondEnd ==
  ASSUME StringCallPart, PassedPart, pc = "loop",
         call.fn \in {"strlen", "strchr", "strfind", "strcmp", "strcpy", "strcat", "strlcpy"}
  PROVE  passed <= len
<1>1. SUFFICES ASSUME len < passed  PROVE FALSE
  BY CallFacts, SourceEnds
<1>2. len \in 0 .. passed - 1 /\ mem0[src + len] = 0  BY <1>1, CallFacts, SourceEnds
<1>3. mem0[src + len] # 0  BY <1>2 DEF PassedPart
<1> QED  BY <1>2, <1>3

\* What a copy reads next is still what was there.
LEMMA CopyReads ==
  ASSUME StringCallPart, PassedPart, CopyPart, pc = "loop", call.fn \in Copying,
         d - start <= room
  PROVE  /\ mem[s] = mem0[s] /\ mem[s] = Text(mem0, src, len)[d - start]
         /\ d - start \in Nat /\ passed <= len
<1>1. /\ len \in Nat /\ src + len < Size /\ mem0[src + len] = 0
      /\ passed \in Nat /\ s = src + passed /\ src \in Nat /\ dst \in Nat
      /\ start \in Nat /\ dst <= start
  BY CallFacts, SourceEnds, StartFacts DEF Copying
<1>2. /\ start <= d /\ mem = Replaced(mem0, start, d - start, Text(mem0, src, len))
      /\ call.fn = "strncpy" => passed = IF d - start < len THEN d - start ELSE len
      /\ call.fn # "strncpy" => d = start + passed
  BY DEF CopyPart
<1>3. d - start \in Nat  BY <1>1, <1>2, CallFacts
<1>4. passed <= len
  <2>1. CASE call.fn = "strncpy"  BY <1>1, <1>2, <1>3, <2>1
  <2>2. CASE call.fn # "strncpy"  BY <2>2, NotBeyondEnd DEF Copying
  <2> QED  BY <2>1, <2>2
<1>5. s \in Addr /\ s \notin start .. start + (d - start) - 1
  BY <1>1, <1>3, <1>4, CopyHasRoom, StringAssumption DEF Addr
<1>6. mem[s] = mem0[s]  BY <1>2, <1>5, ReplacedElsewhere
<1>7. mem0[s] = Text(mem0, src, len)[d - start]
  <2>1. Text(mem0, src, len)[d - start] = IF d - start < len THEN mem0[src + (d - start)] ELSE 0
    BY <1>3 DEF Text
  <2>2. CASE d - start < len
    <3>1. passed = d - start  BY <1>1, <1>2, <1>3, <2>2
    <3> QED  BY <1>1, <2>1, <2>2, <3>1
  <2>3. CASE ~(d - start < len)
    <3>1. passed = len  BY <1>1, <1>2, <1>3, <1>4, <2>3, CallFacts
    <3> QED  BY <1>1, <2>1, <2>3, <3>1
  <2> QED  BY <2>2, <2>3
<1> QED  BY <1>3, <1>4, <1>6, <1>7

-----------------------------------------------------------------------------
(* The ends of the loops: what is returned and written is what is promised. *)

Looping == StringCallPart /\ PassedPart /\ CountPart /\ CopyPart /\ pc = "loop"

\* A function that does not copy leaves memory alone.
LEMMA OnlyRead ==
  ASSUME Looping, call.fn \in StringFunctions \ Copying
  PROVE  /\ mem = mem0 /\ mem = Written(call, mem0)
         /\ mem[s] = mem0[src + passed]
         /\ call.fn \in {"strcmp", "strncmp", "memcmp"} => mem[d] = mem0[dst + passed]
<1>1. mem = mem0  BY DEF Looping, CopyPart
<1>2. Written(call, mem0) = mem0  BY WrittenOf
<1>3. s = src + passed  BY CallFacts DEF Looping
<1>4. call.fn \in {"strcmp", "strncmp", "memcmp"} => d = dst + passed
  BY DEF Looping, CountPart
<1> QED  BY <1>1, <1>2, <1>3, <1>4

\* strlen has counted the length.
LEMMA strlenEnds ==
  ASSUME Looping, call.fn = "strlen", mem[s] = 0
  PROVE  n = Result(call, mem0)
<1>1. passed \in Nat /\ src \in Nat /\ passed <= len /\ len \in Nat /\ src + len < Size /\ Size \in Nat
  BY CallFacts, SourceEnds, NotBeyondEnd DEF Looping
<1>2. mem0[src + passed] = 0
  BY OnlyRead DEF StringFunctions, Functions, BlockFunctions, Copying
<1>3. \A i \in 0 .. passed - 1 : mem0[src + i] # 0  BY DEF Looping, PassedPart
<1>4. Length(mem0, src) = passed  BY <1>1, <1>2, <1>3, LengthIs
<1>5. n = passed  BY DEF Looping, CountPart
<1> QED  BY Zenon, <1>4, <1>5 DEF Result, src

\* strnlen has counted the length, or to its bound.
LEMMA strnlenEnds ==
  ASSUME Looping, call.fn = "strnlen", ~(n > 0 /\ mem[s] # 0)
  PROVE  s - call.src = Result(call, mem0)
<1> DEFINE T == {i \in 0 .. call.n - 1 : mem0[call.src + i] = 0}
<1>1. passed \in Nat /\ call.n \in Nat /\ n \in Nat /\ n = call.n - passed
  BY CallFacts DEF Looping, CountPart
<1>2. \A i \in 0 .. passed - 1 : mem0[src + i] # 0  BY DEF Looping, PassedPart
<1>3. Result(call, mem0) = First(T, call.n)  BY Zenon DEF Result
<1>4. CASE n > 0
  <2>1. mem0[src + passed] = 0
    BY <1>4, OnlyRead DEF StringFunctions, Functions, BlockFunctions, Copying
  <2>2. passed \in T /\ T \subseteq Int  BY <1>1, <1>4, <2>1 DEF src
  <2>3. \A y \in T : passed <= y  BY <1>1, <1>2 DEF src
  <2>4. First(T, call.n) = passed
    <3> HIDE DEF T
    <3> QED  BY <2>2, <2>3, FirstIs
  <2> QED  BY <1>3, <2>4 DEF passed, src
<1>5. CASE ~(n > 0)
  <2>1. passed = call.n  BY <1>1, <1>5
  <2>2. T = {}  BY <1>2, <2>1 DEF src
  <2>3. First(T, call.n) = call.n
    <3> HIDE DEF T
    <3> QED  BY <2>2, FirstNone
  <2> QED  BY <1>3, <2>1, <2>3 DEF passed, src
<1> QED  BY <1>4, <1>5

\* Where strchr and strfind stop.
LEMMA FoundAt ==
  ASSUME Looping, call.fn \in {"strchr", "strfind"}, ~(mem[s] # 0 /\ mem[s] # call.c)
  PROVE  LET find == First({i \in 0 .. len - 1 : mem0[call.src + i] = call.c}, len)
         IN  passed = find /\ (find < len <=> mem[s] # 0) /\ s = call.src + find
<1> DEFINE T == {i \in 0 .. len - 1 : mem0[call.src + i] = call.c}
<1>1. passed \in Nat /\ s = call.src + passed /\ passed <= len /\ len \in Nat /\ mem0[src + len] = 0
  BY CallFacts, SourceEnds, NotBeyondEnd DEF Looping, src
<1>2. \A i \in 0 .. passed - 1 : mem0[src + i] # 0 /\ mem0[src + i] # call.c
  BY DEF Looping, PassedPart
<1>3. mem[s] = mem0[src + passed]
  BY OnlyRead DEF StringFunctions, Functions, BlockFunctions, Copying
<1>4. CASE mem[s] # 0
  <2>1. passed < len  BY <1>1, <1>3, <1>4
  <2>2. passed \in T /\ T \subseteq Int  BY <1>1, <1>3, <1>4, <2>1 DEF src
  <2>3. \A y \in T : passed <= y  BY <1>1, <1>2 DEF src
  <2>4. First(T, len) = passed
    <3> HIDE DEF T
    <3> QED  BY <2>2, <2>3, FirstIs
  <2> QED  BY <1>1, <1>4, <2>1, <2>4
<1>5. CASE mem[s] = 0
  <2>1. passed = len
    <3>1. len \notin 0 .. passed - 1 /\ passed \notin 0 .. len - 1
      BY <1>1, <1>2, <1>3, <1>5, SourceEnds DEF Looping
    <3> QED  BY <1>1, <3>1
  <2>2. T = {}  BY <1>2, <2>1 DEF src
  <2>3. First(T, len) = len
    <3> HIDE DEF T
    <3> QED  BY <2>2, FirstNone
  <2> QED  BY <1>1, <1>5, <2>1, <2>3
<1> QED  BY <1>4, <1>5

\* strchr is at the character, or gives the null pointer.
LEMMA strchrEnds ==
  ASSUME Looping, call.fn = "strchr", ~(mem[s] # 0 /\ mem[s] # call.c)
  PROVE  (IF mem[s] # 0 THEN s ELSE NULL) = Result(call, mem0)
<1> DEFINE find == First({i \in 0 .. len - 1 : mem0[call.src + i] = call.c}, len)
<1>1. find < len <=> mem[s] # 0  BY FoundAt
<1>2. s = call.src + find  BY FoundAt
<1>3. Result(call, mem0) = IF find < len THEN call.src + find ELSE NULL
  BY Zenon DEF Result, len, src
<1> HIDE DEF find
<1> QED  BY <1>1, <1>2, <1>3

\* strfind is at the character, or at the end.
LEMMA strfindEnds ==
  ASSUME Looping, call.fn = "strfind", ~(mem[s] # 0 /\ mem[s] # call.c)
  PROVE  s = Result(call, mem0)
<1> DEFINE find == First({i \in 0 .. len - 1 : mem0[call.src + i] = call.c}, len)
<1>1. s = call.src + find  BY FoundAt
<1>2. Result(call, mem0) = call.src + find  BY Zenon DEF Result, len, src
<1> QED  BY <1>1, <1>2

\* memfind is at the character, or behind the bytes.
LEMMA memfindEnds ==
  ASSUME Looping, call.fn = "memfind", ~(s < call.src + call.n /\ mem[s] # call.c % 256)
  PROVE  s = Result(call, mem0)
<1> DEFINE T == {i \in 0 .. call.n - 1 : mem0[call.src + i] = call.c % 256}
<1>1. passed \in Nat /\ call.n \in Nat /\ passed <= call.n /\ s = call.src + passed /\ call.src \in Nat
  BY CallFacts DEF Looping, CountPart, src
<1>2. \A i \in 0 .. passed - 1 : mem0[src + i] # call.c % 256  BY DEF Looping, PassedPart
<1>3. Result(call, mem0) = call.src + First(T, call.n)  BY Zenon DEF Result
<1>4. CASE passed < call.n
  <2>1. mem0[src + passed] = call.c % 256
    <3>1. mem[s] = mem0[src + passed]
      BY OnlyRead DEF StringFunctions, Functions, BlockFunctions, Copying
    <3>2. s < call.src + call.n  BY <1>1, <1>4
    <3> QED  BY <3>1, <3>2
  <2>2. passed \in T /\ T \subseteq Int  BY <1>1, <1>4, <2>1 DEF src
  <2>3. \A y \in T : passed <= y  BY <1>1, <1>2 DEF src
  <2>4. First(T, call.n) = passed
    <3> HIDE DEF T
    <3> QED  BY <2>2, <2>3, FirstIs
  <2> QED  BY <1>1, <1>3, <2>4
<1>5. CASE passed = call.n
  <2>1. T = {}  BY <1>2, <1>5 DEF src
  <2>2. First(T, call.n) = call.n
    <3> HIDE DEF T
    <3> QED  BY <2>1, FirstNone
  <2> QED  BY <1>1, <1>3, <1>5, <2>2
<1> QED  BY <1>1, <1>4, <1>5

\* memcmp is at the first difference, or behind the bytes.
LEMMA memcmpEnds ==
  ASSUME Looping, call.fn = "memcmp", ~(n > 0 /\ mem[d] = mem[s])
  PROVE  (IF n = 0 THEN 0 ELSE mem[d] - mem[s]) = Result(call, mem0)
<1> DEFINE T == {i \in 0 .. call.n - 1 : mem0[call.dst + i] # mem0[call.src + i]}
           differ == First(T, call.n)
<1>1. passed \in Nat /\ call.n \in Nat /\ n \in Nat /\ n = call.n - passed
  BY CallFacts DEF Looping, CountPart
<1>2. \A i \in 0 .. passed - 1 : mem0[dst + i] = mem0[src + i]  BY DEF Looping, PassedPart
<1>3. Result(call, mem0) = IF differ = call.n THEN 0 ELSE mem0[dst + differ] - mem0[src + differ]
  BY Zenon DEF Result, src, dst
<1>4. CASE n > 0
  <2>1. mem[d] = mem0[dst + passed] /\ mem[s] = mem0[src + passed]
    BY OnlyRead DEF StringFunctions, Functions, BlockFunctions, Copying
  <2>2. passed \in T /\ T \subseteq Int  BY <1>1, <1>4, <2>1 DEF src, dst
  <2>3. \A y \in T : passed <= y  BY <1>1, <1>2 DEF src, dst
  <2>4. differ = passed
    <3> HIDE DEF T
    <3> QED  BY <2>2, <2>3, FirstIs
  <2> HIDE DEF differ
  <2> QED  BY <1>1, <1>3, <1>4, <2>1, <2>4
<1>5. CASE n = 0
  <2>1. T = {}  BY <1>1, <1>2, <1>5 DEF src, dst
  <2>2. differ = call.n
    <3> HIDE DEF T
    <3> QED  BY <2>1, FirstNone
  <2> HIDE DEF differ
  <2> QED  BY <1>3, <1>5, <2>2
<1> QED  BY <1>1, <1>4, <1>5

\* strncmp is at the first difference or end, or at its bound.
LEMMA strncmpEnds ==
  ASSUME Looping, call.fn = "strncmp", ~(n > 0 /\ mem[d] # 0 /\ mem[d] = mem[s])
  PROVE  (IF n = 0 THEN 0 ELSE mem[d] - mem[s]) = Result(call, mem0)
<1> DEFINE T == {i \in 0 .. call.n - 1 :
                    mem0[call.dst + i] # mem0[call.src + i] \/ mem0[call.dst + i] = 0}
           place == Place(mem0, call.dst, call.src, call.n)
<1>1. passed \in Nat /\ call.n \in Nat /\ n \in Nat /\ n = call.n - passed
  BY CallFacts DEF Looping, CountPart
<1>2. \A i \in 0 .. passed - 1 : mem0[dst + i] = mem0[src + i] /\ mem0[dst + i] # 0
  BY DEF Looping, PassedPart
<1>3. Result(call, mem0) = IF place = call.n THEN 0 ELSE mem0[dst + place] - mem0[src + place]
  BY Zenon DEF Result, src, dst
<1>4. place = First(T, call.n)  BY DEF Place
<1>5. CASE n > 0
  <2>1. mem[d] = mem0[dst + passed] /\ mem[s] = mem0[src + passed]
    BY OnlyRead DEF StringFunctions, Functions, BlockFunctions, Copying
  <2>2. passed \in T /\ T \subseteq Int  BY <1>1, <1>5, <2>1 DEF src, dst
  <2>3. \A y \in T : passed <= y  BY <1>1, <1>2 DEF src, dst
  <2>4. place = passed
    <3> HIDE DEF T, place
    <3> QED  BY <1>4, <2>2, <2>3, FirstIs
  <2> HIDE DEF place
  <2> QED  BY <1>1, <1>3, <1>5, <2>1, <2>4
<1>6. CASE n = 0
  <2>1. T = {}  BY <1>1, <1>2, <1>6 DEF src, dst
  <2>2. place = call.n
    <3> HIDE DEF T, place
    <3> QED  BY <1>4, <2>1, FirstNone
  <2> HIDE DEF place
  <2> QED  BY <1>3, <1>6, <2>2
<1> QED  BY <1>1, <1>5, <1>6

\* strcmp is at the first difference or end.
LEMMA strcmpEnds ==
  ASSUME Looping, call.fn = "strcmp", ~(mem[d] # 0 /\ mem[d] = mem[s])
  PROVE  mem[d] - mem[s] = Result(call, mem0)
<1> DEFINE l == Length(mem0, call.src)
           T == {i \in 0 .. (l + 1) - 1 :
                    mem0[call.dst + i] # mem0[call.src + i] \/ mem0[call.dst + i] = 0}
           place == Place(mem0, call.dst, call.src, l + 1)
<1>1. passed \in Nat /\ passed <= len /\ len \in Nat
  BY CallFacts, SourceEnds, NotBeyondEnd DEF Looping
<1>2. \A i \in 0 .. passed - 1 : mem0[dst + i] = mem0[src + i] /\ mem0[dst + i] # 0
  BY DEF Looping, PassedPart
<1>3. Result(call, mem0) = IF place = l + 1 THEN 0 ELSE mem0[call.dst + place] - mem0[call.src + place]
  BY Zenon DEF Result
<1>4. len = l  BY DEF len, src
<1>5. place = First(T, l + 1)  BY Zenon DEF Place
<1>6. mem[d] = mem0[dst + passed] /\ mem[s] = mem0[src + passed]
  BY OnlyRead DEF StringFunctions, Functions, BlockFunctions, Copying
<1>7. passed \in T /\ T \subseteq Int  BY <1>4, <1>1, <1>6 DEF src, dst
<1>8. \A y \in T : passed <= y  BY <1>1, <1>2 DEF src, dst
<1>9. place = passed
  <2> HIDE DEF T, place
  <2> QED  BY <1>7, <1>8, <1>5, FirstIs
<1> HIDE DEF place, l
<1> QED  BY <1>4, <1>1, <1>3, <1>6, <1>9 DEF src, dst

\* strcpy and strcat have copied the string, and write the 0.
LEMMA strcpyEnds ==
  ASSUME Looping, call.fn \in {"strcpy", "strcat"}, mem[s] = 0
  PROVE  call.dst = Result(call, mem0) /\ With(d, 0) = Written(call, mem0)
<1> DEFINE text == Text(mem0, src, len)
<1>1. /\ len \in Nat /\ src + len < Size /\ \A i \in 0 .. len - 1 : mem0[src + i] # 0
      /\ passed \in Nat /\ passed <= len /\ start \in Nat /\ s = src + passed
      /\ d = start + passed /\ mem = Replaced(mem0, start, d - start, text)
  BY CallFacts, SourceEnds, StartFacts, NotBeyondEnd DEF Looping, CopyPart, Copying
<1>2. d - start = passed  BY <1>1
<1>3. mem[s] = mem0[s] /\ mem[s] = text[passed]
  <2>1. room = len + 1  BY DEF room
  <2> QED  BY <1>1, <1>2, <2>1, CopyReads DEF Looping, Copying
<1>4. passed = len
  <2>1. passed \notin 0 .. len - 1  BY <1>1, <1>3
  <2> QED  BY <1>1, <2>1
<1>5. With(d, 0) = Replaced(mem0, start, len + 1, text)
  <2>1. 0 = text[len]  BY <1>3, <1>4
  <2>2. [Replaced(mem0, start, len, text) EXCEPT ![start + len] = 0]
        = Replaced(mem0, start, len + 1, text)
    <3> HIDE DEF text
    <3> QED  BY <1>1, <2>1, ReplacedNext
  <2> QED  BY <1>1, <1>2, <1>4, <2>2 DEF With
<1>6. Written(call, mem0) = Replaced(mem0, start, len + 1, text)
  <2>1. CASE call.fn = "strcpy"
    <3>1. start = call.dst  BY <2>1 DEF start, dst
    <3> QED  BY <2>1, <3>1, WrittenOf DEF len, src
  <2>2. CASE call.fn = "strcat"
    <3>1. start = call.dst + Length(mem0, call.dst)  BY <2>2 DEF start, dst
    <3> QED  BY <2>2, <3>1, WrittenOf DEF len, src
  <2> QED  BY <2>1, <2>2
<1>7. Result(call, mem0) = call.dst  BY Zenon DEF Result
<1> QED  BY <1>5, <1>6, <1>7

\* strncpy has written as many bytes as it was asked for.
LEMMA strncpyEnds ==
  ASSUME Looping, call.fn = "strncpy", ~(n > 0)
  PROVE  call.dst = Result(call, mem0) /\ mem = Written(call, mem0)
<1>1. /\ start = call.dst /\ n = call.n - (d - start)
      /\ mem = Replaced(mem0, start, d - start, Text(mem0, src, len))
      /\ n = 0 /\ call.n \in Nat /\ d \in Nat /\ start \in Nat
  BY CallFacts, StartFacts DEF Looping, CopyPart, Copying, start, dst
<1>2. d - start = call.n  BY <1>1
<1>3. Written(call, mem0) = Replaced(mem0, call.dst, call.n, Text(mem0, src, len))
  BY WrittenOf DEF len, src
<1>4. Result(call, mem0) = call.dst  BY Zenon DEF Result
<1> QED  BY <1>1, <1>2, <1>3, <1>4

\* strlcpy has copied what fits before the 0 that it writes.
LEMMA strlcpyEnds ==
  ASSUME Looping, call.fn = "strlcpy", ~(n > 1 /\ mem[s] # 0)
  PROVE  /\ d - call.dst = Result(call, mem0)
         /\ (IF call.n > 0 THEN With(d, 0) ELSE mem) = Written(call, mem0)
<1> DEFINE text == Text(mem0, src, len)
<1>1. /\ len \in Nat /\ \A i \in 0 .. len - 1 : mem0[src + i] # 0
      /\ passed \in Nat /\ passed <= len /\ start \in Nat /\ s = src + passed /\ start = call.dst
      /\ d = start + passed /\ mem = Replaced(mem0, start, d - start, text)
      /\ n = call.n - passed /\ n \in Nat /\ call.n \in Nat /\ (n > 0 \/ call.n = 0)
  BY CallFacts, SourceEnds, StartFacts, NotBeyondEnd
     DEF Looping, CopyPart, CountPart, Copying, start, dst
<1>2. d - start = passed  BY <1>1
<1>3. Result(call, mem0) = IF call.n = 0 THEN 0 ELSE Min({len, call.n - 1})
  BY Zenon DEF Result, len, src
<1>4. CASE call.n = 0
  <2>1. passed = 0  BY <1>1, <1>4
  <2>2. mem = mem0
    <3>1. Replaced(mem0, start, 0, text) = mem0
      <4>1. mem0 \in [Addr -> Byte]  BY DEF Looping, StringCallPart
      <4> QED  BY <1>1, <4>1, ReplacedNone
    <3> QED  BY <1>1, <1>2, <2>1, <3>1
  <2>3. Written(call, mem0) = mem0
    <3>1. ~(call.n > 0)  BY <1>4
    <3> QED  BY <3>1, WrittenOf
  <2> QED  BY <1>1, <1>2, <1>3, <1>4, <2>1, <2>2, <2>3
<1>5. CASE call.n > 0
  <2>1. passed = Min({len, call.n - 1})
    <3>1. Min({len, call.n - 1}) = IF len <= call.n - 1 THEN len ELSE call.n - 1
      BY <1>1, MinOfTwo
    <3>2. CASE n > 1
      <4>1. mem[s] = mem0[s]
        <5>1. d - start <= room  BY <1>1, <1>2, <3>2 DEF room
        <5> QED  BY <5>1, CopyReads DEF Looping, Copying
      <4>2. passed \notin 0 .. len - 1  BY <1>1, <3>2, <4>1
      <4> QED  BY <1>1, <3>1, <3>2, <4>2
    <3>3. CASE n = 1  BY <1>1, <3>1, <3>3
    <3> QED  BY <1>1, <1>5, <3>2, <3>3
  <2> DEFINE cut == Text(mem0, src, passed)
  <2>2. Replaced(mem0, start, passed, text) = Replaced(mem0, start, passed, cut)
    <3>1. \A i \in 0 .. passed - 1 : text[i] = cut[i]  BY <1>1 DEF Text
    <3> HIDE DEF text, cut
    <3> QED  BY <1>1, <3>1, ReplacedSame
  <2>3. With(d, 0) = Replaced(mem0, start, passed + 1, cut)
    <3>1. 0 = cut[passed]  BY <1>1 DEF Text
    <3>2. [Replaced(mem0, start, passed, cut) EXCEPT ![start + passed] = 0]
          = Replaced(mem0, start, passed + 1, cut)
      <4>1. start \in Nat /\ passed \in Nat  BY <1>1
      <4> HIDE DEF cut
      <4> QED  BY <3>1, <4>1, ReplacedNext
    <3> QED  BY <1>1, <1>2, <2>2, <3>2 DEF With
  <2>4. Written(call, mem0) = Replaced(mem0, start, passed + 1, cut)
    <3>1. Min({Length(mem0, call.src), call.n - 1}) = passed  BY <2>1 DEF len, src
    <3> QED  BY <1>1, <1>5, <3>1, WrittenOf DEF src
  <2> QED  BY <1>1, <1>2, <1>3, <1>5, <2>1, <2>3, <2>4
<1> QED  BY <1>1, <1>4, <1>5

-----------------------------------------------------------------------------
(* The steps.                                                              *)

StringParts == StringCallPart /\ SeekPart /\ PassedPart /\ CountPart /\ CopyPart /\ StringsAreRight

Comparing == {"strcmp", "strncmp", "memcmp"}

\* What depends on the call and the memory that it found stays.
LEMMA SameCall ==
  ASSUME call' = call, mem0' = mem0
  PROVE  /\ src' = src /\ dst' = dst /\ len' = len /\ start' = start
         /\ Proper(call, mem0)' = Proper(call, mem0)
         /\ Result(call, mem0)' = Result(call, mem0)
         /\ Written(call, mem0)' = Written(call, mem0)
BY DEF src, dst, len, start

\* A function that returns what is promised, and leaves what is promised.
LEMMA FinishKeeps ==
  ASSUME Looping, call.fn \in StringFunctions, NEW v, NEW m1, Finish(v, m1),
         v = Result(call, mem0), m1 = Written(call, mem0)
  PROVE  StringParts'
<1>1. /\ call' = call /\ mem0' = mem0 /\ s' = s /\ d' = d /\ n' = n
      /\ pc' = "done" /\ ret' = v /\ mem' = m1
  BY DEF Finish
<1>2. StringCallPart'  BY <1>1, SameCall DEF Looping, StringCallPart
<1>3. StringsAreRight'  BY <1>1, SameCall DEF StringsAreRight
<1> QED  BY <1>1, <1>2, <1>3 DEF StringParts, SeekPart, PassedPart, CountPart, CopyPart

\* A turn of a loop that only reads.
LEMMA ReadTurn ==
  ASSUME Looping, call.fn \in StringFunctions \ Copying,
         NEW d1 \in Nat, NEW n1 \in Nat, Turn(s + 1, d1, n1, mem),
         d1 = IF call.fn \in Comparing THEN d + 1 ELSE d,
         call.fn = "strlen" => n1 = n + 1,
         call.fn \in {"strnlen", "strncmp", "memcmp"} => n1 = n - 1,
         call.fn = "memfind" => s < call.src + call.n,
         call.fn \in {"strlen", "strnlen", "strchr", "strfind"} => mem[s] # 0,
         call.fn \in {"strchr", "strfind"} => mem[s] # call.c,
         call.fn = "memfind" => mem[s] # call.c % 256,
         call.fn \in {"strcmp", "strncmp"} => mem[d] # 0,
         call.fn \in Comparing => mem[d] = mem[s]
  PROVE  StringParts'
<1>1. /\ call' = call /\ mem0' = mem0 /\ s' = s + 1 /\ d' = d1 /\ n' = n1
      /\ mem' = mem /\ pc' = "loop" /\ pc = "loop"
  BY DEF Turn, Looping
<1>2. /\ passed \in Nat /\ s = src + passed /\ src \in Nat /\ dst \in Nat /\ call.n \in Nat
      /\ s \in Nat /\ d \in Nat /\ n \in Nat /\ dst <= d
  BY CallFacts DEF Looping
<1>3. src' = src /\ dst' = dst /\ passed' = passed + 1
  BY <1>1, <1>2, SameCall DEF passed
<1>4. mem = mem0 /\ mem[s] = mem0[src + passed]
      /\ (call.fn \in Comparing => mem[d] = mem0[dst + passed])
  BY OnlyRead DEF Comparing
<1>5. StringCallPart'
  <2>1. s' \in Nat /\ d' \in Nat /\ n' \in Nat /\ src' <= s' /\ dst' <= d'
    BY <1>1, <1>2, <1>3
  <2> QED  BY <1>1, <2>1, SameCall DEF Looping, StringCallPart
<1>6. PassedPart'
  <2>1. SUFFICES ASSUME NEW i \in 0 .. passed
                 PROVE  /\ call.fn \in {"strlen", "strnlen", "strchr", "strfind"} => mem0[src + i] # 0
                        /\ call.fn \in {"strchr", "strfind"} => mem0[src + i] # call.c
                        /\ call.fn = "memfind" => mem0[src + i] # call.c % 256
                        /\ call.fn \in {"strcmp", "strncmp"} => mem0[dst + i] # 0
                        /\ call.fn \in Comparing => mem0[dst + i] = mem0[src + i]
    <3>1. (passed + 1) - 1 = passed  BY <1>2
    <3>2. call.fn \notin Copying  OBVIOUS
    <3> QED  BY <1>1, <1>3, <3>1, <3>2 DEF PassedPart, Comparing, Copying
  <2>2. CASE i = passed  BY <1>4, <2>2 DEF Comparing
  <2>3. CASE i # passed
    <3>1. i \in 0 .. passed - 1  BY <1>2, <2>3
    <3>2. call.fn # "strncpy"  BY DEF Copying
    <3> QED  BY <1>1, <3>1, <3>2 DEF Looping, PassedPart, Comparing
  <2> QED  BY <2>2, <2>3
<1>7. CountPart'
  <2>1. CountPart /\ call.fn # "strlcpy"  BY DEF Looping, Copying
  <2>2. call.fn = "memfind" => passed + 1 <= call.n  BY <1>2 DEF src
  <2>3. call.fn = "strlen" => n' = passed'  BY <1>1, <1>3, <2>1 DEF CountPart
  <2>4. call.fn \in {"strnlen", "strncmp", "memcmp"} => n' = call.n - passed'
    BY <1>1, <1>2, <1>3, <2>1 DEF CountPart
  <2>5. call.fn \in {"strcmp", "strncmp", "memcmp"} => d' = dst' + passed'
    BY <1>1, <1>2, <1>3, <2>1 DEF CountPart, Comparing
  <2> QED  BY <1>1, <1>3, <2>1, <2>2, <2>3, <2>4, <2>5 DEF CountPart
<1>8. CopyPart'  BY <1>1, <1>4 DEF CopyPart
<1> QED  BY <1>1, <1>5, <1>6, <1>7, <1>8 DEF StringParts, SeekPart, StringsAreRight, Done

\* One byte more is in place.
LEMMA OneWritten ==
  ASSUME Looping, call.fn \in Copying, d - start < room
  PROVE  With(d, mem[s]) = Replaced(mem0, start, (d - start) + 1, Text(mem0, src, len))
<1> DEFINE text == Text(mem0, src, len)
<1>1. mem[s] = text[d - start] /\ d - start \in Nat
  <2>1. d - start <= room  BY StartFacts, CallFacts, CopyHasRoom DEF Looping
  <2> QED  BY <2>1, CopyReads DEF Looping
<1>2. start \in Nat /\ start + (d - start) = d  BY StartFacts, CallFacts DEF Looping
<1>3. mem = Replaced(mem0, start, d - start, text)  BY DEF Looping, CopyPart
<1>4. [Replaced(mem0, start, d - start, text) EXCEPT ![start + (d - start)] = mem[s]]
      = Replaced(mem0, start, (d - start) + 1, text)
  <2> DEFINE c == d - start
             v == mem[s]
  <2>1. start \in Nat /\ c \in Nat /\ v = text[c]  BY <1>1, <1>2
  <2> HIDE DEF text, c, v
  <2>2. [Replaced(mem0, start, c, text) EXCEPT ![start + c] = v] = Replaced(mem0, start, c + 1, text)
    BY <2>1, ReplacedNext
  <2> QED  BY <2>2 DEF c, v
<1> QED  BY <1>2, <1>3, <1>4 DEF With

\* A turn of a loop that copies up to the end of the source.
LEMMA CopyTurn ==
  ASSUME Looping, call.fn \in {"strcpy", "strcat", "strlcpy"},
         NEW n1 \in Nat, Turn(s + 1, d + 1, n1, With(d, mem[s])), mem[s] # 0,
         call.fn = "strlcpy" => n > 1 /\ n1 = n - 1
  PROVE  StringParts'
<1>1. /\ call' = call /\ mem0' = mem0 /\ s' = s + 1 /\ d' = d + 1 /\ n' = n1
      /\ mem' = With(d, mem[s]) /\ pc' = "loop" /\ pc = "loop"
  BY DEF Turn, Looping
<1>2. /\ passed \in Nat /\ s = src + passed /\ src \in Nat /\ dst \in Nat /\ call.n \in Nat
      /\ s \in Nat /\ d \in Nat /\ n \in Nat /\ dst <= d /\ len \in Nat /\ passed <= len
      /\ start \in Nat /\ d = start + passed
  BY CallFacts, SourceEnds, StartFacts, NotBeyondEnd DEF Looping, CopyPart, Copying
<1>3. src' = src /\ dst' = dst /\ passed' = passed + 1 /\ len' = len /\ start' = start
  BY <1>1, <1>2, SameCall DEF passed
<1>4. call.fn = "strlcpy" => n = call.n - passed  BY DEF Looping, CountPart
<1>5. d - start < room
  BY <1>2, <1>4 DEF room
<1>6. mem[s] = mem0[src + passed]
  <2>1. d - start <= room  BY <1>5, <1>2, CopyHasRoom DEF Looping, Copying
  <2> QED  BY <1>2, <2>1, CopyReads DEF Looping, Copying
<1>7. StringCallPart'
  <2>1. s' \in Nat /\ d' \in Nat /\ n' \in Nat /\ src' <= s' /\ dst' <= d'
    BY <1>1, <1>2, <1>3
  <2> QED  BY <1>1, <2>1, SameCall DEF Looping, StringCallPart
<1>8. PassedPart'
  <2>1. \A i \in 0 .. passed : mem0[src + i] # 0
    BY <1>2, <1>6 DEF Looping, PassedPart
  <2>2. (passed + 1) - 1 = passed  BY <1>2
  <2> QED  BY <1>1, <1>3, <2>1, <2>2 DEF PassedPart
<1>9. CountPart'  BY <1>1, <1>2, <1>3, <1>4 DEF CountPart
<1>10. CopyPart'
  <2>1. mem' = Replaced(mem0, start, (d - start) + 1, Text(mem0, src, len))
    BY <1>1, <1>5, OneWritten DEF Copying
  <2>2. d' - start' = (d - start) + 1 /\ start' <= d' /\ d' = start' + passed'
    BY <1>1, <1>2, <1>3
  <2> QED  BY <1>1, <1>3, <2>1, <2>2 DEF CopyPart, Copying
<1> QED  BY <1>1, <1>7, <1>8, <1>9, <1>10 DEF StringParts, SeekPart, StringsAreRight, Done

\* A turn of strncpy, which goes on writing zeros.
LEMMA strncpyTurn ==
  ASSUME Looping, call.fn = "strncpy", n > 0,
         Turn(IF mem[s] # 0 THEN s + 1 ELSE s, d + 1, n - 1, With(d, mem[s]))
  PROVE  StringParts'
<1> DEFINE c == d - start
<1>1. /\ call' = call /\ mem0' = mem0 /\ s' = (IF mem[s] # 0 THEN s + 1 ELSE s)
      /\ d' = d + 1 /\ n' = n - 1 /\ mem' = With(d, mem[s]) /\ pc' = "loop" /\ pc = "loop"
  BY DEF Turn, Looping
<1>2. /\ passed \in Nat /\ s = src + passed /\ src \in Nat /\ dst \in Nat /\ call.n \in Nat
      /\ s \in Nat /\ d \in Nat /\ n \in Nat /\ dst <= d /\ len \in Nat
      /\ start \in Nat /\ start <= d /\ n = call.n - (d - start)
      /\ passed = IF d - start < len THEN d - start ELSE len
  BY CallFacts, SourceEnds, StartFacts DEF Looping, CopyPart, Copying
<1>3. src' = src /\ dst' = dst /\ len' = len /\ start' = start
  BY <1>1, SameCall
<1>4. d - start < room  BY <1>2 DEF room
<1>5. mem[s] = mem0[src + passed]
  <2>1. d - start <= room  BY <1>2, <1>4, CopyHasRoom DEF Looping, Copying
  <2> QED  BY <1>2, <2>1, CopyReads DEF Looping, Copying
<1>6. passed' = IF d' - start' < len' THEN d' - start' ELSE len'
  <2>1. passed' = IF mem[s] # 0 THEN passed + 1 ELSE passed
    BY <1>1, <1>2, <1>3 DEF passed
  <2>2. mem[s] # 0 <=> passed < len
    <3>1. mem0[src + len] = 0 /\ \A i \in 0 .. len - 1 : mem0[src + i] # 0
      BY SourceEnds DEF Looping
    <3>2. CASE passed < len
      <4>1. passed \in 0 .. len - 1  BY <1>2, <3>2
      <4> QED  BY <1>5, <3>1, <3>2, <4>1
    <3>3. CASE passed = len  BY <1>2, <1>5, <3>1, <3>3
    <3> QED  BY <1>2, <3>2, <3>3
  <2>3. d' - start' = (d - start) + 1  BY <1>1, <1>2, <1>3
  <2> QED  BY <1>2, <1>3, <2>1, <2>2, <2>3
<1>7. StringCallPart'
  <2>1. s' \in Nat /\ d' \in Nat /\ n' \in Nat /\ src' <= s' /\ dst' <= d'
    BY <1>1, <1>2, <1>3
  <2> QED  BY <1>1, <2>1, SameCall DEF Looping, StringCallPart
<1>8. CopyPart'
  <2>1. mem' = Replaced(mem0, start, (d - start) + 1, Text(mem0, src, len))
    BY <1>1, <1>4, OneWritten DEF Copying
  <2>2. d' - start' = (d - start) + 1 /\ start' <= d' /\ n' = call.n - (d' - start')
    BY <1>1, <1>2, <1>3
  <2> QED  BY <1>1, <1>3, <1>6, <2>1, <2>2 DEF CopyPart, Copying
<1> QED
  BY <1>1, <1>7, <1>8 DEF StringParts, SeekPart, PassedPart, CountPart, StringsAreRight, Done

\* strcat before it copies.
LEMMA strcatSeeks ==
  ASSUME StringCallPart, SeekPart, strcat
  PROVE  StringParts'
<1>1. /\ call' = call /\ mem0' = mem0 /\ mem' = mem /\ s' = s /\ n' = n
      /\ call.fn = "strcat" /\ pc = "seek"
      /\ d' = (IF mem[d] # 0 THEN d + 1 ELSE d)
      /\ pc' = (IF mem[d] # 0 THEN "seek" ELSE "loop")
  BY DEF strcat
<1>2. /\ mem = mem0 /\ s = src /\ \A i \in 0 .. d - dst - 1 : mem0[dst + i] # 0
      /\ s \in Nat /\ d \in Nat /\ n \in Nat /\ dst <= d /\ dst \in Nat /\ src \in Nat /\ passed = 0
  BY <1>1, CallFacts DEF SeekPart, passed
<1>3. src' = src /\ dst' = dst /\ len' = len /\ start' = start  BY <1>1, SameCall
<1>4. StringCallPart'
  <2>1. s' \in Nat /\ d' \in Nat /\ n' \in Nat /\ src' <= s' /\ dst' <= d'
    BY <1>1, <1>2, <1>3
  <2>2. pc' \in {"seek", "loop"}  BY <1>1
  <2> QED  BY <1>1, <2>1, <2>2, SameCall DEF StringCallPart
<1>5. dst + (d - dst) = d /\ d - dst \in Nat  BY <1>2
<1>6. CASE mem[d] # 0
  <2>1. \A i \in 0 .. d' - dst' - 1 : mem0[dst + i] # 0
    <3>1. \A i \in 0 .. d - dst : mem0[dst + i] # 0  BY <1>2, <1>5, <1>6
    <3>2. d' - dst' - 1 = d - dst  BY <1>1, <1>2, <1>3, <1>6
    <3> QED  BY <3>1, <3>2
  <2>2. SeekPart' /\ pc' = "seek"  BY <1>1, <1>2, <1>3, <1>6, <2>1 DEF SeekPart
  <2> QED
    BY <1>4, <2>2 DEF StringParts, PassedPart, CountPart, CopyPart, StringsAreRight, Done
<1>7. CASE mem[d] = 0
  <2>1. Length(mem0, dst) = d - dst
    <3> DEFINE l == Length(mem0, dst)
    <3>1. l \in Nat /\ mem0[dst + l] = 0 /\ \A i \in 0 .. l - 1 : mem0[dst + i] # 0
      BY <1>1, DestinationEnds
    <3>2. mem0[dst + (d - dst)] = 0  BY <1>2, <1>5, <1>7
    <3>3. ~(l < d - dst)
      <4>1. l < d - dst => l \in 0 .. d - dst - 1  BY <1>5, <3>1
      <4> QED  BY <1>2, <3>1, <4>1
    <3>4. ~(d - dst < l)
      <4>1. d - dst < l => d - dst \in 0 .. l - 1  BY <1>5, <3>1
      <4> QED  BY <3>1, <3>2, <4>1
    <3> HIDE DEF l
    <3> QED  BY <1>5, <3>1, <3>3, <3>4 DEF l
  <2>2. start = d  BY <1>1, <1>2, <1>5, <2>1 DEF start
  <2>3. pc' = "loop" /\ d' = d  BY <1>1, <1>7
  <2>4. passed' = 0  BY <1>1, <1>2, <1>3 DEF passed
  <2>5. CopyPart'
    <3>1. Replaced(mem0, start, 0, Text(mem0, src, len)) = mem0
      <4>1. mem0 \in [Addr -> Byte]  BY DEF StringCallPart
      <4> QED  BY <1>2, <2>2, <4>1, ReplacedNone
    <3>2. d' - start' = 0 /\ start' <= d' /\ d' = start' + passed'
      BY <1>2, <1>3, <2>2, <2>3, <2>4
    <3> QED  BY <1>1, <1>2, <1>3, <2>3, <3>1, <3>2 DEF CopyPart, Copying
  <2>6. PassedPart' /\ CountPart'  BY <1>1, <2>4 DEF PassedPart, CountPart
  <2> QED  BY <1>4, <2>3, <2>5, <2>6 DEF StringParts, SeekPart, StringsAreRight, Done
<1> QED  BY <1>6, <1>7

\* The functions one by one: each goes on or returns.
LEMMA strlenKeeps ==
  ASSUME Looping, strlen
  PROVE  StringParts'
<1>1. call.fn = "strlen" /\ n \in Nat /\ d \in Nat  BY CallFacts DEF Looping, strlen, Is
<1>2. CASE mem[s] # 0
  <2>1. Turn(s + 1, d, n + 1, mem)  BY <1>2 DEF strlen
  <2>2. d \in Nat /\ n + 1 \in Nat  BY <1>1, <1>2
  <2> QED
    BY <1>1, <1>2, <2>1, <2>2, ReadTurn DEF StringFunctions, Functions, BlockFunctions, Copying, Comparing
<1>3. CASE ~(mem[s] # 0)
  <2>1. Finish(n, mem)  BY <1>3 DEF strlen, Return
  <2>2. mem = Written(call, mem0)
    BY <1>1, OnlyRead DEF StringFunctions, Functions, BlockFunctions, Copying, Comparing
  <2>3. n = Result(call, mem0)  BY <1>1, <1>3, strlenEnds
  <2> DEFINE v == n
  <2> HIDE DEF v
  <2>4. Finish(v, mem) /\ v = Result(call, mem0)  BY <2>1, <2>3 DEF v
  <2> QED
    BY <1>1, <2>2, <2>4, FinishKeeps DEF StringFunctions, Functions, BlockFunctions, Copying, Comparing
<1> QED  BY <1>2, <1>3

LEMMA strnlenKeeps ==
  ASSUME Looping, strnlen
  PROVE  StringParts'
<1>1. call.fn = "strnlen" /\ n \in Nat /\ d \in Nat  BY CallFacts DEF Looping, strnlen, Is
<1>2. CASE n > 0 /\ mem[s] # 0
  <2>1. Turn(s + 1, d, n - 1, mem)  BY <1>2 DEF strnlen
  <2>2. d \in Nat /\ n - 1 \in Nat  BY <1>1, <1>2
  <2> QED
    BY <1>1, <1>2, <2>1, <2>2, ReadTurn DEF StringFunctions, Functions, BlockFunctions, Copying, Comparing
<1>3. CASE ~(n > 0 /\ mem[s] # 0)
  <2>1. Finish(s - call.src, mem)  BY <1>3 DEF strnlen, Return
  <2>2. mem = Written(call, mem0)
    BY <1>1, OnlyRead DEF StringFunctions, Functions, BlockFunctions, Copying, Comparing
  <2>3. s - call.src = Result(call, mem0)  BY <1>1, <1>3, strnlenEnds
  <2> DEFINE v == s - call.src
  <2> HIDE DEF v
  <2>4. Finish(v, mem) /\ v = Result(call, mem0)  BY <2>1, <2>3 DEF v
  <2> QED
    BY <1>1, <2>2, <2>4, FinishKeeps DEF StringFunctions, Functions, BlockFunctions, Copying, Comparing
<1> QED  BY <1>2, <1>3

LEMMA strcmpKeeps ==
  ASSUME Looping, strcmp
  PROVE  StringParts'
<1>1. call.fn = "strcmp" /\ n \in Nat /\ d \in Nat  BY CallFacts DEF Looping, strcmp, Is
<1>2. CASE mem[d] # 0 /\ mem[d] = mem[s]
  <2>1. Turn(s + 1, d + 1, n, mem)  BY <1>2 DEF strcmp
  <2>2. d + 1 \in Nat /\ n \in Nat  BY <1>1, <1>2
  <2> QED
    BY <1>1, <1>2, <2>1, <2>2, ReadTurn DEF StringFunctions, Functions, BlockFunctions, Copying, Comparing
<1>3. CASE ~(mem[d] # 0 /\ mem[d] = mem[s])
  <2>1. Finish(mem[d] - mem[s], mem)  BY <1>3 DEF strcmp, Return
  <2>2. mem = Written(call, mem0)
    BY <1>1, OnlyRead DEF StringFunctions, Functions, BlockFunctions, Copying, Comparing
  <2>3. mem[d] - mem[s] = Result(call, mem0)  BY <1>1, <1>3, strcmpEnds
  <2> DEFINE v == mem[d] - mem[s]
  <2> HIDE DEF v
  <2>4. Finish(v, mem) /\ v = Result(call, mem0)  BY <2>1, <2>3 DEF v
  <2> QED
    BY <1>1, <2>2, <2>4, FinishKeeps DEF StringFunctions, Functions, BlockFunctions, Copying, Comparing
<1> QED  BY <1>2, <1>3

LEMMA strncmpKeeps ==
  ASSUME Looping, strncmp
  PROVE  StringParts'
<1>1. call.fn = "strncmp" /\ n \in Nat /\ d \in Nat  BY CallFacts DEF Looping, strncmp, Is
<1>2. CASE n > 0 /\ mem[d] # 0 /\ mem[d] = mem[s]
  <2>1. Turn(s + 1, d + 1, n - 1, mem)  BY <1>2 DEF strncmp
  <2>2. d + 1 \in Nat /\ n - 1 \in Nat  BY <1>1, <1>2
  <2> QED
    BY <1>1, <1>2, <2>1, <2>2, ReadTurn DEF StringFunctions, Functions, BlockFunctions, Copying, Comparing
<1>3. CASE ~(n > 0 /\ mem[d] # 0 /\ mem[d] = mem[s])
  <2>1. Finish((IF n = 0 THEN 0 ELSE mem[d] - mem[s]), mem)  BY <1>3 DEF strncmp, Return
  <2>2. mem = Written(call, mem0)
    BY <1>1, OnlyRead DEF StringFunctions, Functions, BlockFunctions, Copying, Comparing
  <2>3. (IF n = 0 THEN 0 ELSE mem[d] - mem[s]) = Result(call, mem0)  BY <1>1, <1>3, strncmpEnds
  <2> DEFINE v == (IF n = 0 THEN 0 ELSE mem[d] - mem[s])
  <2> HIDE DEF v
  <2>4. Finish(v, mem) /\ v = Result(call, mem0)  BY <2>1, <2>3 DEF v
  <2> QED
    BY <1>1, <2>2, <2>4, FinishKeeps DEF StringFunctions, Functions, BlockFunctions, Copying, Comparing
<1> QED  BY <1>2, <1>3

LEMMA strchrKeeps ==
  ASSUME Looping, strchr
  PROVE  StringParts'
<1>1. call.fn = "strchr" /\ n \in Nat /\ d \in Nat  BY CallFacts DEF Looping, strchr, Is
<1>2. CASE mem[s] # 0 /\ mem[s] # call.c
  <2>1. Turn(s + 1, d, n, mem)  BY <1>2 DEF strchr
  <2>2. d \in Nat /\ n \in Nat  BY <1>1, <1>2
  <2> QED
    BY <1>1, <1>2, <2>1, <2>2, ReadTurn DEF StringFunctions, Functions, BlockFunctions, Copying, Comparing
<1>3. CASE ~(mem[s] # 0 /\ mem[s] # call.c)
  <2>1. Finish((IF mem[s] # 0 THEN s ELSE NULL), mem)  BY <1>3 DEF strchr, Return
  <2>2. mem = Written(call, mem0)
    BY <1>1, OnlyRead DEF StringFunctions, Functions, BlockFunctions, Copying, Comparing
  <2>3. (IF mem[s] # 0 THEN s ELSE NULL) = Result(call, mem0)  BY <1>1, <1>3, strchrEnds
  <2> DEFINE v == (IF mem[s] # 0 THEN s ELSE NULL)
  <2> HIDE DEF v
  <2>4. Finish(v, mem) /\ v = Result(call, mem0)  BY <2>1, <2>3 DEF v
  <2> QED
    BY <1>1, <2>2, <2>4, FinishKeeps DEF StringFunctions, Functions, BlockFunctions, Copying, Comparing
<1> QED  BY <1>2, <1>3

LEMMA strfindKeeps ==
  ASSUME Looping, strfind
  PROVE  StringParts'
<1>1. call.fn = "strfind" /\ n \in Nat /\ d \in Nat  BY CallFacts DEF Looping, strfind, Is
<1>2. CASE mem[s] # 0 /\ mem[s] # call.c
  <2>1. Turn(s + 1, d, n, mem)  BY <1>2 DEF strfind
  <2>2. d \in Nat /\ n \in Nat  BY <1>1, <1>2
  <2> QED
    BY <1>1, <1>2, <2>1, <2>2, ReadTurn DEF StringFunctions, Functions, BlockFunctions, Copying, Comparing
<1>3. CASE ~(mem[s] # 0 /\ mem[s] # call.c)
  <2>1. Finish(s, mem)  BY <1>3 DEF strfind, Return
  <2>2. mem = Written(call, mem0)
    BY <1>1, OnlyRead DEF StringFunctions, Functions, BlockFunctions, Copying, Comparing
  <2>3. s = Result(call, mem0)  BY <1>1, <1>3, strfindEnds
  <2> DEFINE v == s
  <2> HIDE DEF v
  <2>4. Finish(v, mem) /\ v = Result(call, mem0)  BY <2>1, <2>3 DEF v
  <2> QED
    BY <1>1, <2>2, <2>4, FinishKeeps DEF StringFunctions, Functions, BlockFunctions, Copying, Comparing
<1> QED  BY <1>2, <1>3

LEMMA memcmpKeeps ==
  ASSUME Looping, memcmp
  PROVE  StringParts'
<1>1. call.fn = "memcmp" /\ n \in Nat /\ d \in Nat  BY CallFacts DEF Looping, memcmp, Is
<1>2. CASE n > 0 /\ mem[d] = mem[s]
  <2>1. Turn(s + 1, d + 1, n - 1, mem)  BY <1>2 DEF memcmp
  <2>2. d + 1 \in Nat /\ n - 1 \in Nat  BY <1>1, <1>2
  <2> QED
    BY <1>1, <1>2, <2>1, <2>2, ReadTurn DEF StringFunctions, Functions, BlockFunctions, Copying, Comparing
<1>3. CASE ~(n > 0 /\ mem[d] = mem[s])
  <2>1. Finish((IF n = 0 THEN 0 ELSE mem[d] - mem[s]), mem)  BY <1>3 DEF memcmp, Return
  <2>2. mem = Written(call, mem0)
    BY <1>1, OnlyRead DEF StringFunctions, Functions, BlockFunctions, Copying, Comparing
  <2>3. (IF n = 0 THEN 0 ELSE mem[d] - mem[s]) = Result(call, mem0)  BY <1>1, <1>3, memcmpEnds
  <2> DEFINE v == (IF n = 0 THEN 0 ELSE mem[d] - mem[s])
  <2> HIDE DEF v
  <2>4. Finish(v, mem) /\ v = Result(call, mem0)  BY <2>1, <2>3 DEF v
  <2> QED
    BY <1>1, <2>2, <2>4, FinishKeeps DEF StringFunctions, Functions, BlockFunctions, Copying, Comparing
<1> QED  BY <1>2, <1>3

LEMMA memfindKeeps ==
  ASSUME Looping, memfind
  PROVE  StringParts'
<1>1. call.fn = "memfind" /\ n \in Nat /\ d \in Nat  BY CallFacts DEF Looping, memfind, Is
<1>2. CASE s < call.src + call.n /\ mem[s] # call.c % 256
  <2>1. Turn(s + 1, d, n, mem)  BY <1>2 DEF memfind
  <2>2. d \in Nat /\ n \in Nat  BY <1>1, <1>2
  <2> QED
    BY <1>1, <1>2, <2>1, <2>2, ReadTurn DEF StringFunctions, Functions, BlockFunctions, Copying, Comparing
<1>3. CASE ~(s < call.src + call.n /\ mem[s] # call.c % 256)
  <2>1. Finish(s, mem)  BY <1>3 DEF memfind, Return
  <2>2. mem = Written(call, mem0)
    BY <1>1, OnlyRead DEF StringFunctions, Functions, BlockFunctions, Copying, Comparing
  <2>3. s = Result(call, mem0)  BY <1>1, <1>3, memfindEnds
  <2> DEFINE v == s
  <2> HIDE DEF v
  <2>4. Finish(v, mem) /\ v = Result(call, mem0)  BY <2>1, <2>3 DEF v
  <2> QED
    BY <1>1, <2>2, <2>4, FinishKeeps DEF StringFunctions, Functions, BlockFunctions, Copying, Comparing
<1> QED  BY <1>2, <1>3

LEMMA strcpyKeeps ==
  ASSUME Looping, strcpy
  PROVE  StringParts'
<1>1. call.fn \in {"strcpy", "strcat"} /\ n \in Nat  BY CallFacts DEF Looping, strcpy, Is
<1>2. CASE mem[s] # 0
  <2>1. Turn(s + 1, d + 1, n, With(d, mem[s]))  BY <1>2 DEF strcpy
  <2> QED  BY <1>1, <1>2, <2>1, CopyTurn
<1>3. CASE mem[s] = 0
  <2> DEFINE m1 == With(d, 0)
             v == call.dst
  <2>1. v = Result(call, mem0) /\ m1 = Written(call, mem0)  BY <1>1, <1>3, strcpyEnds
  <2>2. Finish(v, m1)  BY <1>3 DEF strcpy
  <2> HIDE DEF m1, v
  <2> QED  BY <1>1, <2>1, <2>2, FinishKeeps DEF StringFunctions, Functions, BlockFunctions
<1> QED  BY <1>2, <1>3

LEMMA strncpyKeeps ==
  ASSUME Looping, strncpy
  PROVE  StringParts'
<1>1. call.fn = "strncpy" /\ n \in Nat  BY CallFacts DEF Looping, strncpy, Is
<1>2. CASE n > 0
  <2>1. Turn(IF mem[s] # 0 THEN s + 1 ELSE s, d + 1, n - 1, With(d, mem[s]))
    BY <1>2 DEF strncpy
  <2> QED  BY <1>1, <1>2, <2>1, strncpyTurn
<1>3. CASE ~(n > 0)
  <2> DEFINE v == call.dst
  <2>1. v = Result(call, mem0) /\ mem = Written(call, mem0)  BY <1>1, <1>3, strncpyEnds
  <2>2. Finish(v, mem)  BY <1>3 DEF strncpy, Return
  <2> HIDE DEF v
  <2> QED  BY <1>1, <2>1, <2>2, FinishKeeps DEF StringFunctions, Functions, BlockFunctions
<1> QED  BY <1>2, <1>3

LEMMA strlcpyKeeps ==
  ASSUME Looping, strlcpy
  PROVE  StringParts'
<1>1. call.fn = "strlcpy" /\ n \in Nat  BY CallFacts DEF Looping, strlcpy, Is
<1>2. CASE n > 1 /\ mem[s] # 0
  <2>1. Turn(s + 1, d + 1, n - 1, With(d, mem[s]))  BY <1>2 DEF strlcpy
  <2>2. n - 1 \in Nat  BY <1>1, <1>2
  <2> QED  BY <1>1, <1>2, <2>1, <2>2, CopyTurn
<1>3. CASE ~(n > 1 /\ mem[s] # 0)
  <2> DEFINE m1 == IF call.n > 0 THEN With(d, 0) ELSE mem
             v == d - call.dst
  <2>1. v = Result(call, mem0) /\ m1 = Written(call, mem0)  BY <1>1, <1>3, strlcpyEnds
  <2>2. Finish(v, m1)  BY <1>3 DEF strlcpy
  <2> HIDE DEF m1, v
  <2> QED  BY <1>1, <2>1, <2>2, FinishKeeps DEF StringFunctions, Functions, BlockFunctions
<1> QED  BY <1>2, <1>3

\* The invariant holds at the call, and is kept by every step.
LEMMA StringInit == Init => SInv
<1> SUFFICES ASSUME Init, call.fn \in StringFunctions
             PROVE  StringParts
  BY DEF SInv, StringParts
<1>1. PICK i \in Inputs : call = i.call /\ mem = i.mem  BY DEF Init
<1>2. call \in CallRecord /\ Proper(call, mem) /\ mem \in [Addr -> Byte]
  BY <1>1, StringAssumption
<1>3. /\ mem0 = mem /\ s = src /\ d = dst /\ n = (IF call.fn = "strlen" THEN 0 ELSE call.n)
  BY DEF Init, src, dst
<1>4. pc = IF call.fn = "strcat" THEN "seek" ELSE "loop"
  <2>1. call.fn \notin BlockFunctions /\ call.fn # "strtol"  BY DEF StringFunctions
  <2>2. pc = CASE call.fn \in BlockFunctions -> "entry"
               [] call.fn = "strcat" -> "seek"
               [] call.fn = "strtol" -> "white"
               [] OTHER -> "loop"
    BY DEF Init
  <2> QED  BY Zenon, <2>1, <2>2
<1>5. src \in Nat /\ dst \in Nat /\ call.n \in Nat /\ passed = 0
  <2>1. src \in Nat /\ dst \in Nat /\ call.n \in Nat
    BY <1>2, StringAssumption DEF CallRecord, src, dst
  <2> QED  BY <1>3, <2>1 DEF passed
<1>6. StringCallPart  BY <1>2, <1>3, <1>4, <1>5 DEF StringCallPart
<1>7. SeekPart  BY <1>3, <1>4, <1>5 DEF SeekPart
<1>8. PassedPart  BY <1>5 DEF PassedPart
<1>9. CountPart  BY <1>3, <1>5 DEF CountPart
<1>10. CopyPart
  <2>1. CASE call.fn = "strcat"  BY <1>4, <2>1 DEF CopyPart
  <2>2. CASE call.fn # "strcat"
    <3>1. start = dst /\ d - start = 0  BY <1>3, <1>5, <2>2 DEF start
    <3>2. Replaced(mem0, start, 0, Text(mem0, src, len)) = mem0
      BY <1>2, <1>3, <1>5, <3>1, ReplacedNone
    <3>3. call.fn = "strncpy" => len \in Nat  BY <1>6, SourceEnds
    <3> QED  BY <1>3, <1>5, <2>2, <3>1, <3>2, <3>3 DEF CopyPart, Copying
  <2> QED  BY <2>1, <2>2
<1> QED  BY <1>4, <1>6, <1>7, <1>8, <1>9, <1>10 DEF StringParts, StringsAreRight, Done

LEMMA StringNext == SInv /\ [Next]_vars => SInv'
<1> SUFFICES ASSUME SInv, [Next]_vars, call'.fn \in StringFunctions
             PROVE  StringParts'
  BY DEF SInv, StringParts
<1>1. CASE UNCHANGED vars
  <2>1. call' = call /\ mem0' = mem0 /\ mem' = mem /\ n' = n /\ s' = s /\ d' = d
        /\ pc' = pc /\ ret' = ret
    BY <1>1 DEF vars
  <2>2. passed' = passed  BY <2>1, SameCall DEF passed
  <2>3. StringParts  BY <2>1 DEF SInv, StringParts
  <2>4. StringCallPart' /\ SeekPart' /\ PassedPart' /\ CountPart'
    BY <2>1, <2>2, <2>3, SameCall
       DEF StringParts, StringCallPart, SeekPart, PassedPart, CountPart
  <2>5. CopyPart' /\ StringsAreRight'
    BY <2>1, <2>2, <2>3, SameCall DEF StringParts, CopyPart, StringsAreRight, Done
  <2> QED  BY <2>4, <2>5 DEF StringParts
<1>2. CASE Blocks
  <2>1. call.fn \in BlockFunctions /\ call' = call
    BY <1>2 DEF Blocks, SetStart, Stos, MoveStart, Movs, MoveEnd, Is, Turn, Return, Finish,
         BlockFunctions
  <2> QED  BY <2>1 DEF StringFunctions
<1>3. CASE strtol
  <2>1. call.fn = "strtol" /\ call' = call
    BY <1>3 DEF strtol, White, Sign, Digits, EndOfNumber, Is, Return, Finish
  <2> QED  BY <2>1 DEF StringFunctions
<1>4. CASE Strings
  <2>1. call' = call
    BY <1>4 DEF Strings, strlen, strnlen, strcpy, strcat, strncpy, strlcpy, strcmp, strncmp, strchr,
         strfind, memcmp, memfind, Turn, Return, Finish
  <2>2. StringParts  BY <2>1 DEF SInv, StringParts
  <2>3. pc = "loop" => Looping  BY <2>2 DEF StringParts, Looping
  <2>4. CASE strcat  BY <2>2, <2>4, strcatSeeks DEF StringParts
  <2>5. CASE strlen \/ strnlen \/ strcpy \/ strncpy \/ strlcpy \/ strcmp
    <3>1. Looping
      BY <2>3, <2>5 DEF strlen, strnlen, strcpy, strncpy, strlcpy, strcmp, Is
    <3> QED
      BY <2>5, <3>1, strlenKeeps, strnlenKeeps, strcpyKeeps, strncpyKeeps, strlcpyKeeps, strcmpKeeps
  <2>6. CASE strncmp \/ strchr \/ strfind \/ memcmp \/ memfind
    <3>1. Looping
      BY <2>3, <2>6 DEF strncmp, strchr, strfind, memcmp, memfind, Is
    <3> QED
      BY <2>6, <3>1, strncmpKeeps, strchrKeeps, strfindKeeps, memcmpKeeps, memfindKeeps
  <2> QED  BY <1>4, <2>4, <2>5, <2>6 DEF Strings
<1> QED  BY <1>1, <1>2, <1>3, <1>4 DEF Next

\* Every string function returns and writes what its name promises, for every
\* proper call and memory of every size.
THEOREM StringsTheorem == Spec => []StringsAreRight
<1>1. SInv => StringsAreRight  BY DEF SInv, StringsAreRight
<1> QED  BY <1>1, StringInit, StringNext, PTL DEF Spec

-----------------------------------------------------------------------------
(* Recursive functions, powers, and numbers of W bits.                     *)

\* A set that holds 0 and with each number the next one holds all naturals.
LEMMA NatInd ==
  ASSUME NEW T, 0 \in T, \A k \in Nat : k \in T => k + 1 \in T
  PROVE  Nat \subseteq T
<1> SUFFICES ASSUME Nat \ T # {}  PROVE FALSE  OBVIOUS
<1>1. PICK x \in Nat \ T : \A y \in Nat \ T : x <= y  BY Least
<1>2. x # 0 /\ x - 1 \in Nat  OBVIOUS
<1>3. x - 1 \in T  BY <1>1, <1>2
<1>4. (x - 1) + 1 \in T  BY <1>2, <1>3
<1> QED  BY <1>4

\* f is the function that starts with a and goes on with h, as far as k.
Goes(f, S, a, h, k) ==
  /\ f \in [0 .. k -> S] /\ f[0] = a
  /\ \A i \in 0 .. k - 1 : f[i + 1] = h[<<i, f[i]>>]

LEMMA GoesOn ==
  ASSUME NEW S, NEW a \in S, NEW h \in [Nat \X S -> S], NEW k \in Nat
  PROVE  \E f : Goes(f, S, a, h, k)
<1> DEFINE T == {i \in Nat : \E f : Goes(f, S, a, h, i)}
<1>1. 0 \in T
  <2> DEFINE g == [i \in 0 .. 0 |-> a]
  <2>1. g \in [0 .. 0 -> S] /\ g[0] = a /\ 0 .. 0 - 1 = {}  OBVIOUS
  <2> HIDE DEF g
  <2> QED  BY <2>1 DEF Goes
<1>2. ASSUME NEW i \in Nat, i \in T  PROVE i + 1 \in T
  <2>1. PICK f : Goes(f, S, a, h, i)  BY <1>2
  <2>2. f \in [0 .. i -> S] /\ f[i] \in S  BY <2>1 DEF Goes
  <2> DEFINE g == [j \in 0 .. i + 1 |-> IF j = i + 1 THEN h[<<i, f[i]>>] ELSE f[j]]
  <2>3. g[i + 1] = h[<<i, f[i]>>] /\ \A j \in 0 .. i : g[j] = f[j]  OBVIOUS
  <2>4. g \in [0 .. i + 1 -> S]
    <3>1. h[<<i, f[i]>>] \in S  BY <2>2
    <3> QED  BY <2>2, <3>1
  <2> HIDE DEF g
  <2>5. ASSUME NEW j \in 0 .. i  PROVE g[j + 1] = h[<<j, g[j]>>]
    <3>1. CASE j = i  BY <2>3, <3>1
    <3>2. CASE j # i
      <4>1. j \in 0 .. i - 1 /\ j + 1 \in 0 .. i  BY <3>2
      <4>2. f[j + 1] = h[<<j, f[j]>>]  BY <2>1, <4>1 DEF Goes
      <4> QED  BY <2>3, <4>1, <4>2
    <3> QED  BY <3>1, <3>2
  <2>6. g[0] = a  BY <2>1, <2>3 DEF Goes
  <2>7. (i + 1) - 1 = i  OBVIOUS
  <2>8. Goes(g, S, a, h, i + 1)  BY <2>4, <2>5, <2>6, <2>7 DEF Goes
  <2> QED  BY <2>8
<1>3. Nat \subseteq T
  <2> HIDE DEF T
  <2> QED  BY <1>1, <1>2, NatInd
<1> QED  BY <1>3

\* There is only one.
LEMMA GoesAlike ==
  ASSUME NEW S, NEW a, NEW h, NEW k \in Nat, NEW l \in Nat, k <= l,
         NEW f, Goes(f, S, a, h, k), NEW g, Goes(g, S, a, h, l)
  PROVE  \A i \in 0 .. k : f[i] = g[i]
<1> DEFINE T == {i \in Nat : i <= k => f[i] = g[i]}
<1>1. 0 \in T  BY DEF Goes
<1>2. ASSUME NEW i \in Nat, i \in T, i + 1 <= k  PROVE f[i + 1] = g[i + 1]
  <2>1. f[i] = g[i] /\ i \in 0 .. k - 1 /\ i \in 0 .. l - 1  BY <1>2
  <2> QED  BY <2>1 DEF Goes
<1>3. Nat \subseteq T
  <2>1. \A i \in Nat : i \in T => i + 1 \in T  BY <1>2
  <2> HIDE DEF T
  <2> QED  BY <1>1, <2>1, NatInd
<1> QED  BY <1>3

\* A recursive function on the naturals exists.
GoesForEver(f, S, a, h) ==
  f \in [Nat -> S] /\ f[0] = a /\ \A i \in Nat : f[i + 1] = h[<<i, f[i]>>]

LEMMA Recursion ==
  ASSUME NEW S, NEW a \in S, NEW h \in [Nat \X S -> S]
  PROVE  \E f : GoesForEver(f, S, a, h)
<1> DEFINE g(k) == CHOOSE f : Goes(f, S, a, h, k)
           f == [k \in Nat |-> g(k)[k]]
<1>1. \A k \in Nat : Goes(g(k), S, a, h, k)  BY GoesOn
<1> HIDE DEF g
<1>2. f \in [Nat -> S]
  <2>1. \A k \in Nat : g(k)[k] \in S  BY <1>1 DEF Goes
  <2> QED  BY <2>1
<1>3. f[0] = a  BY <1>1 DEF Goes
<1>4. ASSUME NEW i \in Nat  PROVE f[i + 1] = h[<<i, f[i]>>]
  <2>1. g(i + 1)[i + 1] = h[<<i, g(i + 1)[i]>>]
    <3>1. Goes(g(i + 1), S, a, h, i + 1) /\ i \in 0 .. (i + 1) - 1  BY <1>1
    <3> QED  BY <3>1 DEF Goes
  <2>2. g(i + 1)[i] = g(i)[i]
    <3>1. Goes(g(i), S, a, h, i) /\ Goes(g(i + 1), S, a, h, i + 1) /\ i + 1 \in Nat  BY <1>1
    <3> QED  BY <3>1, GoesAlike
  <2> QED  BY <2>1, <2>2
<1> HIDE DEF f
<1>5. GoesForEver(f, S, a, h)  BY <1>2, <1>3, <1>4 DEF GoesForEver
<1> QED  BY <1>5

\* Powers are what they should be.
LEMMA PowerIs ==
  ASSUME NEW b \in Int
  PROVE  /\ Power(b, 0) = 1
         /\ \A k \in Nat : Power(b, k) \in Int /\ Power(b, k + 1) = b * Power(b, k)
<1> DEFINE h == [x \in Nat \X Int |-> b * x[2]]
           Is1(p) == p = [i \in Nat |-> IF i = 0 THEN 1 ELSE b * p[i - 1]]
           p1 == CHOOSE p : Is1(p)
<1>1. h \in [Nat \X Int -> Int] /\ \A i \in Nat, y \in Int : h[<<i, y>>] = b * y  OBVIOUS
<1>2. PICK f : GoesForEver(f, Int, 1, h)
  <2> HIDE DEF h
  <2>1. \A a \in Int : \E f : GoesForEver(f, Int, a, h)  BY <1>1, Recursion
  <2>2. 1 \in Int  OBVIOUS
  <2> QED  BY Zenon, <2>1, <2>2
<1>3. Is1(f)
  <2>1. ASSUME NEW i \in Nat  PROVE f[i] = IF i = 0 THEN 1 ELSE b * f[i - 1]
    <3>1. CASE i = 0  BY <1>2, <3>1 DEF GoesForEver
    <3>2. CASE i # 0
      <4>1. i - 1 \in Nat /\ (i - 1) + 1 = i  BY <3>2
      <4>2. f[i - 1] \in Int  BY <1>2, <4>1 DEF GoesForEver
      <4>3. f[(i - 1) + 1] = b * f[i - 1]
        <5> HIDE DEF h
        <5> QED  BY <1>1, <1>2, <4>1, <4>2 DEF GoesForEver
      <4> QED  BY <3>2, <4>1, <4>3
    <3> QED  BY <3>1, <3>2
  <2> QED  BY <1>2, <2>1 DEF GoesForEver
<1>4. Is1(p1)
  <2> HIDE DEF Is1
  <2> QED  BY <1>3
<1>5. \A k : Power(b, k) = p1[k]  BY Zenon DEF Power
<1> HIDE DEF p1
<1>6. p1[0] = 1 /\ \A k \in Nat : p1[k + 1] = b * p1[k]
  <2>1. p1[0] = 1  BY <1>4
  <2>2. ASSUME NEW k \in Nat  PROVE p1[k + 1] = b * p1[k]
    <3>1. k + 1 \in Nat /\ k + 1 # 0 /\ (k + 1) - 1 = k  OBVIOUS
    <3>2. p1[k + 1] = IF k + 1 = 0 THEN 1 ELSE b * p1[(k + 1) - 1]  BY <1>4, <3>1
    <3> QED  BY <3>1, <3>2
  <2> QED  BY <2>1, <2>2
<1>7. \A k \in Nat : p1[k] \in Int
  <2> DEFINE T == {k \in Nat : p1[k] \in Int}
  <2>1. 0 \in T /\ \A k \in Nat : k \in T => k + 1 \in T  BY <1>6
  <2>2. Nat \subseteq T
    <3> HIDE DEF T
    <3> QED  BY <2>1, NatInd
  <2> QED  BY <2>2
<1> QED  BY <1>5, <1>6, <1>7

LEMMA PowerPositive ==
  ASSUME NEW b \in Nat \ {0}, NEW k \in Nat
  PROVE  Power(b, k) \in Nat \ {0}
<1> DEFINE T == {i \in Nat : Power(b, i) \in Nat \ {0}}
<1>1. 0 \in T
  <2>1. Power(b, 0) = 1  BY PowerIs
  <2> QED  BY <2>1
<1>2. ASSUME NEW i \in Nat, i \in T  PROVE i + 1 \in T
  <2>1. Power(b, i) \in Nat \ {0} /\ Power(b, i + 1) = b * Power(b, i)  BY <1>2, PowerIs
  <2>2. \A x, y \in Nat \ {0} : x * y \in Nat \ {0}  OBVIOUS
  <2> QED  BY <2>1, <2>2
<1>3. Nat \subseteq T
  <2> HIDE DEF T
  <2> QED  BY <1>1, <1>2, NatInd
<1> QED  BY <1>3

\* Quotient and rest, and that a multiple makes no difference to the rest.
LEMMA Rest ==
  ASSUME NEW x \in Int, NEW M \in Nat \ {0}
  PROVE  x \div M \in Int /\ x % M \in 0 .. M - 1 /\ x = M * (x \div M) + (x % M)
OBVIOUS

LEMMA SameRest ==
  ASSUME NEW x \in Int, NEW M \in Nat \ {0}, NEW q \in Int
  PROVE  (x + M * q) % M = x % M
<1> DEFINE y == x + M * q
           r == x % M
           t == y % M
           k == (x \div M) + q - (y \div M)
<1>1. y \in Int  OBVIOUS
<1>2. x \div M \in Int /\ r \in 0 .. M - 1 /\ x = M * (x \div M) + r  BY Rest
<1>3. y \div M \in Int /\ t \in 0 .. M - 1 /\ y = M * (y \div M) + t
  <2> HIDE DEF y
  <2> QED  BY <1>1, Rest
<1>4. t - r = M * k /\ k \in Int  BY <1>2, <1>3
<1> HIDE DEF k, r, t
<1>5. ASSUME NEW j \in Int, j >= 1  PROVE M * j >= M  BY <1>5
<1>6. t = r
  <2>1. CASE k >= 1  BY <1>2, <1>3, <1>4, <1>5, <2>1
  <2>2. CASE k <= -1
    <3>1. M * (-k) >= M  BY <1>4, <1>5, <2>2
    <3>2. M * (-k) = r - t  BY <1>2, <1>3, <1>4
    <3> QED  BY <1>2, <1>3, <3>1, <3>2
  <2>3. CASE k = 0  BY <1>2, <1>3, <1>4, <2>3
  <2> QED  BY <1>4, <2>1, <2>2, <2>3
<1> QED  BY <1>6 DEF t, r, y

\* Wrapping takes off a multiple of 2^W, and does not see one.
LEMMA WrappedIs ==
  ASSUME NEW v \in Int
  PROVE  /\ Wrapped(v) \in Int
         /\ \E q \in Int : Wrapped(v) = v + Power(2, W) * q
<1> DEFINE M == Power(2, W)
           H == Power(2, W - 1)
<1>1. M \in Nat \ {0} /\ H \in Int  BY StringAssumption, PowerIs, PowerPositive
<1>2. Wrapped(v) = ((v + H) % M) - H  BY DEF Wrapped
<1> HIDE DEF M, H
<1>3. (v + H) \div M \in Int /\ (v + H) % M \in Int /\ v + H = M * ((v + H) \div M) + ((v + H) % M)
  BY <1>1, Rest
<1>4. Wrapped(v) = v + M * (-((v + H) \div M))  BY <1>1, <1>2, <1>3
<1> QED  BY <1>1, <1>2, <1>3, <1>4 DEF M

LEMMA WrappedSame ==
  ASSUME NEW v \in Int, NEW q \in Int
  PROVE  Wrapped(v + Power(2, W) * q) = Wrapped(v)
<1> DEFINE M == Power(2, W)
           H == Power(2, W - 1)
<1>1. M \in Nat \ {0} /\ H \in Int  BY StringAssumption, PowerIs, PowerPositive
<1>2. Wrapped(v + M * q) = (((v + M * q) + H) % M) - H /\ Wrapped(v) = ((v + H) % M) - H
  BY DEF Wrapped
<1> HIDE DEF M, H
<1>3. (v + M * q) + H = (v + H) + M * q  BY <1>1
<1>4. ((v + H) + M * q) % M = (v + H) % M
  <2>1. v + H \in Int  BY <1>1
  <2>2. \A z \in Int : (z + M * q) % M = z % M  BY <1>1, SameRest
  <2> QED  BY <2>1, <2>2
<1> QED  BY <1>2, <1>3, <1>4 DEF M

\* So it does not matter when a result is wrapped.
LEMMA WrappedLater ==
  ASSUME NEW v \in Int, NEW b \in Int, NEW e \in Int
  PROVE  Wrapped(Wrapped(v) * b + e) = Wrapped(v * b + e)
<1>1. PICK q \in Int : Wrapped(v) = v + Power(2, W) * q  BY WrappedIs
<1>2. Power(2, W) \in Int  BY StringAssumption, PowerIs
<1>3. Wrapped(v) * b + e = (v * b + e) + Power(2, W) * (q * b)  BY <1>1, <1>2
<1>4. v * b + e \in Int /\ q * b \in Int  OBVIOUS
<1> QED  BY <1>3, <1>4, WrappedSame

LEMMA WrappedMinus ==
  ASSUME NEW v \in Int
  PROVE  Wrapped(-Wrapped(v)) = Wrapped(-v)
<1>1. Wrapped(Wrapped(v) * (-1) + 0) = Wrapped(v * (-1) + 0)  BY WrappedLater
<1>2. Wrapped(v) * (-1) + 0 = -Wrapped(v) /\ v * (-1) + 0 = -v  BY WrappedIs
<1> QED  BY <1>1, <1>2

LEMMA WrappedZero == Wrapped(0) = 0
<1> DEFINE M == Power(2, W)
           H == Power(2, W - 1)
<1>1. H \in Nat \ {0} /\ M = 2 * H
  <2>1. W - 1 \in Nat /\ (W - 1) + 1 = W  BY StringAssumption
  <2>2. Power(2, (W - 1) + 1) = 2 * Power(2, W - 1)  BY <2>1, PowerIs
  <2> QED  BY <2>1, <2>2, PowerPositive
<1>2. Wrapped(0) = ((0 + H) % M) - H  BY DEF Wrapped
<1> HIDE DEF M, H
<1>3. M \in Nat \ {0} /\ H < M  BY <1>1
<1>4. (0 + H) % M = H  BY <1>1, <1>3
<1> QED  BY <1>1, <1>2, <1>4

-----------------------------------------------------------------------------
(* The number that strtol is given.                                        *)

NumberCall ==
  /\ call.fn = "strtol" /\ call \in CallRecord /\ Proper(call, mem0)
  /\ mem0 \in [Addr -> Byte]

\* The first byte that is not in the set, if there is one.
LEMMA AfterIs ==
  ASSUME NEW a \in Nat, NEW set, NEW e \in a .. Size - 1, mem0[e] \notin set
  PROVE  /\ After(a, set) \in a .. e /\ mem0[After(a, set)] \notin set
         /\ \A k \in a .. After(a, set) - 1 : mem0[k] \in set
<1> DEFINE T == {k \in a .. Size - 1 : mem0[k] \notin set}
<1>1. T \subseteq Nat /\ T \subseteq Int /\ e \in T  OBVIOUS
<1>2. PICK x \in T : \A y \in T : x <= y
  <2> HIDE DEF T
  <2> QED  BY <1>1, Least
<1>3. After(a, set) = x
  <2>1. After(a, set) = Min(T)  BY DEF After
  <2> HIDE DEF T
  <2> QED  BY <1>1, <1>2, <2>1, MinIs
<1>4. x \in a .. e /\ mem0[x] \notin set  BY <1>1, <1>2
<1>5. ASSUME NEW k \in a .. x - 1  PROVE mem0[k] \in set
  <2>1. x \in Nat /\ e \in Nat /\ x <= e /\ e <= Size - 1 /\ Size \in Nat
    BY <1>1, <1>4, StringAssumption
  <2>2. k \in Nat /\ k >= a /\ k < x  BY <2>1
  <2>3. k \in a .. Size - 1 /\ ~(x <= k)  BY <2>1, <2>2
  <2> QED  BY <1>2, <2>3
<1> QED  BY <1>3, <1>4, <1>5

\* What counts as a digit, and what does not.
LEMMA DigitIs ==
  ASSUME NEW b \in Byte, NEW k \in Nat, IsDigit(b, k)
  PROVE  Digit(b) \in Nat /\ b # 0
BY DEF IsDigit, Digit, Byte

LEMMA NoDigit ==
  ASSUME NEW k \in Nat
  PROVE  ~IsDigit(0, k)
BY DEF IsDigit, Digit

\* White space is followed by the sign, the prefix and the digits, all of them
\* in memory.
LEMMA NumberFacts ==
  ASSUME NumberCall
  PROVE  /\ Size \in Nat /\ call.src \in Nat /\ call.base \in Nat
         /\ SignAt \in Nat /\ SignAt >= call.src /\ SignAt < Size
         /\ mem0[SignAt] \notin {9, 32}
         /\ \A k \in call.src .. SignAt - 1 : mem0[k] \in {9, 32}
         /\ Unsigned \in Nat /\ Unsigned \in SignAt .. SignAt + 1
         /\ Radix \in Nat
         /\ FirstDigit \in Nat /\ FirstDigit >= Unsigned
         /\ NumberEnd \in Nat /\ NumberEnd >= FirstDigit /\ NumberEnd < Size
         /\ ~IsDigit(mem0[NumberEnd], Radix)
         /\ \A k \in FirstDigit .. NumberEnd - 1 : IsDigit(mem0[k], Radix) /\ Digit(mem0[k]) \in Nat
<1>1. Size \in Nat /\ call.src \in Nat /\ call.base \in Nat
  BY StringAssumption DEF NumberCall, CallRecord
<1>2. PICK e \in call.src .. Size - 1 : mem0[e] = 0
  BY DEF NumberCall, Proper, Ends
<1>3. /\ SignAt \in call.src .. e /\ mem0[SignAt] \notin {9, 32}
      /\ \A k \in call.src .. SignAt - 1 : mem0[k] \in {9, 32}
  BY <1>1, <1>2, AfterIs DEF SignAt
<1>4. Unsigned \in SignAt .. SignAt + 1 /\ Unsigned <= e
  <2>1. CASE mem0[SignAt] \in {43, 45}
    <3>1. SignAt # e  BY <1>2, <2>1
    <3> QED  BY <1>1, <1>2, <1>3, <2>1, <3>1 DEF Unsigned
  <2>2. CASE mem0[SignAt] \notin {43, 45}  BY <1>1, <1>2, <1>3, <2>2 DEF Unsigned
  <2> QED  BY <2>1, <2>2
<1>5. Unsigned \in Nat  BY <1>1, <1>2, <1>3, <1>4
<1>6. Radix \in Nat  BY <1>1 DEF Radix
<1>7. FirstDigit \in Unsigned .. Unsigned + 2 /\ FirstDigit <= e
  <2>1. CASE Hex /\ Radix = 16
    <3>1. Unsigned # e /\ Unsigned + 1 # e  BY <1>2, <2>1 DEF Hex
    <3> QED  BY <1>1, <1>2, <1>4, <1>5, <2>1, <3>1 DEF FirstDigit
  <2>2. CASE ~(Hex /\ Radix = 16)  BY <1>1, <1>2, <1>4, <1>5, <2>2 DEF FirstDigit
  <2> QED  BY <2>1, <2>2
<1>8. FirstDigit \in Nat /\ e \in FirstDigit .. Size - 1  BY <1>1, <1>2, <1>5, <1>7
<1> DEFINE D == {b \in Byte : IsDigit(b, Radix)}
<1>9. mem0[e] \notin D  BY <1>2, <1>6, NoDigit
<1>10. /\ NumberEnd \in FirstDigit .. e /\ mem0[NumberEnd] \notin D
       /\ \A k \in FirstDigit .. NumberEnd - 1 : mem0[k] \in D
  <2>1. NumberEnd = After(FirstDigit, D)  BY DEF NumberEnd
  <2> HIDE DEF D
  <2> QED  BY <1>8, <1>9, <2>1, AfterIs
<1>11. NumberEnd \in Nat /\ NumberEnd < Size /\ NumberEnd >= FirstDigit
  BY <1>1, <1>2, <1>8, <1>10
<1>12. ~IsDigit(mem0[NumberEnd], Radix)
  <2>1. mem0[NumberEnd] \in Byte  BY <1>1, <1>11 DEF NumberCall, Addr
  <2> QED  BY <1>10, <2>1
<1>13. ASSUME NEW k \in FirstDigit .. NumberEnd - 1
       PROVE  IsDigit(mem0[k], Radix) /\ Digit(mem0[k]) \in Nat
  <2>1. mem0[k] \in D  BY <1>10
  <2> QED  BY <1>6, <2>1, DigitIs
<1>14. SignAt \in Nat /\ SignAt >= call.src /\ SignAt < Size  BY <1>1, <1>2, <1>3
<1> HIDE DEF D
<1> QED  BY <1>1, <1>3, <1>4, <1>5, <1>6, <1>7, <1>8, <1>11, <1>12, <1>13, <1>14

\* The value of the last digits, digit by digit.
LEMMA LastDigitsIs ==
  ASSUME NumberCall
  PROVE  /\ LastDigits(0) = 0
         /\ \A k \in 0 .. NumberEnd - FirstDigit : LastDigits(k) \in Int
         /\ \A k \in 0 .. NumberEnd - FirstDigit - 1 :
              LastDigits(k + 1) = Digit(mem0[NumberEnd - (k + 1)]) * Power(Radix, k) + LastDigits(k)
<1> DEFINE l == NumberEnd - FirstDigit
           part(i) == Digit(mem0[NumberEnd - (i + 1)]) * Power(Radix, i)
           h == [x \in Nat \X Int |-> IF x[1] < l THEN part(x[1]) + x[2] ELSE 0]
           IsV(v) == v = [i \in 0 .. l |-> IF i = 0 THEN 0
                            ELSE Digit(mem0[NumberEnd - i]) * Power(Radix, i - 1) + v[i - 1]]
           v1 == CHOOSE v : IsV(v)
<1>1. l \in Nat /\ NumberEnd \in Nat /\ Radix \in Nat  BY NumberFacts
<1>2. ASSUME NEW i \in Nat, i < l  PROVE part(i) \in Int
  <2>1. NumberEnd - (i + 1) \in FirstDigit .. NumberEnd - 1  BY <1>2, NumberFacts
  <2>2. Digit(mem0[NumberEnd - (i + 1)]) \in Nat /\ Power(Radix, i) \in Int
    BY <1>1, <2>1, NumberFacts, PowerIs
  <2> QED  BY <2>2
<1> HIDE DEF part, l
<1>3. /\ h \in [Nat \X Int -> Int]
      /\ \A i \in Nat, y \in Int : i < l => h[<<i, y>>] = part(i) + y
  BY <1>2
<1>4. PICK f : GoesForEver(f, Int, 0, h)
  <2> HIDE DEF h
  <2>1. \A a \in Int : \E f : GoesForEver(f, Int, a, h)  BY <1>3, Recursion
  <2>2. 0 \in Int  OBVIOUS
  <2> QED  BY Zenon, <2>1, <2>2
<1> HIDE DEF h
<1>5. f \in [Nat -> Int] /\ f[0] = 0 /\ \A i \in Nat : i < l => f[i + 1] = part(i) + f[i]
  <2>1. f \in [Nat -> Int] /\ f[0] = 0 /\ \A i \in Nat : f[i + 1] = h[<<i, f[i]>>]
    BY <1>4 DEF GoesForEver
  <2>2. \A i \in Nat : f[i] \in Int  BY <2>1
  <2> QED  BY <1>3, <2>1, <2>2
<1>6. \E v : IsV(v)
  <2> DEFINE g == [i \in 0 .. l |-> f[i]]
  <2>1. ASSUME NEW i \in 0 .. l
        PROVE  g[i] = IF i = 0 THEN 0
                      ELSE Digit(mem0[NumberEnd - i]) * Power(Radix, i - 1) + g[i - 1]
    <3>1. CASE i = 0  BY <1>1, <1>5, <3>1
    <3>2. CASE i # 0
      <4>1. i - 1 \in Nat /\ i - 1 < l /\ (i - 1) + 1 = i /\ i - 1 \in 0 .. l  BY <1>1, <3>2
      <4>2. f[(i - 1) + 1] = part(i - 1) + f[i - 1]  BY <1>5, <4>1
      <4>3. g[i] = f[i] /\ g[i - 1] = f[i - 1]  BY <4>1
      <4> QED  BY <3>2, <4>1, <4>2, <4>3 DEF part
    <3> QED  BY <3>1, <3>2
  <2>2. g = [i \in 0 .. l |-> g[i]]  OBVIOUS
  <2> HIDE DEF g
  <2>3. IsV(g)  BY <2>1, <2>2
  <2> QED  BY <2>3
<1>7. IsV(v1)
  <2> HIDE DEF IsV
  <2> QED  BY <1>6
<1>8. \A k : LastDigits(k) = v1[k]  BY Zenon DEF LastDigits, l
<1> HIDE DEF v1
<1>9. v1[0] = 0  BY <1>1, <1>7
<1>10. ASSUME NEW k \in 0 .. l - 1  PROVE v1[k + 1] = part(k) + v1[k]
  <2>1. k + 1 \in 0 .. l /\ k + 1 # 0 /\ (k + 1) - 1 = k  BY <1>1
  <2>2. v1[k + 1] = IF k + 1 = 0 THEN 0
                    ELSE Digit(mem0[NumberEnd - (k + 1)]) * Power(Radix, (k + 1) - 1) + v1[(k + 1) - 1]
    BY <1>7, <2>1
  <2> QED  BY <2>1, <2>2 DEF part
<1>11. \A k \in 0 .. l : v1[k] \in Int
  <2> DEFINE T == {k \in Nat : k <= l => v1[k] \in Int}
  <2>1. 0 \in T  BY <1>9
  <2>2. ASSUME NEW k \in Nat, k \in T, k + 1 <= l  PROVE v1[k + 1] \in Int
    <3>1. k \in 0 .. l - 1 /\ k < l /\ v1[k] \in Int  BY <1>1, <2>2
    <3> QED  BY <1>2, <1>10, <3>1
  <2>3. Nat \subseteq T
    <3>1. \A k \in Nat : k \in T => k + 1 \in T  BY <2>2
    <3> HIDE DEF T
    <3> QED  BY <2>1, <3>1, NatInd
  <2> QED  BY <2>3
<1> QED  BY <1>8, <1>9, <1>10, <1>11 DEF l, part

-----------------------------------------------------------------------------
(* strtol on its way: in front of the sign it passes white space; behind it *)
(* the value so far, read on with the digits that are left, is the value of *)
(* all of them.                                                             *)

WhitePart == pc = "white" => val = 0 /\ s \in call.src .. SignAt

\* The number u was read; what is left of the digits makes it the whole number.
Completes(u) ==
  u * Power(Radix, NumberEnd - s) + LastDigits(NumberEnd - s) = LastDigits(NumberEnd - FirstDigit)

ReadPart ==
  pc = "loop" =>
    /\ base = Radix /\ (neg <=> mem0[SignAt] = 45)
    /\ s \in FirstDigit .. NumberEnd
    /\ \E u \in Int : val = Wrapped(u) /\ Completes(u)

NumberParts ==
  /\ NumberCall /\ mem = mem0 /\ pc \in {"white", "loop", "done"}
  /\ WhitePart /\ ReadPart /\ NumberIsRight

NInv == call.fn = "strtol" => NumberParts

\* What the argument consists of does not change.
LEMMA SameNumber ==
  ASSUME call' = call, mem0' = mem0
  PROVE  /\ NumberCall' = NumberCall /\ SignAt' = SignAt /\ Radix' = Radix
         /\ FirstDigit' = FirstDigit /\ NumberEnd' = NumberEnd
         /\ \A k : LastDigits(k)' = LastDigits(k)
<1>1. SignAt' = SignAt  BY DEF SignAt, After
<1>2. Unsigned' = Unsigned  BY <1>1 DEF Unsigned
<1>3. Hex' = Hex  BY <1>2 DEF Hex
<1>4. Radix' = Radix  BY <1>2, <1>3 DEF Radix
<1>5. FirstDigit' = FirstDigit  BY <1>2, <1>3, <1>4 DEF FirstDigit
<1>6. NumberEnd' = NumberEnd  BY <1>4, <1>5 DEF NumberEnd, After
<1>7. \A k : LastDigits(k)' = LastDigits(k)  BY <1>4, <1>5, <1>6 DEF LastDigits
<1>8. NumberCall' = NumberCall  BY DEF NumberCall
<1> QED  BY <1>1, <1>4, <1>5, <1>6, <1>7, <1>8

LEMMA NumberInit == Init => NInv
<1> SUFFICES ASSUME Init, call.fn = "strtol"
             PROVE  NumberParts
  BY DEF NInv
<1>1. PICK i \in Inputs : call = i.call /\ mem = i.mem  BY DEF Init
<1>2. mem0 = mem /\ s = call.src /\ val = 0  BY DEF Init
<1>3. NumberCall  BY <1>1, <1>2, StringAssumption DEF NumberCall
<1>4. pc = "white"
  <2>1. call.fn \notin BlockFunctions /\ call.fn # "strcat"  BY DEF BlockFunctions
  <2>2. pc = CASE call.fn \in BlockFunctions -> "entry"
               [] call.fn = "strcat" -> "seek"
               [] call.fn = "strtol" -> "white"
               [] OTHER -> "loop"
    BY DEF Init
  <2> QED  BY Zenon, <2>1, <2>2
<1>5. WhitePart  BY <1>2, <1>3, NumberFacts DEF WhitePart
<1>6. ReadPart /\ NumberIsRight  BY <1>4 DEF ReadPart, NumberIsRight, Done
<1> QED  BY <1>2, <1>3, <1>4, <1>5, <1>6 DEF NumberParts

LEMMA WhiteKeeps ==
  ASSUME NumberParts, White
  PROVE  NumberParts'
<1>1. pc = "white" /\ mem[s] \in {9, 32} /\ s' = s + 1 /\ pc' = pc
  BY DEF White
<1>2. call' = call /\ mem0' = mem0 /\ mem' = mem /\ val' = val
  BY DEF White, regs
<1>3. s \in call.src .. SignAt /\ val = 0  BY <1>1 DEF NumberParts, WhitePart
<1>4. SignAt \in Nat /\ call.src \in Nat /\ mem[SignAt] \notin {9, 32}
  BY NumberFacts DEF NumberParts
<1>5. s # SignAt  BY <1>1, <1>4
<1>6. s' \in call.src .. SignAt  BY <1>1, <1>3, <1>4, <1>5
<1>7. WhitePart'  BY <1>2, <1>3, <1>6, SameNumber DEF WhitePart
<1>8. ReadPart' /\ NumberIsRight'  BY <1>1 DEF ReadPart, NumberIsRight, Done
<1>9. NumberCall' /\ mem' = mem0' /\ pc' \in {"white", "loop", "done"}
  BY <1>1, <1>2, SameNumber DEF NumberParts
<1> QED  BY <1>7, <1>8, <1>9 DEF NumberParts

\* The sign and the prefix: what follows are the digits, the 0 that tells the
\* base 8 is the first of them.
LEMMA SignKeeps ==
  ASSUME NumberParts, Sign
  PROVE  NumberParts'
<1>1. pc = "white" /\ mem[s] \notin {9, 32} /\ pc' = "loop" /\ val' = val
      /\ call' = call /\ mem0' = mem0 /\ mem' = mem
  BY DEF Sign
<1>2. NumberCall /\ mem = mem0 /\ s \in call.src .. SignAt /\ val = 0
  BY <1>1 DEF NumberParts, WhitePart
<1>3. s = SignAt  BY <1>1, <1>2, NumberFacts
<1>4. (neg' <=> mem0[SignAt] = 45)  BY <1>2, <1>3 DEF Sign
<1>5. base' = Prefix(Unsigned)[1] /\ s' = Unsigned + Prefix(Unsigned)[2]
  BY <1>2, <1>3 DEF Sign, Unsigned
<1>6. Unsigned \in Nat /\ call.base \in Nat /\ FirstDigit \in Nat /\ NumberEnd \in Nat
      /\ NumberEnd >= FirstDigit /\ Radix \in Nat
  BY <1>2, NumberFacts
<1>7. HexPrefix(Unsigned) <=> Hex /\ Radix = 16
  BY <1>2, <1>6 DEF HexPrefix, Hex, Radix
<1> DEFINE octal == call.base = 0 /\ ~Hex /\ mem0[Unsigned] = 48
<1>8. /\ base' = Radix /\ s' \in FirstDigit .. NumberEnd
      /\ 0 * Power(Radix, NumberEnd - s') + LastDigits(NumberEnd - s')
         = LastDigits(NumberEnd - FirstDigit)
  <2>1. CASE ~octal
    <3>1. base' = Radix /\ s' = FirstDigit
      <4>1. CASE HexPrefix(Unsigned)
        <5>1. Prefix(Unsigned)[1] = 16 /\ Prefix(Unsigned)[2] = 2  BY <4>1 DEF Prefix
        <5> QED  BY <1>5, <1>7, <4>1, <5>1 DEF FirstDigit
      <4>2. CASE ~HexPrefix(Unsigned) /\ call.base # 0
        <5>1. Prefix(Unsigned)[1] = call.base /\ Prefix(Unsigned)[2] = 0  BY <4>2 DEF Prefix
        <5> QED  BY <1>5, <1>6, <1>7, <4>2, <5>1 DEF FirstDigit, Radix
      <4>3. CASE ~HexPrefix(Unsigned) /\ call.base = 0
        <5>1. ~Hex /\ mem0[Unsigned] # 48  BY <1>2, <2>1, <4>3 DEF HexPrefix, Hex
        <5>2. Prefix(Unsigned)[1] = 10 /\ Prefix(Unsigned)[2] = 0  BY <1>2, <4>3, <5>1 DEF Prefix
        <5> QED  BY <1>5, <1>6, <1>7, <4>3, <5>1, <5>2 DEF FirstDigit, Radix
      <4> QED  BY <4>1, <4>2, <4>3
    <3>2. 0 * Power(Radix, NumberEnd - s') + LastDigits(NumberEnd - s')
          = LastDigits(NumberEnd - FirstDigit)
      <4>1. NumberEnd - FirstDigit \in Nat  BY <1>6
      <4>2. Power(Radix, NumberEnd - FirstDigit) \in Int  BY <1>6, <4>1, PowerIs
      <4>3. LastDigits(NumberEnd - FirstDigit) \in Int  BY <1>2, <4>1, LastDigitsIs
      <4> QED  BY <3>1, <4>2, <4>3
    <3> QED  BY <1>6, <3>1, <3>2
  <2>2. CASE octal
    <3>1. ~HexPrefix(Unsigned)  BY <2>2, <1>7
    <3>2. Prefix(Unsigned)[1] = 8 /\ Prefix(Unsigned)[2] = 1  BY <1>2, <2>2, <3>1 DEF Prefix
    <3>3. Radix = 8 /\ FirstDigit = Unsigned  BY <2>2 DEF Radix, FirstDigit
    <3>4. base' = Radix /\ s' = FirstDigit + 1  BY <1>5, <3>2, <3>3
    <3>5. Digit(48) = 0 /\ IsDigit(48, 8)  BY DEF Digit, IsDigit
    <3>6. NumberEnd # FirstDigit  BY <1>2, <2>2, <3>3, <3>5, NumberFacts
    <3> DEFINE k == (NumberEnd - FirstDigit) - 1
    <3>7. k \in Nat /\ k \in 0 .. NumberEnd - FirstDigit - 1 /\ k \in 0 .. NumberEnd - FirstDigit
          /\ NumberEnd - (k + 1) = FirstDigit /\ k + 1 = NumberEnd - FirstDigit
          /\ NumberEnd - s' = k
      BY <1>6, <3>4, <3>6
    <3> HIDE DEF k
    <3>8. LastDigits(k + 1) = Digit(mem0[NumberEnd - (k + 1)]) * Power(Radix, k) + LastDigits(k)
      BY <1>2, <3>7, LastDigitsIs
    <3>9. LastDigits(k) \in Int /\ Power(Radix, k) \in Int  BY <1>2, <1>6, <3>7, LastDigitsIs, PowerIs
    <3>10. Digit(mem0[NumberEnd - (k + 1)]) = 0  BY <2>2, <3>3, <3>5, <3>7
    <3>11. 0 * Power(Radix, NumberEnd - s') + LastDigits(NumberEnd - s')
           = LastDigits(NumberEnd - FirstDigit)
      BY <3>7, <3>8, <3>9, <3>10
    <3> QED  BY <1>6, <3>4, <3>6, <3>11
  <2> QED  BY <2>1, <2>2
<1>9. Completes(0)'  BY <1>1, <1>8, SameNumber DEF Completes
<1>10. val' = Wrapped(0)  BY <1>1, <1>2, WrappedZero
<1>11. ReadPart'
  <2>1. (\E u \in Int : val = Wrapped(u) /\ Completes(u))'  BY <1>9, <1>10
  <2>2. (base = Radix /\ (neg <=> mem0[SignAt] = 45) /\ s \in FirstDigit .. NumberEnd)'
    BY <1>1, <1>4, <1>8, SameNumber
  <2> QED  BY <2>1, <2>2 DEF ReadPart
<1>12. WhitePart' /\ NumberIsRight'  BY <1>1 DEF WhitePart, NumberIsRight, Done
<1>13. NumberCall' /\ mem' = mem0' /\ pc' \in {"white", "loop", "done"}
  BY <1>1, <1>2, SameNumber
<1> QED  BY <1>11, <1>12, <1>13 DEF NumberParts

\* One more digit.
LEMMA DigitsKeeps ==
  ASSUME NumberParts, Digits
  PROVE  NumberParts'
<1>1. pc = "loop" /\ IsDigit(mem[s], base) /\ s' = s + 1 /\ pc' = pc
      /\ val' = Wrapped(val * base + Digit(mem[s]))
  BY DEF Digits, Is
<1>2. call' = call /\ mem0' = mem0 /\ mem' = mem /\ base' = base /\ neg' = neg
  BY DEF Digits
<1>3. NumberCall /\ mem = mem0 /\ base = Radix /\ (neg <=> mem0[SignAt] = 45)
      /\ s \in FirstDigit .. NumberEnd
  BY <1>1 DEF NumberParts, ReadPart
<1>4. PICK u \in Int : val = Wrapped(u) /\ Completes(u)  BY <1>1 DEF NumberParts, ReadPart
<1>5. FirstDigit \in Nat /\ NumberEnd \in Nat /\ Radix \in Nat /\ s # NumberEnd
  BY <1>1, <1>3, NumberFacts
<1>6. s \in FirstDigit .. NumberEnd - 1 /\ s' \in FirstDigit .. NumberEnd  BY <1>1, <1>3, <1>5
<1>7. Digit(mem[s]) \in Nat  BY <1>3, <1>6, NumberFacts
<1> DEFINE k == NumberEnd - (s + 1)
<1>8. k \in Nat /\ k \in 0 .. NumberEnd - FirstDigit - 1 /\ k \in 0 .. NumberEnd - FirstDigit
      /\ NumberEnd - s' = k /\ NumberEnd - s = k + 1 /\ NumberEnd - (k + 1) = s
  BY <1>1, <1>5, <1>6
<1> HIDE DEF k
<1>9. LastDigits(k + 1) = Digit(mem[s]) * Power(Radix, k) + LastDigits(k)
  BY <1>3, <1>8, LastDigitsIs
<1>10. LastDigits(k) \in Int /\ Power(Radix, k) \in Int /\ Power(Radix, k + 1) = Radix * Power(Radix, k)
  BY <1>3, <1>5, <1>8, LastDigitsIs, PowerIs
<1>11. u * Power(Radix, k + 1) + LastDigits(k + 1) = LastDigits(NumberEnd - FirstDigit)
  BY <1>4, <1>8 DEF Completes
<1>12. PICK u1 \in Int : u1 = u * Radix + Digit(mem[s])  BY <1>5, <1>7
<1>13. u1 * Power(Radix, k) + LastDigits(k) = LastDigits(NumberEnd - FirstDigit)
  <2> DEFINE P == Power(Radix, k)
             g == Digit(mem[s])
  <2>1. u * (Radix * P) + (g * P + LastDigits(k)) = LastDigits(NumberEnd - FirstDigit)
    BY <1>9, <1>10, <1>11
  <2>2. P \in Int /\ g \in Int /\ LastDigits(k) \in Int /\ Radix \in Int  BY <1>5, <1>7, <1>10
  <2> HIDE DEF P, g
  <2>3. (u * Radix + g) * P + LastDigits(k) = u * (Radix * P) + (g * P + LastDigits(k))  BY <2>2
  <2> QED  BY <1>12, <2>1, <2>3 DEF P, g
<1>14. val' = Wrapped(u1)
  <2> DEFINE g == Digit(mem[s])
  <2>1. g \in Int /\ Radix \in Int  BY <1>5, <1>7
  <2>2. val' = Wrapped(Wrapped(u) * Radix + g)  BY <1>1, <1>3, <1>4
  <2> HIDE DEF g
  <2>3. Wrapped(Wrapped(u) * Radix + g) = Wrapped(u * Radix + g)  BY <2>1, WrappedLater
  <2> QED  BY <1>12, <2>2, <2>3 DEF g
<1>15. Completes(u1)'
  <2>1. u1 * Power(Radix, NumberEnd - s') + LastDigits(NumberEnd - s')
        = LastDigits(NumberEnd - FirstDigit)
    BY <1>8, <1>13
  <2> QED  BY <1>2, <2>1, SameNumber DEF Completes
<1>16. ReadPart'
  <2>1. (\E v \in Int : val = Wrapped(v) /\ Completes(v))'  BY <1>14, <1>15
  <2>2. (base = Radix /\ (neg <=> mem0[SignAt] = 45) /\ s \in FirstDigit .. NumberEnd)'
    BY <1>2, <1>3, <1>6, SameNumber
  <2> QED  BY <2>1, <2>2 DEF ReadPart
<1>17. WhitePart' /\ NumberIsRight'  BY <1>1 DEF WhitePart, NumberIsRight, Done
<1>18. NumberCall' /\ mem' = mem0' /\ pc' \in {"white", "loop", "done"}
  BY <1>1, <1>2, <1>3, SameNumber
<1> QED  BY <1>16, <1>17, <1>18 DEF NumberParts

\* The first character that is no digit ends the number.
LEMMA EndOfNumberKeeps ==
  ASSUME NumberParts, EndOfNumber
  PROVE  NumberParts'
<1>1. pc = "loop" /\ ~IsDigit(mem[s], base) /\ pc' = "done" /\ s' = s
      /\ ret' = (IF neg THEN Wrapped(-val) ELSE val)
      /\ call' = call /\ mem0' = mem0 /\ mem' = mem
  BY DEF EndOfNumber, Is, Return, Finish
<1>2. NumberCall /\ mem = mem0 /\ base = Radix /\ (neg <=> mem0[SignAt] = 45)
      /\ s \in FirstDigit .. NumberEnd
  BY <1>1 DEF NumberParts, ReadPart
<1>3. PICK u \in Int : val = Wrapped(u) /\ Completes(u)  BY <1>1 DEF NumberParts, ReadPart
<1>4. FirstDigit \in Nat /\ NumberEnd \in Nat /\ NumberEnd >= FirstDigit /\ Radix \in Nat
  BY <1>2, NumberFacts
<1>5. s = NumberEnd
  <2> SUFFICES ASSUME s # NumberEnd  PROVE FALSE  OBVIOUS
  <2>1. s \in FirstDigit .. NumberEnd - 1  BY <1>2, <1>4
  <2> QED  BY <1>1, <1>2, <2>1, NumberFacts
<1> DEFINE value == LastDigits(NumberEnd - FirstDigit)
<1>6. u = value
  <2>1. NumberEnd - s = 0  BY <1>4, <1>5
  <2>2. Power(Radix, 0) = 1 /\ LastDigits(0) = 0  BY <1>2, <1>4, PowerIs, LastDigitsIs
  <2>3. u * 1 + 0 = value  BY <1>3, <2>1, <2>2 DEF Completes
  <2> QED  BY <2>3
<1>7. ret' = Wrapped(IF mem0[SignAt] = 45 THEN -value ELSE value)
  <2> HIDE DEF value
  <2>1. CASE mem0[SignAt] = 45
    <3>1. ret' = Wrapped(-Wrapped(u))  BY <1>1, <1>2, <1>3, <2>1
    <3> QED  BY <1>6, <2>1, <3>1, WrappedMinus
  <2>2. CASE mem0[SignAt] # 45  BY <1>1, <1>2, <1>3, <1>6, <2>2
  <2> QED  BY <2>1, <2>2
<1>8. NumberIsRight'  BY <1>1, <1>5, <1>7, SameNumber DEF NumberIsRight
<1>9. WhitePart' /\ ReadPart'  BY <1>1 DEF WhitePart, ReadPart
<1>10. NumberCall' /\ mem' = mem0' /\ pc' \in {"white", "loop", "done"}
  BY <1>1, <1>2, SameNumber
<1> QED  BY <1>8, <1>9, <1>10 DEF NumberParts

LEMMA NumberNext == NInv /\ [Next]_vars => NInv'
<1> SUFFICES ASSUME NInv, [Next]_vars, call'.fn = "strtol"
             PROVE  NumberParts'
  BY DEF NInv
<1>1. CASE UNCHANGED vars
  <2>1. call' = call /\ mem0' = mem0 /\ mem' = mem /\ s' = s /\ val' = val /\ base' = base
        /\ neg' = neg /\ pc' = pc /\ ret' = ret
    BY <1>1 DEF vars, regs
  <2>2. NumberParts  BY <2>1 DEF NInv
  <2>3. \A u : Completes(u)' = Completes(u)  BY <2>1, SameNumber DEF Completes
  <2>4. NumberCall' /\ mem' = mem0' /\ pc' \in {"white", "loop", "done"} /\ WhitePart'
    BY <2>1, <2>2, SameNumber DEF NumberParts, WhitePart
  <2>5. ReadPart'  BY <2>1, <2>2, <2>3, SameNumber DEF NumberParts, ReadPart
  <2>6. NumberIsRight'  BY <2>1, <2>2, SameNumber DEF NumberParts, NumberIsRight, Done
  <2> QED  BY <2>4, <2>5, <2>6 DEF NumberParts
<1>2. CASE Blocks
  <2>1. call.fn \in BlockFunctions /\ call' = call
    BY <1>2 DEF Blocks, SetStart, Stos, MoveStart, Movs, MoveEnd, Is, Turn, Return, Finish,
         BlockFunctions
  <2> QED  BY <2>1 DEF BlockFunctions
<1>3. CASE strtol
  <2>1. call' = call
    BY <1>3 DEF strtol, White, Sign, Digits, EndOfNumber, Return, Finish
  <2>2. NumberParts  BY <2>1 DEF NInv
  <2> QED
    BY <1>3, <2>2, WhiteKeeps, SignKeeps, DigitsKeeps, EndOfNumberKeeps DEF strtol
<1>4. CASE Strings
  <2>1. call' = call /\ call.fn # "strtol"
    BY <1>4 DEF Strings, strlen, strnlen, strcpy, strcat, strncpy, strlcpy, strcmp, strncmp, strchr,
         strfind, memcmp, memfind, Is, Turn, Return, Finish
  <2> QED  BY <2>1
<1> QED  BY <1>1, <1>2, <1>3, <1>4 DEF Next

\* strtol returns the number that its argument shows, in W bits, for every
\* argument that ends in memory, however long, and every base.
THEOREM NumberTheorem == Spec => []NumberIsRight
<1>1. NInv => NumberIsRight
  <2>1. CASE call.fn = "strtol"  BY <2>1 DEF NInv, NumberParts
  <2>2. CASE call.fn # "strtol"  BY <2>2 DEF NumberIsRight
  <2> QED  BY <2>1, <2>2
<1> QED  BY <1>1, NumberInit, NumberNext, PTL DEF Spec

=============================================================================
