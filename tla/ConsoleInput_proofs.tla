------------------------- MODULE ConsoleInput_proofs -------------------------
(***************************************************************************)
(* Proofs about ConsoleInput for every buffer size, every bound and every  *)
(* machine, with a COM1 port or without.                                   *)
(***************************************************************************)
EXTENDS ConsoleInput, SequenceTheorems, TLAPS

(***************************************************************************)
(* The inductive invariant.  TypeOK alone is not inductive: owed - 1 is a  *)
(* natural number and buf[rpos] is a character in Fetch only because what  *)
(* lies between the indices was stored (ReadableAreChars) and counted      *)
(* (LossIsWholeLaps).                                                      *)
(***************************************************************************)
IInv == TypeOK /\ LossIsWholeLaps /\ ReadableAreChars

\* The index arithmetic of cons_intr and cons_getc stays in the buffer.
LEMMA NextPosInSlot == \A p \in Slot : NextPos(p) \in Slot
  BY InputAssumption DEF Slot, NextPos

\* Storing one character makes the buffer one longer, or empty.
LEMMA CountAfterStash ==
  ASSUME rpos \in Slot, wpos \in Slot, rpos' = rpos, wpos' = NextPos(wpos)
  PROVE  /\ Count \in 0 .. CONSBUFSIZE - 1
         /\ NextPos(wpos) = rpos => Count' = 0 /\ Count = CONSBUFSIZE - 1
         /\ NextPos(wpos) # rpos => Count' = Count + 1
  BY InputAssumption DEF Slot, NextPos, Count

\* Taking a character makes a buffer that is not empty one shorter.
LEMMA CountAfterFetch ==
  ASSUME rpos \in Slot, wpos \in Slot, rpos # wpos,
         rpos' = NextPos(rpos), wpos' = wpos
  PROVE  Count \in 1 .. CONSBUFSIZE - 1 /\ Count' = Count - 1
  BY InputAssumption DEF Slot, NextPos, Count

LEMMA InitIInv == Init => IInv
  BY InputAssumption DEF Init, IInv, TypeOK, LossIsWholeLaps, ReadableAreChars,
     Readable, Count, Slot, Item, Dev

LEMMA DatumIsItem ==
  ASSUME TypeOK, NEW d \in Dev, HasData(d)
  PROVE  Datum(d) \in Item /\ Rest(d) \in Seq(Item)
<1>1. CASE rx[d] # <<>>
  BY <1>1 DEF TypeOK, Datum, Rest
<1>2. CASE rx[d] = <<>>
  <2>1. FloatingBus \in Char
    BY InputAssumption DEF FloatingBus, Char, Dev
  <2> QED
    BY <1>2, <2>1 DEF Datum, Rest, Item
<1> QED
  BY <1>1, <1>2

LEMMA StashKeepsIInv ==
  ASSUME IInv, NEW c \in Char, Stash(c), rpos' = rpos
  PROVE  /\ buf' \in [Slot -> Item] /\ wpos' \in Slot
         /\ owed' \in Nat /\ laps' \in Nat
         /\ LossIsWholeLaps' /\ ReadableAreChars'
<1> USE InputAssumption
<1>1. /\ buf' \in [Slot -> Item] /\ wpos' \in Slot
      /\ owed' \in Nat /\ laps' \in Nat
  BY NextPosInSlot DEF IInv, TypeOK, Stash, Item
<1>2. LossIsWholeLaps'
  <2>1. CASE NextPos(wpos) = rpos
    <3>1. /\ Count' = 0 /\ Count = CONSBUFSIZE - 1
          /\ laps' = laps + 1 /\ owed' = owed + 1
      BY <2>1, CountAfterStash DEF IInv, TypeOK, Stash
    <3>2. CONSBUFSIZE * (laps + 1) = CONSBUFSIZE * laps + CONSBUFSIZE
      BY DEF IInv, TypeOK
    <3>3. CONSBUFSIZE * laps \in Nat
      BY DEF IInv, TypeOK
    <3> QED
      BY <3>1, <3>2, <3>3 DEF IInv, TypeOK, LossIsWholeLaps
  <2>2. CASE NextPos(wpos) # rpos
    <3>1. /\ Count \in Nat /\ Count' = Count + 1
          /\ laps' = laps /\ owed' = owed + 1
      BY <2>2, CountAfterStash DEF IInv, TypeOK, Stash
    <3>2. CONSBUFSIZE * laps \in Nat
      BY DEF IInv, TypeOK
    <3> QED
      BY <3>1, <3>2 DEF IInv, TypeOK, LossIsWholeLaps
  <2> QED
    BY <2>1, <2>2
<1>3. ReadableAreChars'
  <2> SUFFICES ASSUME NEW s \in Slot, Readable(s)'
               PROVE  buf'[s] # NoChar
    BY DEF ReadableAreChars
  <2>1. s = wpos \/ Readable(s)
    BY DEF IInv, TypeOK, Stash, Readable, NextPos, Slot
  <2>2. c # NoChar
    OBVIOUS
  <2> QED
    BY <2>1, <2>2 DEF IInv, TypeOK, Stash, ReadableAreChars
<1> QED
  BY <1>1, <1>2, <1>3

LEMMA TurnKeepsIInv ==
  ASSUME IInv, NEW d \in Dev, ConsIntrTurn(d)
  PROVE  IInv'
<1>1. Datum(d) \in Item /\ Rest(d) \in Seq(Item)
  BY DatumIsItem DEF IInv, ConsIntrTurn
<1>2. rx' \in [Dev -> Seq(Item)]
  BY <1>1 DEF IInv, TypeOK, ConsIntrTurn
<1>3. CASE Datum(d) = NoChar /\ UNCHANGED <<buf, wpos, owed, laps>>
  BY <1>2, <1>3 DEF IInv, TypeOK, ConsIntrTurn, uart, LossIsWholeLaps, Count,
     ReadableAreChars, Readable
<1>4. CASE Datum(d) # NoChar /\ Stash(Datum(d))
  <2>1. Datum(d) \in Char /\ rpos' = rpos
    BY <1>1, <1>4 DEF Item, ConsIntrTurn
  <2>2. /\ buf' \in [Slot -> Item] /\ wpos' \in Slot
        /\ owed' \in Nat /\ laps' \in Nat
        /\ LossIsWholeLaps' /\ ReadableAreChars'
    BY <1>4, <2>1, StashKeepsIInv
  <2> QED
    BY <1>2, <2>2 DEF IInv, TypeOK, ConsIntrTurn, uart
<1> QED
  BY <1>3, <1>4 DEF ConsIntrTurn

LEMMA FetchKeepsIInv ==
  ASSUME IInv, Fetch
  PROVE  IInv'
<1> USE InputAssumption
<1>1. /\ rpos \in Slot /\ wpos \in Slot /\ rpos # wpos
      /\ rpos' = NextPos(rpos) /\ wpos' = wpos /\ rpos' \in Slot
  BY NextPosInSlot DEF IInv, TypeOK, Fetch
<1>2. Count \in 1 .. CONSBUFSIZE - 1 /\ Count' = Count - 1
  BY <1>1, CountAfterFetch
<1>3. buf[rpos] \in Char
  BY <1>1 DEF IInv, TypeOK, ReadableAreChars, Readable, Slot, Item
<1>4. buf[rpos].dev \in Dev /\ buf[rpos].no \in 0 .. MaxSent
  BY <1>3 DEF Char
<1>5. CONSBUFSIZE * laps \in Nat
  BY DEF IInv, TypeOK
<1>6. owed \in Nat \ {0} /\ owed' = owed - 1
  <2>1. owed = Count + CONSBUFSIZE * laps /\ owed' = owed - 1
    BY DEF IInv, LossIsWholeLaps, Fetch
  <2>2. Count \in Nat \ {0}
    BY <1>2
  <2> HIDE InputAssumption
  <2> QED
    BY <1>5, <2>1, <2>2
<1>7. TypeOK'
  BY <1>1, <1>3, <1>4, <1>6 DEF IInv, TypeOK, Fetch, uart, Item
<1>8. LossIsWholeLaps'
  BY <1>2, <1>5, <1>6 DEF IInv, TypeOK, LossIsWholeLaps, Fetch
<1>9. ReadableAreChars'
  <2> SUFFICES ASSUME NEW s \in Slot, Readable(s)'
               PROVE  buf'[s] # NoChar
    BY DEF ReadableAreChars
  <2>1. Readable(s)
    BY <1>1 DEF Readable, NextPos, Slot
  <2> QED
    BY <2>1 DEF IInv, ReadableAreChars, Fetch
<1> QED
  BY <1>7, <1>8, <1>9 DEF IInv

LEMMA NextKeepsIInv == IInv /\ [Next]_vars => IInv'
<1> SUFFICES ASSUME IInv, [Next]_vars
             PROVE  IInv'
  OBVIOUS
<1> USE InputAssumption
<1>1. CASE ConsInit
  <2>1. Rest("serial") \in Seq(Item)
    BY DEF IInv, TypeOK, Rest, Dev
  <2> QED
    BY <1>1, <2>1 DEF ConsInit, IInv, TypeOK, ring, uart, ghost, LossIsWholeLaps, Count,
       ReadableAreChars, Readable, Dev
<1>2. CASE Getchar
  BY <1>2 DEF Getchar, IInv, TypeOK, ring, uart, ghost, LossIsWholeLaps, Count,
     ReadableAreChars, Readable
<1>3. CASE SerialTurn
  BY <1>3, TurnKeepsIInv DEF SerialTurn, Dev
<1>4. CASE SerialDone
  BY <1>4 DEF SerialDone, IInv, TypeOK, ring, uart, ghost, LossIsWholeLaps, Count,
     ReadableAreChars, Readable
<1>5. CASE KbdTurn
  BY <1>5, TurnKeepsIInv DEF KbdTurn, Dev
<1>6. CASE KbdDone
  BY <1>6 DEF KbdDone, IInv, TypeOK, ring, uart, ghost, LossIsWholeLaps, Count,
     ReadableAreChars, Readable
<1>7. CASE Fetch
  BY <1>7, FetchKeepsIInv
<1>8. CASE FetchNone
  BY <1>8 DEF FetchNone, IInv, TypeOK, ring, uart, ghost, LossIsWholeLaps, Count,
     ReadableAreChars, Readable, Item
<1>9. ASSUME NEW d \in Dev, Arrive(d)
      PROVE  IInv'
  <2>1. /\ sent' \in [Dev -> 0 .. MaxSent]
        /\ UNCHANGED <<ring, uart, pc, ret, ghost>>
    BY <1>9 DEF Arrive, IInv, TypeOK
  <2>2. PICK c \in {[dev |-> d, no |-> sent[d] + 1], NoChar} :
          rx' = [rx EXCEPT ![d] = Append(@, c)]
    BY <1>9 DEF Arrive
  <2>3. sent[d] + 1 \in 0 .. MaxSent
    BY <1>9 DEF Arrive, IInv, TypeOK
  <2>4. c \in Item
    BY <2>3 DEF Item, Char
  <2>5. rx' \in [Dev -> Seq(Item)]
    BY <2>2, <2>4 DEF IInv, TypeOK
  <2> QED
    BY <2>1, <2>5 DEF IInv, TypeOK, ring, uart, ghost, LossIsWholeLaps, Count,
       ReadableAreChars, Readable
<1>10. CASE UNCHANGED vars
  BY <1>10 DEF vars, IInv, TypeOK, ring, uart, ghost, LossIsWholeLaps, Count,
     ReadableAreChars, Readable
<1> QED
  BY <1>1, <1>2, <1>3, <1>4, <1>5, <1>6, <1>7, <1>8, <1>9, <1>10 DEF Next, Kernel

\* The inductive invariant holds in every reachable state.
THEOREM InductiveInvariant == Spec => []IInv
  BY InitIInv, NextKeepsIInv, PTL DEF Spec

\* Every variable keeps its type: in particular rpos and wpos are always
\* indices of cons.buf.
THEOREM TypeCorrect == Spec => []TypeOK
<1>1. IInv => TypeOK
  BY DEF IInv
<1> QED
  BY <1>1, InductiveInvariant, PTL

\* Whatever the interleaving of arrivals and polls, cons_intr and cons_getc
\* lose characters only CONSBUFSIZE at a time.
THEOREM LossTheorem == Spec => []LossIsWholeLaps
<1>1. IInv => LossIsWholeLaps
  BY DEF IInv
<1> QED
  BY <1>1, InductiveInvariant, PTL

\* cons_getc never returns the contents of a slot no device has filled.
THEOREM ReadableTheorem == Spec => []ReadableAreChars
<1>1. IInv => ReadableAreChars
  BY DEF IInv
<1> QED
  BY <1>1, InductiveInvariant, PTL

-----------------------------------------------------------------------------
(* The circular buffer implements the queue of InputFifo.                  *)

LEMMA UnreadIsSeq ==
  ASSUME IInv
  PROVE  /\ Count \in 0 .. CONSBUFSIZE - 1
         /\ \A i \in 1 .. Count : SlotOf(i) \in Slot /\ Readable(SlotOf(i))
         /\ Unread \in Seq(Char)
         /\ Len(Unread) = Count
<1>1. Count \in 0 .. CONSBUFSIZE - 1
  BY InputAssumption DEF IInv, TypeOK, Slot, Count
<1>2. \A i \in 1 .. Count : SlotOf(i) \in Slot /\ Readable(SlotOf(i))
  BY InputAssumption DEF IInv, TypeOK, Slot, Count, SlotOf, Readable
<1>3. \A i \in 1 .. Count : buf[SlotOf(i)] \in Char
  BY <1>2 DEF IInv, TypeOK, ReadableAreChars, Item
<1> QED
  BY <1>1, <1>2, <1>3 DEF Unread

\* Storing a character is a Put of the queue.
LEMMA StashIsPut ==
  ASSUME IInv, NEW c \in Char, Stash(c), rpos' = rpos, ret' = ret
  PROVE  Fifo!Put(c)
<1>1. rpos \in Slot /\ wpos \in Slot /\ wpos' = NextPos(wpos)
  BY DEF IInv, TypeOK, Stash
<1>2. Unread \in Seq(Char) /\ Len(Unread) = Count /\ Count \in 0 .. CONSBUFSIZE - 1
  BY UnreadIsSeq
<1>3. CASE NextPos(wpos) = rpos
  <2>1. Count' = 0 /\ Count = CONSBUFSIZE - 1
    BY <1>1, <1>3, CountAfterStash
  <2>2. Unread' = <<>>
    BY <2>1 DEF Unread
  <2> QED
    BY <1>2, <2>1, <2>2, InputAssumption DEF Fifo!Put
<1>4. CASE NextPos(wpos) # rpos
  <2>1. Count' = Count + 1 /\ Count' \in 0 .. CONSBUFSIZE - 1
    BY <1>1, <1>4, CountAfterStash, InputAssumption DEF Count, Slot, NextPos
  <2>2. \A i \in 1 .. Count : SlotOf(i)' = SlotOf(i) /\ SlotOf(i) # wpos
    BY <1>1, InputAssumption DEF SlotOf, Count, Slot
  <2>3. \A i \in 1 .. Count + 1 : i = Count + 1 => SlotOf(i)' = wpos
    BY <1>1, <1>4, InputAssumption DEF SlotOf, Count, Slot, NextPos
  <2>4. \A i \in 1 .. Count : buf'[SlotOf(i)'] = buf[SlotOf(i)]
    BY <2>2, UnreadIsSeq DEF Stash, IInv, TypeOK
  <2>5. \A i \in 1 .. Count + 1 : i = Count + 1 => buf'[SlotOf(i)'] = c
    BY <1>1, <2>3 DEF Stash, IInv, TypeOK
  <2>6. /\ Append(Unread, c) \in Seq(Char)
        /\ Len(Append(Unread, c)) = Count + 1
        /\ \A i \in 1 .. Count : Append(Unread, c)[i] = Unread[i]
        /\ Append(Unread, c)[Count + 1] = c
    BY <1>2, AppendProperties
  <2>7. \A i \in 1 .. Count + 1 : buf'[SlotOf(i)'] = Append(Unread, c)[i]
    <3> SUFFICES ASSUME NEW i \in 1 .. Count + 1
                 PROVE  buf'[SlotOf(i)'] = Append(Unread, c)[i]
      OBVIOUS
    <3>1. CASE i = Count + 1
      BY <3>1, <2>5, <2>6
    <3>2. CASE i \in 1 .. Count
      BY <3>2, <2>4, <2>6 DEF Unread
    <3> QED
      BY <3>1, <3>2, <1>2
  <2>8. /\ Unread' \in Seq(Char)
        /\ Len(Unread') = Count + 1
        /\ \A i \in 1 .. Count + 1 : Unread'[i] = Append(Unread, c)[i]
    <3>1. Unread' = [i \in 1 .. Count + 1 |-> Append(Unread, c)[i]]
      BY <2>1, <2>7 DEF Unread
    <3>2. \A i \in 1 .. Count + 1 : Append(Unread, c)[i] \in Char
      BY <2>6, <1>2
    <3> QED
      BY <3>1, <3>2, <1>2
  <2>9. Unread' = Append(Unread, c)
    BY <2>6, <2>8, <1>2, SeqEqual
  <2> QED
    BY <1>2, <2>1, <2>9, InputAssumption DEF Fifo!Put
<1> QED
  BY <1>3, <1>4

\* cons_getc takes the head of the queue.
LEMMA FetchIsGet ==
  ASSUME IInv, Fetch
  PROVE  Fifo!Get
<1>1. /\ rpos \in Slot /\ wpos \in Slot /\ rpos # wpos
      /\ rpos' = NextPos(rpos) /\ wpos' = wpos /\ buf' = buf
  BY DEF IInv, TypeOK, Fetch
<1>2. Unread \in Seq(Char) /\ Len(Unread) = Count
  BY UnreadIsSeq
<1>3. Count \in 1 .. CONSBUFSIZE - 1 /\ Count' = Count - 1
  BY <1>1, CountAfterFetch
<1>4. Unread # <<>> /\ Head(Unread) = buf[rpos]
  <2>1. SlotOf(1) = rpos
    BY <1>1, InputAssumption DEF SlotOf, Slot
  <2> QED
    BY <1>2, <1>3, <2>1 DEF Unread
<1>5. Unread' = Tail(Unread)
  <2>1. \A i \in 1 .. Count - 1 : SlotOf(i)' = SlotOf(i + 1)
    BY <1>1, InputAssumption DEF SlotOf, Slot, Count, NextPos
  <2>2. \A i \in 1 .. Count - 1 : buf'[SlotOf(i)'] = Unread[i + 1]
    BY <1>1, <1>3, <2>1 DEF Unread
  <2>3. Unread' = [i \in 1 .. Count - 1 |-> Unread[i + 1]]
    BY <1>3, <2>2 DEF Unread
  <2>4. /\ Tail(Unread) \in Seq(Char)
        /\ Len(Tail(Unread)) = Count - 1
        /\ \A i \in 1 .. Count - 1 : Tail(Unread)[i] = Unread[i + 1]
    BY <1>2, <1>4, HeadTailProperties
  <2>5. /\ Unread' \in Seq(Char)
        /\ Len(Unread') = Count - 1
        /\ \A i \in 1 .. Count - 1 : Unread'[i] = Unread[i + 1]
    <3>1. \A i \in 1 .. Count - 1 : Unread[i + 1] \in Char
      BY <1>2, <1>3
    <3> QED
      BY <2>3, <3>1, <1>3
  <2> QED
    BY <2>4, <2>5, SeqEqual
<1> QED
  BY <1>4, <1>5 DEF Fetch, Fifo!Get

LEMMA InitIsFifoInit == Init => Fifo!FifoInit
<1> SUFFICES ASSUME Init
             PROVE  Fifo!FifoInit
  OBVIOUS
<1>1. Count = 0
  BY DEF Init, Count
<1>2. Unread = <<>>
  BY <1>1 DEF Unread
<1> QED
  BY <1>2 DEF Init, Fifo!FifoInit

LEMMA TurnIsPutOrStutter ==
  ASSUME IInv, NEW d \in Dev, ConsIntrTurn(d), ret' = ret
  PROVE  [Fifo!FifoNext]_Fifo!fifoVars
<1>1. CASE Datum(d) = NoChar /\ UNCHANGED <<buf, wpos, owed, laps>>
  <2>1. Unread' = Unread
    BY <1>1 DEF ConsIntrTurn, Unread, Count, SlotOf
  <2> QED
    BY <2>1 DEF Fifo!fifoVars
<1>2. CASE Datum(d) # NoChar /\ Stash(Datum(d))
  <2>1. Datum(d) \in Char
    BY <1>2, DatumIsItem DEF IInv, ConsIntrTurn, Item
  <2>2. Fifo!Put(Datum(d))
    BY <1>2, <2>1, StashIsPut DEF ConsIntrTurn
  <2> QED
    BY <2>1, <2>2 DEF Fifo!FifoNext
<1> QED
  BY <1>1, <1>2 DEF ConsIntrTurn

LEMMA NextIsFifoNext == IInv /\ [Next]_vars => [Fifo!FifoNext]_Fifo!fifoVars
<1> SUFFICES ASSUME IInv, [Next]_vars
             PROVE  [Fifo!FifoNext]_Fifo!fifoVars
  OBVIOUS
<1>1. CASE SerialTurn
  BY <1>1, TurnIsPutOrStutter DEF SerialTurn, ConsIntrTurn, Dev
<1>2. CASE KbdTurn
  BY <1>2, TurnIsPutOrStutter DEF KbdTurn, ConsIntrTurn, Dev
<1>3. CASE Fetch
  BY <1>3, FetchIsGet DEF Fifo!FifoNext
<1>4. CASE FetchNone
  <2>1. Count = 0 /\ UNCHANGED Unread
    BY <1>4, InputAssumption DEF FetchNone, IInv, TypeOK, Slot, Count, Unread, SlotOf, ring
  <2>2. Unread = <<>>
    BY <2>1 DEF Unread
  <2> QED
    BY <1>4, <2>1, <2>2 DEF FetchNone, Fifo!GetNothing, Fifo!FifoNext
<1>5. CASE ConsInit \/ Getchar \/ SerialDone \/ KbdDone \/ UNCHANGED vars
           \/ \E d \in Dev : Arrive(d)
  <2>1. UNCHANGED <<ring, ret>>
    BY <1>5 DEF ConsInit, Getchar, SerialDone, KbdDone, Arrive, vars
  <2>2. UNCHANGED Unread
    BY <2>1 DEF ring, Unread, Count, SlotOf
  <2> QED
    BY <2>1, <2>2 DEF Fifo!fifoVars
<1> QED
  BY <1>1, <1>2, <1>3, <1>4, <1>5 DEF Next, Kernel

\* cons_intr and cons_getc implement the queue of InputFifo: a character is
\* read in its turn, and a buffer that fills up is emptied.
THEOREM Refinement == Spec => ImplementsFifo
  BY InitIsFifoInit, NextIsFifoNext, InductiveInvariant, PTL
     DEF Spec, ImplementsFifo, Fifo!FifoSpec

-----------------------------------------------------------------------------
(* The order of the characters.                                            *)

\* A buffer q and a device r whose characters of device d are numbered in
\* order, above lo and up to hi.
Line(q, r, d, lo, hi) ==
  /\ \A j \in 1 .. Len(q) : From(q[j], d) => lo < q[j].no /\ q[j].no <= hi
  /\ \A j \in 1 .. Len(r) : From(r[j], d) => lo < r[j].no /\ r[j].no <= hi
  /\ \A i, j \in 1 .. Len(q) : i < j /\ From(q[i], d) /\ From(q[j], d) => q[i].no < q[j].no
  /\ \A i, j \in 1 .. Len(r) : i < j /\ From(r[i], d) /\ From(r[j], d) => r[i].no < r[j].no
  /\ \A i \in 1 .. Len(q), j \in 1 .. Len(r) :
       From(q[i], d) /\ From(r[j], d) => q[i].no < r[j].no

\* InOrder is not inductive: a character that arrives must come after all that
\* arrived before it, devices hold characters of their own only, and a port
\* is polled only if it exists.
OrderPart ==
  /\ serial_exists => port
  /\ \A d \in Dev :
       /\ last[d] <= sent[d]
       /\ \A k \in 1 .. Len(rx[d]) : rx[d][k] # NoChar => rx[d][k].dev = d
       /\ Line(Unread, rx[d], d, last[d], sent[d])

LEMMA ItemNo == \A c \in Item, d \in Dev : From(c, d) => c \in Char /\ c.no \in 0 .. MaxSent
BY DEF Item, Char, From

\* The device receives a datum.
LEMMA LineArrive ==
  ASSUME NEW q \in Seq(Char), NEW r \in Seq(Item), NEW d \in Dev, NEW lo \in Int, NEW hi \in Int,
         Line(q, r, d, lo, hi), lo <= hi,
         NEW c \in Item, c = NoChar \/ (c.dev = d /\ c.no = hi + 1)
  PROVE  Line(q, Append(r, c), d, lo, hi + 1)
<1>1. PICK n \in Nat : n = Len(r)  OBVIOUS
<1>2. PICK t : t = Append(r, c)  OBVIOUS
<1>3. Len(t) = n + 1 /\ (\A i \in 1 .. n : t[i] = r[i]) /\ t[n + 1] = c
  BY <1>1, <1>2
<1>4. From(c, d) => c.no = hi + 1  BY DEF From
<1>5. \A i \in 1 .. n + 1 : i \in 1 .. n \/ i = n + 1  OBVIOUS
<1>6. \A i \in 1 .. Len(q) : q[i] \in Item  BY DEF Item
<1>7. \A i \in 1 .. n : r[i] \in Item  BY <1>1
<1>8. /\ \A j \in 1 .. Len(q) : From(q[j], d) => lo < q[j].no /\ q[j].no <= hi /\ q[j].no \in Int
      /\ \A j \in 1 .. n : From(r[j], d) => lo < r[j].no /\ r[j].no <= hi /\ r[j].no \in Int
      /\ \A i, j \in 1 .. Len(q) : i < j /\ From(q[i], d) /\ From(q[j], d) => q[i].no < q[j].no
      /\ \A i, j \in 1 .. n : i < j /\ From(r[i], d) /\ From(r[j], d) => r[i].no < r[j].no
      /\ \A i \in 1 .. Len(q), j \in 1 .. n : From(q[i], d) /\ From(r[j], d) => q[i].no < r[j].no
  BY <1>1, <1>6, <1>7, ItemNo DEF Line
<1>9. \A j \in 1 .. n + 1 : From(t[j], d) => lo < t[j].no /\ t[j].no <= hi + 1
  BY <1>3, <1>4, <1>5, <1>8
<1>10. \A i, j \in 1 .. n + 1 : i < j /\ From(t[i], d) /\ From(t[j], d) => t[i].no < t[j].no
  BY <1>3, <1>4, <1>5, <1>8
<1>11. \A i \in 1 .. Len(q), j \in 1 .. n + 1 : From(q[i], d) /\ From(t[j], d) => q[i].no < t[j].no
  BY <1>3, <1>4, <1>5, <1>8
<1>12. \A j \in 1 .. Len(q) : From(q[j], d) => lo < q[j].no /\ q[j].no <= hi + 1
  BY <1>8
<1> QED  BY <1>2, <1>3, <1>8, <1>9, <1>10, <1>11, <1>12 DEF Line

\* The device is read.
LEMMA LineRead ==
  ASSUME NEW q \in Seq(Char), NEW r \in Seq(Item), r # <<>>, NEW d, NEW lo, NEW hi,
         Line(q, r, d, lo, hi)
  PROVE  Line(q, Tail(r), d, lo, hi)
<1>1. PICK n \in Nat : n = Len(r)  OBVIOUS
<1>2. PICK t : t = Tail(r)  OBVIOUS
<1>3. Len(t) = n - 1 /\ \A i \in 1 .. n - 1 : t[i] = r[i + 1] /\ i + 1 \in 1 .. n
  BY <1>1, <1>2
<1>4. \A i, j \in 1 .. n - 1 : i < j => i + 1 < j + 1  BY <1>1
<1>5. \A j \in 1 .. Len(t) : From(t[j], d) => lo < t[j].no /\ t[j].no <= hi
  BY <1>1, <1>3 DEF Line
<1>6. \A i, j \in 1 .. Len(t) : i < j /\ From(t[i], d) /\ From(t[j], d) => t[i].no < t[j].no
  BY <1>1, <1>3, <1>4 DEF Line
<1>7. \A i \in 1 .. Len(q), j \in 1 .. Len(t) :
         From(q[i], d) /\ From(t[j], d) => q[i].no < t[j].no
  BY <1>1, <1>3 DEF Line
<1> QED  BY <1>2, <1>5, <1>6, <1>7 DEF Line

\* The buffer receives a character: the next of device d, or one of the other.
LEMMA LineStash ==
  ASSUME NEW q \in Seq(Char), NEW r \in Seq(Item), NEW d \in Dev, NEW lo, NEW hi,
         Line(q, r, d, lo, hi), NEW c \in Char, NEW t \in Seq(Item),
         \/ r # <<>> /\ c = Head(r) /\ t = Tail(r)
         \/ ~From(c, d) /\ t = r
  PROVE  Line(Append(q, c), t, d, lo, hi) /\ Line(<<>>, t, d, lo, hi)
<1>1. PICK n \in Nat, m \in Nat : n = Len(q) /\ m = Len(t)  OBVIOUS
<1>2. PICK p : p = Append(q, c)  OBVIOUS
<1>3. Len(p) = n + 1 /\ (\A i \in 1 .. n : p[i] = q[i]) /\ p[n + 1] = c
  BY <1>1, <1>2
<1>4. \A i \in 1 .. n + 1 : i \in 1 .. n \/ i = n + 1  OBVIOUS
<1>5. Line(q, t, d, lo, hi)  BY LineRead
<1>6. /\ From(c, d) => lo < c.no /\ c.no <= hi
      /\ \A i \in 1 .. n : From(q[i], d) /\ From(c, d) => q[i].no < c.no
      /\ \A j \in 1 .. m : From(t[j], d) /\ From(c, d) => c.no < t[j].no
  <2>1. CASE ~From(c, d)  BY <2>1
  <2>2. CASE r # <<>> /\ c = Head(r) /\ t = Tail(r)
    <3>1. 1 \in 1 .. Len(r) /\ c = r[1] /\ m = Len(r) - 1 /\ \A j \in 1 .. m : t[j] = r[j + 1]
      BY <1>1, <2>2
    <3>2. \A j \in 1 .. m : j + 1 \in 1 .. Len(r) /\ 1 < j + 1  BY <3>1
    <3> QED  BY <1>1, <3>1, <3>2 DEF Line
  <2> QED  BY <2>1, <2>2
<1>7. /\ \A j \in 1 .. n : From(q[j], d) => lo < q[j].no /\ q[j].no <= hi
      /\ \A j \in 1 .. m : From(t[j], d) => lo < t[j].no /\ t[j].no <= hi
      /\ \A i, j \in 1 .. n : i < j /\ From(q[i], d) /\ From(q[j], d) => q[i].no < q[j].no
      /\ \A i, j \in 1 .. m : i < j /\ From(t[i], d) /\ From(t[j], d) => t[i].no < t[j].no
      /\ \A i \in 1 .. n, j \in 1 .. m : From(q[i], d) /\ From(t[j], d) => q[i].no < t[j].no
  BY <1>1, <1>5 DEF Line
<1>8. \A j \in 1 .. n + 1 : From(p[j], d) => lo < p[j].no /\ p[j].no <= hi
  BY <1>3, <1>4, <1>6, <1>7
<1>9. \A i, j \in 1 .. n + 1 : i < j /\ From(p[i], d) /\ From(p[j], d) => p[i].no < p[j].no
  BY <1>3, <1>4, <1>6, <1>7
<1>10. \A i \in 1 .. n + 1, j \in 1 .. m : From(p[i], d) /\ From(t[j], d) => p[i].no < t[j].no
  BY <1>3, <1>4, <1>6, <1>7
<1>11. Line(p, t, d, lo, hi)  BY <1>1, <1>3, <1>7, <1>8, <1>9, <1>10 DEF Line
<1>12. Line(<<>>, t, d, lo, hi)  BY <1>1, <1>7 DEF Line
<1> QED  BY <1>2, <1>11, <1>12

\* A character is taken from the buffer.
LEMMA LineFetch ==
  ASSUME NEW q \in Seq(Char), q # <<>>, NEW r \in Seq(Item), NEW d \in Dev,
         NEW lo \in Int, NEW hi \in Int, lo <= hi, Line(q, r, d, lo, hi)
  PROVE  LET low == IF Head(q).dev = d THEN Head(q).no ELSE lo
         IN  low <= hi /\ Line(Tail(q), r, d, low, hi)
<1>1. PICK n \in Nat : n = Len(q)  OBVIOUS
<1>2. PICK t : t = Tail(q)  OBVIOUS
<1>3. Len(t) = n - 1 /\ \A i \in 1 .. n - 1 : t[i] = q[i + 1] /\ i + 1 \in 1 .. n /\ 1 < i + 1
  BY <1>1, <1>2
<1>4. 1 \in 1 .. n /\ Head(q) = q[1] /\ q[1] \in Char  BY <1>1
<1>5. PICK low : low = IF Head(q).dev = d THEN Head(q).no ELSE lo  OBVIOUS
<1>6. \A i, j \in 1 .. n - 1 : i < j => i + 1 < j + 1  BY <1>1
<1>7. q[1] # NoChar  BY <1>4, InputAssumption
<1>8. /\ \A j \in 1 .. n : From(q[j], d) => lo < q[j].no /\ q[j].no <= hi
      /\ \A j \in 1 .. Len(r) : From(r[j], d) => lo < r[j].no /\ r[j].no <= hi
      /\ \A i, j \in 1 .. n : i < j /\ From(q[i], d) /\ From(q[j], d) => q[i].no < q[j].no
      /\ \A i, j \in 1 .. Len(r) : i < j /\ From(r[i], d) /\ From(r[j], d) => r[i].no < r[j].no
      /\ \A i \in 1 .. n, j \in 1 .. Len(r) : From(q[i], d) /\ From(r[j], d) => q[i].no < r[j].no
  BY <1>1 DEF Line
<1>9. low <= hi  BY <1>4, <1>5, <1>7, <1>8 DEF From
<1>10. /\ \A j \in 1 .. n - 1 : From(t[j], d) => low < t[j].no /\ t[j].no <= hi
       /\ \A j \in 1 .. Len(r) : From(r[j], d) => low < r[j].no /\ r[j].no <= hi
  BY <1>3, <1>4, <1>5, <1>7, <1>8 DEF From
<1>11. Line(t, r, d, low, hi)  BY <1>3, <1>6, <1>8, <1>10 DEF Line
<1> QED  BY <1>2, <1>5, <1>9, <1>11

LEMMA OrderInit == Init => OrderPart
<1> SUFFICES ASSUME Init  PROVE OrderPart  OBVIOUS
<1>1. Count = 0  BY DEF Init, Count
<1>2. Unread = <<>>  BY <1>1 DEF Unread
<1>3. ASSUME NEW d \in Dev  PROVE rx[d] = <<>> /\ last[d] = 0 /\ sent[d] = 0
  BY DEF Init
<1> QED  BY <1>2, <1>3 DEF Init, OrderPart, Line

\* Steps that leave the buffer alone do not change what can be read.
LEMMA UnreadSame == UNCHANGED <<buf, rpos, wpos>> => UNCHANGED Unread
BY DEF Unread, Count, SlotOf

\* The polls.
LEMMA OrderTurn ==
  ASSUME IInv, OrderPart, NEW d \in Dev, ConsIntrTurn(d), d = "serial" => serial_exists
  PROVE  OrderPart'
<1>1. rx[d] # <<>> /\ Datum(d) = Head(rx[d]) /\ Rest(d) = Tail(rx[d])
  BY DEF OrderPart, ConsIntrTurn, HasData, Datum, Rest
<1>2. /\ rx' = [rx EXCEPT ![d] = Tail(rx[d])]
      /\ UNCHANGED <<serial_exists, port, sent, last>>
  BY <1>1 DEF ConsIntrTurn, uart
<1>3. /\ rx \in [Dev -> Seq(Item)] /\ last \in [Dev -> 0 .. MaxSent] /\ sent \in [Dev -> 0 .. MaxSent]
      /\ Unread \in Seq(Char)
  BY UnreadIsSeq DEF IInv, TypeOK
<1>4. Head(rx[d]) # NoChar => Head(rx[d]) \in Char /\ Head(rx[d]).dev = d
  <2>1. 1 \in 1 .. Len(rx[d]) /\ Head(rx[d]) = rx[d][1] /\ Head(rx[d]) \in Item  BY <1>1, <1>3
  <2> QED  BY <2>1 DEF OrderPart, Item
<1>5. ASSUME NEW e \in Dev
      PROVE  /\ last'[e] <= sent'[e]
             /\ \A k \in 1 .. Len(rx'[e]) : rx'[e][k] # NoChar => rx'[e][k].dev = e
  <2>1. CASE e # d  BY <1>2, <1>3, <2>1 DEF OrderPart
  <2>2. CASE e = d
    <3>1. /\ rx'[e] = Tail(rx[e]) /\ Len(rx[e]) \in Nat /\ Len(Tail(rx[e])) = Len(rx[e]) - 1
          /\ \A k \in 1 .. Len(rx[e]) - 1 : Tail(rx[e])[k] = rx[e][k + 1] /\ k + 1 \in 1 .. Len(rx[e])
      BY <1>1, <1>2, <1>3, <2>2
    <3> QED  BY <1>2, <3>1 DEF OrderPart
  <2> QED  BY <2>1, <2>2
<1>6. ASSUME NEW e \in Dev  PROVE Line(Unread', rx'[e], e, last'[e], sent'[e])
  <2>1. Line(Unread, rx[e], e, last[e], sent[e])  BY DEF OrderPart
  <2>2. rx'[e] = IF e = d THEN Tail(rx[e]) ELSE rx[e]  BY <1>2, <1>3
  <2>3. CASE Datum(d) = NoChar /\ UNCHANGED <<buf, wpos, owed, laps>>
    <3>1. Unread' = Unread  BY <2>3, UnreadSame DEF ConsIntrTurn
    <3>2. e = d => Line(Unread, Tail(rx[e]), e, last[e], sent[e])
      BY <1>1, <1>3, <2>1, LineRead
    <3> QED  BY <1>2, <2>1, <2>2, <3>1, <3>2
  <2>4. CASE Datum(d) # NoChar /\ Stash(Datum(d))
    <3>1. PICK c \in Char : c = Datum(d) /\ c.dev = d  BY <1>1, <1>4, <2>4
    <3>2. Fifo!Put(c)  BY <2>4, <3>1, StashIsPut DEF ConsIntrTurn
    <3>3. Unread' = Append(Unread, c) \/ Unread' = <<>>  BY <3>2 DEF Fifo!Put
    <3>4. Line(Append(Unread, c), rx'[e], e, last[e], sent[e]) /\ Line(<<>>, rx'[e], e, last[e], sent[e])
      <4>1. rx[e] \in Seq(Item) /\ rx'[e] \in Seq(Item)  BY <1>1, <1>3, <2>2
      <4>2. \/ rx[e] # <<>> /\ c = Head(rx[e]) /\ rx'[e] = Tail(rx[e])
            \/ ~From(c, e) /\ rx'[e] = rx[e]
        BY <1>1, <2>2, <3>1 DEF From
      <4> QED  BY <1>3, <2>1, <4>1, <4>2, LineStash
    <3> QED  BY <1>2, <3>3, <3>4
  <2> QED  BY <2>3, <2>4 DEF ConsIntrTurn
<1> QED  BY <1>2, <1>5, <1>6 DEF OrderPart, Line

\* A datum arrives.
LEMMA OrderArrive ==
  ASSUME IInv, OrderPart, NEW d \in Dev, Arrive(d)
  PROVE  OrderPart'
<1>1. /\ rx \in [Dev -> Seq(Item)] /\ last \in [Dev -> 0 .. MaxSent] /\ sent \in [Dev -> 0 .. MaxSent]
      /\ Unread \in Seq(Char)
  BY UnreadIsSeq DEF IInv, TypeOK
<1>2. /\ sent' = [sent EXCEPT ![d] = @ + 1] /\ sent[d] < MaxSent
      /\ UNCHANGED <<serial_exists, port, last>> /\ Unread' = Unread
  BY UnreadSame DEF Arrive, ring, uart, ghost
<1>3. PICK c \in {[dev |-> d, no |-> sent[d] + 1], NoChar} : rx' = [rx EXCEPT ![d] = Append(@, c)]
  BY DEF Arrive
<1>4. c \in Item /\ (c = NoChar \/ (c.dev = d /\ c.no = sent[d] + 1))
  BY <1>1, <1>2, InputAssumption DEF Item, Char
<1>5. ASSUME NEW e \in Dev
      PROVE  /\ last'[e] <= sent'[e]
             /\ \A k \in 1 .. Len(rx'[e]) : rx'[e][k] # NoChar => rx'[e][k].dev = e
             /\ Line(Unread', rx'[e], e, last'[e], sent'[e])
  <2>1. /\ last[e] \in Int /\ sent[e] \in Int /\ last[e] <= sent[e]
        /\ \A k \in 1 .. Len(rx[e]) : rx[e][k] # NoChar => rx[e][k].dev = e
        /\ Line(Unread, rx[e], e, last[e], sent[e])
    BY <1>1 DEF OrderPart
  <2>2. CASE e # d
    <3>1. rx'[e] = rx[e] /\ sent'[e] = sent[e] /\ last'[e] = last[e]  BY <1>1, <1>2, <1>3, <2>2
    <3> QED  BY <1>2, <2>1, <3>1
  <2>3. CASE e = d
    <3>1. rx'[e] = Append(rx[e], c) /\ sent'[e] = sent[e] + 1 /\ last'[e] = last[e]
      BY <1>1, <1>2, <1>3, <2>3
    <3>2. Line(Unread, Append(rx[e], c), e, last[e], sent[e] + 1)
      BY <1>1, <1>4, <2>1, <2>3, LineArrive
    <3>3. /\ Len(Append(rx[e], c)) = Len(rx[e]) + 1 /\ Len(rx[e]) \in Nat
          /\ \A k \in 1 .. Len(rx[e]) : Append(rx[e], c)[k] = rx[e][k]
          /\ Append(rx[e], c)[Len(rx[e]) + 1] = c
      BY <1>1, <1>4, AppendProperties
    <3>4. \A k \in 1 .. Len(rx'[e]) : rx'[e][k] # NoChar => rx'[e][k].dev = e
      BY <1>4, <2>1, <2>3, <3>1, <3>3
    <3> QED  BY <1>2, <2>1, <3>1, <3>2, <3>4
  <2> QED  BY <2>2, <2>3
<1> QED  BY <1>2, <1>5 DEF OrderPart, Line

\* cons_init discards a datum.
LEMMA OrderConsInit ==
  ASSUME IInv, OrderPart, ConsInit
  PROVE  OrderPart'
<1>1. /\ rx \in [Dev -> Seq(Item)] /\ Unread \in Seq(Char)
  BY UnreadIsSeq DEF IInv, TypeOK
<1>2. /\ rx' = [rx EXCEPT !["serial"] = Rest("serial")] /\ serial_exists' = port
      /\ UNCHANGED <<port, sent, last>> /\ Unread' = Unread
  BY UnreadSame DEF ConsInit, ring, ghost
<1>3. ASSUME NEW e \in Dev
      PROVE  /\ \A k \in 1 .. Len(rx'[e]) : rx'[e][k] # NoChar => rx'[e][k].dev = e
             /\ Line(Unread', rx'[e], e, last[e], sent[e])
  <2>1. /\ \A k \in 1 .. Len(rx[e]) : rx[e][k] # NoChar => rx[e][k].dev = e
        /\ Line(Unread, rx[e], e, last[e], sent[e])
    BY DEF OrderPart
  <2>2. CASE rx'[e] = rx[e]  BY <1>2, <2>1, <2>2
  <2>3. CASE rx[e] # <<>> /\ rx'[e] = Tail(rx[e])
    <3>1. /\ Len(rx[e]) \in Nat /\ Len(Tail(rx[e])) = Len(rx[e]) - 1
          /\ \A k \in 1 .. Len(rx[e]) - 1 : Tail(rx[e])[k] = rx[e][k + 1] /\ k + 1 \in 1 .. Len(rx[e])
      BY <1>1, <2>3
    <3>2. Line(Unread, Tail(rx[e]), e, last[e], sent[e])  BY <1>1, <2>1, <2>3, LineRead
    <3>3. \A k \in 1 .. Len(Tail(rx[e])) :
             Tail(rx[e])[k] # NoChar => Tail(rx[e])[k].dev = e
      BY <2>1, <3>1
    <3> QED  BY <1>2, <2>3, <3>2, <3>3
  <2>4. rx'[e] = rx[e] \/ (rx[e] # <<>> /\ rx'[e] = Tail(rx[e]))
    BY <1>1, <1>2 DEF Rest, Dev
  <2> QED  BY <2>2, <2>3, <2>4
<1> QED  BY <1>2, <1>3 DEF OrderPart, Line

\* cons_getc takes a character.
LEMMA OrderFetch ==
  ASSUME IInv, OrderPart, Fetch
  PROVE  OrderPart'
<1>1. /\ rx \in [Dev -> Seq(Item)] /\ last \in [Dev -> 0 .. MaxSent] /\ sent \in [Dev -> 0 .. MaxSent]
      /\ Unread \in Seq(Char)
  BY UnreadIsSeq DEF IInv, TypeOK
<1>2. Unread # <<>> /\ ret' = Head(Unread) /\ Unread' = Tail(Unread)
  BY FetchIsGet DEF Fifo!Get
<1>3. /\ ret' = buf[rpos] /\ last' = [last EXCEPT ![buf[rpos].dev] = buf[rpos].no]
      /\ UNCHANGED <<serial_exists, port, sent, rx>>
  BY DEF Fetch, uart
<1>4. ASSUME NEW e \in Dev
      PROVE  last'[e] <= sent[e] /\ Line(Unread', rx[e], e, last'[e], sent[e])
  <2>1. last[e] \in Int /\ sent[e] \in Int /\ last[e] <= sent[e] /\ Line(Unread, rx[e], e, last[e], sent[e])
    BY <1>1 DEF OrderPart
  <2>2. last'[e] = IF Head(Unread).dev = e THEN Head(Unread).no ELSE last[e]
    BY <1>1, <1>2, <1>3
  <2>3. rx[e] \in Seq(Item)  BY <1>1
  <2> QED  BY <1>1, <1>2, <2>1, <2>2, <2>3, LineFetch
<1> QED  BY <1>3, <1>4 DEF OrderPart, Line

LEMMA OrderStep == IInv /\ OrderPart /\ [Next]_vars => OrderPart'
<1> SUFFICES ASSUME IInv, OrderPart, [Next]_vars  PROVE OrderPart'  OBVIOUS
<1>1. CASE ConsInit  BY <1>1, OrderConsInit
<1>2. CASE SerialTurn  BY <1>2, OrderTurn DEF SerialTurn, Dev
<1>3. CASE KbdTurn  BY <1>3, OrderTurn DEF KbdTurn, Dev
<1>4. CASE Fetch  BY <1>4, OrderFetch
<1>5. CASE \E d \in Dev : Arrive(d)  BY <1>5, OrderArrive
<1>6. CASE Getchar \/ SerialDone \/ KbdDone \/ FetchNone \/ UNCHANGED vars
  <2>1. UNCHANGED <<ring, uart, rx, sent, ghost>>
    BY <1>6 DEF Getchar, SerialDone, KbdDone, FetchNone, vars
  <2>2. Unread' = Unread  BY <2>1, UnreadSame DEF ring
  <2> QED  BY <2>1, <2>2 DEF OrderPart, Line, uart, ghost
<1> QED  BY <1>1, <1>2, <1>3, <1>4, <1>5, <1>6 DEF Next, Kernel

\* The characters of a device are read in the order they were typed, none twice,
\* and none comes from a serial port that does not exist.
THEOREM OrderTheorem == Spec => []InOrder
<1>1. Spec => []OrderPart
  BY InductiveInvariant, OrderInit, OrderStep, PTL DEF Spec
<1>2. IInv /\ OrderPart => InOrder
  <2> SUFFICES ASSUME IInv, OrderPart, NEW d \in Dev, NEW j \in 1 .. Len(Unread \o rx[d]),
                      From((Unread \o rx[d])[j], d)
               PROVE  /\ last[d] < (Unread \o rx[d])[j].no
                      /\ \A i \in 1 .. j - 1 : From((Unread \o rx[d])[i], d)
                           => (Unread \o rx[d])[i].no < (Unread \o rx[d])[j].no
    BY DEF InOrder
  <2>1. PICK q \in Seq(Item), r \in Seq(Item) : q = Unread /\ r = rx[d]
    BY UnreadIsSeq DEF IInv, TypeOK, Item
  <2>2. PICK n \in Nat, m \in Nat : n = Len(q) /\ m = Len(r)  OBVIOUS
  <2>3. PICK w : w = q \o r  OBVIOUS
  <2>4. /\ Len(w) = n + m /\ \A i \in 1 .. n : w[i] = q[i]
        /\ \A i \in n + 1 .. n + m : w[i] = r[i - n] /\ i - n \in 1 .. m
    BY <2>2, <2>3, ConcatProperties
  <2>5. Line(q, r, d, last[d], sent[d])  BY <2>1 DEF OrderPart
  <2>6. j \in 1 .. n + m /\ From(w[j], d)  BY <2>1, <2>3, <2>4
  <2>7. last[d] < w[j].no
    <3>1. CASE j \in 1 .. n  BY <2>2, <2>4, <2>5, <2>6, <3>1 DEF Line
    <3>2. CASE j \in n + 1 .. n + m  BY <2>2, <2>4, <2>5, <2>6, <3>2 DEF Line
    <3> QED  BY <2>6, <3>1, <3>2
  <2>8. ASSUME NEW i \in 1 .. j - 1, From(w[i], d)  PROVE w[i].no < w[j].no
    <3>1. CASE j \in 1 .. n
      <4>1. i \in 1 .. n /\ i < j  BY <3>1
      <4> QED  BY <2>2, <2>4, <2>5, <2>6, <2>8, <3>1, <4>1 DEF Line
    <3>2. CASE j \in n + 1 .. n + m /\ i \in 1 .. n
      BY <2>2, <2>4, <2>5, <2>6, <2>8, <3>2 DEF Line
    <3>3. CASE j \in n + 1 .. n + m /\ i \in n + 1 .. n + m
      <4>1. i - n < j - n  BY <3>3
      <4> QED  BY <2>2, <2>4, <2>5, <2>6, <2>8, <3>3, <4>1 DEF Line
    <3> QED  BY <2>6, <3>1, <3>2, <3>3
  <2> QED  BY <2>1, <2>3, <2>7, <2>8
<1> QED  BY <1>1, <1>2, InductiveInvariant, PTL
==============================================================================
