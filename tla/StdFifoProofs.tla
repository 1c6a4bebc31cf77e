----------------------------- MODULE StdFifoProofs -----------------------------
(***************************************************************************)
(* Theorems about STD_FIFO for every depth and every set of words: the     *)
(* types, and that the two flags are exact.                                *)
(***************************************************************************)
EXTENDS StdFifo, Sequences, SequenceTheorems, TLAPS

(***************************************************************************)
(* The inductive invariant. The flag equations alone are not inductive:    *)
(* that a lap of Head is open (looped) exactly while Head is not beyond    *)
(* Tail is what makes Count a number between 0 and FIFO_DEPTH.             *)
(***************************************************************************)
Laps == IF looped THEN head <= tail ELSE tail <= head

FifoInv == TypeOK /\ Laps /\ FlagsExact

LEMMA InitInv == Init => FifoInv
<1> SUFFICES ASSUME Init PROVE FifoInv OBVIOUS
<1>1. 0 \in Slots
  BY DepthAssumption DEF Slots
<1>2. TypeOK
  BY <1>1 DEF Init, TypeOK
<1>3. Laps
  BY DEF Init, Laps
<1>4. Count = 0 /\ Count # FIFO_DEPTH
  BY DepthAssumption DEF Init, Count
<1>5. FlagsExact
  BY <1>4, Zenon DEF Init, FlagsExact
<1>6. QED BY <1>2, <1>3, <1>5 DEF FifoInv

(* The pointers and the lap after the read half of a clock. *)
LEMMA ReadLaps ==
  ASSUME NEW re \in BOOLEAN, TypeOK, Laps, ReadHalf(re)
  PROVE  /\ tail' \in Slots
         /\ Data_o' \in Data \cup {Undefined}
         /\ LoopedAfterRead(re) \in BOOLEAN
         /\ IF LoopedAfterRead(re) THEN head <= tail' ELSE tail' <= head
  BY DepthAssumption
     DEF TypeOK, Laps, ReadHalf, CanRead, LoopedAfterRead, Advance, Slots

(* How many words lie between two pointers. *)
LEMMA Distance ==
  ASSUME NEW h \in Slots, NEW t \in Slots
  PROVE  /\ h <= t => FIFO_DEPTH - t + h # 0 /\ (FIFO_DEPTH - t + h = FIFO_DEPTH <=> h = t)
         /\ t <= h => h - t # FIFO_DEPTH /\ (h - t = 0 <=> h = t)
  BY DepthAssumption DEF Slots

LEMMA AccessInv ==
  ASSUME FifoInv, NEW re \in BOOLEAN, NEW we \in BOOLEAN, NEW d \in Data,
         Access(re, we, d)
  PROVE  FifoInv'
<1>1. /\ Memory' \in [Slots -> Data \cup {Undefined}]
      /\ head' \in Slots
      /\ looped' \in BOOLEAN
      /\ IF looped' THEN head' <= tail' ELSE tail' <= head'
  BY ReadLaps, DepthAssumption
     DEF FifoInv, TypeOK, Access, WriteHalf, CanWrite, Advance, Slots
<1>2. tail' \in Slots /\ Data_o' \in Data \cup {Undefined}
  BY ReadLaps DEF FifoInv, Access
<1>3. /\ Count' = FIFO_DEPTH <=> head' = tail' /\ looped'
      /\ Count' = 0 <=> head' = tail' /\ ~looped'
  <2>1. CASE looped'
    <3>1. Count' = FIFO_DEPTH - tail' + head' /\ head' <= tail'
      BY <1>1, <2>1, Zenon DEF Count
    <3>2. QED BY <1>1, <1>2, <2>1, <3>1, Distance, Zenon
  <2>2. CASE ~looped'
    <3>1. Count' = head' - tail' /\ tail' <= head'
      BY <1>1, <2>2, Zenon DEF Count
    <3>2. QED BY <1>1, <1>2, <2>2, <3>1, Distance, Zenon
  <2>3. QED BY <2>1, <2>2
(* One clock cannot fill an empty memory or empty a full one. *)
<1>4. /\ Count = FIFO_DEPTH => ~(head' = tail' /\ ~looped')
      /\ Count = 0 => ~(head' = tail' /\ looped')
  BY DepthAssumption
     DEF FifoInv, TypeOK, Laps, Count, Access, ReadHalf, CanRead,
         LoopedAfterRead, WriteHalf, CanWrite, Advance, Slots
<1>5. (Full_o <=> Count = FIFO_DEPTH) /\ (Empty_o <=> Count = 0)
  BY DEF FifoInv, FlagsExact
<1>6. Full_o' \in BOOLEAN /\ Empty_o' \in BOOLEAN
  BY Zenon DEF FifoInv, TypeOK, Access, Flags
<1>7. /\ Full_o' <=> head' = tail' /\ looped'
      /\ Empty_o' <=> head' = tail' /\ ~looped'
  <2>1. CASE head' = tail'
    BY <1>4, <1>5, <2>1, Zenon DEF Access, Flags
  <2>2. CASE head' # tail'
    BY <2>2, Zenon DEF Access, Flags
  <2>3. QED BY <2>1, <2>2
<1>8. FlagsExact'
  BY <1>3, <1>7, Zenon DEF FlagsExact
<1>9. QED BY <1>1, <1>2, <1>6, <1>8 DEF FifoInv, TypeOK, Laps

LEMMA NextInv == FifoInv /\ [Next]_fifoVars => FifoInv'
<1> SUFFICES ASSUME FifoInv, [Next]_fifoVars PROVE FifoInv' OBVIOUS
<1>1. CASE Reset
  <2>1. 0 \in Slots
    BY DepthAssumption DEF Slots
  <2>2. /\ TypeOK'
        /\ head' = 0 /\ tail' = 0 /\ ~looped'
    BY <1>1, <2>1, Zenon DEF Reset, FifoInv, TypeOK, Slots
  <2>3. Laps'
    BY <2>2 DEF Laps
  <2>4. Count' = 0 /\ Count' # FIFO_DEPTH
    BY <1>1, DepthAssumption DEF Reset, Count
  <2>5. FlagsExact'
    BY <1>1, <2>4, Zenon DEF Reset, FlagsExact
  <2>6. QED BY <2>2, <2>3, <2>5 DEF FifoInv
<1>2. ASSUME NEW re \in BOOLEAN, NEW we \in BOOLEAN, NEW d \in Data,
             Access(re, we, d)
      PROVE  FifoInv'
  BY <1>2, AccessInv
<1>3. CASE UNCHANGED fifoVars
  BY <1>3 DEF fifoVars, FifoInv, TypeOK, Laps, FlagsExact, Count
<1>4. QED BY <1>1, <1>2, <1>3 DEF Next, FifoStep

THEOREM FifoInvariant == Spec => []FifoInv
  BY InitInv, NextInv, PTL DEF Spec

(***************************************************************************)
(* For every depth the pointers stay inside the memory and output and      *)
(* memory hold words.                                                      *)
(***************************************************************************)
THEOREM FifoTypes == Spec => []TypeOK
<1>1. FifoInv => TypeOK BY DEF FifoInv
<1>2. QED BY FifoInvariant, <1>1, PTL

(***************************************************************************)
(* For every depth the flags are exact: Full_o and Empty_o tell in every   *)
(* clock whether the next write or read is ignored.                        *)
(***************************************************************************)
THEOREM FifoFlagsExact == Spec => []FlagsExact
<1>1. FifoInv => FlagsExact BY DEF FifoInv
<1>2. QED BY FifoInvariant, <1>1, PTL

-----------------------------------------------------------------------------
(***************************************************************************)
(* STD_FIFO implements BoundedFifo. The words between two pointers, as a   *)
(* sequence; l: the lap of Head is open.                                   *)
(***************************************************************************)
SlotAt(t, i) == IF t + i - 1 < FIFO_DEPTH THEN t + i - 1 ELSE t + i - 1 - FIFO_DEPTH

Stock(h, t, l) == IF l THEN FIFO_DEPTH - t + h ELSE h - t

Words(memory, h, t, l) == [i \in 1 .. Stock(h, t, l) |-> memory[SlotAt(t, i)]]

InLap(h, t, l) == IF l THEN h <= t ELSE t <= h

Word == Data \cup {Undefined}

LEMMA StockType ==
  ASSUME NEW h \in Slots, NEW t \in Slots, NEW l \in BOOLEAN, InLap(h, t, l)
  PROVE  /\ Stock(h, t, l) \in 0 .. FIFO_DEPTH
         /\ \A i \in 1 .. Stock(h, t, l) : SlotAt(t, i) \in Slots
  BY DepthAssumption DEF InLap, Stock, SlotAt, Slots

LEMMA WordsType ==
  ASSUME NEW memory \in [Slots -> Word],
         NEW h \in Slots, NEW t \in Slots, NEW l \in BOOLEAN, InLap(h, t, l)
  PROVE  /\ Words(memory, h, t, l) \in Seq(Word)
         /\ Len(Words(memory, h, t, l)) = Stock(h, t, l)
         /\ \A i \in 1 .. Stock(h, t, l) : Words(memory, h, t, l)[i] = memory[SlotAt(t, i)]
  BY StockType, DepthAssumption DEF Words

(* Where the pointers go when a word is taken and when one is added. *)
LEMMA TakeStock ==
  ASSUME NEW h \in Slots, NEW t \in Slots, NEW l \in BOOLEAN, InLap(h, t, l),
         l \/ h # t,
         NEW k \in BOOLEAN, k <=> l /\ t # FIFO_DEPTH - 1
  PROVE  /\ Advance(t) \in Slots
         /\ InLap(h, Advance(t), k)
         /\ Stock(h, t, l) >= 1
         /\ SlotAt(t, 1) = t
         /\ Stock(h, Advance(t), k) = Stock(h, t, l) - 1
         /\ \A i \in 1 .. Stock(h, t, l) - 1 : SlotAt(Advance(t), i) = SlotAt(t, i + 1)
<1>1. CASE l /\ t # FIFO_DEPTH - 1
  BY <1>1, DepthAssumption DEF InLap, Stock, SlotAt, Slots, Advance
<1>2. CASE l /\ t = FIFO_DEPTH - 1
  BY <1>2, DepthAssumption DEF InLap, Stock, SlotAt, Slots, Advance
<1>3. CASE ~l
  BY <1>3, DepthAssumption DEF InLap, Stock, SlotAt, Slots, Advance
<1>4. QED BY <1>1, <1>2, <1>3

LEMMA AddStock ==
  ASSUME NEW h \in Slots, NEW t \in Slots, NEW l \in BOOLEAN, InLap(h, t, l),
         ~l \/ h # t,
         NEW k \in BOOLEAN, k <=> l \/ h = FIFO_DEPTH - 1
  PROVE  /\ Advance(h) \in Slots
         /\ InLap(Advance(h), t, k)
         /\ Stock(Advance(h), t, k) = Stock(h, t, l) + 1
         /\ SlotAt(t, Stock(h, t, l) + 1) = h
         /\ \A i \in 1 .. Stock(h, t, l) : SlotAt(t, i) # h
<1>1. CASE l
  BY <1>1, DepthAssumption DEF InLap, Stock, SlotAt, Slots, Advance
<1>2. CASE ~l /\ h # FIFO_DEPTH - 1
  BY <1>2, DepthAssumption DEF InLap, Stock, SlotAt, Slots, Advance
<1>3. CASE ~l /\ h = FIFO_DEPTH - 1
  BY <1>3, DepthAssumption DEF InLap, Stock, SlotAt, Slots, Advance
<1>4. QED BY <1>1, <1>2, <1>3

LEMMA WordsTail ==
  ASSUME NEW memory \in [Slots -> Word],
         NEW h \in Slots, NEW t \in Slots, NEW l \in BOOLEAN, InLap(h, t, l),
         l \/ h # t,
         NEW k \in BOOLEAN, k <=> l /\ t # FIFO_DEPTH - 1
  PROVE  /\ Words(memory, h, t, l) # << >>
         /\ Head(Words(memory, h, t, l)) = memory[t]
         /\ Tail(Words(memory, h, t, l)) = Words(memory, h, Advance(t), k)
<1> DEFINE s == Words(memory, h, t, l)
           r == Words(memory, h, Advance(t), k)
<1>1. /\ s \in Seq(Word)
      /\ Len(s) = Stock(h, t, l)
      /\ \A i \in 1 .. Stock(h, t, l) : s[i] = memory[SlotAt(t, i)]
  BY WordsType
<1>2. /\ r \in Seq(Word)
      /\ Len(r) = Stock(h, Advance(t), k)
      /\ \A i \in 1 .. Stock(h, Advance(t), k) : r[i] = memory[SlotAt(Advance(t), i)]
  BY WordsType, TakeStock
<1> HIDE DEF s, r
<1>3. Stock(h, t, l) \in Nat
  BY <1>1, LenProperties
<1>4. s # << >>
  <2>1. Len(s) >= 1
    BY <1>1, TakeStock
  <2>2. QED BY <2>1, EmptySeq
<1>5. Head(s) = memory[t]
  BY <1>1, <1>3, <1>4, TakeStock
<1>6. /\ Tail(s) \in Seq(Word)
      /\ Len(Tail(s)) = Stock(h, t, l) - 1
      /\ \A i \in 1 .. Len(Tail(s)) : Tail(s)[i] = s[i + 1]
  BY <1>1, <1>4, HeadTailProperties
<1>7. Len(Tail(s)) = Len(r)
  BY <1>2, <1>6, TakeStock
<1>8. ASSUME NEW i \in 1 .. Len(Tail(s)) PROVE Tail(s)[i] = r[i]
  BY <1>1, <1>2, <1>3, <1>6, <1>7, TakeStock
<1>9. Tail(s) = r
  BY <1>2, <1>6, <1>7, <1>8, SeqEqual
<1>10. QED BY <1>4, <1>5, <1>9 DEF s, r

LEMMA WordsAppend ==
  ASSUME NEW memory \in [Slots -> Word],
         NEW h \in Slots, NEW t \in Slots, NEW l \in BOOLEAN, InLap(h, t, l),
         ~l \/ h # t,
         NEW d \in Data,
         NEW new \in [Slots -> Word],
         \A s \in Slots : new[s] = IF s = h THEN d ELSE memory[s],
         NEW k \in BOOLEAN, k <=> l \/ h = FIFO_DEPTH - 1
  PROVE  Append(Words(memory, h, t, l), d) = Words(new, Advance(h), t, k)
<1> DEFINE s == Words(memory, h, t, l)
           r == Words(new, Advance(h), t, k)
<1>1. /\ s \in Seq(Word)
      /\ Len(s) = Stock(h, t, l)
      /\ \A i \in 1 .. Stock(h, t, l) : s[i] = memory[SlotAt(t, i)]
  BY WordsType
<1>2. d \in Word
  BY DEF Word
<1>3. /\ r \in Seq(Word)
      /\ Len(r) = Stock(Advance(h), t, k)
      /\ \A i \in 1 .. Stock(Advance(h), t, k) : r[i] = new[SlotAt(t, i)]
  BY WordsType, AddStock
<1>4. /\ Stock(h, t, l) \in Nat
      /\ \A i \in 1 .. Stock(h, t, l) : new[SlotAt(t, i)] = memory[SlotAt(t, i)]
      /\ new[SlotAt(t, Stock(h, t, l) + 1)] = d
  BY StockType, AddStock, DepthAssumption
<1> HIDE DEF s, r
<1>5. /\ Append(s, d) \in Seq(Word)
      /\ Len(Append(s, d)) = Len(s) + 1
      /\ \A i \in 1 .. Len(s) : Append(s, d)[i] = s[i]
      /\ Append(s, d)[Len(s) + 1] = d
  BY <1>1, <1>2, AppendProperties
<1>6. Len(Append(s, d)) = Len(r)
  BY <1>1, <1>3, <1>5, AddStock
<1>7. ASSUME NEW i \in 1 .. Len(Append(s, d)) PROVE Append(s, d)[i] = r[i]
  BY <1>1, <1>3, <1>4, <1>5, <1>6, AddStock
<1>8. Append(s, d) = r
  BY <1>3, <1>5, <1>6, <1>7, SeqEqual
<1>9. QED BY <1>8 DEF s, r

LEMMA FullStock ==
  ASSUME NEW h \in Slots, NEW t \in Slots, NEW l \in BOOLEAN, InLap(h, t, l)
  PROVE  Stock(h, t, l) < FIFO_DEPTH <=> ~l \/ h # t
  BY DepthAssumption DEF InLap, Stock, Slots

LEMMA StoredWords ==
  /\ Stored = Words(Memory, head, tail, looped)
  /\ Stored' = Words(Memory', head', tail', looped')
  BY DEF Stored, Words, Count, Stock, Slot, SlotAt

LEMMA StoredEmpty ==
  ASSUME NEW memory \in [Slots -> Word], NEW h \in Slots
  PROVE  Words(memory, h, h, FALSE) = << >>
<1>1. InLap(h, h, FALSE) /\ Stock(h, h, FALSE) = 0
  BY DepthAssumption DEF InLap, Stock, Slots
<1>2. QED BY <1>1, WordsType, EmptySeq

(* A clock with the words seen as a queue: first the read, then the write. *)
LEMMA AccessQueue ==
  ASSUME FifoInv, NEW re \in BOOLEAN, NEW we \in BOOLEAN, NEW d \in Data,
         Access(re, we, d)
  PROVE  Fifo!Access(re, we, d)
<1> DEFINE mid == LoopedAfterRead(re)
           rest == Words(Memory, head, tail', mid)
<1>1. /\ Memory \in [Slots -> Word]
      /\ head \in Slots /\ tail \in Slots /\ looped \in BOOLEAN
      /\ InLap(head, tail, looped)
  BY DEF FifoInv, TypeOK, Laps, InLap, Word
<1>2. /\ tail' \in Slots
      /\ mid \in BOOLEAN
      /\ InLap(head, tail', mid)
  BY ReadLaps, Zenon DEF FifoInv, Access, InLap
<1>3. Stored # << >> <=> looped \/ head # tail
  <2>1. CASE looped \/ head # tail
    BY <2>1, <1>1, WordsTail, StoredWords
  <2>2. CASE ~looped /\ head = tail
    BY <2>2, <1>1, StoredEmpty, StoredWords
  <2>3. QED BY <2>1, <2>2
<1>4. /\ Data_o' = IF re /\ Stored # << >> THEN Head(Stored) ELSE Data_o
      /\ Fifo!AfterRead(re) = rest
  <2>1. CASE CanRead(re)
    <3>1. /\ Data_o' = Memory[tail]
          /\ tail' = Advance(tail)
          /\ re /\ (looped \/ head # tail)
      BY <2>1, Zenon DEF Access, ReadHalf, CanRead
    <3>2. mid <=> looped /\ tail # FIFO_DEPTH - 1
      BY <2>1, Zenon DEF LoopedAfterRead
    <3>3. Head(Stored) = Memory[tail] /\ Tail(Stored) = rest
      <4> HIDE DEF mid
      <4>1. QED BY <1>1, <1>2, <3>1, <3>2, WordsTail, StoredWords
    <3>4. QED BY <1>3, <3>1, <3>3, Zenon DEF Fifo!AfterRead
  <2>2. CASE ~CanRead(re)
    <3>1. /\ Data_o' = Data_o
          /\ tail' = tail
          /\ ~(re /\ (looped \/ head # tail))
      BY <2>2, Zenon DEF Access, ReadHalf, CanRead
    <3>2. mid = looped
      BY <1>1, <2>2, Zenon DEF LoopedAfterRead
    <3>3. QED BY <1>3, <3>1, <3>2, StoredWords, Zenon DEF Fifo!AfterRead
  <2>3. QED BY <2>1, <2>2
<1> HIDE DEF mid
<1>5. Len(rest) < FIFO_DEPTH <=> ~mid \/ head # tail'
  BY <1>1, <1>2, WordsType, FullStock
<1>6. Stored' = IF we /\ Len(rest) < FIFO_DEPTH THEN Append(rest, d) ELSE rest
  <2>1. CASE we /\ (~mid \/ head # tail')
    <3>1. /\ Memory' = [Memory EXCEPT ![head] = d]
          /\ head' = Advance(head)
          /\ looped' = (mid \/ head = FIFO_DEPTH - 1)
      BY <2>1, Zenon DEF Access, WriteHalf, CanWrite, mid
    <3>2. looped' \in BOOLEAN /\ (looped' <=> mid \/ head = FIFO_DEPTH - 1)
      BY <3>1, Zenon
    <3>3. /\ Memory' \in [Slots -> Word]
          /\ \A s \in Slots : Memory'[s] = IF s = head THEN d ELSE Memory[s]
      BY <1>1, <3>1 DEF Word
    <3>4. Append(rest, d)
            = Words(Memory', Advance(head), tail', looped')
      BY <1>1, <1>2, <2>1, <3>2, <3>3, WordsAppend
    <3>5. QED BY <1>5, <2>1, <3>1, <3>4, StoredWords, Zenon
  <2>2. CASE ~(we /\ (~mid \/ head # tail'))
    <3>1. Memory' = Memory /\ head' = head /\ looped' = mid
      BY <2>2, Zenon DEF Access, WriteHalf, CanWrite, mid
    <3>2. QED BY <1>5, <2>2, <3>1, StoredWords, Zenon
  <2>3. QED BY <2>1, <2>2
<1>7. QED BY <1>4, <1>6, Zenon DEF Fifo!Access

(***************************************************************************)
(* For every depth and every set of words the ring buffer implements the   *)
(* bounded queue: first in first out, nothing lost, nothing repeated, a    *)
(* write into a full memory kept when the same clock reads.                *)
(***************************************************************************)
THEOREM FifoIsBoundedFifo == Spec => IsBoundedFifo
<1>1. Init => Fifo!Init
  <2> SUFFICES ASSUME Init PROVE Fifo!Init OBVIOUS
  <2>1. /\ Memory \in [Slots -> Word] /\ head \in Slots
        /\ tail = head /\ looped = FALSE /\ Data_o = Undefined
    BY InitInv DEF Init, FifoInv, TypeOK, Word
  <2>2. Stored = << >>
    BY <2>1, StoredWords, StoredEmpty
  <2>3. QED BY <2>1, <2>2 DEF Fifo!Init
<1>2. FifoInv /\ FifoInv' /\ [Next]_fifoVars => [Fifo!Next]_<< Stored, Data_o >>
  <2> SUFFICES ASSUME FifoInv, FifoInv', [Next]_fifoVars
               PROVE  [Fifo!Next]_<< Stored, Data_o >>
    OBVIOUS
  <2>1. CASE Reset
    <3>1. /\ Memory' \in [Slots -> Word] /\ head' \in Slots
          /\ tail' = head' /\ looped' = FALSE /\ Data_o' = Data_o
      BY <2>1 DEF Reset, FifoInv, TypeOK, Word
    <3>2. Stored' = << >>
      BY <3>1, StoredWords, StoredEmpty
    <3>3. QED BY <3>1, <3>2 DEF Fifo!Reset, Fifo!Next
  <2>2. ASSUME NEW re \in BOOLEAN, NEW we \in BOOLEAN, NEW d \in Data,
               Access(re, we, d)
        PROVE  Fifo!Next
    BY <2>2, AccessQueue DEF Fifo!Next
  <2>3. CASE UNCHANGED fifoVars
    <3>1. /\ Memory' = Memory /\ head' = head /\ tail' = tail
          /\ looped' = looped /\ Data_o' = Data_o
      BY <2>3 DEF fifoVars
    <3>2. QED BY <3>1, StoredWords
  <2>4. QED BY <2>1, <2>2, <2>3 DEF Next, FifoStep
<1>3. QED BY <1>1, <1>2, FifoInvariant, PTL DEF Spec, Fifo!Spec, IsBoundedFifo
=============================================================================
