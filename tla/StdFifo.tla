------------------------------- MODULE StdFifo -------------------------------
(***************************************************************************)
(* The first-in first-out memory STD_FIFO (fifo_dist_ram.vhd), used as the *)
(* line buffer of the memory controllers. A step is one clock edge; a read *)
(* and a write of the same clock happen in that order, because Head, Tail  *)
(* and Looped are variables of the process.                                *)
(***************************************************************************)
EXTENDS Integers

CONSTANTS
  FIFO_DEPTH,
  Data,               (* values of Data_i                                 *)
  Undefined           (* what memory and output hold after power-up       *)

(***************************************************************************)
(* A FIFO of depth one would never lower its flags: they are cleared only  *)
(* when Head and Tail differ. The line buffers are LAYER_WIDTH + 1 deep.   *)
(***************************************************************************)
ASSUME DepthAssumption == FIFO_DEPTH \in Nat /\ FIFO_DEPTH >= 2

(***************************************************************************)
(* head, tail and looped are Head, Tail and Looped of the process (Head    *)
(* and Tail are operators of the module Sequences).                        *)
(***************************************************************************)
VARIABLES Memory, head, tail, looped, Full_o, Empty_o, Data_o

fifoVars == << Memory, head, tail, looped, Full_o, Empty_o, Data_o >>

Slots == 0 .. FIFO_DEPTH - 1

TypeOK ==
  /\ Memory \in [Slots -> Data \cup {Undefined}]
  /\ head \in Slots
  /\ tail \in Slots
  /\ looped \in BOOLEAN
  /\ Full_o \in BOOLEAN
  /\ Empty_o \in BOOLEAN
  /\ Data_o \in Data \cup {Undefined}

(* After the first clock with Rst_i. *)
Init ==
  /\ Memory = [s \in Slots |-> Undefined]
  /\ head = 0
  /\ tail = 0
  /\ looped = FALSE
  /\ Full_o = FALSE
  /\ Empty_o = TRUE
  /\ Data_o = Undefined

-----------------------------------------------------------------------------
(* Mutant: the pointer runs past the last slot. *)
AdvanceNoWrap(pointer) == pointer + 1

(* The slot after this one. *)
Advance(pointer) == IF pointer = FIFO_DEPTH - 1 THEN 0 ELSE pointer + 1

Reset ==
  /\ head' = 0
  /\ tail' = 0
  /\ looped' = FALSE
  /\ Full_o' = FALSE
  /\ Empty_o' = TRUE
  /\ UNCHANGED << Memory, Data_o >>

(* Mutant: the lap is not closed when the last slot is read. *)
LoopedAfterReadNoReset(re) == looped

(* The read half of a clock. Reading the last slot ends the lap of Head. *)
CanRead(re) == re /\ (looped \/ head # tail)
LoopedAfterRead(re) == looped /\ ~(CanRead(re) /\ tail = FIFO_DEPTH - 1)

ReadHalf(re) ==
  IF CanRead(re) THEN Data_o' = Memory[tail] /\ tail' = Advance(tail)
                 ELSE UNCHANGED << Data_o, tail >>

(* The write half sees the pointers the read half has left. *)
CanWrite(re, we) == we /\ (~LoopedAfterRead(re) \/ head # tail')

WriteHalf(re, we, d) ==
  IF CanWrite(re, we)
  THEN /\ Memory' = [Memory EXCEPT ![head] = d]
       /\ head' = Advance(head)
       /\ looped' = (LoopedAfterRead(re) \/ head = FIFO_DEPTH - 1)
  ELSE UNCHANGED << Memory, head >> /\ looped' = LoopedAfterRead(re)

(* Mutant: only Empty_o is cleared when the pointers differ. *)
FlagsFullSticks ==
  /\ Full_o'  = ((head' = tail' /\ looped') \/ Full_o)
  /\ Empty_o' = IF head' = tail' THEN ~looped' \/ Empty_o ELSE FALSE

(* Flags are updated from the new pointers, each only in one direction when
   the pointers meet. *)
Flags ==
  /\ Full_o'  = IF head' = tail' THEN looped' \/ Full_o ELSE FALSE
  /\ Empty_o' = IF head' = tail' THEN ~looped' \/ Empty_o ELSE FALSE

Access(re, we, d) == ReadHalf(re) /\ WriteHalf(re, we, d) /\ Flags

FifoStep(rst, re, we, d) == IF rst THEN Reset ELSE Access(re, we, d)

Next == \E rst, re, we \in BOOLEAN, d \in Data : FifoStep(rst, re, we, d)

Spec == Init /\ [][Next]_fifoVars

-----------------------------------------------------------------------------
(* Number of stored words. *)
Count == IF looped THEN FIFO_DEPTH - tail + head ELSE head - tail

(***************************************************************************)
(* The flags tell exactly when the memory is full and when it is empty.    *)
(***************************************************************************)
FlagsExact == (Full_o <=> Count = FIFO_DEPTH) /\ (Empty_o <=> Count = 0)

(***************************************************************************)
(* The ring buffer is a bounded queue: words come out in the order in      *)
(* which they went in, none is lost, none is repeated, a word written in   *)
(* the clock in which a full memory is read is kept.                       *)
(***************************************************************************)
Slot(i) == IF tail + i - 1 < FIFO_DEPTH THEN tail + i - 1 ELSE tail + i - 1 - FIFO_DEPTH

Stored == [i \in 1 .. Count |-> Memory[Slot(i)]]

Fifo == INSTANCE BoundedFifo WITH Depth <- FIFO_DEPTH, queue <- Stored, out <- Data_o

IsBoundedFifo == Fifo!Spec
=============================================================================
