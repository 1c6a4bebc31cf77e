----------------------------- MODULE MemCtrlProofs -----------------------------
(***************************************************************************)
(* Theorems about a memory controller, for images of every size of three   *)
(* pixels or more, both kinds of input, any input, stall and debug request:*)
(* the types, that a block holding an image is never overwritten, that     *)
(* only full blocks are streamed, each to its last row.                    *)
(***************************************************************************)
EXTENDS MemCtrl, TLAPS

-----------------------------------------------------------------------------
(***************************************************************************)
(* The inductive invariant, one part per fact the next one rests on.       *)
(***************************************************************************)

(* The write process fills one of the two blocks, from its first pixel on. *)
WriterInBlock == wr_state # "START" => \E b \in Blocks : Filling(b)

(* A word being stored has pixels left, its first one is stored. *)
WordBegun == wr_state = "SAVE" => wr_cnt >= 1 /\ buf_cnt >= 1

(***************************************************************************)
(* From the first pixel on wr_block_done is low, from the second on the    *)
(* arbiter has seen it, so that it takes its offer back before the third:  *)
(* the reason why a block has at least three pixels.                       *)
(***************************************************************************)
WriterSeen ==
  /\ wr_state # "START" /\ wr_cnt >= 1 => ~wr_block_done
  /\ wr_state # "START" /\ wr_cnt >= 2 => ~wr_block_done_R

(* A completed block is announced to an idle writer without an offer. *)
WrittenOnce == WrDoneEdge => wr_state = "START" /\ next_block_write = Wait

(* The arbiter offers empty blocks only. *)
OffersEmpty ==
  /\ wr_bl_state \in Blocks => ~block_full[wr_bl_state]
  /\ next_block_write # Wait => ~block_full[next_block_write]

(* The write process fills an empty block. *)
FillsEmpty == \A b \in Blocks : Filling(b) => ~block_full[b]

(* The read side of the arbiter stays at a full block, the one it offers. *)
ServesFull ==
  /\ rd_bl_state \in Blocks => block_full[rd_bl_state]
  /\ next_block_read # Wait => rd_bl_state = next_block_read

(* Where the read process is in its walk. *)
ReaderWalk ==
  /\ rd_state = "WAIT_CY" => rd_cnt \in 0 .. 1 /\ rd_row = 0
  /\ rd_state = "MOVE" => rd_cnt \in 0 .. LAYER_WIDTH - 1 /\ rd_row < LastRow
  /\ rd_state = "STOP" => rd_cnt = 0 /\ rd_row = LastRow

(* rd_block_done is low while a block is streamed, and the arbiter has seen
   it before the end. *)
ReaderSeen ==
  /\ rd_state # "START" => ~rd_block_done
  /\ rd_state \in {"MOVE", "STOP"} \/ (rd_state = "WAIT_CY" /\ rd_cnt = 1)
       => ~rd_block_done_R

(* The end of a block is announced to an idle reader without an offer. *)
ReadOnce ==
  RdDoneEdge => rd_state = "START" /\ rd_row = LastRow /\ next_block_read = Wait

IInv ==
  /\ TypeOK
  /\ WriterInBlock /\ WordBegun /\ WriterSeen /\ WrittenOnce
  /\ OffersEmpty /\ FillsEmpty
  /\ ServesFull /\ ReaderWalk /\ ReaderSeen /\ ReadOnce
  /\ StreamsFullBlock

-----------------------------------------------------------------------------
LEMMA Geometry ==
  /\ BlockSize \in Nat /\ BlockSize >= 3
  /\ LAYER_WIDTH \in Nat /\ LAYER_WIDTH >= 1
  /\ LastRow \in Nat /\ LastRow >= 2
  /\ AXI_WIDTH_MUL \in Nat /\ AXI_WIDTH_MUL >= 2
  BY GeometryAssumption DEF BlockSize, LastRow, KERNEL_SIZE

LEMMA BaseValues ==
  /\ \A b \in Blocks : b # Wait /\ Base(b) \in {0, BlockSize}
  /\ \A b, c \in Blocks : Base(b) = Base(c) => b = c
  BY Geometry DEF Base, Blocks, Wait

LEMMA InitInv == Init => IInv
<1> SUFFICES ASSUME Init PROVE IInv OBVIOUS
<1> USE DEF Init, BlockControlInit, BlockWriteInit, BlockReadInit
<1>1. TypeOK
  <2>1. BlockControlType
    BY Zenon DEF BlockControlType, BlStates, Blocks, Wait
  <2>2. BlockWriteType
    <3>1. /\ wr_state \in WrStates
          /\ wr_cnt \in 0 .. BlockSize - 1
          /\ wr_position \in 0 .. 2 * BlockSize
          /\ buf_cnt \in 0 .. AXI_WIDTH_MUL - 1
      BY Geometry DEF WrStates
    <3>2. QED BY <3>1, Zenon DEF BlockWriteType
  <2>3. BlockReadType
    BY Geometry DEF BlockReadType, RdStates
  <2>4. QED BY <2>1, <2>2, <2>3 DEF TypeOK
<1>2. /\ WriterInBlock /\ WordBegun /\ WriterSeen /\ WrittenOnce
      /\ OffersEmpty /\ FillsEmpty
      /\ ServesFull /\ ReaderWalk /\ ReaderSeen /\ ReadOnce
      /\ StreamsFullBlock
  BY DEF WriterInBlock, WordBegun, WriterSeen, WrittenOnce, OffersEmpty,
         FillsEmpty, Filling, ServesFull, ReaderWalk, ReaderSeen, ReadOnce,
         StreamsFullBlock, WrDoneEdge, RdDoneEdge, Blocks, Wait
<1>3. QED BY <1>1, <1>2 DEF IInv

-----------------------------------------------------------------------------
(* The write process. *)

LEMMA WriterTypes ==
  ASSUME BlockControlType, BlockWriteType, WordBegun,
         NEW tvalid \in BOOLEAN, NEW tlast \in BOOLEAN,
         BlockWriteStep(tvalid, tlast)
  PROVE  /\ wr_state' \in WrStates
         /\ wr_cnt' \in 0 .. BlockSize - 1
         /\ buf_cnt' \in 0 .. AXI_WIDTH_MUL - 1
         /\ WordBegun'
<1> USE Geometry, GeometryAssumption DEF BlockWriteType, WordBegun, WrStates, Receiving
<1>1. CASE WrTakeBlock
  BY <1>1 DEF WrTakeBlock
<1>2. CASE WrNoBlock
  BY <1>2 DEF WrNoBlock
<1>3. CASE WrIdle
  BY <1>3 DEF WrIdle
<1>4. CASE WrMove(tlast)
  BY <1>4 DEF WrMove, CompleteBlock, StorePixel, EndsBlock
<1>5. CASE WrNewData(tlast)
  BY <1>5 DEF WrNewData, CompleteBlock, StorePixel, EndsBlock
<1>6. CASE WrSave
  BY <1>6 DEF WrSave, CompleteBlock, StorePixel, EndsBlock
<1>7. QED
  BY <1>1, <1>2, <1>3, <1>4, <1>5, <1>6, Zenon DEF BlockWriteStep

LEMMA WriterSignals ==
  ASSUME BlockControlType, BlockWriteType,
         NEW tvalid \in BOOLEAN, NEW tlast \in BOOLEAN,
         BlockWriteStep(tvalid, tlast)
  PROVE  /\ axi_wr_tlast_R' \in BOOLEAN
         /\ wr_invalid_block' \in BOOLEAN
         /\ S_layer_tready' \in BOOLEAN
         /\ wr_block_done' \in BOOLEAN
<1> USE DEF BlockControlType, BlockWriteType
<1>1. CASE WrTakeBlock
  BY <1>1, Zenon DEF WrTakeBlock
<1>2. CASE WrNoBlock
  BY <1>2, Zenon DEF WrNoBlock
<1>3. CASE WrIdle
  BY <1>3, Zenon DEF WrIdle
<1>4. CASE WrMove(tlast)
  BY <1>4, Zenon DEF WrMove, CompleteBlock, StorePixel
<1>5. CASE WrNewData(tlast)
  BY <1>5, Zenon DEF WrNewData, CompleteBlock, StorePixel
<1>6. CASE WrSave
  BY <1>6, Zenon DEF WrSave, CompleteBlock, StorePixel
<1>7. QED
  BY <1>1, <1>2, <1>3, <1>4, <1>5, <1>6, Zenon DEF BlockWriteStep

(* The write process keeps filling its block or takes the one offered. *)
LEMMA WriterBlock ==
  ASSUME BlockControlType, BlockWriteType, WordBegun, WriterInBlock,
         NEW tvalid \in BOOLEAN, NEW tlast \in BOOLEAN,
         BlockWriteStep(tvalid, tlast)
  PROVE  /\ wr_position' \in 0 .. 2 * BlockSize
         /\ WriterInBlock'
         /\ \A b \in Blocks : Filling(b)' => Filling(b) \/ (wr_state = "START" /\ next_block_write = b)
<1> USE Geometry, BaseValues DEF BlockControlType, BlockWriteType, WrStates, Receiving,
                                 WriterInBlock, Filling
<1>1. CASE WrTakeBlock
  BY <1>1 DEF WrTakeBlock
<1>2. CASE WrNoBlock
  BY <1>2 DEF WrNoBlock
<1>3. CASE WrIdle
  BY <1>3 DEF WrIdle
<1>4. CASE WrMove(tlast)
  BY <1>4 DEF WrMove, CompleteBlock, StorePixel, EndsBlock
<1>5. CASE WrNewData(tlast)
  BY <1>5 DEF WrNewData, CompleteBlock, StorePixel, EndsBlock
<1>6. CASE WrSave
  BY <1>6 DEF WrSave, CompleteBlock, StorePixel, EndsBlock
<1>7. QED
  BY <1>1, <1>2, <1>3, <1>4, <1>5, <1>6, Zenon DEF BlockWriteStep

(* wr_block_done falls with the first pixel and rises with the last. *)
LEMMA WriterDone ==
  ASSUME BlockControlType, BlockWriteType, WordBegun, WriterSeen,
         NEW tvalid \in BOOLEAN, NEW tlast \in BOOLEAN,
         BlockWriteStep(tvalid, tlast), wr_block_done_R' = wr_block_done
  PROVE  /\ WriterSeen'
         /\ WrDoneEdge' => wr_state' = "START" /\ ~wr_block_done_R
<1> USE Geometry DEF BlockWriteType, WordBegun, WriterSeen, WrDoneEdge, WrStates, Receiving
<1>1. CASE WrTakeBlock \/ WrNoBlock
  BY <1>1 DEF WrTakeBlock, WrNoBlock
<1>2. CASE WrIdle
  BY <1>2 DEF WrIdle
<1>3. CASE WrMove(tlast)
  BY <1>3 DEF WrMove, CompleteBlock, StorePixel, EndsBlock
<1>4. CASE WrNewData(tlast)
  BY <1>4 DEF WrNewData, CompleteBlock, StorePixel, EndsBlock
<1>5. CASE WrSave
  BY <1>5 DEF WrSave, CompleteBlock, StorePixel, EndsBlock
<1>6. QED
  BY <1>1, <1>2, <1>3, <1>4, <1>5, Zenon DEF BlockWriteStep

-----------------------------------------------------------------------------
(* The read process. *)

LEMMA ReaderTypes ==
  ASSUME BlockControlType, BlockReadType, ReaderWalk, StreamsFullBlock,
         NEW tready \in BOOLEAN, BlockReadStep(tready)
  PROVE  BlockReadType' /\ rd_block_done' \in BOOLEAN /\ ReaderWalk'
<1> USE Geometry, BaseValues DEF BlockControlType, BlockReadType, ReaderWalk, RdStates
<1>1. CASE RdTakeBlock
  <2>1. rd_position' \in {0, BlockSize}
    BY <1>1 DEF RdTakeBlock
  <2>2. /\ rd_state' = "WAIT_CY" /\ rd_cnt' = 0 /\ rd_row' = 0
        /\ rd_block_done' \in BOOLEAN
    BY <1>1 DEF RdTakeBlock
  <2>3. QED BY <2>1, <2>2
<1>2. CASE RdNoBlock
  BY <1>2 DEF RdNoBlock
<1>3. CASE RdWaitBram
  BY <1>3 DEF RdWaitBram, WaitCycles, StreamsFullBlock, StreamPosition
<1>4. CASE RdMove
  BY <1>4 DEF RdMove
<1>5. CASE RdStall
  BY <1>5 DEF RdStall, readVars
<1>6. CASE RdStop
  BY <1>6 DEF RdStop
<1>7. QED
  BY <1>1, <1>2, <1>3, <1>4, <1>5, <1>6, Zenon DEF BlockReadStep

(* rd_block_done falls when a block is taken and rises after its last row. *)
LEMMA ReaderDone ==
  ASSUME BlockControlType, BlockReadType, ReaderWalk, ReaderSeen,
         NEW tready \in BOOLEAN, BlockReadStep(tready),
         rd_block_done_R' = rd_block_done
  PROVE  /\ ReaderSeen'
         /\ RdDoneEdge' => rd_state' = "START" /\ rd_row' = LastRow /\ ~rd_block_done_R
<1> USE Geometry DEF BlockReadType, RdStates, ReaderWalk, ReaderSeen, RdDoneEdge
<1>1. CASE RdTakeBlock
  BY <1>1 DEF RdTakeBlock
<1>2. CASE RdNoBlock
  BY <1>2 DEF RdNoBlock
<1>3. CASE RdWaitBram
  BY <1>3 DEF RdWaitBram, WaitCycles
<1>4. CASE RdMove
  BY <1>4 DEF RdMove
<1>5. CASE RdStall
  BY <1>5 DEF RdStall, readVars
<1>6. CASE RdStop
  BY <1>6 DEF RdStop
<1>7. QED
  BY <1>1, <1>2, <1>3, <1>4, <1>5, <1>6, Zenon DEF BlockReadStep

-----------------------------------------------------------------------------
(* The arbiter. *)

LEMMA ArbiterTypes ==
  ASSUME BlockControlType, BlockControlStep
  PROVE  /\ next_block_read' \in Blocks \cup {Wait}
         /\ next_block_write' \in Blocks \cup {Wait}
         /\ block_full' \in [Blocks -> BOOLEAN]
         /\ rd_bl_state' \in BlStates
         /\ wr_bl_state' \in BlStates
         /\ rd_block_done_R' \in BOOLEAN
         /\ wr_block_done_R' \in BOOLEAN
         /\ dbg_active_rd' \in BOOLEAN
         /\ dbg_active_wr' \in BOOLEAN
<1>1. /\ wr_bl_state' \in BlStates
      /\ next_block_write' \in Blocks \cup {Wait}
      /\ dbg_active_rd' \in BOOLEAN
  BY Zenon DEF BlockControlType, BlockControlStep, WriteSide, WrBlIdle, WrBlCommit, WrBlEnterDebug,
         WrBlOffer, WrBlDebug, BlStates, Blocks, Other
<1>2. /\ rd_bl_state' \in BlStates
      /\ next_block_read' \in Blocks \cup {Wait}
      /\ dbg_active_wr' \in BOOLEAN
  BY DEF BlockControlType, BlockControlStep, ReadSide, RdBlIdle, RdBlRelease,
         RdBlOffer, RdBlDebug, BlStates, Blocks, Other
<1>3. /\ block_full' \in [Blocks -> BOOLEAN]
      /\ rd_block_done_R' \in BOOLEAN
      /\ wr_block_done_R' \in BOOLEAN
  BY DEF BlockControlType, BlockControlStep
<1>4. QED BY <1>1, <1>2, <1>3

(* What happens to block_full in one clock. *)
LEMMA FullAfter ==
  ASSUME BlockControlType, BlockControlStep, NEW b \in Blocks
  PROVE  block_full'[b] <=> (block_full[b] \/ Commits(b)) /\ ~Releases(b)
  BY DEF BlockControlType, BlockControlStep

(* The write side moves to empty blocks and takes its offer back as soon as
   it has seen wr_block_done fall. *)
LEMMA WriteSideOffers ==
  ASSUME BlockControlType, BlockControlStep, OffersEmpty
  PROVE  /\ OffersEmpty'
         /\ ~wr_block_done_R => next_block_write' = Wait
<1>1. /\ wr_bl_state' \in Blocks =>
           /\ ~block_full[wr_bl_state']
           /\ ~Commits(wr_bl_state')
      /\ next_block_write' # Wait =>
           /\ next_block_write' = wr_bl_state /\ wr_bl_state \in Blocks
           /\ ~WrDoneEdge /\ wr_block_done_R
  <2> USE DEF BlockControlType, OffersEmpty, Commits
  <2>1. CASE WrBlIdle
    BY <2>1 DEF WrBlIdle, Blocks
  <2>2. ASSUME NEW b \in Blocks, WrBlCommit(b)
        PROVE  <1>1!:
    BY <2>2 DEF WrBlCommit, Other, Blocks
  <2>3. ASSUME NEW b \in Blocks, WrBlEnterDebug(b)
        PROVE  <1>1!:
    BY <2>3 DEF WrBlEnterDebug, Blocks
  <2>4. ASSUME NEW b \in Blocks, WrBlOffer(b)
        PROVE  <1>1!:
    BY <2>4 DEF WrBlOffer, Blocks
  <2>5. CASE WrBlDebug
    BY <2>5 DEF WrBlDebug, Blocks
  <2>6. QED
    BY <2>1, <2>2, <2>3, <2>4, <2>5, Zenon DEF BlockControlStep, WriteSide
<1>2. wr_bl_state' \in Blocks => ~block_full'[wr_bl_state']
  BY <1>1, FullAfter, Zenon
<1>3. next_block_write' # Wait => ~block_full'[next_block_write']
  BY <1>1, FullAfter, Zenon DEF OffersEmpty, Commits
<1>4. QED BY <1>1, <1>2, <1>3, Zenon DEF OffersEmpty

(* The read side moves to full blocks, and does not leave one before the
   end of its transmission. *)
LEMMA ReadSideServes ==
  ASSUME BlockControlType, BlockControlStep, ServesFull
  PROVE  /\ ServesFull'
         /\ ~rd_block_done_R => next_block_read' = Wait
         /\ ~RdDoneEdge /\ rd_bl_state \in Blocks => rd_bl_state' = rd_bl_state
         /\ rd_bl_state' \in Blocks => block_full[rd_bl_state']
<1>1. /\ rd_bl_state' \in Blocks =>
           /\ block_full[rd_bl_state']
           /\ ~Releases(rd_bl_state')
      /\ next_block_read' # Wait => rd_bl_state' = next_block_read' /\ rd_block_done_R
      /\ ~RdDoneEdge /\ rd_bl_state \in Blocks => rd_bl_state' = rd_bl_state
  <2> USE DEF BlockControlType, ServesFull, Releases
  <2>1. CASE RdBlIdle
    BY <2>1 DEF RdBlIdle, Blocks
  <2>2. ASSUME NEW b \in Blocks, RdBlRelease(b)
        PROVE  <1>1!:
    BY <2>2 DEF RdBlRelease, Other, Blocks
  <2>3. ASSUME NEW b \in Blocks, RdBlOffer(b)
        PROVE  <1>1!:
    BY <2>3 DEF RdBlOffer, Blocks
  <2>4. CASE RdBlDebug
    BY <2>4 DEF RdBlDebug, Blocks
  <2>5. QED
    BY <2>1, <2>2, <2>3, <2>4, Zenon DEF BlockControlStep, ReadSide
<1>2. rd_bl_state' \in Blocks => block_full'[rd_bl_state']
  BY <1>1, FullAfter, Zenon
<1>3. QED BY <1>1, <1>2, Zenon DEF ServesFull

-----------------------------------------------------------------------------
(* The processes together. *)

LEMMA FillingEmptyBlocks ==
  ASSUME IInv, NEW tvalid \in BOOLEAN, NEW tlast \in BOOLEAN,
         BlockControlStep, BlockWriteStep(tvalid, tlast)
  PROVE  FillsEmpty'
<1> SUFFICES ASSUME NEW b \in Blocks, Filling(b)' PROVE ~block_full'[b]
  BY DEF FillsEmpty
<1>1. Filling(b) \/ (wr_state = "START" /\ next_block_write = b)
  BY WriterBlock DEF IInv, TypeOK
<1>2. ~block_full[b] /\ ~WrDoneEdge
  <2>1. b # Wait
    BY BaseValues
  <2>2. QED BY <1>1, <2>1, Zenon DEF IInv, FillsEmpty, OffersEmpty, WrittenOnce, Filling
<1>3. QED BY <1>2, FullAfter, Zenon DEF IInv, TypeOK, Commits

(***************************************************************************)
(* The address follows the walk: one pixel per clock, a row being          *)
(* LAYER_WIDTH pixels, held back at the end of the block RAM.              *)
(***************************************************************************)
LEMMA StreamingFullBlocks ==
  ASSUME IInv, NEW tready \in BOOLEAN, BlockControlStep, BlockReadStep(tready)
  PROVE  StreamsFullBlock'
<1> SUFFICES ASSUME rd_state' # "START"
             PROVE  /\ rd_bl_state' \in Blocks
                    /\ block_full'[rd_bl_state']
                    /\ rd_position' = StreamPosition(rd_bl_state)'
  BY DEF StreamsFullBlock
<1>1. /\ rd_bl_state \in Blocks
      /\ ~RdDoneEdge
      /\ rd_state = "START" => rd_bl_state = next_block_read
  <2>1. CASE rd_state = "START"
    <3>1. RdTakeBlock
      BY <2>1, Zenon DEF BlockReadStep, RdNoBlock, RdWaitBram, RdMove, RdStall, RdStop
    <3>2. QED BY <3>1, Zenon DEF RdTakeBlock, IInv, TypeOK, BlockControlType, ServesFull, ReadOnce
  <2>2. CASE rd_state # "START"
    BY <2>2, Zenon DEF IInv, StreamsFullBlock, ReadOnce
  <2>3. QED BY <2>1, <2>2
<1>2. rd_bl_state' = rd_bl_state /\ block_full'[rd_bl_state']
  BY <1>1, ReadSideServes, Zenon DEF IInv, TypeOK, ServesFull
<1>3. rd_position' = StreamPosition(rd_bl_state)'
  <2> DEFINE base == Base(rd_bl_state)
  <2>1. base \in {0, BlockSize} /\ base' = base
    BY <1>1, <1>2, BaseValues DEF Base
  <2>2. /\ rd_row \in Nat /\ rd_cnt \in Nat /\ rd_position \in Nat
        /\ LAYER_WIDTH \in Nat /\ BlockSize \in Nat
        /\ rd_row * LAYER_WIDTH \in Nat
        /\ (rd_row + 1) * LAYER_WIDTH = rd_row * LAYER_WIDTH + LAYER_WIDTH
    BY Geometry DEF IInv, TypeOK, BlockReadType
  <2>3. rd_state # "START" => rd_position = StreamPosition(rd_bl_state)
    BY DEF IInv, StreamsFullBlock
  <2> USE <1>2, <2>1, <2>2, <2>3, Geometry DEF StreamPosition, WaitCycles
  <2> HIDE DEF base
  <2>4. CASE RdTakeBlock
    BY <2>4, <1>1 DEF RdTakeBlock, base
  <2>5. CASE RdNoBlock
    BY <2>5 DEF RdNoBlock
  <2>6. CASE RdWaitBram
    BY <2>6 DEF RdWaitBram, base, IInv, ReaderWalk
  <2>7. CASE RdMove
    BY <2>7 DEF RdMove, base, IInv, ReaderWalk
  <2>8. CASE RdStall
    BY <2>8 DEF RdStall, readVars, base
  <2>9. CASE RdStop
    BY <2>9 DEF RdStop
  <2>10. QED
    BY <2>4, <2>5, <2>6, <2>7, <2>8, <2>9, Zenon DEF BlockReadStep
<1>4. QED BY <1>1, <1>2, <1>3

LEMMA TickInv ==
  ASSUME IInv, NEW tvalid \in BOOLEAN, NEW tlast \in BOOLEAN, NEW tready \in BOOLEAN,
         Tick(tvalid, tlast, tready)
  PROVE  IInv'
<1>1. /\ BlockControlStep
      /\ BlockWriteStep(tvalid, tlast)
      /\ BlockReadStep(tready)
      /\ DbgMemoryStep
      /\ wr_block_done_R' = wr_block_done
      /\ rd_block_done_R' = rd_block_done
      /\ dbg_enable' \in BOOLEAN
  BY DEF Tick, BlockControlStep
<1> USE <1>1 DEF IInv, TypeOK
<1>2. TypeOK'
  <2>1. dbg_state' \in {"IDLE", "WAIT_CY", "GET_DATA"} /\ dbg_error' \in BOOLEAN
    BY Zenon DEF DbgMemoryStep, DbgIdle, DbgWait, DbgGetData, dbgVars
  <2>2. BlockControlType'
    BY ArbiterTypes, WriterSignals, ReaderTypes, Zenon DEF BlockControlType
  <2>3. BlockWriteType'
    BY WriterTypes, WriterSignals, WriterBlock, Zenon DEF BlockWriteType
  <2>4. BlockReadType'
    BY ReaderTypes
  <2>5. QED BY <2>1, <2>2, <2>3, <2>4
<1>3. WriterInBlock' /\ WordBegun' /\ WriterSeen'
  BY WriterBlock, WriterTypes, WriterDone
<1>4. WrittenOnce'
  BY WriterDone, WriteSideOffers, Zenon DEF WrittenOnce
<1>5. OffersEmpty' /\ FillsEmpty'
  BY WriteSideOffers, FillingEmptyBlocks
<1>6. ServesFull' /\ ReaderWalk' /\ ReaderSeen'
  BY ReadSideServes, ReaderTypes, ReaderDone
<1>7. ReadOnce'
  BY ReaderDone, ReadSideServes, Zenon DEF ReadOnce
<1>8. StreamsFullBlock'
  BY StreamingFullBlocks
<1>9. QED BY <1>2, <1>3, <1>4, <1>5, <1>6, <1>7, <1>8

LEMMA NextInv == IInv /\ [Next]_vars => IInv'
<1> SUFFICES ASSUME IInv, [Next]_vars PROVE IInv' OBVIOUS
<1>1. ASSUME NEW tvalid \in BOOLEAN, NEW tlast \in BOOLEAN, NEW tready \in BOOLEAN,
             Tick(tvalid, tlast, tready)
      PROVE  IInv'
  BY <1>1, TickInv
<1>2. CASE UNCHANGED vars
  BY <1>2
     DEF vars, arbiterVars, writeVars, readVars, dbgVars, IInv, TypeOK,
         BlockControlType, BlockWriteType, BlockReadType, WriterInBlock, WordBegun,
         WriterSeen, WrittenOnce, OffersEmpty, FillsEmpty, ServesFull, ReaderWalk,
         ReaderSeen, ReadOnce, StreamsFullBlock, StreamPosition, Filling, WrDoneEdge,
         RdDoneEdge
<1>3. QED BY <1>1, <1>2 DEF Next

THEOREM Invariant == Spec => []IInv
  BY InitInv, NextInv, PTL DEF Spec

(***************************************************************************)
(* Type correctness, among it the ranges of the block RAM addresses: no    *)
(* access leaves the two blocks.                                           *)
(***************************************************************************)
THEOREM TypeCorrect == Spec => []TypeOK
<1>1. IInv => TypeOK BY DEF IInv
<1>2. QED BY Invariant, <1>1, PTL

(***************************************************************************)
(* The write process never stores into a block that holds an image or is   *)
(* being streamed.                                                         *)
(***************************************************************************)
THEOREM NeverOverwrites == Spec => []NoOverwrite
<1>1. IInv => NoOverwrite
  <2> SUFFICES ASSUME IInv, NEW b \in Blocks, Filling(b)
               PROVE  ~block_full[b] /\ ~Streaming(b)
    BY DEF NoOverwrite
  <2>1. ~block_full[b]
    BY DEF IInv, FillsEmpty
  <2>2. ~Streaming(b)
    BY <2>1 DEF IInv, StreamsFullBlock, Streaming
  <2>3. QED BY <2>1, <2>2
<1>2. QED BY Invariant, <1>1, PTL

(***************************************************************************)
(* Only a full block is streamed, from its first pixel on, in order.       *)
(***************************************************************************)
THEOREM StreamsFullBlocks == Spec => []StreamsFullBlock
<1>1. IInv => StreamsFullBlock BY DEF IInv
<1>2. QED BY Invariant, <1>1, PTL

(***************************************************************************)
(* A block is declared empty after its last row and the lower padding.     *)
(***************************************************************************)
THEOREM ReleasesAfterLastRow == Spec => []ReleasedAfterLastRow
<1>1. IInv => ReleasedAfterLastRow
  BY Zenon DEF IInv, ReadOnce, ReleasedAfterLastRow, Releases
<1>2. QED BY Invariant, <1>1, PTL

-----------------------------------------------------------------------------
(***************************************************************************)
(* Without debugging the arbiter stays at the block it has offered until   *)
(* that block is complete, so that both sides mean the same block.         *)
(***************************************************************************)
NoDebugging == ~dbg_enable /\ wr_bl_state # "DEBUG" /\ ~dbg_active_rd

SameBlock ==
  /\ next_block_write # Wait => wr_bl_state = next_block_write
  /\ \A b \in Blocks : Filling(b) => wr_bl_state = b

CInv == IInv /\ NoDebugging /\ SameBlock /\ CommitsWrittenBlock

(* The arbiter offers the block it is at, and leaves it with the done edge. *)
LEMMA WriteSideStays ==
  ASSUME BlockControlType, NoDebugging, BlockControlStep
  PROVE  /\ wr_bl_state' # "DEBUG" /\ ~dbg_active_rd'
         /\ next_block_write' # Wait => wr_bl_state' = next_block_write'
         /\ wr_bl_state \in Blocks /\ ~WrDoneEdge => wr_bl_state' = wr_bl_state
<1> USE DEF BlockControlType, NoDebugging
<1> DEFINE Stays == /\ wr_bl_state' # "DEBUG" /\ ~dbg_active_rd'
                    /\ next_block_write' # Wait => wr_bl_state' = next_block_write'
                    /\ wr_bl_state \in Blocks /\ ~WrDoneEdge => wr_bl_state' = wr_bl_state
<1>1. CASE WrBlIdle
  BY <1>1 DEF WrBlIdle, Blocks
<1>2. ASSUME NEW b \in Blocks, WrBlCommit(b) PROVE Stays
  BY <1>2 DEF WrBlCommit, Commits, Other, Blocks
<1>3. ASSUME NEW b \in Blocks, WrBlEnterDebug(b) PROVE Stays
  BY <1>3 DEF WrBlEnterDebug
<1>4. ASSUME NEW b \in Blocks, WrBlOffer(b) PROVE Stays
  BY <1>4 DEF WrBlOffer, Blocks
<1>5. QED
  BY <1>1, <1>2, <1>3, <1>4, Zenon DEF BlockControlStep, WriteSide, WrBlDebug

(* wr_block_done rises in the clock that stores the last pixel of a block. *)
LEMMA DoneAtLastPixel ==
  ASSUME BlockControlType, BlockWriteType, WordBegun, WriterInBlock,
         NEW tvalid \in BOOLEAN, NEW tlast \in BOOLEAN,
         BlockWriteStep(tvalid, tlast), wr_block_done_R' = wr_block_done, WrDoneEdge'
  PROVE  \E b \in Blocks : Filling(b) /\ wr_state' = "START" /\ wr_position' = Base(b) + BlockSize
<1> USE DEF BlockWriteType, WrDoneEdge, WrStates, Receiving
<1>1. /\ wr_state # "START" /\ EndsBlock
      /\ wr_state' = "START" /\ wr_position' = wr_position + 1
  <2>1. CASE WrTakeBlock \/ WrNoBlock \/ WrIdle
    BY <2>1 DEF WrTakeBlock, WrNoBlock, WrIdle
  <2>2. CASE WrMove(tlast)
    BY <2>2 DEF WrMove, CompleteBlock
  <2>3. CASE WrNewData(tlast)
    BY <2>3 DEF WrNewData, CompleteBlock
  <2>4. CASE WrSave
    BY <2>4 DEF WrSave, CompleteBlock
  <2>5. QED BY <2>1, <2>2, <2>3, <2>4, Zenon DEF BlockWriteStep
<1>2. PICK b \in Blocks : Filling(b)
  BY <1>1 DEF WriterInBlock
<1>3. wr_position' = Base(b) + BlockSize
  BY <1>1, <1>2, Geometry, BaseValues DEF Filling, EndsBlock
<1>4. QED BY <1>1, <1>2, <1>3

LEMMA TickCommits ==
  ASSUME Debugging = FALSE, CInv,
         NEW tvalid \in BOOLEAN, NEW tlast \in BOOLEAN, NEW tready \in BOOLEAN,
         Tick(tvalid, tlast, tready)
  PROVE  CInv'
<1>1. /\ BlockControlStep
      /\ BlockWriteStep(tvalid, tlast)
      /\ wr_block_done_R' = wr_block_done
      /\ ~dbg_enable'
  BY DEF Tick, BlockControlStep
<1>2. IInv /\ BlockControlType /\ BlockWriteType /\ WordBegun /\ WriterInBlock
  BY DEF CInv, IInv, TypeOK
<1>3. NoDebugging'
  BY <1>1, <1>2, WriteSideStays DEF CInv, NoDebugging
<1>4. ASSUME NEW b \in Blocks, Filling(b) \/ (wr_state = "START" /\ next_block_write = b)
      PROVE  wr_bl_state' = b
  <2>1. wr_bl_state = b /\ b # Wait
    BY <1>4, BaseValues, Zenon DEF CInv, SameBlock
  <2>2. ~WrDoneEdge
    BY <1>2, <1>4, <2>1, Zenon DEF IInv, WrittenOnce, Filling
  <2>3. QED BY <1>1, <1>2, <2>1, <2>2, WriteSideStays DEF CInv
<1>5. SameBlock'
  <2>1. next_block_write' # Wait => wr_bl_state' = next_block_write'
    BY <1>1, <1>2, WriteSideStays DEF CInv
  <2>2. \A b \in Blocks : Filling(b)' => wr_bl_state' = b
    BY <1>1, <1>2, <1>4, WriterBlock
  <2>3. QED BY <2>1, <2>2, Zenon DEF SameBlock
<1>6. CommitsWrittenBlock'
  <2> SUFFICES ASSUME NEW b \in Blocks, Commits(b)'
               PROVE  wr_state' = "START" /\ wr_position' = Base(b) + BlockSize
    BY DEF CommitsWrittenBlock, Base
  <2>1. wr_bl_state' = b /\ WrDoneEdge'
    BY DEF Commits
  <2>2. PICK c \in Blocks : /\ Filling(c) /\ wr_state' = "START"
                            /\ wr_position' = Base(c) + BlockSize
    BY <1>1, <1>2, <2>1, DoneAtLastPixel
  <2>3. c = b
    BY <1>4, <2>1, <2>2
  <2>4. QED BY <2>2, <2>3
<1>7. QED
  BY <1>1, <1>2, <1>3, <1>5, <1>6, TickInv DEF CInv

(***************************************************************************)
(* Without debugging the block that is declared full is the one that has   *)
(* just been written to its last pixel.                                    *)
(***************************************************************************)
THEOREM CommitsTheWrittenBlock ==
  ASSUME Debugging = FALSE
  PROVE  Spec => []CommitsWrittenBlock
<1>1. Init => CInv
  <2> SUFFICES ASSUME Init PROVE NoDebugging /\ SameBlock /\ CommitsWrittenBlock
    BY InitInv DEF CInv
  <2>1. QED
    BY DEF Init, BlockControlInit, BlockWriteInit, NoDebugging, SameBlock,
           CommitsWrittenBlock, Commits, WrDoneEdge, Filling
<1>2. CInv /\ [Next]_vars => CInv'
  <2>1. CInv /\ Next => CInv'
    BY TickCommits DEF Next
  <2>2. CInv /\ UNCHANGED vars => CInv'
    <3> SUFFICES ASSUME CInv, UNCHANGED vars PROVE CInv'
      OBVIOUS
    <3>1. IInv'
      BY NextInv DEF CInv
    <3>2. NoDebugging' /\ SameBlock' /\ CommitsWrittenBlock'
      BY DEF vars, arbiterVars, writeVars, CInv, NoDebugging, SameBlock,
             CommitsWrittenBlock, Commits, WrDoneEdge, Filling
    <3>3. QED BY <3>1, <3>2 DEF CInv
  <2>3. QED BY <2>1, <2>2
<1>3. CInv => CommitsWrittenBlock
  BY DEF CInv
<1>4. QED BY <1>1, <1>2, <1>3, PTL DEF Spec
=============================================================================
