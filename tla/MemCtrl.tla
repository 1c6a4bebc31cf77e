-------------------------------- MODULE MemCtrl --------------------------------
(***************************************************************************)
(* The control of a memory controller, entity MemCtrl_3x3: the arbiter,    *)
(* the write process, the read process and the debug read-out, all clocked *)
(* by Layer_clk_i. A step is one clock edge; the inputs of that clock      *)
(* (tvalid, tlast, tready) are free, Dbg_enable_i is a register of the     *)
(* AXI-lite slave that the driver may rewrite between any two clocks.      *)
(***************************************************************************)
EXTENDS BlockRead

CONSTANT Debugging    (* TRUE: the driver may set Dbg_enable_i            *)

ASSUME DebuggingAssumption == Debugging \in BOOLEAN

VARIABLES
  dbg_state,          (* the debug read-out, DbgMemory                    *)
  dbg_error           (* its status bit                                   *)

dbgVars == << dbg_state, dbg_error >>

vars == << arbiterVars, writeVars, readVars, dbgVars, dbg_enable >>

TypeOK ==
  /\ BlockControlType
  /\ BlockWriteType
  /\ BlockReadType
  /\ dbg_state \in {"IDLE", "WAIT_CY", "GET_DATA"}
  /\ dbg_error \in BOOLEAN

Init ==
  /\ BlockControlInit
  /\ BlockWriteInit
  /\ BlockReadInit
  /\ dbg_state = "IDLE"
  /\ dbg_error = FALSE
  /\ dbg_enable = FALSE

-----------------------------------------------------------------------------
(***************************************************************************)
(* DbgMemory: a read request is served from the block the read process is  *)
(* offered, two clocks after the address is set.                           *)
(***************************************************************************)
DbgIdle ==
  /\ dbg_state = "IDLE"
  /\ IF dbg_active
     THEN /\ dbg_error' = (next_block_read = Wait)
          /\ dbg_state' = IF next_block_read = Wait THEN "IDLE" ELSE "WAIT_CY"
     ELSE UNCHANGED dbgVars

DbgWait ==
  /\ dbg_state = "WAIT_CY"
  /\ dbg_state' = "GET_DATA"
  /\ UNCHANGED dbg_error

DbgGetData ==
  /\ dbg_state = "GET_DATA"
  /\ dbg_error' = (next_block_read = Wait)
  /\ dbg_state' = "IDLE"

DbgMemoryStep == DbgIdle \/ DbgWait \/ DbgGetData

-----------------------------------------------------------------------------
Tick(tvalid, tlast, tready) ==
  /\ BlockControlStep
  /\ BlockWriteStep(tvalid, tlast)
  /\ BlockReadStep(tready)
  /\ DbgMemoryStep
  /\ dbg_enable' \in (IF Debugging THEN BOOLEAN ELSE {FALSE})

Next == \E tvalid, tlast, tready \in BOOLEAN : Tick(tvalid, tlast, tready)

Spec == Init /\ [][Next]_vars

(***************************************************************************)
(* The clock never stops, the previous layer keeps sending and the next    *)
(* layer is ready again and again. Nothing obliges the driver to rewrite   *)
(* Dbg_enable_i: these are steps of the hardware alone, so that hardware   *)
(* which is stuck satisfies the fairness without a debug request.          *)
(***************************************************************************)
AnyTick   == Next /\ dbg_enable' = dbg_enable
InputTick == /\ \E tlast, tready \in BOOLEAN : Tick(TRUE, tlast, tready)
             /\ dbg_enable' = dbg_enable
ReadyTick == /\ \E tvalid, tlast \in BOOLEAN : Tick(tvalid, tlast, TRUE)
             /\ dbg_enable' = dbg_enable

Fairness == WF_vars(AnyTick) /\ SF_vars(InputTick) /\ SF_vars(ReadyTick)

FairSpec == Spec /\ Fairness

-----------------------------------------------------------------------------
(* The block the write process is filling and the one being streamed out. *)
Filling(b) == /\ wr_state # "START"
              /\ wr_position - wr_cnt = Base(b)
Streaming(b) == rd_state # "START" /\ rd_bl_state = b

(***************************************************************************)
(* Receiving and sending go on in parallel, on different blocks: the       *)
(* write process never stores into a block that holds a complete image,    *)
(* above all not into the one the read process is streaming, whatever the  *)
(* input, the stalls and the debug requests.                               *)
(***************************************************************************)
NoOverwrite == \A b \in Blocks : Filling(b) => ~block_full[b] /\ ~Streaming(b)

(***************************************************************************)
(* The read process streams only a block that is complete, the arbiter     *)
(* keeps that block for it until it is done, and its address is at every   *)
(* clock the one of the pixel that is due three clocks later, held back at *)
(* the end of the block RAM.                                               *)
(***************************************************************************)
StreamPosition(b) ==
  LET ahead == IF rd_state = "WAIT_CY" THEN rd_cnt
               ELSE WaitCycles + rd_row * LAYER_WIDTH + rd_cnt
  IN  IF Base(b) + ahead < 2 * BlockSize THEN Base(b) + ahead ELSE 2 * BlockSize - 1

StreamsFullBlock ==
  rd_state # "START" =>
    /\ rd_bl_state \in Blocks
    /\ block_full[rd_bl_state]
    /\ rd_position = StreamPosition(rd_bl_state)

(***************************************************************************)
(* What the arbiter declares full is the block the write process has just  *)
(* completed. (Without debugging; leaving a debug session the arbiter may  *)
(* be a block ahead of the write process.)                                 *)
(***************************************************************************)
CommitsWrittenBlock ==
  \A b \in Blocks : Commits(b) => wr_state = "START" /\ wr_position = Base(b) + BlockSize

(***************************************************************************)
(* A block is declared empty only when all its rows, and the row of lower  *)
(* padding, have been streamed; never twice for one image.                 *)
(***************************************************************************)
ReleasedAfterLastRow ==
  \A b \in Blocks : Releases(b) => rd_state = "START" /\ rd_row = LastRow

(***************************************************************************)
(* However debugging was used: once it is switched off for good, no block  *)
(* stays full forever, the read side resumes.                              *)
(***************************************************************************)
ReadSideRecovers ==
  <>[]~dbg_enable => \A b \in Blocks : []<>~block_full[b]

-----------------------------------------------------------------------------
(***************************************************************************)
(* The driver's header (eggnet.h) on activate_debug_mode: "Computation of  *)
(* each layer a completed before debug mode in entered". The status bit    *)
(* the driver polls for it is dbg_active.                                  *)
(***************************************************************************)
DebugAfterCompletion == dbg_active => wr_block_done /\ rd_state = "START"

(***************************************************************************)
(* The comment on DbgMemory: "Offers the possability to read from the      *)
(* bram". While debug mode is active a read does not end in an error.      *)
(***************************************************************************)
DebugReadsServed == dbg_active => ~dbg_error
=============================================================================
