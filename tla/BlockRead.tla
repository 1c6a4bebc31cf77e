------------------------------- MODULE BlockRead -------------------------------
(***************************************************************************)
(* The process that streams a block out, DefaultRead of MemCtrl.vhd: after *)
(* two clocks for the latency of the block RAM it walks once over the      *)
(* block, a pixel per clock in which the next layer is ready, and over one *)
(* more row for the lower padding. The first row only fills the line       *)
(* buffer. Module MemCtrlData has the registers with the pixels.           *)
(***************************************************************************)
EXTENDS BlockWrite

VARIABLES
  rd_state,
  rd_cnt,             (* state_cnt: column, or clocks waited in WAIT_CY   *)
  rd_row,             (* rd_pixel_row_cnt                                 *)
  rd_position         (* position and mem_rd_addr, which follows it       *)

readVars == << rd_state, rd_cnt, rd_row, rd_position, rd_block_done >>

KERNEL_SIZE == 3
LastRow == LAYER_HIGHT - 2 + KERNEL_SIZE

(* Mutant: one clock too few for the latency of the block RAM. *)
OneWaitCycle == 1
WaitCycles == 2

RdStates == {"START", "WAIT_CY", "MOVE", "STOP"}

BlockReadType ==
  /\ rd_state \in RdStates
  /\ rd_cnt \in Nat
  /\ rd_row \in 0 .. LastRow
  /\ rd_position \in Nat
  /\ rd_position < 2 * BlockSize

BlockReadInit ==
  /\ rd_state = "START"
  /\ rd_cnt = 0
  /\ rd_row = 0
  /\ rd_position = 0
  /\ rd_block_done = TRUE

-----------------------------------------------------------------------------
RdTakeBlock ==
  /\ rd_state = "START"
  /\ next_block_read # Wait
  /\ rd_state' = "WAIT_CY"
  /\ rd_position' = Base(next_block_read)
  /\ rd_block_done' = FALSE
  /\ rd_cnt' = 0
  /\ rd_row' = 0

RdNoBlock ==
  /\ rd_state = "START"
  /\ next_block_read = Wait
  /\ rd_cnt' = 0
  /\ rd_row' = 0
  /\ UNCHANGED << rd_state, rd_position, rd_block_done >>

RdWaitBram ==
  /\ rd_state = "WAIT_CY"
  /\ rd_position' = rd_position + 1
  /\ \/ /\ rd_cnt = WaitCycles - 1
        /\ rd_state' = "MOVE"
        /\ rd_cnt' = 0
     \/ /\ rd_cnt # WaitCycles - 1
        /\ rd_cnt' = rd_cnt + 1
        /\ UNCHANGED rd_state
  /\ UNCHANGED << rd_row, rd_block_done >>

(* Mutant: the address is not held back at the end of the block RAM. *)
RdMoveUnbounded ==
  /\ rd_state = "MOVE"
  /\ \/ /\ rd_cnt < LAYER_WIDTH - 1
        /\ rd_cnt' = rd_cnt + 1
        /\ UNCHANGED << rd_row, rd_state >>
     \/ /\ rd_cnt >= LAYER_WIDTH - 1
        /\ rd_cnt' = 0
        /\ rd_row' = rd_row + 1
        /\ rd_state' = IF rd_row + 1 = LastRow THEN "STOP" ELSE "MOVE"
  /\ rd_position' = rd_position + 1
  /\ UNCHANGED rd_block_done

(* The next layer takes the vector: next column, or next row. *)
RdMove ==
  /\ rd_state = "MOVE"
  /\ \/ /\ rd_cnt < LAYER_WIDTH - 1
        /\ rd_cnt' = rd_cnt + 1
        /\ UNCHANGED << rd_row, rd_state >>
     \/ /\ rd_cnt >= LAYER_WIDTH - 1
        /\ rd_cnt' = 0
        /\ rd_row' = rd_row + 1
        /\ rd_state' = IF rd_row + 1 = LastRow THEN "STOP" ELSE "MOVE"
  /\ rd_position' = IF rd_position < 2 * BlockSize - 1 THEN rd_position + 1
                                                        ELSE rd_position
  /\ UNCHANGED rd_block_done

RdStall ==
  /\ rd_state = "MOVE"
  /\ UNCHANGED readVars

(* Mutant: does not tell the arbiter that the block is read. *)
RdStopSilently ==
  /\ rd_state = "STOP"
  /\ rd_state' = "START"
  /\ UNCHANGED << rd_block_done, rd_cnt, rd_row, rd_position >>

RdStop ==
  /\ rd_state = "STOP"
  /\ rd_state' = "START"
  /\ rd_block_done' = TRUE
  /\ UNCHANGED << rd_cnt, rd_row, rd_position >>

BlockReadStep(tready) ==
  \/ RdTakeBlock
  \/ RdNoBlock
  \/ RdWaitBram
  \/ tready /\ RdMove
  \/ ~tready /\ RdStall
  \/ RdStop
=============================================================================
