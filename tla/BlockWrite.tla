------------------------------ MODULE BlockWrite ------------------------------
(***************************************************************************)
(* The process that fills a block of the block RAM. The generic            *)
(* AXI4_STREAM_INPUT selects which of two is generated: DefaultWriteP of   *)
(* MemCtrl.vhd takes one pixel per clock from the previous layer (state    *)
(* MOVE); AXI_stream_write of MemCtrl_AXIS.vhd takes a bus word of         *)
(* AXI_WIDTH_MUL pixels in NEW_DATA and stores its remaining pixels in     *)
(* SAVE. Both start and complete a block the same way.                     *)
(*                                                                         *)
(* Bram_pa_* (what is written where) is in module MemCtrlData.             *)
(***************************************************************************)
EXTENDS BlockControl

CONSTANTS
  LAYER_HIGHT,        (* rows of an image, the source's spelling          *)
  LAYER_WIDTH,        (* pixels of a row                                  *)
  AXI4_STREAM_INPUT,  (* 1: input from the AXI stream bus, 0: from a layer*)
  AXI_WIDTH_MUL       (* pixels of one bus word                           *)

BlockSize == LAYER_HIGHT * LAYER_WIDTH      \* BRAM_ADDR_BLOCK_WIDTH

(***************************************************************************)
(* With two pixels or fewer the arbiter is too slow: it would offer a      *)
(* block again before it has seen that the block is taken (two pixels) or  *)
(* never see wr_block_done fall (one pixel). The generics allow those      *)
(* sizes, no layer of the network has them.                                *)
(***************************************************************************)
ASSUME GeometryAssumption ==
  /\ LAYER_HIGHT \in Nat \ {0}
  /\ LAYER_WIDTH \in Nat \ {0}
  /\ LAYER_HIGHT * LAYER_WIDTH \in Nat
  /\ LAYER_HIGHT * LAYER_WIDTH >= 3
  /\ AXI4_STREAM_INPUT \in {0, 1}
  /\ AXI_WIDTH_MUL \in Nat
  /\ AXI_WIDTH_MUL >= 2

VARIABLES
  wr_state,           (* wr_state, wr_state_axi                           *)
  wr_cnt,             (* state_cnt: pixels of the block stored so far     *)
  wr_position,        (* position: block RAM address of the next pixel    *)
  buf_cnt,            (* pixels of the bus word still to be stored        *)
  axi_wr_tlast_R,     (* S_layer_tlast_i of the bus word being stored     *)
  wr_invalid_block,   (* status: the last block did not end with tlast    *)
  S_layer_tready      (* output S_layer_tready_o                          *)

writeVars == << wr_state, wr_cnt, wr_position, buf_cnt, axi_wr_tlast_R,
                wr_invalid_block, S_layer_tready, wr_block_done >>

(* The state in which input is accepted. *)
Receiving == IF AXI4_STREAM_INPUT = 1 THEN "NEW_DATA" ELSE "MOVE"

WrStates == IF AXI4_STREAM_INPUT = 1 THEN {"START", "NEW_DATA", "SAVE"}
                                     ELSE {"START", "MOVE"}

(* Block RAM address of a block's first pixel. *)
Base(b) == IF b = "BLOCK0" THEN 0 ELSE BlockSize

BlockWriteType ==
  /\ wr_state \in WrStates
  /\ wr_cnt \in 0 .. BlockSize - 1
  /\ wr_position \in 0 .. 2 * BlockSize
  /\ buf_cnt \in 0 .. AXI_WIDTH_MUL - 1
  /\ axi_wr_tlast_R \in BOOLEAN
  /\ wr_invalid_block \in BOOLEAN
  /\ S_layer_tready \in BOOLEAN

BlockWriteInit ==
  /\ wr_state = "START"
  /\ wr_cnt = 0
  /\ wr_position = 0
  /\ buf_cnt = 0
  /\ axi_wr_tlast_R = FALSE
  /\ wr_invalid_block = FALSE
  /\ S_layer_tready = FALSE
  /\ wr_block_done = TRUE

-----------------------------------------------------------------------------
(* Debugging sends an idle write process back to START. *)
DebugAbort == wr_block_done /\ dbg_active

(* A block is offered: accept its pixels. *)
WrTakeBlock ==
  /\ wr_state = "START"
  /\ next_block_write # Wait
  /\ wr_state' = Receiving
  /\ wr_position' = Base(next_block_write)
  /\ S_layer_tready' = TRUE
  /\ wr_cnt' = 0
  /\ UNCHANGED << buf_cnt, axi_wr_tlast_R, wr_invalid_block, wr_block_done >>

WrNoBlock ==
  /\ wr_state = "START"
  /\ next_block_write = Wait
  /\ S_layer_tready' = FALSE
  /\ wr_cnt' = 0
  /\ UNCHANGED << wr_state, wr_position, buf_cnt, axi_wr_tlast_R,
                  wr_invalid_block, wr_block_done >>

(* No input in this clock. *)
WrIdle ==
  /\ wr_state = Receiving
  /\ wr_state' = IF DebugAbort THEN "START" ELSE wr_state
  /\ UNCHANGED << wr_cnt, wr_position, buf_cnt, axi_wr_tlast_R,
                  wr_invalid_block, S_layer_tready, wr_block_done >>

(***************************************************************************)
(* A pixel goes to the block RAM. EndsBlock: it is the block's last one;   *)
(* the block is done whatever tlast says, tlast only sets the status bit.  *)
(***************************************************************************)
EndsBlock == wr_cnt + 1 >= BlockSize

CompleteBlock(tlast) ==
  /\ wr_position' = wr_position + 1
  /\ wr_cnt' = 0
  /\ wr_block_done' = TRUE
  /\ wr_invalid_block' = ~tlast
  /\ wr_state' = "START"
  /\ S_layer_tready' = FALSE

StorePixel ==
  /\ wr_position' = wr_position + 1
  /\ wr_cnt' = wr_cnt + 1
  /\ UNCHANGED wr_invalid_block

(* DefaultWriteP, state MOVE, S_layer_tvalid_i = '1' *)
WrMove(tlast) ==
  /\ wr_state = "MOVE"
  /\ \/ EndsBlock /\ CompleteBlock(tlast)
     \/ /\ ~EndsBlock
        /\ StorePixel
        /\ wr_block_done' = FALSE
        /\ wr_state' = IF DebugAbort THEN "START" ELSE "MOVE"
        /\ UNCHANGED S_layer_tready
  /\ UNCHANGED << buf_cnt, axi_wr_tlast_R >>

(* AXI_stream_write, state NEW_DATA, S_layer_tvalid_i = '1' *)
WrNewData(tlast) ==
  /\ wr_state = "NEW_DATA"
  /\ \/ EndsBlock /\ CompleteBlock(tlast)
     \/ /\ ~EndsBlock
        /\ StorePixel
        /\ wr_block_done' = FALSE
        /\ wr_state' = IF DebugAbort THEN "START" ELSE "SAVE"
        /\ S_layer_tready' = FALSE
  /\ buf_cnt' = AXI_WIDTH_MUL - 1
  /\ axi_wr_tlast_R' = tlast

(* AXI_stream_write, state SAVE: what is left of the word when the block
   ends is dropped. *)
WrSave ==
  /\ wr_state = "SAVE"
  /\ \/ EndsBlock /\ CompleteBlock(axi_wr_tlast_R)
     \/ /\ ~EndsBlock
        /\ StorePixel
        /\ wr_state' = IF buf_cnt = 1 THEN "NEW_DATA" ELSE "SAVE"
        /\ S_layer_tready' = (buf_cnt = 1)
        /\ UNCHANGED wr_block_done
  /\ buf_cnt' = buf_cnt - 1
  /\ UNCHANGED axi_wr_tlast_R

BlockWriteStep(tvalid, tlast) ==
  \/ WrTakeBlock
  \/ WrNoBlock
  \/ ~tvalid /\ WrIdle
  \/ tvalid /\ WrMove(tlast)
  \/ tvalid /\ WrNewData(tlast)
  \/ WrSave

(* A pixel is stored in this clock. *)
Stores(tvalid) == wr_state = "SAVE" \/ (wr_state = Receiving /\ tvalid)
=============================================================================
