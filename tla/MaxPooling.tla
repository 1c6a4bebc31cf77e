----------------------------- MODULE MaxPooling -----------------------------
(***************************************************************************)
(* MaxPooling.vhd: the first row of each pair of rows goes to a FIFO, the  *)
(* second one is compared with it; every second pixel of it completes a    *)
(* patch of 2x2. The process `pooling` is combinational, `sync` holds the  *)
(* registers. The maximum is a function of the set of the four pixels, and *)
(* that set stands for it. One channel stands for all.                     *)
(***************************************************************************)
EXTENDS Integers

CONSTANTS
  LAYER_WIDTH,
  NoPixel             (* value of the data registers at reset             *)

VARIABLES
  state, col_cnt, output_en, ready_latched,
  fifo_out_latched, input_latched,
  Memory, head, tail, looped, Full_o, Empty_o, Data_o    \* the FIFO

PoolFifo == INSTANCE StdFifo WITH
  FIFO_DEPTH <- LAYER_WIDTH + 2, Data <- {}, Undefined <- NoPixel

poolVars == << state, col_cnt, output_en, ready_latched, fifo_out_latched,
               input_latched, Memory, head, tail, looped, Full_o, Empty_o, Data_o >>

PoolInit ==
  /\ state = "INIT"
  /\ col_cnt = 0
  /\ output_en = FALSE
  /\ ready_latched = FALSE
  /\ fifo_out_latched = NoPixel
  /\ input_latched = NoPixel
  /\ PoolFifo!Init

-----------------------------------------------------------------------------
(* Mutant: no ready for the last column of the first line. *)
s_readyShort(tlast, M_tready) ==
  \/ state = "FIRST_LINE" /\ col_cnt < LAYER_WIDTH - 1
  \/ state = "POOL" /\ M_tready /\ ~tlast

(* The combinational outputs. *)
s_ready(tlast, M_tready) ==
  \/ state = "FIRST_LINE"
  \/ state = "POOL" /\ M_tready /\ ~tlast

PoolReady(tlast, M_tready) == s_ready(tlast, M_tready) /\ M_tready /\ ~tlast

Compares(tvalid) == state = "POOL" /\ ready_latched /\ tvalid

m_tvalid(tvalid) == Compares(tvalid) /\ output_en
M_tlast(tlast)   == state = "POOL" /\ tlast
M_tdata(tdata)   == {tdata, Data_o, fifo_out_latched, input_latched}

fifo_wr(tvalid, tlast, M_tready) == s_ready(tlast, M_tready) /\ ready_latched /\ tvalid

EndsFirstLine(tvalid, tlast, M_tready) ==
  state = "FIRST_LINE" /\ fifo_wr(tvalid, tlast, M_tready) /\ col_cnt = LAYER_WIDTH - 1

fifo_rd(tvalid, tlast, M_tready) ==
  \/ EndsFirstLine(tvalid, tlast, M_tready)
  \/ Compares(tvalid) /\ ~tlast

(* Mutant: the FIFO keeps the second line of a pair. *)
fifo_srstOnce(tlast) == state = "INIT"

fifo_srst(tlast) == state = "INIT" \/ (state = "POOL" /\ tlast)

-----------------------------------------------------------------------------
(* The state machine, one action per state. *)
LeaveInit == state = "INIT" /\ state' = "START" /\ UNCHANGED col_cnt

LeaveStart == state = "START" /\ state' = "FIRST_LINE" /\ col_cnt' = 0

FirstLine(tvalid, tlast, M_tready) ==
  /\ state = "FIRST_LINE"
  /\ IF EndsFirstLine(tvalid, tlast, M_tready)
     THEN state' = "POOL" /\ col_cnt' = 0
     ELSE /\ state' = state
          /\ col_cnt' = IF fifo_wr(tvalid, tlast, M_tready) THEN col_cnt + 1 ELSE col_cnt

Pool(tvalid, tlast) ==
  /\ state = "POOL"
  /\ state' = IF tlast THEN "START" ELSE state
  /\ col_cnt' = IF Compares(tvalid) THEN (col_cnt + 1) % LAYER_WIDTH ELSE col_cnt

Toggles(tvalid) == state = "POOL" /\ (IF tvalid THEN ~output_en ELSE output_en)

PoolStep(tvalid, tlast, tdata, M_tready) ==
  /\ \/ LeaveInit
     \/ LeaveStart
     \/ FirstLine(tvalid, tlast, M_tready)
     \/ Pool(tvalid, tlast)
  /\ output_en' = Toggles(tvalid)
  /\ ready_latched' = M_tready
  /\ fifo_out_latched' = IF tvalid THEN Data_o ELSE fifo_out_latched
  /\ input_latched' = IF fifo_rd(tvalid, tlast, M_tready) THEN tdata ELSE input_latched
  /\ PoolFifo!FifoStep(fifo_srst(tlast), fifo_rd(tvalid, tlast, M_tready),
                       fifo_wr(tvalid, tlast, M_tready), tdata)
=============================================================================
