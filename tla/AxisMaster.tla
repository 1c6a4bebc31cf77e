----------------------------- MODULE AxisMaster -----------------------------
(***************************************************************************)
(* The AXI stream master (AXI_steam_master.vhd) cuts a result vector into  *)
(* words for the DMA. It drives the next word in a clock in which          *)
(* M_axis_tready_i is high; whether the word on the bus is the one         *)
(* transferred in that clock depends on the clocks before. M_axis_tkeep_o  *)
(* and the zeros behind the last outputs are left out.                     *)
(***************************************************************************)
EXTENDS Integers

CONSTANTS
  OUTPUT_NUMBER,
  OutputsPerWord,     (* C_M_axis_tdata_o_WIDTH / DATA_WIDTH              *)
  Zero

VARIABLES
  state, next_state, data_cnt, data_buf, last_buf,
  m_last,             (* M_axis_tlast_o and Interrupt                     *)
  M_axis_tvalid_o, M_axis_tdata_o, Layer_tready_o

masterVars == << state, next_state, data_cnt, data_buf, last_buf, m_last,
                 M_axis_tvalid_o, M_axis_tdata_o, Layer_tready_o >>

CYC_PER_OUTPUT == (OUTPUT_NUMBER - 1) \div OutputsPerWord + 1

(* A word of a vector of outputs. *)
WordOutputs(w) == {j \in w * OutputsPerWord .. (w + 1) * OutputsPerWord - 1 : j < OUTPUT_NUMBER}
Word(vector, w) == [j \in WordOutputs(w) |-> vector[j]]
NoWord == [j \in {} |-> Zero]

MasterInit ==
  /\ state = "INIT" /\ next_state = "START"
  /\ data_cnt = 0
  /\ data_buf = [j \in 0 .. OUTPUT_NUMBER - 1 |-> Zero] /\ last_buf = FALSE
  /\ m_last = FALSE /\ M_axis_tvalid_o = FALSE /\ M_axis_tdata_o = NoWord
  /\ Layer_tready_o = FALSE

-----------------------------------------------------------------------------
LeaveInit ==
  /\ state = "INIT"
  /\ state' = "START"
  /\ Layer_tready_o' = TRUE
  /\ M_axis_tvalid_o' = FALSE
  /\ M_axis_tdata_o' = NoWord
  /\ data_cnt' = 0
  /\ UNCHANGED << next_state, data_buf, last_buf, m_last >>

StartIdle(tvalid) ==
  /\ state = "START" /\ ~tvalid
  /\ m_last' = FALSE
  /\ M_axis_tvalid_o' = FALSE
  /\ Layer_tready_o' = TRUE
  /\ UNCHANGED << state, next_state, data_cnt, data_buf, last_buf, M_axis_tdata_o >>

(* Mutant: the first word does not count. *)
FirstCountNot(single) == 0

(* Mutant: ready stays high while a vector is driven. *)
ReadyAfterFirstAlways(single, tready) == TRUE

(* data_cnt and Layer_tready_o after the first word of a vector; single: it *)
(* is the only one.                                                        *)
FirstCount(single) == IF single THEN 0 ELSE data_cnt + 1
ReadyAfterFirst(single, tready) == single /\ tready

StartVector(tvalid, tdata, tlast, tready) ==
  /\ state = "START" /\ tvalid
  /\ data_buf' = tdata
  /\ last_buf' = tlast
  /\ M_axis_tvalid_o' = TRUE
  /\ M_axis_tdata_o' = Word(tdata, 0)
  /\ LET single == data_cnt = CYC_PER_OUTPUT - 1
         then   == IF single THEN "START" ELSE "SEND_DATA"
     IN  /\ m_last' = (single /\ tlast)
         /\ data_cnt' = FirstCount(single)
         /\ Layer_tready_o' = ReadyAfterFirst(single, tready)
         /\ IF tready THEN state' = then /\ UNCHANGED next_state
                      ELSE state' = "WAIT_FOR_READY" /\ next_state' = then

SendData(tready) ==
  /\ state = "SEND_DATA"
  /\ M_axis_tvalid_o' = TRUE
  /\ M_axis_tdata_o' = Word(data_buf, data_cnt)
  /\ m_last' = IF data_cnt = CYC_PER_OUTPUT - 1 THEN last_buf ELSE m_last
  /\ CASE ~tready -> UNCHANGED << state, data_cnt, Layer_tready_o >>
       [] tready /\ data_cnt = CYC_PER_OUTPUT - 1 ->
            state' = "START" /\ data_cnt' = 0 /\ Layer_tready_o' = TRUE
       [] OTHER -> data_cnt' = data_cnt + 1 /\ UNCHANGED << state, Layer_tready_o >>
  /\ UNCHANGED << next_state, data_buf, last_buf >>

WaitForReady(tready) ==
  /\ state = "WAIT_FOR_READY"
  /\ state' = IF tready THEN next_state ELSE state
  /\ Layer_tready_o' = ((tready /\ next_state = "START") \/ Layer_tready_o)
  /\ UNCHANGED << next_state, data_cnt, data_buf, last_buf, m_last,
                  M_axis_tvalid_o, M_axis_tdata_o >>

MasterStep(tvalid, tdata, tlast, tready) ==
  \/ LeaveInit
  \/ StartIdle(tvalid)
  \/ StartVector(tvalid, tdata, tlast, tready)
  \/ SendData(tready)
  \/ WaitForReady(tready)
=============================================================================
