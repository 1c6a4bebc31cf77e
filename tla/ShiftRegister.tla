---------------------------- MODULE ShiftRegister ----------------------------
(***************************************************************************)
(* ShiftRegister_3x3 makes 3x3 windows from the columns a memory           *)
(* controller sends: it holds three columns and moves on by one column per *)
(* clock. A row is padded with a column of zeros on both sides, so the     *)
(* first column of a row (tnewrow) completes the last window of the row    *)
(* before and is kept in a buffer meanwhile.                               *)
(***************************************************************************)
CONSTANTS
  ZeroColumn,
  UndefinedColumn     (* the data registers have no reset                 *)

VARIABLES
  sr_state,
  data_buffer,        (* first column of the next row                     *)
  data,               (* data_1-3, data_4-6, data_7-9: left to right      *)
  M_tvalid, M_tlast,  (* M_tvalid_o, M_tlast_o                            *)
  S_tready            (* S_tready_o                                       *)

shiftVars == << sr_state, data_buffer, data, M_tvalid, M_tlast, S_tready >>

ShiftInit ==
  /\ sr_state = "INIT"
  /\ data_buffer = UndefinedColumn
  /\ data = << UndefinedColumn, UndefinedColumn, UndefinedColumn >>
  /\ M_tvalid = FALSE
  /\ M_tlast = FALSE
  /\ S_tready = TRUE

-----------------------------------------------------------------------------
(* Wait for the first column of an image. *)
FirstColumn(S_tvalid, S_data, S_tnewrow) ==
  /\ sr_state = "INIT"
  /\ S_tready' = TRUE
  /\ M_tlast' = FALSE
  /\ M_tvalid' = FALSE
  /\ IF S_tvalid /\ S_tnewrow
     THEN sr_state' = "NEW_LINE" /\ data_buffer' = S_data
     ELSE UNCHANGED << sr_state, data_buffer >>
  /\ UNCHANGED data

(* The second column of a row completes its first window. *)
NewLine(S_tvalid, S_data) ==
  /\ sr_state = "NEW_LINE"
  /\ S_tready' = TRUE
  /\ M_tlast' = FALSE
  /\ M_tvalid' = S_tvalid
  /\ IF S_tvalid
     THEN sr_state' = "RUN" /\ data' = << ZeroColumn, data_buffer, S_data >>
     ELSE UNCHANGED << sr_state, data >>
  /\ UNCHANGED data_buffer

(* Mutant: no padding on the right. *)
ShiftUnpadded(S_data, S_tnewrow, S_tlast) ==
  /\ data' = << data[2], data[3], S_data >>
  /\ M_tlast' = (M_tlast \/ S_tlast)
  /\ IF S_tnewrow
     THEN /\ data_buffer' = S_data
          /\ sr_state' = IF S_tlast THEN "INIT" ELSE "NEW_LINE"
     ELSE UNCHANGED << data_buffer, sr_state >>

(* The window moves on by one column. *)
Shift(S_data, S_tnewrow, S_tlast) ==
  /\ data' = << data[2], data[3], IF S_tnewrow THEN ZeroColumn ELSE S_data >>
  /\ M_tlast' = (M_tlast \/ S_tlast)
  /\ IF S_tnewrow
     THEN /\ data_buffer' = S_data
          /\ sr_state' = IF S_tlast THEN "INIT" ELSE "NEW_LINE"
     ELSE UNCHANGED << data_buffer, sr_state >>

(* S_tready_o follows M_tready_i a clock later; nothing here lowers
   M_tvalid_o. *)
Run(S_tvalid, S_data, S_tnewrow, S_tlast, M_tready) ==
  /\ sr_state = "RUN"
  /\ S_tready' = M_tready
  /\ M_tvalid' = (M_tvalid \/ S_tvalid)
  /\ IF S_tvalid /\ M_tready
     THEN Shift(S_data, S_tnewrow, S_tlast)
     ELSE UNCHANGED << sr_state, data_buffer, data, M_tlast >>

ShiftStep(S_tvalid, S_data, S_tnewrow, S_tlast, M_tready) ==
  \/ FirstColumn(S_tvalid, S_data, S_tnewrow)
  \/ NewLine(S_tvalid, S_data)
  \/ Run(S_tvalid, S_data, S_tnewrow, S_tlast, M_tready)
=============================================================================
