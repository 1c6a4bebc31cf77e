----------------------------- MODULE DenseLayer -----------------------------
(***************************************************************************)
(* A dense layer (dense_layer.vhd): the state machine of its               *)
(* vectorMultiplier, the weight ROM and one accumulator. All accumulators  *)
(* of a layer are driven alike, each with weights of its own. A sum is the *)
(* sequence of its products << value, index of the weight >>; the empty    *)
(* one is the bias.                                                        *)
(***************************************************************************)
EXTENDS Integers, Sequences

CONSTANTS
  INPUT_COUNT,
  Zero                (* the value whose products do not change a sum     *)

VARIABLES
  state, s_counter,
  s_enable_accumulation,   (* a latch: not assigned in every path         *)
  Weights_i,               (* index of the weights at the ROM's output    *)
  s_accumulated

denseVars == << state, s_counter, s_enable_accumulation, Weights_i, s_accumulated >>

DenseInit ==
  /\ state = "ST_IDLE"
  /\ s_counter = 0
  /\ s_enable_accumulation = FALSE
  /\ Weights_i = 0
  /\ s_accumulated = << >>

-----------------------------------------------------------------------------
(* The combinational outputs of the state machine. *)
Starts(Start_i) == state = "ST_IDLE" /\ Start_i

Finished_o == state = "ST_WRITE_DATA"

Enables(Start_i, Valid_i) ==
  \/ Starts(Start_i) /\ Valid_i
  \/ state = "ST_CALCULATING" /\ (Valid_i \/ s_enable_accumulation)

(* Mutant: the counter starts with the second input. *)
s_counter_nextLate(Start_i, Valid_i) ==
  CASE state = "ST_IDLE" -> 0
    [] state = "ST_CALCULATING" /\ Valid_i /\ s_counter < INPUT_COUNT - 1 -> s_counter + 1
    [] OTHER -> s_counter

s_counter_next(Start_i, Valid_i) ==
  CASE state = "ST_IDLE" -> IF Start_i /\ Valid_i THEN s_counter + 1 ELSE 0
    [] state = "ST_CALCULATING" /\ Valid_i /\ s_counter < INPUT_COUNT - 1 -> s_counter + 1
    [] OTHER -> s_counter

state_next(Start_i, Valid_i, Reset_i) ==
  CASE Starts(Start_i) -> "ST_CALCULATING"
    [] state = "ST_CALCULATING" /\ Valid_i /\ s_counter = INPUT_COUNT - 1 -> "ST_WAIT_CALCULATION"
    [] state = "ST_WAIT_CALCULATION" -> "ST_WRITE_DATA"
    [] state = "ST_WRITE_DATA" /\ Reset_i -> "ST_IDLE"
    [] OTHER -> state

(* Mutant: the accumulators keep the last sum. *)
AccumulateOn(Start_i, Valid_i, Data_i) ==
  s_accumulated' = IF Enables(Start_i, Valid_i) /\ Data_i # Zero
                   THEN Append(s_accumulated, << Data_i, Weights_i >>)
                   ELSE s_accumulated

(* The accumulators are reset in every idle clock without a start. *)
Accumulate(Start_i, Valid_i, Data_i) ==
  s_accumulated' = CASE state = "ST_IDLE" /\ ~Start_i -> << >>
                     [] Enables(Start_i, Valid_i) /\ Data_i # Zero ->
                          Append(s_accumulated, << Data_i, Weights_i >>)
                     [] OTHER -> s_accumulated

DenseStep(Start_i, Valid_i, Data_i, Reset_i) ==
  /\ state' = state_next(Start_i, Valid_i, Reset_i)
  /\ s_counter' = s_counter_next(Start_i, Valid_i)
  /\ Weights_i' = s_counter_next(Start_i, Valid_i)
  /\ s_enable_accumulation' = Enables(Start_i, Valid_i)
  /\ Accumulate(Start_i, Valid_i, Data_i)
=============================================================================
