---------------------------- MODULE NeuralNetwork ----------------------------
(***************************************************************************)
(* The two dense layers and the state machine between them (NN.vhd). The   *)
(* machine feeds layer 1 as values come in, then layer 2 with the sums of  *)
(* layer 1, collects the sums of layer 2 in Data_o_reg and hands the whole *)
(* vector to the AXI stream master. Cropping a sum to a byte is data: a    *)
(* value is << sum, neuron >>.                                             *)
(***************************************************************************)
EXTENDS Integers

CONSTANTS
  INPUT_COUNT_L1, INPUT_COUNT_L2, OUTPUT_COUNT_L2,
  Zero

VARIABLES
  state, data_cnt_L1, data_cnt_L2, data_cnt_out, Data_o_reg,
  do_output, Valid_o, Data_o,        \* Last_o equals Valid_o
  L1_state, L1_counter, L1_enable, L1_weights, L1_accumulated,
  L2_state, L2_counter, L2_enable, L2_weights, L2_accumulated

L1 == INSTANCE DenseLayer WITH
  INPUT_COUNT <- INPUT_COUNT_L1, state <- L1_state, s_counter <- L1_counter,
  s_enable_accumulation <- L1_enable, Weights_i <- L1_weights,
  s_accumulated <- L1_accumulated

L2 == INSTANCE DenseLayer WITH
  INPUT_COUNT <- INPUT_COUNT_L2, state <- L2_state, s_counter <- L2_counter,
  s_enable_accumulation <- L2_enable, Weights_i <- L2_weights,
  s_accumulated <- L2_accumulated

machineVars == << state, data_cnt_L1, data_cnt_L2, data_cnt_out, Data_o_reg >>
outputVars == << do_output, Valid_o, Data_o >>
networkVars == << machineVars, outputVars, L1!denseVars, L2!denseVars >>

Outputs == 0 .. OUTPUT_COUNT_L2 - 1
Blank == [j \in Outputs |-> Zero]

NetworkInit ==
  /\ state = "ST_IDLE"
  /\ data_cnt_L1 = 0 /\ data_cnt_L2 = 0 /\ data_cnt_out = 0
  /\ Data_o_reg = Blank
  /\ do_output = FALSE /\ Valid_o = FALSE /\ Data_o = Blank
  /\ L1!DenseInit /\ L2!DenseInit

-----------------------------------------------------------------------------
(* Mutant: a new vector does not wait until the last one is handed over. *)
MayOutputAlways == L2!Finished_o

MayOutput == L2!Finished_o /\ ~do_output

state_next(Valid_i) ==
  CASE state = "ST_IDLE" /\ Valid_i -> "ST_INPUT_L1"
    [] state = "ST_INPUT_L1" /\ Valid_i /\ data_cnt_L1 = INPUT_COUNT_L1 - 1 -> "ST_WAIT_L1"
    [] state = "ST_WAIT_L1" /\ L1!Finished_o -> "ST_INPUT_L2"
    [] state = "ST_INPUT_L2" /\ data_cnt_L2 = INPUT_COUNT_L2 - 1 -> "ST_WAIT_L2"
    [] state = "ST_WAIT_L2" /\ MayOutput -> "ST_OUTPUT"
    [] state = "ST_OUTPUT" /\ data_cnt_out = OUTPUT_COUNT_L2 - 1 -> "ST_END"
    [] state = "ST_END" -> "ST_IDLE"
    [] OTHER -> state

(* The combinational outputs of the state machine. *)
TakesInput == state \in {"ST_IDLE", "ST_INPUT_L1"}     \* Ready_o
Neuron(sum, j) == << sum, j >>

FeedL1(Valid_i, Data_i) ==
  L1!DenseStep(state = "ST_IDLE" /\ Valid_i,
               TakesInput /\ Valid_i,
               IF TakesInput /\ Valid_i THEN Data_i ELSE Zero,
               state = "ST_WAIT_L2")

FeedL2 ==
  L2!DenseStep(state = "ST_INPUT_L2" /\ data_cnt_L2 = 0,
               state = "ST_INPUT_L2",
               IF state = "ST_INPUT_L2" THEN Neuron(L1_accumulated, data_cnt_L2) ELSE Zero,
               state = "ST_END")

Count(Valid_i) ==
  /\ data_cnt_L1' = CASE state = "ST_IDLE" -> IF Valid_i THEN 1 ELSE 0
                      [] state = "ST_INPUT_L1" /\ Valid_i -> (data_cnt_L1 + 1) % INPUT_COUNT_L1
                      [] state = "ST_WAIT_L1" -> 0
                      [] OTHER -> data_cnt_L1
  /\ data_cnt_L2' = CASE state \in {"ST_WAIT_L1", "ST_WAIT_L2"} -> 0
                      [] state = "ST_INPUT_L2" -> (data_cnt_L2 + 1) % INPUT_COUNT_L2
                      [] OTHER -> data_cnt_L2
  /\ data_cnt_out' = CASE state = "ST_OUTPUT" -> (data_cnt_out + 1) % OUTPUT_COUNT_L2
                       [] state = "ST_END" -> 0
                       [] OTHER -> data_cnt_out

Collect ==
  Data_o_reg' = IF state = "ST_OUTPUT"
                THEN [Data_o_reg EXCEPT ![data_cnt_out] = Neuron(L2_accumulated, data_cnt_out)]
                ELSE Data_o_reg

(* do_output in the next clock. *)
HoldsOutput(ends, Ready_i) == (ends \/ do_output) /\ ~(Ready_i /\ do_output)

SetOutput(ends, Ready_i) ==
  /\ Valid_o' = (Ready_i /\ do_output)
  /\ Data_o' = IF Ready_i /\ do_output THEN Data_o_reg ELSE Blank
  /\ do_output' = HoldsOutput(ends, Ready_i)

NetworkStep(Valid_i, Data_i, Ready_i) ==
  /\ state' = state_next(Valid_i)
  /\ Count(Valid_i)
  /\ Collect
  /\ FeedL1(Valid_i, Data_i)
  /\ FeedL2
  /\ SetOutput(state_next(Valid_i) = "ST_END", Ready_i)
=============================================================================
