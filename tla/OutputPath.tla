----------------------------- MODULE OutputPath -----------------------------
(***************************************************************************)
(* The output side of the top level (EggNet_v1_0.vhd 716 - 768), from the  *)
(* pooled pixels of the second convolution to the DMA: serializer, dense   *)
(* layers and AXI stream master, all on one clock. Signals have the names  *)
(* of the top level.                                                       *)
(*                                                                         *)
(* Max pooling gives a pixel in a clock after one in which the serializer  *)
(* was ready, never in consecutive clocks (ConvPool). The sink may raise   *)
(* and lower its ready in every clock.                                     *)
(***************************************************************************)
EXTENDS Integers, Sequences

CONSTANTS
  INPUT_CHANNELS,
  Pixels,             (* pooled pixels of an image                        *)
  Images,             (* images have numbers modulo this                  *)
  OUTPUT_COUNT_L1, OUTPUT_COUNT,
  OutputsPerWord,
  Zero

ASSUME PathAssumption == Pixels \in Nat \ {0} /\ Images \in Nat \ {0}

(* The serializer sends a pixel with one channel twice: in the clock in    *)
(* which it comes in, and in the next one.                                 *)
ASSUME ChannelsAssumption == INPUT_CHANNELS \in Nat /\ INPUT_CHANNELS >= 2

(* A dense layer never counts a single input: it leaves ST_IDLE, and       *)
(* ST_CALCULATING waits for another one.                                   *)
ASSUME InputsAssumption == OUTPUT_COUNT_L1 \in Nat /\ OUTPUT_COUNT_L1 >= 2

ASSUME OutputsAssumption == OUTPUT_COUNT \in Nat \ {0} /\ OutputsPerWord \in Nat \ {0}

VARIABLES
  l3_s_tvalid, l3_s_tdata, next_pixel, pause,                  \* max pooling
  serialize, output_counter, Data_i_reg, l3_s_tready,          \* serializer
  serializer_valid, serializer_data,
  state, data_cnt_L1, data_cnt_L2, data_cnt_out, Data_o_reg,   \* dense layers
  do_output, l3_m_tvalid, l3_m_tdata,
  L1_state, L1_counter, L1_enable, L1_weights, L1_accumulated,
  L2_state, L2_counter, L2_enable, L2_weights, L2_accumulated,
  axis_state, axis_next_state, data_cnt, data_buf, last_buf,   \* master
  Res_itrp_o, m00_axis_tvalid, m00_axis_tdata, l3_m_tready,
  m00_axis_tready,                                             \* sink
  results,            (* history: images handed to the master             *)
  unannounced,        (* history: results since the last interrupt        *)
  transferred,        (* history: words the sink took since the last tlast *)
  steady              (* history: the sink was ready all the time since a *)
                      (* result was offered                               *)

INPUT_COUNT == Pixels * INPUT_CHANNELS

Ser == INSTANCE Serializer WITH
  s_Ready_o <- l3_s_tready, Valid_o <- serializer_valid, Data_o <- serializer_data
NN == INSTANCE NeuralNetwork WITH
  INPUT_COUNT_L1 <- INPUT_COUNT, INPUT_COUNT_L2 <- OUTPUT_COUNT_L1,
  OUTPUT_COUNT_L2 <- OUTPUT_COUNT, Valid_o <- l3_m_tvalid, Data_o <- l3_m_tdata
Axis == INSTANCE AxisMaster WITH
  OUTPUT_NUMBER <- OUTPUT_COUNT, state <- axis_state, next_state <- axis_next_state,
  m_last <- Res_itrp_o, M_axis_tvalid_o <- m00_axis_tvalid,
  M_axis_tdata_o <- m00_axis_tdata, Layer_tready_o <- l3_m_tready

poolVars == << l3_s_tvalid, l3_s_tdata, next_pixel, pause >>
historyVars == << results, unannounced, transferred, steady >>
vars == << poolVars, Ser!serializerVars, NN!networkVars, Axis!masterVars,
           m00_axis_tready, historyVars >>

Init ==
  /\ l3_s_tvalid = FALSE /\ l3_s_tdata = Zero /\ next_pixel = 0 /\ pause = 0
  /\ Ser!SerializerInit
  /\ NN!NetworkInit
  /\ Axis!MasterInit
  /\ m00_axis_tready \in BOOLEAN
  /\ results = 0 /\ unannounced = 0 /\ transferred = << >> /\ steady = TRUE

-----------------------------------------------------------------------------
(* After a pooled pixel pooling pauses for two clocks at least. *)
MinPause == 2

Pool(offers) ==
  IF offers /\ l3_s_tready /\ pause = 0
  THEN /\ l3_s_tvalid' = TRUE
       /\ l3_s_tdata' = next_pixel
       /\ next_pixel' = (next_pixel + 1) % (Images * Pixels)
       /\ pause' = MinPause
  ELSE /\ l3_s_tvalid' = FALSE
       /\ l3_s_tdata' = Zero
       /\ pause' = IF pause > 0 THEN pause - 1 ELSE 0
       /\ UNCHANGED next_pixel

Transfers == m00_axis_tvalid /\ m00_axis_tready

(* A packet begins when the master takes a result. The count of results    *)
(* without an interrupt stops one beyond what a correct run needs.         *)
Observe ==
  LET rises == Res_itrp_o' /\ ~Res_itrp_o
      taken == unannounced + (IF l3_m_tvalid THEN 1 ELSE 0)
  IN  /\ results' = IF l3_m_tvalid THEN (results + 1) % Images ELSE results
      /\ unannounced' = IF rises THEN taken - 1 ELSE IF taken > 2 THEN 2 ELSE taken
      /\ transferred' = IF l3_m_tvalid THEN << >>
                        ELSE IF Transfers /\ Len(transferred) <= Axis!CYC_PER_OUTPUT
                             THEN Append(transferred, m00_axis_tdata)
                             ELSE transferred
      /\ steady' = ((l3_m_tvalid \/ steady) /\ m00_axis_tready)

Tick(offers, tready) ==
  /\ Pool(offers)
  /\ Ser!SerializerStep(l3_s_tvalid, l3_s_tdata, NN!TakesInput)
  /\ NN!NetworkStep(serializer_valid, serializer_data, l3_m_tready)
  /\ Axis!MasterStep(l3_m_tvalid, l3_m_tdata, l3_m_tvalid, m00_axis_tready)
  /\ m00_axis_tready' = tready
  /\ Observe

Next == \E offers, tready \in BOOLEAN : Tick(offers, tready)

Spec == Init /\ [][Next]_vars

(* The clock never stops, again and again pooling gives a pixel while the  *)
(* serializer is ready, and again and again the sink is ready.             *)
Fairness ==
  /\ WF_vars(Next)
  /\ SF_vars(\E tready \in BOOLEAN : l3_s_tready /\ Tick(TRUE, tready))
  /\ SF_vars(\E offers \in BOOLEAN : Tick(offers, TRUE))

FairSpec == Spec /\ Fairness

-----------------------------------------------------------------------------
(* What the layers have to compute from an image. *)
Layer1Sum(image) ==
  [i \in 1 .. INPUT_COUNT |->
     << Ser!Channel(image * Pixels + (i - 1) \div INPUT_CHANNELS, (i - 1) % INPUT_CHANNELS),
        i - 1 >>]

Layer2Sum(image) ==
  [i \in 1 .. OUTPUT_COUNT_L1 |-> << NN!Neuron(Layer1Sum(image), i - 1), i - 1 >>]

Result(image) == [j \in 0 .. OUTPUT_COUNT - 1 |-> NN!Neuron(Layer2Sum(image), j)]

(* The data of an idle clock is none of the values of an image, so that a  *)
(* product left out, or one too many, can be told.                         *)
ASSUME ZeroAssumption ==
  \A image \in 0 .. Images - 1 :
    /\ \A i \in 1 .. INPUT_COUNT : Layer1Sum(image)[i][1] # Zero
    /\ \A j \in 0 .. OUTPUT_COUNT_L1 - 1 : NN!Neuron(Layer1Sum(image), j) # Zero

(***************************************************************************)
(* No stage of the path has a buffer for its input: a pooled pixel comes   *)
(* when the serializer is free, a value of the serializer when the dense   *)
(* layers take one, a result when the master waits for one.                *)
(***************************************************************************)
ValuesAreTaken ==
  /\ l3_s_tvalid => ~serialize
  /\ serializer_valid => NN!TakesInput
  /\ l3_m_tvalid => axis_state = "START"

(***************************************************************************)
(* A finished layer has multiplied every input of one image with its own   *)
(* weight, once, and nothing else has been added since the bias.           *)
(***************************************************************************)
SumsAreComplete ==
  /\ NN!L1!Finished_o => \E image \in 0 .. Images - 1 : L1_accumulated = Layer1Sum(image)
  /\ NN!L2!Finished_o => \E image \in 0 .. Images - 1 : L2_accumulated = Layer2Sum(image)

(***************************************************************************)
(* The vectors handed to the master are the results of the images in       *)
(* order, each once; no vector mixes two images, although the next image   *)
(* is computed while a vector waits for the master.                        *)
(***************************************************************************)
ResultsInOrder == l3_m_tvalid => l3_m_tdata = Result(results)

(***************************************************************************)
(* Whatever the sink does with its ready, each result raises one           *)
(* interrupt: the driver counts them to know how many images to fetch.     *)
(***************************************************************************)
OneInterruptPerResult ==
  /\ unannounced \in {0, 1}
  /\ axis_state = "START" => unannounced = 0

(***************************************************************************)
(* "A transfer takes place when both TVALID and TREADY are asserted": if   *)
(* the sink stays ready from the clock in which the master takes a result, *)
(* the words transferred up to tlast are those of the result, in order and *)
(* each once.                                                              *)
(***************************************************************************)
SteadyTransfersAreExact ==
  steady /\ Transfers /\ Res_itrp_o =>
    Append(transferred, m00_axis_tdata) =
      [w \in 1 .. Axis!CYC_PER_OUTPUT |-> Axis!Word(Result((results - 1) % Images), w - 1)]

(***************************************************************************)
(* Nobody waits forever: the result of every image is handed over.         *)
(***************************************************************************)
EveryImageHasAResult == \A image \in 0 .. Images - 1 : []<>(results = image)
=============================================================================
