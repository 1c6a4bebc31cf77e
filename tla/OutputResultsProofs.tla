------------------------- MODULE OutputResultsProofs -------------------------
(***************************************************************************)
(* Theorems about what leaves the output side, for every size of the       *)
(* layers: the sums of the dense layers are complete, results come in      *)
(* order, and a sink that stays ready receives them whole.                 *)
(*                                                                         *)
(* Up to three images are on the path at a time: one handed over or        *)
(* waiting for it, one in the dense layers, and pixels of the next one.    *)
(* The invariant tells for each part of the state which one it belongs to. *)
(***************************************************************************)
EXTENDS OutputPathProofs

NextImage(image) == (image + 1) % Images

(* The image in the dense layers: the first one that is not handed over.   *)
Working == IF do_output \/ l3_m_tvalid THEN NextImage(results) ELSE results

(* The image the next value of the serializer belongs to.                  *)
Incoming ==
  IF state \in {"ST_WAIT_L1", "ST_INPUT_L2", "ST_WAIT_L2", "ST_OUTPUT"}
  THEN NextImage(Working) ELSE Working

-----------------------------------------------------------------------------
(***************************************************************************)
(* Pooling and serializer.                                                 *)
(***************************************************************************)
PixelNumber(image, pixel) == (image * Pixels + pixel) % (Images * Pixels)

(* pixel is the one whose channels the serializer sends, or the next one.  *)
AtPixel(pixel) ==
  /\ Underway = pixel * INPUT_CHANNELS + output_counter
  /\ l3_s_tvalid => l3_s_tdata = PixelNumber(Incoming, pixel)
  /\ serialize => Data_i_reg = PixelNumber(Incoming, pixel)
  /\ next_pixel = PixelNumber(Incoming, IF l3_s_tvalid \/ serialize THEN pixel + 1 ELSE pixel)

StreamInv ==
  /\ \E pixel \in 0 .. Pixels : AtPixel(pixel)
  /\ serializer_valid => serializer_data = Layer1Sum(Incoming)[data_cnt_L1 + 1][1]

-----------------------------------------------------------------------------
(***************************************************************************)
(* The dense layers: the sums of the first k inputs.                       *)
(***************************************************************************)
Part1(image, k) == [i \in 1 .. k |-> Layer1Sum(image)[i]]
Part2(image, k) == [i \in 1 .. k |-> Layer2Sum(image)[i]]

Layer1Inv ==
  /\ state = "ST_IDLE" => L1_state = "ST_IDLE" /\ L1_accumulated = << >> /\ L1_counter = 0 /\ L1_weights = 0
  /\ state = "ST_INPUT_L1" =>
       /\ L1_state = "ST_CALCULATING"
       /\ L1_counter = data_cnt_L1 /\ L1_weights = data_cnt_L1
       /\ L1_accumulated = Part1(Working, data_cnt_L1)
  /\ state = "ST_WAIT_L1" => L1_state \in {"ST_WAIT_CALCULATION", "ST_WRITE_DATA"}
  /\ state = "ST_INPUT_L2" => L1_state = "ST_WRITE_DATA"
  /\ state = "ST_WAIT_L2" => L1_state \in {"ST_WRITE_DATA", "ST_IDLE"}
  /\ state = "ST_OUTPUT" => L1_state = "ST_IDLE"
  /\ state = "ST_END" => L1_state = "ST_IDLE" /\ L1_accumulated = << >>
  /\ L1_state \in {"ST_WAIT_CALCULATION", "ST_WRITE_DATA"} => L1_accumulated = Layer1Sum(Working)

Layer2Inv ==
  /\ state = "ST_IDLE" => L2_state = "ST_IDLE"
  /\ state \in {"ST_INPUT_L1", "ST_WAIT_L1"} \/ (state = "ST_INPUT_L2" /\ data_cnt_L2 = 0) =>
       L2_state = "ST_IDLE" /\ L2_accumulated = << >> /\ L2_counter = 0 /\ L2_weights = 0
  /\ state = "ST_INPUT_L2" =>
       /\ data_cnt_L2 \in 0 .. OUTPUT_COUNT_L1 - 1
       /\ data_cnt_L2 > 0 =>
            /\ L2_state = "ST_CALCULATING"
            /\ L2_counter = data_cnt_L2 /\ L2_weights = data_cnt_L2
            /\ L2_accumulated = Part2(Working, data_cnt_L2)
  /\ state = "ST_WAIT_L2" =>
       /\ L2_state \in {"ST_WAIT_CALCULATION", "ST_WRITE_DATA"}
       /\ L2_accumulated = Layer2Sum(Working)
  /\ state = "ST_OUTPUT" =>
       /\ L2_state = "ST_WRITE_DATA"
       /\ L2_accumulated = Layer2Sum(Working)
  /\ state = "ST_END" =>
       /\ L2_state = "ST_WRITE_DATA"
       /\ L2_accumulated = Layer2Sum(results)

-----------------------------------------------------------------------------
(***************************************************************************)
(* The vector of results.                                                  *)
(***************************************************************************)
VectorInv ==
  /\ results \in 0 .. Images - 1
  /\ Data_o_reg = [j \in NN!Outputs |-> Data_o_reg[j]]
  /\ state # "ST_OUTPUT" => data_cnt_out = 0
  /\ state = "ST_OUTPUT" =>
       /\ ~do_output /\ ~l3_m_tvalid
       /\ data_cnt_out \in 0 .. OUTPUT_COUNT - 1
       /\ \A j \in 0 .. data_cnt_out - 1 : Data_o_reg[j] = NN!Neuron(Layer2Sum(Working), j)
  /\ state = "ST_END" => do_output
  /\ do_output => Data_o_reg = Result(results)
  /\ l3_m_tvalid => l3_m_tdata = Result(results)

(***************************************************************************)
(* The master, while the sink stays ready.                                 *)
(***************************************************************************)
Words(image, k) == [w \in 1 .. k |-> Axis!Word(Result(image), w - 1)]

Taken == (results - 1) % Images     \* the image whose result was taken last

SteadyInv ==
  steady =>
    /\ axis_state \in {"INIT", "START", "SEND_DATA"}
    /\ axis_state = "INIT" => ~Res_itrp_o
    /\ axis_state = "START" /\ Res_itrp_o =>
         Append(transferred, m00_axis_tdata) = Words(Taken, Axis!CYC_PER_OUTPUT)
    /\ axis_state = "SEND_DATA" =>
         /\ m00_axis_tvalid /\ ~Res_itrp_o
         /\ data_buf = Result(Taken)
         /\ transferred = Words(Taken, data_cnt - 1)
         /\ m00_axis_tdata = Axis!Word(data_buf, data_cnt - 1)

ImagesInv == StreamInv /\ Layer1Inv /\ Layer2Inv /\ VectorInv

-----------------------------------------------------------------------------
(* Arithmetic: quotient, remainder and the numbers of images and pixels.   *)
LEMMA Division ==
  ASSUME NEW n \in Nat \ {0}, NEW q \in Int, NEW c \in 0 .. n - 1
  PROVE  (q * n + c) \div n = q /\ (q * n + c) % n = c
OBVIOUS

LEMMA Remainder ==
  ASSUME NEW n \in Nat \ {0}, NEW x \in Nat
  PROVE  \E q \in Int, r \in 0 .. n - 1 : x = q * n + r /\ x % n = r
<1>1. x \div n \in Int /\ x % n \in 0 .. n - 1
  OBVIOUS
<1>2. x = n * (x \div n) + (x % n)
  OBVIOUS
<1> DEFINE q == x \div n
           r == x % n
<1>3. q \in Int /\ r \in 0 .. n - 1 /\ x = n * q + r /\ x % n = r
  BY <1>1, <1>2
<1> HIDE DEF q, r
<1>4. x = q * n + r
  BY <1>3
<1> QED
  BY <1>3, <1>4

LEMMA ModPlus ==
  ASSUME NEW n \in Nat \ {0}, NEW x \in Nat
  PROVE  ((x % n) + 1) % n = (x + 1) % n
<1>1. PICK q \in Int, r \in 0 .. n - 1 : x = q * n + r /\ x % n = r
  BY Remainder, Zenon
<1>2. (r + 1) % n = (x + 1) % n
  <2>1. CASE r + 1 < n
    <3>1. r + 1 \in 0 .. n - 1 /\ r + 1 = 0 * n + (r + 1) /\ x + 1 = q * n + (r + 1)
      BY <1>1, <2>1
    <3>2. (r + 1) % n = r + 1
      BY <3>1
    <3>3. (q * n + (r + 1)) % n = r + 1
      BY <3>1, Division, Zenon
    <3> QED BY <3>1, <3>2, <3>3, Zenon
  <2>2. CASE r + 1 = n
    <3>1. x + 1 = (q + 1) * n + 0 /\ q + 1 \in Int /\ 0 \in 0 .. n - 1
      BY <1>1, <2>2
    <3>2. ((q + 1) * n + 0) % n = 0
      BY <3>1, Division, Zenon
    <3>3. n % n = 0
      OBVIOUS
    <3> QED BY <2>2, <3>1, <3>2, <3>3, Zenon
  <2>3. r + 1 < n \/ r + 1 = n
    OBVIOUS
  <2> QED BY <2>1, <2>2, <2>3, Zenon
<1> QED BY <1>1, <1>2, Zenon

LEMMA ModOver ==
  ASSUME NEW n \in Nat \ {0}, NEW x \in Nat
  PROVE  (n + x) % n = x % n
<1>1. PICK q \in Int, r \in 0 .. n - 1 : x = q * n + r /\ x % n = r
  BY Remainder, Zenon
<1>2. n + x = (q + 1) * n + r /\ q + 1 \in Int
  BY <1>1
<1>3. ((q + 1) * n + r) % n = r
  BY <1>2, Division, Zenon
<1> QED BY <1>1, <1>2, <1>3, Zenon

LEMMA NextImages ==
  ASSUME NEW image \in 0 .. Images - 1
  PROVE  /\ NextImage(image) \in 0 .. Images - 1
         /\ NextImage(image) = IF image = Images - 1 THEN 0 ELSE image + 1
         /\ (NextImage(image) - 1) % Images = image
<1>1. CASE image = Images - 1
  BY <1>1, PathAssumption DEF NextImage
<1>2. CASE image # Images - 1
  BY <1>2, PathAssumption DEF NextImage
<1> QED BY <1>1, <1>2

LEMMA PixelNumbers ==
  ASSUME NEW image \in 0 .. Images - 1, NEW pixel \in Nat
  PROVE  /\ (PixelNumber(image, pixel) + 1) % (Images * Pixels) = PixelNumber(image, pixel + 1)
         /\ pixel < Pixels => PixelNumber(image, pixel) = image * Pixels + pixel
         /\ PixelNumber(image, Pixels + pixel) = PixelNumber(NextImage(image), pixel)
<1> DEFINE n == Images * Pixels
           x == image * Pixels + pixel
<1>1. n \in Nat \ {0} /\ x \in Nat /\ Pixels \in Nat \ {0} /\ Images \in Nat \ {0}
  BY PathAssumption
<1>2. ((x % n) + 1) % n = (x + 1) % n
  <2> HIDE DEF n, x
  <2> QED BY <1>1, ModPlus
<1>3. x + 1 = image * Pixels + (pixel + 1)
  BY <1>1
<1>4. ASSUME pixel < Pixels PROVE x % n = x
  <2>1. (Images - 1 - image) * Pixels >= 0 /\ n = (Images - 1 - image) * Pixels + image * Pixels + Pixels
    BY <1>1
  <2>2. x < n
    BY <1>1, <1>4, <2>1
  <2> HIDE DEF n, x
  <2> QED BY <1>1, <2>2
<1>5. PixelNumber(image, Pixels + pixel) = PixelNumber(NextImage(image), pixel)
  <2>1. CASE image = Images - 1
    <3>1. image * Pixels + (Pixels + pixel) = n + pixel
      BY <1>1, <2>1
    <3>2. NextImage(image) * Pixels + pixel = pixel
      BY <1>1, <2>1, NextImages
    <3>3. (n + pixel) % n = pixel % n
      <4> HIDE DEF n
      <4> QED BY <1>1, ModOver
    <3> QED BY <3>1, <3>2, <3>3 DEF PixelNumber
  <2>2. CASE image # Images - 1
    <3>1. image * Pixels + (Pixels + pixel) = NextImage(image) * Pixels + pixel
      BY <1>1, <2>2, NextImages
    <3> QED BY <3>1 DEF PixelNumber
  <2> QED BY <2>1, <2>2
<1> QED
  BY <1>2, <1>3, <1>4, <1>5 DEF PixelNumber

(* One product more. *)
LEMMA AppendPart ==
  ASSUME NEW k \in Nat, NEW f
  PROVE  Append([i \in 1 .. k |-> f[i]], f[k + 1]) = [i \in 1 .. k + 1 |-> f[i]]
OBVIOUS

-----------------------------------------------------------------------------
(***************************************************************************)
(* Images on the path.                                                     *)
(***************************************************************************)
LEMMA MachineStep ==
  ASSUME NEW offers, NEW tready, Tick(offers, tready)
  PROVE  /\ state' = NN!state_next(serializer_valid)
         /\ NN!Count(serializer_valid)
         /\ NN!Collect
         /\ NN!SetOutput(state' = "ST_END", l3_m_tready)
         /\ NN!FeedL1(serializer_valid, serializer_data)
         /\ NN!FeedL2
BY DEF Tick, NN!NetworkStep

(* The dense layers turn to the next image when their vector is full, the  *)
(* serializer when layer 1 has taken the last value.                       *)
LEMMA ImageClock ==
  ASSUME ValuesInv, ResultInv, VectorInv,
         NEW offers \in BOOLEAN, NEW tready \in BOOLEAN, Tick(offers, tready)
  PROVE  /\ results' \in 0 .. Images - 1
         /\ Working \in 0 .. Images - 1 /\ Incoming \in 0 .. Images - 1
         /\ state = "ST_OUTPUT" => results' = results /\ Working = results
         /\ Working' = IF state = "ST_OUTPUT" /\ state' = "ST_END" THEN NextImage(Working)
                                                                  ELSE Working
         /\ Incoming' = IF LastValue THEN NextImage(Incoming) ELSE Incoming
<1>1. /\ state' = NN!state_next(serializer_valid)
      /\ l3_m_tvalid' = (l3_m_tready /\ do_output)
      /\ do_output' = ((state' = "ST_END" \/ do_output) /\ ~(l3_m_tready /\ do_output))
  BY MachineStep DEF NN!SetOutput, NN!HoldsOutput
<1>2. /\ state \in {"ST_IDLE", "ST_INPUT_L1", "ST_WAIT_L1", "ST_INPUT_L2",
                   "ST_WAIT_L2", "ST_OUTPUT", "ST_END"}
      /\ serializer_valid => NN!TakesInput
      /\ serializer_valid \in BOOLEAN /\ do_output \in BOOLEAN /\ l3_m_tvalid \in BOOLEAN
      /\ l3_m_tvalid => ~do_output
      /\ results \in 0 .. Images - 1
      /\ state = "ST_OUTPUT" => ~do_output /\ ~l3_m_tvalid
  BY DEF ValuesInv, SerializerInv, NetworkInv, ResultInv, HandoverInv, VectorInv
<1>3. results' = IF l3_m_tvalid THEN NextImage(results) ELSE results
  BY DEF Tick, Observe, NextImage
<1>4. \A image \in 0 .. Images - 1 : NextImage(image) \in 0 .. Images - 1
  BY NextImages
<1>5. results' \in 0 .. Images - 1
  BY <1>2, <1>3, <1>4
<1>6. Working \in 0 .. Images - 1
  BY <1>2, <1>4 DEF Working
<1>7. Incoming \in 0 .. Images - 1
  BY <1>4, <1>6 DEF Incoming
<1>8. state' = "ST_END" => state = "ST_OUTPUT"
  BY <1>1, <1>2 DEF NN!state_next
<1>9. Working' = IF state = "ST_OUTPUT" /\ state' = "ST_END" THEN NextImage(Working) ELSE Working
  BY <1>1, <1>2, <1>3, <1>8 DEF Working
<1>10. Incoming' = IF LastValue THEN NextImage(Incoming) ELSE Incoming
  <2> DEFINE Ahead == {"ST_WAIT_L1", "ST_INPUT_L2", "ST_WAIT_L2", "ST_OUTPUT"}
  <2>1. CASE LastValue
    <3>1. state = "ST_INPUT_L1" /\ state' = "ST_WAIT_L1"
      BY <1>1, <2>1 DEF LastValue, NN!state_next
    <3> QED
      BY <1>9, <2>1, <3>1 DEF Incoming
  <2>2. CASE ~LastValue /\ state \in Ahead
    <3>1. state' \in Ahead \/ (state = "ST_OUTPUT" /\ state' = "ST_END")
      BY <1>1, <2>2 DEF NN!state_next
    <3> QED
      BY <1>9, <2>2, <3>1 DEF Incoming
  <2>3. CASE ~LastValue /\ state \notin Ahead
    <3>1. state' \notin Ahead
      BY <1>1, <1>2, <2>3 DEF LastValue, NN!state_next
    <3> QED
      BY <1>9, <2>3, <3>1 DEF Incoming
  <2> QED
    BY <2>1, <2>2, <2>3
<1> QED
  BY <1>2, <1>3, <1>5, <1>6, <1>7, <1>9, <1>10 DEF Working

LEMMA VectorKept ==
  ASSUME ValuesInv, ResultInv, VectorInv, Layer2Inv,
         NEW offers \in BOOLEAN, NEW tready \in BOOLEAN, Tick(offers, tready)
  PROVE  VectorInv'
<1>1. /\ state' = NN!state_next(serializer_valid)
      /\ l3_m_tvalid' = (l3_m_tready /\ do_output)
      /\ l3_m_tdata' = IF l3_m_tready /\ do_output THEN Data_o_reg ELSE NN!Blank
      /\ do_output' = ((state' = "ST_END" \/ do_output) /\ ~(l3_m_tready /\ do_output))
      /\ data_cnt_out' = CASE state = "ST_OUTPUT" -> (data_cnt_out + 1) % OUTPUT_COUNT
                           [] state = "ST_END" -> 0
                           [] OTHER -> data_cnt_out
      /\ Data_o_reg' = IF state = "ST_OUTPUT"
                       THEN [Data_o_reg EXCEPT ![data_cnt_out] = NN!Neuron(L2_accumulated, data_cnt_out)]
                       ELSE Data_o_reg
  BY MachineStep DEF NN!SetOutput, NN!HoldsOutput, NN!Count, NN!Collect
<1>2. /\ state \in {"ST_IDLE", "ST_INPUT_L1", "ST_WAIT_L1", "ST_INPUT_L2",
                   "ST_WAIT_L2", "ST_OUTPUT", "ST_END"}
      /\ do_output \in BOOLEAN /\ l3_m_tvalid \in BOOLEAN
      /\ l3_m_tvalid => ~do_output
      /\ OUTPUT_COUNT \in Nat \ {0}
  BY OutputsAssumption DEF ValuesInv, NetworkInv, ResultInv, HandoverInv
<1>3. /\ results' \in 0 .. Images - 1
      /\ state = "ST_OUTPUT" => results' = results /\ Working = results
      /\ Working' = IF state = "ST_OUTPUT" /\ state' = "ST_END" THEN NextImage(Working)
                                                               ELSE Working
  BY ImageClock
<1>4. l3_m_tvalid' => l3_m_tdata' = Data_o_reg /\ do_output
  BY <1>1
<1>5. do_output => results' = results
  BY <1>2 DEF Tick, Observe
<1>6. l3_m_tvalid' => l3_m_tdata' = Result(results')
  BY <1>4, <1>5 DEF VectorInv
<1>7. Data_o_reg' = [j \in NN!Outputs |-> Data_o_reg'[j]]
  BY <1>1, <1>2 DEF VectorInv, NN!Outputs
<1>8. CASE state = "ST_OUTPUT"
  <2>1. /\ ~do_output /\ ~l3_m_tvalid /\ data_cnt_out \in 0 .. OUTPUT_COUNT - 1
        /\ L2_accumulated = Layer2Sum(Working)
        /\ \A j \in 0 .. data_cnt_out - 1 : Data_o_reg[j] = NN!Neuron(Layer2Sum(Working), j)
    BY <1>8 DEF VectorInv, Layer2Inv
  <2>2. \A j \in 0 .. data_cnt_out : Data_o_reg'[j] = NN!Neuron(Layer2Sum(Working), j)
    <3> SUFFICES ASSUME NEW j \in 0 .. data_cnt_out
                 PROVE  Data_o_reg'[j] = NN!Neuron(Layer2Sum(Working), j)
      OBVIOUS
    <3>1. j \in NN!Outputs /\ Data_o_reg = [i \in NN!Outputs |-> Data_o_reg[i]]
      BY <1>2, <2>1 DEF NN!Outputs, VectorInv
    <3>2. Data_o_reg'[j] = IF j = data_cnt_out THEN NN!Neuron(L2_accumulated, data_cnt_out)
                                               ELSE Data_o_reg[j]
      BY <1>1, <1>8, <3>1
    <3> QED
      BY <2>1, <3>2
  <2>3. CASE data_cnt_out = OUTPUT_COUNT - 1
    <3>1. state' = "ST_END" /\ do_output' = TRUE /\ l3_m_tvalid' = FALSE
      BY <1>1, <1>8, <2>1, <2>3 DEF NN!state_next
    <3>2. data_cnt_out' = 0
      BY <1>1, <1>2, <1>8, <2>3
    <3>3. Data_o_reg' = Result(results')
      BY <1>3, <1>7, <1>8, <2>2, <2>3 DEF Result, NN!Outputs
    <3> QED
      BY <1>3, <1>7, <3>1, <3>2, <3>3 DEF VectorInv
  <2>4. CASE data_cnt_out # OUTPUT_COUNT - 1
    <3>1. state' = "ST_OUTPUT" /\ do_output' = FALSE /\ l3_m_tvalid' = FALSE
      BY <1>1, <1>8, <2>1, <2>4 DEF NN!state_next
    <3>2. data_cnt_out' = data_cnt_out + 1 /\ data_cnt_out' \in 0 .. OUTPUT_COUNT - 1
      BY <1>1, <1>2, <1>8, <2>1, <2>4
    <3>3. Working' = Working
      BY <1>3, <3>1
    <3>4. \A j \in 0 .. data_cnt_out' - 1 : Data_o_reg'[j] = NN!Neuron(Layer2Sum(Working'), j)
      BY <2>1, <2>2, <3>2, <3>3
    <3> QED
      BY <1>3, <1>7, <3>1, <3>2, <3>4 DEF VectorInv
  <2> QED
    BY <2>3, <2>4
<1>9. CASE state # "ST_OUTPUT"
  <2>1. data_cnt_out' = 0 /\ Data_o_reg' = Data_o_reg /\ state' # "ST_END"
    BY <1>1, <1>2, <1>9 DEF VectorInv, NN!state_next
  <2>2. do_output' => Data_o_reg' = Result(results')
    BY <1>1, <1>5, <2>1 DEF VectorInv
  <2>3. state' = "ST_OUTPUT" => ~do_output
    BY <1>1, <1>2, <1>9 DEF NN!state_next, NN!MayOutput
  <2>4. state' = "ST_OUTPUT" => /\ ~do_output' /\ ~l3_m_tvalid'
                                /\ data_cnt_out' \in 0 .. OUTPUT_COUNT - 1
                                /\ \A j \in 0 .. data_cnt_out' - 1 :
                                     Data_o_reg'[j] = NN!Neuron(Layer2Sum(Working'), j)
    BY <1>1, <1>2, <2>1, <2>3
  <2> QED
    BY <1>3, <1>6, <1>7, <2>1, <2>2, <2>4 DEF VectorInv
<1> QED
  BY <1>8, <1>9

-----------------------------------------------------------------------------
(***************************************************************************)
(* The dense layers. A sum grows by one product as long as the layer       *)
(* calculates; the data of a clock without a value is Zero.                *)
(***************************************************************************)
LEMMA Layer1Kept ==
  ASSUME ValuesInv, ResultInv, StreamInv, VectorInv, Layer1Inv,
         NEW offers \in BOOLEAN, NEW tready \in BOOLEAN, Tick(offers, tready)
  PROVE  Layer1Inv'
<1> DEFINE starts == state = "ST_IDLE" /\ serializer_valid
           data == IF serializer_valid THEN serializer_data ELSE Zero
<1>1. /\ state \in {"ST_IDLE", "ST_INPUT_L1", "ST_WAIT_L1", "ST_INPUT_L2",
                   "ST_WAIT_L2", "ST_OUTPUT", "ST_END"}
      /\ state = "ST_INPUT_L1" => data_cnt_L1 \in 1 .. INPUT_COUNT - 1
      /\ state # "ST_INPUT_L1" => data_cnt_L1 = 0
      /\ serializer_valid => state \in {"ST_IDLE", "ST_INPUT_L1"}
      /\ serializer_valid \in BOOLEAN
  BY DEF ValuesInv, NetworkInv, SerializerInv, NN!TakesInput
<1>2. /\ state' = NN!state_next(serializer_valid)
      /\ NN!L1!DenseStep(starts, serializer_valid, data, state = "ST_WAIT_L2")
  <2>1. (NN!TakesInput /\ serializer_valid) = serializer_valid
    BY <1>1 DEF NN!TakesInput
  <2> QED
    BY <2>1, MachineStep DEF NN!FeedL1
<1>3. /\ L1_state' = NN!L1!state_next(starts, serializer_valid, state = "ST_WAIT_L2")
      /\ L1_counter' = NN!L1!s_counter_next(starts, serializer_valid)
      /\ L1_weights' = NN!L1!s_counter_next(starts, serializer_valid)
      /\ L1_accumulated' =
           CASE L1_state = "ST_IDLE" /\ ~starts -> << >>
             [] NN!L1!Enables(starts, serializer_valid) /\ data # Zero ->
                  Append(L1_accumulated, << data, L1_weights >>)
             [] OTHER -> L1_accumulated
  BY <1>2 DEF NN!L1!DenseStep, NN!L1!Accumulate
<1>4. /\ Working' = IF state = "ST_OUTPUT" /\ state' = "ST_END" THEN NextImage(Working)
                                                               ELSE Working
      /\ Working \in 0 .. Images - 1
  BY ImageClock
<1>5. data_cnt_L1' = IF LastValue THEN 0 ELSE Underway
  BY ValueTaken
<1>6. ASSUME serializer_valid
      PROVE  /\ data # Zero
             /\ Append(Part1(Working, data_cnt_L1), << data, data_cnt_L1 >>)
                  = Part1(Working, data_cnt_L1 + 1)
  <2>1. Incoming = Working /\ data_cnt_L1 \in 0 .. INPUT_COUNT - 1
    BY <1>1, <1>6, Counts DEF Incoming
  <2>2. data_cnt_L1 + 1 \in 1 .. INPUT_COUNT /\ data_cnt_L1 \in Nat
    BY <2>1, Counts
  <2>3. data = Layer1Sum(Working)[data_cnt_L1 + 1][1]
    BY <1>6, <2>1 DEF StreamInv
  <2>4. data # Zero
    BY <1>4, <2>2, <2>3, ZeroAssumption
  <2>5. Layer1Sum(Working)[data_cnt_L1 + 1] = << data, data_cnt_L1 >>
    <3>1. (data_cnt_L1 + 1) - 1 = data_cnt_L1
      BY <2>2
    <3> QED
      BY <2>2, <2>3, <3>1 DEF Layer1Sum
  <2> HIDE DEF data
  <2>6. Append(Part1(Working, data_cnt_L1), Layer1Sum(Working)[data_cnt_L1 + 1])
          = Part1(Working, data_cnt_L1 + 1)
    BY <2>2, AppendPart DEF Part1
  <2> QED
    BY <2>4, <2>5, <2>6
<1>7. Part1(Working, INPUT_COUNT) = Layer1Sum(Working)
  BY DEF Part1, Layer1Sum
<1>8. ASSUME L1_state = "ST_IDLE", ~starts
      PROVE  L1_state' = "ST_IDLE" /\ L1_counter' = 0 /\ L1_weights' = 0 /\ L1_accumulated' = << >>
  <2> HIDE DEF starts, data
  <2>1. L1_state' = "ST_IDLE" /\ NN!L1!s_counter_next(starts, serializer_valid) = 0
    BY <1>3, <1>8 DEF NN!L1!state_next, NN!L1!Starts, NN!L1!s_counter_next
  <2>2. ~NN!L1!Enables(starts, serializer_valid)
    BY <1>8 DEF NN!L1!Enables, NN!L1!Starts
  <2> QED
    BY <1>3, <1>8, <2>1, <2>2
<1> HIDE DEF data
<1>9. CASE state = "ST_IDLE"
  <2>1. L1_state = "ST_IDLE" /\ L1_accumulated = << >> /\ L1_counter = 0 /\ L1_weights = 0 /\ data_cnt_L1 = 0
    BY <1>1, <1>9 DEF Layer1Inv
  <2>2. CASE serializer_valid
    <3>1. state' = "ST_INPUT_L1" /\ Working' = Working /\ data_cnt_L1' = 1
      BY <1>2, <1>4, <1>5, <1>9, <2>1, <2>2 DEF NN!state_next, LastValue, Underway
    <3>2. L1_state' = "ST_CALCULATING" /\ L1_counter' = 1 /\ L1_weights' = 1
      BY <1>3, <1>9, <2>1, <2>2 DEF NN!L1!state_next, NN!L1!Starts, NN!L1!s_counter_next
    <3>3. L1_accumulated' = Append(<< >>, << data, 0 >>)
      BY <1>3, <1>6, <1>9, <2>1, <2>2 DEF NN!L1!Enables, NN!L1!Starts
    <3>4. Part1(Working, 0) = << >>
      BY DEF Part1
    <3>5. L1_accumulated' = Part1(Working', data_cnt_L1')
      BY <1>6, <2>1, <2>2, <3>1, <3>3, <3>4
    <3> QED
      BY <3>1, <3>2, <3>5 DEF Layer1Inv
  <2>3. CASE ~serializer_valid
    <3>1. state' = "ST_IDLE"
      BY <1>2, <1>9, <2>3 DEF NN!state_next
    <3>2. L1_state' = "ST_IDLE" /\ L1_counter' = 0 /\ L1_weights' = 0 /\ L1_accumulated' = << >>
      BY <1>8, <2>1, <2>3
    <3> QED
      BY <3>1, <3>2 DEF Layer1Inv
  <2> QED
    BY <2>2, <2>3
<1>10. CASE state = "ST_INPUT_L1"
  <2>1. /\ L1_state = "ST_CALCULATING"
        /\ L1_counter = data_cnt_L1 /\ L1_weights = data_cnt_L1
        /\ L1_accumulated = Part1(Working, data_cnt_L1)
        /\ data_cnt_L1 \in 1 .. INPUT_COUNT - 1
    BY <1>1, <1>10 DEF Layer1Inv
  <2>2. Working' = Working
    BY <1>4, <1>10
  <2>3. CASE ~serializer_valid
    <3>1. state' = state /\ data_cnt_L1' = data_cnt_L1
      BY <1>2, <1>5, <1>10, <2>3 DEF NN!state_next, LastValue, Underway
    <3>2. /\ L1_state' = L1_state /\ L1_counter' = L1_counter /\ L1_weights' = L1_counter
          /\ L1_accumulated' = L1_accumulated
      BY <1>3, <1>10, <2>1, <2>3 DEF NN!L1!state_next, NN!L1!Starts, NN!L1!s_counter_next, data
    <3> QED
      BY <1>10, <2>1, <2>2, <3>1, <3>2 DEF Layer1Inv
  <2>4. ASSUME serializer_valid PROVE L1_accumulated' = Part1(Working, data_cnt_L1 + 1)
    BY <1>3, <1>6, <2>1, <2>4 DEF NN!L1!Enables
  <2>5. CASE serializer_valid /\ data_cnt_L1 # INPUT_COUNT - 1
    <3>1. state' = state /\ data_cnt_L1' = data_cnt_L1 + 1
      BY <1>2, <1>5, <1>10, <2>5 DEF NN!state_next, LastValue, Underway
    <3>2. L1_counter < INPUT_COUNT - 1
      BY <2>1, <2>5, Counts
    <3>3. /\ L1_state' = L1_state
          /\ L1_counter' = data_cnt_L1 + 1 /\ L1_weights' = data_cnt_L1 + 1
      BY <1>3, <1>10, <2>1, <2>5, <3>2
         DEF NN!L1!state_next, NN!L1!Starts, NN!L1!s_counter_next
    <3> QED
      BY <1>10, <2>1, <2>2, <2>4, <2>5, <3>1, <3>3 DEF Layer1Inv
  <2>6. CASE serializer_valid /\ data_cnt_L1 = INPUT_COUNT - 1
    <3>1. state' = "ST_WAIT_L1"
      BY <1>2, <1>10, <2>6 DEF NN!state_next
    <3>2. L1_state' = "ST_WAIT_CALCULATION"
      BY <1>3, <1>10, <2>1, <2>6 DEF NN!L1!state_next, NN!L1!Starts
    <3>3. L1_accumulated' = Layer1Sum(Working)
      BY <1>7, <2>4, <2>6, Counts
    <3> QED
      BY <2>2, <3>1, <3>2, <3>3 DEF Layer1Inv
  <2> QED
    BY <2>3, <2>5, <2>6
<1>11. CASE state = "ST_WAIT_L1"
  <2>1. /\ L1_state \in {"ST_WAIT_CALCULATION", "ST_WRITE_DATA"}
        /\ L1_accumulated = Layer1Sum(Working)
    BY <1>11 DEF Layer1Inv
  <2>2. Working' = Working /\ L1_accumulated' = L1_accumulated /\ L1_state' = "ST_WRITE_DATA"
    BY <1>3, <1>4, <1>11, <2>1 DEF NN!L1!state_next, NN!L1!Starts, NN!L1!Enables
  <2>3. state' \in {"ST_WAIT_L1", "ST_INPUT_L2"}
    BY <1>2, <1>11 DEF NN!state_next
  <2> QED
    BY <2>1, <2>2, <2>3 DEF Layer1Inv
<1>12. CASE state = "ST_INPUT_L2"
  <2>1. L1_state = "ST_WRITE_DATA" /\ L1_accumulated = Layer1Sum(Working)
    BY <1>12 DEF Layer1Inv
  <2>2. Working' = Working /\ L1_accumulated' = L1_accumulated /\ L1_state' = "ST_WRITE_DATA"
    BY <1>3, <1>4, <1>12, <2>1 DEF NN!L1!state_next, NN!L1!Starts, NN!L1!Enables
  <2>3. state' \in {"ST_INPUT_L2", "ST_WAIT_L2"}
    BY <1>2, <1>12 DEF NN!state_next
  <2> QED
    BY <2>1, <2>2, <2>3 DEF Layer1Inv
<1>13. CASE state = "ST_WAIT_L2"
  <2>1. L1_state \in {"ST_WRITE_DATA", "ST_IDLE"}
    BY <1>13 DEF Layer1Inv
  <2>2. L1_state' = "ST_IDLE"
    BY <1>3, <1>13, <2>1 DEF NN!L1!state_next, NN!L1!Starts
  <2>3. state' \in {"ST_WAIT_L2", "ST_OUTPUT"}
    BY <1>2, <1>13 DEF NN!state_next
  <2> QED
    BY <2>2, <2>3 DEF Layer1Inv
<1>14. CASE state \in {"ST_OUTPUT", "ST_END"}
  <2>1. L1_state = "ST_IDLE"
    BY <1>14 DEF Layer1Inv
  <2>2. L1_state' = "ST_IDLE" /\ L1_counter' = 0 /\ L1_weights' = 0 /\ L1_accumulated' = << >>
    BY <1>14, <1>8, <2>1
  <2>3. state' \in {"ST_OUTPUT", "ST_END", "ST_IDLE"}
    BY <1>2, <1>14 DEF NN!state_next
  <2> QED
    BY <2>2, <2>3 DEF Layer1Inv
<1> QED
  BY <1>1, <1>9, <1>10, <1>11, <1>12, <1>13, <1>14

LEMMA Layer2Kept ==
  ASSUME ValuesInv, ResultInv, VectorInv, Layer1Inv, Layer2Inv,
         NEW offers \in BOOLEAN, NEW tready \in BOOLEAN, Tick(offers, tready)
  PROVE  Layer2Inv'
<1> DEFINE feeds == state = "ST_INPUT_L2"
           starts == feeds /\ data_cnt_L2 = 0
           data == IF feeds THEN NN!Neuron(L1_accumulated, data_cnt_L2) ELSE Zero
<1>1. /\ state \in {"ST_IDLE", "ST_INPUT_L1", "ST_WAIT_L1", "ST_INPUT_L2",
                   "ST_WAIT_L2", "ST_OUTPUT", "ST_END"}
      /\ OUTPUT_COUNT_L1 \in Nat /\ OUTPUT_COUNT_L1 >= 2
  BY InputsAssumption DEF ValuesInv, NetworkInv
<1>2. /\ state' = NN!state_next(serializer_valid)
      /\ NN!L2!DenseStep(starts, feeds, data, state = "ST_END")
      /\ state = "ST_WAIT_L1" => data_cnt_L2' = 0
      /\ feeds => data_cnt_L2' = (data_cnt_L2 + 1) % OUTPUT_COUNT_L1
  BY MachineStep DEF NN!FeedL2, NN!Count
<1>3. /\ L2_state' = NN!L2!state_next(starts, feeds, state = "ST_END")
      /\ L2_counter' = NN!L2!s_counter_next(starts, feeds)
      /\ L2_weights' = NN!L2!s_counter_next(starts, feeds)
      /\ L2_accumulated' =
           CASE L2_state = "ST_IDLE" /\ ~starts -> << >>
             [] NN!L2!Enables(starts, feeds) /\ data # Zero ->
                  Append(L2_accumulated, << data, L2_weights >>)
             [] OTHER -> L2_accumulated
  BY <1>2 DEF NN!L2!DenseStep, NN!L2!Accumulate
<1>4. /\ Working' = IF state = "ST_OUTPUT" /\ state' = "ST_END" THEN NextImage(Working)
                                                               ELSE Working
      /\ state = "ST_OUTPUT" => results' = results /\ Working = results
      /\ Working \in 0 .. Images - 1
  BY ImageClock
<1>5. ASSUME feeds
      PROVE  /\ data # Zero /\ data_cnt_L2 \in 0 .. OUTPUT_COUNT_L1 - 1
             /\ Append(Part2(Working, data_cnt_L2), << data, data_cnt_L2 >>)
                  = Part2(Working, data_cnt_L2 + 1)
  <2>1. L1_accumulated = Layer1Sum(Working) /\ data_cnt_L2 \in 0 .. OUTPUT_COUNT_L1 - 1
    BY <1>5 DEF Layer1Inv, Layer2Inv
  <2>2. data = NN!Neuron(Layer1Sum(Working), data_cnt_L2)
    BY <1>5, <2>1
  <2>3. data # Zero
    BY <1>4, <2>1, <2>2, ZeroAssumption
  <2>4. Layer2Sum(Working)[data_cnt_L2 + 1] = << data, data_cnt_L2 >>
    <3>1. (data_cnt_L2 + 1) - 1 = data_cnt_L2 /\ data_cnt_L2 + 1 \in 1 .. OUTPUT_COUNT_L1
      BY <1>1, <2>1
    <3> QED
      BY <2>2, <3>1 DEF Layer2Sum
  <2> HIDE DEF data
  <2>5. Append(Part2(Working, data_cnt_L2), Layer2Sum(Working)[data_cnt_L2 + 1])
          = Part2(Working, data_cnt_L2 + 1)
    BY <2>1, AppendPart DEF Part2
  <2> QED
    BY <2>1, <2>3, <2>4, <2>5
<1>6. Part2(Working, OUTPUT_COUNT_L1) = Layer2Sum(Working) /\ Part2(Working, 0) = << >>
  BY DEF Part2, Layer2Sum
<1>7. ASSUME L2_state = "ST_IDLE", ~starts
      PROVE  L2_state' = "ST_IDLE" /\ L2_counter' = 0 /\ L2_weights' = 0 /\ L2_accumulated' = << >>
  <2> HIDE DEF starts, feeds, data
  <2>1. L2_state' = "ST_IDLE" /\ NN!L2!s_counter_next(starts, feeds) = 0
    BY <1>3, <1>7 DEF NN!L2!state_next, NN!L2!Starts, NN!L2!s_counter_next
  <2>2. ~NN!L2!Enables(starts, feeds)
    BY <1>7 DEF NN!L2!Enables, NN!L2!Starts
  <2> QED
    BY <1>3, <1>7, <2>1, <2>2
<1> HIDE DEF data
<1>8. CASE state \in {"ST_IDLE", "ST_INPUT_L1", "ST_WAIT_L1"}
  <2>1. L2_state = "ST_IDLE"
    BY <1>8 DEF Layer2Inv
  <2>2. L2_state' = "ST_IDLE" /\ L2_counter' = 0 /\ L2_weights' = 0 /\ L2_accumulated' = << >>
    BY <1>7, <1>8, <2>1
  <2>3. /\ state' \in {"ST_IDLE", "ST_INPUT_L1", "ST_WAIT_L1", "ST_INPUT_L2"}
        /\ state' = "ST_INPUT_L2" => data_cnt_L2' = 0
    BY <1>2, <1>8 DEF NN!state_next
  <2>4. 0 \in 0 .. OUTPUT_COUNT_L1 - 1
    BY <1>1
  <2> QED
    BY <2>2, <2>3, <2>4 DEF Layer2Inv
<1>9. CASE feeds
  <2>1. data_cnt_L2 \in 0 .. OUTPUT_COUNT_L1 - 1 /\ Working' = Working
    BY <1>4, <1>9 DEF Layer2Inv
  <2>2. CASE data_cnt_L2 = 0
    <3>1. L2_state = "ST_IDLE" /\ L2_accumulated = << >> /\ L2_counter = 0 /\ L2_weights = 0
      BY <1>9, <2>2 DEF Layer2Inv
    <3>2. data_cnt_L2' = 1
      BY <1>1, <1>2, <1>9, <2>2
    <3>3. state' = "ST_INPUT_L2"
      BY <1>1, <1>2, <1>9, <2>2 DEF NN!state_next
    <3>4. L2_state' = "ST_CALCULATING" /\ L2_counter' = 1 /\ L2_weights' = 1
      BY <1>3, <1>9, <2>2, <3>1 DEF NN!L2!state_next, NN!L2!Starts, NN!L2!s_counter_next
    <3>5. L2_accumulated' = Append(<< >>, << data, 0 >>)
      BY <1>3, <1>5, <1>9, <2>2, <3>1 DEF NN!L2!Enables, NN!L2!Starts
    <3>6. L2_accumulated' = Part2(Working', data_cnt_L2')
      BY <1>5, <1>6, <1>9, <2>1, <2>2, <3>2, <3>5
    <3>7. 1 \in 0 .. OUTPUT_COUNT_L1 - 1 /\ 1 > 0 /\ 1 # 0
      BY <1>1
    <3> QED
      BY <3>2, <3>3, <3>4, <3>6, <3>7 DEF Layer2Inv
  <2>3. ASSUME data_cnt_L2 # 0
        PROVE  /\ L2_state = "ST_CALCULATING"
               /\ L2_counter = data_cnt_L2 /\ L2_weights = data_cnt_L2
               /\ L2_accumulated' = Part2(Working, data_cnt_L2 + 1)
    <3>1. data_cnt_L2 > 0
      BY <2>1, <2>3
    <3>2. /\ L2_state = "ST_CALCULATING"
          /\ L2_counter = data_cnt_L2 /\ L2_weights = data_cnt_L2
          /\ L2_accumulated = Part2(Working, data_cnt_L2)
      BY <1>9, <3>1 DEF Layer2Inv
    <3> QED
      BY <1>3, <1>5, <1>9, <3>2 DEF NN!L2!Enables
  <2>4. CASE data_cnt_L2 # 0 /\ data_cnt_L2 # OUTPUT_COUNT_L1 - 1
    <3>1. state' = "ST_INPUT_L2"
      BY <1>2, <1>9, <2>4 DEF NN!state_next
    <3>2. /\ data_cnt_L2' = data_cnt_L2 + 1 /\ data_cnt_L2' # 0 /\ data_cnt_L2' > 0
          /\ data_cnt_L2' \in 0 .. OUTPUT_COUNT_L1 - 1
      BY <1>1, <1>2, <1>9, <2>1, <2>4
    <3>3. L2_counter < OUTPUT_COUNT_L1 - 1
      BY <1>1, <2>1, <2>3, <2>4
    <3>4. /\ L2_state' = "ST_CALCULATING"
          /\ L2_counter' = data_cnt_L2 + 1 /\ L2_weights' = data_cnt_L2 + 1
      BY <1>3, <1>9, <2>3, <2>4, <3>3 DEF NN!L2!state_next, NN!L2!Starts, NN!L2!s_counter_next
    <3> QED
      BY <2>1, <2>3, <2>4, <3>1, <3>2, <3>4 DEF Layer2Inv
  <2>5. CASE data_cnt_L2 # 0 /\ data_cnt_L2 = OUTPUT_COUNT_L1 - 1
    <3>1. state' = "ST_WAIT_L2"
      BY <1>2, <1>9, <2>5 DEF NN!state_next
    <3>2. L2_state' = "ST_WAIT_CALCULATION"
      BY <1>3, <1>9, <2>3, <2>5 DEF NN!L2!state_next, NN!L2!Starts
    <3>3. data_cnt_L2 + 1 = OUTPUT_COUNT_L1
      BY <1>1, <2>5
    <3>4. L2_accumulated' = Layer2Sum(Working')
      BY <1>6, <2>1, <2>3, <2>5, <3>3
    <3> QED
      BY <3>1, <3>2, <3>4 DEF Layer2Inv
  <2>6. data_cnt_L2 = 0 => data_cnt_L2 # OUTPUT_COUNT_L1 - 1
    BY <1>1
  <2> QED
    BY <2>2, <2>4, <2>5, <2>6
<1>10. CASE state = "ST_WAIT_L2"
  <2>1. /\ L2_state \in {"ST_WAIT_CALCULATION", "ST_WRITE_DATA"}
        /\ L2_accumulated = Layer2Sum(Working)
    BY <1>10 DEF Layer2Inv
  <2>2. Working' = Working /\ L2_accumulated' = L2_accumulated /\ L2_state' = "ST_WRITE_DATA"
    BY <1>3, <1>4, <1>10, <2>1 DEF NN!L2!state_next, NN!L2!Starts, NN!L2!Enables
  <2>3. state' \in {"ST_WAIT_L2", "ST_OUTPUT"}
    BY <1>2, <1>10 DEF NN!state_next
  <2> QED
    BY <2>1, <2>2, <2>3 DEF Layer2Inv
<1>11. CASE state = "ST_OUTPUT"
  <2>1. L2_state = "ST_WRITE_DATA" /\ L2_accumulated = Layer2Sum(Working)
    BY <1>11 DEF Layer2Inv
  <2>2. L2_accumulated' = L2_accumulated /\ L2_state' = "ST_WRITE_DATA"
    BY <1>3, <1>11, <2>1 DEF NN!L2!state_next, NN!L2!Starts, NN!L2!Enables
  <2>3. \/ state' = "ST_OUTPUT" /\ Working' = Working
        \/ state' = "ST_END" /\ results' = Working
    BY <1>2, <1>4, <1>11 DEF NN!state_next
  <2> QED
    BY <2>1, <2>2, <2>3 DEF Layer2Inv
<1>12. CASE state = "ST_END"
  <2>1. L2_state = "ST_WRITE_DATA"
    BY <1>12 DEF Layer2Inv
  <2>2. L2_state' = "ST_IDLE"
    BY <1>3, <1>12, <2>1 DEF NN!L2!state_next, NN!L2!Starts
  <2>3. state' = "ST_IDLE"
    BY <1>2, <1>12 DEF NN!state_next
  <2> QED
    BY <2>2, <2>3 DEF Layer2Inv
<1> QED
  BY <1>1, <1>8, <1>9, <1>10, <1>11, <1>12

-----------------------------------------------------------------------------
(***************************************************************************)
(* The stream of pixels.                                                   *)
(***************************************************************************)
LEMMA PixelsBelow ==
  ASSUME NEW pixel \in Nat, NEW c \in Nat, pixel * INPUT_CHANNELS + c < INPUT_COUNT
  PROVE  pixel < Pixels
<1>1. Pixels \in Nat /\ INPUT_CHANNELS \in Nat
  BY PathAssumption, ChannelsAssumption
<1>2. CASE pixel >= Pixels
  <2>1. (pixel - Pixels) * INPUT_CHANNELS >= 0
    BY <1>1, <1>2
  <2> QED
    BY <1>1, <2>1 DEF INPUT_COUNT
<1> QED
  BY <1>1, <1>2

LEMMA PixelsDone ==
  ASSUME NEW pixel \in Nat, pixel * INPUT_CHANNELS = INPUT_COUNT
  PROVE  pixel = Pixels
<1>1. (pixel - Pixels) * INPUT_CHANNELS = 0
  BY PathAssumption, ChannelsAssumption DEF INPUT_COUNT
<1> QED
  BY <1>1, PathAssumption, ChannelsAssumption

(* A value is sent only of an image that is not complete. *)
LEMMA SendsWithin ==
  ASSUME ValuesInv, NEW offers \in BOOLEAN, NEW tready \in BOOLEAN, Tick(offers, tready), Sends
  PROVE  ~LastValue /\ Underway \in 0 .. INPUT_COUNT - 1
<1>1. ~LastValue /\ state \in {"ST_IDLE", "ST_INPUT_L1"}
  BY ValueTaken DEF Sends, Ser!Sends, NN!TakesInput
<1>2. /\ state = "ST_INPUT_L1" => data_cnt_L1 \in 1 .. INPUT_COUNT - 1
      /\ state # "ST_INPUT_L1" => data_cnt_L1 = 0
  BY DEF ValuesInv, NetworkInv
<1> QED
  BY <1>1, <1>2, Counts DEF Underway, LastValue

(* Pooling and serializer after a clock, by the image of the clock before. *)
LEMMA PixelClock ==
  ASSUME ValuesInv, ResultInv, VectorInv, NEW pixel \in 0 .. Pixels, AtPixel(pixel),
         NEW offers \in BOOLEAN, NEW tready \in BOOLEAN, Tick(offers, tready)
  PROVE  \E after \in 0 .. Pixels :
           /\ (IF Sends THEN Underway + 1 ELSE Underway) = after * INPUT_CHANNELS + output_counter'
           /\ l3_s_tvalid' => l3_s_tdata' = PixelNumber(Incoming, after)
           /\ serialize' => Data_i_reg' = PixelNumber(Incoming, after)
           /\ next_pixel' = PixelNumber(Incoming, IF l3_s_tvalid' \/ serialize' THEN after + 1
                                                                                ELSE after)
<1>1. /\ output_counter' = IF Sends THEN (output_counter + 1) % INPUT_CHANNELS ELSE output_counter
      /\ serialize' = Ser!Serializes(l3_s_tvalid, NN!TakesInput)
      /\ Data_i_reg' = IF ~serialize /\ l3_s_tvalid THEN l3_s_tdata ELSE Data_i_reg
      /\ Pool(offers)
  BY DEF Tick, Ser!SerializerStep, Sends
<1>2. /\ l3_s_tvalid \in BOOLEAN /\ serialize \in BOOLEAN
      /\ l3_s_tvalid => ~serialize /\ ~l3_s_tready
      /\ serialize /\ l3_s_tready => pause # 0
      /\ output_counter \in 0 .. INPUT_CHANNELS - 1
      /\ output_counter # 0 => serialize
      /\ data_cnt_L1 \in Nat
  BY Counts DEF ValuesInv, PoolInv, SerializerInv, NetworkInv
<1>3. INPUT_CHANNELS \in Nat /\ INPUT_CHANNELS >= 2 /\ Pixels \in Nat /\ pixel \in Nat
  BY ChannelsAssumption, PathAssumption
<1>4. Sends <=> NN!TakesInput /\ (serialize \/ l3_s_tvalid)
  BY DEF Sends, Ser!Sends
<1>5. Underway = pixel * INPUT_CHANNELS + output_counter
  BY DEF AtPixel
<1>6. serialize \/ l3_s_tvalid => l3_s_tvalid' = FALSE /\ next_pixel' = next_pixel
  BY <1>1, <1>2 DEF Pool
<1>7. CASE serialize /\ Sends /\ output_counter = INPUT_CHANNELS - 1
  <2>1. output_counter' = 0 /\ serialize' = FALSE
    <3>1. (output_counter + 1) % INPUT_CHANNELS = 0
      BY <1>3, <1>7
    <3> QED
      BY <1>1, <1>4, <1>7, <3>1 DEF Ser!Serializes
  <2>2. Underway + 1 = (pixel + 1) * INPUT_CHANNELS + output_counter'
    BY <1>3, <1>5, <1>7, <2>1
  <2>3. pixel + 1 \in 0 .. Pixels
    <3>1. pixel < Pixels
      BY <1>2, <1>3, <1>5, <1>7, SendsWithin, PixelsBelow, Counts
    <3> QED
      BY <1>3, <3>1
  <2>4. next_pixel' = PixelNumber(Incoming, pixel + 1)
    BY <1>6, <1>7 DEF AtPixel
  <2> QED
    BY <1>6, <1>7, <2>1, <2>2, <2>3, <2>4
<1>8. CASE serialize /\ ~(Sends /\ output_counter = INPUT_CHANNELS - 1)
  <2>1. serialize' = TRUE /\ Data_i_reg' = Data_i_reg
    BY <1>1, <1>4, <1>8 DEF Ser!Serializes
  <2>2. Sends => output_counter' = output_counter + 1
    BY <1>1, <1>2, <1>3, <1>8
  <2>3. (IF Sends THEN Underway + 1 ELSE Underway) = pixel * INPUT_CHANNELS + output_counter'
    BY <1>1, <1>2, <1>3, <1>5, <2>2
  <2>4. /\ Data_i_reg' = PixelNumber(Incoming, pixel)
        /\ next_pixel' = PixelNumber(Incoming, pixel + 1)
    BY <1>6, <1>8, <2>1 DEF AtPixel
  <2> QED
    BY <1>6, <1>8, <2>1, <2>3, <2>4
<1>9. CASE ~serialize /\ l3_s_tvalid
  <2>1. serialize' = TRUE /\ Data_i_reg' = l3_s_tdata
    BY <1>1, <1>9 DEF Ser!Serializes
  <2>2. Sends => output_counter' = output_counter + 1
    BY <1>1, <1>2, <1>3, <1>9
  <2>3. (IF Sends THEN Underway + 1 ELSE Underway) = pixel * INPUT_CHANNELS + output_counter'
    BY <1>1, <1>2, <1>3, <1>5, <2>2
  <2>4. /\ Data_i_reg' = PixelNumber(Incoming, pixel)
        /\ next_pixel' = PixelNumber(Incoming, pixel + 1)
    BY <1>6, <1>9, <2>1 DEF AtPixel
  <2> QED
    BY <1>6, <1>9, <2>1, <2>3, <2>4
<1>10. CASE ~serialize /\ ~l3_s_tvalid
  <2>1. serialize' = FALSE /\ output_counter' = output_counter /\ ~Sends
    BY <1>1, <1>2, <1>4, <1>10 DEF Ser!Serializes
  <2>2. next_pixel = PixelNumber(Incoming, pixel)
    BY <1>10 DEF AtPixel
  <2>3. \/ l3_s_tvalid' = FALSE /\ next_pixel' = next_pixel
        \/ /\ l3_s_tvalid' = TRUE /\ l3_s_tdata' = next_pixel
           /\ next_pixel' = (next_pixel + 1) % (Images * Pixels)
    BY <1>1 DEF Pool
  <2>4. (PixelNumber(Incoming, pixel) + 1) % (Images * Pixels) = PixelNumber(Incoming, pixel + 1)
    BY <1>3, ImageClock, PixelNumbers
  <2> QED
    BY <1>5, <2>1, <2>2, <2>3, <2>4
<1> QED
  BY <1>2, <1>7, <1>8, <1>9, <1>10

LEMMA StreamKept ==
  ASSUME ValuesInv, ResultInv, VectorInv, StreamInv,
         NEW offers \in BOOLEAN, NEW tready \in BOOLEAN, Tick(offers, tready)
  PROVE  StreamInv'
<1>1. PICK pixel \in 0 .. Pixels : AtPixel(pixel)
  BY DEF StreamInv
<1>2. /\ serializer_valid' = Sends
      /\ Sends => serializer_data' = IF serialize THEN Ser!Channel(Data_i_reg, output_counter)
                                                  ELSE Ser!Channel(l3_s_tdata, 0)
  BY DEF Tick, Ser!SerializerStep, Sends
<1>3. /\ Incoming' = IF LastValue THEN NextImage(Incoming) ELSE Incoming
      /\ Incoming \in 0 .. Images - 1
  BY ImageClock
<1>4. /\ LastValue => output_counter = 0 /\ ~Sends /\ Underway = INPUT_COUNT
      /\ data_cnt_L1' = IF LastValue THEN 0 ELSE Underway
  BY ValueTaken
<1>5. Pixels \in Nat \ {0} /\ INPUT_CHANNELS \in Nat \ {0} /\ pixel \in Nat
  BY PathAssumption, ChannelsAssumption
<1>6. PICK after \in 0 .. Pixels :
        /\ (IF Sends THEN Underway + 1 ELSE Underway) = after * INPUT_CHANNELS + output_counter'
        /\ l3_s_tvalid' => l3_s_tdata' = PixelNumber(Incoming, after)
        /\ serialize' => Data_i_reg' = PixelNumber(Incoming, after)
        /\ next_pixel' = PixelNumber(Incoming, IF l3_s_tvalid' \/ serialize' THEN after + 1
                                                                             ELSE after)
  BY <1>1, PixelClock
<1>7. \E p \in 0 .. Pixels : AtPixel(p)'
  <2>1. CASE LastValue
    <3>1. /\ ~Sends /\ output_counter' = 0 /\ Underway' = 0
          /\ INPUT_COUNT = after * INPUT_CHANNELS + output_counter'
      BY <1>2, <1>4, <1>6, <2>1 DEF Underway, Tick, Ser!SerializerStep, Sends
    <3>2. after = Pixels
      BY <1>5, <3>1, PixelsDone
    <3>3. /\ PixelNumber(Incoming, after) = PixelNumber(Incoming', 0)
          /\ PixelNumber(Incoming, after + 1) = PixelNumber(Incoming', 1)
      <4>1. Pixels + 0 = after /\ Pixels + 1 = after + 1
        BY <1>5, <3>2
      <4> QED
        BY <1>3, <2>1, <4>1, PixelNumbers
    <3>4. Underway' = 0 * INPUT_CHANNELS + output_counter'
      BY <1>5, <3>1
    <3>5. AtPixel(0)'
      BY <1>6, <3>3, <3>4 DEF AtPixel
    <3> QED
      BY <1>5, <3>5
  <2>2. CASE ~LastValue
    <3>1. Underway' = (IF Sends THEN Underway + 1 ELSE Underway) /\ Incoming' = Incoming
      BY <1>2, <1>3, <1>4, <2>2 DEF Underway
    <3>2. AtPixel(after)'
      BY <1>6, <3>1 DEF AtPixel
    <3> QED
      BY <3>2
  <2> QED
    BY <2>1, <2>2
<1>8. ASSUME Sends
      PROVE  serializer_data' = Layer1Sum(Incoming')[data_cnt_L1' + 1][1]
  <2>1. ~LastValue /\ Underway \in 0 .. INPUT_COUNT - 1
    BY <1>8, SendsWithin
  <2>2. data_cnt_L1' = Underway /\ Incoming' = Incoming
    BY <1>3, <1>4, <2>1
  <2>3. /\ Underway = pixel * INPUT_CHANNELS + output_counter
        /\ output_counter \in 0 .. INPUT_CHANNELS - 1
        /\ output_counter # 0 => serialize
    BY <1>1 DEF AtPixel, ValuesInv, SerializerInv
  <2>4. pixel < Pixels
    BY <1>5, <2>1, <2>3, PixelsBelow, Counts
  <2>5. PixelNumber(Incoming, pixel) = Incoming * Pixels + pixel
    BY <1>3, <1>5, <2>4, PixelNumbers
  <2>6. Underway \div INPUT_CHANNELS = pixel /\ Underway % INPUT_CHANNELS = output_counter
    BY <1>5, <2>3, Division
  <2>7. serializer_data' = Ser!Channel(PixelNumber(Incoming, pixel), output_counter)
    BY <1>1, <1>2, <1>8, <2>3 DEF AtPixel, Sends, Ser!Sends
  <2>8. Underway + 1 \in 1 .. INPUT_COUNT /\ (Underway + 1) - 1 = Underway
    BY <2>1, Counts
  <2>9. Layer1Sum(Incoming)[Underway + 1][1]
          = Ser!Channel(Incoming * Pixels + pixel, output_counter)
    BY <2>6, <2>8 DEF Layer1Sum
  <2> QED
    BY <2>2, <2>5, <2>7, <2>9
<1> QED
  BY <1>2, <1>7, <1>8 DEF StreamInv

-----------------------------------------------------------------------------
(***************************************************************************)
(* The master. While the sink stays ready, the word on the bus is the one  *)
(* transferred in the same clock, and data_cnt the number of the next.     *)
(***************************************************************************)
LEMMA AppendWord ==
  ASSUME NEW image, NEW k \in Nat \ {0}
  PROVE  Append(Words(image, k - 1), Axis!Word(Result(image), k - 1)) = Words(image, k)
<1> DEFINE word(w) == Axis!Word(Result(image), w)
           f == [w \in 1 .. k |-> word(w - 1)]
<1>1. k - 1 \in Nat /\ (k - 1) + 1 = k /\ f[k] = word(k - 1)
  OBVIOUS
<1>2. [w \in 1 .. k - 1 |-> f[w]] = Words(image, k - 1) /\ [w \in 1 .. k |-> f[w]] = Words(image, k)
  BY DEF Words
<1> HIDE DEF f, word
<1>3. Append([w \in 1 .. k - 1 |-> f[w]], f[k]) = [w \in 1 .. k |-> f[w]]
  BY <1>1, AppendPart
<1> QED
  BY <1>1, <1>2, <1>3 DEF word

LEMMA SteadyKept ==
  ASSUME ResultInv, VectorInv, SteadyInv, NEW offers, NEW tready, Tick(offers, tready)
  PROVE  SteadyInv'
<1> DEFINE words == Axis!CYC_PER_OUTPUT
<1> SUFFICES ASSUME steady'
             PROVE  /\ axis_state' \in {"INIT", "START", "SEND_DATA"}
                    /\ axis_state' = "INIT" => ~Res_itrp_o'
                    /\ axis_state' = "START" /\ Res_itrp_o' =>
                         Append(transferred', m00_axis_tdata') = Words(Taken', words)
                    /\ axis_state' = "SEND_DATA" =>
                         /\ m00_axis_tvalid' /\ ~Res_itrp_o'
                         /\ data_buf' = Result(Taken')
                         /\ transferred' = Words(Taken', data_cnt' - 1)
                         /\ m00_axis_tdata' = Axis!Word(data_buf', data_cnt' - 1)
  BY DEF SteadyInv, Axis!CYC_PER_OUTPUT
<1>1. /\ Axis!MasterStep(l3_m_tvalid, l3_m_tdata, l3_m_tvalid, m00_axis_tready)
      /\ results' = IF l3_m_tvalid THEN NextImage(results) ELSE results
      /\ transferred' = IF l3_m_tvalid THEN << >>
                        ELSE IF Transfers /\ Len(transferred) <= words
                             THEN Append(transferred, m00_axis_tdata)
                             ELSE transferred
      /\ (l3_m_tvalid \/ steady) /\ m00_axis_tready
  BY DEF Tick, Observe, NextImage
<1>2. /\ l3_m_tvalid \in BOOLEAN /\ Res_itrp_o \in BOOLEAN
      /\ l3_m_tvalid => axis_state = "START"
      /\ axis_state \in {"INIT", "START", "SEND_DATA", "WAIT_FOR_READY"}
      /\ axis_state = "START" => data_cnt = 0
      /\ axis_state = "SEND_DATA" => WordsLeft
  BY DEF ResultInv, HandoverInv, MasterInv, Announced, ToAnnounce
<1>3. words \in Nat \ {0}
  BY WordCount
<1> HIDE DEF words
<1>4. CASE Axis!LeaveInit
  <2>1. axis_state = "INIT" /\ axis_state' = "START" /\ Res_itrp_o' = Res_itrp_o /\ ~l3_m_tvalid
    BY <1>2, <1>4 DEF Axis!LeaveInit
  <2>2. ~Res_itrp_o
    BY <1>1, <2>1 DEF SteadyInv
  <2> QED
    BY <2>1, <2>2
<1>5. CASE Axis!StartIdle(l3_m_tvalid)
  BY <1>5 DEF Axis!StartIdle
<1>6. CASE Axis!StartVector(l3_m_tvalid, l3_m_tdata, l3_m_tvalid, m00_axis_tready)
  <2>1. l3_m_tvalid /\ transferred' = << >> /\ data_cnt = 0
    BY <1>1, <1>2, <1>6 DEF Axis!StartVector
  <2>2. Taken' = results /\ l3_m_tdata = Result(results)
    BY <1>1, <2>1, NextImages DEF Taken, VectorInv
  <2>3. /\ data_buf' = Result(Taken')
        /\ m00_axis_tvalid' = TRUE
        /\ m00_axis_tdata' = Axis!Word(Result(Taken'), 0)
    BY <1>6, <2>2 DEF Axis!StartVector
  <2>4. CASE words = 1
    <3>1. axis_state' = "START"
      BY <1>1, <1>6, <2>1, <2>4 DEF Axis!StartVector, words
    <3>2. Words(Taken', 0) = << >> /\ 1 - 1 = 0 /\ 1 \in Nat \ {0}
      BY DEF Words
    <3>3. Append(transferred', m00_axis_tdata') = Words(Taken', words)
      BY <2>1, <2>3, <2>4, <3>2, AppendWord
    <3> QED
      BY <3>1, <3>3
  <2>5. CASE words # 1
    <3>1. data_cnt # words - 1
      BY <1>3, <2>1, <2>5
    <3>2. axis_state' = "SEND_DATA" /\ ~Res_itrp_o'
      BY <1>1, <1>6, <2>1, <3>1 DEF Axis!StartVector, words
    <3>3. data_cnt' = 1
      <4>1. data_cnt' = Axis!FirstCount(data_cnt = words - 1)
        BY <1>6, <2>1 DEF Axis!StartVector, words
      <4>2. Axis!FirstCount(data_cnt = words - 1) = data_cnt + 1
        BY <3>1 DEF Axis!FirstCount
      <4> QED
        BY <2>1, <4>1, <4>2
    <3>4. data_cnt' - 1 = 0 /\ Words(Taken', 0) = << >>
      BY <3>3 DEF Words
    <3> QED
      BY <2>1, <2>3, <3>2, <3>3, <3>4
  <2> QED
    BY <2>4, <2>5
<1>7. CASE Axis!SendData(m00_axis_tready)
  <2>1. axis_state = "SEND_DATA" /\ ~l3_m_tvalid /\ steady
    BY <1>1, <1>2, <1>7 DEF Axis!SendData
  <2>2. /\ m00_axis_tvalid /\ ~Res_itrp_o
        /\ data_buf = Result(Taken)
        /\ transferred = Words(Taken, data_cnt - 1)
        /\ m00_axis_tdata = Axis!Word(Result(Taken), data_cnt - 1)
    BY <2>1 DEF SteadyInv
  <2>3. data_cnt \in 1 .. words - 1 /\ last_buf = TRUE
    BY <1>2, <2>1 DEF WordsLeft, words
  <2>4. Taken' = Taken
    BY <1>1, <2>1 DEF Taken
  <2>5. Len(transferred) <= words
    <3>1. Len(Words(Taken, data_cnt - 1)) = data_cnt - 1
      BY <1>3, <2>3 DEF Words
    <3> QED
      BY <1>3, <2>2, <2>3, <3>1
  <2>6. transferred' = Words(Taken, data_cnt)
    <3>1. transferred' = Append(transferred, m00_axis_tdata)
      BY <1>1, <2>1, <2>2, <2>5 DEF Transfers
    <3> QED
      BY <1>3, <2>2, <2>3, <3>1, AppendWord
  <2>7. /\ m00_axis_tvalid' = TRUE /\ data_buf' = data_buf
        /\ m00_axis_tdata' = Axis!Word(Result(Taken), data_cnt)
    BY <1>7, <2>2 DEF Axis!SendData
  <2>8. CASE data_cnt = words - 1
    <3>1. axis_state' = "START"
      BY <1>1, <1>7, <2>8 DEF Axis!SendData, words
    <3>2. Append(transferred', m00_axis_tdata') = Words(Taken', words)
      BY <1>3, <2>4, <2>6, <2>7, <2>8, AppendWord
    <3> QED
      BY <3>1, <3>2
  <2>9. CASE data_cnt # words - 1
    <3>1. /\ axis_state' = axis_state /\ data_cnt' = data_cnt + 1 /\ Res_itrp_o' = Res_itrp_o
      BY <1>1, <1>7, <2>9 DEF Axis!SendData, words
    <3>2. data_cnt' - 1 = data_cnt
      BY <2>3, <3>1
    <3> QED
      BY <2>1, <2>2, <2>4, <2>6, <2>7, <3>1, <3>2
  <2> QED
    BY <2>8, <2>9
<1>8. CASE Axis!WaitForReady(m00_axis_tready)
  <2>1. axis_state = "WAIT_FOR_READY"
    BY <1>8 DEF Axis!WaitForReady
  <2>2. axis_state # "WAIT_FOR_READY"
    BY <1>1, <1>2 DEF SteadyInv
  <2> QED
    BY <2>1, <2>2
<1> QED
  BY <1>1, <1>4, <1>5, <1>6, <1>7, <1>8 DEF Axis!MasterStep

-----------------------------------------------------------------------------
(***************************************************************************)
(* The theorems.                                                           *)
(***************************************************************************)
LEMMA ImagesInit == Init => ImagesInv /\ SteadyInv
<1> SUFFICES ASSUME Init PROVE ImagesInv /\ SteadyInv
  OBVIOUS
<1>1. /\ l3_s_tvalid = FALSE /\ next_pixel = 0 /\ serialize = FALSE /\ output_counter = 0
      /\ serializer_valid = FALSE
      /\ state = "ST_IDLE" /\ data_cnt_L1 = 0 /\ data_cnt_L2 = 0 /\ data_cnt_out = 0
      /\ do_output = FALSE /\ l3_m_tvalid = FALSE /\ Data_o_reg = NN!Blank
      /\ L1_state = "ST_IDLE" /\ L1_counter = 0 /\ L1_weights = 0 /\ L1_accumulated = << >>
      /\ L2_state = "ST_IDLE"
      /\ axis_state = "INIT" /\ Res_itrp_o = FALSE /\ results = 0
  BY DEF Init, Ser!SerializerInit, NN!NetworkInit, NN!L1!DenseInit, NN!L2!DenseInit,
         Axis!MasterInit
<1>2. Pixels \in Nat \ {0} /\ Images \in Nat \ {0} /\ INPUT_CHANNELS \in Nat
  BY PathAssumption, ChannelsAssumption
<1>3. StreamInv
  <2>1. Incoming = 0
    BY <1>1 DEF Incoming, Working
  <2>2. PixelNumber(0, 0) = 0
    <3>1. 0 \in 0 .. Images - 1 /\ 0 < Pixels /\ 0 * Pixels + 0 = 0
      BY <1>2
    <3> QED
      BY <3>1, PixelNumbers
  <2>3. Underway = 0 * INPUT_CHANNELS + output_counter
    BY <1>1, <1>2 DEF Underway
  <2>4. AtPixel(0)
    BY <1>1, <2>1, <2>2, <2>3 DEF AtPixel
  <2>5. 0 \in 0 .. Pixels
    BY <1>2
  <2> QED
    BY <1>1, <2>4, <2>5 DEF StreamInv
<1>4. Layer1Inv /\ Layer2Inv
  BY <1>1 DEF Layer1Inv, Layer2Inv
<1>5. VectorInv
  <2>1. NN!Blank = [j \in NN!Outputs |-> NN!Blank[j]]
    BY DEF NN!Blank
  <2> QED
    BY <1>1, <1>2, <2>1 DEF VectorInv
<1>6. SteadyInv
  BY <1>1 DEF SteadyInv
<1> QED
  BY <1>3, <1>4, <1>5, <1>6 DEF ImagesInv

LEMMA ImagesNext ==
  ValuesInv /\ ResultInv /\ ImagesInv /\ SteadyInv /\ [Next]_vars => (ImagesInv /\ SteadyInv)'
<1> SUFFICES ASSUME ValuesInv, ResultInv, ImagesInv, SteadyInv, [Next]_vars
             PROVE  ImagesInv' /\ SteadyInv'
  OBVIOUS
<1>1. ASSUME NEW offers \in BOOLEAN, NEW tready \in BOOLEAN, Tick(offers, tready)
      PROVE  ImagesInv' /\ SteadyInv'
  BY <1>1, StreamKept, Layer1Kept, Layer2Kept, VectorKept, SteadyKept DEF ImagesInv
<1>2. CASE UNCHANGED vars
  <2>1. UNCHANGED << l3_s_tvalid, l3_s_tdata, next_pixel, serialize, output_counter, Data_i_reg,
                     serializer_valid, serializer_data, state, data_cnt_L1, data_cnt_L2,
                     data_cnt_out, Data_o_reg, do_output, l3_m_tvalid, l3_m_tdata >>
    BY <1>2 DEF vars, poolVars, Ser!serializerVars, NN!networkVars, NN!machineVars, NN!outputVars
  <2>2. UNCHANGED << L1_state, L1_counter, L1_weights, L1_accumulated,
                     L2_state, L2_counter, L2_weights, L2_accumulated >>
    BY <1>2 DEF vars, NN!networkVars, NN!L1!denseVars, NN!L2!denseVars
  <2>3. UNCHANGED << axis_state, data_cnt, data_buf, Res_itrp_o, m00_axis_tvalid, m00_axis_tdata,
                     results, transferred, steady >>
    BY <1>2 DEF vars, Axis!masterVars, historyVars
  <2>4. Working' = Working /\ Incoming' = Incoming /\ Underway' = Underway
    BY <2>1, <2>3 DEF Working, Incoming, Underway
  <2>5. StreamInv'
    BY <2>1, <2>4 DEF ImagesInv, StreamInv, AtPixel
  <2>6. Layer1Inv' /\ Layer2Inv'
    BY <2>1, <2>2, <2>3, <2>4 DEF ImagesInv, Layer1Inv, Layer2Inv
  <2>7. VectorInv'
    BY <2>1, <2>2, <2>3, <2>4 DEF ImagesInv, VectorInv
  <2>8. SteadyInv'
    BY <2>3 DEF SteadyInv, Taken, Axis!CYC_PER_OUTPUT
  <2> QED
    BY <2>5, <2>6, <2>7, <2>8 DEF ImagesInv
<1> QED
  BY <1>1, <1>2 DEF Next

PathInv == ValuesInv /\ ResultInv /\ ImagesInv /\ SteadyInv

LEMMA PathHolds == Spec => []PathInv
<1>1. Init => PathInv
  BY PathInit, ImagesInit DEF PathInv
<1>2. PathInv /\ [Next]_vars => PathInv'
  BY PathNext, ImagesNext DEF PathInv
<1> QED
  BY <1>1, <1>2, PTL DEF Spec

(***************************************************************************)
(* A finished layer holds the sum of all inputs of one image, each         *)
(* multiplied with its own weight, and nothing else (dense_layer.vhd).     *)
(***************************************************************************)
THEOREM LayersComputeOneImage == Spec => []SumsAreComplete
<1>1. PathInv => SumsAreComplete
  <2> SUFFICES ASSUME PathInv PROVE SumsAreComplete
    OBVIOUS
  <2>1. /\ state \in {"ST_IDLE", "ST_INPUT_L1", "ST_WAIT_L1", "ST_INPUT_L2",
                     "ST_WAIT_L2", "ST_OUTPUT", "ST_END"}
        /\ results \in 0 .. Images - 1 /\ Layer1Inv /\ Layer2Inv
    BY DEF PathInv, ValuesInv, NetworkInv, ImagesInv, VectorInv
  <2>2. Working \in 0 .. Images - 1
    BY <2>1, NextImages DEF Working
  <2>3. L1_state = "ST_WRITE_DATA" => L1_accumulated = Layer1Sum(Working)
    BY <2>1 DEF Layer1Inv
  <2>4. L2_state = "ST_WRITE_DATA" => \/ L2_accumulated = Layer2Sum(Working)
                                      \/ L2_accumulated = Layer2Sum(results)
    <3>1. CASE state = "ST_INPUT_L2"
      <4>1. data_cnt_L2 = 0 \/ data_cnt_L2 > 0
        BY <2>1, <3>1, InputsAssumption DEF Layer2Inv
      <4> QED
        BY <2>1, <3>1, <4>1 DEF Layer2Inv
    <3>2. CASE state # "ST_INPUT_L2"
      BY <2>1, <3>2 DEF Layer2Inv
    <3> QED
      BY <3>1, <3>2
  <2> QED
    BY <2>1, <2>2, <2>3, <2>4 DEF SumsAreComplete, NN!L1!Finished_o, NN!L2!Finished_o
<1> QED
  BY <1>1, PathHolds, PTL

(***************************************************************************)
(* The vectors handed to the master are the results of the images in       *)
(* order (NN.vhd:277): pixels of the next image in the layers do not       *)
(* disturb a vector that waits.                                            *)
(***************************************************************************)
THEOREM ResultsComeInOrder == Spec => []ResultsInOrder
<1>1. PathInv => ResultsInOrder
  BY DEF PathInv, ImagesInv, VectorInv, ResultsInOrder
<1> QED
  BY <1>1, PathHolds, PTL

(***************************************************************************)
(* A sink that stays ready from the clock in which the master takes a      *)
(* result receives its words in order and each once, up to tlast           *)
(* (AXI_steam_master.vhd).                                                 *)
(***************************************************************************)
THEOREM SteadySinkGetsResult == Spec => []SteadyTransfersAreExact
<1>1. PathInv => SteadyTransfersAreExact
  BY DEF PathInv, SteadyInv, SteadyTransfersAreExact, Words, Taken, Axis!CYC_PER_OUTPUT
<1> QED
  BY <1>1, PathHolds, PTL
=============================================================================
