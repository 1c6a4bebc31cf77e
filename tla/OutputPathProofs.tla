-------------------------- MODULE OutputPathProofs --------------------------
(***************************************************************************)
(* Theorems about the output side, for every size of the layers, whatever  *)
(* pooling offers and whatever the sink does with its ready: no stage      *)
(* loses its input, and each result raises one interrupt.                  *)
(***************************************************************************)
EXTENDS OutputPath, TLAPS

-----------------------------------------------------------------------------
(***************************************************************************)
(* Pooling and serializer. ready toggles, so that it is high again for a   *)
(* clock after a pixel has come: only the pause of pooling keeps a second  *)
(* pixel from coming then.                                                 *)
(***************************************************************************)
PoolInv ==
  /\ pause \in 0 .. MinPause
  /\ l3_s_tvalid \in BOOLEAN /\ l3_s_tready \in BOOLEAN /\ serialize \in BOOLEAN
  /\ l3_s_tvalid => ~serialize /\ ~l3_s_tready /\ pause = 2
  /\ serialize /\ l3_s_tready => pause = 1

LEMMA PoolInit == Init => PoolInv
<1> SUFFICES ASSUME Init PROVE PoolInv
  OBVIOUS
<1>1. pause = 0 /\ l3_s_tvalid = FALSE /\ l3_s_tready = FALSE /\ serialize = FALSE
  BY DEF Init, Ser!SerializerInit
<1>2. 0 \in 0 .. MinPause
  BY DEF MinPause
<1> QED
  BY <1>1, <1>2, Zenon DEF PoolInv

LEMMA PoolStep ==
  ASSUME PoolInv, NEW offers \in BOOLEAN, NEW tready \in BOOLEAN, Tick(offers, tready)
  PROVE  PoolInv'
<1>1. /\ Pool(offers)
      /\ l3_s_tready' = (~serialize /\ ~l3_s_tready)
      /\ serialize' = Ser!Serializes(l3_s_tvalid, NN!TakesInput)
  BY DEF Tick, Ser!SerializerStep
<1>2. l3_s_tready' \in BOOLEAN /\ serialize' \in BOOLEAN
  BY <1>1 DEF PoolInv, Ser!Serializes
<1>3. CASE offers /\ l3_s_tready /\ pause = 0
  <2>1. l3_s_tvalid' = TRUE /\ pause' = 2
    BY <1>1, <1>3 DEF Pool, MinPause
  <2>2. ~serialize
    BY <1>3 DEF PoolInv
  <2>3. ~l3_s_tvalid
    BY <1>3 DEF PoolInv
  <2>4. ~l3_s_tready' /\ ~serialize'
    BY <1>1, <1>3, <2>2, <2>3 DEF PoolInv, Ser!Serializes
  <2> QED
    BY <1>2, <2>1, <2>4 DEF PoolInv, MinPause
<1>4. CASE ~(offers /\ l3_s_tready /\ pause = 0)
  <2>1. l3_s_tvalid' = FALSE /\ pause' = IF pause > 0 THEN pause - 1 ELSE 0
    BY <1>1, <1>4 DEF Pool
  <2>2. l3_s_tready' => ~serialize
    BY <1>1
  <2>3. serialize' /\ l3_s_tready' => l3_s_tvalid
    BY <1>1, <2>2 DEF PoolInv, Ser!Serializes
  <2>4. serialize' /\ l3_s_tready' => pause' = 1
    BY <2>1, <2>3 DEF PoolInv
  <2>5. pause' \in 0 .. MinPause
    BY <2>1 DEF PoolInv, MinPause
  <2> QED
    BY <1>2, <2>1, <2>4, <2>5, Zenon DEF PoolInv
<1> QED
  BY <1>3, <1>4

-----------------------------------------------------------------------------
(***************************************************************************)
(* Serializer and dense layers. Of the values of an image, data_cnt_L1     *)
(* have been taken; the serializer is at a channel of the pixel the next   *)
(* one belongs to, so that the last value of an image is the last of a     *)
(* pixel, behind which nothing comes at once.                              *)
(***************************************************************************)
Underway == IF serializer_valid THEN data_cnt_L1 + 1 ELSE data_cnt_L1

SerializerInv ==
  /\ serializer_valid \in BOOLEAN
  /\ output_counter \in 0 .. INPUT_CHANNELS - 1
  /\ output_counter # 0 => serialize
  /\ serializer_valid /\ output_counter = 0 => ~serialize /\ ~l3_s_tvalid

NetworkInv ==
  /\ state \in {"ST_IDLE", "ST_INPUT_L1", "ST_WAIT_L1", "ST_INPUT_L2",
               "ST_WAIT_L2", "ST_OUTPUT", "ST_END"}
  /\ state = "ST_INPUT_L1" => data_cnt_L1 \in 1 .. INPUT_COUNT - 1
  /\ state # "ST_INPUT_L1" => data_cnt_L1 = 0
  /\ serializer_valid => NN!TakesInput
  /\ \E pixel \in Nat : Underway = pixel * INPUT_CHANNELS + output_counter

LEMMA Counts ==
  /\ INPUT_CHANNELS \in Nat /\ INPUT_CHANNELS >= 2
  /\ INPUT_COUNT \in Nat /\ INPUT_COUNT >= 2
BY PathAssumption, ChannelsAssumption, SMT DEF INPUT_COUNT

(* An image ends with the end of a pixel. *)
LEMMA LastChannel ==
  ASSUME NEW pixel \in Nat, NEW c \in 0 .. INPUT_CHANNELS - 1,
         INPUT_COUNT = pixel * INPUT_CHANNELS + c
  PROVE  c = 0
<1>1. Pixels \in Nat /\ INPUT_CHANNELS \in Nat
  BY PathAssumption, ChannelsAssumption
<1>2. (Pixels - pixel) * INPUT_CHANNELS = c
  BY <1>1 DEF INPUT_COUNT
<1>3. CASE Pixels - pixel >= 1
  BY <1>1, <1>2, <1>3
<1>4. CASE Pixels - pixel <= 0
  BY <1>1, <1>2, <1>4
<1> QED
  BY <1>1, <1>3, <1>4

(* The channel after c. *)
LEMMA NextChannel ==
  ASSUME NEW pixel \in Nat, NEW c \in 0 .. INPUT_CHANNELS - 1
  PROVE  /\ (c + 1) % INPUT_CHANNELS \in 0 .. INPUT_CHANNELS - 1
         /\ (c + 1) % INPUT_CHANNELS = 0 <=> c = INPUT_CHANNELS - 1
         /\ \E q \in Nat :
              pixel * INPUT_CHANNELS + c + 1 = q * INPUT_CHANNELS + ((c + 1) % INPUT_CHANNELS)
<1> DEFINE next == (c + 1) % INPUT_CHANNELS
<1>1. CASE c = INPUT_CHANNELS - 1
  <2>1. next = 0 /\ 0 \in 0 .. INPUT_CHANNELS - 1
    BY <1>1, Counts
  <2>2. pixel * INPUT_CHANNELS + c + 1 = (pixel + 1) * INPUT_CHANNELS + next
    BY <1>1, <2>1, Counts
  <2>3. pixel + 1 \in Nat
    OBVIOUS
  <2> HIDE DEF next
  <2>4. \E q \in Nat : pixel * INPUT_CHANNELS + c + 1 = q * INPUT_CHANNELS + next
    BY <2>2, <2>3
  <2>5. next \in 0 .. INPUT_CHANNELS - 1 /\ (next = 0 <=> c = INPUT_CHANNELS - 1)
    BY <1>1, <2>1
  <2> QED
    BY <2>4, <2>5, Zenon DEF next
<1>2. CASE c # INPUT_CHANNELS - 1
  <2>1. next = c + 1 /\ c + 1 \in 0 .. INPUT_CHANNELS - 1 /\ c + 1 # 0
    BY <1>2, Counts
  <2>2. pixel * INPUT_CHANNELS + c + 1 = pixel * INPUT_CHANNELS + next
    BY <2>1, Counts
  <2> HIDE DEF next
  <2>3. \E q \in Nat : pixel * INPUT_CHANNELS + c + 1 = q * INPUT_CHANNELS + next
    BY <2>2
  <2>4. next \in 0 .. INPUT_CHANNELS - 1 /\ (next = 0 <=> c = INPUT_CHANNELS - 1)
    BY <1>2, <2>1
  <2> QED
    BY <2>3, <2>4, Zenon DEF next
<1> QED
  BY <1>1, <1>2

ValuesInv == PoolInv /\ SerializerInv /\ NetworkInv

LEMMA ValuesInit == Init => ValuesInv
<1> SUFFICES ASSUME Init PROVE ValuesInv
  OBVIOUS
<1>1. /\ serializer_valid = FALSE /\ output_counter = 0
      /\ state = "ST_IDLE" /\ data_cnt_L1 = 0
  BY DEF Init, Ser!SerializerInit, NN!NetworkInit
<1>2. SerializerInv
  <2>1. 0 \in 0 .. INPUT_CHANNELS - 1
    BY Counts
  <2> QED
    BY <1>1, <2>1, Zenon DEF SerializerInv
<1>3. Underway = 0 * INPUT_CHANNELS + output_counter
  BY <1>1, Counts DEF Underway
<1>4. NetworkInv
  BY <1>1, <1>3 DEF NetworkInv
<1> QED
  BY <1>2, <1>4, PoolInit DEF ValuesInv

Sends == Ser!Sends(l3_s_tvalid, NN!TakesInput)

(* Behind the last value of a pixel nothing is sent at once. *)
LEMMA NothingBehindPixel ==
  ASSUME SerializerInv, serializer_valid, output_counter = 0
  PROVE  ~Sends
BY DEF SerializerInv, Sends, Ser!Sends

LEMMA SerializerKept ==
  ASSUME ValuesInv, NEW offers \in BOOLEAN, NEW tready \in BOOLEAN, Tick(offers, tready)
  PROVE  SerializerInv'
<1>1. /\ serializer_valid' = Sends
      /\ output_counter' = IF Sends THEN (output_counter + 1) % INPUT_CHANNELS ELSE output_counter
      /\ serialize' = Ser!Serializes(l3_s_tvalid, NN!TakesInput)
  BY DEF Tick, Ser!SerializerStep, Sends
<1>2. output_counter \in 0 .. INPUT_CHANNELS - 1
  BY DEF ValuesInv, SerializerInv
<1>3. /\ (output_counter + 1) % INPUT_CHANNELS \in 0 .. INPUT_CHANNELS - 1
      /\ (output_counter + 1) % INPUT_CHANNELS = 0 <=> output_counter = INPUT_CHANNELS - 1
  BY <1>2, NextChannel
<1>4. Sends <=> NN!TakesInput /\ (serialize \/ l3_s_tvalid)
  BY DEF Sends, Ser!Sends
<1>5. Sends \in BOOLEAN /\ NN!TakesInput \in BOOLEAN
  BY DEF Sends, Ser!Sends, NN!TakesInput
<1>6. l3_s_tvalid \in BOOLEAN /\ serialize \in BOOLEAN
  BY DEF ValuesInv, PoolInv
<1>7. output_counter # 0 => serialize
  BY DEF ValuesInv, SerializerInv
<1>8. l3_s_tvalid' => l3_s_tready /\ pause = 0
  BY DEF Tick, Pool
<1>9. serialize /\ l3_s_tready => pause # 0
  BY DEF ValuesInv, PoolInv
<1>10. CASE Sends
  <2>1. output_counter' = (output_counter + 1) % INPUT_CHANNELS /\ serializer_valid' = TRUE
    BY <1>1, <1>10
  <2>2. output_counter' # 0 => serialize'
    BY <1>1, <1>3, <1>4, <1>6, <1>10, <2>1 DEF Ser!Serializes
  <2>3. output_counter' = 0 => serialize
    BY <1>3, <1>7, <2>1, Counts
  <2>4. output_counter' = 0 => ~serialize'
    BY <1>1, <1>3, <1>4, <1>10, <2>1, <2>3 DEF Ser!Serializes
  <2>5. output_counter' = 0 => ~l3_s_tvalid'
    BY <1>8, <1>9, <2>3
  <2> QED
    BY <1>3, <2>1, <2>2, <2>4, <2>5 DEF SerializerInv
<1>11. CASE ~Sends
  <2>1. output_counter' = output_counter /\ serializer_valid' = FALSE
    BY <1>1, <1>5, <1>11
  <2>2. output_counter # 0 => serialize'
    BY <1>1, <1>4, <1>7, <1>11 DEF Ser!Serializes
  <2> QED
    BY <1>2, <2>1, <2>2 DEF SerializerInv
<1> QED
  BY <1>10, <1>11

LastValue == serializer_valid /\ state = "ST_INPUT_L1" /\ data_cnt_L1 = INPUT_COUNT - 1

(* The state and the count of values after a clock. *)
LEMMA ValueTaken ==
  ASSUME ValuesInv, NEW offers \in BOOLEAN, NEW tready \in BOOLEAN, Tick(offers, tready)
  PROVE  /\ LastValue => output_counter = 0 /\ ~Sends /\ Underway = INPUT_COUNT
         /\ state' = "ST_INPUT_L1" <=> \/ state = "ST_IDLE" /\ serializer_valid
                                       \/ state = "ST_INPUT_L1" /\ ~LastValue
         /\ NN!TakesInput /\ ~LastValue => state' \in {"ST_IDLE", "ST_INPUT_L1"}
         /\ data_cnt_L1' = IF LastValue THEN 0 ELSE Underway
<1>1. /\ state' = NN!state_next(serializer_valid)
      /\ NN!Count(serializer_valid)
  BY DEF Tick, NN!NetworkStep
<1>2. /\ state \in {"ST_IDLE", "ST_INPUT_L1", "ST_WAIT_L1", "ST_INPUT_L2",
                   "ST_WAIT_L2", "ST_OUTPUT", "ST_END"}
      /\ state = "ST_INPUT_L1" => data_cnt_L1 \in 1 .. INPUT_COUNT - 1
      /\ state # "ST_INPUT_L1" => data_cnt_L1 = 0
      /\ serializer_valid => NN!TakesInput
      /\ serializer_valid \in BOOLEAN
      /\ output_counter \in 0 .. INPUT_CHANNELS - 1
  BY DEF ValuesInv, NetworkInv, SerializerInv
<1>3. LastValue => output_counter = 0 /\ ~Sends /\ Underway = INPUT_COUNT
  <2> SUFFICES ASSUME LastValue PROVE output_counter = 0 /\ ~Sends /\ Underway = INPUT_COUNT
    OBVIOUS
  <2>1. PICK pixel \in Nat : Underway = pixel * INPUT_CHANNELS + output_counter
    BY DEF ValuesInv, NetworkInv
  <2>2. Underway = INPUT_COUNT
    BY Counts DEF Underway, LastValue
  <2>3. output_counter = 0
    BY <1>2, <2>1, <2>2, LastChannel
  <2> QED
    BY <2>2, <2>3, NothingBehindPixel DEF LastValue, ValuesInv
<1>4. /\ state' = "ST_INPUT_L1" <=> \/ state = "ST_IDLE" /\ serializer_valid
                                    \/ state = "ST_INPUT_L1" /\ ~LastValue
      /\ NN!TakesInput /\ ~LastValue => state' \in {"ST_IDLE", "ST_INPUT_L1"}
  BY <1>1, <1>2 DEF NN!state_next, NN!TakesInput, LastValue
<1>5. data_cnt_L1' = IF LastValue THEN 0 ELSE Underway
  <2>1. CASE state = "ST_IDLE"
    BY <1>1, <1>2, <2>1 DEF NN!Count, Underway, LastValue
  <2>2. CASE state = "ST_INPUT_L1"
    <3>1. data_cnt_L1' = IF serializer_valid THEN (data_cnt_L1 + 1) % INPUT_COUNT ELSE data_cnt_L1
      BY <1>1, <2>2 DEF NN!Count
    <3>2. LastValue => (data_cnt_L1 + 1) % INPUT_COUNT = 0
      BY Counts DEF LastValue
    <3>3. ~LastValue /\ serializer_valid => (data_cnt_L1 + 1) % INPUT_COUNT = data_cnt_L1 + 1
      BY <1>2, <2>2, Counts DEF LastValue
    <3> QED
      BY <3>1, <3>2, <3>3 DEF LastValue, Underway
  <2>3. CASE state \notin {"ST_IDLE", "ST_INPUT_L1"}
    BY <1>1, <1>2, <2>3 DEF NN!Count, NN!TakesInput, Underway, LastValue
  <2> QED
    BY <2>1, <2>2, <2>3
<1> QED
  BY <1>3, <1>4, <1>5

LEMMA NetworkKept ==
  ASSUME ValuesInv, NEW offers \in BOOLEAN, NEW tready \in BOOLEAN, Tick(offers, tready)
  PROVE  NetworkInv'
<1>1. /\ serializer_valid' = Sends
      /\ output_counter' = IF Sends THEN (output_counter + 1) % INPUT_CHANNELS ELSE output_counter
      /\ state' = NN!state_next(serializer_valid)
  BY DEF Tick, Ser!SerializerStep, Sends, NN!NetworkStep
<1>2. /\ state \in {"ST_IDLE", "ST_INPUT_L1", "ST_WAIT_L1", "ST_INPUT_L2",
                   "ST_WAIT_L2", "ST_OUTPUT", "ST_END"}
      /\ state = "ST_INPUT_L1" => data_cnt_L1 \in 1 .. INPUT_COUNT - 1
      /\ state # "ST_INPUT_L1" => data_cnt_L1 = 0
      /\ serializer_valid => NN!TakesInput
      /\ serializer_valid \in BOOLEAN
      /\ output_counter \in 0 .. INPUT_CHANNELS - 1
  BY DEF ValuesInv, NetworkInv, SerializerInv
<1>3. PICK pixel \in Nat : Underway = pixel * INPUT_CHANNELS + output_counter
  BY DEF ValuesInv, NetworkInv
<1>4. Sends \in BOOLEAN /\ (Sends => NN!TakesInput)
  BY DEF Sends, Ser!Sends, NN!TakesInput
<1>5. state' \in {"ST_IDLE", "ST_INPUT_L1", "ST_WAIT_L1", "ST_INPUT_L2",
                 "ST_WAIT_L2", "ST_OUTPUT", "ST_END"}
  BY <1>1, <1>2 DEF NN!state_next
<1>6. /\ LastValue => output_counter = 0 /\ ~Sends
      /\ state' = "ST_INPUT_L1" <=> \/ state = "ST_IDLE" /\ serializer_valid
                                    \/ state = "ST_INPUT_L1" /\ ~LastValue
      /\ NN!TakesInput /\ ~LastValue => state' \in {"ST_IDLE", "ST_INPUT_L1"}
      /\ data_cnt_L1' = IF LastValue THEN 0 ELSE Underway
  BY ValueTaken
<1>7. state' = "ST_INPUT_L1" => data_cnt_L1' \in 1 .. INPUT_COUNT - 1
  BY <1>2, <1>6, Counts DEF LastValue, Underway
<1>8. state' # "ST_INPUT_L1" => data_cnt_L1' = 0
  BY <1>2, <1>6 DEF NN!TakesInput, LastValue, Underway
<1>9. serializer_valid' => NN!TakesInput'
  BY <1>1, <1>4, <1>6 DEF NN!TakesInput
<1>10. \E q \in Nat : Underway' = q * INPUT_CHANNELS + output_counter'
  <2>1. CASE LastValue
    <3>1. Underway' = 0 /\ output_counter' = 0
      BY <1>1, <1>4, <1>6, <2>1 DEF Underway
    <3> QED
      BY <3>1, Counts
  <2>2. CASE ~LastValue /\ Sends
    <3>1. Underway' = Underway + 1
      BY <1>1, <1>4, <1>6, <2>2 DEF Underway
    <3>2. output_counter' = (output_counter + 1) % INPUT_CHANNELS
      BY <1>1, <2>2
    <3>3. Underway' = pixel * INPUT_CHANNELS + output_counter + 1
      BY <1>2, <1>3, <3>1, Counts
    <3> QED
      BY <1>2, <3>2, <3>3, NextChannel
  <2>3. CASE ~LastValue /\ ~Sends
    <3>1. Underway' = Underway /\ output_counter' = output_counter
      BY <1>1, <1>4, <1>6, <2>3 DEF Underway
    <3> QED
      BY <1>3, <3>1
  <2> QED
    BY <2>1, <2>2, <2>3
<1> QED
  BY <1>5, <1>7, <1>8, <1>9, <1>10 DEF NetworkInv

-----------------------------------------------------------------------------
(***************************************************************************)
(* Dense layers and master. The master shows ready only where it waits for *)
(* a result, and do_output falls with the result handed over, so that the  *)
(* clock before a result is one in which the master lowers the interrupt.  *)
(***************************************************************************)
HandoverInv ==
  /\ do_output \in BOOLEAN /\ l3_m_tvalid \in BOOLEAN /\ Res_itrp_o \in BOOLEAN
  /\ l3_m_tready => axis_state = "START"
  /\ l3_m_tvalid => axis_state = "START" /\ ~do_output /\ ~Res_itrp_o

(* Words of a vector are left, the last one among them. *)
WordsLeft == last_buf = TRUE /\ data_cnt \in 1 .. Axis!CYC_PER_OUTPUT - 1

(* A result is announced with its last word. *)
Announced == unannounced = 0 /\ data_cnt = 0
ToAnnounce == unannounced = 1 /\ WordsLeft /\ ~Res_itrp_o

MasterInv ==
  /\ axis_state \in {"INIT", "START", "SEND_DATA", "WAIT_FOR_READY"}
  /\ axis_state \in {"INIT", "START"} => Announced
  /\ axis_state = "SEND_DATA" =>
       \/ ToAnnounce
       \/ unannounced = 0 /\ Res_itrp_o /\ WordsLeft /\ data_cnt = Axis!CYC_PER_OUTPUT - 1
  /\ axis_state = "WAIT_FOR_READY" =>
       \/ axis_next_state = "START" /\ Announced
       \/ axis_next_state = "SEND_DATA" /\ ToAnnounce

ResultInv == HandoverInv /\ MasterInv

LEMMA WordCount == Axis!CYC_PER_OUTPUT \in Nat \ {0}
<1>1. (OUTPUT_COUNT - 1) \div OutputsPerWord \in Nat
  BY OutputsAssumption
<1> QED
  BY <1>1 DEF Axis!CYC_PER_OUTPUT

LEMMA ResultInit == Init => ResultInv
<1> SUFFICES ASSUME Init PROVE ResultInv
  OBVIOUS
<1>1. /\ do_output = FALSE /\ l3_m_tvalid = FALSE /\ Res_itrp_o = FALSE
      /\ l3_m_tready = FALSE /\ axis_state = "INIT" /\ unannounced = 0 /\ data_cnt = 0
  BY DEF Init, NN!NetworkInit, Axis!MasterInit
<1> QED
  BY <1>1 DEF ResultInv, HandoverInv, MasterInv, Announced

(* The clock before a result is handed over. *)
LEMMA BeforeResult ==
  ASSUME HandoverInv, NEW offers, NEW tready, Tick(offers, tready), l3_m_tvalid'
  PROVE  /\ axis_state = "START" /\ Axis!StartIdle(l3_m_tvalid)
         /\ axis_state' = "START" /\ Res_itrp_o' = FALSE /\ do_output' = FALSE
<1>1. /\ l3_m_tready /\ do_output
      /\ do_output' = NN!HoldsOutput(NN!state_next(serializer_valid) = "ST_END", l3_m_tready)
      /\ Axis!MasterStep(l3_m_tvalid, l3_m_tdata, l3_m_tvalid, m00_axis_tready)
  BY DEF Tick, NN!NetworkStep, NN!SetOutput
<1>2. axis_state = "START" /\ ~l3_m_tvalid
  BY <1>1 DEF HandoverInv
<1>3. Axis!StartIdle(l3_m_tvalid)
  BY <1>1, <1>2 DEF Axis!MasterStep, Axis!LeaveInit, Axis!StartVector, Axis!SendData,
                    Axis!WaitForReady
<1>4. axis_state' = "START" /\ Res_itrp_o' = FALSE
  BY <1>2, <1>3 DEF Axis!StartIdle
<1>5. do_output' = FALSE
  BY <1>1 DEF NN!HoldsOutput
<1> QED
  BY <1>2, <1>3, <1>4, <1>5

(* The interrupts and what has been announced after a clock. *)
LEMMA Announcements ==
  ASSUME Observe
  PROVE  unannounced' =
           LET taken == unannounced + (IF l3_m_tvalid THEN 1 ELSE 0)
           IN  IF Res_itrp_o' /\ ~Res_itrp_o THEN taken - 1 ELSE IF taken > 2 THEN 2 ELSE taken
BY DEF Observe

LEMMA MasterKept ==
  ASSUME ResultInv, NEW tready,
         Axis!MasterStep(l3_m_tvalid, l3_m_tdata, l3_m_tvalid, tready), Observe
  PROVE  MasterInv' /\ (l3_m_tready' => axis_state' = "START") /\ Res_itrp_o' \in BOOLEAN
<1> USE DEF ResultInv, HandoverInv
<1>1. CASE Axis!LeaveInit
  <2>1. /\ axis_state' = "START" /\ data_cnt' = 0 /\ Res_itrp_o' = Res_itrp_o
        /\ unannounced = 0 /\ ~l3_m_tvalid
    BY <1>1 DEF Axis!LeaveInit, MasterInv, Announced
  <2> QED
    BY <2>1, Announcements DEF MasterInv, Announced
<1>2. CASE Axis!StartIdle(l3_m_tvalid)
  <2>1. /\ axis_state = "START" /\ axis_state' = "START" /\ data_cnt' = data_cnt
        /\ Res_itrp_o' = FALSE /\ ~l3_m_tvalid
    BY <1>2 DEF Axis!StartIdle
  <2>2. unannounced = 0 /\ data_cnt = 0
    BY <2>1 DEF MasterInv, Announced
  <2>3. unannounced' = 0
    BY <2>1, <2>2, Announcements
  <2>4. Announced'
    BY <2>1, <2>2, <2>3 DEF Announced
  <2> QED
    BY <2>1, <2>4 DEF MasterInv
<1>3. CASE Axis!StartVector(l3_m_tvalid, l3_m_tdata, l3_m_tvalid, tready)
  <2>1. /\ axis_state = "START" /\ l3_m_tvalid = TRUE /\ ~Res_itrp_o
        /\ unannounced = 0 /\ data_cnt = 0 /\ last_buf' = TRUE
    BY <1>3 DEF Axis!StartVector, MasterInv, Announced
  <2>2. CASE Axis!CYC_PER_OUTPUT = 1
    <3>1. data_cnt = Axis!CYC_PER_OUTPUT - 1
      BY <2>1, <2>2
    <3>2. /\ Res_itrp_o' = TRUE /\ data_cnt' = 0
          /\ l3_m_tready' <=> tready
          /\ IF tready THEN axis_state' = "START"
                       ELSE axis_state' = "WAIT_FOR_READY" /\ axis_next_state' = "START"
      BY <1>3, <2>1, <3>1 DEF Axis!StartVector, Axis!FirstCount, Axis!ReadyAfterFirst
    <3>3. unannounced' = 0
      BY <2>1, <3>2, Announcements
    <3> QED
      BY <3>2, <3>3 DEF MasterInv, Announced
  <2>3. CASE Axis!CYC_PER_OUTPUT # 1
    <3>1. data_cnt # Axis!CYC_PER_OUTPUT - 1 /\ 1 \in 1 .. Axis!CYC_PER_OUTPUT - 1
      BY <2>1, <2>3, WordCount
    <3>2. /\ Res_itrp_o' = FALSE /\ data_cnt' = 1 /\ ~l3_m_tready'
          /\ IF tready THEN axis_state' = "SEND_DATA"
                       ELSE axis_state' = "WAIT_FOR_READY" /\ axis_next_state' = "SEND_DATA"
      BY <1>3, <2>1, <3>1 DEF Axis!StartVector, Axis!FirstCount, Axis!ReadyAfterFirst
    <3>3. unannounced' = 1
      BY <2>1, <3>2, Announcements
    <3>4. ToAnnounce'
      BY <2>1, <3>1, <3>2, <3>3 DEF ToAnnounce, WordsLeft, Axis!CYC_PER_OUTPUT
    <3> QED
      BY <3>2, <3>4 DEF MasterInv
  <2> QED
    BY <2>2, <2>3
<1>4. CASE Axis!SendData(tready)
  <2>1. axis_state = "SEND_DATA" /\ ~l3_m_tvalid /\ ~l3_m_tready /\ WordsLeft
    BY <1>4 DEF Axis!SendData, MasterInv, ToAnnounce
  <2>2. CASE data_cnt = Axis!CYC_PER_OUTPUT - 1
    <3>1. Res_itrp_o' = TRUE /\ last_buf' = last_buf
      BY <1>4, <2>1, <2>2 DEF Axis!SendData, WordsLeft
    <3>2. unannounced' = 0
      BY <2>1, <3>1, Announcements DEF MasterInv, ToAnnounce
    <3>3. \/ axis_state' = "START" /\ data_cnt' = 0
          \/ axis_state' = axis_state /\ data_cnt' = data_cnt /\ l3_m_tready' = l3_m_tready
      BY <1>4, <2>2 DEF Axis!SendData
    <3>4. data_cnt' = data_cnt => WordsLeft'
      BY <2>1, <3>1 DEF WordsLeft, Axis!CYC_PER_OUTPUT
    <3> QED
      BY <2>1, <2>2, <3>1, <3>2, <3>3, <3>4 DEF MasterInv, Announced, Axis!CYC_PER_OUTPUT
  <2>3. CASE data_cnt # Axis!CYC_PER_OUTPUT - 1
    <3>1. ToAnnounce
      BY <2>1, <2>3 DEF MasterInv
    <3>2. /\ Res_itrp_o' = Res_itrp_o /\ last_buf' = last_buf
          /\ axis_state' = axis_state /\ l3_m_tready' = l3_m_tready
          /\ data_cnt' = data_cnt \/ data_cnt' = data_cnt + 1
      BY <1>4, <2>3 DEF Axis!SendData
    <3>3. unannounced' = 1
      BY <2>1, <3>1, <3>2, Announcements DEF ToAnnounce
    <3>4. data_cnt' \in 1 .. Axis!CYC_PER_OUTPUT - 1
      BY <2>1, <2>3, <3>2, WordCount DEF WordsLeft
    <3>5. ToAnnounce'
      BY <3>1, <3>2, <3>3, <3>4 DEF ToAnnounce, WordsLeft, Axis!CYC_PER_OUTPUT
    <3> QED
      BY <2>1, <3>2, <3>5 DEF MasterInv
  <2> QED
    BY <2>2, <2>3
<1>5. CASE Axis!WaitForReady(tready)
  <2>1. /\ axis_state = "WAIT_FOR_READY" /\ ~l3_m_tvalid /\ ~l3_m_tready
        /\ UNCHANGED << axis_next_state, data_cnt, last_buf, Res_itrp_o >>
        /\ axis_state' = IF tready THEN axis_next_state ELSE axis_state
        /\ l3_m_tready' => tready /\ axis_next_state = "START"
    BY <1>5 DEF Axis!WaitForReady
  <2>2. CASE axis_next_state = "START" /\ Announced
    <3>1. Announced'
      BY <2>1, <2>2, Announcements DEF Announced
    <3> QED
      BY <2>1, <2>2, <3>1 DEF MasterInv
  <2>3. CASE axis_next_state = "SEND_DATA" /\ ToAnnounce
    <3>1. ToAnnounce'
      BY <2>1, <2>3, Announcements DEF ToAnnounce, WordsLeft, Axis!CYC_PER_OUTPUT
    <3> QED
      BY <2>1, <2>3, <3>1 DEF MasterInv
  <2> QED
    BY <2>1, <2>2, <2>3 DEF MasterInv
<1> QED
  BY <1>1, <1>2, <1>3, <1>4, <1>5 DEF Axis!MasterStep

LEMMA HandoverKept ==
  ASSUME ResultInv, NEW offers, NEW tready, Tick(offers, tready)
  PROVE  ResultInv'
<1>1. MasterInv' /\ (l3_m_tready' => axis_state' = "START") /\ Res_itrp_o' \in BOOLEAN
  BY MasterKept DEF Tick
<1>2. do_output' \in BOOLEAN /\ l3_m_tvalid' \in BOOLEAN
  BY DEF Tick, NN!NetworkStep, NN!SetOutput, NN!HoldsOutput
<1>3. l3_m_tvalid' => axis_state' = "START" /\ ~do_output' /\ ~Res_itrp_o'
  BY BeforeResult DEF ResultInv
<1> QED
  BY <1>1, <1>2, <1>3 DEF ResultInv, HandoverInv

LEMMA PathInit == Init => ValuesInv /\ ResultInv
BY ValuesInit, ResultInit

LEMMA PathNext == ValuesInv /\ ResultInv /\ [Next]_vars => (ValuesInv /\ ResultInv)'
<1> SUFFICES ASSUME ValuesInv, ResultInv, [Next]_vars PROVE ValuesInv' /\ ResultInv'
  OBVIOUS
<1>1. ASSUME NEW offers \in BOOLEAN, NEW tready \in BOOLEAN, Tick(offers, tready)
      PROVE  ValuesInv' /\ ResultInv'
  BY <1>1, PoolStep, SerializerKept, NetworkKept, HandoverKept DEF ValuesInv
<1>2. CASE UNCHANGED vars
  <2>1. ValuesInv'
    BY <1>2 DEF vars, poolVars, Ser!serializerVars, NN!networkVars, NN!machineVars, ValuesInv,
                PoolInv, SerializerInv, NetworkInv, Underway, NN!TakesInput
  <2>2. ResultInv'
    BY <1>2 DEF vars, historyVars, NN!networkVars, NN!outputVars, Axis!masterVars, ResultInv,
                HandoverInv, MasterInv, Announced, ToAnnounce, WordsLeft, Axis!CYC_PER_OUTPUT
  <2> QED
    BY <2>1, <2>2
<1> QED
  BY <1>1, <1>2 DEF Next

(***************************************************************************)
(* A pooled pixel, a channel value and a result each come when the next    *)
(* stage takes it (serializer.vhd:41, NN.vhd:277): none is lost.           *)
(***************************************************************************)
THEOREM NoValueIsLost == Spec => []ValuesAreTaken
<1>1. ValuesInv /\ ResultInv => ValuesAreTaken
  BY DEF ValuesInv, PoolInv, NetworkInv, ResultInv, HandoverInv, ValuesAreTaken
<1> QED
  BY <1>1, PathInit, PathNext, PTL DEF Spec

(***************************************************************************)
(* However the sink moves its ready, the master raises one interrupt for   *)
(* each result, before it takes the next one (AXI_steam_master.vhd:77).    *)
(***************************************************************************)
THEOREM InterruptsMatchResults == Spec => []OneInterruptPerResult
<1>1. MasterInv => OneInterruptPerResult
  BY DEF MasterInv, Announced, ToAnnounce, OneInterruptPerResult
<1>2. ResultInv => MasterInv
  BY DEF ResultInv
<1> QED
  BY <1>1, <1>2, PathInit, PathNext, PTL DEF Spec
=============================================================================
