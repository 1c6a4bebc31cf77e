------------------------------ MODULE ConvInput ------------------------------
(***************************************************************************)
(* The input of a convolution layer as the top level wires it: a memory    *)
(* controller with block RAM and line buffer, and the shift register that  *)
(* makes 3x3 windows of its columns. M_layer_tready_i of the controller is *)
(* S_tready_o of the shift register; the ready of the convolution is free. *)
(***************************************************************************)
EXTENDS MemCtrlData

CONSTANT Stalls       (* TRUE: the convolution may be not ready           *)

ASSUME StallsAssumption == Stalls \in BOOLEAN

VARIABLES
  sr_state, data_buffer, data, M_tvalid, M_tlast, S_tready,
  win_image,          (* history: the image the windows are from          *)
  win_count           (* history: windows of it the convolution has taken *)

ShiftReg == INSTANCE ShiftRegister WITH
  ZeroColumn <- << Zero, Zero, Zero >>,
  UndefinedColumn <- << Undefined, Undefined, Undefined >>

inputVars == << dataVars, sr_state, data_buffer, data, M_tvalid, M_tlast,
                S_tready, win_image, win_count >>

InputInit ==
  /\ DataInit
  /\ ShiftReg!ShiftInit
  /\ win_image = NoImage
  /\ win_count = 0

(* The shift register begins with the windows of an image. *)
Begins == sr_state = "INIT" /\ m_layer_tvalid /\ M_layer_tnewrow

ConvInputTick(tvalid, tlast, ready) ==
  /\ DataTick(tvalid, tlast, S_tready)
  /\ ShiftReg!ShiftStep(m_layer_tvalid, tdata, M_layer_tnewrow, M_layer_tlast, ready)
  /\ win_image' = IF Begins THEN SendingNow ELSE win_image
  /\ win_count' = IF Begins THEN 0
                  ELSE IF M_tvalid /\ ready THEN win_count + 1 ELSE win_count

Readiness == IF Stalls THEN BOOLEAN ELSE {TRUE}

InputNext ==
  \E tvalid, tlast \in BOOLEAN, ready \in Readiness : ConvInputTick(tvalid, tlast, ready)

InputSpec == InputInit /\ [][InputNext]_inputVars

(* The clock never stops, the previous layer keeps sending. *)
InputFairness ==
  /\ WF_inputVars(InputNext)
  /\ SF_inputVars(\E tlast \in BOOLEAN, ready \in Readiness :
                     ConvInputTick(TRUE, tlast, ready))

InputFairSpec == InputSpec /\ InputFairness

-----------------------------------------------------------------------------
(***************************************************************************)
(* The convolution kernel slides over the image from left to right, top to *)
(* bottom: the windows are those around each pixel in order, each once,    *)
(* with zeros outside the image, and tlast marks the last one.             *)
(***************************************************************************)
WindowColumn(image, row, col) ==
  IF col \in 0 .. LAYER_WIDTH - 1 THEN Column(image, row * LAYER_WIDTH + col)
                                  ELSE << Zero, Zero, Zero >>

Window(image, n) ==
  [i \in 1 .. 3 |-> WindowColumn(image, n \div LAYER_WIDTH, (n % LAYER_WIDTH) + i - 2)]

WindowsInOrder ==
  M_tvalid => /\ win_count < BlockSize
              /\ data = Window(win_image, win_count)
              /\ M_tlast = (win_count = BlockSize - 1)

(***************************************************************************)
(* Every image the bus has begun to deliver leaves as windows, up to the   *)
(* last one; in particular neither side waits for the other forever.       *)
(***************************************************************************)
EveryImageIsConvolved ==
  \A i \in Images : (ReceivingNow = i) ~> (win_image = i /\ M_tvalid /\ M_tlast)
=============================================================================
