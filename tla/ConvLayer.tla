------------------------------ MODULE ConvLayer ------------------------------
(***************************************************************************)
(* A convolution layer as the top level wires it: memory controller, shift *)
(* register and convolution. The ready of max pooling is free.             *)
(***************************************************************************)
EXTENDS ConvInput

VARIABLES
  start_addition, is_last, K_out, Y_o, Valid_o, Last_o,
  results             (* history: results of the image given so far       *)

Channel == INSTANCE ConvChannel WITH
  NoWindow <- << >>

layerVars == << inputVars, Channel!channelVars, results >>

LayerInit ==
  /\ InputInit
  /\ Channel!ChannelInit
  /\ results = 0

LayerTick(tvalid, tlast, Ready_i) ==
  /\ ConvInputTick(tvalid, tlast, Channel!ChannelReady(M_tvalid, Ready_i))
  /\ Channel!ChannelStep(M_tvalid, M_tlast, data, Ready_i)
  /\ results' = IF Valid_o THEN (results + 1) % BlockSize ELSE results

LayerNext == \E tvalid, tlast, Ready_i \in BOOLEAN : LayerTick(tvalid, tlast, Ready_i)

LayerSpec == LayerInit /\ [][LayerNext]_layerVars

-----------------------------------------------------------------------------
(***************************************************************************)
(* The documentation (02_conv2d-hw.tex): "the convolutional kernel slides  *)
(* over the input data from left to right, top to bottom". The results are *)
(* those of the windows of an image in order, each once.                   *)
(***************************************************************************)
ResultsInOrder ==
  Valid_o => \E image \in Images : Y_o = Window(image, results)
=============================================================================
