------------------------------ MODULE MCConvLayer ------------------------------
(***************************************************************************)
(* Instances of ConvLayer for TLC: images of two rows and three columns.   *)
(***************************************************************************)
EXTENDS ConvLayer
=============================================================================
