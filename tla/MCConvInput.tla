------------------------------ MODULE MCConvInput ------------------------------
(***************************************************************************)
(* Instances of ConvInput for TLC: images of two rows and three columns,   *)
(* any sequence of two different images.                                   *)
(***************************************************************************)
EXTENDS ConvInput
=============================================================================
