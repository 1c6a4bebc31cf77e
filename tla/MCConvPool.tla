------------------------------ MODULE MCConvPool ------------------------------
(***************************************************************************)
(* Instances of ConvPool for TLC: images of four rows and four columns.    *)
(***************************************************************************)
EXTENDS ConvPool
=============================================================================
