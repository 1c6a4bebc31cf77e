------------------------------- MODULE MCCConv -------------------------------
(***************************************************************************)
(* Instances of CConv for TLC.                                             *)
(***************************************************************************)
EXTENDS CConv
=============================================================================
