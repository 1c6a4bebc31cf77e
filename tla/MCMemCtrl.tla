------------------------------- MODULE MCMemCtrl -------------------------------
(***************************************************************************)
(* Instances of MemCtrl for TLC. The state space is finite as it is: no    *)
(* variable counts beyond one block.                                       *)
(***************************************************************************)
EXTENDS MemCtrl
=============================================================================
