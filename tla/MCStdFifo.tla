------------------------------- MODULE MCStdFifo -------------------------------
(***************************************************************************)
(* An instance of StdFifo for TLC: two distinguishable words are enough to *)
(* see a lost, repeated or overtaken one, four slots to wrap both pointers *)
(* independently.                                                          *)
(***************************************************************************)
EXTENDS StdFifo
=============================================================================
