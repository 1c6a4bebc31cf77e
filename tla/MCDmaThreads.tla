---------------------------- MODULE MCDmaThreads ----------------------------
(***************************************************************************)
(* An instance of DmaThreads for TLC.                                      *)
(***************************************************************************)
EXTENDS DmaThreads

CONSTANTS s1, s2, s3, r1, r2, n1, n2

(* The first two senders use the same one. *)
SharedNetwork == [s \in {s1, s2, s3} |-> IF s = s3 THEN n2 ELSE n1]
=============================================================================
