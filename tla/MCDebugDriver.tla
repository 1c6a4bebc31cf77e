--------------------------- MODULE MCDebugDriver ---------------------------
(***************************************************************************)
(* Instances of DebugDriver for TLC: the two memory controllers the top    *)
(* level has, of the four its generic announces.                           *)
(***************************************************************************)
EXTENDS DebugDriver, TLC

Widths == 1 :> 28 @@ 2 :> 14
Channel_numbers == 1 :> 1 @@ 2 :> 16
=============================================================================
