------------------------------ MODULE BoundedFifo ------------------------------
(***************************************************************************)
(* What STD_FIFO promises: a sequence of at most Depth words. In a clock   *)
(* it may give its oldest word to the output register and then take a new  *)
(* one; a read of an empty and a write to a full FIFO are ignored, and a   *)
(* write into a full FIFO succeeds when the same clock also reads.         *)
(***************************************************************************)
EXTENDS Naturals, Sequences

CONSTANTS Depth, Data, Undefined

VARIABLES queue, out

Init == queue = << >> /\ out = Undefined

AfterRead(re) == IF re /\ queue # << >> THEN Tail(queue) ELSE queue

Access(re, we, d) ==
  /\ out' = IF re /\ queue # << >> THEN Head(queue) ELSE out
  /\ queue' = IF we /\ Len(AfterRead(re)) < Depth THEN Append(AfterRead(re), d)
                                                   ELSE AfterRead(re)

Reset == queue' = << >> /\ UNCHANGED out

Next == Reset \/ \E re, we \in BOOLEAN, d \in Data : Access(re, we, d)

Spec == Init /\ [][Next]_<< queue, out >>
=============================================================================
