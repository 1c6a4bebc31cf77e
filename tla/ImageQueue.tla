------------------------------ MODULE ImageQueue ------------------------------
(***************************************************************************)
(* What a memory controller promises its neighbours: a queue of at most    *)
(* Capacity complete images. Images leave in the order in which they were  *)
(* received, each exactly once, and the next one may be received while the *)
(* oldest is being sent.                                                   *)
(***************************************************************************)
EXTENDS Naturals, Sequences

CONSTANTS Images, NoImage, Capacity

VARIABLES
  queue,              (* complete images, oldest first                    *)
  receiving,          (* the image being received, or NoImage             *)
  sending             (* the image being sent, or NoImage                 *)

queueVars == << queue, receiving, sending >>

Init == queue = << >> /\ receiving = NoImage /\ sending = NoImage

(***************************************************************************)
(* Both sides work in the same clock: push and pop tell whether the        *)
(* reception and the transmission of an image end in it.                   *)
(***************************************************************************)
Receive(push) ==
  IF push
  THEN /\ receiving # NoImage
       /\ receiving' = NoImage
  ELSE \/ UNCHANGED receiving
       \/ /\ receiving = NoImage
          /\ Len(queue) < Capacity
          /\ receiving' \in Images

Send(pop) ==
  IF pop
  THEN /\ sending # NoImage
       /\ sending' = NoImage
  ELSE \/ UNCHANGED sending
       \/ /\ sending = NoImage
          /\ queue # << >>
          /\ sending' = Head(queue)

Next ==
  \E push, pop \in BOOLEAN :
    /\ Receive(push)
    /\ Send(pop)
    /\ LET rest == IF pop THEN Tail(queue) ELSE queue
       IN  queue' = IF push THEN Append(rest, receiving) ELSE rest

Spec == Init /\ [][Next]_queueVars
=============================================================================
