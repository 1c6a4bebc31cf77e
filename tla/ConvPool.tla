------------------------------- MODULE ConvPool -------------------------------
(***************************************************************************)
(* A convolution followed by max pooling, fed as by the test bench of the  *)
(* repository (tb_conv2d_0.vhd): it offers the next window for one clock   *)
(* after a clock in which Ready_o was high. Windows, and the pixels made   *)
(* of them, are numbered row by row. The next layer takes a pooled pixel   *)
(* in the clock in which it is valid.                                      *)
(***************************************************************************)
EXTENDS Integers

CONSTANTS
  LAYER_HIGHT, LAYER_WIDTH,
  NoPixel,
  LastPerLine         (* TRUE: Last_i marks the end of each line, as the   *)
                      (* bench does; FALSE: of the image only, as the      *)
                      (* shift register does                               *)

ASSUME PatchAssumption ==
  /\ LAYER_HIGHT \in Nat \ {0} /\ LAYER_HIGHT % 2 = 0
  /\ LAYER_WIDTH \in Nat \ {0} /\ LAYER_WIDTH % 2 = 0
  /\ NoPixel \notin Nat
  /\ LastPerLine \in BOOLEAN

VARIABLES
  Valid_i, Last_i, X_i, next_window,                          \* test bench
  start_addition, is_last, K_out, Y_o, Valid_o, Last_o,       \* channel
  state, col_cnt, output_en, ready_latched, fifo_out_latched,
  input_latched, Memory, head, tail, looped, Full_o, Empty_o, Data_o,
  pooled              (* history: pixels of the image pooled so far       *)

Channel == INSTANCE ConvChannel WITH NoWindow <- NoPixel
Pooling == INSTANCE MaxPooling

benchVars == << Valid_i, Last_i, X_i, next_window >>
vars == << benchVars, Channel!channelVars, Pooling!poolVars, pooled >>

Windows == LAYER_HIGHT * LAYER_WIDTH
Patches == Windows \div 4

Init ==
  /\ Valid_i = FALSE
  /\ Last_i = FALSE
  /\ X_i = NoPixel
  /\ next_window = 0
  /\ Channel!ChannelInit
  /\ Pooling!PoolInit
  /\ pooled = 0

-----------------------------------------------------------------------------
EndsPacket(n) == IF LastPerLine THEN n % LAYER_WIDTH = LAYER_WIDTH - 1
                                ELSE n = Windows - 1

Offer ==
  /\ Valid_i' = TRUE
  /\ X_i' = next_window
  /\ Last_i' = EndsPacket(next_window)
  /\ next_window' = (next_window + 1) % Windows

OfferNothing ==
  /\ Valid_i' = FALSE
  /\ X_i' = NoPixel
  /\ Last_i' = FALSE
  /\ UNCHANGED next_window

(* The bench may also pause, as it does at the end of an image. *)
Bench(offers, Ready_o) == IF offers /\ Ready_o THEN Offer ELSE OfferNothing

Tick(offers, tready) ==
  LET Ready_i == Pooling!PoolReady(Last_o, tready)
  IN  /\ Bench(offers, Channel!ChannelReady(Valid_i, Ready_i))
      /\ Channel!ChannelStep(Valid_i, Last_i, X_i, Ready_i)
      /\ Pooling!PoolStep(Valid_o, Last_o, Y_o, tready)
      /\ pooled' = IF Pooling!m_tvalid(Valid_o) THEN (pooled + 1) % Patches ELSE pooled

Next == \E offers, tready \in BOOLEAN : Tick(offers, tready)

Spec == Init /\ [][Next]_vars

(* The clock never stops; again and again the bench offers a window, and   *)
(* the next layer is ready.                                                *)
Fairness == WF_vars(Next) /\ SF_vars(Tick(TRUE, TRUE))

FairSpec == Spec /\ Fairness

-----------------------------------------------------------------------------
(***************************************************************************)
(* Pooling has no buffer for its input: whatever the next layer does with  *)
(* its ready, a result of the convolution comes only in a clock in which   *)
(* pooling takes it.                                                       *)
(***************************************************************************)
ResultsAreTaken == Valid_o => ready_latched /\ state \in {"FIRST_LINE", "POOL"}

(***************************************************************************)
(* A patch of 2x2 pixels is mapped to one pixel: the pooled pixels are     *)
(* the maxima of the patches in order, each once, and tlast marks the last *)
(* one of each row of patches.                                             *)
(***************************************************************************)
Patch(p) ==
  LET row == 2 * (p \div (LAYER_WIDTH \div 2))
      col == 2 * (p % (LAYER_WIDTH \div 2))
  IN  {(row + i) * LAYER_WIDTH + col + j : i, j \in 0 .. 1}

PatchesInOrder ==
  Pooling!m_tvalid(Valid_o) =>
    /\ Pooling!M_tdata(Y_o) = Patch(pooled)
    /\ Pooling!M_tlast(Last_o) = ((pooled + 1) % (LAYER_WIDTH \div 2) = 0)

(***************************************************************************)
(* Nobody waits forever: every patch of every image is pooled.             *)
(***************************************************************************)
EveryPatchIsPooled == \A p \in 0 .. Patches - 1 : []<>(pooled = p)
=============================================================================
