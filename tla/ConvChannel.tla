----------------------------- MODULE ConvChannel -----------------------------
(***************************************************************************)
(* A convolution channel (ConvChannelTemplate with its Kernel3x3): the     *)
(* kernels multiply a window when Valid_i is high, the adder sums up their *)
(* products a clock later. All channels of a layer share the handshake, so *)
(* one stands for all. What is computed from a window is data: K_out and   *)
(* Y_o name the window their value is computed from.                       *)
(***************************************************************************)
CONSTANT NoWindow     (* the value at reset                               *)

VARIABLES
  start_addition,     (* the kernels hold a window the adder has to sum   *)
  is_last,
  K_out,              (* kernels: products of a window                    *)
  Y_o, Valid_o, Last_o

channelVars == << start_addition, is_last, K_out, Y_o, Valid_o, Last_o >>

ChannelInit ==
  /\ start_addition = FALSE
  /\ is_last = FALSE
  /\ K_out = NoWindow
  /\ Y_o = NoWindow
  /\ Valid_o = FALSE
  /\ Last_o = FALSE

(* Ready_o is combinational. *)
ChannelReady(Valid_i, Ready_i) == ~Valid_i /\ Ready_i /\ ~start_addition

(* Mutant: the adder does not wait for the next layer. *)
SumsAlways(Ready_i) == start_addition

Sums(Ready_i) == start_addition /\ Ready_i

(* The adder gives a result for one clock. *)
Add(Ready_i) ==
  /\ Valid_o' = Sums(Ready_i)
  /\ Last_o' = (Sums(Ready_i) /\ is_last)
  /\ Y_o' = IF Sums(Ready_i) THEN K_out ELSE Y_o

(* A window that comes in takes the place of the one summed up. *)
Accept(Valid_i, Last_i, X_i, Ready_i) ==
  /\ start_addition' = (Valid_i \/ (start_addition /\ ~Sums(Ready_i)))
  /\ is_last' = IF Valid_i THEN Last_i ELSE is_last /\ ~Sums(Ready_i)
  /\ K_out' = IF Valid_i THEN X_i ELSE K_out

ChannelStep(Valid_i, Last_i, X_i, Ready_i) ==
  /\ Add(Ready_i)
  /\ Accept(Valid_i, Last_i, X_i, Ready_i)
=============================================================================
