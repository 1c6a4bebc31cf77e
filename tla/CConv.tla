------------------------------- MODULE CConv -------------------------------
(***************************************************************************)
(* conv2d_3x3 of the C extension (cconv.c), the fast implementation of the *)
(* convolution on the CPU. It treats the inside of the image, the corners  *)
(* and the edges in passes of their own. Arrays are flat; the macros of    *)
(* chelper.h turn indices into offsets, and an offset stands for the       *)
(* element. An output is the set of the products                           *)
(*   << offset in the kernel, offset in the input >>                       *)
(* it sums up. The images of a batch are treated alike: one is modelled.   *)
(* A step is the body of the outermost loop of a pass.                     *)
(***************************************************************************)
EXTENDS Integers

CONSTANTS
  Heights, Widths,    \* shapes of the image
  Channels            \* numbers of input and output channels

VARIABLES
  in_h, in_w, in_ch,
  kernels,            \* the parameter kout_ch, which out_ch is set to
  kout_ch,            \* the loop variable that hides the parameter
  pass, i,            \* the loop, and its index
  data_out

vars == << in_h, in_w, in_ch, kernels, kout_ch, pass, i, data_out >>

H == in_h - 1
W == in_w - 1

(* The macros. KERNEL takes `kout_ch' and `fw' from where it is used.      *)
(* DATA_IN puts no brackets around its arguments, so that the 1 of `i - 1' *)
(* is not multiplied; in the first row and column its arguments are        *)
(* numbers.                                                                *)
Scaled(size, i0, d) == IF i0 = 0 THEN size * d ELSE size * i0 + d

DATA_IN(row, di, col, dj, q) ==
  q + Scaled(in_ch, col, dj) + Scaled(in_ch * in_w, row, di)
DATA_OUT(row, col, ch)     == ch + kernels * col + kernels * in_w * row
KERNEL(hides, di, dj, q, k) == k + hides * q + hides * in_ch * dj + hides * in_ch * 3 * di

Init ==
  /\ in_h \in Heights /\ in_w \in Widths
  /\ in_ch \in Channels /\ kernels \in Channels
  /\ kout_ch = 0 /\ pass = "inside" /\ i = 1
  /\ data_out = [a \in 0 .. in_h * in_w * kernels - 1 |-> {}]

-----------------------------------------------------------------------------
(* The sum over the taps dis x djs of the kernel and all input channels,   *)
(* for the output in a row and column.                                     *)
Sum(row, col, dis, djs) ==
  {<< KERNEL(kout_ch, di, dj, q, kout_ch), DATA_IN(row, di - 1, col, dj - 1, q) >> :
     di \in dis, dj \in djs, q \in 0 .. in_ch - 1}

(* Outputs are << row, column, rows of the kernel, columns of the kernel >>. *)
Store(outputs) ==
  data_out' =
    [a \in DOMAIN data_out |->
       IF \E o \in outputs : a = DATA_OUT(o[1], o[2], kout_ch)
       THEN LET o == CHOOSE o \in outputs : a = DATA_OUT(o[1], o[2], kout_ch)
            IN  Sum(o[1], o[2], o[3], o[4])
       ELSE data_out[a]]

All == 0 .. 2
Lower == 1 .. 2       \* without the row above, or the column to the left
Upper == 0 .. 1       \* without the row below, or the column to the right

Inside == {<< i, col, All, All >> : col \in 1 .. in_w - 2}

CornerOutputs == {<< 0, 0, Lower, Lower >>, << 0, W, Lower, Upper >>,
                  << H, 0, Upper, Lower >>, << H, W, Upper, Upper >>}

Vertical == {<< i, 0, All, Lower >>, << i, W, All, Upper >>}

Horizontal == {<< 0, i, Lower, All >>, << H, i, Upper, All >>}

(* A loop over i from 1 to last that goes on with another pass. *)
Loop(name, last, outputs, next) ==
  /\ pass = name
  /\ IF i <= last
     THEN Store(outputs) /\ i' = i + 1 /\ UNCHANGED pass
     ELSE i' = 1 /\ pass' = next /\ UNCHANGED data_out
  /\ UNCHANGED kout_ch

InsidePass == Loop("inside", in_h - 2, Inside, "corners")

CornersPass ==
  /\ pass = "corners"
  /\ Store(CornerOutputs)
  /\ pass' = "vertical"
  /\ UNCHANGED << i, kout_ch >>

VerticalPass == Loop("vertical", in_h - 2, Vertical, "horizontal")

HorizontalPass == Loop("horizontal", in_w - 2, Horizontal, "next")

NextChannel ==
  /\ pass = "next"
  /\ IF kout_ch < kernels - 1
     THEN kout_ch' = kout_ch + 1 /\ pass' = "inside"
     ELSE pass' = "returned" /\ UNCHANGED kout_ch
  /\ UNCHANGED << i, data_out >>

Next ==
  /\ InsidePass \/ CornersPass \/ VerticalPass \/ HorizontalPass \/ NextChannel
  /\ UNCHANGED << in_h, in_w, in_ch, kernels >>

Spec == Init /\ [][Next]_vars

-----------------------------------------------------------------------------
(***************************************************************************)
(* The test of the extension compares conv2d_3x3 with the convolution of   *)
(* the Python network (core.py), which pads the image with zeros and sums  *)
(* up the products of the window with the weights of the output channel.   *)
(***************************************************************************)
Offset(row, col, q) == q + in_ch * col + in_ch * in_w * row

Convolution(row, col, ch) ==
  {<< KERNEL(kernels, t[1], t[2], t[3], ch), Offset(row + t[1] - 1, col + t[2] - 1, t[3]) >> :
     t \in {t \in All \X All \X (0 .. in_ch - 1) :
              row + t[1] - 1 \in 0 .. H /\ col + t[2] - 1 \in 0 .. W}}

IsConvolution ==
  pass = "returned" =>
    \A row \in 0 .. H, col \in 0 .. W, ch \in 0 .. kernels - 1 :
      data_out[DATA_OUT(row, col, ch)] = Convolution(row, col, ch)
=============================================================================
