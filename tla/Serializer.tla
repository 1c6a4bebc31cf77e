----------------------------- MODULE Serializer -----------------------------
(***************************************************************************)
(* The serializer (serializer.vhd) takes a pixel with the values of all    *)
(* channels and gives them one by one to the dense layers.                 *)
(***************************************************************************)
EXTENDS Integers

CONSTANTS
  INPUT_CHANNELS,
  Zero                (* data of an idle clock                            *)

VARIABLES serialize, output_counter, Data_i_reg, s_Ready_o, Valid_o, Data_o

serializerVars == << serialize, output_counter, Data_i_reg, s_Ready_o, Valid_o, Data_o >>

SerializerInit ==
  /\ serialize = FALSE
  /\ output_counter = 0
  /\ Data_i_reg = Zero
  /\ s_Ready_o = FALSE
  /\ Valid_o = FALSE
  /\ Data_o = Zero

-----------------------------------------------------------------------------
Channel(pixel, c) == << pixel, c >>

(* Mutant: a value is sent whether or not the dense layers are ready. *)
SendsAlways(Valid_i, Ready_i) == serialize \/ Valid_i

Sends(Valid_i, Ready_i) == Ready_i /\ (serialize \/ Valid_i)

(* serialize in the next clock. *)
Serializes(Valid_i, Ready_i) ==
  IF serialize THEN ~(Ready_i /\ output_counter = INPUT_CHANNELS - 1) ELSE Valid_i

(* While no pixel is held, ready is high in every second clock. *)
SerializerStep(Valid_i, Data_i, Ready_i) ==
  /\ s_Ready_o' = (~serialize /\ ~s_Ready_o)
  /\ serialize' = Serializes(Valid_i, Ready_i)
  /\ Data_i_reg' = IF ~serialize /\ Valid_i THEN Data_i ELSE Data_i_reg
  /\ Valid_o' = Sends(Valid_i, Ready_i)
  /\ IF Sends(Valid_i, Ready_i)
     THEN /\ Data_o' = IF serialize THEN Channel(Data_i_reg, output_counter)
                                    ELSE Channel(Data_i, 0)
          /\ output_counter' = (output_counter + 1) % INPUT_CHANNELS
     ELSE Data_o' = Zero /\ UNCHANGED output_counter
=============================================================================
