----------------------------- MODULE MemCtrlData -----------------------------
(***************************************************************************)
(* A memory controller with the pixels it moves: MemCtrl_3x3, its block    *)
(* RAM (bram.vhd) and its line buffer (STD_FIFO), wired as in the top      *)
(* level. Pixels carry the image they belong to and their index in it, so  *)
(* that a vector that mixes images, rows or columns is visible.            *)
(***************************************************************************)
EXTENDS MemCtrl, FiniteSets

CONSTANTS
  Images,             (* the images the previous layer may send           *)
  NoImage

ASSUME ImagesAssumption == NoImage \notin Images

Pixel(image, index) == << image, index >>
Zero      == Pixel(NoImage, 0)      \* padding
Undefined == Pixel(NoImage, 1)      \* block RAM and line buffer at power-up
NoPair    == << Undefined, Undefined >>

Addresses == 0 .. 2 * BlockSize - 1

VARIABLES
  bus,                (* previous layer: [image, pos] of the next pixel   *)
  rx_image,           (* history: the image of the last transfer          *)
  rd_data_buffer,     (* rest of the bus word, index 0 is the last pixel  *)
  Bram_pa,            (* port A: [wea, addr, data] registers              *)
  bram_pa,            (* the same one clock later, inside the block RAM   *)
  pb_addr,            (* port B address, inside the block RAM             *)
  pb_data,            (* port B data, Bram_pb_data_rd_i                   *)
  ram,
  tdata,              (* M_layer_tdata_1_o .. M_layer_tdata_3_o           *)
  m_layer_tvalid, M_layer_tlast, M_layer_tnewrow, m_newrow,
  fifo_srst, fifo_in, fifo_wr, fifo_rd,
  sent,               (* history: vectors of the image the next layer took*)
  Memory, head, tail, looped, Full_o, Empty_o, Data_o   \* the line buffer

LineBuffer == INSTANCE StdFifo WITH
  FIFO_DEPTH <- LAYER_WIDTH + 1, Data <- {}, Undefined <- NoPair

portVars == << bus, rx_image, rd_data_buffer, Bram_pa >>
bramVars == << bram_pa, pb_addr, pb_data, ram >>
outVars  == << tdata, m_layer_tvalid, M_layer_tlast, M_layer_tnewrow,
               m_newrow, fifo_srst, fifo_in, fifo_wr, fifo_rd, sent >>
dataVars == << vars, portVars, bramVars, outVars,
               Memory, head, tail, looped, Full_o, Empty_o, Data_o >>

NoWrite == [wea |-> FALSE, addr |-> 0, data |-> Zero]

DataInit ==
  /\ Init
  /\ bus \in [image : Images, pos : {0}]
  /\ rx_image = NoImage
  /\ rd_data_buffer = [i \in 0 .. AXI_WIDTH_MUL - 2 |-> Zero]
  /\ Bram_pa = NoWrite
  /\ bram_pa = NoWrite
  /\ pb_addr = 0
  /\ pb_data = Undefined
  /\ ram = [a \in Addresses |-> Undefined]
  /\ tdata = << Zero, Zero, Zero >>
  /\ m_layer_tvalid = FALSE /\ M_layer_tlast = FALSE
  /\ M_layer_tnewrow = FALSE /\ m_newrow = FALSE
  /\ fifo_srst = FALSE /\ fifo_in = << Zero, Zero >>
  /\ fifo_wr = FALSE /\ fifo_rd = FALSE
  /\ sent = 0
  /\ LineBuffer!Init

-----------------------------------------------------------------------------
(* The previous layer: image after image, pixel after pixel; it moves on   *)
(* when the bus transfers, and may choose any image to come next.          *)
BusPixels == IF AXI4_STREAM_INPUT = 1 THEN AXI_WIDTH_MUL ELSE 1

InputBus(tvalid) ==
  IF tvalid /\ S_layer_tready
  THEN /\ rx_image' = bus.image
       /\ IF bus.pos + BusPixels < BlockSize
          THEN bus' = [bus EXCEPT !.pos = @ + BusPixels]
          ELSE \E next \in Images : bus' = [image |-> next, pos |-> 0]
  ELSE UNCHANGED << bus, rx_image >>

(* Port A: the pixel stored in this clock. The first pixel of a bus word is
   its most significant one, the rest waits in rd_data_buffer. *)
StoredPixel ==
  IF wr_state = "SAVE" THEN rd_data_buffer[buf_cnt - 1] ELSE Pixel(bus.image, bus.pos)

WritePort(tvalid) ==
  /\ Bram_pa' =
       IF Stores(tvalid)
       THEN [wea |-> TRUE, addr |-> wr_position, data |-> StoredPixel]
       ELSE IF wr_state = "START"
            THEN [wea |-> FALSE, data |-> Zero,
                  addr |-> IF next_block_write # Wait THEN Base(next_block_write)
                           ELSE Bram_pa.addr]
            ELSE [Bram_pa EXCEPT !.wea = FALSE]
  /\ rd_data_buffer' =
       IF wr_state = "NEW_DATA" /\ tvalid
       THEN [i \in DOMAIN rd_data_buffer |->
               Pixel(bus.image, bus.pos + AXI_WIDTH_MUL - 1 - i)]
       ELSE rd_data_buffer

(* bram.vhd: both ports register their inputs, so that writing and reading  *)
(* take two clocks. Port B belongs to the debug read-out while dbg_active,  *)
(* its address is then whatever the driver asks for.                       *)
BramStep ==
  /\ bram_pa' = Bram_pa
  /\ ram' = IF bram_pa.wea THEN [ram EXCEPT ![bram_pa.addr] = bram_pa.data] ELSE ram
  /\ pb_addr' \in (IF dbg_active THEN Addresses ELSE {rd_position})
  /\ pb_data' = ram[pb_addr]

-----------------------------------------------------------------------------
(* DefaultRead, the registers with pixels. Data_o is the line buffer's      *)
(* output: a pixel and the one above it.                                   *)
UpperPadding == rd_row = 0
LowerPadding == rd_row > LAYER_HIGHT - 1

MoveVector ==
  LET above == IF UpperPadding THEN Zero ELSE Data_o[2]
      below == IF LowerPadding THEN Zero ELSE pb_data
  IN  /\ fifo_in' = << above, below >>
      /\ tdata' = << IF UpperPadding THEN Zero ELSE Data_o[1], above, below >>
      /\ m_layer_tvalid' = ~UpperPadding

MoveOutputs(tready) ==
  /\ rd_state = "MOVE"
  /\ MoveVector
  /\ fifo_wr' = tready
  /\ fifo_rd' = (tready /\ (~UpperPadding \/ rd_cnt >= LAYER_WIDTH - 2))
  /\ m_newrow' = IF tready THEN rd_cnt >= LAYER_WIDTH - 1 ELSE m_newrow
  /\ UNCHANGED << M_layer_tlast, fifo_srst >>

StartOutputs ==
  /\ rd_state = "START"
  /\ m_layer_tvalid' = FALSE
  /\ M_layer_tlast' = FALSE
  /\ fifo_srst' = TRUE
  /\ fifo_wr' = FALSE
  /\ fifo_rd' = FALSE
  /\ UNCHANGED << tdata, fifo_in, m_newrow >>

WaitOutputs ==
  /\ rd_state = "WAIT_CY"
  /\ fifo_srst' = FALSE
  /\ UNCHANGED << tdata, m_layer_tvalid, M_layer_tlast, m_newrow,
                  fifo_in, fifo_wr, fifo_rd >>

(* One vector of zeros with tlast ends the image. *)
StopOutputs ==
  /\ rd_state = "STOP"
  /\ m_layer_tvalid' = TRUE
  /\ M_layer_tlast' = TRUE
  /\ tdata' = << Zero, Zero, Zero >>
  /\ fifo_wr' = FALSE
  /\ fifo_rd' = FALSE
  /\ UNCHANGED << m_newrow, fifo_srst, fifo_in >>

ReadOutputs(tready) ==
  /\ \/ StartOutputs
     \/ WaitOutputs
     \/ MoveOutputs(tready)
     \/ StopOutputs
  /\ M_layer_tnewrow' = m_newrow
  /\ sent' = IF rd_state = "WAIT_CY" THEN 0
             ELSE IF m_layer_tvalid /\ tready THEN sent + 1 ELSE sent

-----------------------------------------------------------------------------
DataTick(tvalid, tlast, tready) ==
  /\ Tick(tvalid, tlast, tready)
  /\ InputBus(tvalid)
  /\ WritePort(tvalid)
  /\ BramStep
  /\ ReadOutputs(tready)
  /\ LineBuffer!FifoStep(fifo_srst, fifo_rd, fifo_wr, fifo_in)

-----------------------------------------------------------------------------
(***************************************************************************)
(* The queue of images the controller implements. A block holds the image  *)
(* of its first pixel; the older of two full blocks is the one the read    *)
(* side of the arbiter is at.                                              *)
(***************************************************************************)
ImageOf(b) == ram[Base(b)][1]

FullBlocks == {b \in Blocks : block_full[b]}

ImageQueueNow ==
  CASE FullBlocks = {}       -> << >>
    [] Cardinality(FullBlocks) = 1 -> << ImageOf(CHOOSE b \in FullBlocks : TRUE) >>
    [] OTHER -> LET first == IF rd_bl_state \in Blocks THEN rd_bl_state ELSE "BLOCK0"
                IN  << ImageOf(first), ImageOf(Other(first)) >>

ReceivingNow == IF ~wr_block_done \/ WrDoneEdge THEN rx_image ELSE NoImage
SendingNow == IF ~rd_block_done \/ RdDoneEdge THEN ImageQueueNow[1] ELSE NoImage

Queue == INSTANCE ImageQueue WITH
  Capacity <- 2, queue <- ImageQueueNow, receiving <- ReceivingNow,
  sending <- SendingNow

(***************************************************************************)
(* The controller is a queue of two images: no image is lost, repeated or  *)
(* overtaken between the bus and the next layer, and reception goes on     *)
(* while an image is sent.                                                 *)
(***************************************************************************)
IsImageQueue == Queue!Spec

(***************************************************************************)
(* Every vector the next layer gets is the column it should be: the pixels *)
(* above, at and below position sent of the image being sent, zero outside *)
(* the image, a new-row mark on the first of each row, and one last vector *)
(* of zeros with tlast.                                                    *)
(***************************************************************************)
At(image, row, col) == IF row \in 0 .. LAYER_HIGHT - 1
                       THEN Pixel(image, row * LAYER_WIDTH + col) ELSE Zero

Column(image, n) ==
  LET row == n \div LAYER_WIDTH
      col == n % LAYER_WIDTH
  IN  << At(image, row - 1, col), At(image, row, col), At(image, row + 1, col) >>

VectorsAreColumns ==
  m_layer_tvalid =>
    IF sent < BlockSize
    THEN /\ tdata = Column(SendingNow, sent)
         /\ M_layer_tnewrow = (sent % LAYER_WIDTH = 0)
         /\ ~M_layer_tlast
    ELSE /\ sent = BlockSize
         /\ tdata = << Zero, Zero, Zero >>
         /\ M_layer_tlast
=============================================================================
