---------------------------- MODULE ConvInputProofs ----------------------------
(***************************************************************************)
(* Theorems about the pixels on their way through a memory controller and  *)
(* its shift register, without debugging: the columns and windows, while   *)
(* nothing stalls; the queue of images, always.                            *)
(***************************************************************************)
EXTENDS ConvInput, MemCtrlProofs, FiniteSetTheorems, SequenceTheorems

-----------------------------------------------------------------------------
(***************************************************************************)
(* The write side. What the block RAM will hold at an address once the     *)
(* writes on their way have arrived.                                       *)
(***************************************************************************)
Settled(a) ==
  IF Bram_pa.wea /\ Bram_pa.addr = a THEN Bram_pa.data
  ELSE IF bram_pa.wea /\ bram_pa.addr = a THEN bram_pa.data ELSE ram[a]

(* The first count pixels of the image are in block b. *)
Holds(b, image, count) == \A k \in 0 .. count - 1 : Settled(Base(b) + k) = Pixel(image, k)

Whole(b) == Holds(b, Settled(Base(b))[1], BlockSize)

Within(a, b) == a \in Base(b) .. Base(b) + BlockSize - 1

PortType ==
  /\ \A port \in {Bram_pa, bram_pa} :
       /\ port = [wea |-> port.wea, addr |-> port.addr, data |-> port.data]
       /\ port.wea \in BOOLEAN
  /\ ram = [a \in Addresses |-> ram[a]]
  /\ rd_data_buffer = [i \in 0 .. AXI_WIDTH_MUL - 2 |-> rd_data_buffer[i]]
  /\ bus = [image |-> bus.image, pos |-> bus.pos]

(***************************************************************************)
(* The bus and the write process are at the same pixel; the rest of a bus  *)
(* word waits in rd_data_buffer, while the bus is already at the next one. *)
(***************************************************************************)
BusInv ==
  /\ S_layer_tready <=> wr_state = Receiving
  /\ bus.image \in Images
  /\ wr_state = "START" => bus.pos = 0
  /\ wr_state = Receiving => bus.pos = wr_cnt
  /\ wr_state # "START" /\ wr_cnt > 0 => rx_image \in Images
  /\ wr_state = Receiving /\ wr_cnt > 0 => bus.image = rx_image
  /\ wr_state = "SAVE" =>
       /\ \A i \in 0 .. AXI_WIDTH_MUL - 2 :
            rd_data_buffer[i] = Pixel(rx_image, wr_cnt + buf_cnt - 1 - i)
       /\ IF wr_cnt + buf_cnt < BlockSize
          THEN bus.image = rx_image /\ bus.pos = wr_cnt + buf_cnt
          ELSE bus.pos = 0

(* A write has arrived before its block is streamed. *)
PendingInv ==
  /\ Bram_pa.wea => \E b \in Blocks : Within(Bram_pa.addr, b) /\ ~block_full[b]
  /\ bram_pa.wea => \E b \in Blocks : Within(bram_pa.addr, b) /\ rd_bl_state # b

ContentInv ==
  /\ \A b \in Blocks : Filling(b) => Holds(b, rx_image, wr_cnt)
  /\ \A b \in Blocks : block_full[b] \/ Commits(b) => Whole(b)

-----------------------------------------------------------------------------
(***************************************************************************)
(* The read side. Clocks numbers the clocks of the walk over the rows.     *)
(***************************************************************************)
Clocks == rd_row * LAYER_WIDTH + rd_cnt

Streamed == ImageOf(rd_bl_state)

(* What comes out of the block RAM is the pixel the read process is at. *)
PipeInv ==
  /\ rd_state = "WAIT_CY" /\ rd_cnt = 1 => pb_addr = Base(rd_bl_state)
  /\ rd_state = "MOVE" =>
       /\ Clocks + 1 < BlockSize => pb_addr = Base(rd_bl_state) + Clocks + 1
       /\ Clocks < BlockSize => pb_data = Pixel(Streamed, Clocks)

(* The image row after row, zero outside. *)
Scan(image, i) == IF i \in 0 .. BlockSize - 1 THEN Pixel(image, i) ELSE Zero

Entry(image, i)  == << Scan(image, i - LAYER_WIDTH), Scan(image, i) >>
Vector(image, i) ==
  << Scan(image, i - LAYER_WIDTH), Scan(image, i), Scan(image, i + LAYER_WIDTH) >>

(* Pairs written to and read from the line buffer so far. *)
Written == IF Clocks = 0 THEN 0 ELSE Clocks - 1
Read    == IF Clocks < LAYER_WIDTH - 1 THEN 0 ELSE Clocks - LAYER_WIDTH + 1

(* The line buffer holds the pairs from number first on. *)
Buffers(first, count) ==
  /\ head \in LineBuffer!Slots /\ tail \in LineBuffer!Slots /\ looped \in BOOLEAN
  /\ IF looped THEN head < tail ELSE tail <= head
  /\ LineBuffer!Count = count
  /\ \A i \in 1 .. count : Memory[LineBuffer!Slot(i)] = Entry(Streamed, first + i - 1)

(* What comes out of the line buffer is the pair of a row ago. *)
RowInv ==
  /\ Memory = [s \in LineBuffer!Slots |-> Memory[s]]
  /\ fifo_wr \in BOOLEAN /\ fifo_rd \in BOOLEAN
  /\ rd_state \in {"START", "WAIT_CY"} => ~fifo_wr /\ ~fifo_rd
  /\ rd_state = "WAIT_CY" =>
       IF rd_cnt = 0 THEN fifo_srst ELSE ~fifo_srst /\ head = 0 /\ tail = 0 /\ ~looped
  /\ rd_state = "MOVE" =>
       /\ ~fifo_srst
       /\ fifo_wr <=> Clocks > 0
       /\ fifo_rd <=> Clocks >= LAYER_WIDTH - 1
       /\ Clocks > 0 => fifo_in = Entry(Streamed, Clocks - 1)
       /\ Clocks >= LAYER_WIDTH => Data_o = Entry(Streamed, Clocks - LAYER_WIDTH)
       /\ Buffers(Read, Written - Read)

(* The vectors that leave. *)
OutInv ==
  /\ m_layer_tvalid \in BOOLEAN /\ M_layer_tlast \in BOOLEAN /\ M_layer_tnewrow \in BOOLEAN
  /\ m_newrow \in BOOLEAN
  /\ rd_state = "START" /\ m_layer_tvalid =>
       /\ sent = BlockSize /\ tdata = << Zero, Zero, Zero >>
       /\ M_layer_tlast /\ M_layer_tnewrow
  /\ rd_state = "WAIT_CY" => ~m_layer_tvalid /\ ~M_layer_tlast /\ (rd_cnt = 1 => sent = 0)
  /\ rd_state \in {"MOVE", "STOP"} =>
       /\ ~M_layer_tlast
       /\ m_layer_tvalid <=> Clocks > LAYER_WIDTH
       /\ sent = IF m_layer_tvalid THEN Clocks - LAYER_WIDTH - 1 ELSE 0
       /\ Clocks > 0 => (m_newrow <=> rd_cnt = 0)
       /\ m_layer_tvalid => /\ tdata = Vector(Streamed, sent)
                            /\ M_layer_tnewrow <=> sent % LAYER_WIDTH = 0

WriteInv == PortType /\ BusInv /\ PendingInv /\ ContentInv
ReadInv == PipeInv /\ RowInv /\ OutInv

-----------------------------------------------------------------------------
(***************************************************************************)
(* The shift register. When vector number sent is at its input it has taken*)
(* those before; the window around pixel sent - 2 is at its output.        *)
(***************************************************************************)
WindowInv ==
  /\ S_tready = TRUE /\ M_tvalid \in BOOLEAN /\ M_tlast \in BOOLEAN
  /\ ~m_layer_tvalid \/ sent = 0 => sr_state = "INIT"
  /\ m_layer_tvalid /\ sent = 0 => ~M_tvalid
  /\ m_layer_tvalid /\ sent > 0 =>
       /\ ~M_tlast
       /\ sent < BlockSize => win_image = Streamed
       /\ IF sent % LAYER_WIDTH = 1
          THEN sr_state = "NEW_LINE" /\ data_buffer = Vector(win_image, sent - 1)
          ELSE sr_state = "RUN"
       /\ IF sent = 1
          THEN ~M_tvalid /\ win_count = 0
          ELSE M_tvalid /\ win_count = sent - 2 /\ data = Window(win_image, win_count)
  /\ ~m_layer_tvalid /\ M_tvalid =>
       M_tlast /\ win_count = BlockSize - 1 /\ data = Window(win_image, win_count)

-----------------------------------------------------------------------------
(***************************************************************************)
(* Addresses.                                                              *)
(***************************************************************************)
LEMMA BlockAddresses ==
  /\ \A b \in Blocks : Base(b) \in Addresses /\ Base(b) \in Nat
  /\ \A b \in Blocks, k \in 0 .. BlockSize - 1 :
       /\ Within(Base(b) + k, b) /\ Base(b) + k \in Addresses
       /\ Base(b) + k < 2 * BlockSize
  /\ \A a \in Int, b, c \in Blocks : Within(a, b) /\ Within(a, c) => b = c
  /\ \A a \in Int, b \in Blocks : Within(a, b) => a \in Addresses /\ a - Base(b) \in 0 .. BlockSize - 1
<1>1. BlockSize \in Nat /\ BlockSize >= 3
  BY Geometry
<1>2. \A b \in Blocks : Base(b) \in {0, BlockSize}
  BY BaseValues
<1>3. \A b, c \in Blocks : Base(b) = Base(c) => b = c
  BY BaseValues
<1> QED
  BY <1>1, <1>2, <1>3 DEF Within, Addresses

-----------------------------------------------------------------------------
(***************************************************************************)
(* The write side.                                                         *)
(***************************************************************************)
LEMMA BusMoves ==
  ASSUME PortType, NEW tvalid \in BOOLEAN, InputBus(tvalid)
  PROVE  /\ bus' = [image |-> (bus').image, pos |-> (bus').pos]
         /\ IF tvalid /\ S_layer_tready
            THEN /\ rx_image' = bus.image
                 /\ IF bus.pos + BusPixels < BlockSize
                    THEN (bus').image = bus.image /\ (bus').pos = bus.pos + BusPixels
                    ELSE (bus').image \in Images /\ (bus').pos = 0
            ELSE /\ rx_image' = rx_image
                 /\ (bus').image = bus.image /\ (bus').pos = bus.pos
  BY DEF PortType, InputBus

(* The registers of port A and the RAM keep their shape. *)
LEMMA PortTypeKept ==
  ASSUME PortType, NEW tvalid \in BOOLEAN, InputBus(tvalid), WritePort(tvalid), BramStep
  PROVE  PortType'
<1>1. /\ Bram_pa = [wea |-> Bram_pa.wea, addr |-> Bram_pa.addr, data |-> Bram_pa.data]
      /\ Bram_pa.wea \in BOOLEAN
  BY DEF PortType
<1>2. /\ Bram_pa' = [wea |-> (Bram_pa').wea, addr |-> (Bram_pa').addr, data |-> (Bram_pa').data]
      /\ (Bram_pa').wea \in BOOLEAN
  BY <1>1 DEF WritePort
<1>3. /\ bram_pa' = [wea |-> (bram_pa').wea, addr |-> (bram_pa').addr, data |-> (bram_pa').data]
      /\ (bram_pa').wea \in BOOLEAN
  BY <1>1 DEF BramStep
<1>4. ram' = [a \in Addresses |-> ram'[a]]
  BY DEF PortType, BramStep
<1>5. rd_data_buffer' = [i \in 0 .. AXI_WIDTH_MUL - 2 |-> rd_data_buffer'[i]]
  BY DEF PortType, WritePort
<1> QED
  BY <1>2, <1>3, <1>4, <1>5, BusMoves DEF PortType

(* A clock adds the pixel stored in it. *)
LEMMA SettledAfter ==
  ASSUME PortType, NEW tvalid \in BOOLEAN, WritePort(tvalid), BramStep, NEW a \in Addresses
  PROVE  Settled(a)' = IF Stores(tvalid) /\ wr_position = a THEN StoredPixel ELSE Settled(a)
<1>1. IF Stores(tvalid)
      THEN (Bram_pa').wea = TRUE /\ (Bram_pa').addr = wr_position /\ (Bram_pa').data = StoredPixel
      ELSE (Bram_pa').wea = FALSE
  BY DEF WritePort, PortType
<1>2. /\ bram_pa' = Bram_pa
      /\ ram'[a] = IF bram_pa.wea /\ bram_pa.addr = a THEN bram_pa.data ELSE ram[a]
  BY DEF BramStep, PortType
<1> QED
  BY <1>1, <1>2 DEF Settled

(* Bus and write process stay at the same pixel. *)
LEMMA BusKept ==
  ASSUME CInv, PortType, BusInv, NEW tvalid \in BOOLEAN, NEW tlast \in BOOLEAN,
         BlockWriteStep(tvalid, tlast), InputBus(tvalid), WritePort(tvalid)
  PROVE  BusInv'
<1> DEFINE image == bus.image
           pos == bus.pos
           nextImage == (bus').image
           nextPos == (bus').pos
<1>1. IF tvalid /\ S_layer_tready
      THEN /\ rx_image' = image
           /\ IF pos + BusPixels < BlockSize
              THEN nextImage = image /\ nextPos = pos + BusPixels
              ELSE nextImage \in Images /\ nextPos = 0
      ELSE rx_image' = rx_image /\ nextImage = image /\ nextPos = pos
  BY BusMoves
<1>2. /\ ~DebugAbort /\ WordBegun
      /\ wr_state \in WrStates /\ wr_cnt \in 0 .. BlockSize - 1
      /\ buf_cnt \in 0 .. AXI_WIDTH_MUL - 1
      /\ S_layer_tready \in BOOLEAN
  BY DEF CInv, NoDebugging, IInv, TypeOK, BlockWriteType, DebugAbort, dbg_active
<1>3. /\ S_layer_tready <=> wr_state = Receiving
      /\ image \in Images
      /\ wr_state = "START" => pos = 0
      /\ wr_state = Receiving => pos = wr_cnt
      /\ wr_state # "START" /\ wr_cnt > 0 => rx_image \in Images
      /\ wr_state = Receiving /\ wr_cnt > 0 => image = rx_image
      /\ wr_state = "SAVE" => IF wr_cnt + buf_cnt < BlockSize
                              THEN image = rx_image /\ pos = wr_cnt + buf_cnt
                              ELSE pos = 0
  BY DEF BusInv
<1>4. wr_state = "SAVE" => \A i \in 0 .. AXI_WIDTH_MUL - 2 :
                             rd_data_buffer[i] = Pixel(rx_image, wr_cnt + buf_cnt - 1 - i)
  BY DEF BusInv
<1>5. /\ wr_state = "NEW_DATA" /\ tvalid =>
           \A i \in 0 .. AXI_WIDTH_MUL - 2 : rd_data_buffer'[i] = Pixel(image, pos + AXI_WIDTH_MUL - 1 - i)
      /\ ~(wr_state = "NEW_DATA" /\ tvalid) => rd_data_buffer' = rd_data_buffer
  BY DEF WritePort, PortType
<1>6. nextImage \in Images
  BY <1>1, <1>3
<1> HIDE DEF image, pos, nextImage, nextPos
<1> DEFINE Rest == /\ S_layer_tready' <=> wr_state' = Receiving
                   /\ wr_state' = "START" => nextPos = 0
                   /\ wr_state' = Receiving => nextPos = wr_cnt'
                   /\ wr_state' # "START" /\ wr_cnt' > 0 => rx_image' \in Images
                   /\ wr_state' = Receiving /\ wr_cnt' > 0 => nextImage = rx_image'
                   /\ wr_state' = "SAVE" => IF wr_cnt' + buf_cnt' < BlockSize
                                            THEN nextImage = rx_image' /\ nextPos = wr_cnt' + buf_cnt'
                                            ELSE nextPos = 0
           Word == wr_state' = "SAVE" =>
                     \A i \in 0 .. AXI_WIDTH_MUL - 2 :
                       rd_data_buffer'[i] = Pixel(rx_image', wr_cnt' + buf_cnt' - 1 - i)
<1>7. ASSUME WrTakeBlock PROVE Rest /\ Word
  <2>1. Rest
    BY <1>1, <1>2, <1>3, <1>7, Geometry DEF WrTakeBlock, Receiving, WrStates
  <2>2. Word
    BY <1>7 DEF WrTakeBlock, Receiving
  <2> QED
    BY <2>1, <2>2
<1>8. ASSUME WrNoBlock PROVE Rest /\ Word
  <2>1. Rest
    BY <1>1, <1>2, <1>3, <1>8, Geometry DEF WrNoBlock, Receiving, WrStates
  <2>2. Word
    BY <1>8 DEF WrNoBlock
  <2> QED
    BY <2>1, <2>2
<1>9. ASSUME ~tvalid /\ WrIdle PROVE Rest /\ Word
  <2>1. Rest
    BY <1>1, <1>2, <1>3, <1>9, Geometry DEF WrIdle, Receiving, WrStates
  <2>2. Word
    BY <1>2, <1>9 DEF WrIdle, Receiving
  <2> QED
    BY <2>1, <2>2
<1>10. ASSUME tvalid /\ WrMove(tlast) PROVE Rest /\ Word
  <2>0. Receiving = "MOVE" /\ BusPixels = 1
    BY <1>2, <1>10, GeometryAssumption DEF WrMove, WrStates, Receiving, BusPixels
  <2>1. Rest
    <3>1. /\ wr_state = "MOVE" /\ S_layer_tready /\ pos = wr_cnt
          /\ rx_image' = image
          /\ IF wr_cnt + 1 < BlockSize THEN nextImage = image /\ nextPos = wr_cnt + 1
                                       ELSE nextImage \in Images /\ nextPos = 0
      BY <1>1, <1>3, <1>10, <2>0 DEF WrMove
    <3>2. IF wr_cnt + 1 < BlockSize
          THEN wr_state' = "MOVE" /\ wr_cnt' = wr_cnt + 1 /\ S_layer_tready' = S_layer_tready
          ELSE wr_state' = "START" /\ wr_cnt' = 0 /\ S_layer_tready' = FALSE
      BY <1>2, <1>10, Geometry DEF WrMove, CompleteBlock, StorePixel, EndsBlock
    <3> QED
      BY <1>2, <1>3, <2>0, <3>1, <3>2, Geometry
  <2>2. Word
    BY <1>2, <1>10 DEF WrMove, CompleteBlock, StorePixel
  <2> QED
    BY <2>1, <2>2
<1>11. ASSUME tvalid /\ WrNewData(tlast) PROVE Rest /\ Word
  <2>0. Receiving = "NEW_DATA" /\ BusPixels = AXI_WIDTH_MUL
    BY <1>2, <1>11, GeometryAssumption DEF WrNewData, WrStates, Receiving, BusPixels
  <2>1. Rest
    BY <1>1, <1>2, <1>3, <1>11, <2>0, Geometry DEF WrNewData, CompleteBlock, StorePixel, EndsBlock
  <2>2. Word
    <3> SUFFICES ASSUME wr_state' = "SAVE", NEW i \in 0 .. AXI_WIDTH_MUL - 2
                 PROVE  rd_data_buffer'[i] = Pixel(rx_image', wr_cnt' + buf_cnt' - 1 - i)
      OBVIOUS
    <3>1. /\ wr_cnt' = wr_cnt + 1 /\ buf_cnt' = AXI_WIDTH_MUL - 1
          /\ rx_image' = image /\ pos = wr_cnt
          /\ rd_data_buffer'[i] = Pixel(image, pos + AXI_WIDTH_MUL - 1 - i)
      BY <1>1, <1>3, <1>5, <1>11, <2>0 DEF WrNewData, CompleteBlock, StorePixel
    <3>2. wr_cnt' + buf_cnt' - 1 - i = pos + AXI_WIDTH_MUL - 1 - i
      BY <1>2, <3>1, Geometry
    <3> QED
      BY <3>1, <3>2
  <2> QED
    BY <2>1, <2>2
<1>12. ASSUME WrSave PROVE Rest /\ Word
  <2>0. Receiving = "NEW_DATA"
    BY <1>2, <1>12, GeometryAssumption DEF WrSave, WrStates, Receiving
  <2>1. Rest
    <3>1. /\ wr_state = "SAVE" /\ ~S_layer_tready /\ wr_cnt >= 1 /\ buf_cnt >= 1
          /\ rx_image' = rx_image /\ nextImage = image /\ nextPos = pos
      BY <1>1, <1>2, <1>3, <1>12, <2>0 DEF WrSave, WordBegun
    <3>2. /\ buf_cnt' = buf_cnt - 1
          /\ EndsBlock => wr_state' = "START" /\ wr_cnt' = 0 /\ S_layer_tready' = FALSE
          /\ ~EndsBlock => /\ wr_cnt' = wr_cnt + 1
                           /\ wr_state' = IF buf_cnt = 1 THEN "NEW_DATA" ELSE "SAVE"
                           /\ S_layer_tready' = (buf_cnt = 1)
      BY <1>12, Zenon DEF WrSave, CompleteBlock, StorePixel
    <3>0. EndsBlock <=> ~(wr_cnt + 1 < BlockSize)
      BY <1>2, Geometry DEF EndsBlock
    <3>3. CASE wr_cnt + 1 < BlockSize
      <4>1. /\ rx_image \in Images /\ wr_cnt' + buf_cnt' = wr_cnt + buf_cnt
            /\ buf_cnt = 1 => wr_cnt + buf_cnt < BlockSize
        BY <1>2, <1>3, <3>1, <3>0, <3>2, <3>3, Geometry
      <4> QED
        BY <1>2, <1>3, <2>0, <3>1, <3>0, <3>2, <3>3, <4>1
    <3>4. CASE ~(wr_cnt + 1 < BlockSize)
      <4>1. ~(wr_cnt + buf_cnt < BlockSize)
        BY <1>2, <3>1, <3>4, Geometry
      <4> QED
        BY <1>2, <1>3, <2>0, <3>1, <3>0, <3>2, <3>4, <4>1
    <3> QED
      BY <3>3, <3>4
  <2>2. Word
    <3> SUFFICES ASSUME wr_state' = "SAVE", NEW i \in 0 .. AXI_WIDTH_MUL - 2
                 PROVE  rd_data_buffer'[i] = Pixel(rx_image', wr_cnt' + buf_cnt' - 1 - i)
      OBVIOUS
    <3>1. /\ wr_cnt' = wr_cnt + 1 /\ buf_cnt' = buf_cnt - 1 /\ wr_state = "SAVE"
          /\ rx_image' = rx_image
      BY <1>1, <1>3, <1>12, <2>0 DEF WrSave, CompleteBlock, StorePixel
    <3>2. wr_cnt' + buf_cnt' - 1 - i = wr_cnt + buf_cnt - 1 - i
      BY <1>2, <3>1, Geometry
    <3> QED
      BY <1>4, <1>5, <3>1, <3>2
  <2> QED
    BY <2>1, <2>2
<1>13. Rest /\ Word
  BY <1>7, <1>8, <1>9, <1>10, <1>11, <1>12, Zenon DEF BlockWriteStep
<1> QED
  BY <1>6, <1>13 DEF BusInv, nextImage, nextPos

(* How the write process moves on. *)
LEMMA WriteProgress ==
  ASSUME CInv, NEW tvalid \in BOOLEAN, NEW tlast \in BOOLEAN, BlockWriteStep(tvalid, tlast)
  PROVE  /\ wr_state = "START" => wr_cnt' = 0 /\ ~Stores(tvalid)
         /\ wr_state # "START" =>
              IF Stores(tvalid)
              THEN wr_position' = wr_position + 1 /\ (wr_state' # "START" => wr_cnt' = wr_cnt + 1)
              ELSE wr_position' = wr_position /\ wr_cnt' = wr_cnt
<1>1. /\ wr_state \in WrStates
      /\ "START" # Receiving /\ "SAVE" # Receiving
      /\ WrStates \subseteq {"START", "SAVE", Receiving}
  BY DEF CInv, IInv, TypeOK, BlockWriteType, Receiving, WrStates
<1>2. CASE WrTakeBlock \/ WrNoBlock
  BY <1>1, <1>2 DEF WrTakeBlock, WrNoBlock, Stores
<1>3. CASE ~tvalid /\ WrIdle
  BY <1>1, <1>3 DEF WrIdle, Stores
<1>4. CASE tvalid /\ WrMove(tlast)
  BY <1>1, <1>4 DEF WrMove, CompleteBlock, StorePixel, Stores
<1>5. CASE tvalid /\ WrNewData(tlast)
  BY <1>1, <1>5 DEF WrNewData, CompleteBlock, StorePixel, Stores
<1>6. CASE WrSave
  BY <1>1, <1>6 DEF WrSave, CompleteBlock, StorePixel, Stores
<1> QED
  BY <1>2, <1>3, <1>4, <1>5, <1>6, Zenon DEF BlockWriteStep

(* A pixel is stored into the block being filled, which is empty. *)
LEMMA StoresIntoEmpty ==
  ASSUME CInv, NEW tvalid \in BOOLEAN, Stores(tvalid)
  PROVE  \E b \in Blocks : /\ Filling(b) /\ Within(wr_position, b)
                           /\ ~block_full[b] /\ ~Commits(b)
<1>1. wr_state # "START"
  BY DEF Stores, Receiving
<1>2. PICK b \in Blocks : Filling(b)
  BY <1>1 DEF CInv, IInv, WriterInBlock
<1>3. ~block_full[b] /\ ~Commits(b)
  BY <1>1, <1>2 DEF CInv, IInv, FillsEmpty, WrittenOnce, Commits
<1>4. Within(wr_position, b)
  <2>1. wr_cnt \in 0 .. BlockSize - 1 /\ wr_position \in Nat /\ Base(b) \in Nat
    BY BlockAddresses DEF CInv, IInv, TypeOK, BlockWriteType
  <2> QED
    BY <1>2, <2>1, Geometry DEF Filling, Within
<1> QED
  BY <1>2, <1>3, <1>4

(* Writes on their way go to blocks that are not streamed. *)
LEMMA PendingKept ==
  ASSUME CInv, PortType, PendingInv, NEW tvalid \in BOOLEAN, NEW tlast \in BOOLEAN,
         BlockControlStep, WritePort(tvalid), BramStep
  PROVE  PendingInv'
<1>1. BlockControlType /\ ServesFull
  BY DEF CInv, IInv, TypeOK
<1>2. ASSUME (Bram_pa').wea
      PROVE  \E b \in Blocks : Within((Bram_pa').addr, b) /\ ~block_full'[b]
  <2>1. Stores(tvalid) /\ (Bram_pa').addr = wr_position
    BY <1>2 DEF WritePort, PortType
  <2>2. PICK b \in Blocks : Within(wr_position, b) /\ ~block_full[b] /\ ~Commits(b)
    BY <2>1, StoresIntoEmpty
  <2> QED
    BY <1>1, <2>1, <2>2, FullAfter
<1>3. ASSUME Bram_pa.wea
      PROVE  \E b \in Blocks : Within(Bram_pa.addr, b) /\ rd_bl_state' # b
  <2>1. PICK b \in Blocks : Within(Bram_pa.addr, b) /\ ~block_full[b]
    BY <1>3 DEF PendingInv
  <2> QED
    BY <1>1, <2>1, ReadSideServes
<1>4. bram_pa' = Bram_pa
  BY DEF BramStep
<1>5. \A a, b : Within(a, b) => Within(a, b)'
  BY DEF Within, Base
<1> QED
  BY <1>2, <1>3, <1>4, <1>5 DEF PendingInv, Within, Base

(* The pixel stored is the next one of the image. *)
LEMMA StoresNextPixel ==
  ASSUME CInv, PortType, BusInv, NEW tvalid \in BOOLEAN, InputBus(tvalid)
  PROVE  IF Stores(tvalid)
         THEN StoredPixel = Pixel(rx_image', wr_cnt) /\ (wr_cnt > 0 => rx_image' = rx_image)
         ELSE wr_state # "START" => rx_image' = rx_image
<1>1. /\ wr_state \in WrStates /\ wr_cnt \in 0 .. BlockSize - 1
      /\ buf_cnt \in 0 .. AXI_WIDTH_MUL - 1 /\ WordBegun
  BY DEF CInv, IInv, TypeOK, BlockWriteType
<1>2. /\ S_layer_tready <=> wr_state = Receiving
      /\ wr_state = Receiving => bus.pos = wr_cnt
      /\ wr_state = Receiving /\ wr_cnt > 0 => bus.image = rx_image
      /\ wr_state = "SAVE" => \A i \in 0 .. AXI_WIDTH_MUL - 2 :
                                rd_data_buffer[i] = Pixel(rx_image, wr_cnt + buf_cnt - 1 - i)
  BY DEF BusInv
<1>3. IF tvalid /\ S_layer_tready THEN rx_image' = bus.image ELSE rx_image' = rx_image
  BY BusMoves
<1>4. /\ Receiving # "START" /\ Receiving # "SAVE"
      /\ wr_state \in {"START", "SAVE", Receiving}
  BY <1>1 DEF Receiving, WrStates
<1>5. CASE wr_state = "SAVE"
  <2>1. /\ buf_cnt - 1 \in 0 .. AXI_WIDTH_MUL - 2
        /\ wr_cnt + buf_cnt - 1 - (buf_cnt - 1) = wr_cnt
    BY <1>1, <1>5, Geometry DEF WordBegun
  <2> QED
    BY <1>2, <1>3, <1>4, <1>5, <2>1 DEF Stores, StoredPixel
<1>6. CASE wr_state = Receiving
  BY <1>2, <1>3, <1>4, <1>6 DEF Stores, StoredPixel
<1>7. CASE wr_state = "START"
  BY <1>4, <1>7 DEF Stores
<1> QED
  BY <1>4, <1>5, <1>6, <1>7

(* The block being filled holds one more pixel of its image. *)
LEMMA FillGrows ==
  ASSUME CInv, PortType, BusInv, ContentInv,
         NEW tvalid \in BOOLEAN, InputBus(tvalid), WritePort(tvalid), BramStep,
         NEW b \in Blocks, Filling(b),
         NEW k \in 0 .. (IF Stores(tvalid) THEN wr_cnt ELSE wr_cnt - 1)
  PROVE  Settled(Base(b) + k)' = Pixel(rx_image', k)
<1>1. /\ wr_state # "START" /\ wr_position = Base(b) + wr_cnt
      /\ wr_cnt \in 0 .. BlockSize - 1 /\ k \in 0 .. BlockSize - 1
      /\ Base(b) + k \in Addresses
  <2>1. /\ wr_cnt \in 0 .. BlockSize - 1 /\ wr_position \in Nat /\ Base(b) \in Nat
    BY BlockAddresses DEF CInv, IInv, TypeOK, BlockWriteType
  <2>2. k \in 0 .. BlockSize - 1
    BY <2>1, Geometry
  <2> QED
    BY <2>1, <2>2, BlockAddresses DEF Filling
<1>2. Settled(Base(b) + k)' = IF Stores(tvalid) /\ wr_position = Base(b) + k
                              THEN StoredPixel ELSE Settled(Base(b) + k)
  <2> DEFINE a == Base(b) + k
  <2>1. a \in Addresses
    BY <1>1
  <2>2. a' = a
    BY DEF Base
  <2> HIDE DEF a
  <2>3. Settled(a)' = IF Stores(tvalid) /\ wr_position = a THEN StoredPixel ELSE Settled(a)
    BY <2>1, SettledAfter
  <2> QED
    BY <2>2, <2>3 DEF a
<1>3. CASE Stores(tvalid) /\ k = wr_cnt
  BY <1>1, <1>2, <1>3, StoresNextPixel
<1>4. CASE ~(Stores(tvalid) /\ k = wr_cnt)
  <2>1. k \in 0 .. wr_cnt - 1 /\ wr_cnt > 0
    BY <1>1, <1>4
  <2>2. rx_image' = rx_image
    BY <1>1, <2>1, StoresNextPixel
  <2>3. Settled(Base(b) + k) = Pixel(rx_image, k)
    BY <2>1 DEF ContentInv, Holds
  <2>4. ~(Stores(tvalid) /\ wr_position = Base(b) + k)
    BY <1>1, <1>4, BlockAddresses
  <2> QED
    BY <1>2, <2>2, <2>3, <2>4
<1> QED
  BY <1>3, <1>4

(* Nothing is stored into a block that is complete. *)
LEMMA WholeKept ==
  ASSUME CInv, PortType, NEW tvalid \in BOOLEAN, WritePort(tvalid), BramStep,
         NEW b \in Blocks, block_full[b] \/ Commits(b)
  PROVE  /\ \A k \in 0 .. BlockSize - 1 : Settled(Base(b) + k)' = Settled(Base(b) + k)
         /\ Whole(b) => Whole(b)'
<1>1. ASSUME NEW k \in 0 .. BlockSize - 1
      PROVE  Settled(Base(b) + k)' = Settled(Base(b) + k)
  <2> DEFINE a == Base(b) + k
  <2>1. a \in Addresses /\ Within(a, b) /\ a \in Int
    BY BlockAddresses DEF Addresses
  <2>2. a' = a
    BY DEF Base
  <2> HIDE DEF a
  <2>3. Settled(a)' = IF Stores(tvalid) /\ wr_position = a THEN StoredPixel ELSE Settled(a)
    BY <2>1, SettledAfter
  <2>4. ~(Stores(tvalid) /\ wr_position = a)
    <3> SUFFICES ASSUME Stores(tvalid), wr_position = a PROVE FALSE
      OBVIOUS
    <3>1. PICK c \in Blocks : Within(a, c) /\ ~block_full[c] /\ ~Commits(c)
      BY StoresIntoEmpty
    <3> QED
      BY <2>1, <3>1, BlockAddresses
  <2> QED
    BY <2>2, <2>3, <2>4 DEF a
<1>2. Settled(Base(b))' = Settled(Base(b))
  <2>1. 0 \in 0 .. BlockSize - 1 /\ Base(b) + 0 = Base(b)
    BY Geometry, BlockAddresses
  <2> DEFINE a == Base(b)
  <2>2. Settled(a + 0)' = Settled(a + 0) /\ a + 0 = a
    BY <1>1, <2>1
  <2> QED
    BY <2>2
<1>3. ASSUME Whole(b) PROVE Whole(b)'
  BY <1>1, <1>2, <1>3 DEF Whole, Holds
<1> QED
  BY <1>1, <1>3

(* Each pixel adds to the block being filled, full blocks stay as they are. *)
LEMMA ContentKept ==
  ASSUME CInv, CInv', PortType, BusInv, ContentInv,
         NEW tvalid \in BOOLEAN, NEW tlast \in BOOLEAN,
         BlockControlStep, BlockWriteStep(tvalid, tlast),
         InputBus(tvalid), WritePort(tvalid), BramStep
  PROVE  ContentInv'
<1>1. /\ BlockControlType /\ BlockWriteType /\ WordBegun /\ WriterInBlock
      /\ wr_block_done_R' = wr_block_done
      /\ wr_cnt \in 0 .. BlockSize - 1
  BY DEF CInv, IInv, TypeOK, BlockControlStep, BlockWriteType
<1>2. ASSUME NEW b \in Blocks, Filling(b)'
      PROVE  Holds(b, rx_image, wr_cnt)'
  <2>1. CASE wr_state = "START"
    <3>1. wr_cnt' = 0
      BY <2>1, WriteProgress
    <3> QED
      BY <3>1 DEF Holds
  <2>2. CASE wr_state # "START"
    <3>1. Filling(b)
      BY <1>1, <1>2, <2>2, WriterBlock
    <3>2. wr_state' # "START"
      BY <1>2 DEF Filling
    <3>3. wr_cnt' = IF Stores(tvalid) THEN wr_cnt + 1 ELSE wr_cnt
      BY <2>2, <3>2, WriteProgress
    <3>4. \A k \in 0 .. wr_cnt' - 1 : k \in 0 .. (IF Stores(tvalid) THEN wr_cnt ELSE wr_cnt - 1)
      BY <1>1, <3>3
    <3> QED
      BY <3>1, <3>4, FillGrows DEF Holds
  <2> QED
    BY <2>1, <2>2
<1>3. ASSUME NEW b \in Blocks, block_full'[b]
      PROVE  Whole(b)'
  <2>1. block_full[b] \/ Commits(b)
    BY <1>1, <1>3, FullAfter
  <2> QED
    BY <2>1, WholeKept DEF ContentInv
<1>4. ASSUME NEW b \in Blocks, Commits(b)'
      PROVE  Whole(b)'
  <2>1. WrDoneEdge' /\ wr_position' = Base(b) + BlockSize
    BY <1>4 DEF Commits, CInv, CommitsWrittenBlock, Base
  <2>2. PICK c \in Blocks : Filling(c) /\ wr_position' = Base(c) + BlockSize
    BY <1>1, <2>1, DoneAtLastPixel
  <2>3. c = b
    BY <2>1, <2>2, BaseValues, BlockAddresses, Geometry
  <2>4. Filling(b) /\ wr_state # "START" /\ wr_position = Base(b) + wr_cnt
    BY <1>1, <2>2, <2>3, BlockAddresses DEF Filling, BlockWriteType
  <2>5. Stores(tvalid) /\ wr_cnt = BlockSize - 1
    <3>1. wr_position' = wr_position \/ (Stores(tvalid) /\ wr_position' = wr_position + 1)
      BY <2>4, WriteProgress
    <3> QED
      BY <1>1, <2>1, <2>4, <3>1, BlockAddresses, Geometry
  <2>6. \A k \in 0 .. BlockSize - 1 : Settled(Base(b) + k)' = Pixel(rx_image', k)
    BY <2>4, <2>5, FillGrows
  <2>7. Settled(Base(b))'[1] = rx_image'
    <3>1. 0 \in 0 .. BlockSize - 1 /\ Base(b) + 0 = Base(b)
      BY Geometry, BlockAddresses
    <3> DEFINE a == Base(b)
    <3>2. Settled(a + 0)' = Pixel(rx_image', 0) /\ a + 0 = a
      BY <2>6, <3>1
    <3> QED
      BY <3>2 DEF Pixel
  <2> QED
    BY <2>6, <2>7 DEF Whole, Holds, Pixel
<1> QED
  BY <1>2, <1>3, <1>4 DEF ContentInv

-----------------------------------------------------------------------------
(***************************************************************************)
(* The read side. While a block is streamed, the block RAM holds it whole. *)
(***************************************************************************)
LEMMA StreamedBlock ==
  ASSUME CInv, PortType, PendingInv, ContentInv, rd_bl_state \in Blocks, block_full[rd_bl_state]
  PROVE  \A k \in 0 .. BlockSize - 1 :
           /\ Base(rd_bl_state) + k \in Addresses
           /\ ram[Base(rd_bl_state) + k] = Pixel(Streamed, k)
<1> DEFINE b == rd_bl_state
<1>1. ASSUME NEW k \in 0 .. BlockSize - 1 PROVE ram[Base(b) + k] = Settled(Base(b) + k)
  <2>1. ~(bram_pa.wea /\ bram_pa.addr = Base(b) + k)
    BY BlockAddresses DEF PendingInv, Addresses
  <2>2. ~(Bram_pa.wea /\ Bram_pa.addr = Base(b) + k)
    BY BlockAddresses DEF PendingInv, Addresses
  <2> QED
    BY <2>1, <2>2 DEF Settled
<1>2. \A k \in 0 .. BlockSize - 1 : ram[Base(b) + k] = Pixel(Settled(Base(b))[1], k)
  BY <1>1 DEF ContentInv, Whole, Holds
<1>3. Settled(Base(b))[1] = Streamed
  <2>1. 0 \in 0 .. BlockSize - 1 /\ Base(b) + 0 = Base(b)
    BY Geometry, BlockAddresses
  <2>2. ram[Base(b)] = Pixel(Settled(Base(b))[1], 0)
    BY <1>2, <2>1
  <2> QED
    BY <2>2 DEF Streamed, ImageOf, Pixel
<1> QED
  BY <1>2, <1>3, BlockAddresses

(* Streaming goes on with the same block and image. *)
LEMMA StreamStays ==
  ASSUME CInv, PortType, PendingInv, BlockControlStep, BramStep, rd_state # "START"
  PROVE  /\ rd_bl_state \in Blocks /\ block_full[rd_bl_state]
         /\ rd_bl_state' = rd_bl_state
         /\ Streamed' = Streamed
<1>1. rd_bl_state \in Blocks /\ block_full[rd_bl_state] /\ ~RdDoneEdge
  BY DEF CInv, IInv, StreamsFullBlock, ReadOnce
<1>2. rd_bl_state' = rd_bl_state
  BY <1>1, ReadSideServes DEF CInv, IInv, TypeOK
<1>3. ram'[Base(rd_bl_state)] = ram[Base(rd_bl_state)]
  <2>1. 0 \in 0 .. BlockSize - 1 /\ Base(rd_bl_state) + 0 = Base(rd_bl_state)
    BY <1>1, Geometry, BlockAddresses
  <2>2. Base(rd_bl_state) \in Addresses /\ Base(rd_bl_state) \in Int /\ Within(Base(rd_bl_state), rd_bl_state)
    BY <1>1, <2>1, BlockAddresses
  <2>3. ~(bram_pa.wea /\ bram_pa.addr = Base(rd_bl_state))
    BY <1>1, <2>2, BlockAddresses DEF PendingInv
  <2> QED
    BY <2>2, <2>3 DEF BramStep, PortType
<1> QED
  BY <1>1, <1>2, <1>3 DEF Streamed, ImageOf, Base

(* The walk in numbers. *)
LEMMA WalkPosition ==
  ASSUME CInv, rd_state \in {"MOVE", "STOP"}
  PROVE  /\ Clocks \in Nat /\ rd_cnt \in 0 .. LAYER_WIDTH - 1
         /\ rd_row = 0 <=> Clocks < LAYER_WIDTH
         /\ rd_row = 0 => Clocks = rd_cnt
         /\ rd_row > LAYER_HIGHT - 1 <=> Clocks >= BlockSize
         /\ rd_state = "MOVE" => Clocks < BlockSize + LAYER_WIDTH
         /\ rd_state = "STOP" => Clocks = BlockSize + LAYER_WIDTH /\ rd_cnt = 0
<1>1. /\ LAYER_WIDTH \in Nat /\ LAYER_WIDTH >= 1 /\ LAYER_HIGHT \in Nat \ {0}
      /\ LastRow = LAYER_HIGHT + 1
      /\ rd_row \in 0 .. LastRow /\ rd_cnt \in 0 .. LAYER_WIDTH - 1
      /\ rd_state = "MOVE" => rd_row < LastRow
      /\ rd_state = "STOP" => rd_cnt = 0 /\ rd_row = LastRow
  BY Geometry, GeometryAssumption
     DEF CInv, IInv, TypeOK, BlockReadType, ReaderWalk, LastRow, KERNEL_SIZE
<1>2. rd_row * LAYER_WIDTH \in Nat /\ BlockSize = LAYER_HIGHT * LAYER_WIDTH
  BY <1>1 DEF BlockSize
<1>3. rd_row > 0 => rd_row * LAYER_WIDTH >= LAYER_WIDTH
  <2> SUFFICES ASSUME rd_row > 0 PROVE rd_row * LAYER_WIDTH >= LAYER_WIDTH
    OBVIOUS
  <2>1. (rd_row - 1) * LAYER_WIDTH >= 0
    BY <1>1
  <2> QED
    BY <1>1, <2>1
<1>4. rd_row > LAYER_HIGHT - 1 => rd_row * LAYER_WIDTH >= BlockSize
  <2> SUFFICES ASSUME rd_row > LAYER_HIGHT - 1 PROVE rd_row * LAYER_WIDTH >= BlockSize
    OBVIOUS
  <2>1. (rd_row - LAYER_HIGHT) * LAYER_WIDTH >= 0
    BY <1>1
  <2> QED
    BY <1>1, <1>2, <2>1
<1>5. rd_row <= LAYER_HIGHT - 1 => rd_row * LAYER_WIDTH + LAYER_WIDTH <= BlockSize
  <2> SUFFICES ASSUME rd_row <= LAYER_HIGHT - 1 PROVE rd_row * LAYER_WIDTH + LAYER_WIDTH <= BlockSize
    OBVIOUS
  <2>1. (LAYER_HIGHT - 1 - rd_row) * LAYER_WIDTH >= 0
    BY <1>1
  <2> QED
    BY <1>1, <1>2, <2>1
<1>6. rd_row = LAYER_HIGHT => rd_row * LAYER_WIDTH = BlockSize
  BY <1>2
<1>7. rd_row = LAYER_HIGHT + 1 => rd_row * LAYER_WIDTH = BlockSize + LAYER_WIDTH
  BY <1>1, <1>2
<1>8. rd_row = 0 => rd_row * LAYER_WIDTH = 0
  BY <1>1
<1> DEFINE before == rd_row * LAYER_WIDTH
<1> HIDE DEF before
<1>9. Clocks = before + rd_cnt /\ before \in Nat /\ BlockSize \in Nat
  BY <1>2, Geometry DEF Clocks, before
<1> QED
  BY <1>1, <1>3, <1>4, <1>5, <1>6, <1>7, <1>8, <1>9 DEF before

(* A clock of the walk, the next layer being ready. *)
LEMMA WalkStep ==
  ASSUME CInv, BlockReadStep(TRUE)
  PROVE  /\ rd_state \in RdStates
         /\ rd_state = "START" => \/ rd_state' = "START"
                                  \/ rd_state' = "WAIT_CY" /\ rd_cnt' = 0
         /\ rd_state = "WAIT_CY" =>
              \/ rd_cnt = 0 /\ rd_state' = "WAIT_CY" /\ rd_cnt' = 1
              \/ rd_cnt = 1 /\ rd_state' = "MOVE" /\ rd_cnt' = 0 /\ Clocks' = 0
         /\ rd_state = "MOVE" => /\ rd_state' \in {"MOVE", "STOP"}
                                 /\ Clocks' = Clocks + 1
                                 /\ rd_cnt' = 0 <=> rd_cnt >= LAYER_WIDTH - 1
         /\ rd_state = "STOP" => rd_state' = "START"
<1>1. /\ LAYER_WIDTH \in Nat /\ LAYER_WIDTH >= 1
      /\ rd_row \in Nat /\ rd_cnt \in Nat /\ rd_state \in RdStates
      /\ rd_state = "WAIT_CY" => rd_cnt \in 0 .. 1 /\ rd_row = 0
      /\ rd_state = "MOVE" => rd_cnt \in 0 .. LAYER_WIDTH - 1
  BY Geometry DEF CInv, IInv, TypeOK, BlockReadType, ReaderWalk
<1>2. CASE rd_state = "START"
  BY <1>2 DEF BlockReadStep, RdTakeBlock, RdNoBlock, RdWaitBram, RdMove, RdStall, RdStop, RdStates
<1>3. CASE rd_state = "WAIT_CY"
  <2>1. RdWaitBram
    BY <1>3 DEF BlockReadStep, RdTakeBlock, RdNoBlock, RdWaitBram, RdMove, RdStall, RdStop
  <2>2. 0 * LAYER_WIDTH + 0 = 0
    BY <1>1
  <2> QED
    BY <1>1, <1>3, <2>1, <2>2 DEF RdWaitBram, WaitCycles, Clocks, RdStates
<1>4. CASE rd_state = "MOVE"
  <2>1. RdMove
    BY <1>4 DEF BlockReadStep, RdTakeBlock, RdNoBlock, RdWaitBram, RdMove, RdStall, RdStop
  <2>2. /\ rd_state' \in {"MOVE", "STOP"}
        /\ IF rd_cnt < LAYER_WIDTH - 1 THEN rd_cnt' = rd_cnt + 1 /\ rd_row' = rd_row
                                       ELSE rd_cnt' = 0 /\ rd_row' = rd_row + 1
    BY <1>1, <1>4, <2>1 DEF RdMove
  <2>3. /\ rd_row * LAYER_WIDTH \in Nat
        /\ (rd_row + 1) * LAYER_WIDTH = rd_row * LAYER_WIDTH + LAYER_WIDTH
    BY <1>1
  <2> QED
    BY <1>1, <1>4, <2>2, <2>3 DEF Clocks, RdStates
<1>5. CASE rd_state = "STOP"
  BY <1>5 DEF BlockReadStep, RdTakeBlock, RdNoBlock, RdWaitBram, RdMove, RdStall, RdStop, RdStates
<1> QED
  BY <1>1, <1>2, <1>3, <1>4, <1>5 DEF RdStates

(* Port B delivers pixel after pixel of the block being streamed. *)
LEMMA PipeKept ==
  ASSUME CInv, PortType, PendingInv, ContentInv, PipeInv,
         BlockControlStep, BlockReadStep(TRUE), BramStep
  PROVE  PipeInv'
<1>1. CASE rd_state \in {"START", "STOP"}
  BY <1>1, WalkStep DEF PipeInv
<1> SUFFICES ASSUME rd_state \in {"WAIT_CY", "MOVE"} PROVE PipeInv'
  BY <1>1, WalkStep DEF RdStates
<1> DEFINE b == rd_bl_state
<1>2. /\ b \in Blocks /\ b' = b /\ Streamed' = Streamed
      /\ \A k \in 0 .. BlockSize - 1 : ram[Base(b) + k] = Pixel(Streamed, k)
  BY StreamStays, StreamedBlock
<1>3. pb_addr' = rd_position /\ pb_data' = ram[pb_addr]
  BY DEF BramStep, CInv, NoDebugging, dbg_active
<1>4. rd_position = StreamPosition(b)
  BY DEF CInv, IInv, StreamsFullBlock
<1>5. BlockSize \in Nat /\ BlockSize >= 3 /\ Base(b) \in {0, BlockSize} /\ Base(b)' = Base(b)
  BY <1>2, Geometry, BaseValues DEF Base
<1>6. CASE rd_state = "WAIT_CY"
  <2>1. CASE rd_cnt = 0
    <3>1. rd_position = Base(b)
      BY <1>4, <1>5, <1>6, <2>1 DEF StreamPosition
    <3> QED
      BY <1>2, <1>3, <1>5, <1>6, <2>1, <3>1, WalkStep DEF PipeInv
  <2>2. CASE rd_cnt = 1
    <3>1. rd_position = Base(b) + 1
      BY <1>4, <1>5, <1>6, <2>2 DEF StreamPosition
    <3>2. pb_data' = Pixel(Streamed, 0)
      <4>1. pb_addr = Base(b) + 0 /\ 0 \in 0 .. BlockSize - 1
        BY <1>5, <1>6, <2>2 DEF PipeInv
      <4> QED
        BY <1>2, <1>3, <4>1
    <3>3. rd_state' = "MOVE" /\ Clocks' = 0 /\ Base(b) + 0 + 1 = Base(b) + 1
      BY <1>5, <1>6, <2>2, WalkStep
    <3> QED
      BY <1>2, <1>3, <1>5, <3>1, <3>2, <3>3 DEF PipeInv
  <2> QED
    BY <1>6, <2>1, <2>2, WalkStep
<1>7. CASE rd_state = "MOVE"
  <2>1. Clocks \in Nat /\ Clocks' = Clocks + 1
    BY <1>7, WalkPosition, WalkStep
  <2>2. rd_position = IF Base(b) + (2 + Clocks) < 2 * BlockSize THEN Base(b) + (2 + Clocks)
                                                                ELSE 2 * BlockSize - 1
    <3>1. /\ rd_row * LAYER_WIDTH \in Nat /\ rd_cnt \in Nat
      BY Geometry DEF CInv, IInv, TypeOK, BlockReadType
    <3>2. WaitCycles + rd_row * LAYER_WIDTH + rd_cnt = 2 + Clocks
      BY <3>1 DEF WaitCycles, Clocks
    <3> QED
      BY <1>4, <1>7, <3>2 DEF StreamPosition
  <2>3. Clocks' + 1 < BlockSize => pb_addr' = Base(b) + Clocks' + 1
    BY <1>3, <1>5, <2>1, <2>2
  <2>4. ASSUME Clocks' < BlockSize PROVE pb_data' = Pixel(Streamed, Clocks')
    <3>1. pb_addr = Base(b) + (Clocks + 1) /\ Clocks + 1 \in 0 .. BlockSize - 1
      BY <1>5, <1>7, <2>1, <2>4 DEF PipeInv
    <3> QED
      BY <1>2, <1>3, <2>1, <3>1
  <2> QED
    BY <1>2, <1>5, <1>7, <2>3, <2>4, WalkStep DEF PipeInv
<1> QED
  BY <1>6, <1>7

-----------------------------------------------------------------------------
(* A clock of the line buffer that is neither empty when read nor full when
   written: a queue, the pair read is the oldest one. *)
LEMMA LineBufferStep ==
  ASSUME Memory = [s \in LineBuffer!Slots |-> Memory[s]],
         head \in LineBuffer!Slots, tail \in LineBuffer!Slots, looped \in BOOLEAN,
         IF looped THEN head < tail ELSE tail <= head,
         NEW re \in BOOLEAN, NEW we \in BOOLEAN, NEW d,
         re => LineBuffer!Count > 0,
         we => LineBuffer!Count < LAYER_WIDTH,
         LineBuffer!Access(re, we, d)
  PROVE  /\ Memory' = [s \in LineBuffer!Slots |-> Memory'[s]]
         /\ head' \in LineBuffer!Slots /\ tail' \in LineBuffer!Slots /\ looped' \in BOOLEAN
         /\ IF looped' THEN head' < tail' ELSE tail' <= head'
         /\ LineBuffer!Count \in Nat
         /\ LineBuffer!Count' =
              LineBuffer!Count - (IF re THEN 1 ELSE 0) + (IF we THEN 1 ELSE 0)
         /\ Data_o' = IF re THEN Memory[LineBuffer!Slot(1)] ELSE Data_o
         /\ \A i \in 1 .. LineBuffer!Count' :
              Memory'[LineBuffer!Slot(i)'] =
                LET j == IF re THEN i + 1 ELSE i
                IN  IF j <= LineBuffer!Count THEN Memory[LineBuffer!Slot(j)] ELSE d
<1> DEFINE count == LineBuffer!Count
           lap == LineBuffer!LoopedAfterRead(re)
           read == IF re THEN 1 ELSE 0
           left == IF lap THEN LAYER_WIDTH + 1 - tail' + head ELSE head - tail'
<1>1. /\ LAYER_WIDTH \in Nat /\ LAYER_WIDTH >= 1
      /\ head \in 0 .. LAYER_WIDTH /\ tail \in 0 .. LAYER_WIDTH
      /\ count = IF looped THEN LAYER_WIDTH + 1 - tail + head ELSE head - tail
  BY Geometry DEF LineBuffer!Slots, LineBuffer!Count
<1>2. LineBuffer!CanRead(re) <=> re
  BY <1>1 DEF LineBuffer!CanRead
<1>3. /\ Data_o' = IF re THEN Memory[tail] ELSE Data_o
      /\ tail' = IF re THEN (IF tail = LAYER_WIDTH THEN 0 ELSE tail + 1) ELSE tail
      /\ lap <=> looped /\ ~(re /\ tail = LAYER_WIDTH)
      /\ lap \in BOOLEAN
  BY <1>1, <1>2 DEF LineBuffer!Access, LineBuffer!ReadHalf, LineBuffer!Advance, LineBuffer!LoopedAfterRead
<1>4. /\ tail' \in 0 .. LAYER_WIDTH /\ count \in Nat
      /\ IF lap THEN head < tail' ELSE tail' <= head
      /\ left = count - read
  BY <1>1, <1>3
<1>5. LineBuffer!CanWrite(re, we) <=> we
  BY <1>1, <1>3, <1>4 DEF LineBuffer!CanWrite
<1>6. /\ Memory' = IF we THEN [Memory EXCEPT ![head] = d] ELSE Memory
      /\ head' = IF ~we THEN head ELSE IF head = LAYER_WIDTH THEN 0 ELSE head + 1
      /\ looped' \in BOOLEAN
      /\ looped' <=> lap \/ (we /\ head = LAYER_WIDTH)
  <2>1. /\ LineBuffer!Advance(head) = IF head = LAYER_WIDTH THEN 0 ELSE head + 1
        /\ (LAYER_WIDTH + 1) - 1 = LAYER_WIDTH
    BY <1>1 DEF LineBuffer!Advance
  <2> HIDE DEF lap
  <2>2. LineBuffer!WriteHalf(re, we, d)
    BY DEF LineBuffer!Access
  <2>3. IF we THEN Memory' = [Memory EXCEPT ![head] = d] /\ head' = LineBuffer!Advance(head)
              ELSE Memory' = Memory /\ head' = head
    BY <1>5, <2>2 DEF LineBuffer!WriteHalf
  <2>4. IF we THEN looped' = (lap \/ head = (LAYER_WIDTH + 1) - 1) ELSE looped' = lap
    <3>1. CASE LineBuffer!CanWrite(re, we)
      BY <1>5, <2>2, <3>1, Zenon DEF LineBuffer!WriteHalf, lap
    <3>2. CASE ~LineBuffer!CanWrite(re, we)
      BY <1>5, <2>2, <3>2, Zenon DEF LineBuffer!WriteHalf, lap
    <3> QED BY <3>1, <3>2, Zenon
  <2>5. /\ looped' \in BOOLEAN
        /\ looped' <=> lap \/ (we /\ head = LAYER_WIDTH)
    <3>1. head = (LAYER_WIDTH + 1) - 1 <=> head = LAYER_WIDTH
      BY <2>1, Zenon
    <3>2. lap \in BOOLEAN
      BY <1>3
    <3> QED BY <2>4, <3>1, <3>2, Zenon
  <2> QED
    BY <2>1, <2>3, <2>5
<1> HIDE DEF lap
<1>7. /\ head' \in 0 .. LAYER_WIDTH /\ looped' \in BOOLEAN
      /\ IF looped' THEN head' < tail' ELSE tail' <= head'
      /\ count' = left + (IF we THEN 1 ELSE 0)
  <2>1. count' = IF looped' THEN LAYER_WIDTH + 1 - tail' + head' ELSE head' - tail'
    BY <1>1, <1>4, <1>6 DEF LineBuffer!Count
  <2>2. we => left < LAYER_WIDTH
    BY <1>1, <1>4
  <2> HIDE DEF count
  <2> QED
    BY <1>1, <1>3, <1>4, <1>6, <2>1, <2>2
<1>8. LineBuffer!Slot(1) = tail
  BY <1>1 DEF LineBuffer!Slot
<1>9. ASSUME NEW i \in 1 .. count'
      PROVE  Memory'[LineBuffer!Slot(i)'] =
               LET j == IF re THEN i + 1 ELSE i
               IN  IF j <= count THEN Memory[LineBuffer!Slot(j)] ELSE d
  <2> DEFINE slot == IF tail' + i - 1 < LAYER_WIDTH + 1 THEN tail' + i - 1
                     ELSE tail' + i - 1 - (LAYER_WIDTH + 1)
             j == IF re THEN i + 1 ELSE i
  <2>0. i \in Nat /\ i >= 1 /\ i <= left + (IF we THEN 1 ELSE 0)
    BY <1>1, <1>4, <1>7
  <2>1. LineBuffer!Slot(i)' = slot
    BY <1>1 DEF LineBuffer!Slot
  <2>2. LineBuffer!Slot(j) = slot
    BY <1>1, <1>3, <1>4, <2>0 DEF LineBuffer!Slot
  <2>3. slot \in LineBuffer!Slots
    <3>1. slot \in 0 .. LAYER_WIDTH
      BY <1>1, <1>3, <1>4, <2>0
    <3> QED
      BY <1>1, <3>1 DEF LineBuffer!Slots
  <2>4. we => (slot = head <=> ~(j <= count))
    BY <1>1, <1>3, <1>4, <2>0
  <2>5. ~we => j <= count
    BY <1>1, <1>4, <2>0
  <2> HIDE DEF slot, j, count
  <2>6. Memory'[slot] = IF j <= count THEN Memory[slot] ELSE d
    BY <1>6, <2>3, <2>4, <2>5
  <2>7. Memory'[LineBuffer!Slot(i)'] = IF j <= count THEN Memory[LineBuffer!Slot(j)] ELSE d
    BY <2>1, <2>2, <2>6
  <2> QED
    BY <2>7 DEF j, count
<1>10. Memory' = [s \in LineBuffer!Slots |-> Memory'[s]]
  BY <1>6
<1>11. \A s : s \in LineBuffer!Slots <=> s \in 0 .. LAYER_WIDTH
  BY <1>1 DEF LineBuffer!Slots
<1>12. Data_o' = IF re THEN Memory[LineBuffer!Slot(1)] ELSE Data_o
  BY <1>3, <1>8
<1>13. count' = count - (IF re THEN 1 ELSE 0) + (IF we THEN 1 ELSE 0)
  BY <1>4, <1>7
<1> QED
  BY <1>4, <1>7, <1>9, <1>10, <1>11, <1>12, <1>13, Zenon

(* The line buffer's memory stays a function of its slots. *)
LEMMA MemoryShape ==
  ASSUME Memory = [s \in LineBuffer!Slots |-> Memory[s]], NEW rst, NEW re, NEW we, NEW d,
         LineBuffer!FifoStep(rst, re, we, d)
  PROVE  Memory' = [s \in LineBuffer!Slots |-> Memory'[s]]
<1>1. Memory' = Memory \/ Memory' = [Memory EXCEPT ![head] = d]
  BY DEF LineBuffer!FifoStep, LineBuffer!Reset, LineBuffer!Access, LineBuffer!WriteHalf
<1> QED
  BY <1>1

(* The vector of a clock of the walk, made from the block RAM and from the
   pair of a row ago. *)
LEMMA VectorMade ==
  ASSUME CInv, PipeInv, RowInv, rd_state = "MOVE", MoveVector
  PROVE  /\ fifo_in' = Entry(Streamed, Clocks)
         /\ Clocks >= LAYER_WIDTH => tdata' = Vector(Streamed, Clocks - LAYER_WIDTH)
         /\ m_layer_tvalid' \in BOOLEAN
         /\ m_layer_tvalid' <=> Clocks >= LAYER_WIDTH
<1> DEFINE n == Clocks
<1>1. /\ n \in Nat /\ LAYER_WIDTH \in Nat /\ BlockSize \in Nat
      /\ n < BlockSize + LAYER_WIDTH
      /\ UpperPadding <=> n < LAYER_WIDTH
      /\ LowerPadding <=> n >= BlockSize
  BY WalkPosition, Geometry DEF UpperPadding, LowerPadding
<1>2. ~LowerPadding => pb_data = Scan(Streamed, n)
  BY <1>1 DEF PipeInv, Scan
<1>3. LowerPadding => Scan(Streamed, n) = Zero
  BY <1>1 DEF Scan
<1>4. UpperPadding => Scan(Streamed, n - LAYER_WIDTH) = Zero
  BY <1>1 DEF Scan
<1>5. ~UpperPadding => Data_o = Entry(Streamed, n - LAYER_WIDTH)
  BY <1>1 DEF RowInv
<1> HIDE DEF n
<1>6. fifo_in' = Entry(Streamed, n)
  BY <1>2, <1>3, <1>4, <1>5 DEF MoveVector, Entry
<1>7. ASSUME n >= LAYER_WIDTH PROVE tdata' = Vector(Streamed, n - LAYER_WIDTH)
  <2>1. ~UpperPadding /\ (n - LAYER_WIDTH) + LAYER_WIDTH = n
    BY <1>1, <1>7
  <2>2. /\ Data_o[1] = Scan(Streamed, (n - LAYER_WIDTH) - LAYER_WIDTH)
        /\ Data_o[2] = Scan(Streamed, n - LAYER_WIDTH)
    BY <1>5, <2>1 DEF Entry
  <2> QED
    BY <1>2, <1>3, <2>1, <2>2 DEF MoveVector, Vector
<1>8. m_layer_tvalid' \in BOOLEAN /\ (m_layer_tvalid' <=> n >= LAYER_WIDTH)
  <2>1. ~UpperPadding <=> n >= LAYER_WIDTH
    BY <1>1
  <2> QED
    BY <2>1, Zenon DEF MoveVector
<1> QED
  BY <1>6, <1>7, <1>8 DEF n

(* In a clock of the walk the line buffer takes the pair of the clock before
   and, once it holds a row, gives the oldest one. *)
LEMMA PairsMove ==
  ASSUME CInv, RowInv, LAYER_WIDTH >= 3, rd_state = "MOVE",
         Clocks' = Clocks + 1, Streamed' = Streamed,
         LineBuffer!Access(fifo_rd, fifo_wr, fifo_in)
  PROVE  /\ Buffers(Read, Written - Read)'
         /\ Clocks' >= LAYER_WIDTH => Data_o' = Entry(Streamed, Clocks' - LAYER_WIDTH)
<1> DEFINE n == Clocks
           W == LAYER_WIDTH
           count == LineBuffer!Count
           image == Streamed
<1>1. n \in Nat /\ W \in Nat /\ W >= 3 /\ n' = n + 1
  BY WalkPosition, Geometry
<1>2. /\ fifo_wr \in BOOLEAN /\ fifo_rd \in BOOLEAN
      /\ fifo_wr <=> n > 0
      /\ fifo_rd <=> n >= W - 1
      /\ n > 0 => fifo_in = Entry(image, n - 1)
      /\ Buffers(Read, Written - Read)
  BY DEF RowInv
<1>3. /\ Written = (IF n = 0 THEN 0 ELSE n - 1)
      /\ Read = (IF n < W - 1 THEN 0 ELSE (n - W) + 1)
      /\ Written' = n
      /\ Read' = (IF n + 1 < W - 1 THEN 0 ELSE (n - W) + 2)
  BY <1>1 DEF Written, Read
<1> DEFINE read == Read
           next == Read'
           after == count'
<1>4. /\ count = Written - Read
      /\ \A i \in 1 .. count : Memory[LineBuffer!Slot(i)] = Entry(image, read + i - 1)
  BY <1>2 DEF Buffers
<1> HIDE DEF n, W
<1>5. /\ fifo_rd => count > 0 /\ next = read + 1
      /\ ~fifo_rd => next = 0 /\ read = 0
      /\ fifo_wr => count < W
      /\ n = read + count + (IF fifo_wr THEN 1 ELSE 0)
      /\ count \in Nat /\ read \in Nat /\ next \in Nat
  BY <1>1, <1>2, <1>3, <1>4
<1>6. /\ head' \in LineBuffer!Slots /\ tail' \in LineBuffer!Slots /\ looped' \in BOOLEAN
      /\ IF looped' THEN head' < tail' ELSE tail' <= head'
      /\ after = count - (IF fifo_rd THEN 1 ELSE 0) + (IF fifo_wr THEN 1 ELSE 0)
      /\ Data_o' = IF fifo_rd THEN Memory[LineBuffer!Slot(1)] ELSE Data_o
      /\ \A i \in 1 .. after :
           Memory'[LineBuffer!Slot(i)'] =
             LET j == IF fifo_rd THEN i + 1 ELSE i
             IN  IF j <= count THEN Memory[LineBuffer!Slot(j)] ELSE fifo_in
  BY <1>2, <1>5, LineBufferStep DEF RowInv, Buffers, W
<1> HIDE DEF count, read, next, after
<1>7. after = n - next
  BY <1>1, <1>5, <1>6
<1>8. ASSUME NEW i \in 1 .. after
      PROVE  Memory'[LineBuffer!Slot(i)'] = Entry(image, next + i - 1)
  <2> DEFINE j == IF fifo_rd THEN i + 1 ELSE i
  <2>1. /\ Memory'[LineBuffer!Slot(i)'] =
              IF j <= count THEN Memory[LineBuffer!Slot(j)] ELSE fifo_in
        /\ i \in Nat /\ i >= 1 /\ i <= n - next
    BY <1>1, <1>5, <1>6, <1>7, <1>8
  <2>2. CASE j <= count
    <3>1. j \in 1 .. count /\ read + j - 1 = next + i - 1
      BY <1>5, <2>1, <2>2
    <3> HIDE DEF j
    <3> QED
      BY <1>4, <2>1, <2>2, <3>1
  <2>3. CASE ~(j <= count)
    <3>1. fifo_wr /\ next + i - 1 = n - 1 /\ n > 0
      BY <1>1, <1>5, <2>1, <2>3
    <3> QED
      BY <1>2, <2>1, <2>3, <3>1 DEF n
  <2> QED
    BY <2>2, <2>3
<1>9. ASSUME n' >= W PROVE Data_o' = Entry(image, n' - W)
  <2>1. fifo_rd /\ 1 \in 1 .. count /\ read + 1 - 1 = n' - W
    BY <1>1, <1>2, <1>3, <1>5, <1>9 DEF read
  <2> QED
    BY <1>4, <1>6, <2>1
<1>10. Written' - next = after
  BY <1>3, <1>7
<1>11. Buffers(Read, Written - Read)'
  <2>1. /\ LineBuffer!Count' = Written' - Read'
        /\ \A i \in 1 .. Written' - Read' :
             Memory'[LineBuffer!Slot(i)'] = Entry(Streamed', Read' + i - 1)
    BY <1>8, <1>10 DEF next, after, count
  <2> QED
    BY <1>6, <2>1, Zenon DEF Buffers
<1>12. n' >= W => Data_o' = Entry(Streamed', n' - W)
  BY <1>9
<1> QED
  BY <1>11, <1>12 DEF n, W

(* The line buffer is in step with the walk over the rows. *)
LEMMA RowKept ==
  ASSUME CInv, PortType, PendingInv, PipeInv, RowInv, LAYER_WIDTH >= 3,
         BlockControlStep, BlockReadStep(TRUE), BramStep, ReadOutputs(TRUE),
         LineBuffer!FifoStep(fifo_srst, fifo_rd, fifo_wr, fifo_in)
  PROVE  RowInv'
<1>1. /\ LAYER_WIDTH \in Nat /\ LAYER_WIDTH >= 3 /\ rd_state \in RdStates
      /\ fifo_wr \in BOOLEAN /\ fifo_rd \in BOOLEAN
  BY Geometry, WalkStep DEF RowInv
<1>2. Memory' = [s \in LineBuffer!Slots |-> Memory'[s]]
  BY MemoryShape DEF RowInv
<1>3. CASE rd_state = "START"
  BY <1>2, <1>3, WalkStep DEF ReadOutputs, StartOutputs, WaitOutputs, MoveOutputs, StopOutputs, RowInv
<1>4. CASE rd_state = "STOP"
  BY <1>2, <1>4, WalkStep DEF ReadOutputs, StartOutputs, WaitOutputs, MoveOutputs, StopOutputs, RowInv
<1>5. CASE rd_state = "WAIT_CY"
  <2>1. /\ fifo_srst' = FALSE /\ fifo_wr' = fifo_wr /\ fifo_rd' = fifo_rd
        /\ fifo_wr = FALSE /\ fifo_rd = FALSE
    BY <1>1, <1>5 DEF ReadOutputs, StartOutputs, WaitOutputs, MoveOutputs, StopOutputs, RowInv
  <2>2. CASE rd_cnt = 0
    <3>1. rd_state' = "WAIT_CY" /\ rd_cnt' = 1
      BY <1>5, <2>2, WalkStep
    <3>2. head' = 0 /\ tail' = 0 /\ ~looped'
      BY <1>5, <2>2 DEF RowInv, LineBuffer!FifoStep, LineBuffer!Reset
    <3> QED
      BY <1>2, <2>1, <3>1, <3>2 DEF RowInv
  <2>3. CASE rd_cnt = 1
    <3>1. rd_state' = "MOVE" /\ Clocks' = 0
      BY <1>5, <2>3, WalkStep
    <3>2. /\ head = 0 /\ tail = 0 /\ ~looped
          /\ LineBuffer!Access(fifo_rd, fifo_wr, fifo_in)
      BY <1>5, <2>3 DEF RowInv, LineBuffer!FifoStep
    <3>3. head' = 0 /\ tail' = 0 /\ looped' = FALSE
      BY <2>1, <3>2
         DEF LineBuffer!Access, LineBuffer!ReadHalf, LineBuffer!WriteHalf, LineBuffer!CanRead,
             LineBuffer!CanWrite, LineBuffer!LoopedAfterRead
    <3>4. Written' = 0 /\ Read' = 0
      BY <1>1, <3>1 DEF Written, Read
    <3>5. Buffers(Read, Written - Read)'
      <4>1. LineBuffer!Count' = Written' - Read'
        BY <3>3, <3>4 DEF LineBuffer!Count
      <4>2. head' \in LineBuffer!Slots
        BY <1>1, <3>3 DEF LineBuffer!Slots
      <4>3. 1 .. Written' - Read' = {}
        BY <3>4
      <4>4. tail' \in LineBuffer!Slots /\ tail' <= head'
        BY <3>3, <4>2
      <4>5. looped' \in BOOLEAN /\ ~looped'
        BY <3>3, Zenon
      <4> QED
        BY <4>1, <4>2, <4>3, <4>4, <4>5, Zenon DEF Buffers
    <3> QED
      BY <1>1, <1>2, <2>1, <3>1, <3>5 DEF RowInv
  <2> QED
    BY <1>5, <2>2, <2>3, WalkStep
<1>6. CASE rd_state = "MOVE"
  <2>1. /\ MoveVector /\ fifo_srst' = fifo_srst /\ fifo_wr' = TRUE
        /\ fifo_rd' = (TRUE /\ (~UpperPadding \/ rd_cnt >= LAYER_WIDTH - 2))
    BY <1>6, Zenon DEF ReadOutputs, StartOutputs, WaitOutputs, MoveOutputs, StopOutputs
  <2>2. /\ fifo_srst' = FALSE \/ ~fifo_srst'
        /\ LineBuffer!Access(fifo_rd, fifo_wr, fifo_in)
    BY <1>6, <2>1 DEF RowInv, LineBuffer!FifoStep
  <2>3. /\ Clocks' = Clocks + 1 /\ Streamed' = Streamed
        /\ rd_state' \in {"MOVE", "STOP"} /\ Clocks \in Nat
    BY <1>6, WalkStep, WalkPosition, StreamStays
  <2>4. fifo_rd' \in BOOLEAN /\ (fifo_rd' <=> Clocks' >= LAYER_WIDTH - 1)
    <3>1. UpperPadding <=> rd_row = 0
      BY DEF UpperPadding
    <3>2. rd_cnt \in Nat
      BY <1>6, WalkPosition
    <3>3. ~UpperPadding \/ rd_cnt >= LAYER_WIDTH - 2 <=> Clocks' >= LAYER_WIDTH - 1
      BY <1>1, <1>6, <2>3, <3>1, <3>2, WalkPosition
    <3> QED
      BY <2>1, <3>3, Zenon
  <2>5. fifo_in' = Entry(Streamed', Clocks' - 1)
    BY <1>6, <2>1, <2>3, VectorMade
  <2>6. /\ Buffers(Read, Written - Read)'
        /\ Clocks' >= LAYER_WIDTH => Data_o' = Entry(Streamed', Clocks' - LAYER_WIDTH)
    BY <1>6, <2>2, <2>3, PairsMove
  <2>7. ~fifo_srst' /\ Clocks' > 0 /\ fifo_wr' \in BOOLEAN /\ fifo_wr'
    BY <2>1, <2>2, <2>3
  <2> QED
    BY <1>2, <2>3, <2>4, <2>5, <2>6, <2>7, Zenon DEF RowInv
<1> QED
  BY <1>1, <1>3, <1>4, <1>5, <1>6 DEF RdStates

(* Row and column from the number of a pixel. *)
LEMMA Division ==
  ASSUME NEW n \in Nat \ {0}, NEW q \in Int, NEW c \in 0 .. n - 1
  PROVE  (q * n + c) \div n = q /\ (q * n + c) % n = c
OBVIOUS

(* A clock of the walk begins a row exactly when rd_cnt is zero. *)
LEMMA RowBegins ==
  ASSUME CInv, rd_state \in {"MOVE", "STOP"}, Clocks >= LAYER_WIDTH
  PROVE  (Clocks - LAYER_WIDTH) % LAYER_WIDTH = rd_cnt
<1>1. /\ LAYER_WIDTH \in Nat \ {0} /\ rd_cnt \in 0 .. LAYER_WIDTH - 1 /\ rd_row \in Nat
  BY Geometry, WalkPosition DEF CInv, IInv, TypeOK, BlockReadType
<1>2. Clocks - LAYER_WIDTH = (rd_row - 1) * LAYER_WIDTH + rd_cnt
  BY <1>1 DEF Clocks
<1>3. rd_row - 1 \in Int
  BY <1>1
<1> QED
  BY <1>1, <1>2, <1>3, Division

(* A vector per clock leaves, from the second row of the walk on. *)
LEMMA OutKept ==
  ASSUME CInv, PortType, PendingInv, PipeInv, RowInv, OutInv,
         BlockControlStep, BlockReadStep(TRUE), BramStep, ReadOutputs(TRUE)
  PROVE  OutInv'
<1>1. /\ LAYER_WIDTH \in Nat /\ LAYER_WIDTH >= 1 /\ rd_state \in RdStates
      /\ M_layer_tnewrow' = m_newrow
      /\ sent' = IF rd_state = "WAIT_CY" THEN 0
                 ELSE IF m_layer_tvalid THEN sent + 1 ELSE sent
      /\ m_layer_tvalid \in BOOLEAN /\ M_layer_tlast \in BOOLEAN
      /\ M_layer_tnewrow \in BOOLEAN /\ m_newrow \in BOOLEAN
  BY Geometry, WalkStep DEF ReadOutputs, OutInv
<1>2. CASE rd_state = "START"
  <2>1. /\ m_layer_tvalid' = FALSE /\ M_layer_tlast' = FALSE /\ m_newrow' = m_newrow
    BY <1>2 DEF ReadOutputs, StartOutputs, WaitOutputs, MoveOutputs, StopOutputs
  <2>2. /\ rd_state' \notin {"MOVE", "STOP"}
        /\ rd_state' = "WAIT_CY" => rd_cnt' # 1
    BY <1>2, WalkStep
  <2> QED
    BY <1>1, <2>1, <2>2, Zenon DEF OutInv
<1>3. CASE rd_state = "WAIT_CY"
  <2>1. /\ m_layer_tvalid' = m_layer_tvalid /\ M_layer_tlast' = M_layer_tlast
        /\ m_newrow' = m_newrow /\ sent' = 0
        /\ ~m_layer_tvalid /\ ~M_layer_tlast
    BY <1>1, <1>3 DEF ReadOutputs, StartOutputs, WaitOutputs, MoveOutputs, StopOutputs, OutInv
  <2>2. /\ rd_state' \in {"WAIT_CY", "MOVE"}
        /\ rd_state' = "MOVE" => ~(Clocks' > LAYER_WIDTH) /\ ~(Clocks' > 0)
        /\ rd_state' \notin {"START", "STOP"}
    BY <1>1, <1>3, WalkStep
  <2> QED
    BY <1>1, <2>1, <2>2, Zenon DEF OutInv
<1>4. CASE rd_state = "MOVE"
  <2>1. /\ MoveVector /\ M_layer_tlast' = M_layer_tlast
        /\ m_newrow' = (rd_cnt >= LAYER_WIDTH - 1)
    BY <1>4 DEF ReadOutputs, StartOutputs, WaitOutputs, MoveOutputs, StopOutputs
  <2>2. /\ Clocks' = Clocks + 1 /\ Streamed' = Streamed /\ Clocks \in Nat
        /\ rd_state' \in {"MOVE", "STOP"}
        /\ rd_cnt' = 0 <=> rd_cnt >= LAYER_WIDTH - 1
    BY <1>4, WalkStep, WalkPosition, StreamStays
  <2>3. /\ ~M_layer_tlast
        /\ m_layer_tvalid <=> Clocks > LAYER_WIDTH
        /\ sent = IF m_layer_tvalid THEN Clocks - LAYER_WIDTH - 1 ELSE 0
        /\ Clocks > 0 => (m_newrow <=> rd_cnt = 0)
    BY <1>4 DEF OutInv
  <2>4. /\ Clocks >= LAYER_WIDTH => tdata' = Vector(Streamed, Clocks - LAYER_WIDTH)
        /\ m_layer_tvalid' \in BOOLEAN
        /\ m_layer_tvalid' <=> Clocks >= LAYER_WIDTH
    BY <1>4, <2>1, VectorMade
  <2>5. Clocks >= LAYER_WIDTH => (Clocks - LAYER_WIDTH) % LAYER_WIDTH = rd_cnt
    BY <1>4, RowBegins
  <2> DEFINE n == Clocks
             m == Clocks'
  <2> HIDE DEF n, m
  <2>6. /\ m_layer_tvalid' <=> m > LAYER_WIDTH
        /\ sent' = IF m_layer_tvalid' THEN m - LAYER_WIDTH - 1 ELSE 0
        /\ m_layer_tvalid' => sent' = n - LAYER_WIDTH
    <3>1. n \in Nat /\ m = n + 1
      BY <2>2 DEF n, m
    <3>2. /\ m_layer_tvalid <=> n > LAYER_WIDTH
          /\ sent = IF m_layer_tvalid THEN n - LAYER_WIDTH - 1 ELSE 0
          /\ m_layer_tvalid' <=> n >= LAYER_WIDTH
      BY <2>3, <2>4 DEF n
    <3>3. sent' = IF m_layer_tvalid THEN sent + 1 ELSE sent
      BY <1>1, <1>4
    <3> QED
      BY <1>1, <3>1, <3>2, <3>3
  <2>7. /\ m_newrow' \in BOOLEAN
        /\ m_newrow' <=> rd_cnt' = 0
    <3>1. rd_cnt' = 0 <=> rd_cnt >= LAYER_WIDTH - 1
      BY <2>2
    <3>2. m_newrow' = (rd_cnt >= LAYER_WIDTH - 1)
      BY <2>1
    <3>3. rd_cnt \in Int /\ LAYER_WIDTH \in Int
      BY <1>1, <1>4, WalkPosition
    <3>4. m_newrow' \in BOOLEAN
      BY <3>2, <3>3
    <3> QED
      BY <3>1, <3>2, <3>4, Zenon
  <2>8. m_layer_tvalid' => /\ tdata' = Vector(Streamed', sent')
                           /\ M_layer_tnewrow' <=> sent' % LAYER_WIDTH = 0
    <3> SUFFICES ASSUME m_layer_tvalid'
                 PROVE  /\ tdata' = Vector(Streamed', sent')
                        /\ M_layer_tnewrow' <=> sent' % LAYER_WIDTH = 0
      OBVIOUS
    <3>1. /\ n >= LAYER_WIDTH /\ n > 0 /\ sent' = n - LAYER_WIDTH
      BY <1>1, <2>2, <2>4, <2>6 DEF n
    <3>2. sent' % LAYER_WIDTH = rd_cnt /\ tdata' = Vector(Streamed, sent')
      BY <2>4, <2>5, <3>1 DEF n
    <3> QED
      BY <1>1, <2>2, <2>3, <3>1, <3>2 DEF n
  <2>9. ~M_layer_tlast' /\ M_layer_tlast' \in BOOLEAN
    BY <1>1, <2>1, <2>3
  <2>10. rd_state' \notin {"START", "WAIT_CY"}
    BY <2>2
  <2>11. M_layer_tnewrow' \in BOOLEAN
    BY <1>1
  <2>12. /\ m_layer_tvalid' <=> Clocks' > LAYER_WIDTH
         /\ sent' = IF m_layer_tvalid' THEN Clocks' - LAYER_WIDTH - 1 ELSE 0
    BY <2>6 DEF m
  <2>13. m_layer_tvalid' \in BOOLEAN
    BY <2>4
  <2> QED
    BY <2>7, <2>8, <2>9, <2>10, <2>11, <2>12, <2>13, Zenon DEF OutInv
<1>5. CASE rd_state = "STOP"
  <2>1. /\ m_layer_tvalid' = TRUE /\ M_layer_tlast' = TRUE /\ m_newrow' = m_newrow
        /\ tdata' = << Zero, Zero, Zero >>
    BY <1>5 DEF ReadOutputs, StartOutputs, WaitOutputs, MoveOutputs, StopOutputs
  <2>2. /\ Clocks = BlockSize + LAYER_WIDTH /\ rd_cnt = 0 /\ BlockSize \in Nat /\ BlockSize >= 3
        /\ rd_state' = "START"
    BY <1>5, WalkPosition, WalkStep, Geometry
  <2>3. /\ m_layer_tvalid <=> Clocks > LAYER_WIDTH
        /\ sent = IF m_layer_tvalid THEN Clocks - LAYER_WIDTH - 1 ELSE 0
        /\ Clocks > 0 => (m_newrow <=> rd_cnt = 0)
    BY <1>5 DEF OutInv
  <2>4. sent' = BlockSize /\ m_newrow
    BY <1>1, <1>5, <2>2, <2>3
  <2>5. rd_state' \notin {"WAIT_CY", "MOVE", "STOP"}
    BY <2>2
  <2>6. /\ m_layer_tvalid' \in BOOLEAN /\ M_layer_tlast' /\ M_layer_tlast' \in BOOLEAN
        /\ M_layer_tnewrow' /\ M_layer_tnewrow' \in BOOLEAN /\ m_newrow' \in BOOLEAN
    BY <1>1, <2>1, <2>4, Zenon
  <2> QED
    BY <2>1, <2>4, <2>5, <2>6, Zenon DEF OutInv
<1> QED
  BY <1>1, <1>2, <1>3, <1>4, <1>5 DEF RdStates

-----------------------------------------------------------------------------
(***************************************************************************)
(* The image a controller sends, as the queue of images sees it, is the    *)
(* one in the block that is streamed.                                      *)
(***************************************************************************)
LEMMA QueueHead ==
  ASSUME BlockControlType, rd_bl_state \in Blocks, block_full[rd_bl_state]
  PROVE  ImageQueueNow[1] = Streamed
<1> DEFINE b == rd_bl_state
<1>1. b \in FullBlocks /\ FullBlocks \subseteq Blocks
  BY DEF FullBlocks
<1>2. CASE FullBlocks = {b}
  <2>1. Cardinality(FullBlocks) = 1
    BY <1>2, FS_Singleton
  <2>2. (CHOOSE c \in FullBlocks : TRUE) = b
    BY <1>2
  <2> QED
    BY <1>1, <2>1, <2>2 DEF ImageQueueNow, Streamed
<1>3. CASE FullBlocks # {b}
  <2>1. FullBlocks = {b, Other(b)} /\ Other(b) # b
    BY <1>1, <1>3 DEF Blocks, Other
  <2>2. Cardinality(FullBlocks) # 1
    <3>1. ~ \E c : FullBlocks = {c}
      BY <2>1
    <3>2. IsFiniteSet(FullBlocks)
      <4>1. IsFiniteSet({b})
        BY FS_Singleton
      <4>2. FullBlocks = {b} \cup {Other(b)}
        BY <2>1
      <4> QED
        BY <4>1, <4>2, FS_AddElement
    <3> QED
      BY <3>1, <3>2, FS_Singleton
  <2> QED
    BY <1>1, <2>2 DEF ImageQueueNow, Streamed
<1> QED
  BY <1>2, <1>3

(* While a block is streamed its image is the one being sent. *)
LEMMA SendsStreamed ==
  ASSUME CInv, rd_state # "START"
  PROVE  SendingNow = Streamed
<1>1. ~rd_block_done
  BY DEF CInv, IInv, ReaderSeen
<1>2. ImageQueueNow[1] = Streamed
  BY QueueHead DEF CInv, IInv, TypeOK, StreamsFullBlock
<1> QED
  BY <1>1, <1>2 DEF SendingNow

(* The column at a position of an image, in the order of the pixels. *)
LEMMA ColumnIsVector ==
  ASSUME NEW image, NEW k \in 0 .. BlockSize - 1
  PROVE  Column(image, k) = Vector(image, k)
<1> DEFINE W == LAYER_WIDTH
           row == k \div W
           col == k % W
<1>1. W \in Nat \ {0} /\ LAYER_HIGHT \in Nat \ {0} /\ BlockSize = LAYER_HIGHT * W /\ BlockSize \in Nat
  BY GeometryAssumption, Geometry DEF BlockSize
<1>2. row \in Int /\ col \in 0 .. W - 1 /\ k = row * W + col
  BY <1>1
<1> HIDE DEF row, col, W
<1>3. \A r \in Int : r \in 0 .. LAYER_HIGHT - 1 <=> r * W + col \in 0 .. BlockSize - 1
  <2> SUFFICES ASSUME NEW r \in Int
               PROVE  r \in 0 .. LAYER_HIGHT - 1 <=> r * W + col \in 0 .. BlockSize - 1
    OBVIOUS
  <2>0. r * W \in Int /\ (r + 1) * W = r * W + W
    BY <1>1
  <2>1. r >= 0 => r * W >= 0
    BY <1>1
  <2>2. r < 0 => r * W + W <= 0
    <3> SUFFICES ASSUME r < 0 PROVE r * W + W <= 0
      OBVIOUS
    <3>1. (0 - (r + 1)) * W >= 0
      BY <1>1
    <3>2. (0 - (r + 1)) * W = 0 - (r * W + W)
      BY <1>1
    <3> QED
      BY <2>0, <1>1, <3>1, <3>2
  <2>3. r <= LAYER_HIGHT - 1 => r * W + W <= BlockSize
    <3> SUFFICES ASSUME r <= LAYER_HIGHT - 1 PROVE r * W + W <= BlockSize
      OBVIOUS
    <3>1. (LAYER_HIGHT - 1 - r) * W >= 0
      BY <1>1
    <3>2. (LAYER_HIGHT - 1 - r) * W = LAYER_HIGHT * W - (r * W + W)
      BY <1>1
    <3> QED
      BY <2>0, <1>1, <3>1, <3>2
  <2>4. r >= LAYER_HIGHT => r * W >= BlockSize
    <3> SUFFICES ASSUME r >= LAYER_HIGHT PROVE r * W >= BlockSize
      OBVIOUS
    <3>1. (r - LAYER_HIGHT) * W >= 0
      BY <1>1
    <3>2. (r - LAYER_HIGHT) * W = r * W - LAYER_HIGHT * W
      BY <1>1
    <3> QED
      BY <2>0, <1>1, <3>1, <3>2
  <2> QED
    BY <1>1, <1>2, <2>0, <2>1, <2>2, <2>3, <2>4
<1>4. \A r \in Int : At(image, r, col) = Scan(image, r * W + col)
  BY <1>3, Zenon DEF At, Scan, W
<1>5. (row - 1) * W + col = k - W /\ (row + 1) * W + col = k + W
  BY <1>1, <1>2
<1>6. row - 1 \in Int /\ row + 1 \in Int
  BY <1>2
<1>7. /\ At(image, row - 1, col) = Scan(image, k - W)
      /\ At(image, row, col) = Scan(image, k)
      /\ At(image, row + 1, col) = Scan(image, k + W)
  BY <1>2, <1>4, <1>5, <1>6
<1> QED
  BY <1>7 DEF Column, Vector, row, col, W

-----------------------------------------------------------------------------
(***************************************************************************)
(* Both sides together.                                                    *)
(***************************************************************************)
DataInv == CInv /\ WriteInv /\ ReadInv

(* The registers after reset. *)
LEMMA InitData == DataInit => DataInv
<1> SUFFICES ASSUME DataInit PROVE DataInv
  OBVIOUS
<1>1. /\ Init
      /\ wr_state = "START" /\ rd_state = "START" /\ S_layer_tready = FALSE
      /\ \A b \in Blocks : ~block_full[b] /\ ~Filling(b) /\ ~Commits(b)
  BY DEF DataInit, Init, BlockControlInit, BlockWriteInit, BlockReadInit, Filling, Commits, WrDoneEdge
<1>2. CInv
  <2>1. NoDebugging /\ SameBlock /\ CommitsWrittenBlock
    BY <1>1 DEF Init, BlockControlInit, NoDebugging, SameBlock, CommitsWrittenBlock
  <2> QED
    BY <1>1, <2>1, InitInv DEF CInv
<1>3. PortType
  BY DEF DataInit, PortType, NoWrite
<1>4. BusInv
  BY <1>1 DEF DataInit, BusInv, Receiving
<1>5. PendingInv /\ ContentInv
  BY <1>1 DEF DataInit, PendingInv, ContentInv, NoWrite
<1>6. PipeInv /\ OutInv
  BY <1>1, Zenon DEF DataInit, PipeInv, OutInv
<1>7. RowInv
  BY <1>1 DEF DataInit, RowInv, LineBuffer!Init
<1> QED
  BY <1>2, <1>3, <1>4, <1>5, <1>6, <1>7 DEF DataInv, WriteInv, ReadInv

(* A clock of the memory controller with a next layer that is ready. *)
LEMMA DataStep ==
  ASSUME Debugging = FALSE, LAYER_WIDTH >= 3, DataInv,
         NEW tvalid \in BOOLEAN, NEW tlast \in BOOLEAN, DataTick(tvalid, tlast, TRUE)
  PROVE  DataInv'
<1>1. /\ Tick(tvalid, tlast, TRUE)
      /\ BlockControlStep /\ BlockWriteStep(tvalid, tlast) /\ BlockReadStep(TRUE)
      /\ InputBus(tvalid) /\ WritePort(tvalid) /\ BramStep /\ ReadOutputs(TRUE)
      /\ LineBuffer!FifoStep(fifo_srst, fifo_rd, fifo_wr, fifo_in)
  BY DEF DataTick, Tick
<1>2. /\ CInv /\ PortType /\ BusInv /\ PendingInv /\ ContentInv
      /\ PipeInv /\ RowInv /\ OutInv
  BY DEF DataInv, WriteInv, ReadInv
<1>3. CInv'
  BY <1>1, <1>2, TickCommits
<1>4. PortType' /\ BusInv' /\ PendingInv'
  BY <1>1, <1>2, PortTypeKept, BusKept, PendingKept
<1>5. ContentInv'
  BY <1>1, <1>2, <1>3, ContentKept
<1>6. PipeInv' /\ RowInv' /\ OutInv'
  BY <1>1, <1>2, PipeKept, RowKept, OutKept
<1> QED
  BY <1>3, <1>4, <1>5, <1>6 DEF DataInv, WriteInv, ReadInv

(* What the invariants of the write side depend on. *)
LEMMA WriteStutter ==
  ASSUME CInv, WriteInv, UNCHANGED vars, UNCHANGED portVars, UNCHANGED bramVars
  PROVE  CInv' /\ WriteInv'
<1>1. UNCHANGED arbiterVars /\ UNCHANGED writeVars /\ UNCHANGED readVars /\ UNCHANGED dbg_enable
  BY DEF vars
<1>2. CInv'
  <2>1. IInv'
    BY NextInv DEF CInv
  <2>2. NoDebugging' /\ SameBlock' /\ CommitsWrittenBlock'
    BY <1>1 DEF arbiterVars, writeVars, CInv, NoDebugging, SameBlock,
                CommitsWrittenBlock, Commits, WrDoneEdge, Filling
  <2> QED
    BY <2>1, <2>2 DEF CInv
<1>3. PortType' /\ BusInv' /\ PendingInv' /\ ContentInv'
  <2>1. PortType' /\ BusInv'
    BY <1>1 DEF writeVars, portVars, bramVars, WriteInv, PortType, BusInv
  <2>2. PendingInv'
    BY <1>1 DEF arbiterVars, portVars, bramVars, WriteInv, PendingInv, Within, Base
  <2>3. /\ \A a : Settled(a)' = Settled(a)
        /\ rx_image' = rx_image /\ wr_cnt' = wr_cnt /\ block_full' = block_full
        /\ \A b : (Filling(b)' <=> Filling(b)) /\ (Commits(b)' <=> Commits(b))
    BY <1>1
       DEF arbiterVars, writeVars, portVars, bramVars, Settled, Filling, Commits, WrDoneEdge, Base
  <2>4. \A b, image, count : (Holds(b, image, count)' <=> Holds(b, image, count))
                             /\ (Whole(b)' <=> Whole(b))
    BY <1>1 DEF portVars, bramVars, Whole, Holds, Settled, Base
  <2> QED
    BY <2>1, <2>2, <2>3, <2>4 DEF WriteInv, ContentInv
<1> QED
  BY <1>2, <1>3 DEF WriteInv

(* What the invariants of both sides depend on. *)
LEMMA DataStutter == DataInv /\ UNCHANGED dataVars => DataInv'
<1> SUFFICES ASSUME DataInv, UNCHANGED dataVars PROVE DataInv'
  OBVIOUS
<1>1. /\ UNCHANGED vars /\ UNCHANGED portVars /\ UNCHANGED bramVars /\ UNCHANGED outVars
      /\ UNCHANGED << Memory, head, tail, looped, Full_o, Empty_o, Data_o >>
  BY DEF dataVars
<1>2. UNCHANGED arbiterVars /\ UNCHANGED readVars
  BY <1>1 DEF vars
<1>3. CInv' /\ WriteInv'
  BY <1>1, WriteStutter DEF DataInv
<1>4. PipeInv'
  BY <1>1, <1>2
     DEF arbiterVars, readVars, bramVars, DataInv, ReadInv, PipeInv, Streamed, ImageOf, Clocks
<1>5. RowInv'
  <2>1. /\ Streamed' = Streamed /\ Clocks' = Clocks /\ Written' = Written /\ Read' = Read
        /\ LineBuffer!Count' = LineBuffer!Count
        /\ \A i : LineBuffer!Slot(i)' = LineBuffer!Slot(i)
    BY <1>1, <1>2
       DEF arbiterVars, readVars, bramVars, Streamed, ImageOf, Clocks, Written, Read,
           LineBuffer!Count, LineBuffer!Slot
  <2> QED
    BY <1>1, <1>2, <2>1 DEF readVars, outVars, DataInv, ReadInv, RowInv, Buffers
<1>6. OutInv'
  BY <1>1, <1>2
     DEF arbiterVars, readVars, bramVars, outVars, DataInv, ReadInv, OutInv, Streamed, ImageOf, Clocks
<1> QED
  BY <1>3, <1>4, <1>5, <1>6 DEF DataInv, ReadInv

ZeroColumns == << Zero, Zero, Zero >>

(* What the next layer sees. *)
LEMMA VectorsSeen ==
  ASSUME DataInv, m_layer_tvalid
  PROVE  /\ sent \in 0 .. BlockSize
         /\ IF sent < BlockSize
            THEN /\ tdata = Vector(Streamed, sent) /\ SendingNow = Streamed
                 /\ M_layer_tnewrow <=> sent % LAYER_WIDTH = 0
                 /\ ~M_layer_tlast
            ELSE tdata = ZeroColumns /\ M_layer_tlast /\ M_layer_tnewrow
<1>1. CInv /\ OutInv /\ BlockSize \in Nat /\ LAYER_WIDTH \in Nat
  BY Geometry DEF DataInv, ReadInv
<1>2. rd_state \in RdStates
  BY <1>1 DEF CInv, IInv, TypeOK, BlockReadType
<1>3. CASE rd_state = "START"
  BY <1>1, <1>3 DEF OutInv, ZeroColumns
<1>4. CASE rd_state = "WAIT_CY"
  BY <1>1, <1>4 DEF OutInv
<1>5. CASE rd_state \in {"MOVE", "STOP"}
  <2>1. /\ ~M_layer_tlast
        /\ Clocks > LAYER_WIDTH /\ sent = Clocks - LAYER_WIDTH - 1
        /\ tdata = Vector(Streamed, sent)
        /\ M_layer_tnewrow <=> sent % LAYER_WIDTH = 0
    BY <1>1, <1>5 DEF OutInv
  <2>2. sent \in 0 .. BlockSize - 1
    BY <1>1, <1>5, <2>1, WalkPosition
  <2>3. SendingNow = Streamed
    BY <1>1, <1>5, SendsStreamed
  <2> QED
    BY <1>1, <2>1, <2>2, <2>3
<1> QED
  BY <1>2, <1>3, <1>4, <1>5 DEF RdStates

(* The invariant implies the property. *)
LEMMA ColumnsLeave == DataInv => VectorsAreColumns
<1> SUFFICES ASSUME DataInv, m_layer_tvalid
             PROVE  IF sent < BlockSize
                    THEN /\ tdata = Column(SendingNow, sent)
                         /\ M_layer_tnewrow = (sent % LAYER_WIDTH = 0)
                         /\ ~M_layer_tlast
                    ELSE /\ sent = BlockSize
                         /\ tdata = << Zero, Zero, Zero >>
                         /\ M_layer_tlast
  BY DEF VectorsAreColumns
<1>1. /\ BlockSize \in Nat /\ sent \in 0 .. BlockSize
      /\ M_layer_tnewrow \in BOOLEAN
  BY VectorsSeen, Geometry DEF DataInv, ReadInv, OutInv
<1>2. CASE sent < BlockSize
  <2>1. /\ tdata = Vector(Streamed, sent) /\ SendingNow = Streamed /\ ~M_layer_tlast
        /\ M_layer_tnewrow <=> sent % LAYER_WIDTH = 0
    BY <1>2, VectorsSeen
  <2>2. Column(SendingNow, sent) = Vector(SendingNow, sent)
    BY <1>1, <1>2, ColumnIsVector
  <2>3. M_layer_tnewrow = (sent % LAYER_WIDTH = 0)
    BY <1>1, <2>1, Zenon
  <2> QED
    BY <1>2, <2>1, <2>2, <2>3
<1>3. CASE ~(sent < BlockSize)
  BY <1>1, <1>3, VectorsSeen DEF ZeroColumns
<1> QED
  BY <1>2, <1>3

-----------------------------------------------------------------------------
(***************************************************************************)
(* The windows.                                                            *)
(***************************************************************************)
(* Going on by one pixel. *)
LEMMA NextInRow ==
  ASSUME NEW n \in Nat, LAYER_WIDTH >= 3
  PROVE  /\ n % LAYER_WIDTH \in 0 .. LAYER_WIDTH - 1
         /\ (n + 1) % LAYER_WIDTH =
              IF n % LAYER_WIDTH = LAYER_WIDTH - 1 THEN 0 ELSE (n % LAYER_WIDTH) + 1
<1> DEFINE W == LAYER_WIDTH
           q == n \div W
           c == n % W
<1>1. W \in Nat \ {0} /\ W >= 3
  BY Geometry
<1>2. q \in Int /\ c \in 0 .. W - 1 /\ n = q * W + c
  BY <1>1
<1> HIDE DEF q, c, W
<1>3. CASE c = W - 1
  <2>1. n + 1 = (q + 1) * W + 0 /\ q + 1 \in Int /\ 0 \in 0 .. W - 1
    BY <1>1, <1>2, <1>3
  <2>2. (n + 1) % W = 0
    BY <1>1, <2>1, Division
  <2> QED
    BY <1>2, <1>3, <2>2 DEF c, W
<1>4. CASE c # W - 1
  <2>1. n + 1 = q * W + (c + 1) /\ c + 1 \in 0 .. W - 1
    BY <1>1, <1>2, <1>4
  <2>2. (n + 1) % W = c + 1
    BY <1>1, <1>2, <2>1, Division
  <2> QED
    BY <1>2, <1>4, <2>2 DEF c, W
<1> QED
  BY <1>3, <1>4

(* An image ends with a row. *)
LEMMA LastInRow ==
  BlockSize % LAYER_WIDTH = 0
<1>1. LAYER_WIDTH \in Nat \ {0} /\ LAYER_HIGHT \in Int /\ 0 \in 0 .. LAYER_WIDTH - 1
  BY Geometry, GeometryAssumption
<1>2. BlockSize = LAYER_HIGHT * LAYER_WIDTH + 0
  BY Geometry DEF BlockSize
<1> QED
  BY <1>1, <1>2, Division

(* The window around pixel n. *)
LEMMA WindowAt ==
  ASSUME NEW image, NEW n \in 0 .. BlockSize - 1, LAYER_WIDTH >= 3
  PROVE  Window(image, n) =
           << IF n % LAYER_WIDTH = 0 THEN ZeroColumns ELSE Vector(image, n - 1),
              Vector(image, n),
              IF n % LAYER_WIDTH = LAYER_WIDTH - 1 THEN ZeroColumns ELSE Vector(image, n + 1) >>
<1> DEFINE W == LAYER_WIDTH
           row == n \div W
           col == n % W
<1>1. /\ W \in Nat \ {0} /\ W >= 3 /\ BlockSize \in Nat
      /\ n \in Nat
  BY Geometry
<1>2. row \in Int /\ col \in 0 .. W - 1 /\ n = row * W + col
  BY <1>1
<1>3. col # W - 1 => n + 1 < BlockSize
  <2> SUFFICES ASSUME col # W - 1, ~(n + 1 < BlockSize) PROVE FALSE
    OBVIOUS
  <2>1. n + 1 = BlockSize
    BY <1>1
  <2>2. (n + 1) % W = col + 1
    BY <1>1, NextInRow
  <2> QED
    BY <1>2, <2>1, <2>2, LastInRow
<1>4. col # 0 => n >= 1
  <2> SUFFICES ASSUME col # 0, ~(n >= 1) PROVE FALSE
    OBVIOUS
  <2>1. n = 0 /\ 0 * W + 0 = 0 /\ 0 \in 0 .. W - 1
    BY <1>1
  <2>2. n % W = 0
    BY <1>1, <2>1, Division
  <2> QED
    BY <2>2
<1> HIDE DEF row, col, W
<1>5. WindowColumn(image, row, col - 1) = IF col = 0 THEN ZeroColumns ELSE Vector(image, n - 1)
  <2>1. col - 1 \in 0 .. W - 1 <=> col # 0
    BY <1>1, <1>2
  <2>2. row * W + (col - 1) = n - 1
    BY <1>1, <1>2
  <2>3. col # 0 => Column(image, n - 1) = Vector(image, n - 1)
    <3>1. col # 0 => n - 1 \in 0 .. BlockSize - 1
      BY <1>1, <1>4
    <3> QED
      BY <3>1, ColumnIsVector
  <2> QED
    BY <2>1, <2>2, <2>3, Zenon DEF WindowColumn, W, ZeroColumns
<1>6. WindowColumn(image, row, col) = Vector(image, n)
  BY <1>2, ColumnIsVector DEF WindowColumn, W
<1>7. WindowColumn(image, row, col + 1) = IF col = W - 1 THEN ZeroColumns ELSE Vector(image, n + 1)
  <2>1. col + 1 \in 0 .. W - 1 <=> col # W - 1
    BY <1>1, <1>2
  <2>2. row * W + (col + 1) = n + 1
    BY <1>1, <1>2
  <2>3. col # W - 1 => Column(image, n + 1) = Vector(image, n + 1)
    <3>1. col # W - 1 => n + 1 \in 0 .. BlockSize - 1
      BY <1>1, <1>3
    <3> QED
      BY <3>1, ColumnIsVector
  <2> QED
    BY <2>1, <2>2, <2>3, Zenon DEF WindowColumn, W, ZeroColumns
<1>8. Window(image, n) = [i \in 1 .. 3 |-> WindowColumn(image, row, col + i - 2)]
  BY DEF Window, row, col, W
<1>9. col + 1 - 2 = col - 1 /\ col + 2 - 2 = col /\ col + 3 - 2 = col + 1
  BY <1>2
<1>10. Window(image, n) = << WindowColumn(image, row, col - 1), WindowColumn(image, row, col),
                            WindowColumn(image, row, col + 1) >>
  BY <1>8, <1>9
<1> QED
  BY <1>5, <1>6, <1>7, <1>10 DEF col, W

(* The vectors of an image leave clock after clock, then there is a pause. *)
LEMMA VectorsFollow ==
  ASSUME DataInv, NEW tvalid \in BOOLEAN, NEW tlast \in BOOLEAN,
         DataTick(tvalid, tlast, TRUE), OutInv'
  PROVE  /\ ~m_layer_tvalid /\ m_layer_tvalid' => sent' = 0
         /\ m_layer_tvalid /\ sent < BlockSize =>
              /\ m_layer_tvalid' /\ sent' = sent + 1
              /\ sent' < BlockSize => Streamed' = Streamed
         /\ m_layer_tvalid /\ sent = BlockSize => ~m_layer_tvalid'
<1>1. /\ BlockControlStep /\ BlockReadStep(TRUE) /\ BramStep /\ ReadOutputs(TRUE)
      /\ CInv /\ PortType /\ PendingInv /\ OutInv
      /\ BlockSize \in Nat /\ LAYER_WIDTH \in Nat
      /\ sent' = IF rd_state = "WAIT_CY" THEN 0
                 ELSE IF m_layer_tvalid THEN sent + 1 ELSE sent
  BY Geometry DEF DataTick, Tick, DataInv, WriteInv, ReadInv, ReadOutputs
<1>2. CASE rd_state = "START"
  <2>1. m_layer_tvalid' = FALSE
    BY <1>1, <1>2 DEF ReadOutputs, StartOutputs, WaitOutputs, MoveOutputs, StopOutputs
  <2>2. m_layer_tvalid => sent = BlockSize
    BY <1>1, <1>2 DEF OutInv
  <2> QED
    BY <1>1, <2>1, <2>2
<1>3. CASE rd_state = "WAIT_CY"
  <2>1. m_layer_tvalid' = m_layer_tvalid /\ ~m_layer_tvalid
    BY <1>1, <1>3 DEF ReadOutputs, StartOutputs, WaitOutputs, MoveOutputs, StopOutputs, OutInv
  <2> QED
    BY <2>1
<1>4. CASE rd_state = "MOVE"
  <2>1. /\ m_layer_tvalid <=> Clocks > LAYER_WIDTH
        /\ sent = IF m_layer_tvalid THEN Clocks - LAYER_WIDTH - 1 ELSE 0
    BY <1>1, <1>4 DEF OutInv
  <2>2. /\ Clocks \in Nat /\ Clocks < BlockSize + LAYER_WIDTH
        /\ Clocks' = Clocks + 1 /\ Streamed' = Streamed
        /\ rd_state' \in {"MOVE", "STOP"}
    BY <1>1, <1>4, WalkPosition, WalkStep, StreamStays
  <2>3. m_layer_tvalid' <=> Clocks' > LAYER_WIDTH
    BY <2>2 DEF OutInv
  <2> QED
    BY <1>1, <1>4, <2>1, <2>2, <2>3
<1>5. CASE rd_state = "STOP"
  <2>1. m_layer_tvalid' = TRUE
    BY <1>1, <1>5 DEF ReadOutputs, StartOutputs, WaitOutputs, MoveOutputs, StopOutputs
  <2>2. /\ m_layer_tvalid <=> Clocks > LAYER_WIDTH
        /\ sent = IF m_layer_tvalid THEN Clocks - LAYER_WIDTH - 1 ELSE 0
    BY <1>1, <1>5 DEF OutInv
  <2>3. Clocks = BlockSize + LAYER_WIDTH
    BY <1>1, <1>5, WalkPosition
  <2>4. BlockSize >= 3
    BY Geometry
  <2> QED
    BY <1>1, <1>5, <2>1, <2>2, <2>3, <2>4
<1> QED
  BY <1>1, <1>2, <1>3, <1>4, <1>5, WalkStep DEF RdStates

(* The shift register: before an image, first column, rows, last vector. *)
LEMMA WindowKept ==
  ASSUME DataInv, WindowInv, OutInv', LAYER_WIDTH >= 3,
         NEW tvalid \in BOOLEAN, NEW tlast \in BOOLEAN, DataTick(tvalid, tlast, TRUE),
         ShiftReg!ShiftStep(m_layer_tvalid, tdata, M_layer_tnewrow, M_layer_tlast, TRUE),
         win_image' = IF Begins THEN SendingNow ELSE win_image,
         win_count' = IF Begins THEN 0
                      ELSE IF M_tvalid /\ TRUE THEN win_count + 1 ELSE win_count
  PROVE  WindowInv'
<1> DEFINE W == LAYER_WIDTH
           k == sent
<1>1. /\ W \in Nat /\ W >= 3 /\ BlockSize \in Nat /\ BlockSize >= 3
      /\ m_layer_tvalid \in BOOLEAN /\ M_tvalid \in BOOLEAN /\ M_tlast \in BOOLEAN
      /\ M_layer_tnewrow \in BOOLEAN /\ M_layer_tlast \in BOOLEAN
      /\ m_layer_tvalid' \in BOOLEAN
  BY Geometry DEF DataInv, ReadInv, OutInv, WindowInv
<1>2. /\ ~m_layer_tvalid /\ m_layer_tvalid' => sent' = 0
      /\ m_layer_tvalid /\ k < BlockSize =>
           /\ m_layer_tvalid' /\ sent' = k + 1
           /\ sent' < BlockSize => Streamed' = Streamed
      /\ m_layer_tvalid /\ k = BlockSize => ~m_layer_tvalid'
  BY VectorsFollow
<1>3. m_layer_tvalid => k \in 0 .. BlockSize
  BY VectorsSeen
<1>4. CASE ~m_layer_tvalid
  <2>1. sr_state = "INIT"
    BY <1>4 DEF WindowInv
  <2>2. /\ S_tready' = TRUE /\ M_tvalid' = FALSE /\ M_tlast' = FALSE /\ sr_state' = "INIT"
    BY <1>4, <2>1 DEF ShiftReg!ShiftStep, ShiftReg!FirstColumn, ShiftReg!NewLine, ShiftReg!Run
  <2>3. ~(m_layer_tvalid' /\ sent' > 0)
    BY <1>2, <1>4
  <2>4. /\ M_tvalid' \in BOOLEAN /\ M_tlast' \in BOOLEAN
        /\ ~M_tvalid' /\ ~M_tlast'
    BY <2>2, Zenon
  <2> QED
    BY <2>2, <2>3, <2>4, Zenon DEF WindowInv
<1>5. CASE m_layer_tvalid /\ k = 0
  <2>1. /\ sr_state = "INIT" /\ 0 % W = 0 /\ 1 % W = 1
    BY <1>1, <1>5 DEF WindowInv
  <2>2. tdata = Vector(Streamed, 0) /\ SendingNow = Streamed /\ M_layer_tnewrow
    BY <1>1, <1>5, <2>1, VectorsSeen
  <2>3. /\ S_tready' = TRUE /\ M_tvalid' = FALSE /\ M_tlast' = FALSE
        /\ sr_state' = "NEW_LINE" /\ data_buffer' = tdata
    BY <1>5, <2>1, <2>2 DEF ShiftReg!ShiftStep, ShiftReg!FirstColumn, ShiftReg!NewLine, ShiftReg!Run
  <2>4. win_image' = Streamed /\ win_count' = 0
    BY <1>5, <2>1, <2>2 DEF Begins
  <2>5. m_layer_tvalid' /\ sent' = 1 /\ Streamed' = Streamed
    BY <1>1, <1>2, <1>5
  <2>6. sent' # 0 /\ sent' % W = 1 /\ sent' - 1 = 0
    BY <2>1, <2>5
  <2>7. /\ M_tvalid' \in BOOLEAN /\ M_tlast' \in BOOLEAN
        /\ ~M_tvalid' /\ ~M_tlast'
    BY <2>3, Zenon
  <2>8. data_buffer' = Vector(win_image', sent' - 1) /\ win_image' = Streamed'
    BY <2>2, <2>3, <2>4, <2>5, <2>6
  <2> QED
    BY <2>3, <2>4, <2>5, <2>6, <2>7, <2>8, Zenon DEF WindowInv
<1>6. CASE m_layer_tvalid /\ k > 0
  <2>1. /\ k \in 1 .. BlockSize /\ ~M_tlast
        /\ k < BlockSize => win_image = Streamed
        /\ IF k % W = 1
           THEN sr_state = "NEW_LINE" /\ data_buffer = Vector(win_image, k - 1)
           ELSE sr_state = "RUN"
        /\ IF k = 1
           THEN ~M_tvalid /\ win_count = 0
           ELSE M_tvalid /\ win_count = k - 2 /\ data = Window(win_image, k - 2)
    BY <1>1, <1>3, <1>6 DEF WindowInv
  <2>2. win_image' = win_image /\ win_count' = k - 1
    <3>1. ~Begins
      BY <2>1 DEF Begins
    <3> QED
      BY <1>1, <2>1, <3>1
  <2>3. /\ k - 1 \in Nat /\ k - 1 \in 0 .. BlockSize - 1
        /\ (k - 1) % W \in 0 .. W - 1 /\ k % W \in 0 .. W - 1
        /\ k % W = IF (k - 1) % W = W - 1 THEN 0 ELSE ((k - 1) % W) + 1
        /\ (k + 1) % W = IF k % W = W - 1 THEN 0 ELSE (k % W) + 1
    <3>1. k - 1 \in Nat /\ k \in Nat /\ k - 1 + 1 = k /\ k - 1 \in 0 .. BlockSize - 1
      BY <1>1, <2>1
    <3> QED
      BY <3>1, NextInRow
  <2>4. Window(win_image, k - 1) =
          << IF k % W = 1 THEN ZeroColumns ELSE Vector(win_image, k - 2),
             Vector(win_image, k - 1),
             IF k % W = 0 THEN ZeroColumns ELSE Vector(win_image, k) >>
    <3>1. /\ (k - 1) % W = 0 <=> k % W = 1
          /\ (k - 1) % W = W - 1 <=> k % W = 0
          /\ k - 1 - 1 = k - 2 /\ k - 1 + 1 = k
      BY <1>1, <2>1, <2>3
    <3> QED
      BY <2>3, <3>1, WindowAt
  <2>5. CASE k % W = 1
    <3>1. k < BlockSize /\ sr_state = "NEW_LINE"
      BY <1>1, <2>1, <2>5, LastInRow
    <3>2. tdata = Vector(win_image, k)
      BY <1>6, <2>1, <3>1, VectorsSeen
    <3>3. /\ S_tready' = TRUE /\ M_tlast' = FALSE /\ M_tvalid' = m_layer_tvalid
          /\ sr_state' = "RUN" /\ data' = << ZeroColumns, data_buffer, tdata >>
      BY <1>6, <3>1 DEF ShiftReg!ShiftStep, ShiftReg!FirstColumn, ShiftReg!NewLine, ShiftReg!Run,
                        ZeroColumns
    <3>4. data' = Window(win_image, k - 1)
      BY <1>1, <2>1, <2>4, <2>5, <3>2, <3>3
    <3>5. /\ m_layer_tvalid' /\ sent' = k + 1
          /\ sent' < BlockSize => win_image' = Streamed'
      BY <1>2, <1>6, <2>1, <2>2, <3>1
    <3>6. sent' # 0 /\ sent' # 1 /\ sent' % W # 1 /\ sent' - 2 = k - 1
      BY <1>1, <2>1, <2>3, <2>5, <3>5
    <3>7. /\ M_tvalid' \in BOOLEAN /\ M_tlast' \in BOOLEAN
          /\ M_tvalid' /\ ~M_tlast'
      BY <1>6, <3>3, Zenon
    <3> QED
      BY <2>2, <3>3, <3>4, <3>5, <3>6, <3>7, Zenon DEF WindowInv
  <2>6. CASE k % W # 1
    <3>1. /\ sr_state = "RUN" /\ k # 1 /\ k - 2 \in 0 .. BlockSize - 1
          /\ M_tvalid /\ data = Window(win_image, k - 2)
      <4>1. 0 % W = 0 /\ 0 + 1 = 1 /\ 1 % W = 1
        BY <1>1
      <4>2. k # 1
        BY <2>6, <4>1
      <4> QED
        BY <1>1, <2>1, <2>6, <4>2
    <3>2. /\ (k - 2) % W = W - 1 <=> (k - 1) % W = 0
          /\ (k - 1) % W # 0
      <4>1. k - 2 \in Nat /\ k - 2 + 1 = k - 1
        <5>1. k \in Nat /\ k >= 1 /\ k # 1
          BY <1>1, <2>1, <3>1
        <5> HIDE DEF k, W
        <5> QED
          BY <5>1
      <4>2. /\ (k - 2) % W \in 0 .. W - 1
            /\ (k - 1) % W = IF (k - 2) % W = W - 1 THEN 0 ELSE ((k - 2) % W) + 1
        BY <4>1, NextInRow
      <4> QED
        BY <1>1, <2>3, <2>6, <4>2
    <3>3. data[2] = Vector(win_image, k - 2) /\ data[3] = Vector(win_image, k - 1)
      <4>1. k - 2 + 1 = k - 1
        BY <2>1
      <4> QED
        BY <1>1, <3>1, <3>2, <4>1, WindowAt
    <3>4. /\ S_tready' = TRUE /\ M_tvalid' = (M_tvalid \/ m_layer_tvalid)
          /\ data' = << data[2], data[3], IF M_layer_tnewrow THEN ZeroColumns ELSE tdata >>
          /\ M_tlast' = (M_tlast \/ M_layer_tlast)
          /\ data_buffer' = IF M_layer_tnewrow THEN tdata ELSE data_buffer
          /\ sr_state' = IF ~M_layer_tnewrow THEN "RUN"
                         ELSE IF M_layer_tlast THEN "INIT" ELSE "NEW_LINE"
      <4>1. ShiftReg!Run(m_layer_tvalid, tdata, M_layer_tnewrow, M_layer_tlast, TRUE)
        BY <3>1 DEF ShiftReg!ShiftStep, ShiftReg!FirstColumn, ShiftReg!NewLine, ShiftReg!Run
      <4> QED
        BY <1>6, <3>1, <4>1 DEF ShiftReg!Run, ShiftReg!Shift, ZeroColumns
    <3>5. M_tvalid' \in BOOLEAN /\ M_tvalid'
      BY <3>1, <3>4, Zenon
    <3>6. CASE k < BlockSize
      <4>1. /\ tdata = Vector(win_image, k)
            /\ M_layer_tnewrow <=> k % W = 0
            /\ ~M_layer_tlast
        BY <1>6, <2>1, <3>6, VectorsSeen
      <4>2. data' = Window(win_image, k - 1)
        BY <2>4, <2>6, <3>3, <3>4, <4>1
      <4>3. /\ m_layer_tvalid' /\ sent' = k + 1
            /\ sent' < BlockSize => win_image' = Streamed'
        BY <1>2, <1>6, <2>1, <2>2, <3>6
      <4>4. sent' # 0 /\ sent' # 1 /\ sent' - 2 = k - 1 /\ sent' - 1 = k
        BY <1>1, <2>1, <4>3
      <4>5. M_tlast' \in BOOLEAN /\ ~M_tlast'
        BY <1>1, <2>1, <3>4, <4>1, Zenon
      <4>6. IF sent' % W = 1 THEN sr_state' = "NEW_LINE" /\ data_buffer' = Vector(win_image', sent' - 1)
                             ELSE sr_state' = "RUN"
        <5>1. sent' % W = 1 <=> k % W = 0
          BY <1>1, <2>3, <2>6, <4>3
        <5> QED
          BY <1>1, <2>2, <3>4, <4>1, <4>4, <5>1
      <4> QED
        BY <2>2, <3>4, <3>5, <4>2, <4>3, <4>4, <4>5, <4>6, Zenon DEF WindowInv
    <3>7. CASE ~(k < BlockSize)
      <4>1. k = BlockSize /\ k % W = 0
        BY <1>1, <2>1, <3>7, LastInRow
      <4>2. M_layer_tlast /\ M_layer_tnewrow
        BY <1>6, <3>7, VectorsSeen
      <4>3. data' = Window(win_image, k - 1)
        BY <2>4, <2>6, <3>3, <3>4, <4>1, <4>2
      <4>4. ~m_layer_tvalid' /\ sr_state' = "INIT"
        BY <1>1, <1>2, <1>6, <3>4, <4>1, <4>2
      <4>5. M_tlast' \in BOOLEAN /\ M_tlast'
        BY <3>4, <4>2, Zenon
      <4> QED
        BY <2>2, <3>4, <3>5, <4>1, <4>3, <4>4, <4>5, Zenon DEF WindowInv
    <3> QED
      BY <3>6, <3>7
  <2> QED
    BY <2>5, <2>6
<1> QED
  BY <1>1, <1>3, <1>4, <1>5, <1>6

-----------------------------------------------------------------------------
(***************************************************************************)
(* The theorems.                                                           *)
(***************************************************************************)
LEMMA InitWindows == InputInit => DataInv /\ WindowInv
<1> SUFFICES ASSUME InputInit PROVE DataInv /\ WindowInv
  OBVIOUS
<1>1. DataInv
  BY InitData DEF InputInit
<1>2. /\ sr_state = "INIT" /\ S_tready = TRUE /\ M_tvalid = FALSE /\ M_tlast = FALSE
      /\ m_layer_tvalid = FALSE
  BY DEF InputInit, DataInit, ShiftReg!ShiftInit
<1>3. WindowInv
  BY <1>2, Zenon DEF WindowInv
<1> QED
  BY <1>1, <1>3

(* A clock of controller and shift register without stalls. *)
LEMMA InputStep ==
  ASSUME Debugging = FALSE, Stalls = FALSE, LAYER_WIDTH >= 3,
         DataInv, WindowInv, InputNext
  PROVE  DataInv' /\ WindowInv'
<1>1. PICK tvalid \in BOOLEAN, tlast \in BOOLEAN, ready \in {TRUE} :
        ConvInputTick(tvalid, tlast, ready)
  BY DEF InputNext, Readiness
<1>2. S_tready = TRUE /\ ready = TRUE
  BY <1>1 DEF WindowInv
<1>3. /\ DataTick(tvalid, tlast, TRUE)
      /\ ShiftReg!ShiftStep(m_layer_tvalid, tdata, M_layer_tnewrow, M_layer_tlast, TRUE)
      /\ win_image' = IF Begins THEN SendingNow ELSE win_image
      /\ win_count' = IF Begins THEN 0
                      ELSE IF M_tvalid /\ TRUE THEN win_count + 1 ELSE win_count
  BY <1>1, <1>2 DEF ConvInputTick
<1>4. DataInv'
  BY <1>3, DataStep
<1>5. OutInv'
  BY <1>4 DEF DataInv, ReadInv
<1>6. WindowInv'
  BY <1>3, <1>5, WindowKept
<1> QED
  BY <1>4, <1>6

(* What the invariants depend on. *)
LEMMA InputStutter ==
  ASSUME DataInv, WindowInv, UNCHANGED inputVars
  PROVE  DataInv' /\ WindowInv'
<1>1. /\ UNCHANGED dataVars
      /\ UNCHANGED << sr_state, data_buffer, data, M_tvalid, M_tlast, S_tready, win_image, win_count >>
  BY DEF inputVars
<1>2. DataInv'
  BY <1>1, DataStutter
<1>3. m_layer_tvalid' = m_layer_tvalid /\ sent' = sent /\ Streamed' = Streamed
  BY <1>1 DEF dataVars, vars, arbiterVars, bramVars, outVars, Streamed, ImageOf
<1>4. WindowInv'
  BY <1>1, <1>3 DEF WindowInv
<1> QED
  BY <1>2, <1>4

(* The invariant of controller and shift register. *)
LEMMA InputInv ==
  ASSUME Debugging = FALSE, Stalls = FALSE, LAYER_WIDTH >= 3
  PROVE  InputSpec => [](DataInv /\ WindowInv)
<1>1. (DataInv /\ WindowInv) /\ [InputNext]_inputVars => (DataInv /\ WindowInv)'
  BY InputStep, InputStutter
<1> QED
  BY <1>1, InitWindows, PTL DEF InputSpec

(* The invariant implies the property. *)
LEMMA WindowsLeave ==
  ASSUME DataInv, WindowInv
  PROVE  WindowsInOrder
<1> SUFFICES ASSUME M_tvalid
             PROVE  /\ win_count < BlockSize
                    /\ data = Window(win_image, win_count)
                    /\ M_tlast = (win_count = BlockSize - 1)
  BY DEF WindowsInOrder
<1>1. M_tlast \in BOOLEAN /\ BlockSize \in Nat /\ BlockSize >= 3
  BY Geometry DEF WindowInv
<1>2. CASE m_layer_tvalid
  <2>1. sent \in 1 .. BlockSize /\ sent # 1
    <3>1. sent \in 0 .. BlockSize
      BY <1>2, VectorsSeen
    <3>2. sent # 0 /\ (sent > 0 => sent # 1)
      BY <1>2 DEF WindowInv
    <3> QED
      BY <1>1, <3>1, <3>2
  <2>2. ~M_tlast /\ win_count = sent - 2 /\ data = Window(win_image, win_count)
    BY <1>1, <1>2, <2>1 DEF WindowInv
  <2>3. win_count < BlockSize /\ win_count # BlockSize - 1
    BY <1>1, <2>1, <2>2
  <2> QED
    BY <1>1, <2>2, <2>3, Zenon
<1>3. CASE ~m_layer_tvalid
  <2>1. M_tlast /\ win_count = BlockSize - 1 /\ data = Window(win_image, win_count)
    BY <1>3 DEF WindowInv
  <2>2. win_count < BlockSize
    BY <1>1, <2>1
  <2> QED
    BY <1>1, <2>1, <2>2, Zenon
<1> QED
  BY <1>2, <1>3

(***************************************************************************)
(* Every vector the next layer gets is the column it should be: DefaultRead*)
(* streams the pixels the bus delivered for one image, in order, with the  *)
(* row above and the row below out of the line buffer.                     *)
(***************************************************************************)
THEOREM VectorsAreTheColumns ==
  ASSUME Debugging = FALSE, Stalls = FALSE, LAYER_WIDTH >= 3
  PROVE  InputSpec => []VectorsAreColumns
<1>1. InputSpec => [](DataInv /\ WindowInv)
  BY InputInv
<1>2. DataInv /\ WindowInv => VectorsAreColumns
  BY ColumnsLeave
<1> QED
  BY <1>1, <1>2, PTL

(***************************************************************************)
(* ShiftRegister_3x3 makes of these columns the windows around each pixel, *)
(* in order, each once, zeros outside the image, tlast with the last one.  *)
(***************************************************************************)
THEOREM WindowsComeInOrder ==
  ASSUME Debugging = FALSE, Stalls = FALSE, LAYER_WIDTH >= 3
  PROVE  InputSpec => []WindowsInOrder
<1>1. InputSpec => [](DataInv /\ WindowInv)
  BY InputInv
<1>2. DataInv /\ WindowInv => WindowsInOrder
  BY WindowsLeave
<1> QED
  BY <1>1, <1>2, PTL

-----------------------------------------------------------------------------
(***************************************************************************)
(* The queue of images, with or without stalls.                            *)
(***************************************************************************)

(* From its first pixel to the edge of wr_block_done an image is being      *)
(* received, into the block the arbiter is at.                             *)
ReceiveInv ==
  /\ ~wr_block_done => wr_state # "START" /\ wr_cnt >= 1
  /\ WrDoneEdge => wr_bl_state \in Blocks /\ rx_image \in Images
  /\ \A b \in Blocks : Commits(b) => ImageOf(b) = rx_image

(* The first pixel of a block arrives in it before the third is stored.    *)
FirstPixelInv ==
  /\ \A b \in Blocks : Bram_pa.wea /\ Bram_pa.addr = Base(b) => Filling(b) /\ wr_cnt = 1
  /\ \A b \in Blocks : bram_pa.wea /\ bram_pa.addr = Base(b) => Filling(b) /\ wr_cnt \in 1 .. 2

(* The read side of the arbiter waits only while a block is empty.         *)
SendInv ==
  /\ ~rd_block_done => rd_state # "START"
  /\ RdDoneEdge => rd_bl_state \in Blocks
  /\ rd_bl_state # "DEBUG"
  /\ rd_bl_state = "IDLE" => \E b \in Blocks : ~block_full[b]

HeldInv == \A b \in Blocks : block_full[b] => ImageOf(b) \in Images

QueueInv ==
  CInv /\ WriteInv /\ S_tready \in BOOLEAN
  /\ ReceiveInv /\ FirstPixelInv /\ SendInv /\ HeldInv

-----------------------------------------------------------------------------
(* The queue, by what is full. *)
LEMMA QueueOfNone ==
  ASSUME \A b \in Blocks : ~block_full[b]
  PROVE  ImageQueueNow = << >>
<1>1. FullBlocks = {}
  BY DEF FullBlocks
<1>2. Cardinality(FullBlocks) # 1
  BY <1>1, FS_EmptySet
<1> QED
  BY <1>1, <1>2 DEF ImageQueueNow

LEMMA QueueOfOne ==
  ASSUME NEW b \in Blocks, block_full[b], ~block_full[Other(b)]
  PROVE  ImageQueueNow = << ImageOf(b) >>
<1>1. FullBlocks = {b}
  BY DEF FullBlocks, Blocks, Other
<1>2. Cardinality(FullBlocks) = 1 /\ FullBlocks # {}
  BY <1>1, FS_Singleton
<1>3. (CHOOSE c \in FullBlocks : TRUE) = b
  BY <1>1
<1> QED
  BY <1>2, <1>3 DEF ImageQueueNow

LEMMA QueueOfTwo ==
  ASSUME NEW b \in Blocks, rd_bl_state = b, block_full[b], block_full[Other(b)]
  PROVE  ImageQueueNow = << ImageOf(b), ImageOf(Other(b)) >>
<1>1. FullBlocks = {b, Other(b)} /\ Other(b) # b
  BY DEF FullBlocks, Blocks, Other
<1>2. Cardinality(FullBlocks) # 1 /\ FullBlocks # {}
  <2>1. ~ \E c : FullBlocks = {c}
    BY <1>1
  <2>2. IsFiniteSet({b}) /\ FullBlocks = {b} \cup {Other(b)}
    BY <1>1, FS_Singleton
  <2>3. IsFiniteSet(FullBlocks)
    BY <2>2, FS_AddElement
  <2> QED
    BY <1>1, <2>1, <2>3, FS_Singleton
<1> QED
  BY <1>2 DEF ImageQueueNow

QueueShape ==
  /\ (\A b \in Blocks : ~block_full[b]) => ImageQueueNow = << >>
  /\ \A b \in Blocks : block_full[b] /\ ~block_full[Other(b)] =>
       ImageQueueNow = << ImageOf(b) >>
  /\ \A b \in Blocks : rd_bl_state = b /\ block_full[b] /\ block_full[Other(b)] =>
       ImageQueueNow = << ImageOf(b), ImageOf(Other(b)) >>

(* These values hold in every state, before and after a step. *)
LEMMA QueueIs == QueueShape /\ QueueShape'
<1>1. QueueShape
  BY QueueOfNone, QueueOfOne, QueueOfTwo DEF QueueShape
<1> QED
  BY <1>1, PTL

(* Sequences of at most two elements. *)
LEMMA Sequences2 ==
  ASSUME NEW x, NEW y
  PROVE  /\ Append(<< >>, x) = << x >> /\ Append(<< x >>, y) = << x, y >>
         /\ Tail(<< x >>) = << >> /\ Tail(<< x, y >>) = << y >>
         /\ Len(<< >>) = 0 /\ Len(<< x >>) = 1
<1>1. Append(<< >>, x) = << x >>
  OBVIOUS
<1>2. Append(<< x >>, y) = << x, y >>
  <2> DEFINE S == {x, y}
             r == Append(<< x >>, y)
             t == << x, y >>
  <2>1. << x >> \in Seq(S) /\ Len(<< x >>) = 1 /\ << x >>[1] = x
    OBVIOUS
  <2>2. t \in Seq(S) /\ Len(t) = 2 /\ t[1] = x /\ t[2] = y
    OBVIOUS
  <2>3. r \in Seq(S) /\ Len(r) = 2 /\ r[1] = x /\ r[2] = y
    BY <2>1, AppendProperties
  <2> HIDE DEF S, r, t
  <2>4. \A i \in 1 .. Len(r) : r[i] = t[i]
    BY <2>2, <2>3
  <2>5. r = t
    BY <2>2, <2>3, <2>4, SeqEqual
  <2> QED
    BY <2>5 DEF r, t
<1>3. Tail(<< x >>) = << >>
  OBVIOUS
<1>4. Tail(<< x, y >>) = << y >>
  OBVIOUS
<1>5. Len(<< >>) = 0 /\ Len(<< x >>) = 1
  OBVIOUS
<1> QED
  BY <1>1, <1>2, <1>3, <1>4, <1>5

(* The first pixel of a block that is not being filled stays. *)
LEMMA ImageKept ==
  ASSUME PortType, FirstPixelInv, BramStep, NEW b \in Blocks, ~Filling(b)
  PROVE  ImageOf(b)' = ImageOf(b)
<1>1. ~(bram_pa.wea /\ bram_pa.addr = Base(b))
  BY DEF FirstPixelInv
<1>2. Base(b) \in Addresses /\ Base(b)' = Base(b)
  BY BlockAddresses DEF Base
<1>3. ram'[Base(b)] = ram[Base(b)]
  BY <1>1, <1>2 DEF BramStep, PortType
<1> QED
  BY <1>2, <1>3 DEF ImageOf, Base

(* Without debugging nothing but the last pixel ends a block. *)
LEMMA WriterGoesOn ==
  ASSUME CInv, NEW tvalid \in BOOLEAN, NEW tlast \in BOOLEAN, BlockWriteStep(tvalid, tlast),
         wr_state # "START", wr_cnt + 1 < BlockSize
  PROVE  /\ wr_state' # "START" /\ wr_cnt' \in {wr_cnt, wr_cnt + 1}
         /\ wr_position' - wr_cnt' = wr_position - wr_cnt
         /\ Stores(tvalid) => wr_cnt' = wr_cnt + 1
<1>1. /\ ~DebugAbort /\ wr_state \in WrStates
      /\ wr_cnt \in Nat /\ wr_position \in Nat /\ BlockSize \in Nat
  BY Geometry DEF CInv, NoDebugging, DebugAbort, dbg_active, IInv, TypeOK, BlockWriteType
<1> USE <1>1 DEF Stores, WrStates, Receiving
<1>2. CASE WrTakeBlock \/ WrNoBlock
  BY <1>2 DEF WrTakeBlock, WrNoBlock
<1>3. CASE ~tvalid /\ WrIdle
  BY <1>3 DEF WrIdle
<1>4. CASE tvalid /\ WrMove(tlast)
  BY <1>4 DEF WrMove, StorePixel, EndsBlock
<1>5. CASE tvalid /\ WrNewData(tlast)
  BY <1>5 DEF WrNewData, StorePixel, EndsBlock
<1>6. CASE WrSave
  BY <1>6 DEF WrSave, StorePixel, EndsBlock
<1> QED
  BY <1>2, <1>3, <1>4, <1>5, <1>6, Zenon DEF BlockWriteStep

(* The first pixel of a block is two clocks on its way. *)
LEMMA FirstPixelKept ==
  ASSUME CInv, PortType, FirstPixelInv, NEW tvalid \in BOOLEAN, NEW tlast \in BOOLEAN,
         BlockWriteStep(tvalid, tlast), WritePort(tvalid), BramStep
  PROVE  FirstPixelInv'
<1>1. /\ BlockSize \in Nat /\ BlockSize >= 3 /\ wr_cnt \in Nat /\ wr_position \in Nat
  BY Geometry DEF CInv, IInv, TypeOK, BlockWriteType
<1>2. ASSUME NEW b \in Blocks, Filling(b), wr_cnt + 1 < BlockSize
      PROVE  /\ Filling(b)' /\ wr_cnt' \in {wr_cnt, wr_cnt + 1}
             /\ Stores(tvalid) => wr_cnt' = wr_cnt + 1
  BY <1>2, WriterGoesOn DEF Filling, Base
<1>3. ASSUME NEW b \in Blocks, (Bram_pa').wea, (Bram_pa').addr = Base(b)
      PROVE  Filling(b)' /\ wr_cnt' = 1
  <2>1. Stores(tvalid) /\ wr_position = Base(b)
    <3>1. ~Stores(tvalid) => ~(Bram_pa').wea
      BY DEF WritePort, PortType
    <3>2. Stores(tvalid) => (Bram_pa').addr = wr_position
      BY DEF WritePort
    <3> QED
      BY <1>3, <3>1, <3>2
  <2>2. PICK c \in Blocks : Filling(c) /\ Within(wr_position, c)
    BY <2>1, StoresIntoEmpty
  <2>3. Within(Base(b), b)
    BY BlockAddresses, <1>1 DEF Within
  <2>4. c = b
    BY <1>1, <2>1, <2>2, <2>3, BlockAddresses
  <2>5. wr_cnt = 0 /\ Filling(b)
    BY <1>1, <2>1, <2>2, <2>4, BlockAddresses DEF Filling
  <2> QED
    BY <1>1, <1>2, <2>1, <2>5
<1>4. ASSUME NEW b \in Blocks, (bram_pa').wea, (bram_pa').addr = Base(b)
      PROVE  Filling(b)' /\ wr_cnt' \in 1 .. 2
  <2>1. Filling(b) /\ wr_cnt = 1
    BY <1>4 DEF BramStep, FirstPixelInv
  <2> QED
    BY <1>1, <1>2, <2>1
<1> QED
  BY <1>3, <1>4 DEF FirstPixelInv, Base

(* A block begins with its first pixel and is committed with its last. *)
LEMMA ReceiveKept ==
  ASSUME CInv, CInv', WriteInv, FirstPixelInv, FirstPixelInv', ReceiveInv,
         NEW tvalid \in BOOLEAN, NEW tlast \in BOOLEAN,
         BlockControlStep, BlockWriteStep(tvalid, tlast),
         InputBus(tvalid), WritePort(tvalid), BramStep
  PROVE  ReceiveInv'
<1>1. /\ BlockSize \in Nat /\ BlockSize >= 3 /\ wr_cnt \in 0 .. BlockSize - 1
      /\ BlockControlType /\ BlockWriteType /\ WordBegun /\ WriterInBlock
      /\ PortType /\ BusInv /\ ContentInv
      /\ wr_block_done_R' = wr_block_done
      /\ ~DebugAbort
  BY Geometry
     DEF CInv, IInv, TypeOK, BlockWriteType, WriteInv, BlockControlStep, NoDebugging,
         DebugAbort, dbg_active
<1>2. ~wr_block_done' => wr_state' # "START" /\ wr_cnt' >= 1
  <2> USE <1>1 DEF BlockWriteType, WrStates, Receiving, ReceiveInv
  <2>1. CASE WrTakeBlock \/ WrNoBlock
    BY <2>1 DEF WrTakeBlock, WrNoBlock
  <2>2. CASE WrIdle
    BY <2>2 DEF WrIdle
  <2>3. CASE WrMove(tlast)
    BY <2>3 DEF WrMove, StorePixel, CompleteBlock
  <2>4. CASE WrNewData(tlast)
    BY <2>4 DEF WrNewData, StorePixel, CompleteBlock
  <2>5. CASE WrSave
    BY <2>5 DEF WrSave, StorePixel, CompleteBlock
  <2> QED
    BY <2>1, <2>2, <2>3, <2>4, <2>5, Zenon DEF BlockWriteStep
<1>3. ASSUME WrDoneEdge'
      PROVE  \E b \in Blocks : /\ wr_bl_state' = b /\ rx_image' \in Images
                               /\ ImageOf(b)' = rx_image'
  <2>1. PICK b \in Blocks : Filling(b) /\ wr_state' = "START"
    BY <1>1, <1>3, DoneAtLastPixel
  <2>2. wr_state # "START" /\ wr_cnt >= 1 /\ ~wr_block_done
    BY <1>1, <1>3 DEF ReceiveInv, WrDoneEdge
  <2>3. wr_bl_state' = b
    <3>1. wr_bl_state = b
      BY <2>1 DEF CInv, SameBlock
    <3> QED
      BY <1>1, <2>2, <3>1, WriteSideStays DEF CInv, WrDoneEdge
  <2>4. rx_image' = rx_image /\ rx_image \in Images
    BY <1>1, <2>2, StoresNextPixel DEF BusInv
  <2>5. Settled(Base(b) + 0)' = Pixel(rx_image', 0)
    <3>1. 0 \in 0 .. (IF Stores(tvalid) THEN wr_cnt ELSE wr_cnt - 1)
      BY <1>1, <2>2
    <3> QED
      BY <1>1, <2>1, <3>1, FillGrows DEF CInv
  <2>6. Settled(Base(b) + 0)' = ram'[Base(b)]
    <3>1. ~Filling(b)'
      BY <2>1 DEF Filling
    <3>2. /\ ~((Bram_pa').wea /\ (Bram_pa').addr = Base(b))
          /\ ~((bram_pa').wea /\ (bram_pa').addr = Base(b))
      BY <3>1 DEF FirstPixelInv, Base
    <3>3. Base(b) + 0 = Base(b) /\ Base(b)' = Base(b)
      BY BlockAddresses DEF Base
    <3> QED
      BY <3>2, <3>3 DEF Settled, Base
  <2>7. ImageOf(b)' = rx_image'
    BY <2>5, <2>6 DEF ImageOf, Base, Pixel
  <2> QED
    BY <2>3, <2>4, <2>7
<1> QED
  BY <1>2, <1>3, Zenon DEF ReceiveInv, Commits

(* The read side of the arbiter, without debugging. *)
LEMMA ReadSideTurns ==
  ASSUME CInv, SendInv, BlockControlStep
  PROVE  /\ rd_bl_state \in Blocks \cup {"IDLE"}
         /\ rd_bl_state = "IDLE" =>
              rd_bl_state' = IF block_full["BLOCK0"] THEN "BLOCK0"
                             ELSE IF block_full["BLOCK1"] THEN "BLOCK1" ELSE "IDLE"
         /\ \A b \in Blocks : rd_bl_state = b =>
              rd_bl_state' = IF ~RdDoneEdge THEN b
                             ELSE IF block_full[Other(b)] THEN Other(b) ELSE "IDLE"
<1>1. /\ rd_bl_state \in Blocks \cup {"IDLE"} /\ ~dbg_enable
      /\ block_full \in [Blocks -> BOOLEAN]
  BY DEF CInv, IInv, TypeOK, BlockControlType, BlStates, SendInv, NoDebugging
<1>2. CASE RdBlIdle
  BY <1>1, <1>2 DEF RdBlIdle, Blocks
<1>3. ASSUME NEW b \in Blocks, RdBlRelease(b) \/ RdBlOffer(b)
      PROVE  rd_bl_state = b /\ rd_bl_state' = IF ~RdDoneEdge THEN b
                             ELSE IF block_full[Other(b)] THEN Other(b) ELSE "IDLE"
  BY <1>3 DEF RdBlRelease, RdBlOffer, Releases
<1>4. CASE \E b \in Blocks : RdBlRelease(b) \/ RdBlOffer(b)
  BY <1>1, <1>3, <1>4 DEF Blocks
<1>5. ~RdBlDebug
  BY <1>1 DEF RdBlDebug, Blocks
<1> QED
  BY <1>2, <1>4, <1>5 DEF BlockControlStep, ReadSide

(* The read side goes from a full block to the other or to IDLE. *)
LEMMA SendKept ==
  ASSUME CInv, CInv', SendInv, NEW tready \in BOOLEAN,
         BlockControlStep, BlockReadStep(tready)
  PROVE  SendInv'
<1>1. /\ BlockControlType /\ ServesFull
      /\ rd_block_done_R' = rd_block_done
  BY DEF CInv, IInv, TypeOK, BlockControlStep
<1>2. ~rd_block_done' => rd_state' # "START"
  BY Zenon DEF SendInv, BlockReadStep, RdTakeBlock, RdNoBlock, RdWaitBram, RdMove, RdStall, RdStop, readVars
<1>3. RdDoneEdge' => rd_bl_state' \in Blocks
  <2> SUFFICES ASSUME RdDoneEdge' PROVE rd_bl_state' \in Blocks
    OBVIOUS
  <2>1. ~rd_block_done /\ rd_state # "START"
    BY <1>1 DEF RdDoneEdge, SendInv
  <2>2. rd_bl_state \in Blocks /\ ~RdDoneEdge
    BY <2>1 DEF CInv, IInv, StreamsFullBlock, RdDoneEdge
  <2> QED
    BY <1>1, <2>2, ReadSideServes
<1>4. rd_bl_state' # "DEBUG"
  BY ReadSideTurns DEF Blocks, Other
<1>5. rd_bl_state' = "IDLE" => \E b \in Blocks : ~block_full'[b]
  <2>1. CASE rd_bl_state = "IDLE" /\ rd_bl_state' = "IDLE"
    <3>1. PICK b \in Blocks : ~block_full[b] /\ wr_bl_state # b
      <4>1. ~block_full["BLOCK0"] /\ ~block_full["BLOCK1"]
        BY <2>1, ReadSideTurns
      <4> QED
        BY <4>1 DEF Blocks
    <3> QED
      BY <1>1, <3>1, FullAfter DEF Commits
  <2>2. CASE rd_bl_state \in Blocks /\ rd_bl_state' = "IDLE"
    <3>1. Releases(rd_bl_state)
      BY <2>2, ReadSideTurns DEF Releases, Blocks
    <3> QED
      BY <1>1, <2>2, <3>1, FullAfter
  <2> QED
    BY <2>1, <2>2, ReadSideTurns
<1> QED
  BY <1>2, <1>3, <1>4, <1>5 DEF SendInv

(* The image of a full block stays. *)
LEMMA HeldKept ==
  ASSUME CInv, PortType, FirstPixelInv, ReceiveInv, HeldInv, BlockControlStep, BramStep
  PROVE  /\ HeldInv'
         /\ \A b \in Blocks : block_full[b] \/ Commits(b) => ImageOf(b)' = ImageOf(b)
<1>1. ASSUME NEW b \in Blocks, block_full[b] \/ Commits(b)
      PROVE  ImageOf(b)' = ImageOf(b) /\ ImageOf(b) \in Images
  <2>1. ~Filling(b)
    BY <1>1, Zenon DEF CInv, IInv, FillsEmpty, WrittenOnce, Filling, Commits
  <2>2. ImageOf(b)' = ImageOf(b)
    BY <2>1, ImageKept
  <2>3. ImageOf(b) \in Images
    BY <1>1, Zenon DEF HeldInv, ReceiveInv, Commits
  <2> QED
    BY <2>2, <2>3
<1>2. HeldInv'
  <2> SUFFICES ASSUME NEW b \in Blocks, block_full'[b] PROVE ImageOf(b)' \in Images
    BY DEF HeldInv
  <2>1. block_full[b] \/ Commits(b)
    BY FullAfter DEF CInv, IInv, TypeOK
  <2> QED
    BY <1>1, <2>1
<1> QED
  BY <1>1, <1>2

(* An image leaves the queue with the edge of rd_block_done, and joins it with
   the edge of wr_block_done. *)
LEMMA QueueMoves ==
  ASSUME CInv, CInv', PortType, FirstPixelInv, ReceiveInv, SendInv, SendInv', HeldInv,
         BlockControlStep, BramStep
  PROVE  ImageQueueNow' =
           LET rest == IF RdDoneEdge THEN Tail(ImageQueueNow) ELSE ImageQueueNow
           IN  IF WrDoneEdge THEN Append(rest, rx_image) ELSE rest
<1>1. /\ BlockControlType /\ OffersEmpty /\ ServesFull
      /\ \A b \in Blocks : Other(b) \in Blocks /\ Other(b) # b /\ Other(Other(b)) = b
      /\ \A b, c \in Blocks : c = b \/ c = Other(b)
  BY DEF CInv, IInv, TypeOK, Blocks, Other
<1>2. \A b \in Blocks : block_full[b] \/ Commits(b) => ImageOf(b)' = ImageOf(b)
  BY HeldKept
<1>3. \A b \in Blocks :
        block_full'[b] <=> (block_full[b] \/ Commits(b)) /\ ~Releases(b)
  BY <1>1, FullAfter
<1>4. \A b \in Blocks : Commits(b) => ~block_full[b] /\ ImageOf(b)' = rx_image
  BY <1>1, <1>2, Zenon DEF OffersEmpty, Commits, ReceiveInv
<1>5. \A b \in Blocks : rd_bl_state = b => block_full[b]
  BY <1>1 DEF ServesFull
<1>6. /\ WrDoneEdge => \E b \in Blocks : Commits(b)
      /\ \A b, c \in Blocks : Commits(b) /\ Commits(c) => b = c
      /\ \A b \in Blocks : Commits(b) => WrDoneEdge
  BY DEF ReceiveInv, Commits
<1>7. /\ RdDoneEdge => rd_bl_state \in Blocks
      /\ \A b \in Blocks : Releases(b) <=> rd_bl_state = b /\ RdDoneEdge
  BY DEF SendInv, Releases
<1>8. CASE \A b \in Blocks : ~block_full[b]
  <2>1. ~RdDoneEdge /\ ImageQueueNow = << >>
    BY <1>5, <1>7, <1>8, QueueIs DEF QueueShape
  <2>2. CASE ~WrDoneEdge
    <3>1. \A b \in Blocks : ~block_full'[b]
      BY <1>3, <1>6, <1>8, <2>2
    <3>2. ImageQueueNow' = << >>
      BY <3>1, QueueIs DEF QueueShape
    <3> QED
      BY <2>1, <2>2, <3>2
  <2>3. CASE WrDoneEdge
    <3>1. PICK b \in Blocks : Commits(b)
      BY <1>6, <2>3
    <3>2. block_full'[b] /\ ~block_full'[Other(b)]
      BY <1>1, <1>3, <1>6, <1>7, <1>8, <2>1, <3>1
    <3>3. ImageQueueNow' = << rx_image >>
      BY <1>4, <3>1, <3>2, QueueIs DEF QueueShape, Other
    <3> QED
      BY <2>1, <2>3, <3>3, Sequences2
  <2> QED
    BY <2>2, <2>3
<1>9. ASSUME NEW b \in Blocks, block_full[b], ~block_full[Other(b)]
      PROVE  ImageQueueNow' =
               LET rest == IF RdDoneEdge THEN Tail(ImageQueueNow) ELSE ImageQueueNow
               IN  IF WrDoneEdge THEN Append(rest, rx_image) ELSE rest
  <2>1. /\ ImageQueueNow = << ImageOf(b) >> /\ ImageOf(b)' = ImageOf(b)
        /\ rd_bl_state \in {b, "IDLE"}
    BY <1>1, <1>2, <1>5, <1>9, QueueIs, ReadSideTurns DEF QueueShape
  <2>2. /\ WrDoneEdge <=> Commits(Other(b))
        /\ ~Releases(Other(b)) /\ ~Commits(b)
        /\ Releases(b) <=> RdDoneEdge
        /\ Commits(Other(b)) => ImageOf(Other(b))' = rx_image
    BY <1>1, <1>4, <1>5, <1>6, <1>7, <1>9, <2>1
  <2>3. /\ block_full'[b] <=> ~RdDoneEdge
        /\ block_full'[Other(b)] <=> WrDoneEdge
    BY <1>1, <1>3, <1>9, <2>2
  <2>4. CASE RdDoneEdge /\ WrDoneEdge
    <3>1. ImageQueueNow' = << rx_image >>
      BY <1>1, <2>2, <2>3, <2>4, QueueIs DEF QueueShape, Other
    <3> QED
      BY <2>1, <2>4, <3>1, Sequences2
  <2>5. CASE RdDoneEdge /\ ~WrDoneEdge
    <3>1. \A c \in Blocks : ~block_full'[c]
      BY <1>1, <2>3, <2>5
    <3>2. ImageQueueNow' = << >>
      BY <3>1, QueueIs DEF QueueShape
    <3> QED
      BY <2>1, <2>5, <3>2, Sequences2
  <2>6. CASE ~RdDoneEdge /\ WrDoneEdge
    <3>1. rd_bl_state' = b
      BY <1>9, <2>1, <2>6, ReadSideTurns DEF Blocks, Other
    <3>2. ImageQueueNow' = << ImageOf(b)', ImageOf(Other(b))' >>
      BY <2>3, <2>6, <3>1, QueueIs DEF QueueShape, Other
    <3>3. ImageQueueNow' = << ImageOf(b), rx_image >>
      BY <2>1, <2>2, <2>6, <3>2
    <3> QED
      BY <2>1, <2>6, <3>3, Sequences2
  <2>7. CASE ~RdDoneEdge /\ ~WrDoneEdge
    <3>1. ImageQueueNow' = << ImageOf(b)' >>
      BY <2>3, <2>7, QueueIs DEF QueueShape, Other
    <3> QED
      BY <2>1, <2>7, <3>1
  <2> QED
    BY <2>4, <2>5, <2>6, <2>7
<1>10. CASE \A b \in Blocks : block_full[b]
  <2>1. PICK b \in Blocks : rd_bl_state = b
    BY <1>10, ReadSideTurns DEF SendInv
  <2>2. ~WrDoneEdge /\ \A c \in Blocks : ~Commits(c)
    BY <1>4, <1>6, <1>10
  <2>3. /\ ImageQueueNow = << ImageOf(b), ImageOf(Other(b)) >>
        /\ ImageOf(b)' = ImageOf(b) /\ ImageOf(Other(b))' = ImageOf(Other(b))
    BY <1>1, <1>2, <1>10, <2>1, QueueIs DEF QueueShape
  <2>4. /\ block_full'[b] <=> ~RdDoneEdge
        /\ block_full'[Other(b)]
    BY <1>1, <1>3, <1>7, <1>10, <2>1
  <2>5. CASE RdDoneEdge
    <3>1. ImageQueueNow' = << ImageOf(Other(b))' >>
      <4>1. block_full'[Other(b)] /\ ~block_full'[Other(Other(b))] /\ Other(b) \in Blocks
        BY <1>1, <2>4, <2>5
      <4> QED
        BY <4>1, QueueIs DEF QueueShape, Other
    <3> QED
      BY <2>2, <2>3, <2>5, <3>1, Sequences2
  <2>6. CASE ~RdDoneEdge
    <3>1. rd_bl_state' = b
      BY <2>1, <2>6, ReadSideTurns
    <3>2. ImageQueueNow' = << ImageOf(b)', ImageOf(Other(b))' >>
      BY <2>4, <2>6, <3>1, QueueIs DEF QueueShape, Other
    <3> QED
      BY <2>2, <2>3, <2>6, <3>2
  <2> QED
    BY <2>5, <2>6
<1> QED
  BY <1>8, <1>9, <1>10 DEF Blocks, Other

(* An image is being received from its first pixel to its last. *)
LEMMA ReceiveMoves ==
  ASSUME CInv, CInv', WriteInv, ReceiveInv, ReceiveInv', SendInv,
         NEW tvalid \in BOOLEAN, NEW tlast \in BOOLEAN,
         BlockControlStep, BlockWriteStep(tvalid, tlast), InputBus(tvalid)
  PROVE  /\ WrDoneEdge => ReceivingNow = rx_image /\ rx_image # NoImage
         /\ Queue!Receive(WrDoneEdge)
<1>1. /\ BlockSize \in Nat /\ BlockSize >= 3 /\ wr_cnt \in Nat /\ wr_state \in WrStates
      /\ wr_block_done_R' = wr_block_done
      /\ PortType /\ BusInv
      /\ WrittenOnce /\ WriterInBlock /\ FillsEmpty
  BY Geometry DEF CInv, IInv, TypeOK, BlockWriteType, WriteInv, BlockControlStep
<1>2. CASE WrDoneEdge
  <2>1. wr_state = "START" /\ next_block_write = Wait /\ wr_block_done
    BY <1>1, <1>2 DEF WrittenOnce, WrDoneEdge
  <2>2. WrNoBlock
    BY <2>1, Zenon
       DEF BlockWriteStep, WrTakeBlock, WrIdle, WrMove, WrNewData, WrSave, Receiving
  <2>3. wr_block_done' /\ ~WrDoneEdge'
    BY <1>1, <2>1, <2>2 DEF WrNoBlock, WrDoneEdge
  <2>4. ReceivingNow = rx_image /\ rx_image # NoImage /\ ReceivingNow' = NoImage
    BY <1>2, <2>3, ImagesAssumption DEF ReceivingNow, ReceiveInv
  <2> QED
    BY <1>2, <2>4 DEF Queue!Receive
<1>3. CASE ~WrDoneEdge /\ ~wr_block_done
  <2>1. wr_state # "START" /\ wr_cnt >= 1
    BY <1>3 DEF ReceiveInv
  <2>2. rx_image' = rx_image
    BY <1>1, <2>1, StoresNextPixel DEF WriteInv
  <2>3. ~wr_block_done' \/ WrDoneEdge'
    BY <1>1, <1>3 DEF WrDoneEdge
  <2>4. ReceivingNow' = ReceivingNow
    BY <1>3, <2>2, <2>3 DEF ReceivingNow
  <2> QED
    BY <1>3, <2>4 DEF Queue!Receive
<1>4. CASE ~WrDoneEdge /\ wr_block_done
  <2>1. ReceivingNow = NoImage /\ ~WrDoneEdge'
    BY <1>1, <1>4 DEF ReceivingNow, WrDoneEdge
  <2>2. CASE wr_block_done'
    <3>1. ReceivingNow' = NoImage
      BY <2>1, <2>2 DEF ReceivingNow
    <3> QED
      BY <1>4, <2>1, <3>1 DEF Queue!Receive
  <2>3. CASE ~wr_block_done'
    <3>1. wr_state # "START" /\ wr_cnt = 0 /\ wr_state # "SAVE"
      <4>1. wr_state # "START"
        BY <1>4, <2>3, Zenon
           DEF BlockWriteStep, WrTakeBlock, WrNoBlock, WrIdle, WrMove, WrNewData, WrSave, Receiving
      <4>2. ~(wr_state # "START" /\ wr_cnt >= 1)
        BY <1>4 DEF CInv, IInv, WriterSeen
      <4> QED
        BY <1>1, <4>1, <4>2 DEF CInv, IInv, WordBegun
    <3>2. tvalid /\ wr_state = Receiving
      <4>1. ~(~tvalid /\ WrIdle)
        BY <1>4, <2>3 DEF WrIdle
      <4>2. wr_state = Receiving
        BY <1>1, <3>1 DEF WrStates, Receiving
      <4>3. tvalid
        BY <1>4, <2>3, <3>1, <4>1, Zenon
           DEF BlockWriteStep, WrTakeBlock, WrNoBlock, WrMove, WrNewData, WrSave
      <4> QED
        BY <4>2, <4>3
    <3>3. rx_image' = bus.image /\ bus.image \in Images
      BY <1>1, <3>2 DEF BusInv, InputBus
    <3>4. ReceivingNow' \in Images
      BY <2>3, <3>3 DEF ReceivingNow
    <3>5. PICK b \in Blocks : ~block_full[b]
      BY <1>1, <3>1 DEF WriterInBlock, FillsEmpty
    <3>6. Len(ImageQueueNow) < 2
      <4>1. CASE block_full[Other(b)]
        <5>1. Other(b) \in Blocks /\ Other(Other(b)) = b
          BY DEF Blocks, Other
        <5>2. ImageQueueNow = << ImageOf(Other(b)) >>
          BY <3>5, <4>1, <5>1, QueueIs DEF QueueShape
        <5> QED
          BY <5>2
      <4>2. CASE ~block_full[Other(b)]
        <5>1. \A c \in Blocks : ~block_full[c]
          BY <3>5, <4>2 DEF Blocks, Other
        <5>2. ImageQueueNow = << >>
          BY <5>1, QueueIs DEF QueueShape
        <5> QED
          BY <5>2
      <4> QED
        BY <4>1, <4>2
    <3> QED
      BY <1>4, <2>1, <3>4, <3>6 DEF Queue!Receive
  <2> QED
    BY <2>2, <2>3
<1> QED
  BY <1>2, <1>3, <1>4

(* The oldest image is being sent from its block's start to its release. *)
LEMMA SendMoves ==
  ASSUME CInv, CInv', PortType, FirstPixelInv, ReceiveInv, SendInv, SendInv', HeldInv, HeldInv',
         NEW tready \in BOOLEAN, BlockControlStep, BlockReadStep(tready), BramStep
  PROVE  Queue!Send(RdDoneEdge)
<1>1. /\ BlockControlType /\ ServesFull /\ ReadOnce
      /\ rd_block_done_R' = rd_block_done
  BY DEF CInv, IInv, TypeOK, BlockControlStep
<1>2. ASSUME rd_bl_state \in Blocks
      PROVE  /\ ImageQueueNow[1] = Streamed /\ Streamed \in Images
             /\ Head(ImageQueueNow) = Streamed /\ ImageQueueNow # << >>
  <2> DEFINE b == rd_bl_state
  <2>1. block_full[b]
    BY <1>1, <1>2 DEF ServesFull
  <2>2. ImageQueueNow[1] = Streamed /\ Streamed \in Images
    BY <1>1, <1>2, <2>1, QueueHead DEF HeldInv, Streamed
  <2>3. \E rest : ImageQueueNow = << Streamed >> \/ ImageQueueNow = << Streamed, rest >>
    BY <1>2, <2>1, QueueOfOne, QueueIs DEF QueueShape, Streamed
  <2> QED
    BY <2>2, <2>3
<1>3. ASSUME rd_bl_state \in Blocks, ~RdDoneEdge
      PROVE  ImageQueueNow'[1] = Streamed
  <2>1. rd_bl_state' = rd_bl_state /\ block_full'[rd_bl_state']
    BY <1>1, <1>3, ReadSideServes DEF ServesFull
  <2>2. ImageQueueNow'[1] = Streamed'
    <3>1. \/ ImageQueueNow' = << Streamed' >>
          \/ ImageQueueNow' = << Streamed', ImageOf(Other(rd_bl_state))' >>
      BY <1>3, <2>1, QueueIs DEF QueueShape, Streamed, Other
    <3> QED
      BY <3>1
  <2>3. Streamed' = Streamed
    BY <1>1, <1>3, <2>1, HeldKept DEF Streamed, ServesFull, ImageOf, Base
  <2> QED
    BY <2>2, <2>3
<1>4. CASE RdDoneEdge
  <2>1. rd_state = "START" /\ next_block_read = Wait /\ rd_block_done
    BY <1>1, <1>4 DEF ReadOnce, RdDoneEdge
  <2>2. RdNoBlock
    BY <2>1, Zenon DEF BlockReadStep, RdTakeBlock, RdWaitBram, RdMove, RdStall, RdStop
  <2>3. rd_block_done' /\ ~RdDoneEdge'
    BY <1>1, <2>1, <2>2 DEF RdNoBlock, RdDoneEdge
  <2>4. SendingNow \in Images /\ SendingNow' = NoImage
    BY <1>2, <1>4, <2>3 DEF SendingNow, SendInv
  <2> QED
    BY <1>4, <2>4, ImagesAssumption DEF Queue!Send
<1>5. CASE ~RdDoneEdge /\ ~rd_block_done
  <2>1. rd_bl_state \in Blocks
    BY <1>5 DEF SendInv, CInv, IInv, StreamsFullBlock
  <2>2. ~rd_block_done' \/ RdDoneEdge'
    BY <1>1, <1>5 DEF RdDoneEdge
  <2>3. SendingNow' = SendingNow
    BY <1>2, <1>3, <1>5, <2>1, <2>2 DEF SendingNow
  <2> QED
    BY <1>5, <2>3 DEF Queue!Send
<1>6. CASE ~RdDoneEdge /\ rd_block_done
  <2>1. SendingNow = NoImage /\ ~RdDoneEdge'
    BY <1>1, <1>6 DEF SendingNow, RdDoneEdge
  <2>2. CASE rd_block_done'
    <3>1. SendingNow' = NoImage
      BY <2>1, <2>2 DEF SendingNow
    <3> QED
      BY <1>6, <2>1, <3>1 DEF Queue!Send
  <2>3. CASE ~rd_block_done'
    <3>1. RdTakeBlock
      BY <1>6, <2>3, Zenon
         DEF BlockReadStep, RdNoBlock, RdWaitBram, RdMove, RdStall, RdStop, readVars
    <3>2. rd_bl_state \in Blocks
      BY <1>1, <3>1 DEF RdTakeBlock, ServesFull, BlockControlType
    <3>3. SendingNow' = Head(ImageQueueNow) /\ ImageQueueNow # << >>
      BY <1>2, <1>3, <1>6, <2>3, <3>2 DEF SendingNow
    <3> QED
      BY <1>6, <2>1, <3>3 DEF Queue!Send
  <2> QED
    BY <2>2, <2>3
<1> QED
  BY <1>4, <1>5, <1>6

(* After reset the queue is empty. *)
LEMMA QueueInit ==
  InputInit => QueueInv /\ Queue!Init
<1> SUFFICES ASSUME InputInit PROVE QueueInv /\ Queue!Init
  OBVIOUS
<1>1. DataInit /\ S_tready = TRUE
  BY DEF InputInit, ShiftReg!ShiftInit
<1>2. /\ wr_block_done = TRUE /\ wr_block_done_R = TRUE
      /\ rd_block_done = TRUE /\ rd_block_done_R = TRUE
      /\ rd_bl_state = "IDLE" /\ \A b \in Blocks : ~block_full[b]
      /\ Bram_pa = NoWrite /\ bram_pa = NoWrite
  BY <1>1 DEF DataInit, Init, BlockControlInit, BlockWriteInit, BlockReadInit
<1>3. ~WrDoneEdge /\ ~RdDoneEdge
  BY <1>2 DEF WrDoneEdge, RdDoneEdge
<1>4. CInv /\ WriteInv
  BY <1>1, InitData DEF DataInv
<1>5. ReceiveInv /\ FirstPixelInv /\ SendInv /\ HeldInv
  BY <1>2, <1>3 DEF ReceiveInv, FirstPixelInv, SendInv, HeldInv, Commits, NoWrite, Blocks
<1>6. QueueInv
  BY <1>1, <1>4, <1>5 DEF QueueInv
<1>7. ImageQueueNow = << >>
  BY <1>2, QueueOfNone
<1>8. Queue!Init
  BY <1>2, <1>3, <1>7 DEF Queue!Init, ReceivingNow, SendingNow
<1> QED
  BY <1>6, <1>8

(* A clock of the controller is a step of the queue. *)
LEMMA QueueStep ==
  ASSUME Debugging = FALSE, QueueInv, InputNext
  PROVE  QueueInv' /\ Queue!Next
<1>1. PICK tvalid \in BOOLEAN, tlast \in BOOLEAN, ready \in BOOLEAN :
        ConvInputTick(tvalid, tlast, ready)
  BY DEF InputNext, Readiness
<1>2. /\ Tick(tvalid, tlast, S_tready)
      /\ InputBus(tvalid) /\ WritePort(tvalid) /\ BramStep
      /\ S_tready \in BOOLEAN /\ S_tready' \in BOOLEAN
  BY <1>1 DEF ConvInputTick, DataTick, QueueInv, ShiftReg!ShiftStep, ShiftReg!FirstColumn,
              ShiftReg!NewLine, ShiftReg!Run
<1>3. /\ BlockControlStep /\ BlockWriteStep(tvalid, tlast) /\ BlockReadStep(S_tready)
      /\ CInv /\ WriteInv /\ PortType /\ BusInv /\ PendingInv /\ ContentInv
      /\ ReceiveInv /\ FirstPixelInv /\ SendInv /\ HeldInv
  BY <1>2 DEF Tick, QueueInv, WriteInv
<1>4. CInv'
  BY <1>2, <1>3, TickCommits
<1>5. WriteInv'
  <2>1. PortType' /\ BusInv' /\ PendingInv'
    BY <1>2, <1>3, PortTypeKept, BusKept, PendingKept
  <2>2. ContentInv'
    BY <1>2, <1>3, <1>4, ContentKept
  <2> QED
    BY <2>1, <2>2 DEF WriteInv
<1>6. FirstPixelInv'
  BY <1>2, <1>3, FirstPixelKept
<1>7. ReceiveInv'
  BY <1>2, <1>3, <1>4, <1>6, ReceiveKept
<1>8. SendInv' /\ HeldInv'
  BY <1>2, <1>3, <1>4, SendKept, HeldKept
<1>9. QueueInv'
  BY <1>2, <1>4, <1>5, <1>6, <1>7, <1>8 DEF QueueInv
<1>10. /\ WrDoneEdge => ReceivingNow = rx_image
       /\ Queue!Receive(WrDoneEdge)
  BY <1>2, <1>3, <1>4, <1>7, ReceiveMoves
<1>11. Queue!Send(RdDoneEdge)
  BY <1>2, <1>3, <1>4, <1>8, SendMoves
<1>12. ImageQueueNow' =
         LET rest == IF RdDoneEdge THEN Tail(ImageQueueNow) ELSE ImageQueueNow
         IN  IF WrDoneEdge THEN Append(rest, ReceivingNow) ELSE rest
  BY <1>2, <1>3, <1>4, <1>8, <1>10, QueueMoves
<1>13. WrDoneEdge \in BOOLEAN /\ RdDoneEdge \in BOOLEAN
  BY DEF WrDoneEdge, RdDoneEdge
<1>14. Queue!Next
  BY <1>10, <1>11, <1>12, <1>13 DEF Queue!Next
<1> QED
  BY <1>9, <1>14

(* What the queue depends on. *)
LEMMA QueueStutter ==
  ASSUME QueueInv, UNCHANGED inputVars
  PROVE  QueueInv' /\ UNCHANGED Queue!queueVars
<1>1. /\ UNCHANGED vars /\ UNCHANGED portVars /\ UNCHANGED bramVars /\ S_tready' = S_tready
      /\ UNCHANGED arbiterVars /\ UNCHANGED writeVars /\ UNCHANGED readVars
      /\ UNCHANGED dbg_enable
  BY DEF inputVars, dataVars, vars
<1>2. CInv' /\ WriteInv'
  BY <1>1, WriteStutter DEF QueueInv
<1>3. \A b : /\ ImageOf(b)' = ImageOf(b) /\ (Commits(b)' <=> Commits(b))
             /\ (Filling(b)' <=> Filling(b)) /\ Base(b)' = Base(b)
  BY <1>1 DEF arbiterVars, writeVars, bramVars, ImageOf, Commits, WrDoneEdge, Filling, Base
<1>4. ReceiveInv' /\ FirstPixelInv' /\ SendInv' /\ HeldInv'
  BY <1>1, <1>3
     DEF arbiterVars, writeVars, readVars, portVars, bramVars, QueueInv,
         ReceiveInv, FirstPixelInv, SendInv, HeldInv, WrDoneEdge, RdDoneEdge
<1>5. ImageQueueNow' = ImageQueueNow
  BY <1>1 DEF arbiterVars, bramVars, ImageQueueNow, FullBlocks, ImageOf, Base
<1>6. ReceivingNow' = ReceivingNow /\ SendingNow' = SendingNow
  BY <1>1, <1>5
     DEF arbiterVars, writeVars, readVars, portVars, ReceivingNow, SendingNow,
         WrDoneEdge, RdDoneEdge
<1> QED
  BY <1>1, <1>2, <1>4, <1>5, <1>6 DEF QueueInv, Queue!queueVars

(***************************************************************************)
(* The memory controller implements ImageQueue: no image is lost, repeated *)
(* or overtaken between the bus and the next layer, however the next layer *)
(* stalls.                                                                 *)
(***************************************************************************)
THEOREM ControllerIsImageQueue ==
  ASSUME Debugging = FALSE
  PROVE  InputSpec => IsImageQueue
<1>1. InputInit => QueueInv /\ Queue!Init
  BY QueueInit
<1>2. QueueInv /\ [InputNext]_inputVars => QueueInv' /\ [Queue!Next]_(Queue!queueVars)
  BY QueueStep, QueueStutter
<1> QED
  BY <1>1, <1>2, PTL DEF InputSpec, IsImageQueue, Queue!Spec
=============================================================================
