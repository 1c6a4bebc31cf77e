---------------------------- MODULE ConvPoolProofs ----------------------------
(***************************************************************************)
(* Theorems on the convolution and max pooling: pooling takes every result *)
(* of the convolution, and what it gives are the maxima of the patches, in *)
(* order. The second one needs to know where pixels lie in the FIFO.       *)
(***************************************************************************)
EXTENDS ConvPool, TLAPS

(* Pooling in a state in which it takes a result. *)
Takes == state \in {"FIRST_LINE", "POOL"}

(* Pooling which is ready still takes a result a clock later. *)
LEMMA ReadyTakesNext ==
  ASSUME NEW offers \in BOOLEAN, NEW tready \in BOOLEAN,
         Tick(offers, tready), Pooling!PoolReady(Last_o, tready)
  PROVE  ready_latched' /\ Takes'
<1>1. Takes /\ tready /\ ~Last_o
  BY DEF Pooling!PoolReady, Pooling!s_ready, Takes
<1>2. ready_latched' = tready
  BY DEF Tick, Pooling!PoolStep
<1>3. CASE state = "FIRST_LINE"
  <2>1. Pooling!FirstLine(Valid_o, Last_o, tready)
    BY <1>3 DEF Tick, Pooling!PoolStep, Pooling!LeaveInit, Pooling!LeaveStart, Pooling!Pool
  <2> QED BY <1>1, <1>2, <1>3, <2>1 DEF Pooling!FirstLine, Takes
<1>4. CASE state = "POOL"
  <2>1. Pooling!Pool(Valid_o, Last_o)
    BY <1>4 DEF Tick, Pooling!PoolStep, Pooling!LeaveInit, Pooling!LeaveStart, Pooling!FirstLine
  <2> QED BY <1>1, <1>2, <1>4, <2>1 DEF Pooling!Pool, Takes
<1> QED BY <1>1, <1>3, <1>4 DEF Takes

(***************************************************************************)
(* Whatever the next layer does with its ready: every result of the        *)
(* convolution comes in a clock in which pooling takes it, for images of   *)
(* every size and both conventions for tlast.                              *)
(***************************************************************************)
THEOREM EveryResultIsTaken == Spec => []ResultsAreTaken
<1>1. Init => ResultsAreTaken
  BY DEF Init, Channel!ChannelInit, ResultsAreTaken
<1>2. ResultsAreTaken /\ [Next]_vars => ResultsAreTaken'
  <2>1. ASSUME NEW offers \in BOOLEAN, NEW tready \in BOOLEAN, Tick(offers, tready), Valid_o'
        PROVE  ready_latched' /\ Takes'
    <3>1. Pooling!PoolReady(Last_o, tready)
      BY <2>1 DEF Tick, Channel!ChannelStep, Channel!Add, Channel!Sums
    <3> QED BY <2>1, <3>1, ReadyTakesNext
  <2>2. ASSUME ResultsAreTaken, UNCHANGED vars
        PROVE  ResultsAreTaken'
    BY <2>2 DEF vars, Channel!channelVars, Pooling!poolVars, ResultsAreTaken
  <2> QED BY <2>1, <2>2 DEF Next, ResultsAreTaken, Takes
<1> QED BY <1>1, <1>2, PTL DEF Spec

-----------------------------------------------------------------------------
(***************************************************************************)
(* Sizes. Rows of patches are pairs of rows of pixels, each of them has    *)
(* Half patches.                                                           *)
(***************************************************************************)
Half == LAYER_WIDTH \div 2
Pairs == LAYER_HIGHT \div 2

Pixel(row, col) == row * LAYER_WIDTH + col

LEMMA Sizes ==
  /\ LAYER_WIDTH \in Nat /\ Half \in Nat \ {0} /\ LAYER_WIDTH = 2 * Half
  /\ LAYER_HIGHT \in Nat /\ Pairs \in Nat \ {0} /\ LAYER_HIGHT = 2 * Pairs
  /\ Windows \in Nat \ {0}
  /\ Patches = Pairs * Half /\ Patches \in Nat \ {0}
<1>1. /\ LAYER_WIDTH \in Nat /\ Half \in Nat \ {0} /\ LAYER_WIDTH = 2 * Half
      /\ LAYER_HIGHT \in Nat /\ Pairs \in Nat \ {0} /\ LAYER_HIGHT = 2 * Pairs
  BY PatchAssumption DEF Half, Pairs
<1>2. Windows = 4 * (Pairs * Half)
  BY <1>1 DEF Windows
<1> DEFINE n == Pairs * Half
<1>3. n \in Nat \ {0}
  BY <1>1
<1> HIDE DEF n
<1>4. (4 * n) \div 4 = n /\ 4 * n \in Nat \ {0}
  BY <1>3
<1> QED
  BY <1>1, <1>2, <1>3, <1>4 DEF Patches, n

LEMMA Division ==
  ASSUME NEW n \in Nat \ {0}, NEW q \in Int, NEW c \in 0 .. n - 1
  PROVE  (q * n + c) \div n = q /\ (q * n + c) % n = c
OBVIOUS

(* The pixel behind another one. *)
LEMMA PixelNext ==
  ASSUME NEW row \in 0 .. LAYER_HIGHT - 1, NEW col \in 0 .. LAYER_WIDTH - 1
  PROVE  /\ Pixel(row, col) \in 0 .. Windows - 1
         /\ Pixel(row, col) % LAYER_WIDTH = col
         /\ col < LAYER_WIDTH - 1 => (Pixel(row, col) + 1) % Windows = Pixel(row, col + 1)
         /\ col = LAYER_WIDTH - 1 =>
              (Pixel(row, col) + 1) % Windows = IF row = LAYER_HIGHT - 1 THEN 0 ELSE Pixel(row + 1, 0)
<1> DEFINE x == Pixel(row, col)
           n == Windows
<1>1. LAYER_WIDTH \in Nat \ {0} /\ LAYER_HIGHT \in Nat \ {0} /\ Windows \in Nat \ {0}
  BY Sizes
<1>2. /\ (LAYER_HIGHT - 1 - row) * LAYER_WIDTH >= 0 /\ row * LAYER_WIDTH >= 0
      /\ n = (LAYER_HIGHT - 1 - row) * LAYER_WIDTH + row * LAYER_WIDTH + LAYER_WIDTH
  BY <1>1 DEF Windows
<1>3. x \in 0 .. n - 1
  BY <1>1, <1>2 DEF Pixel
<1>4. x % LAYER_WIDTH = col
  BY <1>1, Division DEF Pixel
<1>5. ASSUME x # n - 1 PROVE (x + 1) % n = x + 1
  <2>1. n \in Nat \ {0}
    BY <1>1
  <2> HIDE DEF x, n
  <2>2. x + 1 \in 0 .. n - 1
    BY <1>3, <1>5, <2>1
  <2> QED
    BY <2>1, <2>2
<1>6. ASSUME x = n - 1 PROVE (x + 1) % n = 0
  <2>1. n \in Nat \ {0}
    BY <1>1
  <2> HIDE DEF x, n
  <2>2. x + 1 = n /\ n % n = 0
    BY <1>6, <2>1
  <2> QED
    BY <2>2
<1>7. col < LAYER_WIDTH - 1 => x # n - 1 /\ x + 1 = Pixel(row, col + 1)
  BY <1>1, <1>2 DEF Pixel
<1>8. col = LAYER_WIDTH - 1 /\ row # LAYER_HIGHT - 1 => x # n - 1 /\ x + 1 = Pixel(row + 1, 0)
  <2> SUFFICES ASSUME col = LAYER_WIDTH - 1, row # LAYER_HIGHT - 1
               PROVE  x # n - 1 /\ x + 1 = Pixel(row + 1, 0)
    OBVIOUS
  <2>1. (LAYER_HIGHT - 1 - row) * LAYER_WIDTH > 0
    BY <1>1
  <2> QED
    BY <1>1, <1>2, <2>1 DEF Pixel
<1>9. col = LAYER_WIDTH - 1 /\ row = LAYER_HIGHT - 1 => x = n - 1
  BY <1>1 DEF Pixel, Windows
<1> HIDE DEF x, n
<1>10. col = LAYER_WIDTH - 1 \/ col < LAYER_WIDTH - 1
  BY <1>1
<1> QED
  BY <1>3, <1>4, <1>5, <1>6, <1>7, <1>8, <1>9, <1>10 DEF x, n

-----------------------------------------------------------------------------
(***************************************************************************)
(* Bench and channel: one window at most is on the way to pooling.         *)
(***************************************************************************)
InFlight == Valid_i \/ start_addition \/ Valid_o

(* The pixel pooling takes next. *)
Current ==
  IF Valid_o THEN Y_o
  ELSE IF start_addition THEN K_out
  ELSE IF Valid_i THEN X_i ELSE next_window

FlightInv ==
  /\ Valid_i \in BOOLEAN /\ start_addition \in BOOLEAN /\ Valid_o \in BOOLEAN
  /\ ~(Valid_i /\ start_addition) /\ ~(Valid_i /\ Valid_o) /\ ~(start_addition /\ Valid_o)
  /\ Current \in 0 .. Windows - 1
  /\ InFlight => next_window = (Current + 1) % Windows
  /\ Valid_i => (Last_i <=> EndsPacket(Current))
  /\ IF start_addition THEN is_last <=> EndsPacket(Current) ELSE ~is_last
  /\ IF Valid_o THEN Last_o <=> EndsPacket(Current) ELSE ~Last_o

LEMMA FlightKept ==
  ASSUME FlightInv, NEW offers \in BOOLEAN, NEW tready \in BOOLEAN, Tick(offers, tready)
  PROVE  FlightInv' /\ Current' = IF Valid_o THEN (Current + 1) % Windows ELSE Current
<1> DEFINE ready == Pooling!PoolReady(Last_o, tready)
           sums == start_addition /\ ready
<1>1. /\ Valid_o' = sums
      /\ Last_o' = (sums /\ is_last)
      /\ Y_o' = IF sums THEN K_out ELSE Y_o
      /\ start_addition' = (Valid_i \/ (start_addition /\ ~sums))
      /\ is_last' = IF Valid_i THEN Last_i ELSE is_last /\ ~sums
      /\ K_out' = IF Valid_i THEN X_i ELSE K_out
  BY DEF Tick, Channel!ChannelStep, Channel!Add, Channel!Accept, Channel!Sums
<1>2. \/ Offer /\ ~Valid_i /\ ~start_addition
      \/ OfferNothing
  BY DEF Tick, Bench, Channel!ChannelReady
<1>3. ready \in BOOLEAN
  BY DEF Pooling!PoolReady
<1> HIDE DEF ready
<1>4. /\ Valid_i \in BOOLEAN /\ start_addition \in BOOLEAN /\ Valid_o \in BOOLEAN
      /\ ~(Valid_i /\ start_addition) /\ ~(Valid_i /\ Valid_o) /\ ~(start_addition /\ Valid_o)
      /\ Current \in 0 .. Windows - 1
      /\ InFlight => next_window = (Current + 1) % Windows
  BY DEF FlightInv
<1>5. \A n \in 0 .. Windows - 1 : (n + 1) % Windows \in 0 .. Windows - 1
  <2>1. Windows \in Nat \ {0}
    BY Sizes
  <2> QED
    BY <2>1
<1>6. CASE start_addition
  <2>1. OfferNothing /\ Current = K_out
    BY <1>2, <1>4, <1>6 DEF Current
  <2>2. Valid_i' = FALSE /\ next_window' = next_window
    BY <2>1 DEF OfferNothing
  <2>3. Current' = Current
    BY <1>1, <1>3, <1>4, <1>6, <2>1, <2>2 DEF Current
  <2>4. next_window' = (Current' + 1) % Windows
    BY <1>4, <1>6, <2>2, <2>3 DEF InFlight
  <2>5. is_last <=> EndsPacket(Current')
    BY <1>6, <2>3 DEF FlightInv
  <2>6. CASE ready
    <3>1. Valid_o' = TRUE /\ (Last_o' <=> is_last) /\ start_addition' = FALSE /\ ~is_last'
      BY <1>1, <1>4, <1>6, <2>6
    <3> QED
      BY <1>4, <1>6, <2>2, <2>3, <2>4, <2>5, <3>1 DEF FlightInv
  <2>7. CASE ~ready
    <3>1. Valid_o' = FALSE /\ ~Last_o' /\ start_addition' = TRUE /\ (is_last' <=> is_last)
      BY <1>1, <1>4, <1>6, <2>7
    <3> QED
      BY <1>4, <1>6, <2>2, <2>3, <2>4, <2>5, <3>1 DEF FlightInv
  <2> QED
    BY <2>6, <2>7
<1>7. CASE Valid_i
  <2>1. OfferNothing /\ Current = X_i
    BY <1>2, <1>4, <1>7 DEF Current
  <2>2. Valid_i' = FALSE /\ next_window' = next_window
    BY <2>1 DEF OfferNothing
  <2>3. Valid_o' = FALSE /\ Last_o' = FALSE /\ start_addition' = TRUE /\ (is_last' <=> Last_i)
    BY <1>1, <1>4, <1>7
  <2>4. Current' = Current
    BY <1>1, <1>7, <2>1, <2>3 DEF Current
  <2> QED
    BY <1>4, <1>7, <2>2, <2>3, <2>4 DEF FlightInv, InFlight
<1>8. CASE ~start_addition /\ ~Valid_i
  <2>1. Valid_o' = FALSE /\ Last_o' = FALSE /\ start_addition' = FALSE /\ ~is_last'
    BY <1>1, <1>4, <1>8 DEF FlightInv
  <2>2. next_window = IF Valid_o THEN (Current + 1) % Windows ELSE Current
    BY <1>4, <1>8 DEF InFlight, Current
  <2>3. \/ /\ Valid_i' = TRUE /\ X_i' = next_window
           /\ Last_i' = EndsPacket(next_window)
           /\ next_window' = (next_window + 1) % Windows
        \/ Valid_i' = FALSE /\ next_window' = next_window
    BY <1>2 DEF Offer, OfferNothing
  <2>4. Current' = next_window
    BY <2>1, <2>3 DEF Current
  <2>5. next_window \in 0 .. Windows - 1
    BY <1>4, <1>5, <2>2
  <2> QED
    BY <2>1, <2>2, <2>3, <2>4, <2>5 DEF FlightInv, InFlight
<1> QED
  BY <1>4, <1>6, <1>7, <1>8

-----------------------------------------------------------------------------
(***************************************************************************)
(* Pooling. Of the pair of rows pooling is at, the first one lies in the   *)
(* FIFO from slot 0 on. Pooling also writes the second one, if the next    *)
(* layer is ready, while it reads: behind the last pixel of the first row  *)
(* there are two slots, and what comes behind them has been read by then.  *)
(***************************************************************************)
LineInv(pair, col) ==
  /\ state \in {"INIT", "START"} => head = 0 /\ tail = 0 /\ ~looped /\ col = 0
  /\ state = "FIRST_LINE" =>
       /\ col_cnt = col /\ head = col /\ tail = 0 /\ ~looped
       /\ \A i \in 0 .. col - 1 : Memory[i] = Pixel(2 * pair, i)
  /\ state = "POOL" =>
       /\ tail = col + 1
       /\ IF looped THEN head \in 0 .. col - 2
                    ELSE head \in LAYER_WIDTH .. LAYER_WIDTH + 1 /\ head - LAYER_WIDTH <= col
       /\ \A i \in col + 1 .. LAYER_WIDTH - 1 : Memory[i] = Pixel(2 * pair, i)
       /\ Data_o = Pixel(2 * pair, col)
       /\ col > 0 => /\ fifo_out_latched = Pixel(2 * pair, col - 1)
                     /\ input_latched = Pixel(2 * pair + 1, col - 1)

Row(pair) == IF state = "POOL" THEN 2 * pair + 1 ELSE 2 * pair

PairInv(pair, col) ==
  /\ Current = Pixel(Row(pair), col)
  /\ state # "POOL" => ~output_en /\ pooled = pair * Half
  /\ state = "POOL" => col = 2 * (pooled - pair * Half) + (IF output_en THEN 1 ELSE 0)

PoolInv ==
  /\ state \in {"INIT", "START", "FIRST_LINE", "POOL"}
  /\ output_en \in BOOLEAN
  /\ Memory = [s \in 0 .. LAYER_WIDTH + 1 |-> Memory[s]]
  /\ pooled \in 0 .. Patches - 1
  /\ \E pair \in 0 .. Pairs - 1, col \in 0 .. LAYER_WIDTH - 1 :
       LineInv(pair, col) /\ PairInv(pair, col)

(* Pooling in a clock without a result of the convolution. *)
LEMMA PoolWaits ==
  ASSUME PoolInv, FlightInv, ~Valid_o,
         NEW offers \in BOOLEAN, NEW tready \in BOOLEAN, Tick(offers, tready)
  PROVE  PoolInv'
<1>1. PICK pair \in 0 .. Pairs - 1, col \in 0 .. LAYER_WIDTH - 1 :
        LineInv(pair, col) /\ PairInv(pair, col)
  BY DEF PoolInv
<1>2. Current' = Current /\ ~Last_o
  BY FlightKept DEF FlightInv
<1>3. Pooling!PoolStep(Valid_o, Last_o, Y_o, tready)
  BY DEF Tick
<1>4. /\ ~Pooling!fifo_wr(Valid_o, Last_o, tready)
      /\ ~Pooling!fifo_rd(Valid_o, Last_o, tready)
      /\ ~Pooling!EndsFirstLine(Valid_o, Last_o, tready)
      /\ ~Pooling!Compares(Valid_o)
  BY DEF Pooling!fifo_wr, Pooling!fifo_rd, Pooling!EndsFirstLine, Pooling!Compares
<1>5. Pooling!fifo_srst(Last_o) <=> state = "INIT"
  BY <1>2 DEF Pooling!fifo_srst
<1>6. /\ pooled' = pooled
      /\ fifo_out_latched' = fifo_out_latched /\ input_latched' = input_latched
      /\ output_en' = (state = "POOL" /\ output_en)
  BY <1>3, <1>4 DEF Tick, Pooling!m_tvalid, Pooling!PoolStep, Pooling!Toggles
<1>7. /\ Memory' = Memory /\ Data_o' = Data_o
      /\ IF state = "INIT" THEN head' = 0 /\ tail' = 0 /\ ~looped'
                           ELSE head' = head /\ tail' = tail /\ (looped' <=> looped)
  BY <1>3, <1>4, <1>5
     DEF Pooling!PoolStep, Pooling!PoolFifo!FifoStep, Pooling!PoolFifo!Reset,
         Pooling!PoolFifo!Access, Pooling!PoolFifo!ReadHalf, Pooling!PoolFifo!CanRead,
         Pooling!PoolFifo!WriteHalf, Pooling!PoolFifo!CanWrite, Pooling!PoolFifo!LoopedAfterRead,
         PoolInv
<1>8. \/ state = "INIT" /\ state' = "START"
      \/ state = "START" /\ state' = "FIRST_LINE" /\ col_cnt' = 0
      \/ state \in {"FIRST_LINE", "POOL"} /\ state' = state /\ col_cnt' = col_cnt
  BY <1>2, <1>3, <1>4
     DEF Pooling!PoolStep, Pooling!LeaveInit, Pooling!LeaveStart, Pooling!FirstLine, Pooling!Pool
<1>9. LineInv(pair, col)'
  BY <1>1, <1>6, <1>7, <1>8 DEF LineInv, Pixel
<1>10. PairInv(pair, col)'
  BY <1>1, <1>2, <1>6, <1>8 DEF PairInv, Row, Pixel, PoolInv
<1> QED
  BY <1>6, <1>7, <1>8, <1>9, <1>10 DEF PoolInv

(* A pixel of the first row of a pair is stored; with the last one the     *)
(* first word of the FIFO comes out.                                       *)
LEMMA PoolStores ==
  ASSUME PoolInv, FlightInv, ResultsAreTaken, Valid_o, state = "FIRST_LINE",
         NEW offers \in BOOLEAN, NEW tready \in BOOLEAN, Tick(offers, tready)
  PROVE  PoolInv'
<1>1. PICK pair \in 0 .. Pairs - 1, col \in 0 .. LAYER_WIDTH - 1 :
        LineInv(pair, col) /\ PairInv(pair, col)
  BY DEF PoolInv
<1>2. /\ ready_latched
      /\ Current' = (Current + 1) % Windows
      /\ Y_o = Pixel(2 * pair, col)
  BY <1>1, FlightKept DEF ResultsAreTaken, PairInv, Row, Current
<1>3. Pooling!PoolStep(Valid_o, Last_o, Y_o, tready)
  BY DEF Tick
<1>0. /\ LAYER_WIDTH \in Nat /\ LAYER_WIDTH >= 2
      /\ 2 * pair \in 0 .. LAYER_HIGHT - 2
      /\ pair * Half \in Int
  BY Sizes
<1>4. /\ col_cnt = col /\ head = col /\ tail = 0 /\ ~looped
      /\ \A i \in 0 .. col - 1 : Memory[i] = Pixel(2 * pair, i)
      /\ Memory = [s \in 0 .. LAYER_WIDTH + 1 |-> Memory[s]]
      /\ ~output_en /\ pooled = pair * Half
      /\ Current = Pixel(2 * pair, col)
  BY <1>1 DEF LineInv, PairInv, PoolInv, Row
<1> DEFINE ends == col = LAYER_WIDTH - 1
<1>5. /\ Pooling!fifo_wr(Valid_o, Last_o, tready)
      /\ Pooling!EndsFirstLine(Valid_o, Last_o, tready) <=> ends
      /\ Pooling!fifo_rd(Valid_o, Last_o, tready) <=> ends
      /\ ~Pooling!fifo_srst(Last_o)
  BY <1>2, <1>4
     DEF Pooling!fifo_wr, Pooling!fifo_rd, Pooling!EndsFirstLine, Pooling!Compares,
         Pooling!s_ready, Pooling!fifo_srst
<1>6. pooled' = pooled /\ output_en' = FALSE
  BY <1>3 DEF Tick, Pooling!m_tvalid, Pooling!Compares, Pooling!PoolStep, Pooling!Toggles
<1>7. IF ends THEN state' = "POOL"
              ELSE state' = "FIRST_LINE" /\ col_cnt' = col + 1
  BY <1>3, <1>4, <1>5
     DEF Pooling!PoolStep, Pooling!LeaveInit, Pooling!LeaveStart, Pooling!FirstLine, Pooling!Pool
<1>8. /\ Memory' = [Memory EXCEPT ![col] = Y_o]
      /\ head' = col + 1 /\ ~looped'
      /\ IF ends THEN tail' = 1 /\ Data_o' = Memory[0]
                 ELSE tail' = 0 /\ Data_o' = Data_o
  <2> DEFINE re == Pooling!fifo_rd(Valid_o, Last_o, tready)
             we == Pooling!fifo_wr(Valid_o, Last_o, tready)
  <2>1. Pooling!PoolFifo!Access(re, we, Y_o)
    BY <1>3, <1>5 DEF Pooling!PoolStep, Pooling!PoolFifo!FifoStep
  <2>2. we /\ (re <=> ends)
    BY <1>5
  <2> HIDE DEF re, we
  <2>3. Pooling!PoolFifo!CanRead(re) <=> ends
    BY <1>0, <1>4, <2>2 DEF Pooling!PoolFifo!CanRead
  <2>4. IF ends THEN tail' = 1 /\ Data_o' = Memory[0]
                ELSE tail' = 0 /\ Data_o' = Data_o
    <3>1. IF Pooling!PoolFifo!CanRead(re)
          THEN Data_o' = Memory[tail] /\ tail' = Pooling!PoolFifo!Advance(tail)
          ELSE Data_o' = Data_o /\ tail' = tail
      BY <2>1 DEF Pooling!PoolFifo!Access, Pooling!PoolFifo!ReadHalf
    <3>2. Pooling!PoolFifo!Advance(tail) = 1
      BY <1>0, <1>4 DEF Pooling!PoolFifo!Advance
    <3> QED
      BY <1>4, <2>3, <3>1, <3>2
  <2>5. ~Pooling!PoolFifo!LoopedAfterRead(re)
    BY <1>0, <1>4 DEF Pooling!PoolFifo!LoopedAfterRead
  <2>6. Pooling!PoolFifo!CanWrite(re, we)
    BY <2>2, <2>5 DEF Pooling!PoolFifo!CanWrite
  <2>7. head = col /\ head # (LAYER_WIDTH + 2) - 1
    BY <1>0, <1>4
  <2>8. Memory' = [Memory EXCEPT ![head] = Y_o] /\ head' = Pooling!PoolFifo!Advance(head)
    BY <2>1, <2>6 DEF Pooling!PoolFifo!Access, Pooling!PoolFifo!WriteHalf
  <2>9. ~looped'
    <3>1. looped' <=> Pooling!PoolFifo!LoopedAfterRead(re) \/ head = (LAYER_WIDTH + 2) - 1
      BY <2>1, <2>6, Zenon DEF Pooling!PoolFifo!Access, Pooling!PoolFifo!WriteHalf
    <3> QED
      BY <2>5, <2>7, <3>1
  <2>10. head' = col + 1
    BY <1>0, <2>7, <2>8 DEF Pooling!PoolFifo!Advance
  <2> QED
    BY <2>4, <2>7, <2>8, <2>9, <2>10
<1>9. /\ Memory' = [s \in 0 .. LAYER_WIDTH + 1 |-> Memory'[s]]
      /\ \A i \in 0 .. col : Memory'[i] = Pixel(2 * pair, i)
  <2>1. \A s \in 0 .. LAYER_WIDTH + 1 : Memory'[s] = IF s = col THEN Y_o ELSE Memory[s]
    BY <1>4, <1>8
  <2>2. \A i \in 0 .. col : i \in 0 .. LAYER_WIDTH + 1 /\ (i = col \/ i \in 0 .. col - 1)
    BY <1>0
  <2>3. Memory' = [s \in 0 .. LAYER_WIDTH + 1 |-> Memory'[s]]
    BY <1>4, <1>8
  <2> QED
    BY <1>2, <1>4, <2>1, <2>2, <2>3
<1>10. CASE ~ends
  <2>1. col + 1 \in 0 .. LAYER_WIDTH - 1 /\ col < LAYER_WIDTH - 1 /\ (col + 1) - 1 = col
    BY <1>0, <1>4, <1>10
  <2>2. LineInv(pair, col + 1)'
    BY <1>7, <1>8, <1>9, <1>10, <2>1 DEF LineInv, Pixel
  <2>3. Current' = Pixel(2 * pair, col + 1)
    <3>1. 2 * pair \in 0 .. LAYER_HIGHT - 1
      BY <1>0, Sizes
    <3> QED
      BY <1>2, <1>4, <2>1, <3>1, PixelNext
  <2>4. PairInv(pair, col + 1)'
    BY <1>4, <1>6, <1>7, <1>10, <2>3 DEF PairInv, Row, Pixel
  <2> QED
    BY <1>6, <1>7, <1>8, <1>9, <1>10, <2>1, <2>2, <2>4 DEF PoolInv
<1>11. CASE ends
  <2>1. 0 \in 0 .. LAYER_WIDTH - 1 /\ 0 \in 0 .. col - 1
    BY <1>0, <1>4, <1>11
  <2>2. Data_o' = Pixel(2 * pair, 0)
    BY <1>4, <1>8, <1>11, <2>1
  <2>3. /\ head' = LAYER_WIDTH /\ tail' = 0 + 1 /\ ~looped'
        /\ \A i \in 0 + 1 .. LAYER_WIDTH - 1 : Memory'[i] = Pixel(2 * pair, i)
        /\ LAYER_WIDTH \in LAYER_WIDTH .. LAYER_WIDTH + 1 /\ LAYER_WIDTH - LAYER_WIDTH <= 0
    BY <1>0, <1>4, <1>8, <1>9, <1>11
  <2>4. LineInv(pair, 0)'
    BY <1>7, <1>11, <2>2, <2>3 DEF LineInv, Pixel
  <2>5. Current' = Pixel(2 * pair + 1, 0)
    <3>1. 2 * pair \in 0 .. LAYER_HIGHT - 1 /\ 2 * pair # LAYER_HIGHT - 1
      BY <1>0, Sizes
    <3> QED
      BY <1>2, <1>4, <1>11, <3>1, PixelNext
  <2>6. 0 = 2 * (pooled' - pair * Half) + 0
    BY <1>0, <1>4, <1>6
  <2>7. PairInv(pair, 0)'
    BY <1>6, <1>7, <1>11, <2>5, <2>6 DEF PairInv, Row, Pixel
  <2> QED
    BY <1>6, <1>7, <1>8, <1>9, <1>11, <2>1, <2>4, <2>7 DEF PoolInv
<1> QED
  BY <1>10, <1>11

(* With a result of the convolution pooling compares a pixel of the second *)
(* row.                                                                    *)
LEMMA PoolCompares ==
  ASSUME PoolInv, FlightInv, ResultsAreTaken, LastPerLine, Valid_o, state = "POOL"
  PROVE  /\ ready_latched
         /\ \E pair \in 0 .. Pairs - 1, col \in 0 .. LAYER_WIDTH - 1 :
              /\ LineInv(pair, col) /\ PairInv(pair, col)
              /\ Current = Pixel(2 * pair + 1, col) /\ Y_o = Current
              /\ Last_o <=> col = LAYER_WIDTH - 1
              /\ 2 * pair + 1 \in 0 .. LAYER_HIGHT - 1
<1>1. PICK pair \in 0 .. Pairs - 1, col \in 0 .. LAYER_WIDTH - 1 :
        LineInv(pair, col) /\ PairInv(pair, col)
  BY DEF PoolInv
<1>2. Current = Pixel(2 * pair + 1, col) /\ Y_o = Current
  BY <1>1 DEF PairInv, Row, Current
<1>3. 2 * pair + 1 \in 0 .. LAYER_HIGHT - 1
  BY Sizes
<1>4. Last_o <=> col = LAYER_WIDTH - 1
  <2>1. Current % LAYER_WIDTH = col
    BY <1>2, <1>3, PixelNext
  <2> QED
    BY <2>1 DEF FlightInv, EndsPacket
<1> QED
  BY <1>1, <1>2, <1>3, <1>4 DEF ResultsAreTaken

(* A pixel of the second row that is not the last one: the next word of    *)
(* the FIFO comes out, and the pixel may go in behind the ones of the      *)
(* first row.                                                              *)
LEMMA PoolGoesOn ==
  ASSUME PoolInv, FlightInv, ResultsAreTaken, LastPerLine,
         Valid_o, state = "POOL", ~Last_o,
         NEW offers \in BOOLEAN, NEW tready \in BOOLEAN, Tick(offers, tready)
  PROVE  PoolInv'
<1>1. PICK pair \in 0 .. Pairs - 1, col \in 0 .. LAYER_WIDTH - 1 :
        /\ LineInv(pair, col) /\ PairInv(pair, col)
        /\ Current = Pixel(2 * pair + 1, col) /\ Y_o = Current
        /\ Last_o <=> col = LAYER_WIDTH - 1
        /\ 2 * pair + 1 \in 0 .. LAYER_HIGHT - 1
  BY PoolCompares
<1>2. ready_latched
  BY PoolCompares
<1>3. Pooling!PoolStep(Valid_o, Last_o, Y_o, tready)
  BY DEF Tick
<1>4. /\ LAYER_WIDTH \in Nat /\ LAYER_WIDTH >= 2
      /\ col + 1 \in 0 .. LAYER_WIDTH - 1 /\ col < LAYER_WIDTH - 1
  BY <1>1, Sizes
<1>5. /\ tail = col + 1
      /\ IF looped THEN head \in 0 .. col - 2
                   ELSE head \in LAYER_WIDTH .. LAYER_WIDTH + 1 /\ head - LAYER_WIDTH <= col
      /\ \A i \in col + 1 .. LAYER_WIDTH - 1 : Memory[i] = Pixel(2 * pair, i)
      /\ Data_o = Pixel(2 * pair, col)
      /\ Memory = [s \in 0 .. LAYER_WIDTH + 1 |-> Memory[s]]
      /\ output_en \in BOOLEAN
      /\ col = 2 * (pooled - pair * Half) + (IF output_en THEN 1 ELSE 0)
  BY <1>1 DEF LineInv, PairInv, PoolInv
<1>6. /\ Pooling!fifo_wr(Valid_o, Last_o, tready) <=> tready
      /\ Pooling!fifo_rd(Valid_o, Last_o, tready)
      /\ ~Pooling!fifo_srst(Last_o)
      /\ Pooling!Compares(Valid_o)
  BY <1>2
     DEF Pooling!fifo_wr, Pooling!fifo_rd, Pooling!EndsFirstLine, Pooling!Compares,
         Pooling!s_ready, Pooling!fifo_srst
<1>7. /\ state' = "POOL"
      /\ (output_en' <=> ~output_en) /\ output_en' \in BOOLEAN
      /\ fifo_out_latched' = Data_o /\ input_latched' = Y_o
      /\ pooled' = IF output_en THEN (pooled + 1) % Patches ELSE pooled
  BY <1>3, <1>6
     DEF Tick, Pooling!PoolStep, Pooling!LeaveInit, Pooling!LeaveStart, Pooling!FirstLine,
         Pooling!Pool, Pooling!Toggles, Pooling!m_tvalid
<1>8. /\ Memory' = [s \in 0 .. LAYER_WIDTH + 1 |-> Memory'[s]]
      /\ Data_o' = Memory[col + 1] /\ tail' = (col + 1) + 1
      /\ \A i \in (col + 1) + 1 .. LAYER_WIDTH - 1 : Memory'[i] = Memory[i]
      /\ IF looped' THEN head' \in 0 .. (col + 1) - 2
                    ELSE /\ head' \in LAYER_WIDTH .. LAYER_WIDTH + 1
                         /\ head' - LAYER_WIDTH <= col + 1
  <2> DEFINE re == Pooling!fifo_rd(Valid_o, Last_o, tready)
             we == Pooling!fifo_wr(Valid_o, Last_o, tready)
             full == (LAYER_WIDTH + 2) - 1
  <2>1. Pooling!PoolFifo!Access(re, we, Y_o)
    BY <1>3, <1>6 DEF Pooling!PoolStep, Pooling!PoolFifo!FifoStep
  <2>2. re
    BY <1>6
  <2> HIDE DEF re, we
  <2>3. tail # full /\ (looped \/ head # tail) /\ (looped => head # (col + 1) + 1)
    BY <1>4, <1>5
  <2>4. Pooling!PoolFifo!CanRead(re)
    BY <2>2, <2>3 DEF Pooling!PoolFifo!CanRead
  <2>5. Data_o' = Memory[col + 1] /\ tail' = (col + 1) + 1
    <3>1. Data_o' = Memory[tail] /\ tail' = Pooling!PoolFifo!Advance(tail)
      BY <2>1, <2>4 DEF Pooling!PoolFifo!Access, Pooling!PoolFifo!ReadHalf
    <3> QED
      BY <1>5, <2>3, <3>1 DEF Pooling!PoolFifo!Advance
  <2>6. Pooling!PoolFifo!LoopedAfterRead(re) <=> looped
    BY <2>3 DEF Pooling!PoolFifo!LoopedAfterRead
  <2>7. CASE ~we
    <3>1. ~Pooling!PoolFifo!CanWrite(re, we)
      BY <2>7 DEF Pooling!PoolFifo!CanWrite
    <3>2. Memory' = Memory /\ head' = head /\ (looped' <=> looped)
      BY <2>1, <2>6, <3>1 DEF Pooling!PoolFifo!Access, Pooling!PoolFifo!WriteHalf
    <3> QED
      BY <1>4, <1>5, <2>5, <3>2
  <2>8. CASE we
    <3>1. Pooling!PoolFifo!CanWrite(re, we)
      BY <2>3, <2>5, <2>6, <2>8 DEF Pooling!PoolFifo!CanWrite
    <3>2. /\ Memory' = [Memory EXCEPT ![head] = Y_o]
          /\ head' = Pooling!PoolFifo!Advance(head)
          /\ looped' <=> Pooling!PoolFifo!LoopedAfterRead(re) \/ head = full
      BY <2>1, <3>1, Zenon DEF Pooling!PoolFifo!Access, Pooling!PoolFifo!WriteHalf
    <3>3. head' = IF head = full THEN 0 ELSE head + 1
      BY <3>2 DEF Pooling!PoolFifo!Advance
    <3>4. looped' <=> looped \/ head = full
      BY <2>6, <3>2
    <3>5. IF looped' THEN head' \in 0 .. (col + 1) - 2
                     ELSE /\ head' \in LAYER_WIDTH .. LAYER_WIDTH + 1
                          /\ head' - LAYER_WIDTH <= col + 1
      BY <1>4, <1>5, <3>3, <3>4
    <3>6. Memory' = [s \in 0 .. LAYER_WIDTH + 1 |-> Memory'[s]]
      BY <1>5, <3>2
    <3>7. ASSUME NEW i \in (col + 1) + 1 .. LAYER_WIDTH - 1
          PROVE  Memory'[i] = Memory[i]
      <4>1. i # head /\ i \in 0 .. LAYER_WIDTH + 1
        BY <1>4, <1>5
      <4> QED
        BY <1>5, <3>2, <4>1
    <3> QED
      BY <2>5, <3>5, <3>6, <3>7
  <2> QED
    BY <2>7, <2>8
<1>9. LineInv(pair, col + 1)'
  <2>0. col + 1 \in col + 1 .. LAYER_WIDTH - 1
    BY <1>4
  <2>1. ASSUME NEW i \in (col + 1) + 1 .. LAYER_WIDTH - 1
        PROVE  Memory'[i] = Pixel(2 * pair, i)
    <3>1. i \in col + 1 .. LAYER_WIDTH - 1
      BY <1>4
    <3> QED
      BY <1>5, <1>8, <3>1
  <2>2. Data_o' = Pixel(2 * pair, col + 1)
    BY <1>5, <1>8, <2>0
  <2>3. /\ (col + 1) - 1 = col
        /\ fifo_out_latched' = Pixel(2 * pair, col) /\ input_latched' = Pixel(2 * pair + 1, col)
    BY <1>1, <1>4, <1>5, <1>7
  <2> QED
    BY <1>7, <1>8, <2>1, <2>2, <2>3 DEF LineInv, Pixel
<1>10. /\ pooled' \in 0 .. Patches - 1
       /\ col + 1 = 2 * (pooled' - pair * Half) + (IF output_en' THEN 1 ELSE 0)
  <2> DEFINE first == pair * Half
  <2>1. /\ pooled \in 0 .. Patches - 1 /\ Patches \in Nat \ {0} /\ first \in Nat
        /\ first + Half <= Patches
        /\ Half \in Nat /\ LAYER_WIDTH = 2 * Half
    <3>1. /\ Half \in Nat /\ Pairs \in Nat /\ LAYER_WIDTH = 2 * Half
          /\ Patches = Pairs * Half /\ Patches \in Nat \ {0}
      BY Sizes
    <3>2. /\ first \in Nat /\ (Pairs - 1 - pair) * Half >= 0
          /\ Pairs * Half = (Pairs - 1 - pair) * Half + first + Half
      BY <3>1
    <3>3. pooled \in 0 .. Patches - 1
      BY DEF PoolInv
    <3> HIDE DEF first
    <3> QED
      BY <3>1, <3>2, <3>3
  <2>2. col = 2 * (pooled - first) + (IF output_en THEN 1 ELSE 0)
    BY <1>5
  <2> HIDE DEF first
  <2>3. CASE output_en
    <3>1. pooled + 1 \in 0 .. Patches - 1
      BY <1>4, <2>1, <2>2, <2>3
    <3>2. (pooled + 1) % Patches = pooled + 1
      BY <2>1, <3>1
    <3>3. pooled' = pooled + 1
      BY <1>7, <2>3, <3>2
    <3>4. col + 1 = 2 * (pooled' - first) + (IF output_en' THEN 1 ELSE 0)
      BY <1>7, <2>1, <2>2, <2>3, <3>3
    <3> QED
      BY <3>1, <3>3, <3>4 DEF first
  <2>4. CASE ~output_en
    <3>1. col + 1 = 2 * (pooled' - first) + (IF output_en' THEN 1 ELSE 0)
      BY <1>7, <2>1, <2>2, <2>4
    <3> QED
      BY <1>7, <2>1, <2>4, <3>1 DEF first
  <2> QED
    BY <2>3, <2>4
<1>11. PairInv(pair, col + 1)'
  <2>1. Current' = Pixel(2 * pair + 1, col + 1)
    BY <1>1, <1>4, FlightKept, PixelNext
  <2> QED
    BY <1>7, <1>10, <2>1 DEF PairInv, Row, Pixel
<1> QED
  BY <1>4, <1>7, <1>8, <1>9, <1>10, <1>11 DEF PoolInv

(* The last pixel of the second row completes a patch and empties the      *)
(* FIFO.                                                                   *)
LEMMA PoolEndsRow ==
  ASSUME PoolInv, FlightInv, ResultsAreTaken, LastPerLine,
         Valid_o, state = "POOL", Last_o,
         NEW offers \in BOOLEAN, NEW tready \in BOOLEAN, Tick(offers, tready)
  PROVE  PoolInv'
<1>1. PICK pair \in 0 .. Pairs - 1, col \in 0 .. LAYER_WIDTH - 1 :
        /\ LineInv(pair, col) /\ PairInv(pair, col)
        /\ Current = Pixel(2 * pair + 1, col) /\ Y_o = Current
        /\ Last_o <=> col = LAYER_WIDTH - 1
        /\ 2 * pair + 1 \in 0 .. LAYER_HIGHT - 1
  BY PoolCompares
<1>2. ready_latched
  BY PoolCompares
<1>3. Pooling!PoolStep(Valid_o, Last_o, Y_o, tready)
  BY DEF Tick
<1> DEFINE next == IF pair = Pairs - 1 THEN 0 ELSE pair + 1
<1>4. /\ next \in 0 .. Pairs - 1 /\ 0 \in 0 .. LAYER_WIDTH - 1
      /\ col = LAYER_WIDTH - 1
      /\ pair = Pairs - 1 <=> 2 * pair + 1 = LAYER_HIGHT - 1
      /\ (2 * pair + 1) + 1 = 2 * (pair + 1)
  BY <1>1, Sizes
<1>5. output_en /\ pooled = pair * Half + (Half - 1)
  <2> DEFINE first == pair * Half
  <2>1. col = 2 * (pooled - first) + (IF output_en THEN 1 ELSE 0)
    BY <1>1 DEF PairInv
  <2>2. /\ first \in Int /\ pooled \in Int /\ output_en \in BOOLEAN
        /\ Half \in Nat /\ col = 2 * Half - 1
    BY <1>4, Sizes DEF PoolInv
  <2> HIDE DEF first
  <2> QED
    BY <2>1, <2>2 DEF first
<1>6. /\ Pooling!fifo_srst(Last_o) /\ Pooling!Compares(Valid_o)
  BY <1>2 DEF Pooling!fifo_srst, Pooling!Compares
<1>7. /\ state' = "START" /\ output_en' = FALSE
      /\ Memory' = Memory /\ head' = 0 /\ tail' = 0 /\ ~looped'
      /\ pooled' = (pooled + 1) % Patches
  BY <1>3, <1>5, <1>6
     DEF Tick, Pooling!PoolStep, Pooling!LeaveInit, Pooling!LeaveStart, Pooling!FirstLine,
         Pooling!Pool, Pooling!Toggles, Pooling!m_tvalid, Pooling!PoolFifo!FifoStep,
         Pooling!PoolFifo!Reset
<1>8. pooled' = next * Half /\ pooled' \in 0 .. Patches - 1
  <2>1. /\ pooled \in 0 .. Patches - 1 /\ Patches \in Nat \ {0} /\ Patches = Pairs * Half
        /\ Pairs \in Nat /\ Half \in Nat \ {0} /\ pooled + 1 = (pair + 1) * Half
    BY <1>5, Sizes DEF PoolInv
  <2>2. CASE pair = Pairs - 1
    <3>1. pooled + 1 = Patches
      BY <2>1, <2>2
    <3>2. Patches % Patches = 0 /\ 0 * Half = 0
      BY <2>1
    <3> QED
      BY <1>7, <2>1, <2>2, <3>1, <3>2
  <2>3. CASE pair # Pairs - 1
    <3>1. (Pairs - 1 - pair) * Half > 0
      BY <2>1, <2>3
    <3>2. pooled + 1 \in 0 .. Patches - 1
      BY <2>1, <3>1
    <3>3. (pooled + 1) % Patches = pooled + 1
      BY <2>1, <3>2
    <3> QED
      BY <1>7, <2>1, <2>3, <3>2, <3>3
  <2> QED
    BY <2>2, <2>3
<1>9. Current' = Pixel(2 * next, 0)
  <2>1. (Pixel(2 * pair + 1, col) + 1) % Windows =
          IF 2 * pair + 1 = LAYER_HIGHT - 1 THEN 0 ELSE Pixel((2 * pair + 1) + 1, 0)
    BY <1>1, <1>4, PixelNext
  <2>2. Pixel(0, 0) = 0 /\ 2 * 0 = 0
    BY Sizes DEF Pixel
  <2>3. Current' = (Current + 1) % Windows
    BY FlightKept
  <2> HIDE DEF Pixel
  <2> QED
    BY <1>1, <1>4, <2>1, <2>2, <2>3
<1> HIDE DEF next
<1>10. LineInv(next, 0)'
  BY <1>7 DEF LineInv
<1>11. PairInv(next, 0)'
  BY <1>7, <1>8, <1>9 DEF PairInv, Row, Pixel
<1> QED
  BY <1>4, <1>7, <1>8, <1>10, <1>11 DEF PoolInv

(***************************************************************************)
(* The invariant holds at the start and is kept.                           *)
(***************************************************************************)
OrderInv == LastPerLine /\ ResultsAreTaken /\ FlightInv /\ PoolInv

LEMMA OrderInit ==
  ASSUME Init
  PROVE  FlightInv /\ PoolInv
<1>1. Windows \in Nat \ {0} /\ LAYER_WIDTH \in Nat \ {0}
  BY Sizes
<1>2. FlightInv
  <2>1. /\ Valid_i = FALSE /\ start_addition = FALSE /\ Valid_o = FALSE
        /\ Last_o = FALSE /\ is_last = FALSE /\ next_window = 0
    BY DEF Init, Channel!ChannelInit
  <2>2. Current = 0
    BY <2>1, Zenon DEF Current
  <2>3. 0 \in 0 .. Windows - 1
    BY <1>1
  <2> QED
    BY <2>1, <2>2, <2>3, Zenon DEF FlightInv, InFlight
<1>3. /\ 0 \in 0 .. Pairs - 1 /\ 0 \in 0 .. LAYER_WIDTH - 1 /\ 0 \in 0 .. Patches - 1
      /\ 0 * Half = 0 /\ 2 * 0 = 0 /\ Pixel(0, 0) = 0
  BY Sizes DEF Pixel
<1>4. /\ state = "INIT" /\ head = 0 /\ tail = 0 /\ ~looped /\ ~output_en /\ pooled = 0
      /\ output_en \in BOOLEAN /\ Current = 0
  BY DEF Init, Pooling!PoolInit, Pooling!PoolFifo!Init, Channel!ChannelInit, Current
<1>5. Memory = [s \in 0 .. LAYER_WIDTH + 1 |-> Memory[s]]
  <2>1. (LAYER_WIDTH + 2) - 1 = LAYER_WIDTH + 1
    BY <1>1
  <2>2. Memory = [s \in 0 .. (LAYER_WIDTH + 2) - 1 |-> NoPixel]
    BY DEF Init, Pooling!PoolInit, Pooling!PoolFifo!Init, Pooling!PoolFifo!Slots
  <2> QED
    BY <2>1, <2>2
<1>6. LineInv(0, 0)
  BY <1>4 DEF LineInv
<1>7. PairInv(0, 0)
  BY <1>3, <1>4 DEF PairInv, Row
<1> QED
  BY <1>2, <1>3, <1>4, <1>5, <1>6, <1>7 DEF PoolInv

LEMMA OrderNext ==
  ASSUME OrderInv, ResultsAreTaken', [Next]_vars
  PROVE  OrderInv'
<1>1. ASSUME NEW offers \in BOOLEAN, NEW tready \in BOOLEAN, Tick(offers, tready)
      PROVE  FlightInv' /\ PoolInv'
  <2>1. FlightInv'
    BY <1>1, FlightKept DEF OrderInv
  <2>2. CASE ~Valid_o
    BY <1>1, <2>1, <2>2, PoolWaits DEF OrderInv
  <2>3. CASE Valid_o /\ state = "FIRST_LINE"
    BY <1>1, <2>1, <2>3, PoolStores DEF OrderInv
  <2>4. CASE Valid_o /\ state = "POOL" /\ Last_o
    BY <1>1, <2>1, <2>4, PoolEndsRow DEF OrderInv
  <2>5. CASE Valid_o /\ state = "POOL" /\ ~Last_o
    BY <1>1, <2>1, <2>5, PoolGoesOn DEF OrderInv
  <2>6. Valid_o => state \in {"FIRST_LINE", "POOL"}
    BY DEF OrderInv, ResultsAreTaken
  <2>7. PoolInv'
    BY <2>2, <2>3, <2>4, <2>5, <2>6
  <2> QED
    BY <2>1, <2>7
<1>2. ASSUME UNCHANGED vars
      PROVE  FlightInv' /\ PoolInv'
  <2>1. Current' = Current
    BY <1>2 DEF vars, benchVars, Channel!channelVars, Current
  <2>2. FlightInv'
    BY <1>2, <2>1 DEF vars, benchVars, Channel!channelVars, OrderInv, FlightInv, InFlight, EndsPacket
  <2>3. \A pair, col : /\ LineInv(pair, col) => LineInv(pair, col)'
                       /\ PairInv(pair, col) => PairInv(pair, col)'
    BY <1>2, <2>1 DEF vars, Pooling!poolVars, LineInv, PairInv, Row, Pixel
  <2>4. PoolInv'
    BY <1>2, <2>3 DEF vars, Pooling!poolVars, OrderInv, PoolInv
  <2> QED
    BY <2>2, <2>4
<1> QED
  BY <1>1, <1>2 DEF Next, OrderInv

-----------------------------------------------------------------------------
(* The word out of the FIFO, the two registers and the pixel that comes in *)
(* are the four pixels of the patch.                                       *)
LEMMA PatchComplete ==
  ASSUME OrderInv
  PROVE  PatchesInOrder
<1> SUFFICES ASSUME Pooling!m_tvalid(Valid_o)
             PROVE  /\ Pooling!M_tdata(Y_o) = Patch(pooled)
                    /\ Pooling!M_tlast(Last_o) = ((pooled + 1) % (LAYER_WIDTH \div 2) = 0)
  BY DEF PatchesInOrder
<1>1. Valid_o /\ state = "POOL" /\ output_en
  BY DEF Pooling!m_tvalid, Pooling!Compares
<1>2. PICK pair \in 0 .. Pairs - 1, col \in 0 .. LAYER_WIDTH - 1 :
        /\ LineInv(pair, col) /\ PairInv(pair, col)
        /\ Current = Pixel(2 * pair + 1, col) /\ Y_o = Current
        /\ Last_o <=> col = LAYER_WIDTH - 1
        /\ 2 * pair + 1 \in 0 .. LAYER_HIGHT - 1
  BY <1>1, PoolCompares DEF OrderInv
<1> DEFINE m == pooled - pair * Half
<1>3. /\ Half \in Nat \ {0} /\ LAYER_WIDTH = 2 * Half /\ LAYER_WIDTH \div 2 = Half
      /\ pair * Half \in Int
  BY Sizes DEF Half
<1>4. /\ m \in 0 .. Half - 1 /\ col = 2 * m + 1
      /\ pooled = pair * Half + m
      /\ col = LAYER_WIDTH - 1 <=> m = Half - 1
  <2>1. col = 2 * m + 1
    BY <1>1, <1>2 DEF PairInv
  <2>2. pooled \in Int
    BY DEF OrderInv, PoolInv
  <2> QED
    BY <1>3, <2>1, <2>2
<1> HIDE DEF m
<1>5. pooled \div (LAYER_WIDTH \div 2) = pair /\ pooled % (LAYER_WIDTH \div 2) = m
  BY <1>3, <1>4, Division
<1>6. Pooling!M_tdata(Y_o) = Patch(pooled)
  <2>1. /\ Data_o = Pixel(2 * pair, col) /\ Y_o = Pixel(2 * pair + 1, col)
        /\ fifo_out_latched = Pixel(2 * pair, col - 1)
        /\ input_latched = Pixel(2 * pair + 1, col - 1)
    BY <1>1, <1>2, <1>3, <1>4 DEF LineInv
  <2>2. Pooling!M_tdata(Y_o) = {Pixel(2 * pair + i, 2 * m + j) : i, j \in 0 .. 1}
    <3>1. col = 2 * m + 1 /\ col - 1 = 2 * m + 0 /\ 2 * pair = 2 * pair + 0
      BY <1>3, <1>4
    <3>2. 0 .. 1 = {0, 1}
      OBVIOUS
    <3> HIDE DEF Pixel
    <3>3. {Pixel(2 * pair + i, 2 * m + j) : i, j \in {0, 1}} =
            {Pixel(2 * pair + 0, 2 * m + 0), Pixel(2 * pair + 0, 2 * m + 1),
             Pixel(2 * pair + 1, 2 * m + 0), Pixel(2 * pair + 1, 2 * m + 1)}
      OBVIOUS
    <3>4. Pooling!M_tdata(Y_o) =
            {Pixel(2 * pair + 1, 2 * m + 1), Pixel(2 * pair + 0, 2 * m + 1),
             Pixel(2 * pair + 0, 2 * m + 0), Pixel(2 * pair + 1, 2 * m + 0)}
      BY <2>1, <3>1, Zenon DEF Pooling!M_tdata
    <3> QED
      BY <3>2, <3>3, <3>4
  <2>3. \A i, j \in 0 .. 1 :
          Pixel(2 * pair + i, 2 * m + j) = (2 * pair + i) * LAYER_WIDTH + 2 * m + j
    BY <1>3, <1>4 DEF Pixel
  <2> QED
    BY <1>5, <2>2, <2>3 DEF Patch
<1>7. Pooling!M_tlast(Last_o) = ((pooled + 1) % (LAYER_WIDTH \div 2) = 0)
  <2>1. (pooled + 1) % Half = 0 <=> m = Half - 1
    <3>1. CASE m = Half - 1
      <4>1. pooled + 1 = (pair + 1) * Half + 0 /\ pair + 1 \in Int /\ 0 \in 0 .. Half - 1
        BY <1>3, <1>4, <3>1
      <4> QED
        BY <1>3, <3>1, <4>1, Division
    <3>2. CASE m # Half - 1
      <4>1. pooled + 1 = pair * Half + (m + 1) /\ m + 1 \in 0 .. Half - 1
        BY <1>3, <1>4, <3>2
      <4>2. (pair * Half + (m + 1)) % Half = m + 1
        BY <1>3, <4>1, Division
      <4> QED
        BY <1>3, <1>4, <3>2, <4>1, <4>2
    <3> QED
      BY <3>1, <3>2
  <2>2. Last_o <=> m = Half - 1
    BY <1>2, <1>4
  <2>3. Pooling!M_tlast(Last_o) \in BOOLEAN /\ (Pooling!M_tlast(Last_o) <=> Last_o)
    BY <1>1 DEF Pooling!M_tlast
  <2> QED
    BY <1>3, <2>1, <2>2, <2>3
<1> QED
  BY <1>6, <1>7

(***************************************************************************)
(* The pooled pixels are the maxima of the patches in order, each once,    *)
(* and tlast marks the last one of each row of patches: for images of      *)
(* every even height and width, whatever the next layer does with its      *)
(* ready, provided that the end of every line is marked, as the test bench *)
(* of the repository does it.                                              *)
(***************************************************************************)
THEOREM PatchesComeInOrder == LastPerLine /\ Spec => []PatchesInOrder
<1>1. LastPerLine /\ Init => OrderInv
  <2>1. Init => ResultsAreTaken
    BY DEF Init, Channel!ChannelInit, ResultsAreTaken
  <2> QED
    BY <2>1, OrderInit DEF OrderInv
<1>2. OrderInv /\ [Next]_vars /\ ResultsAreTaken' => OrderInv'
  BY OrderNext
<1>3. OrderInv => PatchesInOrder
  BY PatchComplete
<1> QED
  BY <1>1, <1>2, <1>3, EveryResultIsTaken, PTL DEF Spec
=============================================================================
