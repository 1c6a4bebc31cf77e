-------------------------- MODULE DmaThreadsProofs --------------------------
(***************************************************************************)
(* The safety properties of DmaThreads, for every set of threads and every *)
(* size of an image: each direction keeps what its mutex protects.         *)
(***************************************************************************)
EXTENDS DmaThreads, SequenceTheorems, TLAPS

ImageNames == Senders \X Nat
Codes == {"EGG_ERROR_NONE", "EGG_ERROR_DEVICE_COMMUNICATION_FAILED"}
Statuses == {"PROXY_NO_ERROR", "PROXY_TIMEOUT"}

-----------------------------------------------------------------------------
(***************************************************************************)
(* The transmit direction.                                                 *)
(***************************************************************************)
TxTypeOK ==
  /\ tx_lock \in Senders \cup {NoThread}
  /\ tx_buffer \in [Pixels -> ImageNames \cup {Blank}]
  /\ tx_status \in Statuses
  /\ tx_pc \in [Senders -> {"idle", "lock", "copy", "transfer", "check", "unlock"}]
  /\ i \in [Senders -> 0 .. ImageSize]
  /\ calls \in [Senders -> Nat]
  /\ code \in [Senders -> Codes]
  /\ sent \in Seq([Pixels -> ImageNames \cup {Blank}])
  /\ img_ptr \in [Networks -> ImageNames \cup {Blank}]
  /\ raced \subseteq ImageNames

(* The thread that holds the mutex is the one between lock and unlock. *)
TxExclusive ==
  \A s \in Senders : tx_pc[s] \in {"copy", "transfer", "check", "unlock"} <=> tx_lock = s

(* A name of an image made by now. *)
RacedMade == \A s \in Senders : \A k \in Nat : << s, k >> \in raced => k <= calls[s]

(* What a call finds where it expects its image: that, or another's, and   *)
(* then both calls raced.                                                  *)
Mine(x, image) == x = image \/ {x, image} \subseteq raced

(* While a call has still to read img_ptr. *)
PointerHeld == \A s \in Senders : Reading(s) => Mine(img_ptr[NetworkOf[s]], Image(s))

(* The transfer of a call. *)
FilledBy(buffer, image) == \A p \in Pixels : Mine(buffer[p], image)

(* What the DMA has read: images of calls that were made. *)
SentWhole ==
  \A n \in 1 .. Len(sent) :
    \E s \in Senders : \E k \in 1 .. calls[s] : FilledBy(sent[n], << s, k >>)

(* The buffer is the holder's while it copies and while the DMA reads. *)
Held(s) ==
  /\ tx_pc[s] = "copy" => \A p \in 0 .. i[s] - 1 : Mine(tx_buffer[p], Image(s))
  /\ tx_pc[s] = "transfer" => FilledBy(tx_buffer, Image(s))

BufferHeld == \A s \in Senders : Held(s)

Answered(s, ok) == IF ok THEN \E n \in TimesSent(s) : TimesSent(s) = {n}
                         ELSE TimesSent(s) = {}

(* How often the image of the present or last call has been sent. *)
Counted(s) ==
  /\ tx_pc[s] # "idle" => calls[s] > 0
  /\ Image(s) \notin raced =>
       /\ tx_pc[s] \in {"lock", "copy", "transfer"} => TimesSent(s) = {}
       /\ tx_pc[s] = "check" => Answered(s, tx_status = "PROXY_NO_ERROR")
       /\ tx_pc[s] = "unlock" => Answered(s, code[s] = "EGG_ERROR_NONE")
       /\ tx_pc[s] = "idle" /\ calls[s] > 0 => Answered(s, code[s] = "EGG_ERROR_NONE")

CallsCounted == \A s \in Senders : Counted(s)

TxInv == TxTypeOK /\ TxExclusive /\ RacedMade /\ PointerHeld /\ SentWhole /\ BufferHeld /\ CallsCounted

LEMMA TxInit == Init => TxInv
<1> SUFFICES ASSUME Init PROVE TxInv
  OBVIOUS
<1> USE DEF Init
<1>1. ImageSize \in Nat /\ 0 \in 0 .. ImageSize
  BY SizeAssumption
<1>2. TxTypeOK
  BY <1>1 DEF TxTypeOK, Pixels, Statuses, Codes
<1>3. TxExclusive
  BY ThreadsAssumption DEF TxExclusive
<1>4. RacedMade /\ PointerHeld /\ SentWhole
  BY DEF RacedMade, PointerHeld, Reading, SentWhole
<1>5. BufferHeld /\ CallsCounted
  BY DEF BufferHeld, Held, CallsCounted, Counted
<1> QED
  BY <1>2, <1>3, <1>4, <1>5 DEF TxInv

(* Steps that neither call nor transfer leave the counts of all calls, and *)
(* what a call may find.                                                   *)
LEMMA SameTimes ==
  ASSUME UNCHANGED << sent, calls, raced >>
  PROVE  /\ SentWhole => SentWhole'
         /\ RacedMade => RacedMade'
         /\ \A s \in Senders : TimesSent(s)' = TimesSent(s) /\ Image(s)' = Image(s)
BY DEF SentWhole, FilledBy, Mine, RacedMade, TimesSent, Image

(* A call names a new image, of which nothing has been sent. *)
LEMMA CallKeepsTxInv ==
  ASSUME NEW s \in Senders, TxInv, Call(s), UNCHANGED sent
  PROVE  TxInv'
<1> USE DEF TxInv
<1>0. /\ tx_pc[s] = "idle"
      /\ calls' = [calls EXCEPT ![s] = @ + 1]
      /\ img_ptr' = [img_ptr EXCEPT ![NetworkOf[s]] = Image(s)']
      /\ tx_pc' = [tx_pc EXCEPT ![s] = "lock"]
      /\ UNCHANGED << tx_lock, tx_buffer, tx_status, i, code >>
  BY DEF Call, SetImage
<1>1. /\ calls[s] \in Nat /\ calls'[s] = calls[s] + 1
      /\ Image(s)' = << s, calls[s] + 1 >>
      /\ \A t \in Senders \ {s} : calls'[t] = calls[t] /\ Image(t)' = Image(t)
      /\ \A t \in Senders : calls[t] \in Nat /\ calls'[t] \in Nat /\ calls[t] <= calls'[t]
  BY <1>0 DEF TxTypeOK, Image
<1>2. /\ raced \subseteq raced'
      /\ raced' \subseteq raced \cup {Image(t)' : t \in Disturbed(s) \cup {s}}
      /\ Disturbed(s) # {} => \A t \in Disturbed(s) \cup {s} : Image(t)' \in raced'
      /\ Disturbed(s) \subseteq Senders \ {s}
  BY DEF Call, Disturbed
<1>3. \A t \in Senders : Image(t)' \in ImageNames
  BY <1>1 DEF Image, ImageNames
<1>4. TxTypeOK'
  <2>1. raced' \subseteq ImageNames
    BY <1>2, <1>3 DEF TxTypeOK
  <2>2. img_ptr' \in [Networks -> ImageNames \cup {Blank}]
    BY <1>0, <1>3 DEF TxTypeOK
  <2>3. calls' \in [Senders -> Nat]
    BY <1>0, <1>1 DEF TxTypeOK
  <2>4. tx_pc' \in [Senders -> {"idle", "lock", "copy", "transfer", "check", "unlock"}]
    BY <1>0 DEF TxTypeOK
  <2> QED
    BY <1>0, <2>1, <2>2, <2>3, <2>4 DEF TxTypeOK
<1>5. TxExclusive'
  BY <1>0 DEF TxTypeOK, TxExclusive
<1>6. RacedMade'
  <2> SUFFICES ASSUME NEW t \in Senders, NEW k \in Nat, << t, k >> \in raced'
               PROVE  k <= calls'[t]
    BY DEF RacedMade
  <2>1. CASE << t, k >> \in raced
    <3>1. k <= calls[t]
      BY <2>1 DEF RacedMade
    <3> QED
      BY <1>1, <3>1
  <2>2. CASE << t, k >> \notin raced
    <3>1. PICK u \in Senders : << t, k >> = Image(u)'
      BY <1>2, <2>2
    <3> QED
      BY <1>1, <3>1 DEF Image
  <2> QED
    BY <2>1, <2>2
<1>7. PointerHeld'
  <2> SUFFICES ASSUME NEW t \in Senders, Reading(t)'
               PROVE  Mine(img_ptr[NetworkOf[t]], Image(t))'
    BY DEF PointerHeld
  <2>0. NetworkOf[t] \in Networks /\ NetworkOf[s] \in Networks
    BY NetworksAssumption
  <2>1. CASE t = s
    BY <1>0, <2>0, <2>1 DEF TxTypeOK, Mine
  <2>2. CASE t # s /\ NetworkOf[t] = NetworkOf[s]
    <3>1. Reading(t)
      BY <1>0, <2>2 DEF TxTypeOK, Reading
    <3>2. t \in Disturbed(s)
      BY <2>2, <3>1 DEF Disturbed
    <3>3. img_ptr'[NetworkOf[t]] = Image(s)'
      BY <1>0, <2>0, <2>2 DEF TxTypeOK
    <3> QED
      BY <1>2, <3>2, <3>3 DEF Mine
  <2>3. CASE t # s /\ NetworkOf[t] # NetworkOf[s]
    <3>1. Reading(t)
      BY <1>0, <2>3 DEF TxTypeOK, Reading
    <3>2. img_ptr'[NetworkOf[t]] = img_ptr[NetworkOf[t]]
      BY <1>0, <2>0, <2>3 DEF TxTypeOK
    <3>3. Mine(img_ptr[NetworkOf[t]], Image(t))
      BY <3>1 DEF PointerHeld
    <3>4. Image(t)' = Image(t)
      BY <1>1, <2>3
    <3> QED
      BY <1>2, <3>2, <3>3, <3>4 DEF Mine
  <2> QED
    BY <2>1, <2>2, <2>3
<1>8. SentWhole'
  <2> SUFFICES ASSUME NEW n \in 1 .. Len(sent')
               PROVE  \E t \in Senders : \E k \in 1 .. calls'[t] : FilledBy(sent[n], << t, k >>)'
    BY DEF SentWhole
  <2>1. PICK t \in Senders : \E k \in 1 .. calls[t] : FilledBy(sent[n], << t, k >>)
    BY DEF SentWhole
  <2>2. PICK k \in 1 .. calls[t] : FilledBy(sent[n], << t, k >>)
    BY <2>1
  <2>3. k \in 1 .. calls'[t]
    BY <1>1
  <2>4. \A p \in Pixels : sent'[n][p] = << t, k >> \/ {sent'[n][p], << t, k >>} \subseteq raced'
    BY <1>2, <2>2 DEF FilledBy, Mine
  <2>5. FilledBy(sent[n], << t, k >>)'
    BY <2>4 DEF FilledBy, Mine
  <2> QED
    BY <2>3, <2>5
<1>9. BufferHeld'
  <2> SUFFICES ASSUME NEW t \in Senders PROVE Held(t)'
    BY DEF BufferHeld
  <2>1. CASE t = s
    BY <1>0, <2>1 DEF TxTypeOK, Held
  <2>2. CASE t # s
    <3>1. tx_pc'[t] = tx_pc[t] /\ i'[t] = i[t] /\ Image(t)' = Image(t) /\ tx_buffer' = tx_buffer
      BY <1>0, <1>1, <2>2 DEF TxTypeOK
    <3>2. \A x : Mine(x, Image(t)) => x = Image(t) \/ {x, Image(t)} \subseteq raced'
      BY <1>2 DEF Mine
    <3>3. Held(t)
      BY DEF BufferHeld
    <3> QED
      BY <3>1, <3>2, <3>3 DEF Held, FilledBy, Mine
  <2> QED
    BY <2>1, <2>2
<1>10. TimesSent(s)' = {}
  <2>1. ASSUME NEW n \in 1 .. Len(sent), NEW p \in Pixels PROVE sent[n][p] # << s, calls[s] + 1 >>
    <3>0. PICK t \in Senders : \E k \in 1 .. calls[t] : FilledBy(sent[n], << t, k >>)
      BY DEF SentWhole
    <3>1. PICK k \in 1 .. calls[t] : FilledBy(sent[n], << t, k >>)
      BY <3>0
    <3>2. sent[n][p] = << t, k >> \/ sent[n][p] \in raced
      BY <3>1 DEF FilledBy, Mine
    <3>3. << t, k >> # << s, calls[s] + 1 >>
      BY <1>1
    <3>4. << s, calls[s] + 1 >> \notin raced
      BY <1>1 DEF RacedMade
    <3> QED
      BY <3>2, <3>3, <3>4
  <2> QED
    BY <1>1, <2>1 DEF TimesSent
<1>11. \A t \in Senders \ {s} : TimesSent(t)' = TimesSent(t)
  BY <1>1 DEF TimesSent
<1>12. CallsCounted'
  <2> SUFFICES ASSUME NEW t \in Senders PROVE Counted(t)'
    BY DEF CallsCounted
  <2>1. CASE t = s
    BY <1>0, <1>1, <1>10, <2>1 DEF Counted, TxTypeOK
  <2>2. CASE t # s
    <3>1. /\ tx_pc'[t] = tx_pc[t] /\ calls'[t] = calls[t] /\ code' = code /\ tx_status' = tx_status
          /\ Image(t)' = Image(t) /\ TimesSent(t)' = TimesSent(t)
      BY <1>0, <1>1, <1>11, <2>2 DEF TxTypeOK
    <3>2. Image(t)' \notin raced' => Image(t) \notin raced
      BY <1>2, <3>1
    <3>3. Counted(t)
      BY DEF CallsCounted
    <3> QED
      BY <3>1, <3>2, <3>3 DEF Counted, Answered
  <2> QED
    BY <2>1, <2>2
<1> QED
  BY <1>4, <1>5, <1>6, <1>7, <1>8, <1>9, <1>12

(* The steps of a call that neither begin it nor transfer. *)
TxLocal(s) == TxLock(s) \/ TxCopy(s) \/ TxCopied(s) \/ TxCheck(s) \/ TxUnlock(s)

LEMMA LocalKeepsTxInv ==
  ASSUME NEW s \in Senders, TxInv, TxLocal(s), UNCHANGED sent
  PROVE  TxInv'
<1> USE DEF TxInv
<1>0. UNCHANGED << sent, calls, img_ptr, raced >>
  BY DEF TxLocal, TxLock, TxCopy, TxCopied, TxCheck, TxUnlock, clientVars
<1>1. SentWhole' /\ RacedMade'
  BY <1>0, SameTimes
<1>2. \A t \in Senders : TimesSent(t)' = TimesSent(t) /\ Image(t)' = Image(t)
  BY <1>0, SameTimes
<1>3. \A t \in Senders : NetworkOf[t] \in Networks /\ img_ptr[NetworkOf[t]] \in ImageNames \cup {Blank}
  BY NetworksAssumption DEF TxTypeOK
<1>9. PointerHeld'
  <2> SUFFICES ASSUME NEW t \in Senders, Reading(t)'
               PROVE  Mine(img_ptr[NetworkOf[t]], Image(t))'
    BY DEF PointerHeld
  <2>1. Reading(t)
    BY DEF TxLocal, TxLock, TxCopy, TxCopied, TxCheck, TxUnlock, AfterError, Reading, TxTypeOK
  <2>2. Mine(img_ptr[NetworkOf[t]], Image(t))
    BY <2>1 DEF PointerHeld
  <2> QED
    BY <1>0, <1>2, <2>2 DEF Mine
<1>4. CASE TxLock(s)
  <2> USE <1>4 DEF TxLock, MayLock, clientVars
  <2>1. TxTypeOK'
    BY SizeAssumption DEF TxTypeOK
  <2>2. TxExclusive'
    BY ThreadsAssumption DEF TxTypeOK, TxExclusive
  <2>3. BufferHeld'
    BY <1>0, <1>2 DEF TxTypeOK, BufferHeld, Held, FilledBy, Mine
  <2>4. CallsCounted'
    BY <1>0, <1>2 DEF TxTypeOK, CallsCounted, Counted, Answered
  <2> QED
    BY <1>1, <1>9, <2>1, <2>2, <2>3, <2>4
<1>5. CASE TxCopy(s)
  <2> USE <1>5 DEF TxCopy, clientVars
  <2>0. i[s] \in Pixels /\ i[s] + 1 \in 0 .. ImageSize
    BY SizeAssumption DEF TxTypeOK, Pixels
  <2>1. TxTypeOK'
    BY <2>0, <1>3 DEF TxTypeOK
  <2>2. TxExclusive'
    BY DEF TxExclusive
  <2>3. BufferHeld'
    <3> SUFFICES ASSUME NEW t \in Senders PROVE Held(t)'
      BY DEF BufferHeld
    <3>1. CASE t = s
      <4>1. Mine(img_ptr[NetworkOf[s]], Image(s))
        BY DEF PointerHeld, Reading
      <4>2. ASSUME NEW p \in 0 .. i[s] PROVE Mine(tx_buffer'[p], Image(s))
        <5>1. p \in Pixels
          BY <2>0, SizeAssumption DEF Pixels
        <5>2. CASE p = i[s]
          BY <2>0, <4>1, <5>2 DEF TxTypeOK
        <5>3. CASE p # i[s]
          <6>1. p \in 0 .. i[s] - 1
            BY <5>3, <2>0 DEF Pixels
          <6>2. Mine(tx_buffer[p], Image(s))
            BY <6>1 DEF BufferHeld, Held
          <6>3. tx_buffer'[p] = tx_buffer[p]
            BY <5>1, <5>3 DEF TxTypeOK
          <6> QED
            BY <6>2, <6>3
        <5> QED
          BY <5>2, <5>3
      <4>3. i'[s] - 1 = i[s] /\ tx_pc'[s] = "copy"
        BY <2>0 DEF TxTypeOK, Pixels
      <4> QED
        BY <1>0, <1>2, <3>1, <4>2, <4>3 DEF Held, Mine
    <3>2. CASE t # s
      BY <3>2 DEF TxExclusive, Held
    <3> QED
      BY <3>1, <3>2
  <2>4. CallsCounted'
    BY <1>0, <1>2 DEF CallsCounted, Counted, Answered
  <2> QED
    BY <1>1, <1>9, <2>1, <2>2, <2>3, <2>4
<1>6. CASE TxCopied(s)
  <2> USE <1>6 DEF TxCopied, clientVars
  <2>1. TxTypeOK'
    BY DEF TxTypeOK
  <2>2. TxExclusive'
    BY DEF TxTypeOK, TxExclusive
  <2>3. BufferHeld'
    BY <1>0, <1>2 DEF TxTypeOK, BufferHeld, Held, FilledBy, Mine, Pixels
  <2>4. CallsCounted'
    BY <1>0, <1>2 DEF TxTypeOK, CallsCounted, Counted, Answered
  <2> QED
    BY <1>1, <1>9, <2>1, <2>2, <2>3, <2>4
<1>7. CASE TxCheck(s)
  <2> USE <1>7 DEF TxCheck, AfterError, clientVars
  <2>1. TxTypeOK'
    BY DEF TxTypeOK, Codes
  <2>2. TxExclusive'
    BY DEF TxTypeOK, TxExclusive
  <2>3. BufferHeld'
    <3> SUFFICES ASSUME NEW t \in Senders PROVE Held(t)'
      BY DEF BufferHeld
    <3>1. /\ tx_pc'[t] \in {"copy", "transfer"} => tx_pc'[t] = tx_pc[t]
          /\ UNCHANGED << i, tx_buffer >>
      BY DEF TxTypeOK
    <3>2. Held(t)
      BY DEF BufferHeld
    <3> HIDE DEF TxInv, TxCheck
    <3> QED
      BY <1>0, <1>2, <3>1, <3>2 DEF Held, FilledBy, Mine
  <2>4. CallsCounted'
    <3> SUFFICES ASSUME NEW t \in Senders PROVE Counted(t)'
      BY DEF CallsCounted
    <3>1. CASE t = s
      BY <1>0, <1>2, <3>1 DEF TxTypeOK, CallsCounted, Counted, Answered
    <3>2. CASE t # s
      <4>1. tx_pc'[t] = tx_pc[t] /\ code'[t] = code[t] /\ tx_status' = tx_status
        BY <3>2 DEF TxTypeOK
      <4> QED
        BY <1>0, <1>2, <4>1 DEF CallsCounted, Counted, Answered
    <3> QED
      BY <3>1, <3>2
  <2> QED
    BY <1>1, <1>9, <2>1, <2>2, <2>3, <2>4
<1>8. CASE TxUnlock(s)
  <2> USE <1>8 DEF TxUnlock, clientVars
  <2>1. TxTypeOK'
    BY DEF TxTypeOK
  <2>2. TxExclusive'
    BY ThreadsAssumption DEF TxTypeOK, TxExclusive
  <2>3. BufferHeld'
    BY <1>0, <1>2 DEF TxTypeOK, BufferHeld, Held, FilledBy, Mine
  <2>4. CallsCounted'
    BY <1>0, <1>2 DEF TxTypeOK, CallsCounted, Counted, Answered
  <2> QED
    BY <1>1, <1>9, <2>1, <2>2, <2>3, <2>4
<1> QED
  BY <1>4, <1>5, <1>6, <1>7, <1>8 DEF TxLocal

(* The DMA reads the buffer: the image of the caller, for the first time. *)
LEMMA TransferCounts ==
  ASSUME NEW s \in Senders, TxInv, TxTransfer(s), sent' = Append(sent, tx_buffer)
  PROVE  /\ SentWhole'
         /\ Image(s) \notin raced => TimesSent(s)' = {Len(sent) + 1}
         /\ \A t \in Senders \ {s} : Image(t) \notin raced => TimesSent(t)' = TimesSent(t)
<1> USE DEF TxInv
<1>0. tx_pc[s] = "transfer" /\ UNCHANGED << calls, raced >>
  BY DEF TxTransfer, clientVars
<1>1. FilledBy(tx_buffer, Image(s))
  BY <1>0 DEF BufferHeld, Held
<1>2. calls[s] \in Nat /\ calls[s] \in 1 .. calls[s]
  <2>1. calls[s] \in Nat /\ tx_pc[s] # "idle"
    BY <1>0 DEF TxTypeOK
  <2>2. Counted(s)
    BY DEF CallsCounted
  <2> QED
    BY <2>1, <2>2 DEF Counted
<1>3. /\ Len(sent) \in Nat /\ Len(sent') = Len(sent) + 1
      /\ \A n \in 1 .. Len(sent) : sent'[n] = sent[n]
      /\ sent'[Len(sent) + 1] = tx_buffer
  BY DEF TxTypeOK
<1>4. SentWhole'
  <2>1. ASSUME NEW n \in 1 .. Len(sent')
        PROVE  \E t \in Senders : \E k \in 1 .. calls[t] : FilledBy(sent'[n], << t, k >>)
    <3>1. CASE n = Len(sent) + 1
      <4>1. FilledBy(sent'[n], << s, calls[s] >>)
        BY <1>1, <1>3, <3>1 DEF Image
      <4> QED
        BY <1>2, <4>1
    <3>2. CASE n \in 1 .. Len(sent)
      <4>1. sent'[n] = sent[n] /\ SentWhole
        BY <1>3, <3>2
      <4> HIDE DEF TxInv
      <4> QED
        BY <3>2, <4>1 DEF SentWhole
    <3>3. n = Len(sent) + 1 \/ n \in 1 .. Len(sent)
      <4> HIDE DEF TxInv
      <4> QED
        BY <1>3
    <3> QED
      BY <3>1, <3>2, <3>3
  <2>2. \A n : \A image : FilledBy(sent'[n], image) => FilledBy(sent[n], image)'
    BY <1>0 DEF FilledBy, Mine
  <2> HIDE DEF TxInv
  <2> QED
    BY <1>0, <2>1, <2>2 DEF SentWhole
<1>5. \A t \in Senders : Image(t)' = Image(t)
  BY <1>0 DEF Image
<1>6. \A t \in Senders :
        TimesSent(t)' = {n \in 1 .. Len(sent) + 1 : \E p \in Pixels : sent'[n][p] = Image(t)}
  BY <1>3, <1>5 DEF TimesSent
<1>7. ASSUME Image(s) \notin raced PROVE TimesSent(s)' = {Len(sent) + 1}
  <2>1. \A n \in 1 .. Len(sent) : \A p \in Pixels : sent'[n][p] # Image(s)
    <3>1. TimesSent(s) = {}
      BY <1>0, <1>7 DEF CallsCounted, Counted
    <3> QED
      BY <3>1, <1>3 DEF TimesSent
  <2>2. 0 \in Pixels /\ tx_buffer[0] = Image(s)
    BY <1>1, <1>7, SizeAssumption DEF Pixels, FilledBy, Mine
  <2>3. \A n \in 1 .. Len(sent) + 1 :
          (\E p \in Pixels : sent'[n][p] = Image(s)) <=> n = Len(sent) + 1
    BY <1>3, <2>1, <2>2
  <2>4. Len(sent) + 1 \in 1 .. Len(sent) + 1
    BY <1>3
  <2> HIDE DEF TxInv
  <2> QED
    BY <1>6, <2>3, <2>4
<1>8. ASSUME NEW t \in Senders \ {s}, Image(t) \notin raced PROVE TimesSent(t)' = TimesSent(t)
  <2>1. Image(t) # Image(s)
    BY DEF Image
  <2>2. \A p \in Pixels : sent'[Len(sent) + 1][p] # Image(t)
    BY <1>1, <1>3, <1>8, <2>1 DEF FilledBy, Mine
  <2> QED
    BY <1>3, <1>6, <2>2 DEF TimesSent
<1> QED
  BY <1>4, <1>7, <1>8

LEMMA TransferKeepsTxInv ==
  ASSUME NEW s \in Senders, TxInv, TxTransfer(s)
  PROVE  TxInv'
<1> USE DEF TxInv, TxTransfer, clientVars
<1>1. TxTypeOK'
  <2>1. sent' \in Seq([Pixels -> ImageNames \cup {Blank}])
    <3> DEFINE Buffers == [Pixels -> ImageNames \cup {Blank}]
    <3>1. sent \in Seq(Buffers) /\ tx_buffer \in Buffers
      BY DEF TxTypeOK
    <3>2. sent' = sent \/ sent' = Append(sent, tx_buffer)
      OBVIOUS
    <3> HIDE DEF Buffers, TxInv, TxTransfer
    <3>3. sent' \in Seq(Buffers)
      BY <3>1, <3>2, AppendProperties
    <3> QED
      BY <3>3 DEF Buffers
  <2> QED
    BY <2>1 DEF TxTypeOK, Statuses
<1>2. TxExclusive'
  BY DEF TxTypeOK, TxExclusive
<1>3. BufferHeld' /\ PointerHeld' /\ RacedMade'
  <2>1. ASSUME NEW t \in Senders PROVE Held(t)'
    <3>1. /\ tx_pc'[t] \in {"copy", "transfer"} => tx_pc'[t] = tx_pc[t]
          /\ UNCHANGED << i, tx_buffer, raced >> /\ Image(t)' = Image(t)
      BY DEF TxTypeOK, Image
    <3>2. Held(t)
      BY DEF BufferHeld
    <3> HIDE DEF TxInv, TxTransfer
    <3> QED
      BY <3>1, <3>2 DEF Held, FilledBy, Mine
  <2>2. ASSUME NEW t \in Senders, Reading(t)' PROVE Mine(img_ptr[NetworkOf[t]], Image(t))'
    <3>1. Reading(t) /\ UNCHANGED << img_ptr, raced >> /\ Image(t)' = Image(t)
      BY <2>2 DEF TxTypeOK, Reading, Image
    <3> QED
      BY <3>1 DEF PointerHeld, Mine
  <2>3. RacedMade'
    BY DEF RacedMade
  <2> QED
    BY <2>1, <2>2, <2>3 DEF BufferHeld, PointerHeld
<1>4. /\ \A t \in Senders \ {s} : tx_pc[t] # "check" /\ tx_pc'[t] = tx_pc[t]
      /\ \A t \in Senders : Image(t)' = Image(t)
      /\ UNCHANGED << calls, code, raced >>
  BY DEF TxTypeOK, TxExclusive, Image
<1>5. CASE tx_status' = "PROXY_NO_ERROR" /\ sent' = Append(sent, tx_buffer)
  <2>1. CallsCounted'
    <3> SUFFICES ASSUME NEW t \in Senders PROVE Counted(t)'
      BY DEF CallsCounted
    <3>1. CASE t = s
      BY <1>4, <1>5, <3>1, TransferCounts DEF TxTypeOK, CallsCounted, Counted, Answered
    <3>2. CASE t # s
      <4>1. Image(t) \notin raced => TimesSent(t)' = TimesSent(t)
        BY <1>5, <3>2, TransferCounts
      <4> QED
        BY <1>4, <3>2, <4>1 DEF CallsCounted, Counted, Answered
    <3> QED
      BY <3>1, <3>2
  <2> QED
    BY <1>1, <1>2, <1>3, <1>5, <2>1, TransferCounts
<1>6. CASE tx_status' = "PROXY_TIMEOUT" /\ sent' = sent
  <2>1. \A t \in Senders : TimesSent(t)' = TimesSent(t)
    BY <1>6, SameTimes
  <2>2. SentWhole'
    BY <1>6, SameTimes
  <2>3. CallsCounted'
    <3> SUFFICES ASSUME NEW t \in Senders PROVE Counted(t)'
      BY DEF CallsCounted
    <3>1. CASE t = s
      BY <1>4, <1>6, <2>1, <3>1 DEF TxTypeOK, CallsCounted, Counted, Answered
    <3>2. CASE t # s
      BY <1>4, <2>1, <3>2 DEF CallsCounted, Counted, Answered
    <3> QED
      BY <3>1, <3>2
  <2> QED
    BY <1>1, <1>2, <1>3, <2>2, <2>3
<1> QED
  BY <1>5, <1>6

LEMMA OthersKeepTxInv == TxInv /\ UNCHANGED << txVars, sent >> => TxInv'
<1> SUFFICES ASSUME TxInv, UNCHANGED << txVars, sent >> PROVE TxInv'
  OBVIOUS
<1> USE DEF txVars, clientVars, TxInv
<1>1. \A s \in Senders : TimesSent(s)' = TimesSent(s) /\ Image(s)' = Image(s)
  BY SameTimes
<1>2. SentWhole' /\ RacedMade'
  BY SameTimes
<1>3. TxTypeOK' /\ TxExclusive'
  BY DEF TxTypeOK, TxExclusive
<1>4. BufferHeld' /\ PointerHeld'
  BY <1>1 DEF BufferHeld, Held, FilledBy, PointerHeld, Reading, Mine
<1>5. CallsCounted'
  BY <1>1 DEF CallsCounted, Counted, Answered
<1> QED
  BY <1>2, <1>3, <1>4, <1>5

LEMMA NextKeepsTxInv == TxInv /\ [Next]_vars => TxInv'
<1> SUFFICES ASSUME TxInv, [Next]_vars PROVE TxInv'
  OBVIOUS
<1>1. ASSUME NEW s \in Senders, Send(s) PROVE TxInv'
  BY <1>1, CallKeepsTxInv, LocalKeepsTxInv, TransferKeepsTxInv DEF Send, TxLocal
<1>2. CASE Compute \/ FreeResults
  BY <1>2, OthersKeepTxInv DEF Compute, FreeResults
<1>3. ASSUME NEW r \in Receivers, Receive(r) PROVE TxInv'
  BY <1>3, OthersKeepTxInv DEF Receive
<1>4. CASE UNCHANGED vars
  BY <1>4, OthersKeepTxInv DEF vars
<1> QED
  BY <1>1, <1>2, <1>3, <1>4 DEF Next

LEMMA ImagesFollow == TxInv => ImagesIntact
<1> SUFFICES ASSUME SentWhole, NEW n \in 1 .. Len(sent), NEW p \in Pixels, NEW q \in Pixels,
                    sent[n][p] # sent[n][q]
             PROVE  {sent[n][p], sent[n][q]} \subseteq raced
  BY DEF TxInv, ImagesIntact
<1>1. PICK s \in Senders : \E k \in 1 .. calls[s] : FilledBy(sent[n], << s, k >>)
  BY DEF SentWhole
<1>2. PICK k \in 1 .. calls[s] : FilledBy(sent[n], << s, k >>)
  BY <1>1
<1> QED
  BY <1>2 DEF FilledBy, Mine

(***************************************************************************)
(* What the DMA reads is one image, whole, whatever the other threads do,  *)
(* but for calls that raced for img_ptr; these mix with each other only    *)
(* (eggdma.c:92-107).                                                      *)
(***************************************************************************)
THEOREM ImagesStayIntact == Spec => []ImagesIntact
<1> QED
  BY ImagesFollow, TxInit, NextKeepsTxInv, PTL DEF Spec

(***************************************************************************)
(* The code of egg_tx_img says whether its image was sent, although the    *)
(* status it comes from is shared (eggdma.c:103-113), for every call that  *)
(* raced with no other for img_ptr.                                        *)
(***************************************************************************)
THEOREM CodesStayTrue == Spec => []CodesAreTrue
<1>1. TxInv => CodesAreTrue
  BY DEF TxInv, CallsCounted, Counted, Answered, CodesAreTrue
<1> QED
  BY <1>1, TxInit, NextKeepsTxInv, PTL DEF Spec

(* The simplest duty of the client. *)
OneSenderPerNetwork == \A s, t \in Senders : NetworkOf[s] = NetworkOf[t] => s = t

(***************************************************************************)
(* With a network_t for each sender no call races for img_ptr              *)
(* (eggnet_core.h:94): every image is sent whole and every code is true.   *)
(***************************************************************************)
THEOREM OwnNetworksSuffice ==
  ASSUME OneSenderPerNetwork
  PROVE  Spec => []( /\ \A n \in 1 .. Len(sent) : \A p, q \in Pixels : sent[n][p] = sent[n][q]
                     /\ \A s \in Senders : tx_pc[s] = "idle" /\ calls[s] > 0 =>
                          Answered(s, code[s] = "EGG_ERROR_NONE") )
<1> DEFINE None == raced = {}
<1>1. Init => None
  BY DEF Init
<1>2. None /\ [Next]_vars => None'
  <2> SUFFICES ASSUME None, [Next]_vars PROVE None'
    OBVIOUS
  <2>1. ASSUME NEW s \in Senders, Call(s) PROVE None'
    <3>1. Disturbed(s) = {}
      BY DEF Disturbed, OneSenderPerNetwork
    <3> QED
      BY <2>1, <3>1 DEF Call
  <2>2. ASSUME NEW s \in Senders, TxLocal(s) \/ TxTransfer(s) PROVE None'
    BY <2>2 DEF TxLocal, TxLock, TxCopy, TxCopied, TxCheck, TxUnlock, TxTransfer, clientVars
  <2>3. ASSUME NEW s \in Senders, Send(s) PROVE None'
    BY <2>1, <2>2, <2>3 DEF Send, TxLocal
  <2>4. CASE Compute \/ FreeResults \/ \E r \in Receivers : Receive(r)
    BY <2>4 DEF Compute, FreeResults, Receive, txVars, clientVars
  <2>5. CASE UNCHANGED vars
    BY <2>5 DEF vars, txVars, clientVars
  <2> QED
    BY <2>3, <2>4, <2>5 DEF Next
<1>3. None /\ TxInv =>
        /\ \A n \in 1 .. Len(sent) : \A p, q \in Pixels : sent[n][p] = sent[n][q]
        /\ \A s \in Senders : tx_pc[s] = "idle" /\ calls[s] > 0 =>
             Answered(s, code[s] = "EGG_ERROR_NONE")
  <2>1. TxInv => ImagesIntact
    BY ImagesFollow
  <2> QED
    BY <2>1 DEF ImagesIntact, TxInv, CallsCounted, Counted
<1> HIDE DEF None
<1> QED
  BY <1>1, <1>2, <1>3, TxInit, NextKeepsTxInv, PTL DEF Spec

-----------------------------------------------------------------------------
(***************************************************************************)
(* The receive direction.                                                  *)
(***************************************************************************)
RxTypeOK ==
  /\ rx_lock \in Receivers \cup {NoThread}
  /\ rx_pc \in [Receivers -> {"wait", "lock", "loop", "transfer", "check",
                              "grow", "store", "count", "unlock"}]
  /\ received \in Nat /\ result_number \in Nat /\ freed \in Nat

RxExclusive ==
  \A r \in Receivers :
    rx_lock = r <=> rx_pc[r] \in {"loop", "transfer", "check", "grow", "store", "count", "unlock"}

Stored == freed + result_number

(* Where the result the DMA wrote last is, at each step of the holder. *)
Kept(r) ==
  /\ rx_pc[r] \in {"loop", "transfer", "unlock"} => received = Stored
  /\ rx_pc[r] = "check" /\ rx_status # "PROXY_NO_ERROR" => received = Stored
  /\ \/ rx_pc[r] = "check" /\ rx_status = "PROXY_NO_ERROR"
     \/ rx_pc[r] \in {"grow", "store"}
     => received = Stored + 1 /\ rx_buffer = received
  /\ rx_pc[r] \in {"store", "count"} =>
       capacity = result_number + 1 /\ DOMAIN results = 0 .. result_number
  /\ rx_pc[r] = "count" => received = Stored + 1 /\ results[result_number] = received

ResultsKept == \A r \in Receivers : Kept(r)

RxInv == RxTypeOK /\ RxExclusive /\ ResultsInOrder /\ ResultsKept

LEMMA RxInit == Init => RxInv
<1> SUFFICES ASSUME Init PROVE RxInv
  OBVIOUS
<1>1. RxTypeOK /\ RxExclusive
  BY ThreadsAssumption DEF Init, RxTypeOK, RxExclusive
<1>2. ResultsInOrder /\ ResultsKept
  BY DEF Init, ResultsInOrder, ResultsKept, Kept, Stored
<1> QED
  BY <1>1, <1>2 DEF RxInv

(* While a thread takes a step under the mutex, no other thread is there. *)
LEMMA OthersOutside ==
  ASSUME NEW r \in Receivers, RxExclusive, rx_lock = r,
         NEW t \in Receivers \ {r}, RxTypeOK
  PROVE  rx_pc[t] \in {"wait", "lock"}
BY DEF RxExclusive, RxTypeOK

(* A step that leaves the results and the mutex to their holder. *)
LEMMA OthersKeepRxInv ==
  RxInv /\ UNCHANGED << rx_lock, rx_buffer, rx_status, rx_pc, received, resultVars >> => RxInv'
BY DEF RxInv, RxTypeOK, RxExclusive, ResultsInOrder, ResultsKept, Kept, Stored, resultVars

LEMMA FreeKeepsRxInv == RxInv /\ FreeResults => RxInv'
<1> SUFFICES ASSUME RxInv, FreeResults PROVE RxInv'
  OBVIOUS
<1> USE DEF RxInv, FreeResults, rxVars
<1>1. RxTypeOK' /\ RxExclusive'
  BY DEF RxTypeOK, RxExclusive
<1>2. ResultsInOrder'
  BY DEF RxTypeOK, ResultsInOrder
<1>3. \A r \in Receivers : rx_pc[r] \in {"wait", "lock"}
  BY ThreadsAssumption DEF RxTypeOK, RxExclusive
<1>4. ResultsKept'
  BY <1>3 DEF ResultsKept, Kept
<1> QED
  BY <1>1, <1>2, <1>4

LEMMA ReceiveKeepsRxInv ==
  ASSUME NEW r \in Receivers, RxInv, Receive(r)
  PROVE  RxInv'
<1> USE DEF RxInv, resultVars
<1>0. ASSUME rx_lock = r, NEW t \in Receivers \ {r}, rx_pc'[t] = rx_pc[t] PROVE Kept(t)'
  BY <1>0, OthersOutside DEF Kept
<1>1. CASE RxWait(r)
  BY <1>1 DEF RxWait, RxTypeOK, RxExclusive, ResultsInOrder, ResultsKept, Kept, Stored
<1>2. CASE RxLock(r)
  <2> USE <1>2 DEF RxLock, MayLock
  <2>1. RxTypeOK' /\ RxExclusive'
    BY ThreadsAssumption DEF RxTypeOK, RxExclusive
  <2>2. ResultsInOrder' /\ received = Stored
    BY ThreadsAssumption DEF ResultsInOrder, Stored
  <2>3. ResultsKept'
    BY <2>2 DEF RxTypeOK, ResultsKept, Kept, Stored
  <2> QED
    BY <2>1, <2>2, <2>3
<1>3. CASE RxClear(r) \/ RxTransfer(r) \/ RxCheck(r) \/ RxGrow(r) \/ RxStore(r)
           \/ RxCount(r) \/ RxDone(r)
  <2>0. rx_pc[r] \in {"loop", "transfer", "check", "grow", "store", "count"}
    BY <1>3 DEF RxClear, RxTransfer, RxCheck, RxGrow, RxStore, RxCount, RxDone
  <2>1. rx_lock = r /\ r # NoThread
    BY <2>0, ThreadsAssumption DEF RxExclusive
  <2>2. RxTypeOK'
    BY <1>3 DEF RxClear, RxTransfer, RxCheck, RxGrow, RxStore, RxCount, RxDone, RxTypeOK, AfterError
  <2>3. /\ rx_lock' = r
        /\ \A t \in Receivers \ {r} : rx_pc'[t] = rx_pc[t]
        /\ rx_pc'[r] \in {"loop", "transfer", "check", "grow", "store", "count", "unlock"}
    BY <1>3, <2>1 DEF RxClear, RxTransfer, RxCheck, RxGrow, RxStore, RxCount, RxDone, RxTypeOK, AfterError
  <2>4. RxExclusive'
    <3> SUFFICES ASSUME NEW t \in Receivers
                 PROVE  rx_lock' = t <=> rx_pc'[t] \in {"loop", "transfer", "check", "grow",
                                                       "store", "count", "unlock"}
      BY DEF RxExclusive
    <3> QED
      BY <2>1, <2>3 DEF RxExclusive
  <2>5. ASSUME Kept(r)' PROVE ResultsKept'
    BY <1>0, <2>1, <2>3, <2>5 DEF ResultsKept
  <2>6. Kept(r) /\ RxTypeOK
    BY DEF ResultsKept
  <2>7. \A n \in 0 .. result_number - 1 : results[n] = freed + n + 1
    BY DEF ResultsInOrder
  <2>8. rx_lock' # NoThread
    BY <2>1, <2>3
  <2> SUFFICES Kept(r)' /\ \A n \in 0 .. result_number' - 1 : results'[n] = freed' + n + 1
    BY <2>2, <2>4, <2>5, <2>8 DEF ResultsInOrder
  <2> HIDE DEF RxInv
  <2> USE DEF RxTypeOK, Kept, Stored
  <2>9. CASE RxClear(r)
    BY <2>6, <2>7, <2>9 DEF RxClear
  <2>10. CASE RxDone(r)
    BY <2>6, <2>7, <2>10 DEF RxDone
  <2>11. CASE RxTransfer(r)
    BY <2>6, <2>7, <2>11 DEF RxTransfer
  <2>12. CASE RxCheck(r)
    BY <2>6, <2>7, <2>12 DEF RxCheck, AfterError
  <2>13. CASE RxGrow(r)
    <3>1. Grown = result_number + 1 /\ Grown - 1 = result_number
      BY <2>6 DEF Grown
    <3>2. results' = [n \in 0 .. result_number |-> IF n < result_number THEN results[n] ELSE Blank]
      BY <2>13, <3>1 DEF RxGrow
    <3>3. DOMAIN results' = 0 .. result_number
      BY <3>2
    <3>4. \A n \in 0 .. result_number - 1 : results'[n] = results[n]
      BY <2>6, <3>2
    <3>5. Kept(r)'
      BY <2>6, <2>13, <3>1, <3>3 DEF RxGrow
    <3> QED
      BY <2>7, <2>13, <3>4, <3>5 DEF RxGrow
  <2>14. CASE RxStore(r)
    <3>1. /\ results' = [results EXCEPT ![result_number] = rx_buffer]
          /\ DOMAIN results = 0 .. result_number
      BY <2>6, <2>14 DEF RxStore
    <3>2. /\ DOMAIN results' = 0 .. result_number
          /\ results'[result_number] = rx_buffer
          /\ \A n \in 0 .. result_number - 1 : results'[n] = results[n]
      BY <2>6, <3>1
    <3>3. Kept(r)'
      BY <2>6, <2>14, <3>2 DEF RxStore
    <3> QED
      BY <2>7, <2>14, <3>2, <3>3 DEF RxStore
  <2>15. CASE RxCount(r)
    <3>1. Kept(r)'
      BY <2>6, <2>15 DEF RxCount
    <3>2. results[result_number] = freed + result_number + 1
      BY <2>6, <2>15 DEF RxCount
    <3>3. \A n \in 0 .. result_number : results[n] = freed + n + 1
      BY <2>6, <2>7, <3>2
    <3>4. result_number' - 1 = result_number
      BY <2>6, <2>15 DEF RxCount
    <3> QED
      BY <2>15, <3>1, <3>3, <3>4 DEF RxCount
  <2> QED
    BY <1>3, <2>9, <2>10, <2>11, <2>12, <2>13, <2>14, <2>15
<1>4. CASE RxUnlock(r)
  <2> USE <1>4 DEF RxUnlock
  <2>1. rx_lock = r
    BY DEF RxExclusive
  <2>2. RxTypeOK' /\ RxExclusive'
    BY <2>1, ThreadsAssumption DEF RxTypeOK, RxExclusive
  <2>3. ResultsInOrder'
    BY DEF ResultsInOrder, ResultsKept, Kept, Stored
  <2>4. ResultsKept'
    BY <2>1, <1>0 DEF RxTypeOK, ResultsKept, Kept
  <2> QED
    BY <2>2, <2>3, <2>4
<1> QED
  BY <1>1, <1>2, <1>3, <1>4 DEF Receive

LEMMA NextKeepsRxInv == RxInv /\ [Next]_vars => RxInv'
<1> SUFFICES ASSUME RxInv, [Next]_vars PROVE RxInv'
  OBVIOUS
<1>1. ASSUME NEW s \in Senders, Send(s) PROVE RxInv'
  BY <1>1, OthersKeepRxInv DEF Send, rxVars
<1>2. CASE Compute
  BY <1>2, OthersKeepRxInv DEF Compute, rxVars
<1>3. CASE UNCHANGED vars
  BY <1>3, OthersKeepRxInv DEF vars, rxVars
<1> QED
  BY <1>1, <1>2, <1>3, ReceiveKeepsRxInv, FreeKeepsRxInv DEF Next

(***************************************************************************)
(* Results are stored once each and in order, and none is lost, however    *)
(* many threads receive (eggdma.c:131-175).                                *)
(***************************************************************************)
THEOREM ResultsStayInOrder == Spec => []ResultsInOrder
<1>1. RxInv => ResultsInOrder
  BY DEF RxInv
<1> QED
  BY <1>1, RxInit, NextKeepsRxInv, PTL DEF Spec

(***************************************************************************)
(* No result is stored beyond the end of the array (eggdma.c:155-171).     *)
(***************************************************************************)
THEOREM StoresStayInside == Spec => []StoresFit
<1>1. RxInv => StoresFit
  BY DEF RxInv, RxTypeOK, ResultsKept, Kept, StoresFit
<1> QED
  BY <1>1, RxInit, NextKeepsRxInv, PTL DEF Spec

-----------------------------------------------------------------------------
(***************************************************************************)
(* Type correctness, and that at most one thread is between lock and       *)
(* unlock in each direction.                                               *)
(***************************************************************************)
THEOREM DmaTypesAndMutexes ==
  Spec => [](TxTypeOK /\ RxTypeOK /\ TxExclusive /\ RxExclusive)
<1>1. TxInv /\ RxInv => TxTypeOK /\ RxTypeOK /\ TxExclusive /\ RxExclusive
  BY DEF TxInv, RxInv
<1> QED
  BY <1>1, TxInit, RxInit, NextKeepsTxInv, NextKeepsRxInv, PTL DEF Spec
=============================================================================
