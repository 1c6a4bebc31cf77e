----------------------------- MODULE DmaThreads -----------------------------
(***************************************************************************)
(* The DMA half of the Linux driver (EggDriver/src/eggdma.c): any number   *)
(* of threads send images with egg_tx_img and fetch results with           *)
(* egg_rx_img, through one shared buffer and one mutex per direction. A    *)
(* step is what a thread does between two accesses to shared memory.       *)
(*                                                                         *)
(* egg_tx_img sends what img_ptr of its network_t points to, and reads     *)
(* that field again for each pixel. Only the client sets it, and it cannot *)
(* take the mutex: another thread that uses the same network_t may set it  *)
(* at any time.                                                            *)
(*                                                                         *)
(* The network on the FPGA takes the images in the order in which they are *)
(* sent, and raises one interrupt with each result (OutputPath). A result  *)
(* is named by its number: result n is made from the n-th image sent. The  *)
(* kernel and the devices are assumed: the DMA has not sent the image of a *)
(* transfer that timed out, it waits long enough for a result that has     *)
(* been computed, and the interrupt is enabled again after each one.       *)
(***************************************************************************)
EXTENDS Integers, Sequences, FiniteSets

CONSTANTS
  Senders, Receivers, \* threads
  Networks,           \* the network_t's of the client
  NetworkOf,          \* NetworkOf[s]: the one that sender s passes
  ImageSize,          \* pixels of an image: width times height of layer 1
  Images,             \* how many images each sender sends
  NoThread,           \* the holder of a free mutex
  Blank               \* a buffer that is cleared, a pointer not yet set

ASSUME ThreadsAssumption == NoThread \notin Senders \cup Receivers
ASSUME NetworksAssumption == NetworkOf \in [Senders -> Networks]
ASSUME SizeAssumption == ImageSize \in Nat \ {0} /\ Images \in Nat \ {0}
ASSUME BlankAssumption == Blank \notin Nat

VARIABLES
  tx_lock, tx_buffer, tx_status,       \* tx_proxy_interface_p
  tx_pc, i, calls, code,               \* senders; code: what a call returned
  img_ptr,                             \* of each network_t
  raced,                               \* history: the calls that raced
  sent,                                \* images the DMA has read, in order
  computed,                            \* results so far: interrupts raised
  seen,                                \* interrupts reported by the UIO device
  received,                            \* results the DMA has written
  rx_lock, rx_buffer, rx_status,       \* rx_proxy_interface_p
  rx_pc, todo,                         \* receivers; todo: intr_count - j
  results, capacity, result_number,    \* the array of network_t
  freed                                \* history: results freed by the client

clientVars == << img_ptr, raced >>
txVars == << tx_lock, tx_buffer, tx_status, tx_pc, i, calls, code, clientVars >>
rxVars == << rx_lock, rx_buffer, rx_status, rx_pc, todo >>
resultVars == << results, capacity, result_number, freed >>
vars == << txVars, sent, computed, seen, received, rxVars, resultVars >>

Pixels == 0 .. ImageSize - 1
Image(s) == << s, calls[s] >>          \* what s sends in its last call

Init ==
  /\ tx_lock = NoThread /\ rx_lock = NoThread
  /\ tx_buffer = [p \in Pixels |-> Blank] /\ rx_buffer = Blank
  /\ tx_status = "PROXY_NO_ERROR" /\ rx_status = "PROXY_NO_ERROR"
  /\ tx_pc = [s \in Senders |-> "idle"]
  /\ i = [s \in Senders |-> 0]
  /\ calls = [s \in Senders |-> 0]
  /\ code = [s \in Senders |-> "EGG_ERROR_NONE"]
  /\ img_ptr = [n \in Networks |-> Blank] /\ raced = {}
  /\ sent = << >> /\ computed = 0 /\ seen = 0 /\ received = 0
  /\ rx_pc = [r \in Receivers |-> "wait"]
  /\ todo = [r \in Receivers |-> 0]
  /\ results = << >> /\ capacity = 0 /\ result_number = 0 /\ freed = 0

-----------------------------------------------------------------------------
(* Mutant: pthread_mutex_lock is missing. *)
MayLockAlways(lock) == TRUE

MayLock(lock) == lock = NoThread

(* Mutant: the error path returns without releasing the mutex. *)
AfterErrorReturn == "returned"

(* Where a call goes that finds an error. *)
AfterError == "unlock"

(***************************************************************************)
(* egg_tx_img, and the client that sets img_ptr and calls.                 *)
(*                                                                         *)
(* Two calls race if one sets img_ptr while the other has still to read    *)
(* it. The driver cannot tell, the client can avoid it: by a network_t for *)
(* each thread, or by waiting for the call before.                         *)
(***************************************************************************)
Reading(s) == tx_pc[s] \in {"lock", "copy"}

Disturbed(s) ==
  {t \in Senders \ {s} : NetworkOf[t] = NetworkOf[s] /\ Reading(t)}

(* The client points img_ptr at its image. *)
SetImage(s) == img_ptr' = [img_ptr EXCEPT ![NetworkOf[s]] = Image(s)']

Call(s) ==
  /\ tx_pc[s] = "idle" /\ calls[s] < Images
  /\ calls' = [calls EXCEPT ![s] = @ + 1]
  /\ SetImage(s)
  /\ raced' = IF Disturbed(s) = {} THEN raced
              ELSE raced \cup {Image(t)' : t \in Disturbed(s) \cup {s}}
  /\ tx_pc' = [tx_pc EXCEPT ![s] = "lock"]
  /\ UNCHANGED << tx_lock, tx_buffer, tx_status, i, code >>

TxLock(s) ==
  /\ tx_pc[s] = "lock" /\ MayLock(tx_lock)
  /\ tx_lock' = s
  /\ i' = [i EXCEPT ![s] = 0]
  /\ tx_pc' = [tx_pc EXCEPT ![s] = "copy"]
  /\ UNCHANGED << tx_buffer, tx_status, calls, code, clientVars >>

TxCopy(s) ==
  /\ tx_pc[s] = "copy" /\ i[s] < ImageSize
  /\ tx_buffer' = [tx_buffer EXCEPT ![i[s]] = img_ptr[NetworkOf[s]]]
  /\ i' = [i EXCEPT ![s] = @ + 1]
  /\ UNCHANGED << tx_lock, tx_status, tx_pc, calls, code, clientVars >>

(* Mutant: the mutex is released before the transfer. *)
TxCopiedUnlocks(s) ==
  /\ tx_pc[s] = "copy" /\ i[s] = ImageSize
  /\ tx_pc' = [tx_pc EXCEPT ![s] = "transfer"]
  /\ tx_lock' = NoThread
  /\ UNCHANGED << tx_buffer, tx_status, i, calls, code, clientVars >>

TxCopied(s) ==
  /\ tx_pc[s] = "copy" /\ i[s] = ImageSize
  /\ tx_pc' = [tx_pc EXCEPT ![s] = "transfer"]
  /\ UNCHANGED << tx_lock, tx_buffer, tx_status, i, calls, code, clientVars >>

(* The blocking ioctl: the DMA reads the buffer, or gives up. *)
TxTransfer(s) ==
  /\ tx_pc[s] = "transfer"
  /\ \/ tx_status' = "PROXY_NO_ERROR" /\ sent' = Append(sent, tx_buffer)
     \/ tx_status' = "PROXY_TIMEOUT" /\ UNCHANGED sent
  /\ tx_pc' = [tx_pc EXCEPT ![s] = "check"]
  /\ UNCHANGED << tx_lock, tx_buffer, i, calls, code, clientVars >>

TxCheck(s) ==
  /\ tx_pc[s] = "check"
  /\ IF tx_status = "PROXY_NO_ERROR"
     THEN /\ code' = [code EXCEPT ![s] = "EGG_ERROR_NONE"]
          /\ tx_pc' = [tx_pc EXCEPT ![s] = "unlock"]
     ELSE /\ code' = [code EXCEPT ![s] = "EGG_ERROR_DEVICE_COMMUNICATION_FAILED"]
          /\ tx_pc' = [tx_pc EXCEPT ![s] = AfterError]
  /\ UNCHANGED << tx_lock, tx_buffer, tx_status, i, calls, clientVars >>

TxUnlock(s) ==
  /\ tx_pc[s] = "unlock"
  /\ tx_lock' = NoThread
  /\ tx_pc' = [tx_pc EXCEPT ![s] = "idle"]
  /\ UNCHANGED << tx_buffer, tx_status, i, calls, code, clientVars >>

Send(s) ==
  /\ \/ /\ Call(s) \/ TxLock(s) \/ TxCopy(s) \/ TxCopied(s) \/ TxCheck(s) \/ TxUnlock(s)
        /\ UNCHANGED sent
     \/ TxTransfer(s)
  /\ UNCHANGED << computed, seen, received, rxVars, resultVars >>

(* The network on the FPGA. *)
Compute ==
  /\ computed < Len(sent)
  /\ computed' = computed + 1
  /\ UNCHANGED << txVars, sent, seen, received, rxVars, resultVars >>

-----------------------------------------------------------------------------
(***************************************************************************)
(* egg_rx_img. wait_for_interrupt blocks until there are interrupts this   *)
(* process has not seen. The number it gives is used as the number of new  *)
(* ones; the Linux interface gives the total since the driver was loaded.  *)
(* Either may come.                                                        *)
(***************************************************************************)
RxWait(r) ==
  /\ rx_pc[r] = "wait" /\ seen # computed
  /\ \E n \in {computed - seen, computed} : todo' = [todo EXCEPT ![r] = n]
  /\ seen' = computed
  /\ rx_pc' = [rx_pc EXCEPT ![r] = "lock"]
  /\ UNCHANGED << rx_lock, rx_buffer, rx_status, received, resultVars >>

RxLock(r) ==
  /\ rx_pc[r] = "lock" /\ MayLock(rx_lock)
  /\ rx_lock' = r
  /\ rx_pc' = [rx_pc EXCEPT ![r] = "loop"]
  /\ UNCHANGED << rx_buffer, rx_status, todo, seen, received, resultVars >>

RxClear(r) ==
  /\ rx_pc[r] = "loop" /\ todo[r] > 0
  /\ rx_buffer' = Blank
  /\ rx_pc' = [rx_pc EXCEPT ![r] = "transfer"]
  /\ UNCHANGED << rx_lock, rx_status, todo, seen, received, resultVars >>

(* The blocking ioctl: the DMA writes the next result, or there is none    *)
(* until it gives up.                                                      *)
RxTransfer(r) ==
  /\ rx_pc[r] = "transfer"
  /\ IF received < computed
     THEN /\ received' = received + 1
          /\ rx_buffer' = received + 1
          /\ rx_status' = "PROXY_NO_ERROR"
     ELSE rx_status' = "PROXY_TIMEOUT" /\ UNCHANGED << received, rx_buffer >>
  /\ rx_pc' = [rx_pc EXCEPT ![r] = "check"]
  /\ UNCHANGED << rx_lock, todo, seen, resultVars >>

RxCheck(r) ==
  /\ rx_pc[r] = "check"
  /\ rx_pc' = [rx_pc EXCEPT ![r] = IF rx_status = "PROXY_NO_ERROR" THEN "grow" ELSE AfterError]
  /\ UNCHANGED << rx_lock, rx_buffer, rx_status, todo, seen, received, resultVars >>

(* Mutant: the array grows only as far as the results it holds. *)
GrownShort == IF result_number = 0 THEN 1 ELSE result_number

(* Entries of the array after calloc or realloc. *)
Grown == IF result_number = 0 THEN 1 ELSE result_number + 1

RxGrow(r) ==
  /\ rx_pc[r] = "grow"
  /\ capacity' = Grown
  /\ results' = [n \in 0 .. Grown - 1 |-> IF n < result_number THEN results[n] ELSE Blank]
  /\ rx_pc' = [rx_pc EXCEPT ![r] = "store"]
  /\ UNCHANGED << rx_lock, rx_buffer, rx_status, todo, seen, received, result_number, freed >>

RxStore(r) ==
  /\ rx_pc[r] = "store"
  /\ results' = [results EXCEPT ![result_number] = rx_buffer]
  /\ rx_pc' = [rx_pc EXCEPT ![r] = "count"]
  /\ UNCHANGED << rx_lock, rx_buffer, rx_status, todo, seen, received,
                  capacity, result_number, freed >>

RxCount(r) ==
  /\ rx_pc[r] = "count"
  /\ result_number' = result_number + 1
  /\ todo' = [todo EXCEPT ![r] = @ - 1]
  /\ rx_pc' = [rx_pc EXCEPT ![r] = "loop"]
  /\ UNCHANGED << rx_lock, rx_buffer, rx_status, seen, received, results, capacity, freed >>

RxDone(r) ==
  /\ rx_pc[r] = "loop" /\ todo[r] = 0
  /\ rx_pc' = [rx_pc EXCEPT ![r] = "unlock"]
  /\ UNCHANGED << rx_lock, rx_buffer, rx_status, todo, seen, received, resultVars >>

RxUnlock(r) ==
  /\ rx_pc[r] = "unlock"
  /\ rx_lock' = NoThread
  /\ rx_pc' = [rx_pc EXCEPT ![r] = "wait"]
  /\ UNCHANGED << rx_buffer, rx_status, todo, seen, received, resultVars >>

Receive(r) ==
  /\ \/ RxWait(r) \/ RxLock(r) \/ RxClear(r) \/ RxTransfer(r) \/ RxCheck(r)
     \/ RxGrow(r) \/ RxStore(r) \/ RxCount(r) \/ RxDone(r) \/ RxUnlock(r)
  /\ UNCHANGED << txVars, sent, computed >>

(***************************************************************************)
(* The client frees the results. free_results takes no mutex: the client   *)
(* is assumed to call it while no thread is receiving.                     *)
(***************************************************************************)
FreeResults ==
  /\ rx_lock = NoThread /\ result_number > 0
  /\ freed' = freed + result_number
  /\ result_number' = 0
  /\ results' = << >>
  /\ capacity' = 0
  /\ UNCHANGED << txVars, sent, computed, seen, received, rxVars >>

-----------------------------------------------------------------------------
Next ==
  \/ \E s \in Senders : Send(s)
  \/ Compute
  \/ \E r \in Receivers : Receive(r)
  \/ FreeResults

Spec == Init /\ [][Next]_vars

(* Every thread runs and the network computes. The mutexes need not be     *)
(* fair.                                                                   *)
Fairness ==
  /\ \A s \in Senders : WF_vars(Send(s))
  /\ \A r \in Receivers : WF_vars(Receive(r))
  /\ WF_vars(Compute)

FairSpec == Spec /\ Fairness

-----------------------------------------------------------------------------
(***************************************************************************)
(* What the DMA reads is one image of one caller, whole. Only the images   *)
(* of calls that raced for img_ptr may be mixed, and with each other only. *)
(***************************************************************************)
ImagesIntact ==
  \A n \in 1 .. Len(sent) : \A p, q \in Pixels :
    sent[n][p] # sent[n][q] => {sent[n][p], sent[n][q]} \subseteq raced

(***************************************************************************)
(* A call of egg_tx_img that raced with no other and returned              *)
(* EGG_ERROR_NONE has sent its image, once; one that returned an error has *)
(* not. The status it looks at is a field all senders share.               *)
(***************************************************************************)
TimesSent(s) == {n \in 1 .. Len(sent) : \E p \in Pixels : sent[n][p] = Image(s)}

CodesAreTrue ==
  \A s \in Senders : tx_pc[s] = "idle" /\ calls[s] > 0 /\ Image(s) \notin raced =>
    IF code[s] = "EGG_ERROR_NONE" THEN \E n \in TimesSent(s) : TimesSent(s) = {n}
                                  ELSE TimesSent(s) = {}

(***************************************************************************)
(* The array of network_t holds the results in the order in which they     *)
(* were computed, each once; while nobody receives, none is missing.       *)
(***************************************************************************)
ResultsInOrder ==
  /\ \A n \in 0 .. result_number - 1 : results[n] = freed + n + 1
  /\ rx_lock = NoThread => freed + result_number = received

(***************************************************************************)
(* A result is stored inside the array.                                    *)
(***************************************************************************)
StoresFit == \A r \in Receivers : rx_pc[r] = "store" => result_number < capacity

(***************************************************************************)
(* Each interrupt may be counted by more than one call, and a call that    *)
(* waits for a result too many gives up. Still the result of every image   *)
(* is stored in the end.                                                   *)
(***************************************************************************)
EveryResultIsStored ==
  \A n \in 1 .. Images * Cardinality(Senders) : Len(sent) >= n ~> freed + result_number >= n

(***************************************************************************)
(* Every call of egg_tx_img returns.                                       *)
(***************************************************************************)
EveryCallReturns == \A s \in Senders : tx_pc[s] = "lock" ~> tx_pc[s] = "idle"
=============================================================================
