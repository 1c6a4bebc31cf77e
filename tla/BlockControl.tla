----------------------------- MODULE BlockControl -----------------------------
(***************************************************************************)
(* The double-buffer arbiter of a memory controller: the clocked process   *)
(* BlockControl of MemCtrl.vhd. The block RAM holds two blocks (images or  *)
(* feature maps). The write side of the arbiter hands an empty block to    *)
(* the process that fills blocks, the read side hands a full one to the    *)
(* process that streams blocks out; both learn that the process is done    *)
(* from a rising edge of its done signal.                                  *)
(*                                                                         *)
(* A step is one rising clock edge: every register gets its new value from *)
(* the old values of all signals, as in a clocked VHDL process.            *)
(***************************************************************************)
EXTENDS Integers

(***************************************************************************)
(* A block is named by the arbiter state that serves it. The two-bit       *)
(* vectors next_block_read/write carry a block ("01", "10") or "00".       *)
(***************************************************************************)
Blocks == {"BLOCK0", "BLOCK1"}
Other(b) == IF b = "BLOCK0" THEN "BLOCK1" ELSE "BLOCK0"
Wait == "WAIT"

VARIABLES
  next_block_read,    (* block the read process may start on, or Wait     *)
  next_block_write,   (* block the write process may start on, or Wait    *)
  block_full,         (* per block: holds a complete image                *)
  rd_bl_state,        (* read side of the arbiter                         *)
  wr_bl_state,        (* write side of the arbiter                        *)
  rd_block_done_R,    (* rd_block_done, one clock ago                     *)
  wr_block_done_R,    (* wr_block_done, one clock ago                     *)
  dbg_active_rd,      (* raised by the write side while in DEBUG          *)
  dbg_active_wr,      (* raised by the read side once in DEBUG            *)
  rd_block_done,      (* driven by the read process                       *)
  wr_block_done,      (* driven by the write process                      *)
  dbg_enable          (* input Dbg_enable_i, a register of the AXI-lite   *)
                      (* slave                                            *)

arbiterVars == << next_block_read, next_block_write, block_full, rd_bl_state,
                  wr_bl_state, rd_block_done_R, wr_block_done_R,
                  dbg_active_rd, dbg_active_wr >>

BlStates == Blocks \cup {"IDLE", "DEBUG"}

dbg_active == dbg_active_rd /\ dbg_active_wr

BlockControlType ==
  /\ next_block_read \in Blocks \cup {Wait}
  /\ next_block_write \in Blocks \cup {Wait}
  /\ block_full \in [Blocks -> BOOLEAN]
  /\ rd_bl_state \in BlStates
  /\ wr_bl_state \in BlStates
  /\ rd_block_done_R \in BOOLEAN
  /\ wr_block_done_R \in BOOLEAN
  /\ dbg_active_rd \in BOOLEAN
  /\ dbg_active_wr \in BOOLEAN
  /\ rd_block_done \in BOOLEAN
  /\ wr_block_done \in BOOLEAN
  /\ dbg_enable \in BOOLEAN

(* The reset branch. *)
BlockControlInit ==
  /\ next_block_read = Wait
  /\ next_block_write = "BLOCK0"
  /\ block_full = [b \in Blocks |-> FALSE]
  /\ rd_bl_state = "IDLE"
  /\ wr_bl_state = "BLOCK0"
  /\ rd_block_done_R = TRUE
  /\ wr_block_done_R = TRUE
  /\ dbg_active_rd = FALSE
  /\ dbg_active_wr = FALSE

-----------------------------------------------------------------------------
(* Mutants: the level of the done signal instead of its rising edge. *)
WrDoneLevel == wr_block_done
RdDoneLevel == rd_block_done

(* Rising edges of the done signals. *)
WrDoneEdge == wr_block_done /\ ~wr_block_done_R
RdDoneEdge == rd_block_done /\ ~rd_block_done_R

(* The block a done edge declares full, and the one it declares empty. *)
Commits(b)  == wr_bl_state = b /\ WrDoneEdge
Releases(b) == rd_bl_state = b /\ RdDoneEdge

-----------------------------------------------------------------------------
(* The write side: case wr_bl_state. *)

WrBlIdle ==
  /\ wr_bl_state = "IDLE"
  /\ dbg_active_rd' = FALSE
  /\ next_block_write' = Wait
  /\ wr_bl_state' = CASE dbg_enable                -> "DEBUG"
                      [] ~dbg_enable /\ ~block_full["BLOCK0"] -> "BLOCK0"
                      [] ~dbg_enable /\ block_full["BLOCK0"]
                           /\ ~block_full["BLOCK1"] -> "BLOCK1"
                      [] OTHER                      -> "IDLE"

(* Mutant: does not look whether the other block is still full. *)
WrBlCommitBlindly(b) ==
  /\ Commits(b)
  /\ next_block_write' = Wait
  /\ wr_bl_state' = Other(b)
  /\ UNCHANGED dbg_active_rd

(* The block is complete: take the other one if it is empty. *)
WrBlCommit(b) ==
  /\ Commits(b)
  /\ next_block_write' = Wait
  /\ wr_bl_state' = IF block_full[Other(b)] THEN "IDLE" ELSE Other(b)
  /\ UNCHANGED dbg_active_rd

(* No block is being received: a debug request is served. *)
WrBlEnterDebug(b) ==
  /\ wr_bl_state = b
  /\ ~WrDoneEdge
  /\ dbg_enable /\ wr_block_done
  /\ next_block_write' = Wait
  /\ wr_bl_state' = "DEBUG"
  /\ UNCHANGED dbg_active_rd

(* Mutant: keeps offering the block after it has been taken. *)
WrBlOfferTwice(b) ==
  /\ wr_bl_state = b
  /\ ~WrDoneEdge
  /\ ~(dbg_enable /\ wr_block_done)
  /\ next_block_write' = b
  /\ UNCHANGED << wr_bl_state, dbg_active_rd >>

(* Offer the block until the write process has taken it. *)
WrBlOffer(b) ==
  /\ wr_bl_state = b
  /\ ~WrDoneEdge
  /\ ~(dbg_enable /\ wr_block_done)
  /\ next_block_write' = IF wr_block_done_R THEN b ELSE Wait
  /\ UNCHANGED << wr_bl_state, dbg_active_rd >>

WrBlDebug ==
  /\ wr_bl_state = "DEBUG"
  /\ next_block_write' = Wait
  /\ dbg_active_rd' = TRUE
  /\ wr_bl_state' = IF dbg_enable THEN "DEBUG" ELSE "IDLE"

WriteSide ==
  \/ WrBlIdle
  \/ \E b \in Blocks : WrBlCommit(b)
  \/ \E b \in Blocks : WrBlEnterDebug(b)
  \/ \E b \in Blocks : WrBlOffer(b)
  \/ WrBlDebug

-----------------------------------------------------------------------------
(* The read side: case rd_bl_state. *)

RdBlIdle ==
  /\ rd_bl_state = "IDLE"
  /\ next_block_read' = Wait
  /\ rd_bl_state' = CASE dbg_enable                -> "DEBUG"
                      [] ~dbg_enable /\ block_full["BLOCK0"] -> "BLOCK0"
                      [] ~dbg_enable /\ ~block_full["BLOCK0"]
                           /\ block_full["BLOCK1"]  -> "BLOCK1"
                      [] OTHER                      -> "IDLE"
  /\ UNCHANGED dbg_active_wr

RdBlRelease(b) ==
  /\ Releases(b)
  /\ next_block_read' = Wait
  /\ rd_bl_state' = IF block_full[Other(b)] THEN Other(b) ELSE "IDLE"
  /\ UNCHANGED dbg_active_wr

(* Mutant: keeps offering the block after it has been taken. *)
RdBlOfferTwice(b) ==
  /\ rd_bl_state = b
  /\ ~RdDoneEdge
  /\ next_block_read' = b
  /\ UNCHANGED << rd_bl_state, dbg_active_wr >>

RdBlOffer(b) ==
  /\ rd_bl_state = b
  /\ ~RdDoneEdge
  /\ next_block_read' = IF rd_block_done_R THEN b ELSE Wait
  /\ UNCHANGED << rd_bl_state, dbg_active_wr >>

(* Mutant: does not look at Dbg_enable_i any more. *)
RdBlDebugForever ==
  /\ rd_bl_state = "DEBUG"
  /\ next_block_read' = Wait
  /\ dbg_active_wr' = TRUE
  /\ UNCHANGED rd_bl_state

(* dbg_active_wr is raised here and lowered by nothing but the reset. *)
RdBlDebug ==
  /\ rd_bl_state = "DEBUG"
  /\ next_block_read' = Wait
  /\ dbg_active_wr' = TRUE
  /\ rd_bl_state' = IF dbg_enable THEN "DEBUG" ELSE "IDLE"

ReadSide ==
  \/ RdBlIdle
  \/ \E b \in Blocks : RdBlRelease(b)
  \/ \E b \in Blocks : RdBlOffer(b)
  \/ RdBlDebug

-----------------------------------------------------------------------------
(***************************************************************************)
(* One clock of the process. The read side's assignment to block_full      *)
(* comes last in the process and wins.                                     *)
(***************************************************************************)
BlockControlStep ==
  /\ WriteSide
  /\ ReadSide
  /\ block_full' = [b \in Blocks |-> (block_full[b] \/ Commits(b)) /\ ~Releases(b)]
  /\ rd_block_done_R' = rd_block_done
  /\ wr_block_done_R' = wr_block_done
=============================================================================
