---------------------------- MODULE DebugDriver ----------------------------
(***************************************************************************)
(* The status and debug half of the Linux driver (EggDriver/src/egguio.c,  *)
(* eggstatus.c, eggnet.c) and the registers it works on: the AXI-lite      *)
(* slave and the multiplexer Dbg_ctrl of the top level. One client calls   *)
(* the functions of eggnet_core.h and eggnet.h in any order.               *)
(*                                                                         *)
(* A step is a function, or the part of it up to its next register write.  *)
(* Dbg_ctrl follows a write in one clock, before the next bus access, so   *)
(* that a poll of the address reads the same value TIMEOUT times.          *)
(***************************************************************************)
EXTENDS Integers

CONSTANTS
  MEM_CTRL_NUMBER,   \* generic of the top level
  Controllers,       \* the memory controllers that exist, of 1 .. MEM_CTRL_NUMBER
  LAYER_WIDTH, LAYER_HIGHT, IN_CHANNEL_NUMBER, \* generics of each controller
  Layers, Channels   \* arguments of the client: uint8_t

VARIABLES
  slv_reg,           \* what was written to the four registers
  axi_status,        \* the layer whose status and properties are shown
  dbg_enable,        \* the layers with dbg_enable set
  selected_layer, layer_number,   \* network_t
  call,              \* the last call of the client
  nb, i,             \* get_network_structure: layers to read, next one
  pc                 \* where the call is, or the code it returned

hwVars == << slv_reg, axi_status, dbg_enable >>
netVars == << selected_layer, layer_number >>
loopVars == << nb, i >>
vars == << hwVars, netVars, call, loopVars, pc >>

NONE == "EGG_ERROR_NONE"
FAILED == "EGG_ERROR_DEVICE_COMMUNICATION_FAILED"
UDEF == "EGG_ERROR_UDEF"
INIT_FAILED == "EGG_ERROR_INIT_FAILDED"
Idle == pc \in {NONE, FAILED, UDEF, INIT_FAILED}

-----------------------------------------------------------------------------
(* The registers. An offset is added to a pointer to 32 bit words, and the *)
(* slave decodes two bits of the word address.                             *)
EGG_WR_MEM_CTRL_ADDR_OFS == 0
EGG_WR_BRAM_ADDR_OFS == 4 \div 4
EGG_WR_DBG_ENABLE_OFS == 8
EGG_WR_32BIT_SEL_OFS == 18 \div 4

Register(offset) == offset % 4

(* What Dbg_ctrl shows next, and the flags it drives.                      *)
Dbg_ctrl ==
  IF slv_reg'[0] <= MEM_CTRL_NUMBER
  THEN /\ axi_status' = slv_reg'[0]
       /\ dbg_enable' = IF slv_reg'[2] % 2 = 1 THEN dbg_enable \cup {slv_reg'[0]}
                                               ELSE dbg_enable \ {slv_reg'[0]}
  ELSE UNCHANGED << axi_status, dbg_enable >>

Write(offset, value) ==
  /\ slv_reg' = [slv_reg EXCEPT ![Register(offset)] = value]
  /\ Dbg_ctrl

(* The fields of status(a) and layer_properties(a). A controller that does *)
(* not exist drives nothing, which reads as zero.                          *)
Address(a) == IF a \in Controllers THEN a ELSE 0
WidthField(a) == IF a = 0 THEN MEM_CTRL_NUMBER
                 ELSE IF a \in Controllers THEN LAYER_WIDTH[a] - 1 ELSE 0
HeightField(a) == IF a \in Controllers THEN LAYER_HIGHT[a] - 1 ELSE 0
ChannelField(a) == IF a \in Controllers THEN IN_CHANNEL_NUMBER[a] - 1 ELSE 0

-----------------------------------------------------------------------------
Init ==
  /\ slv_reg = [r \in 0 .. 3 |-> 0] /\ axi_status = 0 /\ dbg_enable = {}
  /\ selected_layer = 0 /\ layer_number = 0
  /\ call = [name |-> "none", layer |-> 0, channel |-> 0]
  /\ nb = 0 /\ i = 0
  /\ pc = NONE

(* The function egg_update_memctrl_addr: where its caller goes on, if the  *)
(* layer is selected and if it is not.                                     *)
UpdateMemctrlAddr(addr, selected, failed) ==
  IF selected_layer = addr
  THEN pc' = selected /\ UNCHANGED << hwVars, selected_layer >>
  ELSE /\ Write(EGG_WR_MEM_CTRL_ADDR_OFS, addr)
       /\ IF Address(axi_status') = addr
          THEN selected_layer' = addr /\ pc' = selected
          ELSE pc' = failed /\ UNCHANGED selected_layer

Called(name, l, c) == Idle /\ call' = [name |-> name, layer |-> l, channel |-> c]

(* egg_init_network, of a new process perhaps: the network_t is cleared,   *)
(* the registers of the FPGA are not. Devices may be missing, or in use.   *)
EggInitNetwork ==
  /\ Called("egg_init_network", 0, 0)
  /\ selected_layer' = 0 /\ layer_number' = 0
  /\ pc' \in {"structure", INIT_FAILED}
  /\ UNCHANGED << hwVars, loopVars >>

EggUpdateMemctrlAddr(l) ==
  /\ Called("egg_update_memctrl_addr", l, 0)
  /\ UpdateMemctrlAddr(l, NONE, FAILED)
  /\ UNCHANGED << layer_number, loopVars >>

EggUpdateChannelSelect(c) ==
  /\ Called("egg_update_channel_select", 0, c)
  /\ Write(EGG_WR_32BIT_SEL_OFS, (c * 8) \div 32)
  /\ pc' = NONE
  /\ UNCHANGED << netVars, loopVars >>

(* Outside the debug mode the address that is read back is not driven: the *)
(* poll may end either way. Which address is written matters to nobody.    *)
EggUpdateBramAddr ==
  /\ Called("egg_update_bram_addr", 0, 0)
  /\ Write(EGG_WR_BRAM_ADDR_OFS, 0)
  /\ pc' \in {NONE, FAILED}
  /\ UNCHANGED << netVars, loopVars >>

-----------------------------------------------------------------------------
(***************************************************************************)
(* get_network_structure, the last part of egg_init_network.               *)
(***************************************************************************)
GetNetworkStructure ==
  /\ \/ Called("get_network_structure", 0, 0)
     \/ pc = "structure" /\ UNCHANGED call
  /\ IF layer_number = 0
     THEN UpdateMemctrlAddr(0, "number", UDEF)
     ELSE pc' = UDEF /\ UNCHANGED << hwVars, selected_layer >>
  /\ UNCHANGED << layer_number, loopVars >>

(* The second half of egg_get_layer_number. *)
LayerNumber ==
  /\ pc = "number"
  /\ nb' = WidthField(axi_status) % 256
  /\ i' = 0
  /\ pc' = "layers"
  /\ UNCHANGED << hwVars, netVars, call >>

(* egg_get_layer_info selects the layer and reads its properties. The      *)
(* width is shifted by EGG_RD_MEM_CTRL_ADDR_SHIFT, and a field that is     *)
(* zero is an error.                                                       *)
LayerInfo ==
  /\ pc = "layers" /\ i < nb
  /\ UpdateMemctrlAddr(i, "info", UDEF)
  /\ UNCHANGED << layer_number, call, loopVars >>

LayerFields ==
  /\ pc = "info"
  /\ IF /\ WidthField(axi_status) \div 256 # 0
        /\ HeightField(axi_status) # 0
        /\ ChannelField(axi_status) # 0
     THEN i' = i + 1 /\ pc' = "layers"
     ELSE pc' = UDEF /\ UNCHANGED i
  /\ UNCHANGED << hwVars, netVars, call, nb >>

AllLayers ==
  /\ pc = "layers" /\ i = nb
  /\ layer_number' = nb
  /\ pc' = NONE
  /\ UNCHANGED << hwVars, selected_layer, call, loopVars >>

-----------------------------------------------------------------------------
(***************************************************************************)
(* activate_debug_mode, alone or as the first part of a read. The reads    *)
(* check its code the wrong way round and go on when it failed.            *)
(***************************************************************************)
Reads == {"read_pixel", "read_row", "read_channel", "read_layer"}

Activated(name, code) ==
  IF name \notin Reads THEN code ELSE IF code = NONE THEN FAILED ELSE "address"

Activate(name, l) ==
  IF layer_number > l
  THEN UpdateMemctrlAddr(l, "enable", Activated(name, FAILED))
  ELSE pc' = Activated(name, FAILED) /\ UNCHANGED << hwVars, selected_layer >>

ActivateDebugMode(l) ==
  /\ Called("activate_debug_mode", l, 0)
  /\ Activate("activate_debug_mode", l)
  /\ UNCHANGED << layer_number, loopVars >>

Read(name, l, c) ==
  /\ Called(name, l, c)
  /\ IF layer_number > 0 /\ layer_number >= l
     THEN Activate(name, l)
     ELSE pc' = FAILED /\ UNCHANGED << hwVars, selected_layer >>
  /\ UNCHANGED << layer_number, loopVars >>

EnableDebugMode ==
  /\ pc = "enable"
  /\ Write(EGG_WR_DBG_ENABLE_OFS, 1)
  /\ pc' = "active"
  /\ UNCHANGED << netVars, call, loopVars >>

(* A controller enters the debug mode when its computation allows, after   *)
(* the time-out perhaps.                                                   *)
WaitForDebugMode ==
  /\ pc = "active"
  /\ \/ axi_status \in dbg_enable \cap Controllers /\ pc' = Activated(call.name, NONE)
     \/ pc' = Activated(call.name, FAILED)
  /\ UNCHANGED << hwVars, netVars, call, loopVars >>

(* The reads but read_pixel give up when their array could be allocated.   *)
ReadAddress ==
  /\ pc = "address"
  /\ UpdateMemctrlAddr(call.layer, IF call.name = "read_layer" THEN FAILED ELSE "select", FAILED)
  /\ UNCHANGED << layer_number, call, loopVars >>

ReadSelect ==
  /\ pc = "select"
  /\ Write(EGG_WR_32BIT_SEL_OFS, (call.channel * 8) \div 32)
  /\ pc' = IF call.name = "read_pixel" THEN "pixel" ELSE FAILED
  /\ UNCHANGED << netVars, call, loopVars >>

ReadPixel ==
  /\ pc = "pixel"
  /\ Write(EGG_WR_BRAM_ADDR_OFS, 0)
  /\ pc' \in {NONE, FAILED}
  /\ UNCHANGED << netVars, call, loopVars >>

-----------------------------------------------------------------------------
Client ==
  \/ EggInitNetwork
  \/ GetNetworkStructure
  \/ EggUpdateBramAddr
  \/ \E l \in Layers : EggUpdateMemctrlAddr(l) \/ ActivateDebugMode(l)
  \/ \E c \in Channels : EggUpdateChannelSelect(c)
  \/ \E name \in Reads, l \in Layers, c \in Channels : Read(name, l, c)

Continue ==
  \/ LayerNumber \/ LayerInfo \/ LayerFields \/ AllLayers
  \/ EnableDebugMode \/ WaitForDebugMode
  \/ ReadAddress \/ ReadSelect \/ ReadPixel

Next == Client \/ Continue

Spec == Init /\ [][Next]_vars

-----------------------------------------------------------------------------
(***************************************************************************)
(* After egg_update_memctrl_addr has returned EGG_ERROR_NONE, the layer    *)
(* that was asked for is the one the hardware shows. It need not be: the   *)
(* layer the driver remembers is out of date after a failed change, after  *)
(* a write through an offset that was not divided and in a new network_t.  *)
(***************************************************************************)
SelectedLayerActive ==
  call.name = "egg_update_memctrl_addr" /\ pc = NONE => Address(axi_status) = call.layer

(***************************************************************************)
(* get_network_structure never fills in a layer: layer 0, which it reads   *)
(* first, has no width. It returns EGG_ERROR_NONE, alone or at the end of  *)
(* egg_init_network, only if it has read that there are no layers, as it   *)
(* does from a layer that does not exist.                                  *)
(***************************************************************************)
ReadsStructure == call.name \in {"egg_init_network", "get_network_structure"}

NoLayerIsRead == layer_number = 0 /\ (ReadsStructure /\ pc = NONE => nb = 0)

(***************************************************************************)
(* Whatever the client does, no layer is ever asked to debug: the offset   *)
(* of Dbg_enable reaches the register of the layer address.                *)
(***************************************************************************)
DebugNeverEnabled == slv_reg[2] = 0 /\ dbg_enable = {}
=============================================================================
