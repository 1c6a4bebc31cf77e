------------------------- MODULE DebugDriverProofs -------------------------
(***************************************************************************)
(* What the driver never does, for every set of controllers and every      *)
(* argument of the client.                                                 *)
(***************************************************************************)
EXTENDS DebugDriver, TLAPS

-----------------------------------------------------------------------------
(***************************************************************************)
(* Debugging is never enabled. The flags follow register 2, and no offset  *)
(* of the driver reaches it.                                               *)
(***************************************************************************)
NoDebug ==
  /\ slv_reg = [r \in 0 .. 3 |-> slv_reg[r]]
  /\ DebugNeverEnabled

(* The registers the four offsets reach. *)
LEMMA Offsets ==
  /\ Register(EGG_WR_MEM_CTRL_ADDR_OFS) = 0
  /\ Register(EGG_WR_BRAM_ADDR_OFS) = 1
  /\ Register(EGG_WR_DBG_ENABLE_OFS) = 0
  /\ Register(EGG_WR_32BIT_SEL_OFS) = 0
BY SMT DEF Register, EGG_WR_MEM_CTRL_ADDR_OFS, EGG_WR_BRAM_ADDR_OFS,
           EGG_WR_DBG_ENABLE_OFS, EGG_WR_32BIT_SEL_OFS

(* A write to one of these registers leaves the flags down. *)
LEMMA WriteKeepsNoDebug ==
  ASSUME NEW offset, NEW value, NoDebug, Register(offset) \in {0, 1}, Write(offset, value)
  PROVE  NoDebug'
<1>1. /\ slv_reg' = [slv_reg EXCEPT ![Register(offset)] = value]
      /\ Dbg_ctrl
  BY DEF Write
<1>2. slv_reg' = [r \in 0 .. 3 |-> slv_reg'[r]]
  BY <1>1 DEF NoDebug
<1>3. slv_reg'[2] = 0
  BY <1>1 DEF NoDebug, DebugNeverEnabled
<1>4. dbg_enable' = {}
  <2>1. CASE slv_reg'[0] <= MEM_CTRL_NUMBER
    <3>1. slv_reg'[2] % 2 # 1
      BY <1>3, SMT
    <3>2. dbg_enable' = dbg_enable \ {slv_reg'[0]}
      BY <1>1, <2>1, <3>1 DEF Dbg_ctrl
    <3> QED
      BY <3>2 DEF NoDebug, DebugNeverEnabled
  <2>2. CASE ~(slv_reg'[0] <= MEM_CTRL_NUMBER)
    BY <1>1, <2>2 DEF Dbg_ctrl, NoDebug, DebugNeverEnabled
  <2> QED
    BY <2>1, <2>2
<1> QED
  BY <1>2, <1>3, <1>4 DEF NoDebug, DebugNeverEnabled

LEMMA UpdateKeepsNoDebug ==
  ASSUME NEW addr, NEW selected, NEW failed, NoDebug,
         UpdateMemctrlAddr(addr, selected, failed)
  PROVE  NoDebug'
<1>1. CASE selected_layer = addr
  BY <1>1 DEF UpdateMemctrlAddr, hwVars, NoDebug, DebugNeverEnabled
<1>2. CASE selected_layer # addr
  <2>1. Write(EGG_WR_MEM_CTRL_ADDR_OFS, addr)
    BY <1>2 DEF UpdateMemctrlAddr
  <2> QED
    BY <2>1, Offsets, WriteKeepsNoDebug
<1> QED
  BY <1>1, <1>2

LEMMA ActivateKeepsNoDebug ==
  ASSUME NEW name, NEW l, NoDebug, Activate(name, l)
  PROVE  NoDebug'
<1>1. CASE layer_number > l
  BY <1>1, UpdateKeepsNoDebug DEF Activate
<1>2. CASE ~(layer_number > l)
  BY <1>2 DEF Activate, hwVars, NoDebug, DebugNeverEnabled
<1> QED
  BY <1>1, <1>2

LEMMA ClientKeepsNoDebug == NoDebug /\ Client => NoDebug'
<1> SUFFICES ASSUME NoDebug, Client PROVE NoDebug'
  OBVIOUS
<1>1. CASE EggInitNetwork
  BY <1>1 DEF EggInitNetwork, hwVars, NoDebug, DebugNeverEnabled
<1>2. CASE GetNetworkStructure
  <2>1. CASE layer_number = 0
    BY <1>2, <2>1, UpdateKeepsNoDebug DEF GetNetworkStructure
  <2>2. CASE layer_number # 0
    BY <1>2, <2>2 DEF GetNetworkStructure, hwVars, NoDebug, DebugNeverEnabled
  <2> QED
    BY <2>1, <2>2
<1>3. CASE EggUpdateBramAddr
  BY <1>3, Offsets, WriteKeepsNoDebug DEF EggUpdateBramAddr
<1>4. ASSUME NEW l \in Layers, EggUpdateMemctrlAddr(l) PROVE NoDebug'
  BY <1>4, UpdateKeepsNoDebug DEF EggUpdateMemctrlAddr
<1>5. ASSUME NEW l \in Layers, ActivateDebugMode(l) PROVE NoDebug'
  BY <1>5, ActivateKeepsNoDebug DEF ActivateDebugMode
<1>6. ASSUME NEW c \in Channels, EggUpdateChannelSelect(c) PROVE NoDebug'
  BY <1>6, Offsets, WriteKeepsNoDebug DEF EggUpdateChannelSelect
<1>7. ASSUME NEW name \in Reads, NEW l \in Layers, NEW c \in Channels, Read(name, l, c)
      PROVE  NoDebug'
  <2>1. CASE layer_number > 0 /\ layer_number >= l
    BY <1>7, <2>1, ActivateKeepsNoDebug DEF Read
  <2>2. CASE ~(layer_number > 0 /\ layer_number >= l)
    BY <1>7, <2>2 DEF Read, hwVars, NoDebug, DebugNeverEnabled
  <2> QED
    BY <2>1, <2>2
<1> QED
  BY <1>1, <1>2, <1>3, <1>4, <1>5, <1>6, <1>7 DEF Client

LEMMA ContinueKeepsNoDebug == NoDebug /\ Continue => NoDebug'
<1> SUFFICES ASSUME NoDebug, Continue PROVE NoDebug'
  OBVIOUS
<1>1. CASE LayerNumber \/ LayerFields \/ AllLayers \/ WaitForDebugMode
  BY <1>1 DEF LayerNumber, LayerFields, AllLayers, WaitForDebugMode, hwVars,
              NoDebug, DebugNeverEnabled
<1>2. CASE LayerInfo
  BY <1>2, UpdateKeepsNoDebug DEF LayerInfo
<1>3. CASE EnableDebugMode
  BY <1>3, Offsets, WriteKeepsNoDebug DEF EnableDebugMode
<1>4. CASE ReadAddress
  BY <1>4, UpdateKeepsNoDebug DEF ReadAddress
<1>5. CASE ReadSelect
  BY <1>5, Offsets, WriteKeepsNoDebug DEF ReadSelect
<1>6. CASE ReadPixel
  BY <1>6, Offsets, WriteKeepsNoDebug DEF ReadPixel
<1> QED
  BY <1>1, <1>2, <1>3, <1>4, <1>5, <1>6 DEF Continue

(***************************************************************************)
(* The driver never sets Dbg_enable, and no memory controller is ever      *)
(* asked to enter the debug mode (egguio.c:224, eggnet_core.h:45).         *)
(***************************************************************************)
THEOREM NoLayerIsDebugged == Spec => []DebugNeverEnabled
<1>1. Init => NoDebug
  BY DEF Init, NoDebug, DebugNeverEnabled
<1>2. NoDebug /\ [Next]_vars => NoDebug'
  <2>1. NoDebug /\ UNCHANGED vars => NoDebug'
    BY DEF vars, hwVars, NoDebug, DebugNeverEnabled
  <2> QED
    BY <2>1, ClientKeepsNoDebug, ContinueKeepsNoDebug DEF Next
<1>3. NoDebug => DebugNeverEnabled
  BY DEF NoDebug
<1> QED
  BY <1>1, <1>2, <1>3, PTL DEF Spec

-----------------------------------------------------------------------------
(***************************************************************************)
(* get_network_structure reads layer 0 first. What it finds there, or in   *)
(* the layer that is selected instead, is less than 256 wide, and has no   *)
(* width after the shift.                                                  *)
(***************************************************************************)
SmallLayers ==
  /\ MEM_CTRL_NUMBER \in 0 .. 255
  /\ \A c \in Controllers : LAYER_WIDTH[c] \in 1 .. 256

FirstLayer ==
  /\ NoLayerIsRead
  /\ pc \in {"layers", "info"} => i = 0
  /\ ReadsStructure => pc \in {"structure", "number", "layers", "info", NONE, UDEF, INIT_FAILED}

LEMMA NoWidth ==
  ASSUME NEW a, SmallLayers
  PROVE  WidthField(a) \div 256 = 0
<1>1. WidthField(a) \in 0 .. 255
  BY DEF SmallLayers, WidthField
<1> QED
  BY <1>1, SMT

LEMMA ActivatedCodes ==
  ASSUME NEW name, NEW code \in {NONE, FAILED}
  PROVE  Activated(name, code) \notin {"layers", "info"}
BY DEF Activated, NONE, FAILED

LEMMA ClientKeepsFirstLayer == FirstLayer /\ Client => FirstLayer'
<1> SUFFICES ASSUME FirstLayer, Client PROVE FirstLayer'
  OBVIOUS
<1> USE DEF FirstLayer, NoLayerIsRead, ReadsStructure, Called, netVars, loopVars,
            NONE, FAILED, UDEF, INIT_FAILED
<1>1. CASE EggInitNetwork
  BY <1>1 DEF EggInitNetwork
<1>2. CASE GetNetworkStructure
  BY <1>2 DEF GetNetworkStructure, UpdateMemctrlAddr
<1>3. CASE EggUpdateBramAddr
  BY <1>3 DEF EggUpdateBramAddr
<1>4. ASSUME NEW l \in Layers, EggUpdateMemctrlAddr(l) PROVE FirstLayer'
  BY <1>4 DEF EggUpdateMemctrlAddr, UpdateMemctrlAddr
<1>5. ASSUME NEW name, NEW l, Activate(name, l) PROVE pc' \notin {"layers", "info"}
  BY <1>5, ActivatedCodes DEF Activate, UpdateMemctrlAddr
<1>6. ASSUME NEW l \in Layers, ActivateDebugMode(l) PROVE FirstLayer'
  BY <1>5, <1>6 DEF ActivateDebugMode
<1>7. ASSUME NEW c \in Channels, EggUpdateChannelSelect(c) PROVE FirstLayer'
  BY <1>7 DEF EggUpdateChannelSelect
<1>8. ASSUME NEW name \in Reads, NEW l \in Layers, NEW c \in Channels, Read(name, l, c)
      PROVE  FirstLayer'
  BY <1>5, <1>8 DEF Read, Reads
<1> QED
  BY <1>1, <1>2, <1>3, <1>4, <1>6, <1>7, <1>8 DEF Client

LEMMA ContinueKeepsFirstLayer == SmallLayers /\ FirstLayer /\ Continue => FirstLayer'
<1> SUFFICES ASSUME SmallLayers, FirstLayer, Continue PROVE FirstLayer'
  OBVIOUS
<1> USE DEF FirstLayer, NoLayerIsRead, ReadsStructure, netVars, loopVars,
            NONE, FAILED, UDEF, INIT_FAILED
<1>1. CASE LayerNumber
  BY <1>1 DEF LayerNumber
<1>2. CASE LayerInfo
  BY <1>2 DEF LayerInfo, UpdateMemctrlAddr
<1>3. CASE LayerFields
  BY <1>3, NoWidth DEF LayerFields
<1>4. CASE AllLayers
  BY <1>4 DEF AllLayers
<1>5. CASE WaitForDebugMode
  BY <1>5, ActivatedCodes DEF WaitForDebugMode
<1>6. CASE EnableDebugMode
  BY <1>6 DEF EnableDebugMode
<1>7. CASE ReadAddress
  BY <1>7 DEF ReadAddress, UpdateMemctrlAddr
<1>8. CASE ReadSelect \/ ReadPixel
  BY <1>8 DEF ReadSelect, ReadPixel
<1> QED
  BY <1>1, <1>2, <1>3, <1>4, <1>5, <1>6, <1>7, <1>8 DEF Continue

(***************************************************************************)
(* With layers of at most 256 pixels a line, as in this design,            *)
(* get_network_structure fails at the first layer it reads (egguio.c:149,  *)
(* eggstatus.c:48), and returns EGG_ERROR_NONE only if it has read that    *)
(* there are none. The network stays without layers.                       *)
(***************************************************************************)
THEOREM StructureStaysEmpty ==
  ASSUME SmallLayers
  PROVE  Spec => []NoLayerIsRead
<1>1. Init => FirstLayer
  BY DEF Init, FirstLayer, NoLayerIsRead, ReadsStructure, NONE
<1>2. FirstLayer /\ [Next]_vars => FirstLayer'
  <2>1. FirstLayer /\ UNCHANGED vars => FirstLayer'
    BY DEF vars, netVars, loopVars, FirstLayer, NoLayerIsRead, ReadsStructure
  <2> QED
    BY <2>1, ClientKeepsFirstLayer, ContinueKeepsFirstLayer DEF Next
<1>3. FirstLayer => NoLayerIsRead
  BY DEF FirstLayer
<1> QED
  BY <1>1, <1>2, <1>3, PTL DEF Spec
=============================================================================
