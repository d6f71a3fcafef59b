------------------------------- MODULE MCPort -------------------------------
(***************************************************************************)
(* The components that bring a port up and configure it, on one bench: the *)
(* shared-resource semaphores, the EEPROM, the module's two-wire bus, the  *)
(* recognition of the module, the set-up of the link, flow control, the    *)
(* life of the device, the module parameters, address and VLAN filters, a  *)
(* VF's mailbox, the layout of the queues, and DCB settings and credits.   *)
(* `part` is the component that moves in a behaviour; the others stay in   *)
(* one of their initial states, so that the run covers each component      *)
(* exactly.                                                                *)
(***************************************************************************)
EXTENDS SwFwSync, EepromAccess, I2cBus, SfpModule, LinkSetup, FlowControl, PortLife,
        ModuleParams, MacFilters, VlanFilters, QueueLayout, DcbConfig, DcbCredits, VfMailbox

VARIABLE part

portVars == <<part, sfVars, eeVars, i2cVars, smVars, lkVars, fcVars, plVars, mpVars, mfVars,
              vlVars, qlVars, dnVars, dc, vmVars>>

\* An image whose two pointers lead to sections at 6 and 9.
EeMCImages == {[a \in 0..11 |-> CASE a = 1 -> 6 [] a = 2 -> 9 [] a = 6 -> 2 [] a = 9 -> 1 [] OTHER -> a]}
EeMCPtrs == <<1, 2>>

\* Passive and active copper, optics at 10G and 1G, 1G copper, nothing usable, and QSFP.
SmM(id, tech, lmt, g10, g1, vendor) ==
  [id |-> id, tech |-> tech, lmt |-> lmt, g10 |-> g10, g1 |-> g1, vendor |-> vendor]
SmMCModules ==
  {SmM("SFP", {"passive"}, FALSE, {}, {}, "tyco"), SmM("SFP", {"active"}, TRUE, {}, {}, "ftl"),
   SmM("SFP", {}, FALSE, {"SR"}, {"SX"}, "intel"), SmM("SFP", {}, FALSE, {"LR"}, {}, "avago"),
   SmM("SFP", {}, FALSE, {}, {"T"}, "other"), SmM("SFP", {}, FALSE, {}, {}, "other"),
   SmM("QSFP", {"passive"}, FALSE, {}, {}, "other"), SmM("QSFP", {}, TRUE, {}, {}, "other"),
   SmM("QSFP", {}, FALSE, {"SR"}, {}, "other")}

\* Fiber with one or two speeds, copper, QSFP and backplane, with and without LESM.
LkB(media, lms, supp, multi, sfp1g, lesm, keep) ==
  [media |-> media, ee |-> [lms |-> lms, supp |-> supp], multi |-> multi, sfp1g |-> sfp1g,
   sfi |-> TRUE, lesm |-> lesm, keep |-> keep]
LkMCBoards ==
  {LkB("fiber", "10G_SERIAL", {}, TRUE, FALSE, TRUE, FALSE), LkB("fiber", "1G_AN", {}, TRUE, FALSE, FALSE, TRUE),
   LkB("fiber", "10G_SERIAL", {}, FALSE, TRUE, FALSE, FALSE), LkB("fiber", "10G_SERIAL", {}, FALSE, FALSE, TRUE, TRUE),
   LkB("copper", "10G_NO_AN", {}, FALSE, FALSE, TRUE, FALSE), LkB("qsfp", "10G_SERIAL", {}, TRUE, FALSE, FALSE, FALSE),
   LkB("backplane", "KX4_KX_KR", {"KX4", "KX", "KR"}, FALSE, FALSE, FALSE, FALSE),
   LkB("backplane", "KX4_KX_KR_1G_AN", {"KX", "KR"}, FALSE, FALSE, FALSE, TRUE),
   LkB("backplane", "KX4_KX_KR_SGMII", {"KX", "KR"}, FALSE, FALSE, TRUE, FALSE)}
LkMCPeers == {{}, {"10G", "KR"}, {"1G", "KX"}, {"10G", "1G", "KX4"}, {"badKR", "KX"}}

FcB(mac, media, ee, an) == [mac |-> mac, media |-> media, ee |-> ee, autoneg |-> an]
FcMCBoards ==
  {FcB("82598", "fiber", {}, FALSE), FcB("82599", "fiber", {}, FALSE),
   FcB("82599", "backplane", {"sym", "asm"}, TRUE), FcB("82599", "backplane", {}, TRUE),
   FcB("X540", "copper", {}, TRUE), FcB("82598", "copper", {"sym"}, FALSE),
   FcB("82598", "backplane", {}, TRUE)}

\* Ports of each kind: many processors, few and many VFs, pools.
QlP(mac, cpus, atr, vfs, pools) ==
  [mac |-> mac, cpus |-> cpus, atr |-> atr, vfs |-> vfs, pools |-> pools]
QlMCPorts ==
  {QlP("82599", 24, TRUE, 0, 0), QlP("82599", 8, TRUE, 15, 0), QlP("82599", 8, TRUE, 16, 0),
   QlP("82599", 8, TRUE, 63, 0), QlP("X540", 6, FALSE, 3, 4), QlP("82598", 8, FALSE, 0, 4)}

-----------------------------------------------------------------------------
\* One initial state of each component, for the behaviours in which it does not move.
SfRest  == SfInit /\ sf_mac = "82599"
EeRest  == EeInit /\ ee_mac = "82599" /\ ee_real = CHOOSE r \in EeRealPages : TRUE
I2cRest == /\ I2cInit /\ ~i2c_shared /\ i2c_bus.busy = 0 /\ i2c_bus.dev = I2cIdle
           /\ i2c_bus.ptr = CHOOSE o \in I2cOffsets : TRUE
SmRest  == SmInit /\ sm_media = "fiber" /\ ~sm_any /\ ~sm_allow /\ sm_cage = SmEmpty
LkRest  == LkInit /\ lk_board = (CHOOSE b \in LkBoards : TRUE) /\ lk_peer = {}
FcRest  == FcInit /\ fc_board = CHOOSE b \in FcBoards : TRUE
MpRest  == MpInit /\ mp.mac = "82599" /\ mp.old = 0
QlRest  == QlInit /\ ql.sriov /\ ql.voffset = 63
DnRest  == DnInit /\ dn.mac = "82599" /\ ~dn.open
DcRest  == DcInitFor("82599", FALSE, [t \in DcTcs |-> [bwg |-> 0, pct |-> 1, strict |-> FALSE]],
                     [g \in 0 .. DcGroups - 1 |-> 1])
MfRest  == MfInit /\ mf.mac = "82599" /\ mf.addr = CHOOSE a \in MfAddrs : TRUE

PortInit ==
  /\ part \in {"sf", "ee", "i2c", "sm", "lk", "fc", "pl", "mp", "mf", "vl", "ql", "dn",
               "dc", "vm"}
  /\ IF part = "sf"  THEN SfInit  ELSE SfRest
  /\ IF part = "ee"  THEN EeInit  ELSE EeRest
  /\ IF part = "i2c" THEN I2cInit ELSE I2cRest
  /\ IF part = "sm"  THEN SmInit  ELSE SmRest
  /\ IF part = "lk"  THEN LkInit  ELSE LkRest
  /\ IF part = "fc"  THEN FcInit  ELSE FcRest
  /\ IF part = "mp"  THEN MpInit  ELSE MpRest
  /\ IF part = "mf"  THEN MfInit  ELSE MfRest
  /\ IF part = "ql"  THEN QlInit  ELSE QlRest
  /\ IF part = "dn"  THEN DnInit  ELSE DnRest
  /\ PlInit /\ VlInit /\ VmInit
  /\ IF part = "dc"  THEN DcInit  ELSE DcRest

\* The other components do not move.
Others(p) ==
  /\ part' = part
  /\ IF p = "sf"  THEN TRUE ELSE UNCHANGED sfVars
  /\ IF p = "ee"  THEN TRUE ELSE UNCHANGED eeVars
  /\ IF p = "i2c" THEN TRUE ELSE UNCHANGED i2cVars
  /\ IF p = "sm"  THEN TRUE ELSE UNCHANGED smVars
  /\ IF p = "lk"  THEN TRUE ELSE UNCHANGED lkVars
  /\ IF p = "fc"  THEN TRUE ELSE UNCHANGED fcVars
  /\ IF p = "pl"  THEN TRUE ELSE UNCHANGED plVars
  /\ IF p = "mp"  THEN TRUE ELSE UNCHANGED mpVars
  /\ IF p = "mf"  THEN TRUE ELSE UNCHANGED mfVars
  /\ IF p = "vl"  THEN TRUE ELSE UNCHANGED vlVars
  /\ IF p = "ql"  THEN TRUE ELSE UNCHANGED qlVars
  /\ IF p = "dn"  THEN TRUE ELSE UNCHANGED dnVars
  /\ IF p = "dc"  THEN TRUE ELSE UNCHANGED dc
  /\ IF p = "vm"  THEN TRUE ELSE UNCHANGED vmVars

PortNext ==
  \/ part = "sf"  /\ SfNext  /\ Others("sf")
  \/ part = "ee"  /\ EeNext  /\ Others("ee")
  \/ part = "i2c" /\ I2cNext /\ Others("i2c")
  \/ part = "sm"  /\ SmNext  /\ Others("sm")
  \/ part = "lk"  /\ LkNext  /\ Others("lk")
  \/ part = "fc"  /\ FcNext  /\ Others("fc")
  \/ part = "pl"  /\ PlNext  /\ Others("pl")
  \/ part = "mp"  /\ MpNext  /\ Others("mp")
  \/ part = "mf"  /\ MfNext  /\ Others("mf")
  \/ part = "vl"  /\ VlNext  /\ Others("vl")
  \/ part = "ql"  /\ QlNext  /\ Others("ql")
  \/ part = "dn"  /\ DnNext  /\ Others("dn")
  \/ part = "dc"  /\ DcNext  /\ Others("dc")
  \/ part = "vm"  /\ VmNext  /\ Others("vm")

PortSpec == PortInit /\ [][PortNext]_portVars

\* Address and VLAN filters: every pool hears what it was given and nothing
\* else.
FiltersSafe ==
  /\ MfSafe
  /\ VlSafe

\* DCB settings and credits: what was asked for is what the port does.
DcbSafe ==
  /\ DnSafe
  /\ DcSafe
=============================================================================
