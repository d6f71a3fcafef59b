---------------------------- MODULE ModuleParams ----------------------------
(***************************************************************************)
(* The module parameters of the driver: ixgbe_check_options validates them *)
(* one after the other for the board being probed (each one absent, given  *)
(* with a usable value, or given with nonsense) and makes the later ones   *)
(* give way to what the earlier ones switched off; ixgbe_enable_sriov then *)
(* acts on the result.  A parameter is <<>> when the list given to the     *)
(* module is too short for this board, <<v>> otherwise; v = -1 is the      *)
(* source's OPTION_UNSET.                                                  *)
(***************************************************************************)
EXTENDS Integers, Sequences

CONSTANTS MpMacs,   \* the kinds of port probed
          MpCpus,   \* num_online_cpus()
          MpOldVfs  \* pci_num_vf(): VFs a previous driver may have left behind

ASSUME MpAssumption == /\ MpMacs \subseteq {"82598", "82599"}
                       /\ MpCpus \in Nat \ {0}
                       /\ MpOldVfs \subseteq Nat

VARIABLES mp,      \* the adapter's fields the options decide
          mp_last  \* the option just handled, what was given for it and what was stored

mpVars == <<mp, mp_last>>

MpUnset == -1

\* struct ixgbe_option: an enable_option is the range 0..1.
MpRange(d, lo, hi) == [def |-> d, min |-> lo, max |-> hi]

MpValid(o, v) == v >= o.min /\ v <= o.max

\* ixgbe_validate_option: the value it leaves in *value.
MpValidate(o, v) == IF v # MpUnset /\ MpValid(o, v) THEN v ELSE o.def

\* The shape most blocks have: the validated value when one is given, else the default.
MpOption(o, g) == IF g = <<>> THEN o.def ELSE MpValidate(o, g[1])

\* The static struct ixgbe_option of each block that stores a plain value.
MpTable == [DCA      |-> MpRange(2, 0, 2),       L2LBen   |-> MpRange(1, 0, 1),
            LLIPort  |-> MpRange(0, 0, 65535),   LLISize  |-> MpRange(0, 0, 1500),
            LLIPush  |-> MpRange(0, 0, 1),       LLIEType |-> MpRange(0, 0, 36863),
            LLIVLANP |-> MpRange(0, 0, 7),       FdirPballoc |-> MpRange(1, 1, 3),
            AtrSampleRate |-> MpRange(20, 0, 255), FCoE   |-> MpRange(1, 0, 1),
            LRO      |-> MpRange(1, 0, 1),       sfp      |-> MpRange(0, 0, 1)]

MpItr == MpRange(1, 956, 488281)

\* The order of the blocks of ixgbe_check_options.
MpOrder == <<"IntMode", "MQ", "DCA", "RSS", "VMDQ", "max_vfs", "L2LBen", "ITR",
             "LLIPort", "LLISize", "LLIPush", "LLIEType", "LLIVLANP", "FdirPballoc",
             "AtrSampleRate", "FCoE", "LRO", "sfp">>

\* What a user may have put on the command line: absent, unset, the edges and beyond.
MpGiven(o) == {<<>>} \cup {<<v>> : v \in {MpUnset, 0, 1, o.min - 1, o.min, o.max, o.max + 1}}

\* The flags and limits ixgbe_sw_init leaves before the options are read.
MpPreset(mac, old) ==
    [mac |-> mac, at |-> 1, old |-> old, rss |-> 0, vmdq |-> 0, vfs |-> 0, offset |-> 0,
     fdir |-> IF mac = "82598" THEN 0 ELSE MpCpus,
     flags |-> {"MSI_CAPABLE", "MSIX_CAPABLE", "MQ_CAPABLE", "DCA_CAPABLE"}
                 \cup (IF mac = "82598" THEN {} ELSE {"SRIOV_CAPABLE", "FCOE_CAPABLE"})]

MpInit == /\ \E mac \in MpMacs, old \in MpOldVfs : mp = MpPreset(mac, old)
          /\ mp_last = [opt |-> "none", given |-> <<>>, got |-> 0]

MpAt(opt) == mp.at <= Len(MpOrder) /\ MpOrder[mp.at] = opt

MpStored(opt, g, v) == mp_last' = [opt |-> opt, given |-> g, got |-> v]

\* The interrupt mode, from IntMode or else from the deprecated InterruptType.
MpIntMode ==
    /\ MpAt("IntMode")
    /\ \E g \in MpGiven(MpRange(2, 0, 2)), old \in MpGiven(MpRange(2, 0, 2)) :
         LET asked == IF g = <<>> THEN MpUnset ELSE g[1]
             other == IF old = <<>> THEN MpUnset ELSE old[1]
             mode  == IF g = <<>> /\ old = <<>> THEN 2
                      ELSE MpValidate(MpRange(2, 0, 2), IF asked = MpUnset THEN other ELSE asked)
             off   == CASE mode = 2 -> {}
                        [] mode = 1 -> IF "MSI_CAPABLE" \in mp.flags THEN {"MSIX_CAPABLE"} ELSE {}
                        [] OTHER -> {"MSIX_CAPABLE", "MSI_CAPABLE"}
         IN /\ mp' = [mp EXCEPT !.at = @ + 1, !.flags = @ \ off]
            /\ MpStored("IntMode", <<IF asked = MpUnset THEN other ELSE asked>>, mode)

\* Mutant of MpQueues: MQ is honoured whatever became of MSI-X.
MpQueuesAlways(flags, mq) ==
    IF mq = 1 THEN flags \cup {"MQ_CAPABLE"} ELSE flags \ {"MQ_CAPABLE"}

\* MQ, with its check of interoperability: no multiple queues without MSI-X.
MpQueues(flags, mq) ==
    IF mq = 1 /\ "MSIX_CAPABLE" \in flags THEN flags \cup {"MQ_CAPABLE"}
    ELSE flags \ {"MQ_CAPABLE"}

MpMq ==
    /\ MpAt("MQ")
    /\ \E g \in MpGiven(MpRange(1, 0, 1)) :
         LET mq == MpOption(MpRange(1, 0, 1), g)
         IN /\ mp' = [mp EXCEPT !.at = @ + 1, !.flags = MpQueues(@, mq)]
            /\ MpStored("MQ", g, mq)

\* Direct cache access: 0 takes the capability away, 2 adds the received data, and
\* ENABLED goes when the capability is gone.
MpDca ==
    /\ MpAt("DCA")
    /\ \E g \in MpGiven(MpTable.DCA) :
         LET dca == MpOption(MpTable.DCA, g)
         IN /\ mp' = [mp EXCEPT !.at = @ + 1,
                        !.flags = (@ \ (IF g # <<>> /\ dca = 0 THEN {"DCA_CAPABLE"} ELSE {}))
                                    \cup (IF dca = 2 THEN {"DCA_ENABLED_DATA"} ELSE {})]
            /\ MpStored("DCA", g, dca)

MpLess(a, b) == IF a < b THEN a ELSE b

\* RSS: 0 means one queue per processor; a value given also limits Flow Director; one
\* queue when multiple queues are off.
MpRss ==
    /\ MpAt("RSS")
    /\ \E g \in MpGiven(MpRange(0, 0, 16)) :
         LET v   == MpOption(MpRange(0, 0, 16), g)
             rss == IF v = 0 THEN MpLess(16, MpCpus) ELSE v
         IN /\ mp' = [mp EXCEPT !.at = @ + 1,
                        !.rss  = IF rss > 1 /\ "MQ_CAPABLE" \notin mp.flags THEN 1 ELSE rss,
                        !.fdir = IF v = 0 THEN @ ELSE v]
            /\ MpStored("RSS", g, v)

\* VMDQ: zero and one both mean disabled; the 82598 has 16 pools.
MpVmdq ==
    /\ MpAt("VMDQ")
    /\ LET o == MpRange(0, 0, IF mp.mac = "82598" THEN 16 ELSE 64)
       IN \E g \in MpGiven(o) :
            LET v  == MpOption(o, g)
                on == v > 1 /\ "MQ_CAPABLE" \in mp.flags
            IN /\ mp' = [mp EXCEPT !.at = @ + 1,
                           !.flags = IF on THEN @ \cup {"VMDQ_ENABLED"} ELSE @ \ {"VMDQ_ENABLED"},
                           !.vmdq  = IF v > 1 /\ ~on THEN 0 ELSE v]
               /\ MpStored("VMDQ", g, v)

\* The interoperability checks of max_vfs.
MpVfsKept(flags, vfs) == IF {"SRIOV_CAPABLE", "MQ_CAPABLE"} \subseteq flags THEN vfs ELSE 0

MpMaxVfs ==
    /\ MpAt("max_vfs")
    /\ \E g \in MpGiven(MpRange(0, 0, 63)) :
         LET v   == MpOption(MpRange(0, 0, 63), g)
             vfs == MpVfsKept(mp.flags, v)
         IN /\ mp' = [mp EXCEPT !.at = @ + 1, !.vfs = vfs,
                        !.flags = IF vfs > 0 THEN @ \cup {"SRIOV_ENABLED"} ELSE @ \ {"SRIOV_ENABLED"}]
            /\ MpStored("max_vfs", g, v)

\* L2 loopback of SR-IOV.
MpL2 ==
    /\ MpAt("L2LBen")
    /\ \E g \in MpGiven(MpTable.L2LBen) :
         /\ mp' = [mp EXCEPT !.at = @ + 1]
         /\ MpStored("L2LBen", g, MpOption(MpTable.L2LBen, g))

\* Interrupt throttling, as stored in the 16-bit rx_itr_setting and tx_itr_setting: 0 is
\* off, 1 dynamic, and a rate becomes microseconds with two control bits.
MpItrSetting(g) ==
    CASE g = <<>>            -> MpItr.def
      [] g \in {<<0>>, <<1>>} -> g[1]
      [] OTHER               -> ((1000000 \div MpValidate(MpItr, g[1])) * 4) % 65536

MpThrottle ==
    /\ MpAt("ITR")
    /\ \E g \in MpGiven(MpItr) :
         /\ mp' = [mp EXCEPT !.at = @ + 1]
         /\ MpStored("ITR", g, MpItrSetting(g))

\* The five low-latency interrupt options: a value of zero is "turned off" without being
\* validated, anything else is validated in place.
MpLli ==
    \E opt \in {"LLIPort", "LLISize", "LLIPush", "LLIEType", "LLIVLANP"} :
      /\ MpAt(opt)
      /\ \E g \in MpGiven(MpTable[opt]) :
           /\ mp' = [mp EXCEPT !.at = @ + 1]
           /\ MpStored(opt, g, IF g = <<0>> THEN 0 ELSE MpOption(MpTable[opt], g))

\* Flow Director's share of the packet buffer and the sample rate: neither on an 82598.
MpFdir ==
    \E opt \in {"FdirPballoc", "AtrSampleRate"} :
      /\ MpAt(opt)
      /\ \E g \in MpGiven(MpTable[opt]) :
           /\ mp' = [mp EXCEPT !.at = @ + 1]
           /\ MpStored(opt, g, IF mp.mac = "82598" THEN 0
                               ELSE IF opt = "AtrSampleRate" /\ g = <<0>> THEN 0
                               ELSE MpOption(MpTable[opt], g))

\* FCoE offload: cleared first, and set again only where the MAC has it.
MpFcoe ==
    /\ MpAt("FCoE")
    /\ \E g \in MpGiven(MpTable.FCoE) :
         LET v == IF mp.mac = "82598" THEN 0 ELSE MpOption(MpTable.FCoE, g)
         IN /\ mp' = [mp EXCEPT !.at = @ + 1,
                        !.flags = IF v = 1 THEN @ \cup {"FCOE_CAPABLE"} ELSE @ \ {"FCOE_CAPABLE"}]
            /\ MpStored("FCoE", g, v)

\* Large receive offload and unsupported modules.
MpLast ==
    \E opt \in {"LRO", "sfp"} :
      /\ MpAt(opt)
      /\ \E g \in MpGiven(MpTable[opt]) :
           /\ mp' = [mp EXCEPT !.at = @ + 1]
           /\ MpStored(opt, g, MpOption(MpTable[opt], g))

\* The device is put in VM mode with the VFs' pools below the PF's.
MpVmMode(m) ==
    [m EXCEPT !.flags = @ \cup {"SRIOV_ENABLED", "VMDQ_ENABLED"}, !.offset = m.vfs,
              !.vmdq = IF @ = 0 THEN 1 ELSE @]

\* ixgbe_enable_sriov, once the options are read: VFs left behind by a previous driver
\* win over max_vfs, and pci_enable_sriov may fail.
MpEnableSriov ==
    /\ mp.at = Len(MpOrder) + 1
    /\ \E works \in BOOLEAN :
         mp' = LET m == [mp EXCEPT !.at = @ + 1]
               IN CASE m.old = 0 /\ m.vfs = 0 -> m
                    [] m.old > 0              -> MpVmMode([m EXCEPT !.vfs = m.old])
                    [] OTHER                  -> IF works THEN MpVmMode([m EXCEPT !.vfs = MpLess(@, 63)])
                                                 ELSE [m EXCEPT !.vfs = 0]
    /\ UNCHANGED mp_last

MpNext == \/ MpIntMode \/ MpMq \/ MpDca \/ MpRss \/ MpVmdq \/ MpMaxVfs \/ MpL2
          \/ MpThrottle \/ MpLli \/ MpFdir \/ MpFcoe \/ MpLast \/ MpEnableSriov

MpSpec == MpInit /\ [][MpNext]_mpVars

-----------------------------------------------------------------------------
\* Whatever was given, and in whatever combination, the options read so far fit together:
\* several queues only with MSI-X, pools and VFs only with several queues, VFs only on a
\* port that has them, and the SR-IOV flag exactly when there are VFs to create.
MpInterop ==
    mp.at \in 7..(Len(MpOrder) + 1) =>
      /\ "MQ_CAPABLE" \in mp.flags => "MSIX_CAPABLE" \in mp.flags
      /\ mp.rss \in 1..16 /\ (mp.rss > 1 => "MQ_CAPABLE" \in mp.flags)
      /\ "VMDQ_ENABLED" \in mp.flags <=> mp.vmdq > 1
      /\ "VMDQ_ENABLED" \in mp.flags => "MQ_CAPABLE" \in mp.flags
      /\ "SRIOV_ENABLED" \in mp.flags <=> mp.vfs > 0
      /\ mp.vfs > 0 => {"MQ_CAPABLE", "SRIOV_CAPABLE"} \subseteq mp.flags

\* A plain option stores the value given when that is in its range and its default
\* otherwise, so nothing out of range ever reaches the rest of the driver.
MpDefaulted ==
    mp_last.opt \in DOMAIN MpTable /\ ~(mp.mac = "82598" /\ mp_last.got = 0) =>
      LET o == MpTable[mp_last.opt]
          g == mp_last.given
      IN mp_last.got = IF g # <<>> /\ MpValid(o, g[1]) THEN g[1] ELSE o.def

\* A port that has VFs after the probe is in VM mode, with a pool of its own above theirs.
MpVfsUsable ==
    mp.at > Len(MpOrder) + 1 /\ mp.vfs > 0 =>
      /\ {"SRIOV_ENABLED", "VMDQ_ENABLED"} \subseteq mp.flags
      /\ mp.vmdq >= 1
      /\ mp.offset = mp.vfs

\* The three about ixgbe_check_options: the options fit together, what is
\* out of range becomes the default, and VFs have what they need.
MpSafe ==
  /\ MpInterop
  /\ MpDefaulted
  /\ MpVfsUsable
=============================================================================
