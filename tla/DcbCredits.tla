----------------------------- MODULE DcbCredits -----------------------------
(***************************************************************************)
(* From shares of the bandwidth to the credit registers of the arbiters:   *)
(* ixgbe_dcb_calculate_tc_credits and ixgbe_dcb_calculate_tc_credits_cee   *)
(* in ixgbe_dcb.c, the arbiters of ixgbe_dcb_82598.c and                   *)
(* ixgbe_dcb_82599.c, and the places that recompute the credits because    *)
(* the largest frame changed.  A register is the set of its bits: an OR of *)
(* fields is a union.                                                      *)
(***************************************************************************)
EXTENDS Integers, FiniteSets, FiniteSetsExt

CONSTANTS
    DcMacs,     \* MAC types
    DcClasses,  \* number of traffic classes
    DcGroups,   \* number of bandwidth groups
    DcPcts,     \* shares of a class in its group, in percent
    DcBws,      \* shares of a group in the link, in percent
    DcMtus

ASSUME DcAssumption ==
    /\ DcClasses \in Nat \ {0} /\ DcGroups \in 1 .. 8
    /\ DcPcts \cup DcBws \subseteq 0 .. 100 /\ DcMtus \subseteq 68 .. 9710

VARIABLES dc    \* configuration, largest frame and credit registers

DcTcs == 0 .. DcClasses - 1

\* IXGBE_DCB_CREDIT_QUANTUM, _MAX_CREDIT_REFILL, _MAX_CREDIT, _MIN_TSO_CREDIT,
\* IXGBE_FCOE_JUMBO_FRAME_SIZE
DcQuantum == 64
DcMaxRefill == 200
DcMaxCredit == 400
DcTsoCredit == 513
DcFcoeFrame == 3072

DcMtuFrame(s) == s.mtu + 18
DcFrame(s) == IF s.fcoe THEN Max({DcMtuFrame(s), DcFcoeFrame}) ELSE DcMtuFrame(s)

\* credits for half of the largest frame
DcMinCredit(frame) == (frame \div 2 + DcQuantum - 1) \div DcQuantum

-----------------------------------------------------------------------------

DcMultiplier(frame, pcts) ==
    DcMinCredit(frame) \div Min({100} \cup {p \in pcts : p # 0}) + 1

DcCap(refill) == Min({refill, DcMaxRefill})

\* ixgbe_dcb_calculate_tc_credits: [refill, max] of each class
DcEtsCredits(s, frame) ==
    LET mult == DcMultiplier(frame, {s.tc[t].pct : t \in DcTcs})
    IN  [t \in DcTcs |->
            [refill |-> Max({DcCap(s.tc[t].pct * mult), DcMinCredit(frame)}),
             max |-> IF s.tc[t].pct # 0 THEN (s.tc[t].pct * DcMaxCredit) \div 100
                     ELSE DcMinCredit(frame)]]

\* the maximum is raised to one frame, and to one TSO packet on the 82598
DcRaised(s, max, frame) ==
    CASE max = 0 -> 0
      [] max # 0 /\ s.mac = "82598" -> Max({max, DcMinCredit(frame), DcTsoCredit})
      [] OTHER -> Max({max, DcMinCredit(frame)})

\* ixgbe_dcb_calculate_tc_credits_cee, for transmission
DcLink(s, t) == (s.tc[t].pct * s.bw[s.tc[t].bwg]) \div 100
DcLinkPercent(s, t) == IF s.tc[t].pct > 0 /\ DcLink(s, t) = 0 THEN 1 ELSE DcLink(s, t)
DcCeeCredits(s, frame) ==
    LET mult == DcMultiplier(frame, {DcLink(s, t) : t \in DcTcs})
    IN  [t \in DcTcs |->
            [refill |-> DcCap(DcLinkPercent(s, t) * mult),
             max |-> DcRaised(s, (DcLinkPercent(s, t) * DcMaxCredit) \div 100, frame)]]

-----------------------------------------------------------------------------
DcField(v, shift) == {b + shift : b \in {n \in 0 .. 15 : (v \div 2 ^ n) % 2 = 1}}
DcRead(reg, low, high) ==
    FoldSet(LAMBDA b, v : v + 2 ^ (b - low), 0, {b \in reg : b >= low /\ b <= high})

DcCommon(credit, bwg, strict) ==
    DcField(credit.refill, 0) \cup DcField(bwg, 9) \cup DcField(credit.max, 12)
    \cup (IF strict THEN {31} ELSE {})

\* the three arbiters; the 82598 receives without groups
DcArbiters82598(s, credits, bwg) ==
    [t \in DcTcs |->
        [rx |-> DcCommon(credits[t], 0, s.tc[t].strict),
         tx |-> DcCommon(credits[t], bwg[t], s.tc[t].strict)]]

DcArbiters82599(s, credits, bwg) ==
    [t \in DcTcs |->
        [rx |-> DcCommon(credits[t], bwg[t], s.tc[t].strict),
         tx |-> DcCommon(credits[t], bwg[t], s.tc[t].strict)]]

\* ixgbe_dcb_hw_config
DcHwConfig(s, credits, bwg) ==
    [s EXCEPT !.on = TRUE,
              !.regs = IF s.mac = "82598" THEN DcArbiters82598(s, credits, bwg)
                       ELSE DcArbiters82599(s, credits, bwg)]

DcHwCee(s) == DcHwConfig(s, DcCeeCredits(s, DcFrame(s)), [t \in DcTcs |-> s.tc[t].bwg])

\* ixgbe_dcb_hw_ets: each class is a group of its own
DcHwEts(s, frame) == DcHwConfig(s, DcEtsCredits(s, frame), [t \in DcTcs |-> t])

\* ixgbe_configure_dcb
DcConfigure(s) ==
    CASE ~s.on -> s
      [] s.on /\ s.ieee -> DcHwEts(s, DcFrame(s))
      [] OTHER -> DcHwCee(s)

-----------------------------------------------------------------------------
DcInitFor(mac, ieee, tc, bw) ==
    dc = [mac |-> mac, ieee |-> ieee, tc |-> tc, bw |-> bw, mtu |-> 1500, fcoe |-> FALSE,
          on |-> FALSE, regs |-> [t \in DcTcs |-> [rx |-> {}, tx |-> {}]]]

DcInit ==
    \E mac \in DcMacs, ieee \in BOOLEAN,
       tc \in [DcTcs -> [bwg : 0 .. DcGroups - 1, pct : DcPcts, strict : {FALSE}]],
       bw \in [0 .. DcGroups - 1 -> DcBws] : DcInitFor(mac, ieee, tc, bw)

\* ixgbe_dcbnl_set_all with a change of the groups, ixgbe_dcbnl_ieee_setets
DcSetAll == ~dc.ieee /\ dc' = DcHwCee(dc)
DcSetEts == dc.ieee /\ dc' = DcHwEts(dc, DcMtuFrame(dc))

\* ixgbe_dcbnl_set_pg_tc_cfg_tx: a class becomes link strict
DcStrict(t) == ~dc.tc[t].strict /\ ~dc.on /\ dc' = [dc EXCEPT !.tc[t].strict = TRUE]

\* ixgbe_change_mtu and the change of the FCoE MTU set the port up again.
DcResized(s) == DcConfigure(s)
DcChangeMtu(mtu) == mtu # dc.mtu /\ dc' = DcResized([dc EXCEPT !.mtu = mtu])
DcFcoe == dc' = DcResized([dc EXCEPT !.fcoe = ~@])

DcNext ==
    \/ DcSetAll \/ DcSetEts \/ DcFcoe
    \/ \E t \in DcTcs : DcStrict(t)
    \/ \E mtu \in DcMtus : DcChangeMtu(mtu)

DcSpec == DcInit /\ [][DcNext]_dc

-----------------------------------------------------------------------------
DcRefill(t) == DcRead(dc.regs[t].tx, 0, 8)
DcMax(t) == DcRead(dc.regs[t].tx, 12, 23)

\* In CEE mode a class with a share gets, at each refill, credits for half of
\* the largest frame the interface may send now, and may save up at least
\* that, after any change of MTU and of FCoE ("It is required that the refill
\* credits must be larger than the max frame size" in
\* ixgbe_dcb_calculate_tc_credits_cee).  A class whose share of the link is
\* below one percent is only promised the second.
DcEnough ==
    dc.on /\ ~dc.ieee =>
        \A t \in DcTcs : dc.tc[t].pct > 0 =>
            /\ DcLink(dc, t) > 0 => DcRefill(t) >= DcMinCredit(DcFrame(dc))
            /\ DcMax(t) >= DcMinCredit(DcFrame(dc))
            /\ dc.mac = "82598" => DcMax(t) >= DcTsoCredit

\* In IEEE mode classes whose refill is not at its limit are refilled in the
\* ratio of their shares: lifting every refill to the minimum never favours a
\* class (ixgbe_dcb_calculate_tc_credits).
DcRatio ==
    dc.on /\ dc.ieee =>
        \A t, u \in DcTcs :
            /\ dc.tc[t].pct > 0 /\ DcRefill(t) < DcMaxRefill
            /\ dc.tc[u].pct > 0 /\ DcRefill(u) < DcMaxRefill
            => DcRefill(t) * dc.tc[u].pct = DcRefill(u) * dc.tc[t].pct

\* The fields of a credit register do not spill into one another: the
\* hardware reads the group the class was given, for every share and frame
\* (the arbiters of ixgbe_dcb_82598.c and ixgbe_dcb_82599.c).
DcFields ==
    dc.on => \A t \in DcTcs :
        /\ DcRead(dc.regs[t].tx, 9, 11) = IF dc.ieee THEN t ELSE dc.tc[t].bwg
        /\ (31 \in dc.regs[t].tx) = dc.tc[t].strict
        /\ DcRead(dc.regs[t].rx, 12, 31) = DcRead(dc.regs[t].tx, 12, 31)

\* The three about credits: enough for a frame, in the ratio of the shares,
\* and within their register fields.
DcSafe ==
  /\ DcEnough
  /\ DcRatio
  /\ DcFields
=============================================================================
