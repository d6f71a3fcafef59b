----------------------------- MODULE DcbConfig ------------------------------
(***************************************************************************)
(* Data Centre Bridging: what the DCB netlink interface asks for           *)
(* (ixgbe_dcb_nl.c), what the driver keeps, and what it puts in the        *)
(* arbiters, the priority map and the priority flow control of the port    *)
(* (ixgbe_dcb.c, ixgbe_dcb_82598.c, ixgbe_dcb_82599.c).                    *)
(*                                                                         *)
(* In CEE mode requests gather in a second copy of the configuration and   *)
(* DCB_CMD_SET_ALL carries over what differs; in IEEE mode each request    *)
(* acts at once.  The shares of bandwidth of a configuration are one       *)
(* value: DcbCredits.tla is about what becomes of them.                    *)
(***************************************************************************)
EXTENDS Naturals, FiniteSets, FiniteSetsExt, SequencesExt

CONSTANTS
    DnMacs,     \* MAC types
    DnUps,      \* number of user priorities
    DnMaxTcs,   \* IXGBE_DCB_MAX_TRAFFIC_CLASS
    DnShares,   \* the ways to share the bandwidth among the classes
    DnMaxOps    \* bound: operations

ASSUME DnAssumption ==
    /\ DnUps \in Nat \ {0} /\ DnMaxTcs \in Nat \ {0, 1} /\ DnMaxOps \in Nat
    /\ DnShares \subseteq Nat \ {0}

VARIABLES
    dn,         \* the adapter's DCB state and, in hw, the port's registers
    dn_ops

dnVars == <<dn, dn_ops>>

DnUpSet == 0 .. DnUps - 1
DnTcSet == 0 .. DnMaxTcs - 1
DnFlat == [u \in DnUpSet |-> 0]

\* hardware after a reset
DnReset == [map |-> DnFlat, share |-> 0, fc |-> "none", classes |-> {}]

\* sw_init: all priorities in class 0
DnInit ==
    /\ \E mac \in DnMacs, open \in BOOLEAN :
         LET path == [up |-> [t \in DnTcSet |-> IF t = 0 THEN DnUpSet ELSE {}], share |-> 1]
             cfg == [tx |-> path, rx |-> path, pfc |-> [t \in DnTcSet |-> FALSE],
                     mode |-> FALSE, tcs |-> DnMaxTcs]
         IN  dn = [mac |-> mac, open |-> open, dcbx |-> "cee", temp |-> cfg, cfg |-> cfg,
                   bits |-> {}, num |-> 0, on |-> FALSE, prio |-> DnFlat,
                   ets |-> [set |-> FALSE, map |-> DnFlat, share |-> 0],
                   pfc |-> [set |-> FALSE, en |-> {}],
                   fcup |-> 0, fcset |-> 0, fcclass |-> 0, early |-> FALSE, recount |-> FALSE, hw |-> DnReset]
    /\ dn_ops = 0

-----------------------------------------------------------------------------
(***************************************************************************)
(* What goes to the hardware.                                              *)
(***************************************************************************)
\* ixgbe_dcb_get_tc_from_up, ixgbe_dcb_unpack_map_cee
DnMap(c) ==
    [u \in DnUpSet |-> Max({0} \cup {t \in 1 .. DnMaxTcs - 1 : t < c.tcs /\ u \in c.tx.up[t]})]

\* ixgbe_dcb_unpack_pfc_cee
DnPfcUps(c) == {u \in DnUpSet : c.pfc[DnMap(c)[u]]}

\* ixgbe_dcb_config_pfc: the 82598 takes priority i for class i
DnConfigPfc(s, en, map) ==
    [s EXCEPT !.hw.fc = "pfc",
              !.hw.classes = IF s.mac = "82598" THEN en \cap DnTcSet ELSE {map[u] : u \in en}]

\* mac.ops.fc_enable: flow control of the whole link
DnFcEnable(s) == [s EXCEPT !.hw.fc = "link", !.hw.classes = {}]

\* the arbiters: priority map (fixed on the 82598) and credits
DnArbiters(s, map, share) ==
    [s EXCEPT !.hw.map = IF s.mac = "82598" THEN @ ELSE map, !.hw.share = share]

\* ixgbe_dcb_hw_config_cee
DnHwCee(s) ==
    LET a == DnArbiters(s, DnMap(s.cfg), s.cfg.tx.share)
    IN  IF s.cfg.mode THEN DnConfigPfc(a, DnPfcUps(s.cfg), DnMap(s.cfg)) ELSE a

\* ixgbe_dcb_hw_ets
DnHwEts(s) == DnArbiters(s, s.ets.map, s.ets.share)

\* ixgbe_configure_dcb, on each open and after each reset
DnConfigure(s) ==
    IF ~s.on THEN s
    ELSE IF s.dcbx # "ieee" THEN DnHwCee(s)
    ELSE LET e == IF s.ets.set THEN DnHwEts(s) ELSE s
         IN  IF s.ets.set /\ s.pfc.set THEN DnConfigPfc(e, s.pfc.en, s.ets.map) ELSE e

\* ixgbe_set_num_queues gives FCoE the class of its priority
DnScheme(s) == [s EXCEPT !.fcclass = s.prio[s.fcup], !.early = s.fcup # s.fcset]

\* ixgbe_close resets the port
DnClosed(s) == IF s.open THEN [s EXCEPT !.hw = DnReset] ELSE s
DnOpened(s) == IF s.open THEN DnConfigure(s) ELSE s

\* ixgbe_dcbnl_devreset
DnDevReset(s) == DnOpened(DnScheme(DnClosed(s)))

\* ixgbe_set_prio_tc_map
DnPrioMap(s) ==
    CASE s.dcbx = "cee" -> DnMap(s.cfg)
      [] s.dcbx # "cee" /\ s.ets.set -> s.ets.map
      [] OTHER -> DnFlat

\* ixgbe_validate_rtr looks at all the higher priorities along with each one
\* and puts priority 1 in class 0 for any that is too large.
DnRegister(map) == FoldSet(LAMBDA u, r : r + map[u] * 8 ^ u, 0, DnUpSet)
DnValidate(s, tc) ==
    LET step(map, u) ==
            IF (DnRegister(map) \div 8 ^ u) % 256 > tc /\ 1 \in DnUpSet
            THEN [map EXCEPT ![1] = 0] ELSE map
    IN  IF s.mac = "82598" THEN s
        ELSE [s EXCEPT !.hw.map = FoldLeftDomain(LAMBDA m, i : step(m, i - 1), s.hw.map,
                                                 [i \in 1 .. DnUps |-> i])]

\* ixgbe_setup_tc
DnTcAllowed(s, tc) == tc <= s.cfg.tcs /\ (s.mac = "82598" => tc >= DnMaxTcs)
DnSetupTc(s, tc) ==
    LET c == DnClosed(s)
        t == IF tc > 0
             THEN [c EXCEPT !.num = tc, !.prio = DnPrioMap(s), !.on = TRUE]
             ELSE [c EXCEPT !.num = 0, !.prio = DnFlat, !.on = FALSE,
                            !.temp.mode = FALSE, !.cfg.mode = FALSE]
    IN  IF ~DnTcAllowed(s, tc) THEN s
        ELSE [DnOpened(DnValidate(DnScheme(t), tc)) EXCEPT !.recount = FALSE]

-----------------------------------------------------------------------------
(***************************************************************************)
(* CEE.                                                                    *)
(***************************************************************************)
DnDo(s) == dn_ops < DnMaxOps /\ dn_ops' = dn_ops + 1 /\ dn' = s

\* ixgbe_dcbnl_set_pg_tc_cfg_tx, _rx and ixgbe_dcbnl_set_pg_bwg_cfg_tx, _rx
DnSetPgTx(t, ups, share) ==
    DnDo([dn EXCEPT !.temp.tx.up[t] = ups, !.temp.tx.share = share])

DnSetPgRx(t, ups, share) ==
    DnDo([dn EXCEPT !.temp.rx.up[t] = ups, !.temp.rx.share = share])

DnSetPfcCfg(u, on) ==
    LET t == DnMap(dn.temp)[u]
    IN  DnDo([dn EXCEPT !.temp.pfc[t] = on, !.temp.mode = @ \/ on # dn.cfg.pfc[t]])

DnSetPfcState(on) == DnDo([dn EXCEPT !.temp.mode = on])

\* ixgbe_dcbnl_setnumtcs
DnSetNumTcs(n) ==
    dn.on /\ DnDo([dn EXCEPT !.cfg.tcs = n, !.recount = @ \/ n # dn.cfg.tcs])

\* ixgbe_copy_dcb_cfg: what a difference between two paths asks for
DnPathBits(a, b) ==
    (IF a.up # b.up THEN {"pg", "pfc", "app"} ELSE {}) \cup
    (IF a.share # b.share THEN {"pg"} ELSE {})

DnCopyBits(s) ==
    (IF s.fcset # s.fcup THEN {"app"} ELSE {})
    \cup DnPathBits(s.cfg.tx, s.temp.tx) \cup DnPathBits(s.cfg.rx, s.temp.rx)
    \cup (IF s.cfg.pfc # s.temp.pfc \/ s.cfg.mode # s.temp.mode THEN {"pfc"} ELSE {})

\* Mutant: the map of the stack is left as it was.
DnSetPgOld(s) == DnHwCee(s)

DnSetPg(s) == [DnHwCee(s) EXCEPT !.prio = DnMap(s.cfg)]

DnSetPfcBits(s) ==
    IF s.cfg.mode THEN DnConfigPfc(s, DnPfcUps(s.cfg), DnMap(s.cfg)) ELSE DnFcEnable(s)

\* ixgbe_dcbnl_set_all
DnAll(s) ==
    LET bits == s.bits \cup DnCopyBits(s)
        a == [s EXCEPT !.cfg = [s.temp EXCEPT !.tcs = s.cfg.tcs]]
        b == IF "pg" \in bits THEN DnSetPg(a) ELSE a
        c == IF "pfc" \in bits THEN DnSetPfcBits(b) ELSE b
        d == IF "app" \in bits THEN DnDevReset([c EXCEPT !.fcset = c.fcup]) ELSE c
    IN  [d EXCEPT !.bits = {}]

DnSetAll == dn.dcbx = "cee" /\ DnDo(DnAll(dn))

\* ixgbe_dcbnl_set_state
DnSetState(on) ==
    /\ dn.dcbx = "cee" /\ on # dn.on
    /\ DnDo(DnSetupTc(dn, IF on THEN dn.cfg.tcs ELSE 0))

\* ixgbe_dcbnl_setapp, for FCoE
DnSetApp(u) == DnDo([dn EXCEPT !.fcup = u])

-----------------------------------------------------------------------------
(***************************************************************************)
(* IEEE.                                                                   *)
(***************************************************************************)
\* ixgbe_dcbnl_ieee_setets: the first request compares with the port's map,
\* or with an invalid one on the 82598; one that asks for too many classes is
\* kept although it is refused.
DnEts(s, map, share) ==
    LET same == CASE s.ets.set -> s.ets.map = map
                  [] ~s.ets.set -> s.mac # "82598" /\ s.hw.map = map
        top == Max({map[u] : u \in DnUpSet})
        tcs == IF top = 0 THEN 0 ELSE top + 1
        a == [s EXCEPT !.ets = [set |-> TRUE, map |-> map, share |-> share]]
    IN  CASE tcs > s.cfg.tcs -> a
          [] tcs <= s.cfg.tcs /\ tcs # s.num ->
               IF DnTcAllowed(a, tcs) THEN DnHwEts(DnSetupTc(a, tcs)) ELSE a
          [] OTHER -> DnHwEts(IF same THEN a ELSE DnDevReset(a))

DnSetEts(map, share) == dn.dcbx = "ieee" /\ DnDo(DnEts(dn, map, share))

\* ixgbe_dcbnl_ieee_setpfc
DnPfc(s, en) ==
    LET a == [s EXCEPT !.pfc = [set |-> TRUE, en |-> en]]
    IN  IF en # {} THEN DnConfigPfc(a, en, a.ets.map) ELSE DnFcEnable(a)

DnSetPfc(en) == dn.dcbx = "ieee" /\ DnDo(DnPfc(dn, en))

\* ixgbe_dcbnl_ieee_setapp and ixgbe_dcbnl_ieee_delapp, for FCoE: the stack's
\* table may still hold the priority in use, or another one.
DnIeeeSetApp(u) ==
    /\ dn.dcbx = "ieee"
    /\ DnDo(DnDevReset([dn EXCEPT !.fcup = u, !.fcset = u]))

DnIeeeDelApp(u) ==
    dn.dcbx = "ieee" /\ DnDo(DnDevReset([dn EXCEPT !.fcup = u]))

\* ixgbe_dcbnl_setdcbx
DnSetDcbx(mode) ==
    LET s == [dn EXCEPT !.dcbx = mode]
    IN  /\ mode # dn.dcbx
        /\ DnDo(CASE mode = "ieee" -> DnPfc(DnEts(s, DnFlat, 0), {})
                  [] mode = "cee" -> DnAll([s EXCEPT !.bits = {"pfc", "pg", "app"}])
                  [] mode = "none" -> DnSetupTc(s, 0))

-----------------------------------------------------------------------------
(***************************************************************************)
(* The interface and the link.                                             *)
(***************************************************************************)
DnOpen == ~dn.open /\ DnDo(DnConfigure([dn EXCEPT !.open = TRUE]))
DnClose == dn.open /\ DnDo([dn EXCEPT !.open = FALSE, !.hw = DnReset])
DnReinit == dn.open /\ DnDo(DnConfigure(DnClosed(dn)))

DnPfcWanted(s) == s.on /\ (s.cfg.mode \/ s.pfc.en # {})

\* ixgbe_watchdog_update_link, when the link is up
DnLinkUp == dn.open /\ DnDo(IF DnPfcWanted(dn) THEN dn ELSE DnFcEnable(dn))

DnNext ==
    \/ \E t \in DnTcSet, ups \in SUBSET DnUpSet, share \in DnShares :
         DnSetPgTx(t, ups, share) \/ DnSetPgRx(t, ups, share)
    \/ \E u \in DnUpSet, on \in BOOLEAN : DnSetPfcCfg(u, on)
    \/ \E on \in BOOLEAN : DnSetPfcState(on) \/ DnSetState(on)
    \/ \E n \in 1 .. DnMaxTcs : DnSetNumTcs(n)
    \/ \E u \in DnUpSet : DnSetApp(u) \/ DnIeeeSetApp(u) \/ DnIeeeDelApp(u)
    \/ \E map \in [DnUpSet -> DnTcSet], share \in DnShares : DnSetEts(map, share)
    \/ \E en \in SUBSET DnUpSet : DnSetPfc(en)
    \/ \E mode \in {"cee", "ieee", "none"} : DnSetDcbx(mode)
    \/ DnSetAll \/ DnOpen \/ DnClose \/ DnReinit \/ DnLinkUp

DnSpec == DnInit /\ [][DnNext]_dnVars

-----------------------------------------------------------------------------
DnInForce == dn.open /\ dn.on /\ dn.dcbx = "cee" /\ ~dn.recount

\* While DCB is on in CEE mode, the port and the stack both map priorities to
\* classes as the configuration says and the port shares the bandwidth so,
\* across resets, changes of protocol and requests made while the interface
\* is down (ixgbe_dcbnl_set_all, ixgbe_configure_dcb).  Not after the number
\* of classes was changed by itself, which nothing carries to the port.
DnMapHolds ==
    DnInForce => /\ dn.prio = DnMap(dn.cfg) /\ dn.hw.share = dn.cfg.tx.share
                 /\ dn.mac # "82598" => dn.hw.map = DnMap(dn.cfg)

\* While priority flow control is on in CEE mode, exactly the classes of the
\* priorities it was asked for send pause frames, and the link coming up does
\* not replace it by flow control of the whole link (ixgbe_dcb_config_pfc,
\* ixgbe_watchdog_update_link).
DnPfcHolds ==
    DnInForce /\ dn.cfg.mode =>
        /\ dn.hw.fc = "pfc"
        /\ dn.mac # "82598" => dn.hw.classes = {DnMap(dn.cfg)[u] : u \in DnPfcUps(dn.cfg)}

\* FCoE uses the rings of the class its priority is in, once a change of the
\* priority was carried over (BIT_APP_UPCHG in ixgbe_copy_dcb_cfg and
\* ixgbe_dcbnl_set_all).  Not when the rings were laid out for a priority
\* that was asked for and taken back before it was carried over: nothing
\* tells that from no change.
DnFcoeFollows ==
    ~dn.recount /\ ~dn.early /\ dn.fcup = dn.fcset => dn.fcclass = dn.prio[dn.fcup]

\* The three about DCB in force: priorities, pause frames and FCoE follow
\* the configuration, on the port and in the stack.
DnSafe ==
  /\ DnMapHolds
  /\ DnPfcHolds
  /\ DnFcoeFollows
=============================================================================
