----------------------------- MODULE FlowControl -----------------------------
(***************************************************************************)
(* Link flow control: what the port advertises (ixgbe_setup_fc), what is   *)
(* negotiated when a link comes up (ixgbe_fc_enable_generic and _82598),   *)
(* the packet buffers and water marks (ixgbe_configure_pb) and ethtool -A. *)
(* A mode is a set of "rx" (obey pause frames) and "tx" (send them); an    *)
(* advertisement a set of the bits "sym" and "asm".                        *)
(***************************************************************************)
EXTENDS Integers

CONSTANTS
  FcBoards,    \* [mac, media, ee, autoneg]: cards, the pause bits of their EEPROM,
               \* and whether a copper PHY negotiates flow control
  FcMtus,      \* MTUs
  FcTcs,       \* numbers of traffic classes
  FcHeadrooms, \* KB of packet buffer the flow director takes
  FcMaxOps     \* bound on requests and link changes

VARIABLES
  fc_board,
  fc,          \* hw->fc: requested, current, was (autonegged), off (autoneg disabled), high, low
  fc_adv,      \* the advertisement on the wire
  fc_link,     \* [speed, lp (partner's bits), an (negotiation completed)]
  fc_cfg,      \* [mtu, tcs, hdrm] in force
  fc_reg,      \* [rfce, tfce, low, high, drop]: MFLCN, FCCFG, FCRTL, FCRTH, SRRCTL
  fc_fresh,    \* fc_enable succeeded for this link
  fc_ops

fcVars == <<fc_board, fc, fc_adv, fc_link, fc_cfg, fc_reg, fc_fresh, fc_ops>>

FcFull == {"rx", "tx"}
FcOff == [rfce |-> FALSE, tfce |-> FALSE, low |-> 0, high |-> 0, drop |-> FALSE]

-----------------------------------------------------------------------------
(* The packet buffer of one class in KB: ixgbe_set_rxpba_generic and _82598,
   in equal shares. *)
FcBuffer(mac, tcs, hdrm) ==
  IF mac = "82598" THEN (IF tcs = 0 THEN 512 ELSE 64)
  ELSE ((IF mac = "X540" THEN 384 ELSE 512) - hdrm) \div (IF tcs = 0 THEN 1 ELSE tcs)

FcBits(bytes) == bytes * 8
FcKb(bits) == (bits + 8191) \div 8192

(* IXGBE_DV, IXGBE_LOW_DV: the data in flight when a pause frame is sent, and
   the data that arrives while a descriptor is fetched. *)
FcDelay(mac, link, tc) ==
  LET interface == IF mac = "X540" THEN 37888 ELSE 18944
  IN  (36 * (FcBits(link) + 672 + 2 * 5556 + 2 * interface + 6144)) \div 25 + 1 + 2 * FcBits(tc)
FcLowDelay(mac, tc) ==
  (IF mac = "X540" THEN 1 ELSE 2) * (2 * FcBits(tc) + 14400 + 1)

(* ixgbe_hpbthresh: without room for the delay, the frame size plus one. *)
FcHigh(mac, mtu, tcs, hdrm) ==
  LET frame == mtu + 14 + 4 + 20
      marker == FcBuffer(mac, tcs, hdrm) - FcKb(FcDelay(mac, frame, frame))
  IN  IF marker < 0 THEN frame + 1 ELSE marker
FcLow(mac, mtu) == FcKb(FcLowDelay(mac, mtu + 14 + 4))     \* ixgbe_lpbthresh

(* ixgbe_pbthresh_setup *)
FcLowMark(low, high) == IF low > high THEN 0 ELSE low

FcMarks(f, c) ==
  LET high == FcHigh(fc_board.mac, c.mtu, c.tcs, c.hdrm)
  IN  [f EXCEPT !.high = high, !.low = FcLowMark(FcLow(fc_board.mac, c.mtu), high)]

-----------------------------------------------------------------------------
FcPause(mode) ==       \* ixgbe_setup_fc: Rx only is advertised as full
  IF mode = {} THEN {} ELSE IF mode = {"tx"} THEN {"asm"} ELSE {"sym", "asm"}

(* What ixgbe_setup_fc leaves on the wire.  On an 82599 backplane the pipeline
   reset writes cached_autoc, as read after the MAC reset, over the new bits;
   a copper PHY that does not negotiate keeps its own. *)
FcAdvertised(mode, old) ==
  CASE fc_board.media = "backplane" /\ fc_board.mac = "82599" -> fc_board.ee
    [] fc_board.media = "copper" /\ ~fc_board.autoneg -> old
    [] OTHER -> FcPause(mode)

FcResolveGreedy(req, adv, lp) == IF "sym" \in adv \cap lp THEN FcFull ELSE {}
FcResolve(req, adv, lp) ==     \* ixgbe_negotiate_fc
  IF "sym" \in adv \cap lp THEN (IF req = FcFull THEN FcFull ELSE {"rx"})
  ELSE IF adv = {"asm"} /\ lp = {"sym", "asm"} THEN {"tx"}
  ELSE IF adv = {"sym", "asm"} /\ lp = {"asm"} THEN {"rx"}
  ELSE {}

(* ixgbe_fc_autoneg bails out, and the request counts, on a fiber at 10G, a
   copper PHY without support, or an unfinished negotiation. *)
FcNegotiates ==
  /\ ~fc.off /\ fc_link.an
  /\ fc_board.media = "fiber" => fc_link.speed = "1G"
  /\ fc_board.media = "copper" => fc_board.autoneg

(* On an 82598 at 1G a request to obey pause frames is dropped, for good. *)
FcRequest(f) ==
  IF fc_board.mac = "82598" /\ fc_link.speed = "1G" THEN f.requested \ {"rx"} ELSE f.requested

FcMarksBad(f) == "tx" \in f.current /\ f.high # 0 /\ (f.low = 0 \/ f.low >= f.high)

FcDrop(new) == "tx" \notin new.current     \* ixgbe_set_rx_drop_en, several queues

(* ixgbe_watchdog_update_link on a link that is up: fc_enable, then the drop
   bits.  fc_enable checks the water marks against the mode of the last time. *)
FcEnable ==
  LET req == FcRequest(fc)
      mode == IF FcNegotiates THEN FcResolve(req, fc_adv, fc_link.lp) ELSE req
      new == [fc EXCEPT !.requested = req, !.current = mode, !.was = FcNegotiates]
      tx == "tx" \in mode
  IN  /\ fc_link.speed # "down" /\ ~fc_fresh
      /\ IF FcMarksBad(fc)
           THEN fc_reg' = [fc_reg EXCEPT !.drop = FcDrop(fc)] /\ UNCHANGED <<fc, fc_fresh>>
           ELSE /\ fc' = new /\ fc_fresh' = TRUE
                /\ fc_reg' = [rfce |-> "rx" \in mode, tfce |-> tx, low |-> IF tx THEN fc.low ELSE 0,
                              high |-> IF tx THEN fc.high ELSE 0, drop |-> FcDrop(new)]
      /\ UNCHANGED <<fc_board, fc_adv, fc_link, fc_cfg, fc_ops>>

-----------------------------------------------------------------------------
FcInit ==     \* ixgbe_sw_init; the first reset and ixgbe_open have been done
  /\ fc_board \in FcBoards /\ fc_cfg = [mtu |-> 1500, tcs |-> 0, hdrm |-> 0]
  /\ fc = FcMarks([requested |-> FcFull, current |-> FcFull, was |-> FALSE, off |-> FALSE,
                   high |-> 0, low |-> 0], fc_cfg)
  /\ fc_adv = FcAdvertised(FcFull, fc_board.ee)
  /\ fc_link = [speed |-> "down", lp |-> {}, an |-> FALSE] /\ fc_reg = FcOff
  /\ fc_fresh = FALSE /\ fc_ops = 0

(* ixgbe_reinit_locked with the settings f: registers start over, the port
   advertises, buffers and marks are computed; the link comes back later. *)
FcReinit(f, c) ==
  /\ fc_ops < FcMaxOps /\ fc_ops' = fc_ops + 1
  /\ fc' = FcMarks(f, c) /\ fc_cfg' = c
  /\ fc_adv' = FcAdvertised(f.requested, fc_adv)
  /\ fc_link' = [fc_link EXCEPT !.speed = "down"] /\ fc_reg' = FcOff /\ fc_fresh' = FALSE
  /\ UNCHANGED fc_board

FcReconfigure ==     \* a new MTU, number of classes or flow director memory
  \E mtu \in FcMtus, tcs \in FcTcs, hdrm \in FcHeadrooms : 
    FcReinit(fc, [mtu |-> mtu, tcs |-> tcs, hdrm |-> hdrm])

(* ixgbe_device_supports_autoneg_fc *)
FcSupported ==
  \/ fc_board.media = "backplane" \/ (fc_board.media = "copper" /\ fc_board.autoneg)
  \/ fc_board.media = "fiber" /\ fc_link.speed # "10G"

(* ixgbe_set_pauseparam, on a running port. *)
FcSetPause(autoneg, mode) ==
  LET f == [fc EXCEPT !.off = ~autoneg, !.requested = IF autoneg THEN FcFull ELSE mode]
  IN  (autoneg => FcSupported) /\ f # fc /\ FcReinit(f, fc_cfg)

FcLinkChanges ==     \* the cable, the partner and its advertisement (external)
  /\ fc_ops < FcMaxOps /\ fc_ops' = fc_ops + 1
  /\ \E s \in {"down", "1G", "10G"}, lp \in SUBSET {"sym", "asm"}, an \in BOOLEAN :
       fc_link' = [speed |-> s, lp |-> lp, an |-> an]
  /\ fc_fresh' = FALSE /\ UNCHANGED <<fc_board, fc, fc_adv, fc_cfg, fc_reg>>

FcNext ==
  \/ FcEnable \/ FcReconfigure \/ FcLinkChanges
  \/ \E autoneg \in BOOLEAN, mode \in SUBSET FcFull : FcSetPause(autoneg, mode)

FcSpec == FcInit /\ [][FcNext]_fcVars

-----------------------------------------------------------------------------
(* A port that negotiated sends pause frames only to a partner that obeys
   them by the 802.3 resolution of the two advertisements, and obeys when the
   partner may send (ixgbe_negotiate_fc). *)
FcAgreed ==
  fc_fresh /\ fc.was =>
    LET both == "sym" \in fc_adv \cap fc_link.lp
    IN  /\ fc_reg.tfce => both \/ (fc_adv = {"asm"} /\ fc_link.lp = {"sym", "asm"})
        /\ both \/ (fc_adv = {"sym", "asm"} /\ fc_link.lp = {"asm"}) => fc_reg.rfce

(* On every link that was set up a full receive queue either drops or pauses
   the partner, never both and never neither (ixgbe_set_rx_drop_en). *)
FcBlocks == fc_fresh => fc_reg.drop = ~fc_reg.tfce

(* The water marks fc_enable is given are ordered for every MTU, number of
   classes and headroom, or the low one is marked unusable. *)
FcMarksOrdered == fc.low <= fc.high

\* The three about pause frames: what is enabled is what both partners
\* agreed to, a full queue drops or pauses, and the marks are ordered.
FcSafe ==
  /\ FcAgreed
  /\ FcBlocks
  /\ FcMarksOrdered
=============================================================================
