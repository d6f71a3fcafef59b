---------------------------- MODULE InterruptRate ----------------------------
(***************************************************************************)
(* Interrupt moderation: the adaptive rate (ixgbe_set_itr), ethtool's      *)
(* coalescing settings, receive side coalescing (RSC), which needs a low   *)
(* enough rate, and the write-back threshold of the transmit queues, which *)
(* is only programmed when the port is configured.  Vectors are one mixed  *)
(* "rxtx" vector or an "rx" and a "tx" one.                                *)
(***************************************************************************)
EXTENDS Integers

CONSTANTS
  ItUsecs,    \* rx-usecs and tx-usecs a user may set
  ItRates,    \* bytes per microsecond a poll may see, 0: no packets
  ItMaxOps,   \* bound on user operations
  ItMaxPolls  \* bound on polls

ASSUME ItAssumption == ItUsecs \cup ItRates \subseteq Nat /\ {ItMaxOps, ItMaxPolls} \subseteq Nat

VARIABLES
  it_cfg,     \* [mixed, bql, capable (RSC_CAPABLE)]
  it_set,     \* [rx, tx]: rx_itr_setting, tx_itr_setting
  it_lro,     \* NETIF_F_LRO
  it_rsc,     \* [flag (RSC_ENABLED), hw (what the port was configured with)]
  it_vec,     \* vector -> [itr, rxc, txc (latency classes 0..2), w (WTHRESH)]
  it_ops, it_polls

itVars == <<it_cfg, it_set, it_lro, it_rsc, it_vec, it_ops, it_polls>>

IXGBE_MIN_RSC_ITR == 24
IXGBE_100K_ITR == 40
IXGBE_20K_ITR == 200
IXGBE_10K_ITR == 400
IXGBE_8K_ITR == 500
IXGBE_MAX_EITR == 4088

ItVectors == IF it_cfg.mixed THEN {"rxtx"} ELSE {"rx", "tx"}

(* q_vector->itr for the settings s *)
ItParam(v, s) ==
  IF v = "tx" THEN IF s.tx = 1 THEN IXGBE_10K_ITR ELSE s.tx
              ELSE IF s.rx = 1 THEN IXGBE_20K_ITR ELSE s.rx

ItWthresh(itr) == IF itr < (IF it_cfg.bql THEN IXGBE_100K_ITR ELSE 8) THEN 1 ELSE 8

ItSlowEnough(rx) == rx = 1 \/ rx > IXGBE_MIN_RSC_ITR

ItInit ==
  /\ it_cfg \in [mixed : BOOLEAN, bql : BOOLEAN, capable : BOOLEAN]
  /\ it_set = [rx |-> 1, tx |-> 1] /\ it_lro \in BOOLEAN /\ it_ops = 0 /\ it_polls = 0
  /\ it_rsc = [flag |-> it_lro /\ it_cfg.capable, hw |-> it_lro /\ it_cfg.capable]
  /\ it_vec = [v \in ItVectors |-> [itr |-> ItParam(v, it_set), rxc |-> 0, txc |-> 0,
                                    w |-> ItWthresh(ItParam(v, it_set))]]

(* ixgbe_do_reset: the rings are configured again from the current values. *)
ItReconfigure(vec, rsc, reset) ==
  IF reset THEN /\ it_vec' = [v \in ItVectors |-> [vec[v] EXCEPT !.w = ItWthresh(vec[v].itr)]]
                /\ it_rsc' = [flag |-> rsc, hw |-> rsc]
           ELSE it_vec' = vec /\ it_rsc' = [it_rsc EXCEPT !.flag = rsc]

-----------------------------------------------------------------------------
ItClass(class, rate) ==     \* ixgbe_update_itr
  CASE class = 0 -> IF rate > 10 THEN 1 ELSE 0
    [] class = 1 -> IF rate > 20 THEN 2 ELSE IF rate <= 10 THEN 0 ELSE 1
    [] OTHER -> IF rate <= 20 THEN 1 ELSE 2

ItUpdate(class, rate, itr) == IF rate = 0 \/ itr \div 4 = 0 THEN class ELSE ItClass(class, rate)

ItSmooth(new, itr) == (10 * new * itr) \div (9 * new + itr)

(* The end of ixgbe_poll in adaptive mode: ixgbe_set_itr. *)
ItPoll ==
  \E v \in ItVectors, rx, tx \in ItRates :
    LET o == it_vec[v]
        rxc == IF v = "tx" THEN o.rxc ELSE ItUpdate(o.rxc, rx, o.itr)
        txc == IF v = "rx" THEN o.txc ELSE ItUpdate(o.txc, tx, o.itr)
        class == IF rxc > txc THEN rxc ELSE txc
        new == CASE class = 0 -> IXGBE_100K_ITR [] class = 1 -> IXGBE_20K_ITR
                 [] OTHER -> IXGBE_8K_ITR
    IN  /\ it_set.rx = 1 /\ it_polls < ItMaxPolls /\ it_polls' = it_polls + 1
        /\ it_vec' = [it_vec EXCEPT ![v] = [o EXCEPT !.rxc = rxc, !.txc = txc,
                        !.itr = IF new # @ THEN ItSmooth(new, @) ELSE @]]
        /\ UNCHANGED <<it_cfg, it_set, it_lro, it_rsc, it_ops>>

-----------------------------------------------------------------------------
(* ixgbe_update_rsc, called with the new setting already stored. *)
ItRscWanted(new) == ItSlowEnough(new)

ItSetting(usecs) == IF usecs > 1 THEN usecs * 4 ELSE usecs

(* need_reset for TXDCTL.WTHRESH, only looked for with BQL *)
ItThreshChanges(prev, new) ==
  /\ it_cfg.bql
  /\ IF new > 1 /\ new < IXGBE_100K_ITR THEN prev = 1 \/ prev > IXGBE_100K_ITR
                                        ELSE prev > 1 /\ prev < IXGBE_100K_ITR

ItSetCoalesce ==
  \E rx, tx \in ItUsecs :
    LET first == [rx |-> ItSetting(rx), tx |-> ItSetting(tx)]
        prev == IF it_cfg.mixed THEN it_set.rx ELSE it_set.tx
        set == IF it_cfg.mixed THEN [first EXCEPT !.tx = first.rx] ELSE first
        rsc == IF it_cfg.capable /\ it_lro THEN ItRscWanted(set.rx) ELSE it_rsc.flag
    IN  /\ it_ops < ItMaxOps /\ it_ops' = it_ops + 1
        /\ ~(it_cfg.mixed /\ tx # 0) /\ rx <= IXGBE_MAX_EITR \div 4 /\ tx <= IXGBE_MAX_EITR \div 4
        /\ it_set' = set
        /\ ItReconfigure([v \in ItVectors |-> [it_vec[v] EXCEPT !.itr = ItParam(v, first)]],
                         rsc, ItThreshChanges(prev, set.tx) \/ rsc # it_rsc.flag)
        /\ UNCHANGED <<it_cfg, it_lro, it_polls>>

(* ixgbe_set_features, LRO switched; the stack stores the feature. *)
ItSetFeatures ==
  /\ it_ops < ItMaxOps /\ it_ops' = it_ops + 1 /\ it_lro' = ~it_lro
  /\ LET rsc == IF it_lro THEN FALSE ELSE it_rsc.flag \/ (it_cfg.capable /\ ItSlowEnough(it_set.rx))
     IN  ItReconfigure(it_vec, rsc, rsc # it_rsc.flag)
  /\ UNCHANGED <<it_cfg, it_set, it_polls>>

ItReset ==     \* any other reset of the port
  /\ it_ops < ItMaxOps /\ it_ops' = it_ops + 1 /\ ItReconfigure(it_vec, it_rsc.flag, TRUE)
  /\ UNCHANGED <<it_cfg, it_set, it_lro, it_polls>>

ItNext == ItPoll \/ ItSetCoalesce \/ ItSetFeatures \/ ItReset
ItSpec == ItInit /\ [][ItNext]_itVars

-----------------------------------------------------------------------------
(* The port coalesces received frames exactly when LRO is on, the controller
   can and the interrupt rate is low enough: no order of rx-usecs changes and
   LRO switches leaves the port with what an earlier setting asked for
   (ixgbe_update_rsc, ixgbe_set_features). *)
ItRscRight ==
  /\ it_rsc.flag = (it_lro /\ it_cfg.capable /\ ItSlowEnough(it_set.rx))
  /\ it_rsc.hw = it_rsc.flag

(* The smoothed adaptive rate of a receive vector stays between the slowest
   and the fastest target, so the measured time slice is never zero, which
   would end adaptation for good (ixgbe_update_itr, ixgbe_set_itr). *)
ItAdapts ==
  it_set.rx = 1 => \A v \in ItVectors \ {"tx"} : it_vec[v].itr \in IXGBE_100K_ITR..IXGBE_8K_ITR

\* Both: coalescing follows the settings, and the adaptive rate never gets
\* stuck.
ItSafe ==
  /\ ItRscRight
  /\ ItAdapts
=============================================================================
