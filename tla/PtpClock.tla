------------------------------- MODULE PtpClock -------------------------------
(***************************************************************************)
(* The IEEE 1588 clock and the packet time stamps of ixgbe_ptp.c.          *)
(*                                                                         *)
(* SYSTIME is a free-running register that wraps; the kernel's timecounter *)
(* turns it into nanoseconds by adding up what it advanced since the last  *)
(* reading.  The port holds at most one transmit and one receive stamp,    *)
(* each latched until the high half of its register is read.               *)
(*                                                                         *)
(* Time is counted in ticks, in each of which the service task runs once   *)
(* (its timer fires every two seconds).  No absolute time is kept: pt.since*)
(* and the ages are the true number of ticks since an event, capped where  *)
(* nothing tells them apart any more.  SYSTIME and the stamps taken from it*)
(* are kept relative to the timecounter's last reading (cycle_last): all   *)
(* arithmetic on them is modulo the wrap.  SYSTIME advances by 2^shift a tick,*)
(* what a TIMINCA chosen for the link's speed makes it do; a frequency     *)
(* adjustment (adjfreq) is left out.  The MAC is an X540: the 82599 differs*)
(* in its shift and has no pulse per second.                               *)
(***************************************************************************)
EXTENDS Integers, Sequences

CONSTANTS
    PtBits,         \* width of SYSTIME (64 in the code)
    PtShift10,      \* units of SYSTIME in a tick, as a shift, at 10 Gb/s
    PtShift1,       \* and at 1 Gb/s
    PtOverflow,     \* IXGBE_OVERFLOW_PERIOD
    PtTxTimeout,    \* IXGBE_PTP_TX_TIMEOUT
    PtRxHang,       \* the five seconds of ixgbe_ptp_rx_hang
    PtPackets,      \* packets marked for a stamp, or received and stamped
    PtMaxOps        \* resets, link changes, requests of the user

PtWrap == 2^PtBits

\* A reading is never older than the overflow period and one tick, and that is
\* less than half a turn of SYSTIME: beyond it timecounter_cyc2time takes a new
\* stamp for an old one.
ASSUME PtAssumption ==
    /\ {PtBits, PtShift10, PtShift1, PtOverflow, PtTxTimeout, PtRxHang} \subseteq Nat
    /\ PtShift1 <= PtShift10
    /\ (PtOverflow + 1) * 2^PtShift10 < PtWrap \div 2
    /\ {PtPackets, PtMaxOps} \subseteq Nat

VARIABLES pt, pt_ops
ptVars == <<pt, pt_ops>>

PtNone == [pkt |-> 0, stamp |-> 0, age |-> 0]
PtLatched(l) == l.pkt # 0

PtCap(n, max) == IF n > max THEN max ELSE n
PtAgeCap == PtOverflow + 2

(***************************************************************************)
(* The kernel's timecounter and cyclecounter (external).                   *)
(***************************************************************************)
PtNs(cycles) == cycles \div 2^pt.shift

\* timecounter_read: adds what SYSTIME advanced, and remembers where it was
PtReadOut(p) ==
    LET from(l) == IF PtLatched(l) THEN [l EXCEPT !.stamp = (@ - p.sys) % PtWrap] ELSE l
    IN  [p EXCEPT !.sys = 0, !.since = 0, !.txl = from(@), !.rxl = from(@)]

\* timecounter_init with a time that is right
PtRestarted(p) ==
    [PtReadOut(p) EXCEPT !.skew = @ /\ (PtLatched(p.txl) \/ PtLatched(p.rxl))]

\* timecounter_cyc2time of a stamp, as the number of ticks it lies before now
PtCyc2Age(stamp) ==
    IF stamp > (PtWrap - 1) \div 2 THEN pt.since + PtNs(PtWrap - stamp)
                                   ELSE pt.since - PtNs(stamp)

PtInit ==
    /\ pt = [phase |-> "closed", running |-> FALSE, due |-> FALSE,
             sys |-> 0, shift |-> PtShift10, since |-> 0, checked |-> 0,
             pps |-> FALSE, clk |-> FALSE,
             txon |-> FALSE, txq |-> <<>>, txl |-> PtNone,
             skb |-> 0, start |-> 0, work |-> FALSE, sent |-> 0,
             rxon |-> FALSE, rxflag |-> FALSE, rxq |-> <<>>, rxl |-> PtNone,
             rxlast |-> 0, rxcheck |-> 0, recv |-> 0,
             own |-> TRUE, right |-> TRUE,
             skew |-> FALSE, clash |-> FALSE]
    /\ pt_ops = 0

PtOp == pt_ops < PtMaxOps /\ pt_ops' = pt_ops + 1

(***************************************************************************)
(* The clock                                                               *)
(***************************************************************************)
\* Clock-out follows the flag
PtSetupSdp(p) == [p EXCEPT !.clk = p.pps]

\* Only the conversion changes: neither SYSTIME nor the timecounter is touched.
\* What SYSTIME advanced since the last reading, and the stamps taken before,
\* are converted with the new shift from here on (skew).
PtStartCyclecounter(p, shift) ==
    [p EXCEPT !.shift = shift,
              !.skew = @ \/ (shift # p.shift
                             /\ (p.since > 0 \/ PtLatched(p.txl) \/ PtLatched(p.rxl)))]

\* ixgbe_ptp_reset; the time the timecounter starts from is the system's
PtReset(p) ==
    PtSetupSdp([PtRestarted(PtStartCyclecounter(p, p.shift)) EXCEPT !.checked = 0])

\* The MAC forgets everything that has to do with time, the frames that wait in
\* its rings are dropped
PtMacReset(p) ==
    [p EXCEPT !.sys = 0, !.clk = FALSE, !.txon = FALSE, !.rxon = FALSE,
              !.txl = PtNone, !.rxl = PtNone, !.txq = <<>>, !.rxq = <<>>]

\* ixgbe_open: ixgbe_ptp_init.  INIT_WORK on a work item that is still queued
\* leaves open whether it runs.
PtOpen ==
    /\ pt.phase = "closed"
    /\ \E work \in {FALSE, pt.work} :
         pt' = [PtReset(pt) EXCEPT !.phase = "open", !.running = TRUE, !.work = work]
    /\ UNCHANGED pt_ops

PtStopped(p) ==
    [PtSetupSdp([p EXCEPT !.pps = FALSE]) EXCEPT !.running = FALSE,
              !.work = FALSE, !.skb = 0]

\* ixgbe_close: ixgbe_ptp_stop comes first, frames are still being sent
PtStop ==
    /\ pt.phase = "open"
    /\ pt' = [PtStopped(pt) EXCEPT !.phase = "closing"]
    /\ UNCHANGED pt_ops

\* ... then ixgbe_down, which resets the port
PtDown ==
    /\ pt.phase = "closing"
    /\ pt' = [PtMacReset(pt) EXCEPT !.phase = "closed"]
    /\ UNCHANGED pt_ops

\* ixgbe_reset of a port that is in use
PtResetPort ==
    /\ PtOp /\ pt.phase = "open"
    /\ pt' = PtReset(PtMacReset(pt))

\* The link went, or came back at another speed (the watchdog's two handlers)
PtLink ==
    /\ PtOp /\ pt.running
    /\ \E shift \in {PtShift10, PtShift1}, up \in BOOLEAN :
         /\ ~up => shift = PtShift10
         /\ pt' = [PtStartCyclecounter(pt, shift)
                     EXCEPT !.rxcheck = IF up THEN 0 ELSE @]

\* settime and adjtime: both restart the timecounter, the second from what it read
\* just before
PtSetTime ==
    /\ PtOp /\ pt.running
    /\ pt' = PtSetupSdp(PtRestarted(pt))

PtAdjTime ==
    /\ PtOp /\ pt.running
    /\ pt' = PtSetupSdp(PtReadOut(pt))

\* ixgbe_ptp_enable of the pulse per second
PtEnable ==
    /\ PtOp /\ pt.running
    /\ \E on \in BOOLEAN : pt' = PtSetupSdp([pt EXCEPT !.pps = on])

PtOlder(l) == [l EXCEPT !.age = IF l.pkt = 0 THEN 0 ELSE PtCap(@ + 1, PtAgeCap)]

\* One tick passes once the service task has run in the last one and the receive
\* path has met what arrived.  ixgbe_close does not take a tick, and a closed port is
\* of interest while it holds a frame.
PtTick ==
    /\ ~pt.due /\ pt.rxq = <<>>
    /\ pt.phase = "open" \/ (pt.phase = "closed" /\ pt.skb # 0)
    /\ pt' = [pt EXCEPT !.sys = (@ + 2^pt.shift) % PtWrap,
                !.since = PtCap(@ + 1, PtWrap), !.checked = PtCap(@ + 1, PtAgeCap),
                !.start = IF pt.skb = 0 THEN 0 ELSE PtCap(@ + 1, PtTxTimeout + 1),
                !.rxlast = PtCap(@ + 1, PtRxHang + 1),
                !.rxcheck = PtCap(@ + 1, PtRxHang + 1),
                !.txl = PtOlder(@), !.rxl = PtOlder(@), !.due = pt.running]
    /\ UNCHANGED pt_ops

PtOverflowDue(p) == p.checked > PtOverflow

PtOverflowCheckBlind(p) ==
    IF PtOverflowDue(p) THEN [p EXCEPT !.checked = 0] ELSE p

\* the gettime of the check is a timecounter_read
PtOverflowCheck(p) ==
    IF PtOverflowDue(p) THEN [PtReadOut(p) EXCEPT !.checked = 0] ELSE p

\* A descriptor that carries the latched stamp is still in the ring
PtOwnerWaits(p) == \E i \in DOMAIN p.rxq : p.rxq[i] = p.rxl.pkt

\* the most recent of the last check and the last stamp handed out
PtRxEvent(p) == PtCap(p.rxcheck, p.rxlast)

PtRxHangCheck(p) ==
    IF ~PtLatched(p.rxl) THEN [p EXCEPT !.rxcheck = 0]
    ELSE IF PtRxEvent(p) > PtRxHang
         THEN [p EXCEPT !.rxl = PtNone, !.rxcheck = 0, !.clash = @ \/ PtOwnerWaits(p)]
         ELSE p

PtService ==
    /\ pt.due
    /\ pt' = [(IF pt.running THEN PtRxHangCheck(PtOverflowCheck(pt)) ELSE pt)
                EXCEPT !.due = FALSE]
    /\ UNCHANGED pt_ops

(***************************************************************************)
(* The user's configuration                                                *)
(***************************************************************************)
\* both stamp registers are read, just to be sure
PtCleared(p) ==
    [p EXCEPT !.txl = PtNone, !.rxl = PtNone,
              !.clash = @ \/ (PtLatched(p.rxl) /\ PtOwnerWaits(p))]

\* "all" stands for the receive filters the hardware does not have
PtIoctl ==
    /\ PtOp
    /\ \E tx \in {"off", "on"}, rx \in {"none", "v2", "all"} :
         pt' = IF rx = "all" THEN [pt EXCEPT !.rxflag = FALSE]
               ELSE PtCleared([pt EXCEPT !.rxflag = rx = "v2", !.rxon = rx = "v2",
                                         !.txon = tx = "on"])

(***************************************************************************)
(* Transmit stamps                                                         *)
(***************************************************************************)
\* Another frame that was marked is still on its way or has not been collected
PtTxPending == pt.skb # 0 \/ pt.txq # <<>> \/ PtLatched(pt.txl)

\* A frame marked for a stamp in ixgbe_xmit_frame_ring: a pending one is not
\* looked for.  Until ixgbe_down has stopped the queues this also happens after
\* ixgbe_ptp_stop.
PtXmit ==
    /\ pt.phase \in {"open", "closing"} /\ pt.sent + pt.recv < PtPackets
    /\ pt' = [pt EXCEPT !.sent = @ + 1, !.skb = pt.sent + 1, !.start = 0, !.work = TRUE,
                        !.txq = Append(@, pt.sent + 1),
                        !.clash = @ \/ PtTxPending \/ pt.phase = "closing"]
    /\ UNCHANGED pt_ops

\* The port sends it, and latches its stamp unless one is latched already
PtHwSends ==
    /\ pt.txq # <<>>
    /\ pt' = [pt EXCEPT !.txq = Tail(@),
                !.txl = IF pt.txon /\ ~PtLatched(@)
                        THEN [pkt |-> Head(pt.txq), stamp |-> pt.sys, age |-> 0] ELSE @]
    /\ UNCHANGED pt_ops

\* A stamp is handed to a packet: is it the packet's own, and its right time?
PtHanded(p, pkt, l) ==
    [p EXCEPT !.own = @ /\ pkt = l.pkt,
              !.right = @ /\ (p.skew \/ PtCyc2Age(l.stamp) = l.age)]

PtTxStampReady(p) == PtLatched(p.txl)

\* ixgbe_ptp_tx_hwtstamp
PtTxStamp(p) ==
    [PtHanded(p, p.skb, p.txl) EXCEPT !.txl = PtNone, !.skb = 0, !.work = FALSE]

PtTxTimedOut(p) == p.start > PtTxTimeout

\* ixgbe_ptp_tx_hwtstamp_work.  A time-out leaves the stamp register alone.
PtTxWork ==
    /\ pt.work
    /\ pt' = IF pt.skb = 0 THEN [pt EXCEPT !.work = FALSE]
             ELSE IF PtTxTimedOut(pt)
                  THEN [pt EXCEPT !.skb = 0, !.work = FALSE,
                                  !.clash = @ \/ pt.txq # <<>> \/ PtLatched(pt.txl)]
             ELSE IF PtTxStampReady(pt) THEN PtTxStamp(pt)
             ELSE pt
    /\ UNCHANGED pt_ops

(***************************************************************************)
(* Receive stamps                                                          *)
(***************************************************************************)
\* A packet that matches the filter, while no stamp is latched: it is stamped
\* and its descriptor says so.  It may find the ring full and be dropped.
PtHwReceives ==
    /\ pt.rxon /\ ~PtLatched(pt.rxl) /\ pt.sent + pt.recv < PtPackets /\ pt.phase = "open"
    /\ \E dropped \in BOOLEAN :
         pt' = [pt EXCEPT !.recv = @ + 1,
                  !.rxl = [pkt |-> pt.recv + 1, stamp |-> pt.sys, age |-> 0],
                  !.rxq = IF dropped THEN @ ELSE Append(@, pt.recv + 1)]
    /\ UNCHANGED pt_ops

\* ixgbe_ptp_rx_rgtstamp
PtRxStamp(p, pkt) ==
    IF PtLatched(p.rxl) THEN [PtHanded(p, pkt, p.rxl) EXCEPT !.rxl = PtNone] ELSE p

\* The receive path meets the descriptor
PtRxPoll ==
    /\ pt.rxq # <<>>
    /\ pt' = [(IF pt.rxflag
               THEN [PtRxStamp(pt, Head(pt.rxq)) EXCEPT !.rxlast = 0] ELSE pt)
                EXCEPT !.rxq = Tail(pt.rxq)]
    /\ UNCHANGED pt_ops

PtNext ==
    \/ PtOpen \/ PtStop \/ PtDown \/ PtResetPort \/ PtLink \/ PtSetTime \/ PtAdjTime
    \/ PtEnable \/ PtTick \/ PtService \/ PtIoctl
    \/ PtXmit \/ PtHwSends \/ PtTxWork \/ PtHwReceives \/ PtRxPoll

\* Time passes, the service task and the work item are run, the port sends, the
\* rings are polled
PtFairness ==
    /\ WF_ptVars(PtTick) /\ WF_ptVars(PtService) /\ WF_ptVars(PtTxWork) /\ WF_ptVars(PtHwSends)
    /\ WF_ptVars(PtRxPoll)

PtSpec == PtInit /\ [][PtNext]_ptVars /\ PtFairness

-----------------------------------------------------------------------------
(***************************************************************************)
(* Properties                                                              *)
(***************************************************************************)
\* Reading the clock now would add exactly the time that passed since the last
\* reading: the overflow check comes before SYSTIME has gone round, across
\* resets and settings of the clock (a change of the shift with unread cycles
\* is excepted, see PtStartCyclecounter).
PtClockTrue ==
    pt.running /\ ~pt.skew => PtNs(pt.sys) = pt.since

\* As long as only one frame is marked at a time and is sent before the driver
\* gives up on it, a stamp that is handed out is the one taken of that packet, and
\* it converts to the time at which it was taken, though the clock may have been
\* read, set or checked between the two.
PtStampTrue ==
    ~pt.clash => pt.own /\ pt.right

\* The pulse per second runs exactly while it is asked for: it survives a reset,
\* which switches it off in the port, and ends when the clock is stopped.
PtPulse == pt.phase # "closed" => pt.clk = pt.pps

\* A frame held for its stamp is let go of: stamped, timed out or freed by
\* ixgbe_ptp_stop.
PtSkbReleased ==
    \A p \in 1..PtPackets : pt.skb = p ~> (pt.skb # p \/ pt.clash)

\* A stamp latched for a packet that the ring had no room for does not block the
\* ones after it for ever.
PtRxUnlatched ==
    PtLatched(pt.rxl) /\ pt.rxq = <<>> ~> (~PtLatched(pt.rxl) \/ ~pt.running)

\* The three about the clock: time read is time passed, a stamp handed out
\* is its packet's, and the pulse runs when asked for.
PtSafe ==
  /\ PtClockTrue
  /\ PtStampTrue
  /\ PtPulse
=============================================================================
