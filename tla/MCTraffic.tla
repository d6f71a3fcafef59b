------------------------------ MODULE MCTraffic ------------------------------
(***************************************************************************)
(* The components that carry and steer traffic, on one bench: transmit and *)
(* receive rings, software LRO, vectors and their rates, the PTP clock,    *)
(* Flow Director and its hash, FCoE's direct placement, and the programs   *)
(* that read a recording back.  `part` is the component that moves in a    *)
(* behaviour; the others stay in one of their initial states, so that the  *)
(* run covers each component exactly.                                      *)
(***************************************************************************)
EXTENDS TxRing, RxRing, LroList, IrqVectors, InterruptRate, PtpClock, FlowDirector, FdirHash,
        FcoeDdp, RecordReader

VARIABLE part

trafficVars == <<part, txVars, rxVars, lroVars, iqVars, itVars, ptVars, fdVars, fhVars, foVars,
                 vars>>

\* Scatter lists that fit, straddle buffers, end a buffer, overflow it, or cannot be placed.
FoE(a, n) == [addr |-> a, len |-> n]
FoMCSgls ==
    {<<FoE(5, 2)>>, <<FoE(6, 6), FoE(16, 3)>>, <<FoE(8, 3), FoE(16, 4)>>, <<FoE(4, 8)>>,
     <<FoE(4, 12)>>, <<FoE(7, 1), FoE(8, 4)>>, <<FoE(8, 4), FoE(17, 2)>>}

\* Two slots; a full bucket holds two rows, the last one is partly filled.  Behind the end
\* there may be a file of an older recording.
Lens(sizes) == UNION {[1 .. n -> {1, 2}] : n \in sizes}
File(l, isLast, isStalled) == [len |-> l, last |-> isLast, stalled |-> isStalled]
SmallRecordings ==
    {<<File(a, TRUE, FALSE)>> : a \in Lens({1, 3})}
      \cup {<<File(a, FALSE, FALSE), File(b, TRUE, FALSE)>> : a \in Lens({4}), b \in Lens({1, 2})}
      \cup {<<File(a, FALSE, FALSE), File(<<1, 2>>, FALSE, FALSE), File(b, FALSE, TRUE)>> :
              a \in Lens({2}), b \in Lens({2})}
      \cup {<<File(a, FALSE, FALSE), File(b, TRUE, FALSE), File(<<2, 1>>, old, FALSE)>> :
              a \in Lens({2}), b \in Lens({1}), old \in BOOLEAN}

-----------------------------------------------------------------------------
\* One initial state of each component, for the behaviours in which it does not move.
RxRest == RxInit /\ rx_rsc
IqRest == IqInit /\ iq_msix
ItRest == ItInit /\ ~it_lro /\ it_cfg = [mixed |-> TRUE, bql |-> TRUE, capable |-> TRUE]
FdRest == FdInit /\ fd_atr
FhRest == /\ fh_in = [stream |-> [d \in 0 .. FhDwords - 1 |-> {}],
                      mask |-> [d \in 0 .. FhDwords - 1 |-> {}], src |-> {}, dst |-> {}]
          /\ fh_out = FhNoOut

TrafficInit ==
    /\ part \in {"tx", "rx", "lro", "iq", "it", "pt", "fd", "fh", "fo", "rec"}
    /\ IF part = "rx" THEN RxInit ELSE RxRest
    /\ IF part = "iq" THEN IqInit ELSE IqRest
    /\ IF part = "it" THEN ItInit ELSE ItRest
    /\ IF part = "fd" THEN FdInit ELSE FdRest
    /\ TxInit /\ LroInit /\ PtInit /\ FoInit
    /\ IF part = "fh" THEN FhInit ELSE FhRest
    /\ IF part = "rec" THEN Init ELSE InitWith(<<File(<<1>>, TRUE, FALSE)>>)

\* The other components do not move.
Others(p) ==
    /\ part' = part
    /\ IF p = "tx"  THEN TRUE ELSE UNCHANGED txVars
    /\ IF p = "rx"  THEN TRUE ELSE UNCHANGED rxVars
    /\ IF p = "lro" THEN TRUE ELSE UNCHANGED lroVars
    /\ IF p = "iq"  THEN TRUE ELSE UNCHANGED iqVars
    /\ IF p = "it"  THEN TRUE ELSE UNCHANGED itVars
    /\ IF p = "pt"  THEN TRUE ELSE UNCHANGED ptVars
    /\ IF p = "fd"  THEN TRUE ELSE UNCHANGED fdVars
    /\ IF p = "fh"  THEN TRUE ELSE UNCHANGED fhVars
    /\ IF p = "fo"  THEN TRUE ELSE UNCHANGED foVars
    /\ IF p = "rec" THEN TRUE ELSE UNCHANGED vars

TrafficNext ==
    \/ part = "tx"  /\ TxNext  /\ Others("tx")
    \/ part = "rx"  /\ RxNext  /\ Others("rx")
    \/ part = "lro" /\ LroNext /\ Others("lro")
    \/ part = "iq"  /\ IqNext  /\ Others("iq")
    \/ part = "it"  /\ ItNext  /\ Others("it")
    \/ part = "pt"  /\ PtNext  /\ Others("pt")
    \/ part = "fd"  /\ FdNext  /\ Others("fd")
    \/ part = "fh"  /\ FhNext  /\ Others("fh")
    \/ part = "fo"  /\ FoNext  /\ Others("fo")
    \/ part = "rec" /\ Next    /\ Others("rec")

TrafficSpec == TrafficInit /\ [][TrafficNext]_trafficVars

\* Vectors and their rates: no wake-up is lost, and the rate follows the
\* settings.
VectorsSafe ==
  /\ IqSafe
  /\ ItSafe

\* Flow Director: its table holds what was asked for, and the hashes find
\* it.
SteeringSafe ==
  /\ FdSafe
  /\ FhSafe
=============================================================================
