---------------------------- MODULE MCTrafficLive ----------------------------
(***************************************************************************)
(* What must happen in the end to traffic, on one bench: the rings, the    *)
(* vectors, the PTP clock, a VF's mailbox and Flow Director, with smaller  *)
(* bounds than MCTraffic.  `part` is the component that moves in a         *)
(* behaviour, with the fairness of its own specification; the others stay  *)
(* in one of their initial states.                                         *)
(***************************************************************************)
EXTENDS TxRing, RxRing, IrqVectors, PtpClock, VfMailbox, FlowDirector

VARIABLE part

liveVars == <<part, txVars, rxVars, iqVars, ptVars, vmVars, fdVars>>

LiveInit ==
  /\ part \in {"tx", "rx", "iq", "pt", "vm", "fd"}
  /\ RxInit /\ (part = "rx" \/ rx_rsc)
  /\ IqInit /\ (part = "iq" \/ iq_msix)
  /\ FdInit /\ (part = "fd" \/ fd_atr)
  /\ TxInit /\ PtInit /\ VmInit

\* The other components do not move.
Others(p) ==
  /\ part' = part
  /\ IF p = "tx" THEN TRUE ELSE UNCHANGED txVars
  /\ IF p = "rx" THEN TRUE ELSE UNCHANGED rxVars
  /\ IF p = "iq" THEN TRUE ELSE UNCHANGED iqVars
  /\ IF p = "pt" THEN TRUE ELSE UNCHANGED ptVars
  /\ IF p = "vm" THEN TRUE ELSE UNCHANGED vmVars
  /\ IF p = "fd" THEN TRUE ELSE UNCHANGED fdVars

LiveNext ==
  \/ part = "tx" /\ TxNext /\ Others("tx")
  \/ part = "rx" /\ RxNext /\ Others("rx")
  \/ part = "iq" /\ IqNext /\ Others("iq")
  \/ part = "pt" /\ PtNext /\ Others("pt")
  \/ part = "vm" /\ VmNext /\ Others("vm")
  \/ part = "fd" /\ FdNext /\ Others("fd")

\* The variables of the component that moves.
Moving ==
  CASE part = "rx" -> rxVars [] part = "iq" -> iqVars [] part = "pt" -> ptVars
    [] part = "vm" -> vmVars [] part = "fd" -> fdVars [] OTHER -> txVars

\* The processes of the components, as their own specifications list them; the
\* bench has two vectors.
Process(k) ==
  /\ part' = part
  /\ \/ part = "tx" /\ CASE k = 1 -> TxXmit [] k = 2 -> TxNapi [] k = 3 -> TxHwSends [] k = 4 -> TxTimer
                         [] OTHER -> FALSE
     \/ part = "rx" /\ k = 1 /\ RxPass
     \/ part = "iq" /\ CASE k = 1 -> IqHandlers [] k = 2 -> IqStrobe [] k = 3 -> IqVector(0)
                         [] k = 4 -> IqVector(1) [] k = 5 -> IqPolls(0) [] OTHER -> IqPolls(1)
     \/ part = "pt" /\ CASE k = 1 -> PtTick [] k = 2 -> PtService [] k = 3 -> PtTxWork
                         [] k = 4 -> PtHwSends [] k = 5 -> PtRxPoll [] OTHER -> FALSE
     \/ part = "vm" /\ CASE k = 1 -> VmPf [] k = 2 -> VmService [] k = 3 -> VmVf [] OTHER -> FALSE
     \/ part = "fd" /\ k = 1 /\ FdService

\* Every process of the component that moves is scheduled for ever.
LiveSpec ==
  /\ LiveInit /\ [][LiveNext]_liveVars
  /\ \A k \in 1 .. 6 : WF_Moving(Process(k))
  /\ SF_txVars(part = "tx" /\ TxReset)

\* Queues do not stay stuck: a stopped transmit queue is woken, an empty
\* receive ring refilled, and completions of every vector are cleaned.
QueuesServed ==
  /\ TxWakes
  /\ RxRefilled
  /\ IqServed

\* Nobody waits for ever: a frame gets its stamp or is let go of, a latched
\* stamp is dropped, a VF is answered or finds out that it will not be, and
\* automatic filters resume after a full table.
AnswersCome ==
  /\ PtSkbReleased
  /\ PtRxUnlatched
  /\ VmFindsOut
  /\ VmServed
  /\ FdResumes
=============================================================================
