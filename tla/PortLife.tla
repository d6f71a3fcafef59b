------------------------------- MODULE PortLife -------------------------------
(***************************************************************************)
(* What the bus does with a port of ixgbe_main.c: probe and its unwinding, *)
(* removal, suspend and resume, and the three callbacks of PCI error       *)
(* recovery, with the interface opened and closed by the user in between.  *)
(*                                                                         *)
(* A port's resources are a set.  The bus core runs one callback of a      *)
(* device at a time; the steps of a recovery, and the part of probe that   *)
(* follows register_netdev, are apart from each other and the user acts    *)
(* between them.  Both ports of the adapter take part in a recovery.       *)
(***************************************************************************)
EXTENDS Integers, Sequences

CONSTANTS
    PlPorts,        \* the ports of the adapter
    PlVfPorts,      \* the ones asked to have virtual functions
    PlWolPorts,     \* the ones that are to wake the machine
    PlMaxOps        \* bus events and calls of the user in a behaviour

ASSUME PlAssumption ==
    /\ PlVfPorts \subseteq PlPorts /\ PlWolPorts \subseteq PlPorts
    /\ PlMaxOps \in Nat

VARIABLES
    pl,             \* the ports
    pl_err,         \* the step of the recovery that is due
    pl_pbm,         \* how many probes came before, and the port that captures
    pl_ops

plVars == <<pl, pl_err, pl_pbm, pl_ops>>

PlAbsent ==
    [phase |-> "none", held |-> {}, opened |-> FALSE, attached |-> FALSE,
     up |-> FALSE, napi |-> FALSE, reset |-> FALSE, ptp |-> FALSE, clocks |-> 0,
     laser |-> FALSE, wake |-> FALSE, vferr |-> 0,
     early |-> FALSE, hung |-> FALSE, bug |-> FALSE]

PlInit ==
    /\ pl = [p \in PlPorts |-> PlAbsent]
    /\ pl_err = "none"
    /\ pl_pbm = [probes |-> 0, port |-> {}]
    /\ pl_ops = 0

\* A call that does not return holds the rtnl lock: what follows is left out
PlOp ==
    /\ pl_ops < PlMaxOps /\ pl_ops' = pl_ops + 1
    /\ \A p \in PlPorts : ~pl[p].hung
PlQuiet == UNCHANGED <<pl_err, pl_pbm>>

(***************************************************************************)
(* ixgbe_up, ixgbe_down, ixgbe_open and ixgbe_close, as far as the bus     *)
(* callbacks tell their effects apart (AdapterLifecycle has their steps)   *)
(***************************************************************************)
\* napi_enable of an instance that is enabled is a BUG
PlUp(s) ==
    [s EXCEPT !.up = TRUE, !.napi = TRUE, !.laser = TRUE, !.bug = @ \/ s.napi,
              !.held = @ \cup {"control"}]

\* napi_disable of an instance that is disabled does not return; there is none
\* without vectors
PlDown(s) ==
    [s EXCEPT !.up = FALSE, !.napi = FALSE, !.laser = FALSE, !.reset = FALSE,
              !.hung = @ \/ ("vectors" \in s.held /\ ~s.napi)]

\* The clock is registered with each open
PlPtpInit(s) == [s EXCEPT !.ptp = TRUE, !.clocks = @ + 1]

PlPtpStop(s) ==
    IF s.ptp THEN [s EXCEPT !.ptp = FALSE, !.clocks = @ - 1] ELSE s

\* The outcomes of ixgbe_open; one that fails gives everything back
PlOpened(s) ==
    {[PlUp(PlPtpInit(s)) EXCEPT !.held = @ \cup {"rings", "irq"}], s}

\* Nothing is freed by a close that does not return
PlClosed(s) ==
    LET d == PlDown(PlPtpStop(s))
    IN  IF d.hung THEN d ELSE [d EXCEPT !.held = @ \ {"rings", "irq", "control"}]

(***************************************************************************)
(* Probe and removal                                                       *)
(***************************************************************************)
\* What each step of ixgbe_probe takes, in order, and the label its failure
\* goes to
PlStep(name, takes, label) == [name |-> name, takes |-> takes, label |-> label]

PlBusSteps ==
    <<PlStep("enable", {"enabled"}, "return"),
      PlStep("dma", {}, "err_dma"),
      PlStep("regions", {"regions", "aer"}, "err_pci_reg"),
      PlStep("etherdev", {"netdev"}, "err_alloc_etherdev")>>

PlHwSteps ==
    <<PlStep("ioremap", {"map"}, "err_ioremap"),
      PlStep("sw_init", {"table"}, "err_sw_init"),
      PlStep("reset_hw", {"sriov"}, "err_sw_init")>>

PlNetSteps ==
    <<PlStep("eeprom", {}, "err_sw_init"),
      PlStep("address", {}, "err_sw_init"),
      PlStep("vectors", {"vectors"}, "err_sw_init"),
      PlStep("register", {"registered"}, "err_register")>>

PlSteps == PlBusSteps \o PlHwSteps \o PlNetSteps

\* What is given back from each label on
PlLabels ==
    <<[label |-> "err_register", gives |-> {"vectors", "control"}],
      [label |-> "err_sw_init", gives |-> {"sriov", "table", "map"}],
      [label |-> "err_ioremap", gives |-> {"netdev"}],
      [label |-> "err_alloc_etherdev", gives |-> {"regions"}],
      [label |-> "err_pci_reg", gives |-> {}],
      [label |-> "err_dma", gives |-> {"enabled"}]>>

PlGivenAt(label) ==
    UNION {PlLabels[j].gives : j \in {k \in DOMAIN PlLabels : PlLabels[k].label = label}}

PlGivenFrom(label) ==
    UNION {PlLabels[j].gives : j \in
             {k \in DOMAIN PlLabels : \E i \in DOMAIN PlLabels :
                 PlLabels[i].label = label /\ k >= i}}

\* What the steps before the n-th have taken; SR-IOV is taken where it is asked for
PlTaken(p, n) ==
    UNION {PlSteps[i].takes : i \in 1..n - 1} \ (IF p \in PlVfPorts THEN {} ELSE {"sriov"})

\* Left behind by a failure at step n.  ixgbe_disable_sriov leaves the VFs of a
\* guest in place.
PlLeft(p, n, assigned) ==
    (PlTaken(p, n) \ PlGivenFrom(PlSteps[n].label))
    \cup (IF assigned THEN PlTaken(p, n) \cap {"sriov"} ELSE {})

\* The first port that gets as far as a net_device is the one that captures, for
\* as long as the module is loaded
PlPbmAfter(p, n) ==
    IF n <= Len(PlBusSteps) THEN pl_pbm
    ELSE [probes |-> 1, port |-> IF pl_pbm.probes = 0 THEN {p} ELSE pl_pbm.port]

PlProbeFails(p) ==
    /\ PlOp /\ pl[p].phase = "none" /\ pl_err = "none"
    /\ \E n \in DOMAIN PlSteps, assigned \in BOOLEAN :
         /\ pl' = [pl EXCEPT ![p] = [PlAbsent EXCEPT !.clocks = pl[p].clocks,
                                       !.held = pl[p].held \cup PlLeft(p, n, assigned)]]
         /\ pl_pbm' = PlPbmAfter(p, n)
    /\ UNCHANGED pl_err

\* Up to register_netdev: from then on the user may open the interface
PlProbe(p) ==
    /\ PlOp /\ pl[p].phase = "none" /\ pl_err = "none"
    /\ pl' = [pl EXCEPT ![p] = [PlAbsent EXCEPT !.phase = "tail", !.attached = TRUE,
                !.clocks = pl[p].clocks,
                !.held = pl[p].held \cup PlTaken(p, Len(PlSteps) + 1)]]
    /\ pl_pbm' = PlPbmAfter(p, Len(PlSteps))
    /\ UNCHANGED pl_err

\* The rest of it, which switches the optics off and stops the transmit queues
\* whatever has happened since
PlProbeTail(p) ==
    /\ pl[p].phase = "tail"
    /\ pl' = [pl EXCEPT ![p] = [@ EXCEPT !.phase = "bound", !.laser = FALSE,
                !.held = @ \cup {"sysfs"}, !.early = @ \/ pl[p].up]]
    /\ UNCHANGED pl_ops /\ PlQuiet

\* ixgbe_remove; unregister_netdev closes an interface that is open
PlRemoved(s, assigned) ==
    LET closed == IF s.opened THEN PlClosed(s) ELSE s
    IN  IF closed.hung THEN closed
        ELSE [PlAbsent EXCEPT !.clocks = closed.clocks, !.bug = closed.bug,
          !.held = closed.held \ ({"sysfs", "registered", "vectors", "control", "map",
                                   "regions", "table", "netdev", "aer", "enabled"}
                                  \cup IF assigned THEN {} ELSE {"sriov"})]

PlRemove(p) ==
    /\ PlOp /\ pl[p].phase = "bound" /\ pl_err = "none"
    /\ \E assigned \in BOOLEAN : pl' = [pl EXCEPT ![p] = PlRemoved(@, assigned)]
    /\ PlQuiet

(***************************************************************************)
(* The user                                                                *)
(***************************************************************************)
\* dev_open refuses a device that is not present
PlOpen(p) ==
    /\ PlOp /\ pl[p].phase \in {"tail", "bound"} /\ pl[p].attached /\ ~pl[p].opened
    /\ \E s \in PlOpened(pl[p]) : pl' = [pl EXCEPT ![p] = [s EXCEPT !.opened = s.up]]
    /\ PlQuiet

\* dev_close does not ask whether it is
PlClose(p) ==
    /\ PlOp /\ pl[p].phase \in {"tail", "bound"} /\ pl[p].opened
    /\ pl' = [pl EXCEPT ![p] = [PlClosed(@) EXCEPT !.opened = FALSE]]
    /\ PlQuiet

\* ixgbe_reset_subtask, run while the port is up
PlService(p) ==
    /\ pl[p].up /\ pl[p].reset
    /\ pl' = [pl EXCEPT ![p] = PlUp(PlDown(@))]
    /\ UNCHANGED pl_ops /\ PlQuiet

(***************************************************************************)
(* Suspend and resume                                                      *)
(***************************************************************************)
PlVectorsFreed(s) == [s EXCEPT !.held = @ \ {"vectors"}]

\* The interface is taken down if it is open; its clock is not
PlDetached(s) ==
    LET d == [s EXCEPT !.attached = FALSE]
    IN  PlVectorsFreed(IF s.opened
                       THEN [PlDown(d) EXCEPT !.held = @ \ {"rings", "irq"}] ELSE d)

\* Wake-up: the filters are programmed and the optics switched on again
PlArmed(s, wol) == [s EXCEPT !.laser = @ \/ wol, !.wake = wol]

\* __ixgbe_shutdown in ixgbe_suspend; a state that cannot be saved ends it early
PlSuspend(p) ==
    /\ PlOp /\ pl[p].phase = "bound" /\ pl_err = "none" /\ pl[p].attached
    /\ \E saved \in BOOLEAN :
         pl' = [pl EXCEPT ![p] =
                  IF saved
                  THEN [PlArmed(PlDetached(@), p \in PlWolPorts)
                          EXCEPT !.phase = "asleep", !.held = @ \ {"control", "enabled"}]
                  ELSE PlDetached(@)]
    /\ PlQuiet

PlAttached(s) == [s EXCEPT !.attached = TRUE]

\* What ixgbe_resume returns to: the device enabled, the vectors allocated, the
\* interface opened, each of which may fail
PlResumed(s) ==
    LET awake   == [s EXCEPT !.phase = "bound"]
        enabled == [awake EXCEPT !.held = @ \cup {"enabled"}, !.wake = FALSE]
        vectors == [enabled EXCEPT !.held = @ \cup {"vectors"}]
    IN  {awake, enabled}
        \cup (IF s.opened THEN {o \in PlOpened(vectors) : ~o.up}
                               \cup {PlAttached(o) : o \in {q \in PlOpened(vectors) : q.up}}
              ELSE {PlAttached(vectors)})

PlResume(p) ==
    /\ pl[p].phase = "asleep"
    /\ \E s \in PlResumed(pl[p]) : pl' = [pl EXCEPT ![p] = s]
    /\ UNCHANGED pl_ops /\ PlQuiet

(***************************************************************************)
(* PCI error recovery                                                      *)
(***************************************************************************)
\* An error that a virtual function caused, on a port that has some
PlOfVf(p, kind) == kind = "vf" /\ "sriov" \in pl[p].held

PlVfErr(s) == [s EXCEPT !.vferr = @ + 1]

\* ixgbe_io_error_detected
PlDetected(s, ofvf, perm) ==
    IF ofvf THEN PlVfErr(s)
    ELSE LET d == [s EXCEPT !.attached = FALSE]
         IN  IF perm THEN d
             ELSE [(IF s.opened THEN PlDown(d) ELSE d) EXCEPT !.held = @ \ {"enabled"}]

PlBound == {p \in PlPorts : pl[p].phase = "bound"}

\* The bus tells every port that is bound.  A port that asks for a reset gets one
\* for all; a permanent failure ends it.
PlError ==
    /\ PlOp /\ pl_err = "none" /\ PlBound # {}
    /\ \A p \in PlPorts : pl[p].phase \in {"none", "bound"}
    /\ \A p \in PlBound : pl[p].attached
    /\ \E kind \in {"vf", "bus"}, perm \in BOOLEAN :
         /\ pl' = [p \in PlPorts |->
                     IF p \in PlBound THEN PlDetected(pl[p], PlOfVf(p, kind), perm)
                     ELSE pl[p]]
         /\ pl_err' = IF \A p \in PlBound : PlOfVf(p, kind) THEN "resume"
                      ELSE IF perm THEN "none" ELSE "reset"
    /\ UNCHANGED pl_pbm

\* ixgbe_io_slot_reset
PlSlotReset ==
    /\ pl_err = "reset"
    /\ \E failed \in SUBSET PlBound :
         /\ pl' = [p \in PlPorts |->
                     IF p \in PlBound \ failed
                     THEN [pl[p] EXCEPT !.reset = TRUE, !.held = @ \cup {"enabled"}]
                     ELSE pl[p]]
         /\ pl_err' = IF failed = {} THEN "resume" ELSE "none"
    /\ UNCHANGED <<pl_pbm, pl_ops>>

\* ixgbe_io_resume: not for a port that a virtual function's error left running
PlIoResumed(s) ==
    IF s.vferr > 0 THEN [s EXCEPT !.vferr = @ - 1]
    ELSE PlAttached(IF s.opened THEN PlUp(s) ELSE s)

PlIoResume ==
    /\ pl_err = "resume"
    /\ pl' = [p \in PlPorts |->
                 IF p \in PlBound /\ ~pl[p].hung THEN PlIoResumed(pl[p]) ELSE pl[p]]
    /\ pl_err' = "none"
    /\ UNCHANGED <<pl_pbm, pl_ops>>

PlNext ==
    \/ \E p \in PlPorts :
         \/ PlProbeFails(p) \/ PlProbe(p) \/ PlProbeTail(p) \/ PlRemove(p)
         \/ PlOpen(p) \/ PlClose(p) \/ PlService(p) \/ PlSuspend(p) \/ PlResume(p)
    \/ PlError \/ PlSlotReset \/ PlIoResume

PlSpec == PlInit /\ [][PlNext]_plVars

-----------------------------------------------------------------------------
(***************************************************************************)
(* Properties                                                              *)
(***************************************************************************)
\* Wherever ixgbe_probe fails, and however ixgbe_remove finds the port (open,
\* in the middle of a failed resume, cut off by a failed recovery), everything is
\* given back, except what the code is known to leave: the VFs of a guest, and PCI
\* error reporting after a probe that failed.
PlUnwound ==
    \A p \in PlPorts : pl[p].phase = "none" => pl[p].held \subseteq {"sriov", "aer"}

\* A port that is up has all that its interrupt handlers and rings stand on: no
\* suspend, error or removal pulls anything away from under it.
PlStandsOn ==
    \A p \in PlPorts : pl[p].up =>
        {"enabled", "regions", "map", "netdev", "table", "vectors", "rings", "irq"}
            \subseteq pl[p].held

\* No port is brought up twice: an error of a virtual function is counted on every
\* port that was left running, so that the resume which all of them get skips it.
PlUpOnce == \A p \in PlPorts : ~pl[p].bug

\* Once a resume or a recovery is over and the interface is attached again, it runs
\* exactly if it is open.
PlRunsAgain ==
    \A p \in PlPorts :
        pl[p].phase = "bound" /\ pl[p].attached /\ pl_err = "none"
            => pl[p].up = pl[p].opened

\* A port that sleeps and is to wake the machine has its optics on, and a running one
\* has, unless it was opened before probe had finished.
PlOptics ==
    \A p \in PlPorts :
        /\ pl[p].phase = "asleep" /\ pl[p].wake => pl[p].laser
        /\ pl[p].up /\ ~pl[p].early => pl[p].laser

\* The life of a port, from probe to removal over failures, suspend and PCI
\* errors: everything is given back, nothing runs on what is gone, no port
\* is brought up twice, and it runs again, with its optics, after recovery.
PlSafe ==
  /\ PlUnwound
  /\ PlStandsOn
  /\ PlUpOnce
  /\ PlRunsAgain
  /\ PlOptics
=============================================================================
