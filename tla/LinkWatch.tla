------------------------------ MODULE LinkWatch ------------------------------
(***************************************************************************)
(* The link status of the interface (ixgbe_main.c): the LSC interrupt and  *)
(* its mask, NEED_LINK_UPDATE, the watchdog part of the service task step  *)
(* by step against the interrupt handler, ixgbe_up_complete and ixgbe_down,*)
(* the flush of pending transmits and the overheating report (T3_LOM).     *)
(***************************************************************************)
EXTENDS Naturals

CONSTANTS
  LwMaxFlaps,    \* bound on changes of the physical link
  LwMaxOpens     \* bound on ixgbe_open

VARIABLES
  lw,          \* down, need, lsc (enabled), cause, link_up, carrier, late, sched, tx, reset
  lw_phys,     \* the link is physically up
  lw_pc,       \* the service task's next step
  lw_seen,     \* what its check_link saw
  lw_missed,   \* an LSC interrupt or ixgbe_open came between its check and its clear
  lw_heat,     \* [hot, event, reported]: interrupt_event is "none", "lsc" or "sdp0"
  lw_flaps, lw_opens

lwVars == <<lw, lw_phys, lw_pc, lw_seen, lw_missed, lw_heat, lw_flaps, lw_opens>>

LwInit ==
  /\ lw = [down |-> TRUE, need |-> FALSE, lsc |-> FALSE, cause |-> FALSE, link_up |-> FALSE,
           carrier |-> FALSE, late |-> FALSE, sched |-> FALSE, tx |-> FALSE, reset |-> FALSE]
  /\ lw_phys = FALSE /\ lw_pc = "idle" /\ lw_seen = FALSE /\ lw_missed = FALSE
  /\ lw_heat = [hot |-> FALSE, event |-> "none", reported |-> FALSE]
  /\ lw_flaps = 0 /\ lw_opens = 0

LwFlap ==     \* the cable or the partner (external)
  /\ lw_flaps < LwMaxFlaps /\ (lw_heat.hot => lw_phys)
  /\ lw_flaps' = lw_flaps + 1 /\ lw_phys' = ~lw_phys
  /\ lw' = [lw EXCEPT !.cause = TRUE]
  /\ UNCHANGED <<lw_pc, lw_seen, lw_missed, lw_heat, lw_opens>>

LwOverheats ==     \* on an open adapter, raising SDP0 (external); the link goes
                   \* down at once or, still hot, with a later flap
  /\ ~lw_heat.hot /\ ~lw.down
  /\ lw_heat' = [lw_heat EXCEPT !.hot = TRUE, !.event = "sdp0"]
  /\ \E phys \in {FALSE, lw_phys} :
       /\ lw_phys' = phys
       /\ lw' = [lw EXCEPT !.cause = @ \/ phys # lw_phys, !.sched = TRUE]
  /\ UNCHANGED <<lw_pc, lw_seen, lw_missed, lw_flaps, lw_opens>>

-----------------------------------------------------------------------------
(* ixgbe_up_complete: pending causes are dropped, interrupts come on before
   the flag that asks the watchdog to look. *)
LwUp(l) ==
  [l EXCEPT !.down = FALSE, !.cause = FALSE, !.lsc = TRUE, !.need = TRUE, !.late = FALSE,
            !.sched = TRUE]

(* ixgbe_down: carrier and interrupts off, the flags cleared, the rings
   emptied.  A service task under way is not waited for. *)
LwDown(l) ==
  [l EXCEPT !.down = TRUE, !.carrier = FALSE, !.lsc = FALSE, !.need = FALSE, !.reset = FALSE,
            !.tx = FALSE]

LwOpen ==
  /\ lw.down /\ lw_opens < LwMaxOpens /\ lw_opens' = lw_opens + 1
  /\ lw' = LwUp(lw) /\ lw_missed' = (lw_pc = "clear")
  /\ UNCHANGED <<lw_phys, lw_pc, lw_seen, lw_heat, lw_flaps>>

LwClose ==
  /\ ~lw.down /\ lw' = LwDown(lw)
  /\ UNCHANGED <<lw_phys, lw_pc, lw_seen, lw_missed, lw_heat, lw_flaps, lw_opens>>

LwTransmit ==
  /\ ~lw.down /\ lw.carrier /\ ~lw.tx /\ lw' = [lw EXCEPT !.tx = TRUE]
  /\ UNCHANGED <<lw_phys, lw_pc, lw_seen, lw_missed, lw_heat, lw_flaps, lw_opens>>

LwSent ==     \* the controller sends only on a link (external), and the ring is cleaned
  /\ lw.tx /\ lw_phys /\ lw' = [lw EXCEPT !.tx = FALSE]
  /\ UNCHANGED <<lw_phys, lw_pc, lw_seen, lw_missed, lw_heat, lw_flaps, lw_opens>>

-----------------------------------------------------------------------------
(* The interrupt: ixgbe_msix_other, ixgbe_intr with ixgbe_check_lsc and
   ixgbe_check_overtemp_event.  LSC stays masked while the flag is set. *)
LwLsc ==
  /\ ~lw.down /\ lw.lsc /\ lw.cause
  /\ lw' = [lw EXCEPT !.cause = FALSE, !.need = TRUE, !.late = FALSE, !.lsc = FALSE, !.sched = TRUE]
  /\ lw_missed' = (lw_missed \/ lw_pc = "clear")
  /\ lw_heat' = [lw_heat EXCEPT !.event = "lsc"]
  /\ UNCHANGED <<lw_phys, lw_pc, lw_seen, lw_flaps, lw_opens>>

LwOtherIrq ==     \* any other cause ends in ixgbe_irq_enable
  /\ ~lw.down /\ ~lw.need /\ ~lw.lsc /\ lw' = [lw EXCEPT !.lsc = TRUE]
  /\ UNCHANGED <<lw_phys, lw_pc, lw_seen, lw_missed, lw_heat, lw_flaps, lw_opens>>

LwTimer ==     \* ixgbe_service_timer
  /\ ~lw.down /\ ~lw.sched /\ lw' = [lw EXCEPT !.sched = TRUE]
  /\ UNCHANGED <<lw_phys, lw_pc, lw_seen, lw_missed, lw_heat, lw_flaps, lw_opens>>

LwLate ==     \* IXGBE_TRY_LINK_TIMEOUT has passed
  /\ lw.need /\ ~lw.late /\ lw' = [lw EXCEPT !.late = TRUE]
  /\ UNCHANGED <<lw_phys, lw_pc, lw_seen, lw_missed, lw_heat, lw_flaps, lw_opens>>

-----------------------------------------------------------------------------
(* ixgbe_check_overtemp_subtask *)
LwReportOnce(h, up) ==
  IF h.event = "none" THEN h
  ELSE [h EXCEPT !.event = "none", !.reported = @ \/ (h.hot /\ ~(h.event = "sdp0" /\ up))]
LwReport(h, up) ==
  IF h.event = "none" \/ (h.event = "sdp0" /\ up) \/ ~h.hot THEN h
  ELSE [h EXCEPT !.event = "none", !.reported = TRUE]

(* ixgbe_service_task up to the watchdog: a requested reset is
   ixgbe_reinit_locked, then the temperature. *)
LwService ==
  /\ lw_pc = "idle" /\ lw.sched
  /\ lw' = IF lw.reset /\ ~lw.down THEN [LwUp(LwDown(lw)) EXCEPT !.sched = FALSE]
           ELSE [lw EXCEPT !.sched = FALSE, !.reset = FALSE]
  /\ lw_heat' = IF lw.down THEN lw_heat ELSE LwReport(lw_heat, lw_phys)
  /\ lw_pc' = "link" /\ UNCHANGED <<lw_phys, lw_seen, lw_missed, lw_flaps, lw_opens>>

(* ixgbe_watchdog_update_link: check_link, then the flag and the mask. *)
LwLink ==
  /\ lw_pc = "link" /\ lw_seen' = lw_phys
  /\ lw_pc' = IF lw.down THEN "idle" ELSE IF lw.need THEN "clear" ELSE "carrier"
  /\ UNCHANGED <<lw, lw_phys, lw_missed, lw_heat, lw_flaps, lw_opens>>

LwLooked(l) == [l EXCEPT !.need = FALSE, !.lsc = TRUE]

LwClear ==
  /\ lw_pc = "clear" /\ lw_pc' = "carrier"
  /\ lw' = [(IF lw_seen \/ lw.late THEN LwLooked(lw) ELSE lw) EXCEPT !.link_up = lw_seen]
  /\ UNCHANGED <<lw_phys, lw_seen, lw_missed, lw_heat, lw_flaps, lw_opens>>

(* ixgbe_watchdog_link_is_up, _link_is_down and ixgbe_watchdog_flush_tx *)
LwFlush(l) == IF ~l.carrier /\ l.tx THEN [l EXCEPT !.reset = TRUE] ELSE l

LwCarrier ==
  /\ lw_pc = "carrier" /\ lw_pc' = "idle"
  /\ lw' = LwFlush([lw EXCEPT !.carrier = lw.link_up])
  /\ UNCHANGED <<lw_phys, lw_seen, lw_missed, lw_heat, lw_flaps, lw_opens>>

LwTask == LwService \/ LwLink \/ LwClear \/ LwCarrier

LwNext ==
  \/ LwFlap \/ LwOverheats \/ LwOpen \/ LwClose \/ LwTransmit \/ LwSent
  \/ LwLsc \/ LwOtherIrq \/ LwTimer \/ LwLate \/ LwTask

LwSpec ==
  /\ LwInit /\ [][LwNext]_lwVars
  /\ WF_lwVars(LwTask) /\ WF_lwVars(LwTimer) /\ WF_lwVars(LwLsc) /\ WF_lwVars(LwLate)

-----------------------------------------------------------------------------
(* An open interface that is not waiting for the watchdog hears the next link
   change: LSC is never left masked (ixgbe_watchdog_update_link). *)
LwHears == ~lw.down /\ ~lw.need => lw.lsc

(* When link and interface stop changing, the carrier ends as the link is,
   unless an LSC interrupt or an open was handled between the watchdog's
   check_link and its clearing of NEED_LINK_UPDATE, which forgets it. *)
LwSettles == <>[](lw.down \/ lw.carrier = lw_phys \/ lw_missed)

(* Packets queued when the link was lost do not stay in the ring for ever: a
   reset flushes them, or they are sent (ixgbe_watchdog_flush_tx). *)
LwFlushes == (lw.tx /\ ~lw.carrier /\ ~lw.down) ~> (~lw.tx \/ lw.carrier \/ lw.down)

(* An overheated adapter that is open is reported, although SDP0 may be seen
   before the link goes down (ixgbe_check_overtemp_subtask). *)
LwHeatReported ==
  (lw_heat.hot /\ ~lw_phys /\ ~lw.down) ~> (lw_heat.reported \/ lw.down)

\* Everything about the watchdog: it hears of changes, settles on the state
\* of the link, flushes what waits when the link is lost, and reports heat.
LwCorrect ==
  /\ []LwHears
  /\ LwSettles
  /\ LwFlushes
  /\ LwHeatReported
=============================================================================
