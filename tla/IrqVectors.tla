----------------------------- MODULE IrqVectors -----------------------------
(***************************************************************************)
(* Interrupts of a port (ixgbe_main.c): requesting them, queue vectors and *)
(* NAPI polling under auto-masking, the handler of the other causes, the   *)
(* legacy handler that serves everything from one line, strobing by the    *)
(* service task, and masking when the port goes down.                      *)
(***************************************************************************)
EXTENDS Naturals, FiniteSets

CONSTANTS
  IqCount,     \* queue vectors of an MSI-X configuration, num_q_vectors
  IqMaxOther,  \* bound on causes other than queues, and on foreign interrupts
  IqMaxOpens   \* bound on opens

ASSUME IqAssumption == {IqCount, IqMaxOther, IqMaxOpens} \subseteq Nat /\ IqCount > 0

VARIABLES
  iq_msix, iq_vecs,  \* MSIX_ENABLED; vectors in use
  iq_port,     \* "closed", "up", "down" (DOWN set), "masked" (interrupts off)
  iq_mask, iq_cause, \* EIMS and EICR: sets of vectors and IqOther
  iq_reg,      \* interrupts requested from the kernel
  iq_work,     \* vectors whose rings have completions
  iq_sched,    \* NAPI scheduled, or disabled
  iq_poll,     \* vectors whose poll has cleaned its rings and not completed
  iq_tail, iq_on,  \* completed: before and after the test of DOWN
  iq_h,        \* shared handler: [pc, seen]
  iq_other, iq_opens

iqVars == <<iq_msix, iq_vecs, iq_port, iq_mask, iq_cause, iq_reg, iq_work, iq_sched, iq_poll,
            iq_tail, iq_on, iq_h, iq_other, iq_opens>>

IqAll == 0..(IqCount - 1)
IqOther == IqCount     \* the last MSI-X entry, and its causes
IqLine == IqCount + 1  \* pdev->irq
IqQuiet == [pc |-> "idle", seen |-> {}]

IqInit ==
  /\ iq_msix \in BOOLEAN /\ iq_vecs = (IF iq_msix THEN IqAll ELSE {0}) /\ iq_port = "closed"
  /\ iq_mask = {} /\ iq_cause = {} /\ iq_reg = {} /\ iq_work = {} /\ iq_sched = iq_vecs
  /\ iq_poll = {} /\ iq_tail = {} /\ iq_on = {} /\ iq_h = IqQuiet /\ iq_other = 0 /\ iq_opens = 0

-----------------------------------------------------------------------------
(* ixgbe_request_msix_irqs with request `k` refused: what is left registered
   after `while (vector) { vector--; free_irq }`. *)
IqLeft(k) == (0..(k - 1)) \ (0..(k - 1))

IqNapi == <<iq_work, iq_sched, iq_poll, iq_tail, iq_on>>

IqOpens == iq_port = "closed" /\ iq_opens < IqMaxOpens /\ iq_opens' = iq_opens + 1

(* ixgbe_open, ixgbe_up_complete: NAPI enabled, pending causes read away,
   interrupts enabled. *)
IqOpen ==
  /\ IqOpens /\ iq_port' = "up" /\ iq_reg' = (IF iq_msix THEN iq_vecs \cup {IqOther} ELSE {IqLine})
  /\ iq_sched' = {} /\ iq_cause' = {} /\ iq_mask' = iq_vecs \cup {IqOther}
  /\ UNCHANGED <<iq_msix, iq_vecs, iq_work, iq_poll, iq_tail, iq_on, iq_h, iq_other>>

(* A refused MSI-X request gives MSI-X up for good, with the rings left as
   they were; a refused line changes nothing. *)
IqOpenFails ==
  /\ IqOpens
  /\ \E k \in 0..Cardinality(iq_vecs) : iq_reg' = IF iq_msix THEN IqLeft(k) ELSE {}
  /\ iq_msix' = FALSE /\ iq_mask' = {} /\ iq_cause' = {}
  /\ UNCHANGED <<iq_vecs, iq_port, IqNapi, iq_h, iq_other>>

-----------------------------------------------------------------------------
IqRouted(v) == iq_msix \/ v = 0     \* configure_msix; configure_msi_and_legacy

IqArrives ==     \* a completion is written back
  \E v \in iq_vecs :
    /\ iq_port = "up" /\ iq_work' = iq_work \cup {v}
    /\ iq_cause' = (IF IqRouted(v) THEN iq_cause \cup {v} ELSE iq_cause)
    /\ UNCHANGED <<iq_msix, iq_vecs, iq_port, iq_mask, iq_reg, iq_sched, iq_poll, iq_tail, iq_on,
                   iq_h, iq_other, iq_opens>>

IqOtherArrives ==
  /\ iq_port # "closed" /\ iq_other < IqMaxOther /\ iq_other' = iq_other + 1
  /\ iq_cause' = iq_cause \cup {IqOther}
  /\ UNCHANGED <<iq_msix, iq_vecs, iq_port, iq_mask, iq_reg, IqNapi, iq_h, iq_opens>>

(* ixgbe_msix_clean_rings: the cause is cleared and the vector masked by the
   controller (EIAC, EIAM). *)
IqVector(v) ==
  /\ iq_msix /\ v \in iq_mask \cap iq_cause \cap iq_reg
  /\ iq_mask' = iq_mask \ {v} /\ iq_cause' = iq_cause \ {v} /\ iq_sched' = iq_sched \cup {v}
  /\ UNCHANGED <<iq_msix, iq_vecs, iq_port, iq_reg, iq_work, iq_poll, iq_tail, iq_on, iq_h,
                 iq_other, iq_opens>>

(* ixgbe_msix_other reads the causes without clearing them ... *)
IqOtherReads ==
  /\ iq_msix /\ iq_h.pc = "idle" /\ IqOther \in iq_mask \cap iq_cause \cap iq_reg
  /\ iq_h' = [pc |-> "ack", seen |-> iq_cause]
  /\ UNCHANGED <<iq_msix, iq_vecs, iq_port, iq_mask, iq_cause, iq_reg, IqNapi, iq_other, iq_opens>>

IqAckedAll(seen) == seen
IqAcked(seen) == seen \cap {IqOther}     \* eicr &= 0xFFFF0000

(* ... clears the ones it saw that are not queues', handles them and enables
   them again unless the port is going down. *)
IqOtherActs ==
  /\ iq_msix /\ iq_h.pc = "ack" /\ iq_h' = IqQuiet /\ iq_cause' = iq_cause \ IqAcked(iq_h.seen)
  /\ iq_mask' = (IF iq_port = "up" THEN iq_mask \cup {IqOther} ELSE iq_mask)
  /\ UNCHANGED <<iq_msix, iq_vecs, iq_port, iq_reg, IqNapi, iq_other, iq_opens>>

(* ixgbe_intr, entered for the port or for another device on its line ... *)
IqLineEnters ==
  /\ ~iq_msix /\ iq_h.pc = "idle" /\ iq_reg = {IqLine}
  /\ \/ iq_mask \cap iq_cause # {} /\ UNCHANGED iq_other
     \/ iq_other < IqMaxOther /\ iq_other' = iq_other + 1
  /\ iq_mask' = {} /\ iq_h' = [pc |-> "read", seen |-> {}]
  /\ UNCHANGED <<iq_msix, iq_vecs, iq_port, iq_cause, iq_reg, IqNapi, iq_opens>>

(* ... reads and clears every cause, schedules the first vector's NAPI and
   enables the other causes; with nothing to do it enables everything. *)
IqLineActs ==
  /\ ~iq_msix /\ iq_h.pc = "read" /\ iq_h' = IqQuiet /\ iq_cause' = {}
  /\ iq_sched' = (IF iq_cause = {} THEN iq_sched ELSE iq_sched \cup {0})
  /\ iq_mask' = (IF iq_port # "up" THEN iq_mask
                 ELSE iq_mask \cup {IqOther} \cup (IF iq_cause = {} THEN iq_vecs ELSE {}))
  /\ UNCHANGED <<iq_msix, iq_vecs, iq_port, iq_reg, iq_work, iq_poll, iq_tail, iq_on, iq_other,
                 iq_opens>>

-----------------------------------------------------------------------------
(* ixgbe_poll: clean the rings, ... *)
IqCleans(v) ==
  /\ v \in iq_sched \ iq_poll /\ iq_port # "closed"
  /\ iq_work' = iq_work \ {v} /\ iq_poll' = iq_poll \cup {v}
  /\ UNCHANGED <<iq_msix, iq_vecs, iq_port, iq_mask, iq_cause, iq_reg, iq_sched, iq_tail, iq_on,
                 iq_h, iq_other, iq_opens>>

(* ... napi_complete, ... *)
IqCompletes(v) ==
  /\ v \in iq_poll /\ iq_poll' = iq_poll \ {v} /\ iq_sched' = iq_sched \ {v}
  /\ iq_tail' = iq_tail \cup {v}
  /\ UNCHANGED <<iq_msix, iq_vecs, iq_port, iq_mask, iq_cause, iq_reg, iq_work, iq_on, iq_h,
                 iq_other, iq_opens>>

(* ... then test DOWN and enable the vector. *)
IqTests(v) ==
  /\ v \in iq_tail /\ iq_tail' = iq_tail \ {v}
  /\ iq_on' = (IF iq_port = "up" THEN iq_on \cup {v} ELSE iq_on)
  /\ UNCHANGED <<iq_msix, iq_vecs, iq_port, iq_mask, iq_cause, iq_reg, iq_work, iq_sched, iq_poll,
                 iq_h, iq_other, iq_opens>>

IqEnables(v) ==     \* ixgbe_irq_enable_queues
  /\ v \in iq_on /\ iq_on' = iq_on \ {v} /\ iq_mask' = iq_mask \cup {v}
  /\ UNCHANGED <<iq_msix, iq_vecs, iq_port, iq_cause, iq_reg, iq_work, iq_sched, iq_poll, iq_tail,
                 iq_h, iq_other, iq_opens>>

-----------------------------------------------------------------------------
(* ixgbe_check_hang_subtask, ixgbe_irq_rearm_queues: EICS *)
IqStrobed == IF iq_msix THEN iq_vecs ELSE {IqOther}

IqStrobe ==
  /\ iq_port = "up" /\ iq_cause' = iq_cause \cup IqStrobed
  /\ UNCHANGED <<iq_msix, iq_vecs, iq_port, iq_mask, iq_reg, IqNapi, iq_h, iq_other, iq_opens>>

(* ixgbe_close: DOWN is set; ixgbe_irq_disable masks and waits for handlers;
   napi_disable waits for polls; the reset masks again, and the interrupts
   are freed.  The last instructions of a poll, after napi_complete, are
   assumed over before that reset, which comes after sleeps. *)
IqDown ==
  /\ \/ iq_port = "up" /\ iq_port' = "down" /\ UNCHANGED <<iq_mask, iq_cause, iq_reg, iq_work, iq_sched>>
     \/ /\ iq_port = "down" /\ iq_h.pc = "idle" /\ iq_port' = "masked" /\ iq_mask' = {}
        /\ UNCHANGED <<iq_cause, iq_reg, iq_work, iq_sched>>
     \/ /\ iq_port = "masked" /\ iq_sched \cup iq_tail \cup iq_on = {} /\ iq_h.pc = "idle" /\ iq_port' = "closed"
        /\ iq_mask' = {} /\ iq_cause' = {} /\ iq_reg' = {} /\ iq_work' = {} /\ iq_sched' = iq_vecs
  /\ UNCHANGED <<iq_msix, iq_vecs, iq_poll, iq_tail, iq_on, iq_h, iq_other, iq_opens>>

IqHandlers == IqOtherReads \/ IqOtherActs \/ IqLineEnters \/ IqLineActs
IqPolls(v) == IqCleans(v) \/ IqCompletes(v) \/ IqTests(v) \/ IqEnables(v)

IqNext ==
  \/ IqOpen \/ IqOpenFails \/ IqArrives \/ IqOtherArrives \/ IqHandlers \/ IqStrobe \/ IqDown
  \/ \E v \in IqAll : IqVector(v) \/ IqPolls(v)

IqFair ==
  /\ WF_iqVars(IqHandlers) /\ WF_iqVars(IqStrobe)
  /\ \A v \in IqAll : WF_iqVars(IqVector(v)) /\ WF_iqVars(IqPolls(v))

IqSpec == IqInit /\ [][IqNext]_iqVars /\ IqFair

-----------------------------------------------------------------------------
(* With MSI-X no wake-up is lost: a vector with completions that nobody is
   about to poll is enabled with its cause pending, whatever the handler of
   the other causes cleared meanwhile (ixgbe_msix_other's "not accidently
   clear them", EIAM and ixgbe_poll's order of complete and enable). *)
IqArmed ==
  \A v \in iq_work \ (iq_sched \cup iq_tail \cup iq_on) :
    iq_msix /\ iq_port = "up" => v \in iq_mask \cap iq_cause

(* Completions of every vector that has an interrupt are cleaned while
   the port is up, on a shared
   line too, where a wake-up can be lost and the strobe repairs it
   (ixgbe_check_hang_subtask: "check for hung queues and dropped interrupts"). *)
IqServed ==
  \A v \in IqAll : (v \in iq_work /\ IqRouted(v)) ~> (v \notin iq_work \/ iq_port # "up")

(* A closed port holds no interrupt, whichever request the kernel refused. *)
IqReturned == iq_port = "closed" => iq_reg = {}

\* Both: no wake-up is lost with MSI-X, and no interrupt outlives the port.
IqSafe ==
  /\ IqArmed
  /\ IqReturned
=============================================================================
