-------------------------- MODULE AdapterLifecycle --------------------------
(***************************************************************************)
(* ixgbe_main.c: how an adapter is opened, closed, reset and removed by    *)
(* user requests (under the rtnl lock) while the service task, the service *)
(* timer and the interrupt handlers run beside them without that lock.     *)
(***************************************************************************)
EXTENDS Naturals

CONSTANTS
  MaxOps,     \* bound on user requests
  MaxEvents,  \* bound on requested resets and module (SFP+) failures
  Races       \* may a close or a removal begin in the middle of a reset?

ASSUME LifecycleAssumption ==
  MaxOps \in Nat /\ MaxEvents \in Nat /\ Races \in BOOLEAN

VARIABLES
  state,      \* adapter->state, as the set of its bits
  on,         \* what is active: receive queue, NAPI, interrupts, timer, work item
  owned,      \* allocated: ring memory and interrupt handlers
  reset_requested,  \* IXGBE_FLAG2_RESET_REQUESTED
  running,    \* netif_running()
  registered, \* adapter->netdev_registered
  rtnl,       \* who holds the rtnl lock
  pc, op,     \* where each process is, and which routine called it
  removed,    \* ixgbe_remove has freed the adapter
  ops, events

adapterVars == <<state, on, owned, reset_requested, running, registered, rtnl, pc,
                 op, removed, ops, events>>

Callers == {"user", "work"}   \* the processes that call ixgbe_down and ixgbe_up
Sources == {"timer", "irq"}   \* the processes that schedule the service task

Goto(p, label) == pc' = [pc EXCEPT ![p] = label]

ServiceResets ==
  op["work"] = "reinit" /\ pc["work"] \notin {"idle", "sfp", "sfp_out", "watchdog",
                                              "unregister", "complete"}

UserCloses == op["user"] \in {"close", "remove"} /\ pc["user"] # "idle"

(* What ixgbe_probe leaves behind. *)
AdapterInit ==
  /\ state = {"DOWN"} /\ on = {} /\ owned = {}
  /\ reset_requested = FALSE /\ running = FALSE /\ registered = TRUE
  /\ rtnl = "none"
  /\ pc = [p \in Callers \cup Sources |-> "idle"]
  /\ op = [p \in Callers |-> "none"]
  /\ removed = FALSE /\ ops = 0 /\ events = 0

-----------------------------------------------------------------------------
(* ixgbe_down, ixgbe_reset: steps of whichever process calls them.         *)
AfterReset(p) ==
  CASE op[p] \in {"close", "remove"} -> "free"
    [] op[p] = "reinit" -> "configure"
    [] op[p] = "ringparam" -> "realloc"
    [] op[p] \in {"openfail", "reset"} -> "return"

DownBegin(p) ==
  /\ pc[p] = "down"
  /\ state' = state \cup {"DOWN"}
  /\ on' = on \ {"rxq"}
  /\ Goto(p, "irq_off")
  /\ UNCHANGED <<owned, reset_requested, running, registered, rtnl, op, removed,
                 ops, events>>

(* ixgbe_irq_disable waits for handlers that are running. *)
IrqDisable(p) ==
  /\ pc[p] = "irq_off" /\ pc["irq"] = "idle"
  /\ on' = on \ {"irq"}
  /\ Goto(p, "napi_off")
  /\ UNCHANGED <<state, owned, reset_requested, running, registered, rtnl, op,
                 removed, ops, events>>

(* napi_disable waits until the instance is enabled. *)
NapiDisable(p) ==
  /\ pc[p] = "napi_off" /\ "napi" \in on
  /\ on' = on \ {"napi"}
  /\ Goto(p, "del_timer")
  /\ UNCHANGED <<state, owned, reset_requested, running, registered, rtnl, op,
                 removed, ops, events>>

TimerDeleted == on \ {"timer"}

DelTimer(p) ==
  /\ pc[p] = "del_timer" /\ pc["timer"] = "idle"
  /\ reset_requested' = FALSE
  /\ on' = TimerDeleted
  /\ Goto(p, "reset")
  /\ UNCHANGED <<state, owned, running, registered, rtnl, op, removed, ops, events>>

ResetBegin(p) ==
  /\ pc[p] = "reset" /\ "IN_SFP_INIT" \notin state
  /\ state' = state \cup {"IN_SFP_INIT"}
  /\ Goto(p, "init_hw")
  /\ UNCHANGED <<on, owned, reset_requested, running, registered, rtnl, op, removed,
                 ops, events>>

(* init_hw stops the receive units and masks the interrupts. *)
ResetEnd(p) ==
  /\ pc[p] = "init_hw"
  /\ state' = state \ {"IN_SFP_INIT"}
  /\ on' = on \ {"rxq", "irq"}
  /\ Goto(p, AfterReset(p))
  /\ UNCHANGED <<owned, reset_requested, running, registered, rtnl, op, removed,
                 ops, events>>

Down(p) == DownBegin(p) \/ IrqDisable(p) \/ NapiDisable(p) \/ DelTimer(p)
           \/ ResetBegin(p) \/ ResetEnd(p)

-----------------------------------------------------------------------------
(* ixgbe_configure and ixgbe_up_complete. *)
Configure(p) ==
  /\ pc[p] = "configure"
  /\ on' = on \cup {"rxq"}
  /\ Goto(p, IF op[p] = "open" THEN "request_irq" ELSE "up")
  /\ UNCHANGED <<state, owned, reset_requested, running, registered, rtnl, op,
                 removed, ops, events>>

StillDown == state

ClearDown == state \ {"DOWN"}

UpBegin(p) ==
  /\ pc[p] = "up"
  /\ state' = ClearDown
  /\ Goto(p, "napi_on")
  /\ UNCHANGED <<on, owned, reset_requested, running, registered, rtnl, op, removed,
                 ops, events>>

NapiEnable(p) ==
  /\ pc[p] = "napi_on"
  /\ on' = on \cup {"napi"}
  /\ Goto(p, "irq_on")
  /\ UNCHANGED <<state, owned, reset_requested, running, registered, rtnl, op,
                 removed, ops, events>>

IrqEnable(p) ==
  /\ pc[p] = "irq_on"
  /\ on' = on \cup {"irq"}
  /\ Goto(p, "mod_timer")
  /\ UNCHANGED <<state, owned, reset_requested, running, registered, rtnl, op,
                 removed, ops, events>>

ModTimer(p) ==
  /\ pc[p] = "mod_timer"
  /\ on' = on \cup {"timer"}
  /\ Goto(p, IF op[p] = "open" THEN "return" ELSE "unlock")
  /\ UNCHANGED <<state, owned, reset_requested, running, registered, rtnl, op,
                 removed, ops, events>>

UpComplete(p) == UpBegin(p) \/ NapiEnable(p) \/ IrqEnable(p) \/ ModTimer(p)

-----------------------------------------------------------------------------
(* The RESETTING bit serialises ixgbe_reinit_locked and set_ringparam. *)
Locked == {"down", "irq_off", "napi_off", "del_timer", "reset", "init_hw", "realloc",
           "configure", "up", "napi_on", "irq_on", "mod_timer", "unlock"}

LockFree == "RESETTING" \notin state

NeedsDown(p) == op[p] = "ringparam" => running

Lock(p) ==
  /\ pc[p] = "lock" /\ LockFree
  /\ state' = state \cup {"RESETTING"}
  /\ Goto(p, IF NeedsDown(p) THEN "down" ELSE "unlock")
  /\ UNCHANGED <<on, owned, reset_requested, running, registered, rtnl, op, removed,
                 ops, events>>

Unlock(p) ==
  /\ pc[p] = "unlock"
  /\ state' = state \ {"RESETTING"}
  /\ Goto(p, IF p = "user" THEN "return" ELSE "sfp")
  /\ UNCHANGED <<on, owned, reset_requested, running, registered, rtnl, op, removed,
                 ops, events>>

(* set_ringparam: new ring memory, or the old one if there is none. *)
Realloc(p) ==
  /\ pc[p] = "realloc"
  /\ Goto(p, "configure")
  /\ UNCHANGED <<state, on, owned, reset_requested, running, registered, rtnl, op,
                 removed, ops, events>>

(* The end of ixgbe_close: free_irq and the ring memory. *)
Free(p) ==
  /\ pc[p] = "free"
  /\ owned' = {}
  /\ Goto(p, IF p = "work" THEN "watchdog"
             ELSE IF op[p] = "remove" THEN "free_adapter" ELSE "return")
  /\ rtnl' = IF p = "work" THEN "none" ELSE rtnl
  /\ UNCHANGED <<state, on, reset_requested, running, registered, op, removed, ops,
                 events>>

-----------------------------------------------------------------------------
(* User requests. *)
Request(name, label) ==
  /\ pc["user"] = "idle" /\ ~removed /\ ops < MaxOps
  /\ rtnl = "none" /\ rtnl' = "user"
  /\ op' = [op EXCEPT !["user"] = name]
  /\ Goto("user", label)
  /\ ops' = ops + 1

CalmAdapter == Races \/ (~ServiceResets /\ \A s \in Sources : pc[s] = "idle")

Open ==
  /\ registered /\ ~running
  /\ Request("open", "setup")
  /\ running' = TRUE
  /\ UNCHANGED <<state, on, owned, reset_requested, registered, removed, events>>

Close ==
  /\ registered /\ running /\ CalmAdapter
  /\ Request("close", "down")
  /\ running' = FALSE
  /\ UNCHANGED <<state, on, owned, reset_requested, registered, removed, events>>

(* ixgbe_change_mtu, ixgbe_set_pauseparam and the other callers of
   ixgbe_reinit_locked; ixgbe_do_reset when the interface is down. *)
Reinit ==
  /\ registered
  /\ IF running THEN Request("reinit", "lock") ELSE Request("reset", "reset")
  /\ UNCHANGED <<state, on, owned, reset_requested, running, registered, removed,
                 events>>

SetRingparam ==
  /\ registered
  /\ Request("ringparam", "lock")
  /\ UNCHANGED <<state, on, owned, reset_requested, running, registered, removed,
                 events>>

(* ixgbe_open allocates the rings; if that fails, or the interrupts cannot
   be had, it gives up and resets the adapter. *)
SetupRx ==
  /\ pc["user"] = "setup"
  /\ owned' = {"rings"}
  /\ Goto("user", "configure")
  /\ UNCHANGED <<state, on, reset_requested, running, registered, rtnl, op, removed,
                 ops, events>>

AfterFailure == "reset"

OpenFails ==
  /\ pc["user"] \in {"setup", "request_irq"}
  /\ owned' = {}
  /\ op' = [op EXCEPT !["user"] = "openfail"]
  /\ Goto("user", AfterFailure)
  /\ UNCHANGED <<state, on, reset_requested, running, registered, rtnl, removed, ops,
                 events>>

RequestIrq ==
  /\ pc["user"] = "request_irq"
  /\ owned' = owned \cup {"handlers"}
  /\ Goto("user", "up")
  /\ UNCHANGED <<state, on, reset_requested, running, registered, rtnl, op, removed,
                 ops, events>>

Return ==
  /\ pc["user"] = "return"
  /\ running' = (running /\ op["user"] # "openfail")
  /\ rtnl' = "none"
  /\ Goto("user", "idle")
  /\ UNCHANGED <<state, on, owned, reset_requested, registered, op, removed, ops,
                 events>>

(* ixgbe_remove does not hold rtnl until it calls unregister_netdev. *)
RemoveBegin ==
  /\ pc["user"] = "idle" /\ ~removed /\ ops < MaxOps /\ CalmAdapter
  /\ state' = state \cup {"DOWN"}
  /\ op' = [op EXCEPT !["user"] = "remove"]
  /\ ops' = ops + 1
  /\ Goto("user", "cancel_work")
  /\ UNCHANGED <<on, owned, reset_requested, running, registered, rtnl, removed,
                 events>>

CancelNothing == TRUE

CancelWaits == pc["work"] = "idle"

CancelWork ==
  /\ pc["user"] = "cancel_work" /\ CancelWaits
  /\ on' = on \ {"work"}
  /\ Goto("user", "unregister")
  /\ UNCHANGED <<state, owned, reset_requested, running, registered, rtnl, op,
                 removed, ops, events>>

Unregister ==
  /\ pc["user"] = "unregister" /\ rtnl = "none"
  /\ registered' = FALSE /\ running' = FALSE
  /\ Goto("user", IF running THEN "down" ELSE "free_adapter")
  /\ UNCHANGED <<state, on, owned, reset_requested, rtnl, op, removed, ops, events>>

FreeAdapter ==
  /\ pc["user"] = "free_adapter"
  /\ removed' = TRUE
  /\ Goto("user", "idle")
  /\ UNCHANGED <<state, on, owned, reset_requested, running, registered, rtnl, op,
                 ops, events>>

-----------------------------------------------------------------------------
(* The service timer and the interrupt handlers. *)
TimerFires ==
  /\ pc["timer"] = "idle" /\ "timer" \in on /\ "DOWN" \notin state
  /\ Goto("timer", "schedule")
  /\ UNCHANGED <<state, on, owned, reset_requested, running, registered, rtnl, op,
                 removed, ops, events>>

(* An unrecoverable ECC error, or a Tx hang seen by the clean-up. *)
IrqFires ==
  /\ pc["irq"] = "idle" /\ "irq" \in on
  /\ events < MaxEvents /\ events' = events + 1
  /\ reset_requested' = TRUE
  /\ Goto("irq", IF "DOWN" \in state THEN "idle" ELSE "schedule")
  /\ UNCHANGED <<state, on, owned, running, registered, rtnl, op, removed, ops>>

NotScheduled == "SERVICE_SCHED" \notin state

(* ixgbe_service_event_schedule, behind its test of DOWN. *)
Schedule(s) ==
  /\ pc[s] = "schedule"
  /\ state' = state \cup {"SERVICE_SCHED"}
  /\ on' = IF NotScheduled THEN on \cup {"work"} ELSE on
  /\ Goto(s, "idle")
  /\ UNCHANGED <<owned, reset_requested, running, registered, rtnl, op, removed, ops,
                 events>>

-----------------------------------------------------------------------------
(* ixgbe_service_task. *)
WorkRuns ==
  /\ pc["work"] = "idle" /\ "work" \in on
  /\ on' = on \ {"work"}
  /\ op' = [op EXCEPT !["work"] = "none"]
  /\ Goto("work", "reset_subtask")
  /\ UNCHANGED <<state, owned, reset_requested, running, registered, rtnl, removed,
                 ops, events>>

MayReset == state \cap {"DOWN", "RESETTING"} = {}

ResetSubtask ==
  /\ pc["work"] = "reset_subtask"
  /\ reset_requested /\ MayReset => Races \/ ~UserCloses
  /\ reset_requested' = FALSE
  /\ IF reset_requested /\ MayReset
     THEN Goto("work", "lock") /\ op' = [op EXCEPT !["work"] = "reinit"]
     ELSE Goto("work", "sfp") /\ op' = op
  /\ UNCHANGED <<state, on, owned, running, registered, rtnl, removed, ops, events>>

(* ixgbe_sfp_detection_subtask and ixgbe_sfp_link_config_subtask: nothing to
   do, or somebody else is in init ... *)
SfpSkip ==
  /\ pc["work"] = "sfp"
  /\ Goto("work", "watchdog")
  /\ UNCHANGED <<state, on, owned, reset_requested, running, registered, rtnl, op,
                 removed, ops, events>>

SfpBegin ==
  /\ pc["work"] = "sfp" /\ "IN_SFP_INIT" \notin state
  /\ state' = state \cup {"IN_SFP_INIT"}
  /\ Goto("work", "sfp_out")
  /\ UNCHANGED <<on, owned, reset_requested, running, registered, rtnl, op, removed,
                 ops, events>>

SfpOut ==
  /\ pc["work"] = "sfp_out"
  /\ state' = state \ {"IN_SFP_INIT"}
  /\ \/ Goto("work", "watchdog") /\ events' = events
     \/ registered /\ events < MaxEvents
        /\ events' = events + 1 /\ Goto("work", "unregister")
  /\ UNCHANGED <<on, owned, reset_requested, running, registered, rtnl, op, removed,
                 ops>>

(* An unsupported module: the service task unregisters the interface. *)
SfpUnregister ==
  /\ pc["work"] = "unregister" /\ rtnl = "none" /\ registered
  /\ registered' = FALSE /\ running' = FALSE
  /\ op' = [op EXCEPT !["work"] = "close"]
  /\ rtnl' = IF running THEN "work" ELSE rtnl
  /\ Goto("work", IF running THEN "down" ELSE "watchdog")
  /\ UNCHANGED <<state, on, owned, reset_requested, removed, ops, events>>

(* ixgbe_watchdog_subtask: queued Tx work without a link asks for a reset. *)
Watchdog ==
  /\ pc["work"] = "watchdog"
  /\ \/ UNCHANGED <<reset_requested, events>>
     \/ MayReset /\ events < MaxEvents /\ events' = events + 1
        /\ reset_requested' = TRUE
  /\ Goto("work", "complete")
  /\ UNCHANGED <<state, on, owned, running, registered, rtnl, op, removed, ops>>

Complete ==
  /\ pc["work"] = "complete"
  /\ state' = state \ {"SERVICE_SCHED"}
  /\ Goto("work", "idle")
  /\ UNCHANGED <<on, owned, reset_requested, running, registered, rtnl, op, removed,
                 ops, events>>

-----------------------------------------------------------------------------
Calls(p) == Down(p) \/ UpComplete(p) \/ Lock(p) \/ Unlock(p) \/ Realloc(p) \/ Free(p)

UserBegins == Open \/ Close \/ Reinit \/ SetRingparam \/ RemoveBegin

UserGoesOn == Calls("user") \/ OpenFails \/ RequestIrq \/ Return \/ CancelWork
              \/ Unregister \/ FreeAdapter

WorkGoesOn == Calls("work") \/ WorkRuns \/ ResetSubtask \/ SfpSkip \/ SfpBegin
              \/ SfpOut \/ SfpUnregister \/ Watchdog \/ Complete

SourcesGoOn == TimerFires \/ IrqFires \/ \E s \in Sources : Schedule(s)

(* Everything but the two steps the capture threads notice. *)
Unnoticed == UserBegins \/ UserGoesOn \/ WorkGoesOn \/ SourcesGoOn

AdapterNext == Unnoticed \/ SetupRx \/ \E p \in Callers : Configure(p)

AdapterSpec == AdapterInit /\ [][AdapterNext]_adapterVars

(* Every process is scheduled, and the timer expires. *)
AdapterFairSpec ==
  /\ AdapterSpec
  /\ WF_adapterVars(UserGoesOn \/ SetupRx \/ Configure("user"))
  /\ WF_adapterVars(WorkGoesOn \/ Configure("work"))
  /\ WF_adapterVars(TimerFires)
  /\ \A s \in Sources : WF_adapterVars(Schedule(s))
-----------------------------------------------------------------------------
(***************************************************************************)
(* When ixgbe_close, or an ixgbe_open that failed, has returned and no     *)
(* service task runs, the receive queue, NAPI, the interrupts and the      *)
(* timer are off and the rings are freed.                                  *)
(***************************************************************************)
ClosedIsQuiet ==
  ~running /\ pc["user"] = "idle" /\ pc["work"] = "idle" =>
    "DOWN" \in state /\ on \subseteq {"work"} /\ owned = {}

(***************************************************************************)
(* Nothing can touch the adapter once ixgbe_remove has freed it: no timer, *)
(* no interrupt, no queued or running service task.                        *)
(***************************************************************************)
NothingAfterRemove ==
  removed => on = {} /\ \A p \in Callers \cup Sources : pc[p] = "idle"

(***************************************************************************)
(* The NIC's receive queue is enabled only while the driver owns the       *)
(* memory of the ring (ixgbe_open's error path excepted: it frees the ring *)
(* just before the reset that stops the queue).                            *)
(***************************************************************************)
DmaHasMemory == "rxq" \in on => "rings" \in owned \/ op["user"] = "openfail"

(***************************************************************************)
(* At most one process is between test_and_set_bit and clear_bit of        *)
(* RESETTING, and of IN_SFP_INIT, and the bits say whether one is.         *)
(***************************************************************************)
LocksHeldOnce ==
  LET Resets == {p \in Callers : op[p] \in {"reinit", "ringparam"} /\ pc[p] \in Locked}
      Inits == {p \in Callers : pc[p] \in {"init_hw", "sfp_out"}}
  IN /\ \A p, q \in Resets : p = q
     /\ \A p, q \in Inits : p = q
     /\ "RESETTING" \in state <=> Resets # {}
     /\ "IN_SFP_INIT" \in state <=> Inits # {}

(***************************************************************************)
(* The BUG_ON of ixgbe_service_event_complete does not fire, and the task  *)
(* is never queued while it runs.                                          *)
(***************************************************************************)
ServiceOnce ==
  pc["work"] # "idle" => "SERVICE_SCHED" \in state /\ "work" \notin on

(***************************************************************************)
(* A reset that is asked for is carried out, or dropped by a close: the    *)
(* flag never stays set for ever on a running interface.                   *)
(***************************************************************************)
ResetIsServed == reset_requested ~> (~reset_requested \/ ~running)

(***************************************************************************)
(* Every user request ends: no request waits for ever for the RESETTING or *)
(* IN_SFP_INIT bit, for NAPI or for the service task.                      *)
(***************************************************************************)
RequestsEnd == pc["user"] # "idle" ~> pc["user"] = "idle"

\* The five about safety: closed and removed interfaces are quiet, the NIC
\* writes only into memory the driver owns, and locks and the service task
\* are taken once.
AdapterSafe ==
  /\ ClosedIsQuiet
  /\ NothingAfterRemove
  /\ DmaHasMemory
  /\ LocksHeldOnce
  /\ ServiceOnce

\* Both: resets that are asked for and requests of the user come to an end.
AdapterLive ==
  /\ ResetIsServed
  /\ RequestsEnd
=============================================================================
