--------------------------- MODULE CaptureSession ---------------------------
(***************************************************************************)
(* The capture threads inside the driver that carries them: pbm_init_all   *)
(* starts them when the module is loaded, ixgbe_open hands them ring 0,    *)
(* ./start and ./stop steer them, and rmmod takes the module away.         *)
(***************************************************************************)
EXTENDS AdapterLifecycle

CONSTANTS
  MaxRefills,  \* bound on the refills of one capture
  MaxLoads,    \* bound on insmod
  Documented   \* do users follow README.md?  Set up, start, stop, remove

ASSUME SessionAssumption ==
  MaxRefills \in Nat /\ MaxLoads \in Nat /\ Documented \in BOOLEAN

VARIABLES
  pbm_rx_ring,            \* not NULL
  tail,                   \* ring->tail points at the RDT register
  user_start, user_stop,  \* the shared page
  thread,                 \* where nlsim_alloc_thread is
  sup, rdt,               \* its position in the ring, and the NIC's tail register
  loads

sessionVars == <<pbm_rx_ring, tail, user_start, user_stop, thread, sup, rdt, loads>>
vars == <<adapterVars, sessionVars>>

(* pbm_init_all: clear the flags, create the threads. *)
Init ==
  /\ AdapterInit
  /\ pbm_rx_ring = FALSE /\ tail = FALSE
  /\ user_start = FALSE /\ user_stop = FALSE
  /\ thread = "ring" /\ sup = 0 /\ rdt = 0 /\ loads = 1

-----------------------------------------------------------------------------
(* driver_ixgbe has run to its end: the interface is up and left alone. *)
SetUp == running /\ pc["user"] = "idle" /\ pc["work"] = "idle"

Capturing == user_start /\ thread # "gone"

(* With Documented, an interface is not reconfigured while it captures, and the
   module is removed only when its threads have ended. *)
UserRequest ==
  /\ UserBegins
  /\ Documented => ~Capturing /\ (op'["user"] = "remove" => thread = "gone")
  /\ UNCHANGED sessionVars

Background == (UserGoesOn \/ WorkGoesOn \/ SourcesGoOn) /\ UNCHANGED sessionVars

RingNotSet == pbm_rx_ring

RingSet == TRUE

(* ixgbe_setup_all_rx_resources publishes ring 0, before it is configured and
   also when its allocation fails. *)
HandOverRing ==
  /\ \/ SetupRx
     \/ pc["user"] = "setup" /\ OpenFails
  /\ pbm_rx_ring' = RingSet
  /\ UNCHANGED <<tail, user_start, user_stop, thread, sup, rdt, loads>>

(* ixgbe_configure_rx_ring writes 0 to RDH and RDT. *)
ConfigureRing ==
  /\ \E p \in Callers : Configure(p)
  /\ tail' = TRUE
  /\ rdt' = 0
  /\ UNCHANGED <<pbm_rx_ring, user_start, user_stop, thread, sup, loads>>

(* ./start and ./stop find the magic numbers of a loaded driver. *)
UserStart ==
  /\ ~user_start /\ (Documented => SetUp)
  /\ user_start' = TRUE
  /\ UNCHANGED <<adapterVars, pbm_rx_ring, tail, user_stop, thread, sup, rdt, loads>>

UserStop ==
  /\ ~user_stop
  /\ user_stop' = TRUE
  /\ UNCHANGED <<adapterVars, pbm_rx_ring, tail, user_start, thread, sup, rdt, loads>>

-----------------------------------------------------------------------------
(* nlsim_alloc_thread: wait for the ring, then for the start ... *)
SeesRing ==
  /\ thread = "ring" /\ pbm_rx_ring
  /\ thread' = "start"
  /\ UNCHANGED <<adapterVars, pbm_rx_ring, tail, user_start, user_stop, sup, rdt,
                 loads>>

StartIgnored == thread = "start"

StartSeen == thread = "start" /\ user_start

SeesStart ==
  /\ StartSeen
  /\ thread' = "run"
  /\ UNCHANGED <<adapterVars, pbm_rx_ring, tail, user_start, user_stop, sup, rdt,
                 loads>>

(* ... then refill descriptors and move the tail ... *)
Refill ==
  /\ thread = "run" /\ ~user_stop /\ sup < MaxRefills
  /\ sup' = sup + 1
  /\ rdt' = sup + 1
  /\ UNCHANGED <<adapterVars, pbm_rx_ring, tail, user_start, user_stop, thread, loads>>

(* ... until the stop, which it also obeys while it waits for the start. *)
StopSeen == user_stop /\ (thread = "run" \/ (thread = "start" /\ ~user_start))

SeesStop ==
  /\ StopSeen
  /\ thread' = "gone"
  /\ UNCHANGED <<adapterVars, pbm_rx_ring, tail, user_start, user_stop, sup, rdt,
                 loads>>

Thread == SeesRing \/ SeesStart \/ Refill \/ SeesStop

(* insmod again: new module data, new adapter, and pbm_init_all. *)
Insmod ==
  /\ removed /\ loads < MaxLoads
  /\ state' = {"DOWN"} /\ on' = {} /\ owned' = {}
  /\ reset_requested' = FALSE /\ running' = FALSE /\ registered' = TRUE
  /\ rtnl' = "none" /\ pc' = [p \in DOMAIN pc |-> "idle"]
  /\ op' = [p \in Callers |-> "none"]
  /\ removed' = FALSE /\ ops' = 0 /\ events' = 0
  /\ pbm_rx_ring' = FALSE /\ tail' = FALSE
  /\ user_start' = FALSE /\ user_stop' = FALSE
  /\ thread' = "ring" /\ sup' = 0 /\ rdt' = 0
  /\ loads' = loads + 1

Next ==
  \/ UserRequest \/ Background \/ HandOverRing \/ ConfigureRing
  \/ UserStart \/ UserStop \/ Thread \/ Insmod

Spec == Init /\ [][Next]_vars

(* The thread is scheduled, and a request of the user is carried out. *)
FairSpec ==
  /\ Spec
  /\ WF_vars(Thread)
  /\ WF_vars(UserGoesOn /\ UNCHANGED sessionVars)
  /\ WF_vars(HandOverRing \/ ConfigureRing)
-----------------------------------------------------------------------------
(***************************************************************************)
(* While nlsim_alloc_thread refills descriptors and writes the tail, the   *)
(* ring memory is allocated, the register is mapped and the module loaded. *)
(***************************************************************************)
RunsOnLiveRing == thread = "run" => "rings" \in owned /\ tail /\ ~removed

(***************************************************************************)
(* The thread and the NIC agree on the tail of the ring, so that           *)
(* descriptors it fills are the ones the NIC takes next.                   *)
(***************************************************************************)
InSync == thread = "run" => sup = rdt

(***************************************************************************)
(* After ./start on an interface that is set up, a capture begins, in this *)
(* or in any later load of the driver, unless it was stopped before.       *)
(***************************************************************************)
StartCaptures == user_start /\ ~user_stop /\ SetUp ~> thread = "run" \/ user_stop

(***************************************************************************)
(* ./stop ends the thread once it has been handed a ring, also before any  *)
(* ./start.                                                                *)
(***************************************************************************)
StopEnds == user_stop /\ pbm_rx_ring ~> thread = "gone"

\* Both: the thread works on a ring that is there, and on the descriptors
\* the NIC takes next.
SessionSafe ==
  /\ RunsOnLiveRing
  /\ InSync

\* Both: ./start begins a capture and ./stop ends it.
SessionLive ==
  /\ StartCaptures
  /\ StopEnds
=============================================================================
