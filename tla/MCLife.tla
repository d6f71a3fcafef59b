------------------------------- MODULE MCLife -------------------------------
(***************************************************************************)
(* The components that live beside each other for as long as the driver is *)
(* loaded, on one bench: the shared-resource semaphores, the link          *)
(* watchdog, the memory device, and the adapter's life cycle, alone and    *)
(* under a capture session.  `part` is the component that moves in a       *)
(* behaviour, with the fairness of its own specification; the others stay  *)
(* in one of their initial states.                                         *)
(***************************************************************************)
EXTENDS SwFwSync, LinkWatch, MemDevice, CaptureSession

VARIABLE part

lifeVars == <<part, sfVars, lwVars, mdVars, vars>>

AdapterParts == {"adapter", "session"}

LifeInit ==
  /\ part \in {"sf", "lw", "md"} \cup AdapterParts
  /\ SfInit /\ (part = "sf" \/ sf_mac = "82599")
  /\ LwInit /\ MdInit /\ Init

\* The other components do not move.
Others(p) ==
  /\ part' = part
  /\ IF p = "sf" THEN TRUE ELSE UNCHANGED sfVars
  /\ IF p = "lw" THEN TRUE ELSE UNCHANGED lwVars
  /\ IF p = "md" THEN TRUE ELSE UNCHANGED mdVars
  /\ IF p \in AdapterParts THEN TRUE ELSE UNCHANGED adapterVars
  /\ IF p = "session" THEN TRUE ELSE UNCHANGED sessionVars

\* A session is followed without interrupts of the port's own.
LifeNext ==
  \/ part = "sf" /\ SfNext /\ Others("sf")
  \/ part = "lw" /\ LwNext /\ Others("lw")
  \/ part = "md" /\ MdNext /\ Others("md")
  \/ part = "adapter" /\ AdapterNext /\ Others("adapter")
  \/ part = "session" /\ Next /\ events' = 0 /\ Others("session")

\* The variables of the component that moves.
Moving ==
  CASE part = "lw" -> lwVars [] part = "md" -> mdVars [] part \in AdapterParts -> adapterVars
    [] OTHER -> sfVars

\* The processes of the components, as their own specifications list them.
Process(k) ==
  /\ part' = part
  /\ \/ part = "lw" /\ CASE k = 1 -> LwTask [] k = 2 -> LwTimer [] k = 3 -> LwLsc [] k = 4 -> LwLate
                         [] OTHER -> FALSE
     \/ part = "md" /\ k = 1 /\ (MdChoose \/ MdCopy \/ MdFinish)
     \/ /\ part \in AdapterParts
        /\ \/ k = 1 /\ (UserGoesOn \/ SetupRx \/ Configure("user"))
           \/ k = 2 /\ (WorkGoesOn \/ Configure("work"))
           \/ k = 3 /\ TimerFires
           \/ k = 4 /\ Schedule("timer")
           \/ k = 5 /\ Schedule("irq")

\* Every process of the component that moves is scheduled for ever.
LifeSpec ==
  /\ LifeInit /\ [][LifeNext]_lifeVars
  /\ \A k \in 1 .. 5 : WF_Moving(Process(k))
  /\ \A p \in SfPorts : WF_sfVars(part = "sf" /\ SfStep(p))
  /\ WF_vars(part = "session" /\ Thread)

\* Calls end: resets and requests of the user on the adapter, and reads and
\* writes of the memory device.
CallsEnd ==
  /\ AdapterLive
  /\ MdReturns
=============================================================================
