----------------------------- MODULE SwFwSync -----------------------------
(***************************************************************************)
(* ixgbe_common.c and ixgbe_x540.c: the SW_FW_SYNC (GSSR) semaphore by     *)
(* which the ports of a card and its firmware share the EEPROM, the PHY    *)
(* and the I2C bus.  One resource bit pair is modelled.  The register that *)
(* holds it is itself guarded by SMBI (between drivers) and by SWESMBI or  *)
(* REGSMP (between drivers and firmware), and every loop gives up after a  *)
(* bounded number of polls, whoever holds the bit.                         *)
(***************************************************************************)
EXTENDS Naturals, FiniteSets

CONSTANTS
  SfPorts,     \* drivers of the ports that share the device
  SfPolls,     \* polls of SMBI and SWESMBI (2000 in the code)
  SfTries,     \* attempts on the resource bit (200 in the code)
  SfFwMax      \* bound: how often the firmware uses the resource

ASSUME SfAssumption == SfPolls \in Nat \ {0} /\ SfTries \in Nat \ {0} /\ SfFwMax \in Nat

VARIABLES
  sf_mac,      \* "82599" (82598 and 82599 alike) or "X540"
  sf_smbi,     \* SWSM.SMBI is set
  sf_reg,      \* who has SWESMBI / REGSMP: "none", "sw" or "fw"
  sf_bits,     \* the resource's bits in GSSR: a subset of {"sw", "fw"}
  sf_pc, sf_job, sf_polls, sf_tries,
  sf_seen, sf_mask,  \* of each port: GSSR as it read it, the bits it is to clear
  sf_holders,  \* ports whose acquire_swfw_sync returned 0
  sf_forced,   \* a time-out has overridden some holder
  sf_dead,     \* ports whose driver died where it stood
  sf_fw        \* uses of the resource by the firmware

sfVars == <<sf_mac, sf_smbi, sf_reg, sf_bits, sf_pc, sf_job, sf_polls, sf_tries,
            sf_seen, sf_mask, sf_holders, sf_forced, sf_dead, sf_fw>>
sfShared == <<sf_mac, sf_smbi, sf_reg, sf_bits, sf_holders, sf_forced, sf_dead, sf_fw>>

SfInit ==
  /\ sf_mac \in {"82599", "X540"}
  /\ sf_smbi = FALSE /\ sf_reg = "none" /\ sf_bits = {}
  /\ sf_pc = [p \in SfPorts |-> "idle"] /\ sf_job = [p \in SfPorts |-> "none"]
  /\ sf_polls = [p \in SfPorts |-> 0] /\ sf_tries = [p \in SfPorts |-> 0]
  /\ sf_seen = [p \in SfPorts |-> {}] /\ sf_mask = [p \in SfPorts |-> {}]
  /\ sf_holders = {} /\ sf_forced = FALSE /\ sf_dead = {} /\ sf_fw = 0

SfGoto(p, label) ==
  /\ sf_pc' = [sf_pc EXCEPT ![p] = label]
  /\ sf_polls' = [sf_polls EXCEPT ![p] = 0]

(* A call of acquire_swfw_sync or, by a holder, of release_swfw_sync. *)
SfCall(p) ==
  /\ p \notin sf_dead /\ sf_pc[p] = "idle"
  /\ SfGoto(p, "smbi")
  /\ sf_job' = [sf_job EXCEPT ![p] = IF p \in sf_holders THEN "release" ELSE "acquire"]
  /\ sf_tries' = [sf_tries EXCEPT ![p] = 0]
  /\ sf_seen' = [sf_seen EXCEPT ![p] = {}]
  /\ sf_mask' = [sf_mask EXCEPT ![p] = {"sw"}]
  /\ sf_holders' = sf_holders \ {p}
  /\ UNCHANGED <<sf_mac, sf_smbi, sf_reg, sf_bits, sf_forced, sf_dead, sf_fw>>

-----------------------------------------------------------------------------
(* ixgbe_get_eeprom_semaphore, ixgbe_get_swfw_sync_semaphore.  A failure   *)
(* ends an acquisition; a release ignores it and goes on unprotected.      *)
SfNoSemaphore(p) ==
  IF sf_job[p] \in {"acquire", "take"}
    THEN SfGoto(p, "idle") /\ UNCHANGED sf_forced
    ELSE SfGoto(p, "bits") /\ sf_forced' = TRUE

SfRegReleased == IF sf_mac = "X540" \/ sf_reg = "sw" THEN "none" ELSE sf_reg

SfAgain(p) == sf_polls' = [sf_polls EXCEPT ![p] = @ + 1] /\ UNCHANGED sf_pc

SfLastPoll(p) == sf_polls[p] + 1 = SfPolls

(* Reading SMBI as 0 sets it.  At the time-out the generic code clears both
   bits, whoever set them, for one last try. *)
SfSmbi(p) ==
  /\ sf_pc[p] = "smbi"
  /\ \/ ~sf_smbi /\ sf_smbi' = TRUE /\ SfGoto(p, "reg") /\ UNCHANGED <<sf_reg, sf_forced>>
     \/ sf_smbi /\ ~SfLastPoll(p) /\ SfAgain(p) /\ UNCHANGED <<sf_smbi, sf_reg, sf_forced>>
     \/ /\ sf_smbi /\ SfLastPoll(p) /\ sf_mac = "82599"
        /\ sf_smbi' = FALSE /\ sf_reg' = SfRegReleased
        /\ sf_forced' = TRUE /\ SfGoto(p, "last")
     \/ /\ sf_smbi /\ SfLastPoll(p) /\ sf_mac = "X540"
        /\ SfNoSemaphore(p) /\ UNCHANGED <<sf_smbi, sf_reg>>
  /\ UNCHANGED <<sf_mac, sf_bits, sf_job, sf_tries, sf_seen, sf_mask, sf_holders, sf_dead, sf_fw>>

SfLast(p) ==
  /\ sf_pc[p] = "last"
  /\ IF sf_smbi THEN SfNoSemaphore(p) ELSE SfGoto(p, "reg") /\ UNCHANGED sf_forced
  /\ sf_smbi' = TRUE
  /\ UNCHANGED <<sf_mac, sf_reg, sf_bits, sf_job, sf_tries, sf_seen, sf_mask, sf_holders, sf_dead, sf_fw>>

(* SWESMBI (82599) is set by writing it and sticks unless the firmware has it;
   REGSMP (X540) is set by reading it as 0. *)
SfRegGranted == IF sf_mac = "82599" THEN sf_reg # "fw" ELSE sf_reg = "none"

SfReg(p) ==
  /\ sf_pc[p] = "reg"
  /\ \/ SfRegGranted /\ sf_reg' = "sw" /\ SfGoto(p, "bits") /\ UNCHANGED <<sf_smbi, sf_forced>>
     \/ ~SfRegGranted /\ ~SfLastPoll(p) /\ SfAgain(p) /\ UNCHANGED <<sf_smbi, sf_reg, sf_forced>>
     \/ /\ ~SfRegGranted /\ SfLastPoll(p) /\ sf_smbi' = FALSE
        /\ sf_reg' = SfRegReleased
        /\ IF sf_job[p] \in {"acquire", "take"} THEN SfGoto(p, "idle") ELSE SfGoto(p, "bits")
        /\ sf_forced' = TRUE
  /\ UNCHANGED <<sf_mac, sf_bits, sf_job, sf_tries, sf_seen, sf_mask, sf_holders, sf_dead, sf_fw>>

-----------------------------------------------------------------------------
(* The read-modify-write of GSSR between the two.                          *)
SfRead(p) ==
  /\ sf_pc[p] = "bits"
  /\ sf_seen' = [sf_seen EXCEPT ![p] = IF sf_job[p] = "take" THEN @ ELSE sf_bits]
  /\ SfGoto(p, "write")
  /\ UNCHANGED <<sf_job, sf_tries, sf_mask, sfShared>>

SfFreeOfFirmware(p) == "fw" \notin sf_seen[p]

SfFree(p) == sf_seen[p] = {}

SfWritten(p) ==
  CASE sf_job[p] = "acquire" -> IF SfFree(p) THEN {"sw"} ELSE sf_bits
    [] sf_job[p] = "take"    -> sf_seen[p] \cup {"sw"}
    [] sf_job[p] = "release" -> sf_seen[p] \ sf_mask[p]

SfWrite(p) ==
  /\ sf_pc[p] = "write"
  /\ sf_bits' = SfWritten(p)
  /\ SfGoto(p, "unlock")
  /\ UNCHANGED <<sf_mac, sf_smbi, sf_reg, sf_job, sf_tries, sf_seen, sf_mask, sf_holders, sf_forced,
                 sf_dead, sf_fw>>

SfTaken(p) == sf_job[p] = "take" \/ (sf_job[p] = "acquire" /\ SfFree(p))

(* The semaphores are given back; then acquire_swfw_sync returns or retries. *)
SfUnlock(p) ==
  /\ sf_pc[p] = "unlock"
  /\ sf_smbi' = FALSE /\ sf_reg' = SfRegReleased
  /\ sf_holders' = IF SfTaken(p) THEN sf_holders \cup {p} ELSE sf_holders
  /\ IF sf_job[p] = "acquire" /\ ~SfTaken(p)
       THEN /\ sf_tries' = [sf_tries EXCEPT ![p] = @ + 1]
            /\ SfGoto(p, IF sf_tries[p] + 1 < SfTries THEN "smbi" ELSE "timeout")
       ELSE SfGoto(p, "idle") /\ UNCHANGED sf_tries
  /\ UNCHANGED <<sf_mac, sf_bits, sf_job, sf_seen, sf_mask, sf_forced, sf_dead, sf_fw>>

SfClearsNothing(p) == {}

SfClears(p) == IF sf_mac = "X540" THEN {"sw"} ELSE sf_seen[p]

(* All attempts failed.  The generic code clears the bits it saw and fails.
   The X540 code looks once more, without the semaphores: it overrides the
   firmware, clears another driver's bit and fails, or, when the register is
   free by now, returns 0 although it set no bit. *)
SfTimeout(p) ==
  /\ sf_pc[p] = "timeout"
  /\ sf_forced' = TRUE
  /\ \/ /\ sf_mac = "82599" \/ sf_bits # {}
        /\ SfGoto(p, "smbi")
        /\ sf_job' = [sf_job EXCEPT ![p] =
                        IF sf_mac = "X540" /\ "fw" \in sf_bits THEN "take" ELSE "release"]
        /\ sf_mask' = [sf_mask EXCEPT ![p] = SfClears(p)]
        /\ sf_seen' = [sf_seen EXCEPT ![p] = sf_bits]
        /\ UNCHANGED sf_holders
     \/ /\ sf_mac = "X540" /\ sf_bits = {}
        /\ SfGoto(p, "idle") /\ sf_holders' = sf_holders \cup {p}
        /\ UNCHANGED <<sf_job, sf_seen, sf_mask>>
  /\ UNCHANGED <<sf_mac, sf_smbi, sf_reg, sf_bits, sf_tries, sf_dead, sf_fw>>

SfStep(p) ==
  /\ p \notin sf_dead
  /\ \/ SfSmbi(p) \/ SfLast(p) \/ SfReg(p) \/ SfRead(p) \/ SfWrite(p) \/ SfUnlock(p)
     \/ SfTimeout(p)

-----------------------------------------------------------------------------
(* The firmware, which obeys the protocol but may stop anywhere, and the
   death of a driver that holds what it holds. *)
SfFirmware ==
  /\ \/ /\ sf_reg = "none" /\ sf_fw < SfFwMax /\ sf_reg' = "fw" /\ sf_fw' = sf_fw + 1
        /\ UNCHANGED sf_bits
     \/ /\ sf_reg = "fw" /\ sf_reg' = "none"
        /\ sf_bits' = IF sf_bits = {} THEN {"fw"} ELSE sf_bits \ {"fw"}
        /\ UNCHANGED sf_fw
  /\ UNCHANGED <<sf_mac, sf_smbi, sf_pc, sf_job, sf_polls, sf_tries, sf_seen, sf_mask, sf_holders,
                 sf_forced, sf_dead>>

SfDies(p) ==
  /\ sf_dead = {} /\ sf_dead' = {p} /\ sf_holders' = sf_holders \ {p}
  /\ UNCHANGED <<sf_mac, sf_smbi, sf_reg, sf_bits, sf_pc, sf_job, sf_polls, sf_tries, sf_seen,
                 sf_mask, sf_forced, sf_fw>>

SfNext == SfFirmware \/ \E p \in SfPorts : SfCall(p) \/ SfStep(p) \/ SfDies(p)

SfFairness == \A p \in SfPorts : WF_sfVars(SfStep(p))

SfSpec == SfInit /\ [][SfNext]_sfVars /\ SfFairness

-----------------------------------------------------------------------------
(* Until some time-out overrides a holder, acquire_swfw_sync gives the
   resource to one port at a time, and never while the firmware's bit is set. *)
SfMutex ==
  ~sf_forced => /\ Cardinality(sf_holders) <= 1
                /\ sf_holders # {} => sf_bits = {"sw"}

(* No call leaves the register semaphores behind: once every live port is out
   of its calls and nobody died inside one, SMBI and SWESMBI are free for the
   next caller, whichever error path the calls took. *)
SfSemaphoresReturned ==
  (sf_dead = {} /\ \A p \in SfPorts : sf_pc[p] = "idle")
    => (~sf_smbi \/ sf_forced) /\ sf_reg # "sw"

(* A driver that dies, or firmware that never gives the resource back, does
   not lock the others out: a port that goes on calling acquire_swfw_sync gets
   the resource again and again.  On the X540 this excludes a driver that dies
   inside the register semaphores, whose SMBI no time-out clears. *)
SfNeverLockedOut ==
  \A p \in SfPorts :
    (/\ []<>(sf_reg # "fw") /\ <>[](sf_dead # {}) /\ []<><<SfCall(p)>>_sfVars
     /\ [](sf_mac = "82599" \/ \A q \in sf_dead : sf_pc[q] = "idle"))
      => []<>(p \in sf_holders)

\* Both: one owner at a time, and no semaphore left behind, whichever error
\* path ixgbe_acquire_swfw_sync and its X540 variant took.
SfSafe ==
  /\ SfMutex
  /\ SfSemaphoresReturned
=============================================================================
