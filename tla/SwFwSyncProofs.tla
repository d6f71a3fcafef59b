-------------------------- MODULE SwFwSyncProofs --------------------------
(***************************************************************************)
(* SfSafe of SwFwSync for any number of ports, polls and attempts.  The    *)
(* invariant follows who is inside the register semaphores and who owns    *)
(* the resource bit, from the write that sets it to the write that clears  *)
(* it, for as long as no time-out has overridden anybody.                  *)
(***************************************************************************)
EXTENDS SwFwSync, FiniteSetTheorems, TLAPS

SfLabels == {"idle", "smbi", "last", "reg", "bits", "write", "unlock", "timeout"}

SfSharedTyped ==
  /\ sf_mac \in {"82599", "X540"} /\ sf_smbi \in BOOLEAN /\ sf_forced \in BOOLEAN
  /\ sf_reg \in {"none", "sw", "fw"} /\ sf_bits \in SUBSET {"sw", "fw"}
  /\ sf_holders \in SUBSET SfPorts /\ sf_dead \in SUBSET SfPorts

SfCountersTyped ==
  /\ sf_pc \in [SfPorts -> SfLabels]
  /\ sf_polls \in [SfPorts -> Nat] /\ sf_tries \in [SfPorts -> Nat]

SfCallsTyped ==
  /\ sf_job \in [SfPorts -> {"none", "acquire", "release", "take"}]
  /\ sf_seen \in [SfPorts -> SUBSET {"sw", "fw"}] /\ sf_mask \in [SfPorts -> SUBSET {"sw", "fw"}]

SfTyped == SfSharedTyped /\ SfCountersTyped /\ SfCallsTyped

(* Port p is between the two accesses to SMBI, and to SWESMBI or REGSMP. *)
SfHasSmbi(p) == sf_pc[p] \in {"reg", "bits", "write", "unlock"}
SfHasReg(p) == sf_pc[p] \in {"bits", "write", "unlock"}

(* The resource bit in GSSR is port p's: from its write of the bit, over the
   return of acquire_swfw_sync, to the write of release_swfw_sync. *)
SfOwns(p) ==
  \/ p \in sf_holders
  \/ sf_job[p] = "acquire" /\ sf_pc[p] = "unlock" /\ sf_seen[p] = {}
  \/ sf_job[p] = "release" /\ sf_pc[p] \in {"smbi", "reg", "bits", "write"}

(* Before any override, one port is inside the semaphores, and they keep the
   firmware out ... *)
SfOneInside ==
  /\ \A p \in SfPorts : sf_pc[p] # "last" /\ (sf_pc[p] # "idle" => sf_job[p] \in {"acquire", "release"})
  /\ sf_smbi <=> \E p \in SfPorts : SfHasSmbi(p)
  /\ \A p, q \in SfPorts : SfHasSmbi(p) /\ SfHasSmbi(q) => p = q
  /\ \A p \in SfPorts : SfHasReg(p) => sf_reg = "sw"

(* ... so what an acquiring port has read is what is there, and the resource
   has one owner. *)
SfOneOwner ==
  /\ \A p \in SfPorts : sf_pc[p] = "write" /\ sf_job[p] = "acquire" => sf_seen[p] = sf_bits
  /\ \A p \in sf_holders : sf_pc[p] = "idle"
  /\ \A p \in SfPorts : SfOwns(p) => sf_bits = {"sw"}
  /\ \A p, q \in SfPorts : SfOwns(p) /\ SfOwns(q) => p = q

SfOrderly == SfOneInside /\ SfOneOwner

(* Whoever made SWESMBI or REGSMP the drivers' is still to give it back. *)
SfRegInUse == sf_reg = "sw" => \E p \in SfPorts : SfHasReg(p)

(* A port inside a call knows what for. *)
SfJobKnown == \A p \in SfPorts : sf_pc[p] # "idle" => sf_job[p] # "none"

SfInv == SfTyped /\ SfJobKnown /\ SfRegInUse /\ (~sf_forced => SfOrderly)

-----------------------------------------------------------------------------
(* Each action preserves the invariant: the types, then the two parts of it
   that the action can disturb. *)

LEMMA SfGotoTyped ==
  ASSUME SfCountersTyped, NEW p \in SfPorts, NEW l \in SfLabels, SfGoto(p, l)
  PROVE  sf_pc' \in [SfPorts -> SfLabels] /\ sf_polls' \in [SfPorts -> Nat]
BY DEF SfCountersTyped, SfGoto

LEMMA SfLabelsAre ==
  /\ "idle" \in SfLabels /\ "smbi" \in SfLabels /\ "last" \in SfLabels /\ "reg" \in SfLabels
  /\ "bits" \in SfLabels /\ "write" \in SfLabels /\ "unlock" \in SfLabels /\ "timeout" \in SfLabels
BY DEF SfLabels

LEMMA SfFirmwareStep == ASSUME SfInv, SfFirmware PROVE SfInv'
<1>1. SfTyped'
  BY DEF SfInv, SfTyped, SfSharedTyped, SfCountersTyped, SfCallsTyped, SfLabels, SfFirmware
<1>2. SfRegInUse'
  BY DEF SfInv, SfTyped, SfSharedTyped, SfCountersTyped, SfCallsTyped, SfRegInUse, SfHasReg, SfFirmware
<1>3. SfJobKnown'
  BY DEF SfInv, SfTyped, SfSharedTyped, SfCountersTyped, SfCallsTyped, SfJobKnown, SfFirmware
<1>4. ASSUME ~sf_forced' PROVE SfOrderly'
  BY <1>4 DEF SfInv, SfTyped, SfSharedTyped, SfCountersTyped, SfCallsTyped, SfOrderly, SfOneInside, SfOneOwner, SfHasSmbi, SfHasReg, SfOwns, SfFirmware
<1> QED
  BY <1>1, <1>2, <1>3, <1>4 DEF SfInv

LEMMA SfCallStep == ASSUME SfInv, NEW p \in SfPorts, SfCall(p) PROVE SfInv'
<1>1. SfTyped'
  BY DEF SfInv, SfTyped, SfSharedTyped, SfCountersTyped, SfCallsTyped, SfLabels, SfCall, SfGoto
<1>2. SfRegInUse'
  BY DEF SfInv, SfTyped, SfSharedTyped, SfCountersTyped, SfCallsTyped, SfRegInUse, SfHasReg, SfCall, SfGoto
<1>3. SfJobKnown'
  BY DEF SfInv, SfTyped, SfSharedTyped, SfCountersTyped, SfCallsTyped, SfJobKnown, SfCall, SfGoto
<1>4. ASSUME ~sf_forced' PROVE SfOrderly'
  BY <1>4 DEF SfInv, SfTyped, SfSharedTyped, SfCountersTyped, SfCallsTyped, SfOrderly, SfOneInside, SfOneOwner, SfHasSmbi, SfHasReg, SfOwns, SfCall, SfGoto
<1> QED
  BY <1>1, <1>2, <1>3, <1>4 DEF SfInv

LEMMA SfSmbiStep == ASSUME SfInv, NEW p \in SfPorts, SfSmbi(p) PROVE SfInv'
<1>1. SfTyped'
  <2>1. SfCountersTyped'
    BY SfGotoTyped, SfLabelsAre DEF SfInv, SfTyped, SfCountersTyped, SfSmbi, SfAgain, SfNoSemaphore, SfRegReleased
  <2>2. SfCallsTyped'
    BY DEF SfInv, SfTyped, SfCallsTyped, SfSharedTyped, SfSmbi, SfAgain, SfNoSemaphore, SfRegReleased
  <2>3. SfSharedTyped'
    BY DEF SfInv, SfTyped, SfSharedTyped, SfCallsTyped, SfSmbi, SfAgain, SfNoSemaphore, SfRegReleased
  <2> QED
    BY <2>1, <2>2, <2>3 DEF SfTyped
<1>2. SfRegInUse'
  BY DEF SfInv, SfTyped, SfSharedTyped, SfCountersTyped, SfCallsTyped, SfRegInUse, SfHasReg, SfSmbi, SfGoto, SfAgain, SfNoSemaphore, SfRegReleased
<1>3. SfJobKnown'
  BY DEF SfInv, SfTyped, SfSharedTyped, SfCountersTyped, SfCallsTyped, SfJobKnown, SfSmbi, SfGoto, SfAgain, SfNoSemaphore, SfRegReleased
<1>4. ASSUME ~sf_forced' PROVE SfOrderly'
  BY <1>4 DEF SfInv, SfTyped, SfSharedTyped, SfCountersTyped, SfCallsTyped, SfOrderly, SfOneInside, SfOneOwner, SfHasSmbi, SfHasReg, SfOwns, SfSmbi, SfGoto, SfAgain, SfNoSemaphore, SfRegReleased
<1> QED
  BY <1>1, <1>2, <1>3, <1>4 DEF SfInv

LEMMA SfLastStep == ASSUME SfInv, NEW p \in SfPorts, SfLast(p) PROVE SfInv'
<1>1. SfTyped'
  <2>1. SfCountersTyped'
    BY SfGotoTyped, SfLabelsAre DEF SfInv, SfTyped, SfCountersTyped, SfLast, SfNoSemaphore
  <2>2. SfCallsTyped'
    BY DEF SfInv, SfTyped, SfCallsTyped, SfSharedTyped, SfLast, SfNoSemaphore
  <2>3. SfSharedTyped'
    BY DEF SfInv, SfTyped, SfSharedTyped, SfCallsTyped, SfLast, SfNoSemaphore
  <2> QED
    BY <2>1, <2>2, <2>3 DEF SfTyped
<1>2. SfRegInUse'
  BY DEF SfInv, SfTyped, SfSharedTyped, SfCountersTyped, SfCallsTyped, SfRegInUse, SfHasReg, SfLast, SfGoto, SfNoSemaphore
<1>3. SfJobKnown'
  BY DEF SfInv, SfTyped, SfSharedTyped, SfCountersTyped, SfCallsTyped, SfJobKnown, SfLast, SfGoto, SfNoSemaphore
<1>4. ASSUME ~sf_forced' PROVE SfOrderly'
  BY <1>4 DEF SfInv, SfTyped, SfSharedTyped, SfCountersTyped, SfCallsTyped, SfOrderly, SfOneInside, SfOneOwner, SfHasSmbi, SfHasReg, SfOwns, SfLast, SfGoto, SfNoSemaphore
<1> QED
  BY <1>1, <1>2, <1>3, <1>4 DEF SfInv

LEMMA SfRegStep == ASSUME SfInv, NEW p \in SfPorts, SfReg(p) PROVE SfInv'
<1>1. SfTyped'
  <2>1. SfCountersTyped'
    BY SfGotoTyped, SfLabelsAre DEF SfInv, SfTyped, SfCountersTyped, SfReg, SfAgain, SfRegGranted, SfRegReleased
  <2>2. SfCallsTyped'
    BY DEF SfInv, SfTyped, SfCallsTyped, SfSharedTyped, SfReg, SfAgain, SfRegGranted, SfRegReleased
  <2>3. SfSharedTyped'
    BY DEF SfInv, SfTyped, SfSharedTyped, SfCallsTyped, SfReg, SfAgain, SfRegGranted, SfRegReleased
  <2> QED
    BY <2>1, <2>2, <2>3 DEF SfTyped
<1>2. SfRegInUse'
  BY DEF SfInv, SfTyped, SfSharedTyped, SfCountersTyped, SfCallsTyped, SfRegInUse, SfHasReg, SfReg, SfGoto, SfAgain, SfRegGranted, SfRegReleased
<1>3. SfJobKnown'
  BY DEF SfInv, SfTyped, SfSharedTyped, SfCountersTyped, SfCallsTyped, SfJobKnown, SfReg, SfGoto, SfAgain, SfRegGranted, SfRegReleased
<1>4. ASSUME ~sf_forced' PROVE SfOrderly'
  BY <1>4 DEF SfInv, SfTyped, SfSharedTyped, SfCountersTyped, SfCallsTyped, SfOrderly, SfOneInside, SfOneOwner, SfHasSmbi, SfHasReg, SfOwns, SfReg, SfGoto, SfAgain, SfRegGranted, SfRegReleased
<1> QED
  BY <1>1, <1>2, <1>3, <1>4 DEF SfInv

LEMMA SfReadStep == ASSUME SfInv, NEW p \in SfPorts, SfRead(p) PROVE SfInv'
<1>1. SfTyped'
  BY DEF SfInv, SfTyped, SfSharedTyped, SfCountersTyped, SfCallsTyped, SfLabels, SfRead, SfGoto, sfShared
<1>2. SfRegInUse'
  BY DEF SfInv, SfTyped, SfSharedTyped, SfCountersTyped, SfCallsTyped, SfRegInUse, SfHasReg, SfRead, SfGoto, sfShared
<1>3. SfJobKnown'
  BY DEF SfInv, SfTyped, SfSharedTyped, SfCountersTyped, SfCallsTyped, SfJobKnown, SfRead, SfGoto, sfShared
<1>4. ASSUME ~sf_forced' PROVE SfOrderly'
  BY <1>4 DEF SfInv, SfTyped, SfSharedTyped, SfCountersTyped, SfCallsTyped, SfOrderly, SfOneInside, SfOneOwner, SfHasSmbi, SfHasReg, SfOwns, SfRead, SfGoto, sfShared
<1> QED
  BY <1>1, <1>2, <1>3, <1>4 DEF SfInv

LEMMA SfWriteStep == ASSUME SfInv, NEW p \in SfPorts, SfWrite(p) PROVE SfInv'
<1>1. SfTyped'
  <2>1. SfCountersTyped'
    BY SfGotoTyped, SfLabelsAre DEF SfInv, SfTyped, SfCountersTyped, SfWrite, SfWritten, SfFree
  <2>2. SfCallsTyped'
    BY DEF SfInv, SfTyped, SfCallsTyped, SfSharedTyped, SfWrite, SfWritten, SfFree
  <2>3. SfSharedTyped'
    BY DEF SfInv, SfTyped, SfSharedTyped, SfCallsTyped, SfWrite, SfWritten, SfFree, SfJobKnown
  <2> QED
    BY <2>1, <2>2, <2>3 DEF SfTyped
<1>2. SfRegInUse'
  BY DEF SfInv, SfTyped, SfSharedTyped, SfCountersTyped, SfCallsTyped, SfRegInUse, SfHasReg, SfWrite, SfGoto, SfWritten, SfFree
<1>3. SfJobKnown'
  BY DEF SfInv, SfTyped, SfSharedTyped, SfCountersTyped, SfCallsTyped, SfJobKnown, SfWrite, SfGoto, SfWritten, SfFree
<1>4. ASSUME ~sf_forced' PROVE SfOrderly'
  <2>1. SfOneInside /\ SfOneOwner /\ sf_pc[p] = "write" /\ sf_job[p] \in {"acquire", "release"}
    BY <1>4 DEF SfInv, SfOrderly, SfOneInside, SfWrite
  <2>2. SfOneInside'
    BY <2>1 DEF SfInv, SfTyped, SfCountersTyped, SfOneInside, SfHasSmbi, SfHasReg, SfWrite, SfGoto
  <2>3. \A q \in SfPorts : q # p => sf_pc'[q] = sf_pc[q] /\ ~SfHasSmbi(q) /\ SfOwns(q)' = SfOwns(q)
    BY <2>1 DEF SfInv, SfTyped, SfCountersTyped, SfOneInside, SfHasSmbi, SfOwns, SfWrite, SfGoto
  <2>4. SfOwns(p)' => sf_job[p] = "acquire" /\ sf_seen[p] = {}
    BY <2>1 DEF SfInv, SfTyped, SfCountersTyped, SfOneOwner, SfOwns, SfWrite, SfGoto
  <2>5. CASE sf_job[p] = "acquire" /\ sf_seen[p] = {}
    <3>1. sf_bits = {} /\ sf_bits' = {"sw"}
      BY <2>1, <2>5 DEF SfOneOwner, SfWrite, SfWritten, SfFree
    <3>2. \A q \in SfPorts : ~SfOwns(q)
      BY <2>1, <3>1 DEF SfOneOwner
    <3> QED
      BY <2>1, <2>2, <2>3, <3>1, <3>2 DEF SfInv, SfTyped, SfCountersTyped, SfOrderly, SfOneOwner,
         SfHasSmbi, SfWrite, SfGoto
  <2>6. CASE sf_job[p] = "acquire" /\ sf_seen[p] # {}
    <3>1. sf_bits' = sf_bits
      BY <2>6 DEF SfWrite, SfWritten, SfFree
    <3> QED
      BY <2>1, <2>2, <2>3, <2>4, <2>6, <3>1 DEF SfInv, SfTyped, SfCountersTyped, SfOrderly,
         SfOneOwner, SfHasSmbi, SfWrite, SfGoto
  <2>7. CASE sf_job[p] = "release"
    <3>1. \A q \in SfPorts : ~SfOwns(q)'
      BY <2>1, <2>3, <2>4, <2>7 DEF SfOneOwner, SfOwns
    <3> QED
      BY <2>1, <2>2, <2>3, <2>7, <3>1 DEF SfInv, SfTyped, SfCountersTyped, SfOrderly, SfOneOwner,
         SfHasSmbi, SfWrite, SfGoto
  <2> QED
    BY <2>1, <2>5, <2>6, <2>7
<1> QED
  BY <1>1, <1>2, <1>3, <1>4 DEF SfInv

LEMMA SfUnlockStep == ASSUME SfInv, NEW p \in SfPorts, SfUnlock(p) PROVE SfInv'
<1>1. SfTyped'
  <2>1. SfCountersTyped'
    BY SfGotoTyped, SfLabelsAre DEF SfInv, SfTyped, SfCountersTyped, SfUnlock, SfTaken, SfFree, SfRegReleased
  <2>2. SfCallsTyped'
    BY DEF SfInv, SfTyped, SfCallsTyped, SfSharedTyped, SfUnlock, SfTaken, SfFree, SfRegReleased
  <2>3. SfSharedTyped'
    BY DEF SfInv, SfTyped, SfSharedTyped, SfCallsTyped, SfUnlock, SfTaken, SfFree, SfRegReleased
  <2> QED
    BY <2>1, <2>2, <2>3 DEF SfTyped
<1>2. SfRegInUse'
  BY DEF SfInv, SfTyped, SfSharedTyped, SfCountersTyped, SfCallsTyped, SfRegInUse, SfHasReg, SfUnlock, SfGoto, SfTaken, SfFree, SfRegReleased
<1>3. SfJobKnown'
  BY DEF SfInv, SfTyped, SfSharedTyped, SfCountersTyped, SfCallsTyped, SfJobKnown, SfUnlock, SfGoto, SfTaken, SfFree, SfRegReleased
<1>4. ASSUME ~sf_forced' PROVE SfOrderly'
  BY <1>4 DEF SfInv, SfTyped, SfSharedTyped, SfCountersTyped, SfCallsTyped, SfOrderly, SfOneInside, SfOneOwner, SfHasSmbi, SfHasReg, SfOwns, SfUnlock, SfGoto, SfTaken, SfFree, SfRegReleased
<1> QED
  BY <1>1, <1>2, <1>3, <1>4 DEF SfInv

LEMMA SfTimeoutStep == ASSUME SfInv, NEW p \in SfPorts, SfTimeout(p) PROVE SfInv'
<1>1. SfTyped'
  <2>1. SfCountersTyped'
    BY SfGotoTyped, SfLabelsAre DEF SfInv, SfTyped, SfCountersTyped, SfTimeout, SfClears
  <2>2. SfCallsTyped'
    <3>1. SfClears(p) \in SUBSET {"sw", "fw"}
      BY DEF SfInv, SfTyped, SfCallsTyped, SfClears
    <3>2. sf_mask' \in [SfPorts -> SUBSET {"sw", "fw"}]
      BY <3>1 DEF SfInv, SfTyped, SfCallsTyped, SfTimeout
    <3>3. sf_seen' \in [SfPorts -> SUBSET {"sw", "fw"}]
      BY DEF SfInv, SfTyped, SfCallsTyped, SfSharedTyped, SfTimeout
    <3>4. sf_job' \in [SfPorts -> {"none", "acquire", "release", "take"}]
      BY DEF SfInv, SfTyped, SfCallsTyped, SfTimeout
    <3> QED
      BY <3>2, <3>3, <3>4 DEF SfCallsTyped
  <2>3. SfSharedTyped'
    BY DEF SfInv, SfTyped, SfSharedTyped, SfCallsTyped, SfTimeout, SfClears
  <2> QED
    BY <2>1, <2>2, <2>3 DEF SfTyped
<1>2. SfRegInUse'
  BY DEF SfInv, SfTyped, SfSharedTyped, SfCountersTyped, SfCallsTyped, SfRegInUse, SfHasReg, SfTimeout, SfGoto, SfClears
<1>3. SfJobKnown'
  BY DEF SfInv, SfTyped, SfSharedTyped, SfCountersTyped, SfCallsTyped, SfJobKnown, SfTimeout, SfGoto, SfClears
<1>4. ASSUME ~sf_forced' PROVE SfOrderly'
  BY <1>4 DEF SfInv, SfTyped, SfSharedTyped, SfCountersTyped, SfCallsTyped, SfOrderly, SfOneInside, SfOneOwner, SfHasSmbi, SfHasReg, SfOwns, SfTimeout, SfGoto, SfClears
<1> QED
  BY <1>1, <1>2, <1>3, <1>4 DEF SfInv

LEMMA SfDiesStep == ASSUME SfInv, NEW p \in SfPorts, SfDies(p) PROVE SfInv'
<1>1. SfTyped'
  BY DEF SfInv, SfTyped, SfSharedTyped, SfCountersTyped, SfCallsTyped, SfLabels, SfDies
<1>2. SfRegInUse'
  BY DEF SfInv, SfTyped, SfSharedTyped, SfCountersTyped, SfCallsTyped, SfRegInUse, SfHasReg, SfDies
<1>3. SfJobKnown'
  BY DEF SfInv, SfTyped, SfSharedTyped, SfCountersTyped, SfCallsTyped, SfJobKnown, SfDies
<1>4. ASSUME ~sf_forced' PROVE SfOrderly'
  BY <1>4 DEF SfInv, SfTyped, SfSharedTyped, SfCountersTyped, SfCallsTyped, SfOrderly, SfOneInside, SfOneOwner, SfHasSmbi, SfHasReg, SfOwns, SfDies
<1> QED
  BY <1>1, <1>2, <1>3, <1>4 DEF SfInv

-----------------------------------------------------------------------------
(* The invariant holds of every behaviour of the ports and the firmware, with
   any number of ports, polls and attempts. *)
THEOREM SfInvariant == SfSpec => []SfInv
<1>1. SfInit => SfInv
  <2> SUFFICES ASSUME SfInit PROVE SfInv
    OBVIOUS
  <2>1. SfTyped
    BY DEF SfInit, SfTyped, SfSharedTyped, SfCountersTyped, SfCallsTyped, SfLabels
  <2>2. SfJobKnown /\ SfRegInUse
    BY DEF SfInit, SfJobKnown, SfRegInUse
  <2>3. SfOneInside
    BY DEF SfInit, SfOneInside, SfHasSmbi, SfHasReg
  <2>4. SfOneOwner
    BY DEF SfInit, SfOneOwner, SfOwns
  <2> QED
    BY <2>1, <2>2, <2>3, <2>4 DEF SfInv, SfOrderly
<1>2. SfInv /\ [SfNext]_sfVars => SfInv'
  <2> SUFFICES ASSUME SfInv, [SfNext]_sfVars PROVE SfInv'
    OBVIOUS
  <2>1. CASE SfFirmware
    BY <2>1, SfFirmwareStep
  <2>2. ASSUME NEW p \in SfPorts, SfCall(p) PROVE SfInv'
    BY <2>2, SfCallStep
  <2>3. ASSUME NEW p \in SfPorts, SfStep(p) PROVE SfInv'
    BY <2>3, SfSmbiStep, SfLastStep, SfRegStep, SfReadStep, SfWriteStep, SfUnlockStep,
       SfTimeoutStep DEF SfStep
  <2>4. ASSUME NEW p \in SfPorts, SfDies(p) PROVE SfInv'
    BY <2>4, SfDiesStep
  <2>5. CASE UNCHANGED sfVars
    BY <2>5 DEF sfVars, SfInv, SfTyped, SfSharedTyped, SfCountersTyped, SfCallsTyped, SfJobKnown,
       SfRegInUse, SfOrderly, SfOneInside, SfOneOwner, SfHasSmbi, SfHasReg, SfOwns
  <2> QED
    BY <2>1, <2>2, <2>3, <2>4, <2>5 DEF SfNext
<1> QED
  BY <1>1, <1>2, PTL DEF SfSpec

(* acquire_swfw_sync gives the resource to one port at a time, and leaves no
   semaphore behind on any path, until a time-out overrides a holder; what
   guards the register is given back even then. *)
THEOREM SfIsSafe == SfSpec => []SfSafe
<1>1. SfInv => SfMutex
  <2> SUFFICES ASSUME SfInv, ~sf_forced
               PROVE  Cardinality(sf_holders) <= 1 /\ (sf_holders # {} => sf_bits = {"sw"})
    BY DEF SfMutex
  <2>1. SfOneOwner /\ sf_holders \subseteq SfPorts
    BY DEF SfInv, SfOrderly, SfTyped, SfSharedTyped
  <2>2. sf_holders # {} => sf_bits = {"sw"}
    BY <2>1 DEF SfOneOwner, SfOwns
  <2>3. \A p, q \in sf_holders : p = q
    BY <2>1 DEF SfOneOwner, SfOwns
  <2>4. CASE sf_holders = {}
    BY <2>2, <2>4, FS_EmptySet
  <2>5. CASE sf_holders # {}
    <3>1. PICK p : p \in sf_holders
      BY <2>5
    <3>2. sf_holders = {p}
      BY <2>3, <3>1
    <3>3. Cardinality({p}) = 1
      BY FS_Singleton
    <3> QED
      BY <2>2, <3>2, <3>3
  <2> QED
    BY <2>4, <2>5
<1>2. SfInv => SfSemaphoresReturned
  BY DEF SfInv, SfRegInUse, SfOrderly, SfOneInside, SfHasSmbi, SfHasReg, SfSemaphoresReturned
<1> QED
  BY <1>1, <1>2, SfInvariant, PTL DEF SfSafe
=============================================================================
