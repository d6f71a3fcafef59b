------------------------------ MODULE SfpModule ------------------------------
(***************************************************************************)
(* The pluggable module of an 82599 port (SFP+ or QSFP+): how it is        *)
(* identified from its EEPROM, accepted or refused, and set up             *)
(* (ixgbe_phy.c, ixgbe_82599.c), and when the driver does so: at probe and *)
(* reset, and in the service task after an interrupt of the cage           *)
(* (ixgbe_main.c).  Modules come and go between any two steps.  The        *)
(* _core0 and _core1 forms of a type are one here: they differ only by     *)
(* the port that they name.                                                *)
(***************************************************************************)
EXTENDS Naturals

CONSTANTS
  SmModules,   \* [id, tech, lmt, g10, g1, vendor]: what a module's EEPROM says
  SmIds,       \* types for which the card's EEPROM has an init sequence
  SmMaxOps,    \* bound on insertions, removals and requests
  SmMaxFails   \* bound on failed bus reads, locks and restarts

VARIABLES
  sm_media,    \* "fiber" or "fiber_qsfp"
  sm_any, sm_allow,  \* DEVICE_CAPS_ALLOW_ANY_SFP, allow_unsupported_sfp
  sm_cage,     \* the module plugged in
  sm_phy,      \* [type, sfp_type, multi, needed, programmed]
  sm_flags,    \* SFP_NEEDS_RESET and NEED_LINK_CONFIG of the adapter
  sm_pc,       \* where the driver is: probing, down, up, in sfp_detection, dead
  sm_changed,  \* a module went in since the last identification (history)
  sm_lost,     \* and its interrupt came to nothing (history)
  sm_failed,   \* a set-up did not complete (history)
  sm_ops, sm_fails

smVars == <<sm_media, sm_any, sm_allow, sm_cage, sm_phy, sm_flags, sm_pc, sm_changed,
            sm_lost, sm_failed, sm_ops, sm_fails>>

SmEmpty == [id |-> "none", tech |-> {}, lmt |-> FALSE, g10 |-> {}, g1 |-> {}, vendor |-> "none"]
SmOptical(m) == m.g10 \cap {"SR", "LR"} # {}
SmOneGig == {"1g_cu", "1g_sx", "1g_lx"}

SmInit ==
  /\ sm_media \in {"fiber", "fiber_qsfp"} /\ sm_any \in BOOLEAN /\ sm_allow \in BOOLEAN
  /\ sm_cage \in SmModules \cup {SmEmpty}
  /\ sm_phy = [type |-> "unknown", sfp_type |-> "unknown", multi |-> FALSE,
               needed |-> FALSE, programmed |-> "none"]
  /\ sm_flags = {} /\ sm_pc = "probe" /\ sm_changed = FALSE /\ sm_lost = FALSE
  /\ sm_failed = FALSE /\ sm_ops = 0 /\ sm_fails = 0

-----------------------------------------------------------------------------
(* The type of an SFP+ module.  When the read of the cable specification
   fails its byte is zero and nobody looks at the status. *)
SmSfpType(m, spec) ==
  IF "passive" \in m.tech THEN "da_cu"
  ELSE IF "active" \in m.tech THEN (IF spec /\ m.lmt THEN "da_act_lmt" ELSE "unknown")
  ELSE IF SmOptical(m) THEN "srlr"
  ELSE IF "T" \in m.g1 THEN "1g_cu"
  ELSE IF "SX" \in m.g1 THEN "1g_sx"
  ELSE IF "LX" \in m.g1 THEN "1g_lx"
  ELSE "unknown"

SmMultispeed(m) ==
  \/ "SX" \in m.g1 /\ "SR" \in m.g10
  \/ "LX" \in m.g1 /\ "LR" \in m.g10

SmVendorType(m, was) ==
  CASE m.vendor = "tyco" -> IF "passive" \in m.tech THEN "passive_tyco" ELSE was
    [] m.vendor = "ftl" -> IF "active" \in m.tech THEN "ftl_active" ELSE "ftl"
    [] m.vendor \in {"avago", "intel"} -> m.vendor
    [] OTHER -> IF "passive" \in m.tech THEN "passive_unknown"
                ELSE IF "active" \in m.tech THEN "active_unknown" ELSE "sfp_unknown"

SmVendorAllowed(vendor) == sm_any \/ vendor = "intel" \/ sm_allow

SmSfpAllowed(m, sfp_type) ==
  \/ m.tech # {}
  \/ sfp_type \in SmOneGig
  \/ m.g10 # {} /\ SmVendorAllowed(m.vendor)

SmRefused(p) == [st |-> "NOT_SUPPORTED", phy |-> [p EXCEPT !.type = "unsupported"]]
SmUnread(p) ==    \* err_read_i2c_eeprom
  [st |-> "NOT_PRESENT", phy |-> [p EXCEPT !.sfp_type = "not_present", !.type = "unknown"]]

SmTyped(p, t, m) == [p EXCEPT !.sfp_type = t, !.multi = SmMultispeed(m),
                              !.needed = @ \/ t # p.sfp_type]

(* ixgbe_identify_sfp_module_generic; `fault` is the bus read that fails. *)
SmIdentifySfp(p, m, fault) ==
  IF m = SmEmpty \/ fault = "codes" THEN SmUnread(p)
  ELSE IF m.id # "SFP" THEN SmRefused(p)
  ELSE LET t == SmSfpType(m, fault # "spec")
           typed == SmTyped(p, t, m)
           named == [typed EXCEPT !.type = SmVendorType(m, p.type)]
       IN  IF fault = "vendor" THEN SmUnread(typed)
           ELSE IF SmSfpAllowed(m, t) THEN [st |-> "ok", phy |-> named]
           ELSE SmRefused(named)

(* ixgbe_identify_qsfp_module_generic.  A module it does not know is refused
   before its type is recorded; only an optical one is asked for its vendor. *)
SmQsfpActive(m, spec) == "active" \in m.tech \/ (spec /\ m.lmt)

SmIdentifyQsfp(p, m, fault) ==
  IF m = SmEmpty \/ fault = "codes" THEN SmUnread(p)
  ELSE IF m.id # "QSFP" THEN SmRefused(p)
  ELSE IF "passive" \in m.tech
    THEN [st |-> "ok", phy |-> [SmTyped(p, "da_cu", m) EXCEPT !.type = "qsfp_passive"]]
  ELSE IF SmOptical(m)
    THEN LET typed == SmTyped(p, "srlr", m)
             named == [typed EXCEPT !.type = IF m.vendor = "intel" THEN "qsfp_intel"
                                             ELSE "qsfp_unknown"]
         IN  IF fault = "vendor" THEN SmUnread(typed)
             ELSE IF SmVendorAllowed(m.vendor) THEN [st |-> "ok", phy |-> named]
             ELSE SmRefused(named)
  ELSE IF SmQsfpActive(m, fault # "spec")
    THEN [st |-> "ok", phy |-> [SmTyped(p, "da_act_lmt", m) EXCEPT !.type = "qsfp_active"]]
  ELSE SmRefused(p)

SmFaults == IF sm_fails < SmMaxFails THEN {"none", "codes", "spec", "vendor"} ELSE {"none"}

SmIdentifyModule(p, fault) ==
  IF sm_media = "fiber" THEN SmIdentifySfp(p, sm_cage, fault)
  ELSE SmIdentifyQsfp(p, sm_cage, fault)

(* ixgbe_identify_phy_82599: a PHY that has a type keeps it. *)
SmIdentifyPhy(p, fault) ==
  LET r == IF p.type = "unknown" THEN SmIdentifyModule(p, fault) ELSE [st |-> "ok", phy |-> p]
  IN  CASE r.phy.type = "unknown" -> [st |-> "ok", phy |-> [r.phy EXCEPT !.type = "none"]]
        [] r.phy.type = "unsupported" -> [r EXCEPT !.st = "NOT_SUPPORTED"]
        [] OTHER -> r

SmIsSfp(p) == p.type \notin {"unknown", "none", "unsupported"}     \* ixgbe_is_sfp

-----------------------------------------------------------------------------
(* ixgbe_get_sfp_init_sequence_offsets: limiting cables and 1G modules are
   set up as SR modules. *)
SmSequence(t) == IF t \in {"da_act_lmt"} \cup SmOneGig THEN "srlr" ELSE t

SmOffsets(t) ==
  CASE t = "unknown" -> "NOT_SUPPORTED"
    [] t = "not_present" -> "NOT_PRESENT"
    [] OTHER -> IF SmSequence(t) \in SmIds THEN "ok" ELSE "NOT_SUPPORTED"

(* ixgbe_setup_sfp_modules_82599, with the ways it can fall short: the lock,
   a read of the sequence, the lock again for AUTOC, the pipeline reset. *)
SmSetupSfpOnce(p, fault) ==
  [st |-> "ok", phy |-> [p EXCEPT !.programmed = IF @ = "none" THEN SmSequence(p.sfp_type) ELSE @]]

SmSetupSfp(p, fault) ==
  LET off == SmOffsets(p.sfp_type)
      done == [p EXCEPT !.programmed = SmSequence(p.sfp_type)]
  IN  IF p.sfp_type = "unknown" THEN [st |-> "ok", phy |-> p]
      ELSE IF off # "ok" THEN [st |-> off, phy |-> p]
      ELSE CASE fault = "lock" -> [st |-> "SWFW_SYNC", phy |-> p]
             [] fault = "read" -> [st |-> "PHY", phy |-> [p EXCEPT !.programmed = "part"]]
             [] fault = "restart" -> [st |-> "NOT_COMPLETE", phy |-> done]
             [] OTHER -> [st |-> "ok", phy |-> done]

SmSetupFaults == IF sm_fails < SmMaxFails THEN {"none", "lock", "read", "restart"} ELSE {"none"}

(* ixgbe_reset_hw_82599: identify, and set up what is new. *)
SmResetHw(p, f, g) ==
  LET id == SmIdentifyPhy(p, f)
      up == SmSetupSfp(id.phy, g)
  IN  IF id.st = "NOT_SUPPORTED" \/ ~id.phy.needed THEN id
      ELSE [up EXCEPT !.phy.needed = FALSE]

SmCount(f, g) == sm_fails' = sm_fails + (IF f = "none" /\ g = "none" THEN 0 ELSE 1)
SmFixed == UNCHANGED <<sm_media, sm_any, sm_allow>>
SmOp == sm_ops < SmMaxOps /\ sm_ops' = sm_ops + 1

SmReset(p, st) ==      \* a reset of the port in which SmResetHw yields st and p'
  \E f \in SmFaults, g \in SmSetupFaults :
    LET r == SmResetHw(p, f, g)
    IN  /\ st = r.st /\ sm_phy' = r.phy /\ SmCount(f, g)
        /\ sm_failed' = (sm_failed \/ g # "none")
        /\ sm_changed' = (sm_changed /\ p.type # "unknown")

SmStatuses == {"ok", "NOT_SUPPORTED", "NOT_PRESENT", "SWFW_SYNC", "PHY", "NOT_COMPLETE"}

SmProbe ==
  /\ sm_pc = "probe"
  /\ \E st \in SmStatuses : SmReset(sm_phy, st) /\ sm_pc' = (IF st = "ok" THEN "down" ELSE "dead")
  /\ SmFixed /\ UNCHANGED <<sm_cage, sm_flags, sm_lost, sm_ops>>

(* ixgbe_up_complete: only a port known to have a module looks for one. *)
SmUpFlags(p) == IF SmIsSfp(p) THEN {"SFP_NEEDS_RESET"} ELSE {}

SmOpen ==
  /\ sm_pc = "down" /\ SmOp
  /\ sm_pc' = "up" /\ sm_flags' = sm_flags \cup SmUpFlags(sm_phy)
  /\ sm_lost' = (sm_changed /\ ~SmIsSfp(sm_phy))
  /\ SmFixed /\ UNCHANGED <<sm_cage, sm_phy, sm_changed, sm_failed, sm_fails>>

(* ixgbe_down: ixgbe_reset waits for the service task and clears the flags. *)
SmClose ==
  /\ sm_pc = "up" /\ SmOp
  /\ sm_pc' = "down" /\ sm_flags' = {}
  /\ \E st \in SmStatuses : SmReset(sm_phy, st)
  /\ SmFixed /\ UNCHANGED <<sm_cage, sm_lost>>

-----------------------------------------------------------------------------
(* ixgbe_sfp_detection_subtask up to the identification.  A module that is
   refused takes the interface out of the system. *)
SmDetectFlags(st, flags) == IF st = "NOT_PRESENT" THEN flags \cup {"SFP_NEEDS_RESET"} ELSE flags

SmDetect ==
  /\ sm_pc = "up" /\ "SFP_NEEDS_RESET" \in sm_flags
  /\ \E f \in SmFaults :
       LET r == SmIdentifyModule(sm_phy, f)
       IN  /\ sm_phy' = r.phy /\ SmCount(f, "none")
           /\ sm_pc' = (CASE r.st = "NOT_SUPPORTED" -> "dead" [] r.st = "ok" -> "detect"
                          [] OTHER -> "up")
           /\ sm_flags' = SmDetectFlags(r.st, sm_flags)
  /\ sm_changed' = FALSE /\ sm_lost' = FALSE
  /\ SmFixed /\ UNCHANGED <<sm_cage, sm_failed, sm_ops>>

(* The rest of it.  An interrupt that came since the identification is
   cleared with the one that is being served. *)
SmDetected(flags) == (flags \ {"SFP_NEEDS_RESET"}) \cup {"NEED_LINK_CONFIG"}

SmSetup ==
  /\ sm_pc = "detect"
  /\ \E g \in SmSetupFaults :
       LET r == SmSetupSfp(sm_phy, g)
       IN  /\ sm_phy' = r.phy /\ SmCount("none", g)
           /\ sm_pc' = (IF r.st = "NOT_SUPPORTED" THEN "dead" ELSE "up")
           /\ sm_failed' = (g # "none")
  /\ sm_flags' = SmDetected(sm_flags) /\ sm_lost' = sm_changed
  /\ SmFixed /\ UNCHANGED <<sm_cage, sm_changed, sm_ops>>

SmLinkConfig ==      \* ixgbe_sfp_link_config_subtask
  /\ sm_pc = "up" /\ "NEED_LINK_CONFIG" \in sm_flags
  /\ sm_flags' = sm_flags \ {"NEED_LINK_CONFIG"}
  /\ SmFixed /\ UNCHANGED <<sm_cage, sm_phy, sm_pc, sm_changed, sm_lost, sm_failed, sm_ops, sm_fails>>

(* ixgbe_check_sfp_event: the cage's interrupts, ignored while down. *)
SmEvent(flag) ==
  sm_flags' = (IF sm_pc \in {"up", "detect"} THEN sm_flags \cup {flag} ELSE sm_flags)

SmInsert(m) ==
  /\ sm_cage = SmEmpty /\ SmOp /\ sm_pc \notin {"probe", "dead"}
  /\ sm_cage' = m /\ sm_changed' = TRUE /\ SmEvent("SFP_NEEDS_RESET")
  /\ SmFixed /\ UNCHANGED <<sm_phy, sm_pc, sm_lost, sm_failed, sm_fails>>

SmRemove ==
  /\ sm_cage # SmEmpty /\ SmOp /\ sm_pc \notin {"probe", "dead"}
  /\ sm_cage' = SmEmpty
  /\ SmEvent("SFP_NEEDS_RESET") \/ SmEvent("NEED_LINK_CONFIG") \/ UNCHANGED sm_flags
  /\ SmFixed /\ UNCHANGED <<sm_phy, sm_pc, sm_changed, sm_lost, sm_failed, sm_fails>>

SmNext ==
  \/ SmProbe \/ SmOpen \/ SmClose \/ SmDetect \/ SmSetup \/ SmLinkConfig \/ SmRemove
  \/ \E m \in SmModules : SmInsert(m)

SmSpec == SmInit /\ [][SmNext]_smVars

-----------------------------------------------------------------------------
(* While the interface is up a module plugged in since the last identification
   is still to be served, except in the two cases where the driver drops the
   interrupt: it came between the identification and the set-up of another
   module, or the port was opened with no module known to it. *)
SmNoticed == sm_pc = "up" /\ sm_changed => "SFP_NEEDS_RESET" \in sm_flags \/ sm_lost

(* Once the service task has nothing left to do, the serializer is programmed
   for the module that was identified, over any history of insertions, resets
   and failed reads, unless a set-up was cut short (ixgbe_setup_sfp_modules_82599). *)
SmSetUp ==
  sm_pc = "up" /\ sm_flags = {} /\ SmIsSfp(sm_phy) /\ ~sm_failed
  /\ sm_phy.sfp_type \notin {"unknown", "not_present"} =>
    sm_phy.programmed = SmSequence(sm_phy.sfp_type)

\* Both: a module plugged in is going to be served, and once the service
\* task has nothing left to do the serializer is programmed for it.
SmSafe ==
  /\ SmNoticed
  /\ SmSetUp
=============================================================================
