------------------------------ MODULE LinkSetup ------------------------------
(***************************************************************************)
(* The MAC link of an 82599 (ixgbe_82599.c): AUTOC and its cached copy,    *)
(* the pipeline reset, multispeed fiber, SmartSpeed, ethtool -s, and what  *)
(* a hardware reset restores.  The link partner (external) decides whether *)
(* the link comes up.  A routine yields the set of its outcomes, a status  *)
(* and the link state `l` it leaves.  Calls are serialised.                *)
(***************************************************************************)
EXTENDS Naturals, FiniteSets

CONSTANTS
  LkBoards,    \* [media, ee, multi, sfp1g, sfi, lesm, keep]: a card and its EEPROM
  LkPeers,     \* what the partner may support: speeds, or backplane technologies
  LkMaxOps     \* bound on requests

VARIABLES lk_board, lk_peer, lk, lk_orig, lk_up, lk_last, lk_ops

lkVars == <<lk_board, lk_peer, lk, lk_orig, lk_up, lk_last, lk_ops>>

LkNone == [lms |-> "none", supp |-> {}]      \* an AUTOC that was never stored
LkSpeeds == {"10G", "1G", "100M"}
LkKx == {"KX4_KX_KR", "KX4_KX_KR_1G_AN", "KX4_KX_KR_SGMII"}
Lk1gModes == {"1G_NO_AN", "1G_AN"}

(* l: AUTOC, cached_autoc, autoneg_advertised, smart_speed_active, the module's
   rate select (SDP5) and laser disable (SDP3), autotry_restart. *)
LkInit ==
  /\ lk_board \in LkBoards /\ lk_peer \in LkPeers
  /\ lk = [autoc |-> lk_board.ee, cached |-> LkNone, adv |-> {}, smart |-> FALSE,
           sdp5 |-> FALSE, sdp3 |-> TRUE, restart |-> FALSE]
  /\ lk_orig = LkNone /\ lk_up = FALSE /\ lk_last = [op |-> "none"] /\ lk_ops = 0

LkModeSpeeds(a) ==
  CASE a.lms \in Lk1gModes -> {"1G"}
    [] a.lms \in {"10G_NO_AN", "10G_SERIAL"} -> {"10G"}
    [] a.lms \in LkKx -> (IF a.lms = "KX4_KX_KR_SGMII" THEN {"100M"} ELSE {})
                         \cup (IF a.supp \cap {"KR", "KX4"} # {} THEN {"10G"} ELSE {})
                         \cup (IF "KX" \in a.supp THEN {"1G"} ELSE {})
    [] a.lms = "SGMII_1G_100M" -> {"1G", "100M"}

(* ixgbe_get_link_capabilities_82599 *)
LkStored(l) == IF lk_orig # LkNone THEN lk_orig ELSE l.autoc
LkCaps(l) ==
  IF lk_board.sfp1g THEN {"1G"}
  ELSE LkModeSpeeds(LkStored(l)) \cup (IF lk_board.multi THEN {"10G", "1G"} ELSE {})

LkAutoneg(l) ==
  IF lk_board.sfp1g THEN TRUE ELSE IF lk_board.multi THEN lk_board.media # "qsfp"
  ELSE LkStored(l).lms \in LkKx \cup {"1G_AN"}

(* ixgbe_check_mac_link_generic: the speed of the link, or "none" (external:
   the laser is on, the module's rate fits and the partner can do it; a
   partner "badKR" answers KR and fails its training). *)
LkLink(l) ==
  LET common == l.autoc.supp \cap lk_peer
      mac == CHOOSE s \in LkModeSpeeds(l.autoc) : TRUE
  IN  IF l.autoc.lms \in LkKx
        THEN IF "badKR" \in lk_peer /\ "KR" \in l.autoc.supp THEN "none"
             ELSE IF common \cap {"KR", "KX4"} # {} THEN "10G" ELSE IF "KX" \in common THEN "1G" ELSE "none"
        ELSE IF mac \in lk_peer /\ ~l.sdp3 /\ (lk_board.media = "fiber" => l.sdp5 = (mac = "10G"))
               THEN mac ELSE "none"

-----------------------------------------------------------------------------
LkOk(l) == [st |-> "ok", l |-> l]
LkErr(st, l) == [st |-> st, l |-> l]

(* ixgbe_reset_pipeline_82599 writes AUTOC from its cached value, twice. *)
LkPipeline(l) == [l EXCEPT !.autoc = l.cached]

LkWrite(l, a) == LkPipeline([l EXCEPT !.autoc = a, !.cached = a])

LkLocked(l, done) ==     \* under the MAC_CSR semaphore when LESM is on
  done \cup (IF lk_board.lesm THEN {LkErr("SWFW_SYNC", l)} ELSE {})

LkNegotiated(l) ==       \* without a link the caller may find negotiation unfinished
  {LkOk(l)} \cup (IF l.autoc.lms \in LkKx /\ LkLink(l) = "none"
                   THEN {LkErr("AUTONEG_NOT_COMPLETE", l)} ELSE {})

(* The AUTOC value for a set of speeds, from the stored one. *)
LkAutoc(l, s) ==
  LET o == LkStored(l)
  IN  CASE o.lms \in LkKx ->
             [o EXCEPT !.supp = (IF "10G" \in s THEN o.supp \cap
                                   ({"KX4"} \cup (IF l.smart THEN {} ELSE {"KR"})) ELSE {})
                                \cup (IF "1G" \in s THEN {"KX"} ELSE {})]
        [] o.lms \in Lk1gModes /\ lk_board.sfi /\ s = {"10G"} -> [o EXCEPT !.lms = "10G_SERIAL"]
        [] o.lms = "10G_SERIAL" /\ lk_board.sfi /\ s = {"1G"} ->
             [o EXCEPT !.lms = IF LkAutoneg(l) THEN "1G_AN" ELSE "1G_NO_AN"]
        [] OTHER -> o

LkSetupMac(l, speed) ==     \* ixgbe_setup_mac_link_82599
  LET s == speed \cap LkCaps(l)
      a == LkAutoc(l, s)
  IN  IF s = {} THEN {LkErr("LINK_SETUP", l)}
      ELSE IF a = l.cached THEN {LkOk(l)}
      ELSE LkLocked(l, LkNegotiated(LkWrite(l, a)))

-----------------------------------------------------------------------------
(* Multispeed fiber: one speed after the other, then back to the highest.
   The ESDP value written is the one read on entry, `e`. *)
LkFlap(l) ==
  IF l.restart /\ lk_board.media = "fiber" THEN [l EXCEPT !.sdp3 = FALSE, !.restart = FALSE] ELSE l

LkRate(l, e, s) ==
  IF lk_board.media = "fiber" THEN [l EXCEPT !.sdp5 = (s = "10G"), !.sdp3 = e.sdp3] ELSE l

LkTry(l, e, s) ==
  IF LkLink(l) = s THEN {LkOk(l)}
  ELSE {IF r.st = "ok" THEN LkOk(LkFlap(r.l)) ELSE r : r \in LkSetupMac(LkRate(l, e, s), {s})}

LkTries(l, want) ==
  LET ten == IF "10G" \in want THEN LkTry(l, l, "10G") ELSE {LkOk(l)}
      More(r) == "1G" \in want /\ r.st = "ok"
                 /\ ~("10G" \in want /\ LkLink(r.l) # "none")
  IN  UNION {IF More(r) THEN LkTry(r.l, l, "1G") ELSE {r} : r \in ten}

LkHighest(want) == IF "10G" \in want THEN {"10G"} ELSE want

LkMultispeed(l, speed) ==
  LET want == speed \cap LkCaps(l) \cap {"10G", "1G"}
      Again(r) == r.st = "ok" /\ LkLink(r.l) = "none" /\ Cardinality(want) > 1
      Advertise(r) == IF r.st = "ok" THEN LkOk([r.l EXCEPT !.adv = want]) ELSE r
      Fallback(r) ==     \* whatever the inner call says, the outer one advertises
        {[x EXCEPT !.l.adv = want] : x \in LkTries(r.l, LkHighest(want))}
  IN  UNION {IF Again(r) THEN Fallback(r) ELSE {Advertise(r)} : r \in LkTries(l, want)}

(* SmartSpeed on a backplane: without KR when the full offer gets no link. *)
LkRestore(l, speed) == LkSetupMac([l EXCEPT !.smart = FALSE], speed)

LkDownshift(l, entry, speed) ==
  LET slow == LkSetupMac([l EXCEPT !.smart = TRUE], speed)
      Off(r) == IF r.st = "ok" /\ LkLink(r.l) = "none"
                  THEN LkRestore(r.l, speed) ELSE {r}
  IN  IF "KR" \notin entry.supp \/ entry.supp \cap {"KX4", "KX"} = {} THEN {LkOk(l)}
      ELSE UNION {Off(r) : r \in slow}

LkSmartspeed(l, speed) ==
  LET first == LkSetupMac([l EXCEPT !.adv = speed \cap LkSpeeds, !.smart = FALSE], speed)
  IN  UNION {IF r.st = "ok" /\ LkLink(r.l) = "none" THEN LkDownshift(r.l, l.autoc, speed) ELSE {r}
             : r \in first}

(* Copper: the PHY takes the speeds, ixgbe_start_mac_link_82599 restarts the
   MAC, and nobody looks at its status. *)
LkCopper(l, speed) ==
  LET told == [l EXCEPT !.adv = speed \cap LkSpeeds]
  IN  {LkOk(r.l) : r \in LkLocked(told, {LkOk(LkPipeline(told))})}

LkSetupLink(l, speed) ==     \* the setup_link chosen by ixgbe_init_mac_link_ops_82599
  IF lk_board.multi THEN LkMultispeed(l, speed)
  ELSE IF lk_board.media = "copper" THEN LkCopper(l, speed)
  ELSE IF lk_board.media = "backplane" /\ ~lk_board.lesm THEN LkSmartspeed(l, speed)
  ELSE LkSetupMac(l, speed)

-----------------------------------------------------------------------------
LkDo(op, want, rs) ==
  /\ lk_ops < LkMaxOps /\ lk_ops' = lk_ops + 1
  /\ \E r \in rs : lk' = r.l /\ lk_last' = [op |-> op, want |-> want, st |-> r.st]
  /\ UNCHANGED <<lk_board, lk_peer, lk_up>>

(* ixgbe_sfp_link_config_subtask and ixgbe_non_sfp_link_config: the speeds of
   the last set-up, or everything the port can do. *)
LkWanted(l) ==
  IF l.adv # {} THEN l.adv
  ELSE IF ~LkAutoneg(l) /\ "10G" \in LkCaps(l) THEN {"10G"}
  ELSE LkCaps(l)

LkConfigure ==
  lk_orig # LkNone /\ lk_up /\ LkDo("setup", LkWanted(lk), LkSetupLink(lk, LkWanted(lk)))
  /\ UNCHANGED lk_orig

(* ixgbe_set_settings, up or down: a failed request is taken back. *)
LkSetSettings(adv) ==
  LET asked == LkSetupLink([lk EXCEPT !.restart = TRUE], adv)
  IN  /\ lk_orig # LkNone /\ (lk_board.multi \/ lk_board.media = "copper") /\ adv # lk.adv
      /\ LkDo("setup", adv, UNION {IF r.st = "ok" THEN {r}
                                  ELSE {[x EXCEPT !.st = r.st] : x \in LkSetupLink(r.l, lk.adv)}
                                  : r \in asked})
      /\ UNCHANGED lk_orig

(* ixgbe_setup_sfp_modules_82599, its last part: SFI mode. *)
LkSetupSfp ==
  LET serial == [lk_orig EXCEPT !.lms = "10G_SERIAL"]
  IN  /\ lk_orig # LkNone /\ lk_board.media \in {"fiber", "qsfp"}
      /\ LkDo("sfp", {}, LkLocked(lk, {LkOk(LkWrite(lk, serial))})) /\ UNCHANGED lk_orig

(* ixgbe_reset_hw_82599: the MAC reset puts AUTOC back to the EEPROM's value;
   the one stored at the first reset is written again, with the link mode of
   before the reset when firmware or wake-up depends on it. *)
LkKeptAll(o, cur) == cur
LkKept(o, cur) == [o EXCEPT !.lms = cur.lms]

LkFreshStale(l) == [l EXCEPT !.autoc = lk_board.ee]
LkFresh(l) == [l EXCEPT !.autoc = lk_board.ee, !.cached = lk_board.ee]

LkResetHw ==
  LET cur == IF lk.cached # LkNone THEN lk.cached ELSE lk.autoc
      fresh == LkFresh(lk)
      orig == IF lk_orig = LkNone THEN lk_board.ee
              ELSE IF lk_board.keep THEN LkKept(lk_orig, cur) ELSE lk_orig
  IN  /\ lk_orig' = orig
      /\ LkDo("reset", {}, IF orig = lk_board.ee THEN {LkOk(fresh)}
                           ELSE LkLocked(fresh, {LkOk(LkWrite(fresh, orig))}))

(* The laser: on at ixgbe_up_complete, off at the end of ixgbe_down. *)
LkUpDown ==
  /\ lk_orig # LkNone /\ lk_ops < LkMaxOps /\ lk_ops' = lk_ops + 1
  /\ lk_up' = ~lk_up
  /\ lk' = [lk EXCEPT !.sdp3 = lk_board.media = "fiber" /\ lk_up]
  /\ lk_last' = [op |-> "laser"] /\ UNCHANGED <<lk_board, lk_peer, lk_orig>>

LkPeerChanges ==
  /\ lk_peer' \in LkPeers /\ lk_last' = [op |-> "peer"]
  /\ UNCHANGED <<lk_board, lk, lk_orig, lk_up, lk_ops>>

LkNext ==
  \/ LkConfigure \/ LkSetupSfp \/ LkResetHw \/ LkUpDown \/ LkPeerChanges
  \/ \E adv \in SUBSET {"10G", "1G"} \ {{}} : LkSetSettings(adv)

LkSpec == LkInit /\ [][LkNext]_lkVars

-----------------------------------------------------------------------------
(* cached_autoc is AUTOC after any sequence of set-ups, resets, lock failures
   and module changes: no set-up is skipped because the value it would write
   seems to be there already (ixgbe_setup_mac_link_82599). *)
LkCacheTrue == lk.cached = LkNone \/ lk.cached = lk.autoc

(* A multispeed set-up that succeeds without a link leaves MAC and module at
   the highest speed asked for, and still advertises all that were asked for. *)
LkFallsBack ==
  lk_last.op = "setup" /\ lk_board.multi /\ lk_last.st = "ok" /\ LkLink(lk) = "none" =>
    LET want == lk_last.want \cap LkCaps(lk) \cap {"10G", "1G"}
    IN  /\ lk.adv = want
        /\ LkModeSpeeds(lk.autoc) = LkHighest(want)
        /\ lk_board.media = "fiber" => lk.sdp5 = ("10G" \in want)

(* A SmartSpeed set-up that succeeds without a link has KR switched on again. *)
LkSmartOff ==
  lk_last.op = "setup" /\ lk_board.media = "backplane" /\ lk_last.st = "ok"
  /\ LkLink(lk) = "none" =>
    ~lk.smart /\ ("10G" \in lk_last.want => lk.autoc.supp \cap {"KR"} = lk_orig.supp \cap {"KR"})

(* What the port can do never shrinks: a reset never mistakes a temporary
   AUTOC for the EEPROM's (ixgbe_reset_hw_82599). *)
LkCapsStable == [][lk_orig # LkNone => LkCaps(lk) \subseteq LkCaps(lk)']_lkVars

\* The three about setting a link up: cached_autoc is AUTOC, and a set-up
\* that finds no link falls back and leaves SmartSpeed as it should.
LkSafe ==
  /\ LkCacheTrue
  /\ LkFallsBack
  /\ LkSmartOff
=============================================================================
