----------------------------- MODULE VlanFilters ----------------------------
(***************************************************************************)
(* The VLAN filters of a port with virtual functions: the table of VLANs   *)
(* the port lets through (VFTA) and the few VLVF registers with the pools  *)
(* that take part in each VLAN (VLVFB), shared by the physical function    *)
(* (ixgbe_vlan_rx_add_vid and kill_vid), by the requests of the VFs and by *)
(* the port VLANs the administrator gives to VFs.                          *)
(*                                                                         *)
(* VLAN 0 always has register 0.  A register holds a VLAN number or        *)
(* VlFree.  Every caller holds the RTNL lock or is the interrupt handler,  *)
(* so each is one step.  The 82598, which has no VLVF, is left out, and so *)
(* is the priority of a port VLAN.                                         *)
(***************************************************************************)
EXTENDS Naturals, FiniteSets, FiniteSetsExt

CONSTANTS
    VlSlots,    \* number of VLVF registers (IXGBE_VLVF_ENTRIES)
    VlVfs,      \* number of virtual functions
    VlIds,      \* VLANs other than 0
    VlMaxOps    \* bound: operations

ASSUME VlAssumption ==
    /\ {VlSlots, VlVfs, VlMaxOps} \subseteq Nat /\ VlSlots > 1
    /\ VlIds \subseteq Nat \ {0}

VARIABLES
    vl,         \* registers: vfta, vlvf, vlvfb, vmvir, spoof
    vl_active,  \* active_vlans
    vl_promisc, \* IFF_PROMISC
    vl_vf,      \* vfinfo: port VLAN, vlan_count, spoof check, clear_to_send
    vl_asked,   \* the <<vlan, pool>> pairs asked for and neither withdrawn nor refused
    vl_up, vl_ops

vlVars == <<vl, vl_active, vl_promisc, vl_vf, vl_asked, vl_up, vl_ops>>

VlIndex == 0 .. VlSlots - 1
VlFree == Max(VlIds) + 1
VlVfSet == 0 .. VlVfs - 1
VlPf == VlVfs

(***************************************************************************)
(* ixgbe_find_vlvf_slot: the register of a VLAN, else the first free one.  *)
(* VlSlots stands for IXGBE_ERR_NO_SPACE.                                  *)
(***************************************************************************)
VlSlot(s, v) ==
    LET held == {i \in VlIndex \ {0} : s.vlvf[i] = v}
        free == {i \in VlIndex \ {0} : s.vlvf[i] = VlFree}
    IN  CASE v = 0 -> 0
          [] v # 0 /\ held # {} -> Min(held)
          [] v # 0 /\ held = {} /\ free # {} -> Min(free)
          [] OTHER -> VlSlots

\* Mutant: a VLAN others still use leaves the VFTA with the first that leaves.
VlKeepsVftaNot(pools, on) == FALSE

VlKeepsVfta(pools, on) == ~on /\ pools # {}

\* ixgbe_set_vfta_generic with ixgbe_set_vlvf_generic.
VlSet(s, v, p, on) ==
    LET i == VlSlot(s, v)
        pools == IF on THEN s.vlvfb[i] \cup {p} ELSE s.vlvfb[i] \ {p}
        vfta == CASE VlKeepsVfta(pools, on) -> s.vfta
                  [] ~VlKeepsVfta(pools, on) /\ on -> s.vfta \cup {v}
                  [] OTHER -> s.vfta \ {v}
    IN  IF i = VlSlots THEN s
        ELSE [s EXCEPT !.vlvfb[i] = pools, !.vfta = vfta,
                       !.vlvf[i] = IF pools # {} THEN v ELSE VlFree]

\* What the callers asked for: a full table refuses without a trace.
VlAsk(a, s, v, p, on) ==
    CASE ~on -> a \ {<<v, p>>}
      [] on /\ VlSlot(s, v) # VlSlots -> a \cup {<<v, p>>}
      [] OTHER -> a

\* ixgbe_clear_vfta_generic and the other registers a reset clears.
VlCleared ==
    [vfta |-> {}, vlvf |-> [i \in VlIndex |-> VlFree], vlvfb |-> [i \in VlIndex |-> {}],
     vmvir |-> [f \in VlVfSet |-> 0], spoof |-> [f \in VlVfSet |-> {}]]

VlInit ==
    /\ vl = VlCleared
    /\ vl_active = {0}
    /\ vl_promisc = FALSE
    /\ vl_vf = [f \in VlVfSet |-> [vlan |-> 0, count |-> 0, check |-> TRUE, cts |-> FALSE]]
    /\ vl_asked = {}
    /\ vl_up = FALSE
    /\ vl_ops = 0

VlOp == vl_ops < VlMaxOps /\ vl_ops' = vl_ops + 1

(***************************************************************************)
(* The physical function.                                                  *)
(***************************************************************************)
VlAddVid(v) ==
    /\ VlOp /\ vl_up
    /\ vl_active' = vl_active \cup {v}
    /\ vl' = VlSet(vl, v, VlPf, TRUE)
    /\ vl_asked' = VlAsk(vl_asked, vl, v, VlPf, TRUE)
    /\ UNCHANGED <<vl_promisc, vl_vf, vl_up>>

VlKillVid(v) ==
    /\ VlOp /\ vl_up /\ v \in vl_active \ {0}
    /\ vl_active' = vl_active \ {v}
    /\ vl' = VlSet(vl, v, VlPf, FALSE)
    /\ vl_asked' = VlAsk(vl_asked, vl, v, VlPf, FALSE)
    /\ UNCHANGED <<vl_promisc, vl_vf, vl_up>>

VlPromisc ==
    /\ VlOp
    /\ vl_promisc' = ~vl_promisc
    /\ UNCHANGED <<vl, vl_active, vl_vf, vl_asked, vl_up>>

\* ixgbe_configure: anti-spoofing per VF, then ixgbe_restore_vlan.
VlRestored(s) == FoldSet(LAMBDA v, t : VlSet(t, v, VlPf, TRUE), s, vl_active)

VlRestoredAsk(s) ==
    vl_asked \cup {<<v, VlPf>> : v \in {w \in vl_active :
        \E i \in VlIndex : VlRestored(s).vlvf[i] = w /\ VlPf \in VlRestored(s).vlvfb[i]}}

VlUp ==
    /\ VlOp /\ ~vl_up
    /\ vl_up' = TRUE
    /\ LET s == [vl EXCEPT !.spoof = [f \in VlVfSet |->
                                        IF vl_vf[f].check THEN @[f] \cup {"mac"}
                                        ELSE @[f] \ ({"mac"} \cup
                                               IF vl_vf[f].count > 0 THEN {"vlan"} ELSE {})]]
       IN  vl' = VlRestored(s) /\ vl_asked' = VlRestoredAsk(s)
    /\ UNCHANGED <<vl_active, vl_promisc, vl_vf>>

\* ixgbe_down resets the controller.
VlDown ==
    /\ VlOp /\ vl_up
    /\ vl_up' = FALSE
    /\ vl' = VlCleared
    /\ vl_asked' = {}
    /\ vl_vf' = [f \in VlVfSet |-> [vl_vf[f] EXCEPT !.cts = FALSE]]
    /\ UNCHANGED <<vl_active, vl_promisc>>

(***************************************************************************)
(* Virtual functions.                                                      *)
(***************************************************************************)
\* ixgbe_set_vf_vlan: VLAN 0 is never removed.
VlVfSets(s, v, p, on) == IF v = 0 /\ ~on THEN s ELSE VlSet(s, v, p, on)
VlVfAsks(a, s, v, p, on) == IF v = 0 /\ ~on THEN a ELSE VlAsk(a, s, v, p, on)

\* ixgbe_vf_reset_event, and the rest of a VF_RESET request for the VLANs.
VlTagged(f, v) == [vl EXCEPT !.vmvir[f] = v,
                             !.spoof[f] = IF v # 0 /\ vl_vf[f].check THEN @ \cup {"vlan"} ELSE @]

VlVfReset(f) ==
    /\ VlOp /\ vl_up
    /\ vl' = VlVfSets(VlTagged(f, vl_vf[f].vlan), vl_vf[f].vlan, f, TRUE)
    /\ vl_asked' = VlVfAsks(vl_asked, vl, vl_vf[f].vlan, f, TRUE)
    /\ vl_vf' = [vl_vf EXCEPT ![f].cts = TRUE]
    /\ UNCHANGED <<vl_active, vl_promisc, vl_up>>

\* ixgbe_set_vf_vlan_msg.  In promiscuous mode the PF joins the VLAN of a VF;
\* it leaves when the last VF left.  The driver reads the second half of the
\* pools one byte past the first half, so what it sees of other pools may be
\* what it meant to read, or pools that are not there.
VlLeaves(s, v, sees) ==
    vl_promisc /\ v \notin vl_active /\ VlSlot(s, v) # VlSlots
    /\ s.vlvf[VlSlot(s, v)] = v /\ s.vlvfb[VlSlot(s, v)] = {VlPf} /\ ~sees

VlVfVlan(f, v, on, sees) ==
    /\ VlOp /\ vl_up /\ vl_vf[f].cts
    /\ vl_vf[f].vlan = 0
    /\ vl_vf' = [vl_vf EXCEPT ![f].count = IF on THEN @ + 1 ELSE IF @ > 0 THEN @ - 1 ELSE 0]
    /\ LET pf == on /\ vl_promisc
           s1 == IF pf THEN VlVfSets(vl, v, VlPf, TRUE) ELSE vl
           a1 == IF pf THEN VlVfAsks(vl_asked, vl, v, VlPf, TRUE) ELSE vl_asked
           s2 == VlVfSets(s1, v, f, on)
           a2 == VlVfAsks(a1, s1, v, f, on)
           refused == ~(v = 0 /\ ~on) /\ VlSlot(s1, v) = VlSlots
           s3 == IF refused \/ ~vl_vf[f].check THEN s2
                 ELSE [s2 EXCEPT !.spoof[f] = @ \cup {"vlan"}]
           leaves == ~on /\ VlLeaves(s3, v, sees)
       IN  /\ vl' = IF leaves THEN VlVfSets(s3, v, VlPf, FALSE) ELSE s3
           /\ vl_asked' = IF leaves THEN VlVfAsks(a2, s3, v, VlPf, FALSE) ELSE a2
    /\ UNCHANGED <<vl_active, vl_promisc, vl_up>>

\* ixgbe_ndo_set_vf_spoofchk.
VlSpoofChk(f, on) ==
    /\ VlOp
    /\ LET kinds == {"mac"} \cup IF vl_vf[f].count > 0 THEN {"vlan"} ELSE {}
       IN  vl' = [vl EXCEPT !.spoof[f] = IF on THEN @ \cup kinds ELSE @ \ kinds]
    /\ vl_vf' = [vl_vf EXCEPT ![f].check = on]
    /\ UNCHANGED <<vl_active, vl_promisc, vl_asked, vl_up>>

\* ixgbe_ndo_set_vf_vlan: a port VLAN replaces the one there was.
VlPortVlan(f, v) ==
    /\ VlOp
    /\ LET old == vl_vf[f].vlan
           dis == old # 0 \/ v = 0
           s1 == IF dis THEN VlVfSets([vl EXCEPT !.vmvir[f] = 0, !.spoof[f] = @ \ {"vlan"}],
                                      old, f, FALSE)
                 ELSE vl
           a1 == IF dis THEN VlVfAsks(vl_asked, vl, old, f, FALSE) ELSE vl_asked
           c1 == IF dis /\ vl_vf[f].count > 0 THEN vl_vf[f].count - 1 ELSE vl_vf[f].count
           fits == v # 0 /\ VlSlot(s1, v) # VlSlots
           lost == dis /\ old # 0 /\ VlSlot(vl, old) = VlSlots
           s2 == VlSet(s1, v, f, TRUE)
       IN  IF fits /\ ~lost
           THEN /\ vl' = [s2 EXCEPT !.vmvir[f] = v,
                                    !.spoof[f] = IF vl_vf[f].check THEN @ \cup {"vlan"} ELSE @]
                /\ vl_asked' = VlAsk(a1, s1, v, f, TRUE)
                /\ vl_vf' = [vl_vf EXCEPT ![f].vlan = v, ![f].count = c1 + 1]
           ELSE /\ vl' = s1
                /\ vl_asked' = a1
                /\ vl_vf' = [vl_vf EXCEPT ![f].vlan = IF dis THEN 0 ELSE @, ![f].count = c1]
    /\ UNCHANGED <<vl_active, vl_promisc, vl_up>>

VlVfActs(f) ==
    \/ VlVfReset(f)
    \/ \E v \in VlIds \cup {0}, on, sees \in BOOLEAN : VlVfVlan(f, v, on, sees)
    \/ \E on \in BOOLEAN : VlSpoofChk(f, on)
    \/ \E v \in VlIds \cup {0} : VlPortVlan(f, v)

VlNext ==
    \/ \E v \in VlIds \cup {0} : VlAddVid(v) \/ VlKillVid(v)
    \/ VlPromisc \/ VlUp \/ VlDown
    \/ \E f \in VlVfSet : VlVfActs(f)

VlSpec == VlInit /\ [][VlNext]_vlVars

-----------------------------------------------------------------------------
(***************************************************************************)
(* Properties.                                                             *)
(***************************************************************************)
\* No VLAN has two VLVF registers, and a free register serves no pool: else
\* the pools of a VLAN are split and removing one leaves it half there.
VlOneSlot ==
    /\ \A i, j \in VlIndex : i # j /\ vl.vlvf[i] # VlFree => vl.vlvf[i] # vl.vlvf[j]
    /\ \A i \in VlIndex : (vl.vlvf[i] = VlFree) = (vl.vlvfb[i] = {})

\* A pool takes part in exactly the VLANs that were asked for it: what the PF
\* and the other VFs add and remove never adds it to or drops it from one.
\* The port lets a VLAN through only while some pool takes part in it.
VlMembers ==
    /\ \A v \in VlIds \cup {0}, p \in VlVfSet \cup {VlPf} :
        <<v, p>> \in vl_asked
            <=> v \in vl.vfta /\ \E i \in VlIndex : vl.vlvf[i] = v /\ p \in vl.vlvfb[i]
    /\ \A v \in vl.vfta : \E p \in VlVfSet \cup {VlPf} : <<v, p>> \in vl_asked

\* While a VF is in service its outgoing tag is its port VLAN, across resets
\* of the port and of the VF.
VlPortVlanHolds ==
    \A f \in VlVfSet : vl_up /\ vl_vf[f].cts => vl.vmvir[f] = vl_vf[f].vlan

\* The three about VLANs: one register for each, exactly the members that
\* were asked for, and a port VLAN that survives resets.
VlSafe ==
  /\ VlOneSlot
  /\ VlMembers
  /\ VlPortVlanHolds
=============================================================================
