----------------------------- MODULE MacFilters -----------------------------
(***************************************************************************)
(* The address filters of a port: the driver's mac_table, the receive      *)
(* address registers (RAR) with the pools each one delivers to (MPSAR, or  *)
(* the VIND field of the 82598), the multicast hash table (MTA), and the   *)
(* callers that share them: the network core (ixgbe_set_rx_mode,           *)
(* ixgbe_set_mac), resets, the virtual functions' mailbox requests and the *)
(* administrator's "ip link set vf".                                       *)
(*                                                                         *)
(* A unicast address is a number above 0, and 0 is the cleared address.    *)
(* The pool of the physical function is the one after its VFs              *)
(* (VMDQ_P(0)).  Every caller holds the RTNL lock or runs in the single    *)
(* interrupt handler of a port that is up, so each handler is one step.    *)
(***************************************************************************)
EXTENDS Naturals, FiniteSets, FiniteSetsExt

CONSTANTS
    MfSlots,    \* number of RARs the driver manages (num_rar_entries)
    MfVfs,      \* number of virtual functions of a board that has them
    MfMacvlans, \* entries of mv_list
    MfAddrs,    \* unicast addresses
    MfGroups,   \* multicast addresses
    MfMaxOps    \* bound: operations

ASSUME MfAssumption ==
    /\ {MfSlots, MfVfs, MfMacvlans, MfMaxOps} \subseteq Nat /\ MfSlots > 1
    /\ MfAddrs \subseteq Nat \ {0} /\ MfGroups \subseteq Nat

VARIABLES
    mf,     \* tables and registers
    mf_dev, \* what the network core asks for: uc, mc, mode
    mf_vf,  \* vfinfo of each VF, and whether the VF completed a reset
    mf_mv,  \* mv_list
    mf_up, mf_ops

mfVars == <<mf, mf_dev, mf_vf, mf_mv, mf_up, mf_ops>>

MfIndex == 0 .. MfSlots - 1
MfSan == MfSlots
MfNone == [addr |-> 0, queue |-> 0]
MfVfSet(mac) == IF mac = "82598" THEN {} ELSE 0 .. MfVfs - 1
MfPf(mac) == Cardinality(MfVfSet(mac))

(***************************************************************************)
(* Registers.  The 82599 adds a pool to a RAR, the 82598 replaces its only *)
(* one.  Clearing a RAR clears its pools.                                  *)
(***************************************************************************)
MfSetVmdq(s, i, q) ==
    [s EXCEPT !.pool[i] = IF s.mac = "82598" THEN {q} ELSE @ \cup {q}]

MfClearVmdq(s, i) ==
    [s EXCEPT !.pool[i] = IF s.mac = "82598" THEN {0} ELSE {}]

MfSetRar(s, i, a, q) == [MfSetVmdq(s, i, q) EXCEPT !.rar[i] = a]

MfClearRar(s, i) == MfClearVmdq([s EXCEPT !.rar[i] = 0], i)

(***************************************************************************)
(* mac_table.  An entry that changes is written to its register at once.   *)
(***************************************************************************)
MfPut(s, i, a, q) ==
    MfSetRar([s EXCEPT !.tab[i] = [addr |-> a, queue |-> q]], i, a, q)

MfRemove(s, i) == MfClearRar([s EXCEPT !.tab[i] = MfNone], i)

MfFree(s) == {i \in MfIndex : s.tab[i].addr = 0}

MfAdd(s, a, q) ==
    IF MfFree(s) = {} THEN s ELSE MfPut(s, Min(MfFree(s)), a, q)

MfDel(s, a, q) ==
    LET found == {i \in MfIndex : a # 0 /\ s.tab[i] = [addr |-> a, queue |-> q]}
    IN  IF found = {} THEN s ELSE MfRemove(s, Min(found))

MfFlush(s) == FoldSet(LAMBDA i, t : MfRemove(t, i), s, MfIndex)

MfFullSync(s) ==
    LET sync(i, t) == IF t.tab[i].addr # 0
                      THEN MfSetRar(t, i, t.tab[i].addr, t.tab[i].queue)
                      ELSE MfClearRar(t, i)
    IN  FoldSet(sync, s, MfIndex)

(***************************************************************************)
(* ixgbe_set_rx_mode.  Two multicast addresses may share a hash bit.       *)
(***************************************************************************)
MfVector(a) == a \div 2

MfHashes(d, v) ==
    {MfVector(a) : a \in d.mc} \cup UNION {v[f].hashes : f \in DOMAIN v}

MfWriteMc(s, d, v) ==
    MfFullSync([s EXCEPT !.mta = MfHashes(d, v), !.mfe = @ \/ d.mc # {}])

MfWriteUc(s, d) ==
    LET renew(a, t) == MfAdd(MfDel(t, a, MfPf(s.mac)), a, MfPf(s.mac))
    IN  FoldSet(renew, s, d.uc)

MfOverflow(s, d) == Cardinality(d.uc) > Cardinality(MfFree(s))

MfRxMode(s, d, v) ==
    LET flags == [s EXCEPT !.upe = d.mode = "promisc", !.mpe = d.mode # "normal"]
        mc == IF d.mode = "normal" THEN MfWriteMc(flags, d, v) ELSE flags
    IN  IF MfOverflow(mc, d) THEN [mc EXCEPT !.upe = TRUE] ELSE MfWriteUc(mc, d)

(***************************************************************************)
(* ixgbe_reset.  The hardware part leaves the station address in RAR 0 and *)
(* the SAN address in the last one, both unfit for a port with VFs: the    *)
(* driver then gives them to the PF's pool.                                *)
(***************************************************************************)
MfSanPool(s) == [s EXCEPT !.pool[MfSan] = {MfPf(s.mac)}]

MfResetHw(s) ==
    LET rars == [s EXCEPT !.rar = [i \in MfIndex \cup {MfSan} |->
                                     IF i = 0 THEN s.addr ELSE 0],
                          !.mta = {}, !.mfe = FALSE, !.upe = FALSE, !.mpe = FALSE]
        clear == MfClearVmdq(rars, 0)
    IN  IF s.mac = "82598" THEN clear ELSE MfSetVmdq(clear, MfSan, 0)

MfReset(s) ==
    MfSanPool(MfPut(MfFlush(MfResetHw(s)), 0, s.tab[0].addr, MfPf(s.mac)))

MfInit ==
    \E mac \in {"82598", "82599"}, a \in MfAddrs :
        LET s == [mac |-> mac, addr |-> a, upe |-> FALSE, mpe |-> FALSE,
                  mta |-> {}, mfe |-> FALSE,
                  tab |-> [i \in MfIndex |->
                             IF i = 0 THEN [addr |-> a, queue |-> MfPf(mac)] ELSE MfNone],
                  rar |-> [i \in MfIndex \cup {MfSan} |-> 0],
                  pool |-> [i \in MfIndex \cup {MfSan} |->
                              IF mac = "82598" THEN {0} ELSE {}]]
        IN  /\ mf = MfReset(s)
            /\ mf_dev = [uc |-> {}, mc |-> {}, mode |-> "normal"]
            /\ mf_vf = [f \in MfVfSet(mac) |->
                          [addr |-> 0, admin |-> FALSE, hashes |-> {},
                           cts |-> FALSE, live |-> FALSE]]
            /\ mf_mv = [e \in 1 .. MfMacvlans |-> [vf |-> MfVfs, addr |-> 0]]
            /\ mf_up = FALSE
            /\ mf_ops = 0

MfOp == mf_ops < MfMaxOps /\ mf_ops' = mf_ops + 1

(***************************************************************************)
(* The network core.  A closed port only remembers its lists.  The list of *)
(* secondary addresses does not hold the station address: the table would  *)
(* keep one entry for both and lose it when the station address moves.     *)
(***************************************************************************)
MfWish(d) ==
    /\ MfOp
    /\ d # mf_dev /\ mf.addr \notin d.uc
    /\ mf_dev' = d
    /\ mf' = IF mf_up THEN MfRxMode(mf, d, mf_vf) ELSE mf
    /\ UNCHANGED <<mf_vf, mf_mv, mf_up>>

MfLists ==
    \/ \E uc \in SUBSET MfAddrs : MfWish([mf_dev EXCEPT !.uc = uc])
    \/ \E mc \in SUBSET MfGroups : MfWish([mf_dev EXCEPT !.mc = mc])
    \/ \E mode \in {"normal", "allmulti", "promisc"} :
            MfWish([mf_dev EXCEPT !.mode = mode])

MfMoved(s, a) ==
    [MfAdd(MfDel(s, s.addr, MfPf(s.mac)), a, MfPf(s.mac)) EXCEPT !.addr = a]

MfSetMac ==
    /\ MfOp
    /\ \E a \in MfAddrs \ mf_dev.uc : mf' = MfMoved(mf, a)
    /\ UNCHANGED <<mf_dev, mf_vf, mf_mv, mf_up>>

MfUp ==
    /\ MfOp /\ ~mf_up
    /\ mf_up' = TRUE
    /\ mf' = MfRxMode(mf, mf_dev, mf_vf)
    /\ UNCHANGED <<mf_dev, mf_vf, mf_mv>>

MfDown ==
    /\ MfOp /\ mf_up
    /\ mf_up' = FALSE
    /\ mf' = MfReset(mf)
    /\ mf_vf' = [f \in DOMAIN mf_vf |-> [mf_vf[f] EXCEPT !.cts = FALSE, !.live = FALSE]]
    /\ UNCHANGED <<mf_dev, mf_mv>>

(***************************************************************************)
(* Virtual functions.                                                      *)
(***************************************************************************)
\* ixgbe_set_vf_mac: a VF whose address does not fit is left without one.
MfVfMac(s, f, a) ==
    LET without == MfDel(s, mf_vf[f].addr, f)
        fits == MfFree(without) # {}
    IN  [s |-> MfAdd(without, a, f), addr |-> IF fits THEN a ELSE 0]

MfResetEvent(f) ==
    MfDel(MfRxMode(mf, mf_dev, [mf_vf EXCEPT ![f].hashes = {}]), mf_vf[f].addr, f)

MfVfFlr(f) ==
    /\ MfOp /\ mf_up
    /\ mf' = MfResetEvent(f)
    /\ mf_vf' = [mf_vf EXCEPT ![f].hashes = {}, ![f].live = FALSE]
    /\ UNCHANGED <<mf_dev, mf_mv, mf_up>>

MfVfReset(f) ==
    /\ MfOp /\ mf_up
    /\ LET s == MfResetEvent(f)
           r == IF mf_vf[f].addr = 0 THEN [s |-> s, addr |-> 0]
                ELSE MfVfMac(s, f, mf_vf[f].addr)
       IN  /\ mf' = r.s
           /\ mf_vf' = [mf_vf EXCEPT ![f].hashes = {}, ![f].addr = r.addr,
                                     ![f].cts = TRUE, ![f].live = TRUE]
    /\ UNCHANGED <<mf_dev, mf_mv, mf_up>>

\* A request of a VF is refused until the VF was reset.
MfVfSetMac(f, a) ==
    /\ MfOp /\ mf_up /\ mf_vf[f].cts
    /\ mf_vf[f].admin => mf_vf[f].addr = a
    /\ LET r == MfVfMac(mf, f, a)
       IN  mf' = r.s /\ mf_vf' = [mf_vf EXCEPT ![f].addr = r.addr]
    /\ UNCHANGED <<mf_dev, mf_mv, mf_up>>

MfVfMulticast(f, hs) ==
    /\ MfOp /\ mf_up /\ mf_vf[f].cts
    /\ mf_vf' = [mf_vf EXCEPT ![f].hashes = hs]
    /\ mf' = [mf EXCEPT !.mta = @ \cup hs]
    /\ UNCHANGED <<mf_dev, mf_mv, mf_up>>

\* ixgbe_set_vf_macvlan: 0 clears the VF's list, 1 starts it anew, more adds.
MfVfMacvlan(f, index, a) ==
    /\ MfOp /\ mf_up /\ mf_vf[f].cts
    /\ ~mf_vf[f].admin \/ index = 0
    /\ LET mine == {e \in DOMAIN mf_mv : index <= 1 /\ mf_mv[e].vf = f}
           s == FoldSet(LAMBDA e, t : MfDel(t, mf_mv[e].addr, f), mf, mine)
           left == [e \in DOMAIN mf_mv |->
                      IF e \in mine THEN [mf_mv[e] EXCEPT !.vf = MfVfs] ELSE mf_mv[e]]
           spare == {e \in DOMAIN left : left[e].vf = MfVfs}
           added == index # 0 /\ spare # {} /\ MfFree(s) # {}
       IN  /\ mf' = IF added THEN MfAdd(s, a, f) ELSE s
           /\ mf_mv' = IF added
                       THEN [left EXCEPT ![Min(spare)] = [vf |-> f, addr |-> a]]
                       ELSE left
    /\ UNCHANGED <<mf_dev, mf_vf, mf_up>>

\* "ip link set DEV vf F mac A", also while the port is closed.
MfNdoVfMac(f, a) ==
    /\ MfOp
    /\ LET r == MfVfMac(mf, f, a)
       IN  /\ mf' = r.s
           /\ mf_vf' = [mf_vf EXCEPT ![f].addr = r.addr,
                                     ![f].admin = @ \/ r.addr # 0]
    /\ UNCHANGED <<mf_dev, mf_mv, mf_up>>

MfVfActs(f) ==
    \/ MfVfFlr(f)
    \/ MfVfReset(f)
    \/ \E a \in MfAddrs : MfVfSetMac(f, a) \/ MfNdoVfMac(f, a)
    \/ \E hs \in SUBSET {MfVector(a) : a \in MfGroups} : MfVfMulticast(f, hs)
    \/ \E index \in 0 .. 2, a \in MfAddrs : MfVfMacvlan(f, index, a)

MfNext ==
    \/ MfLists \/ MfSetMac \/ MfUp \/ MfDown
    \/ \E f \in DOMAIN mf_vf : MfVfActs(f)

MfSpec == MfInit /\ [][MfNext]_mfVars

-----------------------------------------------------------------------------
(***************************************************************************)
(* Properties.                                                             *)
(***************************************************************************)
\* A frame for address a reaches pool q.
MfHeard(a, q) == \E i \in MfIndex : mf.rar[i] = a /\ q \in mf.pool[i]

\* The port always receives its own station address, and in the slot that
\* ixgbe_reset saves (mac_table[0]), whatever lists and VFs did to the table.
MfOwnAddress == mf.rar[0] = mf.addr /\ MfPf(mf.mac) \in mf.pool[0]

\* While the port is up, every secondary address the network core asked for
\* is received: by a register of its own or in promiscuous mode.
MfListHeard ==
    mf_up => \A a \in mf_dev.uc : mf.upe \/ MfHeard(a, MfPf(mf.mac))

\* An address is delivered only to the pool that owns its entry: never to the
\* previous owner of the slot, nor the SAN address to a VF.
MfOnlyOwner ==
    /\ \A i \in MfIndex :
        /\ mf.rar[i] = mf.tab[i].addr
        /\ mf.rar[i] # 0 => mf.pool[i] = {mf.tab[i].queue}
    /\ mf.pool[MfSan] = {MfPf(mf.mac)}

\* A VF that completed its reset goes on receiving its address, unless the VF
\* itself also listed that address as a macvlan, and its multicast groups,
\* whatever the PF and the other VFs change.
MfVfHeard ==
    \A f \in DOMAIN mf_vf :
        mf_up /\ mf_vf[f].live =>
            /\ \/ mf_vf[f].addr = 0
               \/ MfHeard(mf_vf[f].addr, f)
               \/ \E e \in DOMAIN mf_mv : mf_mv[e].addr = mf_vf[f].addr
            /\ mf_vf[f].hashes \subseteq mf.mta

\* The four about addresses: the port hears its own and those listed, a
\* pool only what its entries own, and a VF goes on hearing its address and
\* groups.
MfSafe ==
  /\ MfOwnAddress
  /\ MfListHeard
  /\ MfOnlyOwner
  /\ MfVfHeard
=============================================================================
