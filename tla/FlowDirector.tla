---------------------------- MODULE FlowDirector ----------------------------
(***************************************************************************)
(* Flow director.  In signature mode (ATR) the transmit path samples TCP   *)
(* packets and directs the answers to the ring that sent them; a table     *)
(* that fills up raises an interrupt, and the service task empties it.  In *)
(* perfect mode the administrator keeps a list of rules (ethtool -N) that  *)
(* the driver writes to the table and restores after each reset.           *)
(*                                                                         *)
(* A flow is a number.  A mask keeps the whole number or its parity, and   *)
(* the hash of a masked flow (FdHash) collides for different flows.  The   *)
(* ethtool entry points hold the RTNL lock and are one step each; the      *)
(* service task empties the table in two, since nothing stops a reset from *)
(* coming between its test of the mode and its writes.                     *)
(***************************************************************************)
EXTENDS Naturals, Sequences, SequencesExt, FiniteSets

CONSTANTS
    FdRings,    \* number of rings, receive and transmit
    FdFlows,    \* flows
    FdLocs,     \* locations of rules
    FdMasks,    \* masks an administrator gives: "full", "parity", "bad"
    FdRate,     \* atr_sample_rate
    FdCounts,   \* bound: values of the u8 atr_count
    FdFull,     \* signature filters at which the interrupt is raised
    FdInOrder,  \* rules are only added before the ones there are
    FdMaxOps    \* bound: operations of the administrator

ASSUME FdAssumption ==
    /\ {FdRings, FdRate, FdCounts, FdFull, FdMaxOps} \subseteq Nat
    /\ FdRate > 0 /\ FdRate < FdCounts
    /\ FdFlows \subseteq Nat /\ FdLocs \subseteq Nat
    /\ FdMasks \subseteq {"full", "parity", "bad"}
    /\ FdInOrder \in BOOLEAN

VARIABLES
    fd,         \* the hardware: mode, mask, perfect filters, signature filters, irq
    fd_flags,   \* "hash" | "perfect" | "none": the FDIR_*_CAPABLE flags
    fd_atr,     \* may ATR be switched on: no VMDq, one TC, RSS, a sample rate
    fd_list,    \* fdir_filter_list
    fd_mask,    \* fdir_mask
    fd_ring,    \* per transmit ring: TX_FDIR_INIT_DONE, atr_sample_rate, atr_count
    fd_reinit,  \* IXGBE_FLAG2_FDIR_REQUIRES_REINIT
    fd_task,    \* "idle" | "empty": the service task, about to empty the table
    fd_up, fd_ops,
    fd_failed,  \* emptying the table timed out, and no reset followed
    fd_overlap, \* a reset came between the two steps of the service task
    fd_freed    \* a rule was linked behind one that had been freed

fdVars == <<fd, fd_flags, fd_atr, fd_list, fd_mask, fd_ring, fd_reinit, fd_task,
            fd_up, fd_ops, fd_failed, fd_overlap, fd_freed>>

FdRingSet == 0 .. FdRings - 1
FdDrop == FdRings     \* IXGBE_FDIR_DROP_QUEUE
FdNone == FdRings + 1 \* a flow with no signature filter

FdMasked(f, m) == IF m = "full" THEN f ELSE f % 2
FdHash(key) == key % 2
FdNoSigs == [f \in FdFlows |-> FdNone]
FdTable(mode, irq) ==
    [mode |-> mode, mask |-> "full", filters |-> {}, sigs |-> FdNoSigs, irq |-> irq]

FdInit ==
    /\ fd_atr \in BOOLEAN
    /\ fd_flags = IF fd_atr THEN "hash" ELSE "none"
    /\ fd = FdTable("off", FALSE) /\ fd_list = <<>> /\ fd_mask = "full"
    /\ fd_ring = [q \in FdRingSet |-> [done |-> FALSE, rate |-> 0, count |-> 0]]
    /\ fd_reinit = FALSE /\ fd_task = "idle" /\ fd_up = FALSE /\ fd_ops = 0
    /\ fd_failed = FALSE /\ fd_overlap = FALSE /\ fd_freed = FALSE

-----------------------------------------------------------------------------
(***************************************************************************)
(* The perfect filters.                                                    *)
(***************************************************************************)
\* ixgbe_fdir_set_input_mask_82599: a mask that covers part of a field is refused.
FdMaskBad(m) == m = "bad"

\* ixgbe_fdir_write_perfect_filter_82599: a filter with the same hash and software
\* index is updated, any other stays.
FdWrite(t, r) ==
    LET same == {x \in t.filters : x.hash = FdHash(r.key) /\ x.loc = r.loc}
    IN  IF t.mode # "perfect" THEN t
        ELSE [t EXCEPT !.filters = (@ \ same)
                  \cup {[hash |-> FdHash(r.key), loc |-> r.loc, key |-> r.key, queue |-> r.action]}]

\* ixgbe_fdir_erase_perfect_filter_82599
FdErase(t, r) ==
    [t EXCEPT !.filters = {x \in @ : x.hash # FdHash(r.key) \/ x.loc # r.loc}]

\* ixgbe_fdir_filter_restore: the mask, then the rules in the order of the list.
\* Mutant: the rules are left to the next change.
FdRestoreNot(t, m, list) == t

FdRestore(t, m, list) ==
    FoldLeft(FdWrite, IF list = <<>> THEN t ELSE [t EXCEPT !.mask = m], list)

(***************************************************************************)
(* ixgbe_update_ethtool_fdir_entry.  The walk stops at the first rule at   *)
(* or behind the location; `parent' is taken from the walk's look-ahead,   *)
(* so it is that rule (no rule when the walk fell off the end), not the    *)
(* one before it.                                                          *)
(***************************************************************************)
FdStop(list, loc) == SelectInSeq(list, LAMBDA r : r.loc >= loc)
FdHeld(list, loc) == FdStop(list, loc) # 0 /\ list[FdStop(list, loc)].loc = loc

FdUnlinked(list, loc) ==
    IF FdHeld(list, loc) THEN RemoveAt(list, FdStop(list, loc)) ELSE list

FdLinked(list, r) ==
    IF FdStop(list, r.loc) > 1 THEN InsertAt(list, FdStop(list, r.loc) + 1, r)
    ELSE <<r>> \o FdUnlinked(list, r.loc)

\* The old rule leaves the table unless the new one took its place there.
FdReplaced(t, list, r) ==
    IF ~FdHeld(list, r.loc) THEN t
    ELSE LET old == list[FdStop(list, r.loc)]
         IN  IF FdHash(old.key) = FdHash(r.key) THEN t ELSE FdErase(t, old)

\* ixgbe_add_ethtool_fdir_entry: the first rule sets the mask of all.
FdMaskFits(m) == IF fd_list = <<>> THEN ~FdMaskBad(m) ELSE m = fd_mask

FdAdd(loc, f, m, action) ==
    LET r == [loc |-> loc, key |-> FdMasked(f, m), action |-> action, mask |-> m]
        t == FdWrite(IF fd_list = <<>> THEN [fd EXCEPT !.mask = m] ELSE fd, r)
    IN  /\ fd_flags = "perfect"
        /\ FdInOrder => \A i \in DOMAIN fd_list : loc <= fd_list[i].loc
        /\ fd_mask' = IF fd_list = <<>> THEN m ELSE fd_mask
        /\ IF FdMaskFits(m)
           THEN /\ fd' = FdReplaced(t, fd_list, r)
                /\ fd_freed' = (FdHeld(fd_list, loc) /\ FdStop(fd_list, loc) > 1)
                /\ fd_list' = FdLinked(fd_list, r)
           ELSE UNCHANGED <<fd, fd_list, fd_freed>>
        /\ UNCHANGED <<fd_flags, fd_atr, fd_ring, fd_reinit, fd_task, fd_up, fd_failed,
                       fd_overlap>>

\* ixgbe_del_ethtool_fdir_entry asks for no mode.
FdDel(loc) ==
    /\ FdHeld(fd_list, loc)
    /\ fd' = FdErase(fd, fd_list[FdStop(fd_list, loc)])
    /\ fd_list' = FdUnlinked(fd_list, loc)
    /\ UNCHANGED <<fd_flags, fd_atr, fd_mask, fd_ring, fd_reinit, fd_task, fd_up,
                   fd_failed, fd_overlap, fd_freed>>

-----------------------------------------------------------------------------
(***************************************************************************)
(* Up and down.                                                            *)
(***************************************************************************)
\* ixgbe_configure: ixgbe_init_fdir_signature_82599 or _perfect_82599, and
\* ixgbe_irq_enable once the port is up.
FdConfigured(flags, m, list) ==
    CASE flags = "hash" -> FdTable("signature", TRUE)
      [] flags = "perfect" -> FdRestore(FdTable("perfect", FALSE), m, list)
      [] flags = "none" -> FdTable("off", FALSE)

\* ixgbe_configure_tx_ring leaves TX_FDIR_INIT_DONE alone when ATR is off.
FdRingSetUp(r, flags) ==
    IF flags = "hash" THEN [done |-> TRUE, rate |-> FdRate, count |-> 0]
    ELSE [r EXCEPT !.rate = 0]

\* ixgbe_down and ixgbe_up, or ixgbe_up alone.
FdUp(flags) ==
    /\ fd' = FdConfigured(flags, fd_mask, fd_list)
    /\ fd_ring' = [q \in FdRingSet |-> FdRingSetUp(fd_ring[q], flags)]
    /\ fd_reinit' = FALSE /\ fd_failed' = FALSE
    /\ fd_overlap' = (fd_overlap \/ fd_task = "empty")

FdOpen ==
    /\ ~fd_up /\ fd_up' = TRUE
    /\ FdUp(fd_flags)
    /\ UNCHANGED <<fd_flags, fd_atr, fd_list, fd_mask, fd_task, fd_freed>>

FdReset ==
    /\ fd_up
    /\ FdUp(fd_flags)
    /\ UNCHANGED <<fd_flags, fd_atr, fd_list, fd_mask, fd_task, fd_up, fd_freed>>

\* ixgbe_close: the reset empties the table, ixgbe_fdir_filter_exit the list.
FdClose ==
    /\ fd_up /\ fd_up' = FALSE
    /\ fd' = FdTable("off", FALSE) /\ fd_reinit' = FALSE
    /\ fd_list' = <<>>
    /\ UNCHANGED <<fd_flags, fd_atr, fd_mask, fd_ring, fd_task, fd_failed, fd_overlap,
                   fd_freed>>

\* ixgbe_set_features with a changed NETIF_F_NTUPLE, and the reset it asks for.
FdSetNtuple ==
    LET flags == IF fd_flags # "perfect" THEN "perfect"
                 ELSE IF fd_atr THEN "hash" ELSE "none"
    IN  /\ fd_flags' = flags
        /\ IF fd_up THEN FdUp(flags)
           ELSE /\ fd' = FdTable("off", FALSE)
                /\ UNCHANGED <<fd_ring, fd_reinit, fd_failed, fd_overlap>>
        /\ UNCHANGED <<fd_atr, fd_list, fd_mask, fd_task, fd_up, fd_freed>>

-----------------------------------------------------------------------------
(***************************************************************************)
(* ATR.                                                                    *)
(***************************************************************************)
\* ixgbe_atr: every SYN, and one in FdRate of the other TCP packets but a FIN.
FdSampled(r, kind) ==
    \/ kind = "syn"
    \/ kind = "data" /\ (r.count + 1) % FdCounts >= FdRate

\* ixgbe_xmit_frame_ring, and ixgbe_fdir_add_signature_filter_82599
FdXmit(q, f, kind) ==
    LET r == fd_ring[q]
    IN  /\ fd_up /\ r.done /\ r.rate > 0
        /\ IF FdSampled(r, kind)
           THEN /\ fd' = [fd EXCEPT !.sigs[f] = q]
                /\ fd_ring' = [fd_ring EXCEPT ![q].count = 0]
           ELSE /\ fd_ring' = [fd_ring EXCEPT ![q].count = (@ + 1) % FdCounts]
                /\ UNCHANGED fd
        /\ UNCHANGED <<fd_flags, fd_atr, fd_list, fd_mask, fd_reinit, fd_task, fd_up,
                       fd_failed, fd_overlap, fd_freed>>

FdUsed == {f \in FdFlows : fd.sigs[f] # FdNone}

\* ixgbe_msix_other on the table-full threshold: ATR stops until the table is empty.
FdFullIrq ==
    /\ fd_up /\ fd.irq /\ Cardinality(FdUsed) >= FdFull
    /\ \E q \in FdRingSet : fd_ring[q].done
    /\ fd_ring' = [q \in FdRingSet |-> [fd_ring[q] EXCEPT !.done = FALSE]]
    /\ fd' = [fd EXCEPT !.irq = FALSE] /\ fd_reinit' = TRUE
    /\ UNCHANGED <<fd_flags, fd_atr, fd_list, fd_mask, fd_task, fd_up, fd_failed,
                   fd_overlap, fd_freed>>

\* ixgbe_irq_enable at the end of any other interrupt of that vector.
FdOtherIrq ==
    /\ fd_up /\ fd_flags = "hash" /\ ~fd_reinit /\ ~fd.irq
    /\ fd' = [fd EXCEPT !.irq = TRUE]
    /\ UNCHANGED <<fd_flags, fd_atr, fd_list, fd_mask, fd_ring, fd_reinit, fd_task, fd_up,
                   fd_failed, fd_overlap, fd_freed>>

\* ixgbe_fdir_reinit_subtask up to the first write of
\* ixgbe_reinit_fdir_tables_82599.
FdReinitBegin ==
    /\ fd_reinit /\ fd_task = "idle"
    /\ fd_reinit' = FALSE
    /\ fd_task' = IF fd_up /\ fd_flags = "hash" THEN "empty" ELSE "idle"
    /\ UNCHANGED <<fd, fd_flags, fd_atr, fd_list, fd_mask, fd_ring, fd_up, fd_failed,
                   fd_overlap, fd_freed>>

FdResumed(r) == [r EXCEPT !.done = TRUE]

\* The table is empty, in the mode the service task read from FDIRCTRL.
FdReinitEnd ==
    /\ fd_task = "empty" /\ fd_task' = "idle"
    /\ \/ /\ fd' = FdTable("signature", TRUE)
          /\ fd_ring' = [q \in FdRingSet |-> FdResumed(fd_ring[q])]
          /\ UNCHANGED fd_failed
       \/ /\ fd_failed' = TRUE
          /\ UNCHANGED <<fd, fd_ring>>
    /\ UNCHANGED <<fd_flags, fd_atr, fd_list, fd_mask, fd_reinit, fd_up, fd_overlap, fd_freed>>

-----------------------------------------------------------------------------
FdAdmin ==
    \/ \E l \in FdLocs, f \in FdFlows, m \in FdMasks, a \in {0, FdDrop} : FdAdd(l, f, m, a)
    \/ \E l \in FdLocs : FdDel(l)
    \/ FdOpen \/ FdReset \/ FdClose \/ FdSetNtuple

FdService ==
    ~fd_freed /\ UNCHANGED fd_ops /\ (FdReinitBegin \/ FdReinitEnd)

FdNext ==
    \/ /\ ~fd_freed
       /\ \/ fd_ops < FdMaxOps /\ fd_ops' = fd_ops + 1 /\ FdAdmin
          \/ /\ UNCHANGED fd_ops
             /\ \/ \E q \in FdRingSet, f \in FdFlows, k \in {"syn", "data", "other"} :
                      FdXmit(q, f, k)
                \/ FdFullIrq \/ FdOtherIrq
    \/ FdService

\* The service task runs again as long as it is scheduled.
FdSpec == FdInit /\ [][FdNext]_fdVars /\ WF_fdVars(FdService)

-----------------------------------------------------------------------------
(***************************************************************************)
(* In perfect mode the table holds exactly the rules of the list, through  *)
(* replacements, resets and changes of mode: ixgbe_fdir_filter_restore and *)
(* ixgbe_update_ethtool_fdir_entry.                                        *)
(***************************************************************************)
FdSteered ==
    fd_up /\ fd_flags = "perfect" /\ ~fd_overlap /\ ~fd_freed =>
        {<<x.loc, x.key, x.queue>> : x \in fd.filters}
            = {<<r.loc, r.key, r.action>> : r \in Range(fd_list)}

(***************************************************************************)
(* All rules were asked for with the one mask the table applies, also when *)
(* the list was emptied and started again with another mask ("Only one     *)
(* mask supported per port").                                              *)
(***************************************************************************)
FdOneMask ==
    fd_up /\ fd_flags = "perfect" /\ ~fd_overlap =>
        \A r \in Range(fd_list) : r.mask = fd.mask

(***************************************************************************)
(* A ring that samples does so into a table of signatures: no mode change, *)
(* reset or late emptying of the table leaves ixgbe_atr writing signature  *)
(* filters among perfect ones.                                             *)
(***************************************************************************)
FdAtrMatchesTable ==
    \A q \in FdRingSet :
        fd_up /\ fd_ring[q].done /\ fd_ring[q].rate > 0 => fd.mode = "signature"

(***************************************************************************)
(* ATR stopped by a full table starts again, unless the port is closed,    *)
(* changes its mode or cannot empty the table (ixgbe_fdir_reinit_subtask). *)
(***************************************************************************)
FdResumes ==
    \A q \in FdRingSet :
        (fd_up /\ fd_flags = "hash" /\ ~fd_ring[q].done)
            ~> (fd_ring[q].done \/ ~fd_up \/ fd_flags # "hash" \/ fd_failed)

(***************************************************************************)
(* A location has one rule: "if there is an old rule occupying our place   *)
(* remove it" (ixgbe_ethtool.c, ixgbe_update_ethtool_fdir_entry).          *)
(***************************************************************************)
FdOneRule == Cardinality({r.loc : r \in Range(fd_list)}) = Len(fd_list)

\* The three about the filter table: it holds the rules of the list, under
\* their one mask, and no signature filter among perfect ones.
FdSafe ==
  /\ FdSteered
  /\ FdOneMask
  /\ FdAtrMatchesTable
=============================================================================
