---------------------------- MODULE QueueLayout -----------------------------
(***************************************************************************)
(* How many rings a port has, which registers and which interrupt vector   *)
(* each gets (ixgbe_lib.c): ixgbe_init_interrupt_scheme counts the rings   *)
(* for the features that are on, asks for MSI-X vectors, falls back to one *)
(* ring on one vector when it gets none, and maps rings to registers.  The *)
(* scheme is torn down and built again by each change of the traffic       *)
(* classes, of the channels and of FCoE.                                   *)
(*                                                                         *)
(* Counts and register numbers are the real ones.  A pool of queues is     *)
(* given by its size (per) where the code has a bit mask.                  *)
(***************************************************************************)
EXTENDS Naturals, Sequences, SequencesExt, FiniteSets

CONSTANTS
    QlPorts,    \* the ports: MAC type, CPUs, VFs, pools, and what is capable
    QlTcs,      \* numbers of traffic classes to ask for
    QlChannels, \* numbers of channels to ask for
    QlGrants,   \* MSI-X vectors the kernel may grant
    QlMaxOps    \* bound: operations

ASSUME QlAssumption ==
    /\ QlTcs \subseteq Nat /\ QlChannels \subseteq Nat \ {0}
    /\ QlGrants \subseteq Nat /\ QlMaxOps \in Nat

VARIABLES
    ql,         \* adapter: limits, flags, and the counts made from them
    ql_vec,     \* q_vector: the rings of each vector, rx and tx
    ql_reg,     \* reg_idx of the rings, rx and tx
    ql_ops

qlVars == <<ql, ql_vec, ql_reg, ql_ops>>

QlMinOf(a, b) == IF a < b THEN a ELSE b
QlMaxOf(a, b) == IF a > b THEN a ELSE b
QlCeil(a, b) == (a + b - 1) \div b
QlRoundUp(a, b) == QlCeil(a, b) * b     \* __ALIGN_MASK

-----------------------------------------------------------------------------
(***************************************************************************)
(* ixgbe_set_num_queues: how many rings.                                   *)
(***************************************************************************)
\* FCoE gets `own' rings behind the others.
QlFcoeOwn(a, own) ==
    [a EXCEPT !.fci = own, !.fco = a.rx, !.rx = @ + own, !.tx = @ + own]

\* ixgbe_set_dcb_vmdq_queues
QlDcbVmdq(a) ==
    LET per == IF a.tcs > 4 THEN 8 ELSE 4
        all == QlMinOf(a.vlimit + a.voffset, 128 \div per)
        pools == IF a.mac = "82598" THEN QlMinOf(a.vlimit, 4) ELSE all - a.voffset
        spare == IF a.mac = "82598" THEN 0 ELSE QlMinOf((128 \div per) - all, a.fclimit)
        b == [a EXCEPT !.vi = pools, !.per = IF a.mac = "82598" THEN 8 ELSE per, !.ri = 1,
                       !.rx = pools * a.tcs, !.tx = pools * a.tcs, !.hash = FALSE]
    IN  CASE ~a.fcoe -> b
          [] a.fcoe /\ spare > 0 -> QlFcoeOwn(b, spare)
          [] a.fcoe /\ spare = 0 -> [b EXCEPT !.fci = 1, !.fco = a.fctc]

\* ixgbe_set_dcb_queues
QlDcb(a) ==
    LET most == IF a.mac = "82598" THEN 4 ELSE IF a.tcs > 4 THEN 8 ELSE 16
        rss == QlMinOf(QlMinOf(a.netq \div a.tcs, most), a.rlimit)
        b == [a EXCEPT !.ri = rss, !.rx = rss * a.tcs, !.tx = rss * a.tcs, !.hash = FALSE]
    IN  IF ~a.fcoe THEN b
        ELSE [b EXCEPT !.fci = QlMinOf(rss, a.fclimit), !.fco = rss * a.fctc]

\* FCoE shares the RSS rings; `all' rings serve both.
QlFcoeShared(a, all) ==
    LET own == QlMinOf(all, a.fclimit)
        n == QlMaxOf(all, a.rx)
    IN  [a EXCEPT !.fci = own, !.fco = all - own, !.rx = n, !.tx = n]

\* ixgbe_set_vmdq_queues
QlVmdq(a) ==
    LET old == a.mac = "82598"
        all == IF old THEN QlMinOf(a.vlimit, 16) ELSE QlMinOf(64, a.vlimit + a.voffset)
        small == IF old THEN all > 4 \/ a.rlimit = 1 ELSE all > 32 \/ a.rlimit < 4
        per == CASE old /\ small -> 1 [] old /\ ~small -> 8
                 [] ~old /\ small -> 2 [] ~old /\ ~small -> 4
        rss == CASE old /\ small -> 1 [] old /\ ~small -> QlMinOf(a.rlimit, 8)
                 [] ~old /\ small -> QlMinOf(a.rlimit, 2) [] ~old /\ ~small -> 4
        pools == IF old THEN all ELSE all - a.voffset
        spare == IF old THEN 0 ELSE QlMinOf(128 - all * per, a.fclimit)
        b == [a EXCEPT !.vi = pools, !.per = per, !.ri = rss,
                       !.rx = pools * rss, !.tx = pools * rss, !.hash = FALSE]
    IN  CASE ~a.fcoe -> b
          [] a.fcoe /\ pools > 1 /\ spare > 0 -> QlFcoeOwn(b, spare)
          [] OTHER -> QlFcoeShared(b, IF a.msix THEN QlMinOf(spare + rss, a.cpus) ELSE rss)

\* ixgbe_set_rss_queues
QlRss(a) ==
    LET fdir == a.rlimit > 1 /\ a.atr
        n == IF fdir THEN a.flimit ELSE a.rlimit
        b == [a EXCEPT !.ri = a.rlimit, !.rx = n, !.tx = n, !.hash = fdir]
    IN  IF ~a.fcoe THEN b
        ELSE QlFcoeShared(b, IF a.msix THEN QlMinOf(QlMinOf(a.fclimit + n, a.cpus), a.netq) ELSE n)

QlCounted(a) ==
    CASE a.tcs > 1 /\ a.vmdq -> QlDcbVmdq(a)
      [] a.tcs > 1 /\ ~a.vmdq -> QlDcb(a)
      [] a.tcs <= 1 /\ a.vmdq -> QlVmdq(a)
      [] a.tcs <= 1 /\ ~a.vmdq -> QlRss(a)

-----------------------------------------------------------------------------
(***************************************************************************)
(* ixgbe_cache_ring_register: which registers.                             *)
(***************************************************************************)
\* Pools of `per' registers, `width' of them used; from ring `linear' on (FCoE), the
\* registers follow one another.
QlPooled(n, first, per, width, linear) ==
    FoldLeft(LAMBDA regs, i :
                 LET next == IF regs = <<>> THEN first ELSE Last(regs) + 1
                 IN  Append(regs, IF i < linear /\ next % per >= width
                                  THEN QlRoundUp(next, per) ELSE next),
             <<>>, [i \in 1 .. n |-> i - 1])

\* ixgbe_get_first_reg_idx, the transmit side
\* Mutant: the boundary of the third class is off by one.
QlFirstTxOff(mac, tcs, tc) ==
    CASE mac = "82598" -> tc * 4
      [] mac # "82598" /\ tcs > 4 ->
            IF tc < 4 THEN tc * 32 ELSE IF tc < 5 THEN (tc + 2) * 16 ELSE (tc + 8) * 8
      [] OTHER -> IF tc < 2 THEN tc * 64 ELSE (tc + 4) * 16

QlFirstTx(mac, tcs, tc) ==
    CASE mac = "82598" -> tc * 4
      [] mac # "82598" /\ tcs > 4 ->
            IF tc < 3 THEN tc * 32 ELSE IF tc < 5 THEN (tc + 2) * 16 ELSE (tc + 8) * 8
      [] OTHER -> IF tc < 2 THEN tc * 64 ELSE (tc + 4) * 16

QlFirstRx(mac, tcs, tc) ==
    CASE mac = "82598" -> tc * 8
      [] mac # "82598" /\ tcs > 4 -> tc * 16
      [] OTHER -> tc * 32

\* ixgbe_cache_ring_dcb
QlDcbRegs(a) ==
    [rx |-> [i \in 1 .. a.rx |-> QlFirstRx(a.mac, a.tcs, (i - 1) \div a.ri) + ((i - 1) % a.ri)],
     tx |-> [i \in 1 .. a.tx |-> QlFirstTx(a.mac, a.tcs, (i - 1) \div a.ri) + ((i - 1) % a.ri)]]

\* ixgbe_cache_ring_dcb_vmdq: FCoE rings of their own take the class's register of
\* the pools that are left.
QlDcbVmdqRegs(a) ==
    LET pooled == QlPooled(a.rx, a.voffset * a.per, a.per, a.tcs, a.rx)
        moved(i) == (a.voffset + a.vi + (i - 1 - a.fco)) * a.per + a.fctc
        regs == [i \in 1 .. a.rx |->
                    IF a.fcoe /\ a.fco >= a.tcs /\ i > a.fco THEN moved(i) ELSE pooled[i]]
    IN  IF a.mac = "82598"
        THEN [rx |-> [i \in 1 .. a.rx |-> (((i - 1) \div 8) + (i - 1) * 8) % 64],
              tx |-> [i \in 1 .. a.tx |-> (((i - 1) \div 16) + (i - 1) * 4) % 32]]
        ELSE [rx |-> regs, tx |-> regs]

\* ixgbe_cache_ring_vmdq
QlVmdqRegs(a) ==
    LET linear == IF a.fco # 0 THEN a.fco + 1 ELSE a.rx
        regs == QlPooled(a.rx, a.voffset * a.per, a.per, a.ri, linear)
    IN  [rx |-> regs, tx |-> regs]

QlRegs(a) ==
    CASE a.tcs > 1 /\ a.vmdq -> QlDcbVmdqRegs(a)
      [] a.tcs > 1 /\ ~a.vmdq -> QlDcbRegs(a)
      [] a.tcs <= 1 /\ a.vmdq -> QlVmdqRegs(a)
      [] a.tcs <= 1 /\ ~a.vmdq ->     \* ixgbe_cache_ring_rss
            [rx |-> [i \in 1 .. a.rx |-> i - 1], tx |-> [i \in 1 .. a.tx |-> i - 1]]

-----------------------------------------------------------------------------

(***************************************************************************)
(* ixgbe_alloc_q_vectors and ixgbe_alloc_q_vector: which vector.           *)
(***************************************************************************)
\* A vector gets `left' rings shared by `vectors' of them.
QlShare(left, vectors) == QlCeil(left, vectors)

\* Vectors first .. count - 1 share n rings, each with stride count.
QlDealt(n, first, count) ==
    FoldLeft(LAMBDA s, v :
                 LET k == QlShare(s.left, count - v)
                 IN  [left |-> s.left - k,
                      rings |-> Append(s.rings, {(v - first) + j * count : j \in 0 .. k - 1})],
             [left |-> n, rings |-> <<>>], [v \in 1 .. count - first |-> first + v - 1]).rings

QlVectors(a) ==
    LET apart == IF a.qv >= a.rx + a.tx THEN a.rx ELSE 0
    IN  [rx |-> IF apart > 0
                THEN [v \in 1 .. a.qv |-> IF v <= apart THEN {v - 1} ELSE {}]
                ELSE QlDealt(a.rx, 0, a.qv),
         tx |-> [v \in 1 .. apart |-> {}] \o QlDealt(a.tx, apart, a.qv)]

-----------------------------------------------------------------------------
(***************************************************************************)
(* ixgbe_set_interrupt_capability.                                         *)
(***************************************************************************)
QlBudget(a) ==
    QlMinOf(QlMinOf(QlMaxOf(a.rx, a.tx), a.cpus) + 1, a.maxq + 1)

\* ixgbe_disable_sriov
QlNoVfs(a) ==
    IF ~a.sriov THEN a
    ELSE [a EXCEPT !.sriov = FALSE, !.voffset = 0, !.vmdq = @ /\ a.vlimit # 1]

\* No MSI-X: DCB, VMDq, SR-IOV and RSS go, for good.
QlFallback(a) ==
    LET b == QlNoVfs([a EXCEPT !.tcs = 0, !.vmdq = FALSE, !.pgtcs = 1])
    IN  [QlCounted([b EXCEPT !.rlimit = 1]) EXCEPT !.qv = 1]

\* ixgbe_clear_interrupt_scheme, ixgbe_init_interrupt_scheme; ixgbe_acquire_msix_vectors
\* with `granted' vectors; `lost' when a q_vector cannot be allocated.
QlScheme(a, granted, lost) ==
    LET b == QlCounted([a EXCEPT !.msix = FALSE, !.given = granted, !.fci = 0, !.fco = 0])
        got == QlMinOf(granted, QlBudget(b))
        c == IF got >= 2 THEN [b EXCEPT !.msix = TRUE, !.qv = QlMinOf(got - 1, b.maxq)]
             ELSE QlFallback(b)
    IN  IF lost
        THEN /\ ql' = [c EXCEPT !.rx = 0, !.tx = 0, !.qv = 0, !.msix = FALSE]
             /\ ql_vec' = [rx |-> <<>>, tx |-> <<>>] /\ ql_reg' = [rx |-> <<>>, tx |-> <<>>]
        ELSE /\ ql' = c /\ ql_vec' = QlVectors(c) /\ ql_reg' = QlRegs(c)

-----------------------------------------------------------------------------

\* ixgbe_enable_sriov: the traffic classes that are left with n VFs.
QlTcsWithVfs(mac, n) ==
    IF mac = "82599" /\ n < 16 THEN 8 ELSE IF n < 32 THEN 4 ELSE 1

\* ixgbe_sw_init, ixgbe_check_options and ixgbe_enable_sriov, before the first scheme.
QlInit ==
    \E p \in QlPorts :
        /\ ql = [mac |-> p.mac, cpus |-> p.cpus, atr |-> p.atr, sriov |-> p.vfs > 0,
                 maxq |-> IF p.mac = "82598" THEN 16 ELSE 64,
                 netq |-> IF p.mac = "82598" THEN 32 ELSE 71,
                 tcs |-> 0, fctc |-> 0,
                 pgtcs |-> CASE p.vfs > 0 -> QlTcsWithVfs(p.mac, p.vfs)
                             [] p.vfs = 0 /\ p.mac = "X540" -> 4
                             [] OTHER -> 8,
                 vmdq |-> p.pools > 1 \/ p.vfs > 0, voffset |-> p.vfs,
                 vlimit |-> IF p.pools = 0 /\ p.vfs > 0 THEN 1 ELSE p.pools,
                 rlimit |-> QlMinOf(16, p.cpus),
                 flimit |-> IF p.mac = "82598" THEN 0 ELSE QlMinOf(63, p.cpus),
                 fcoe |-> FALSE, fclimit |-> QlMinOf(8, p.cpus),
                 msix |-> FALSE, given |-> 0, qv |-> 0, rx |-> 0, tx |-> 0, vi |-> 0, ri |-> 1, per |-> 1,
                 fci |-> 0, fco |-> 0, hash |-> FALSE]
        /\ ql_vec = [rx |-> <<>>, tx |-> <<>>] /\ ql_reg = [rx |-> <<>>, tx |-> <<>>]
        /\ ql_ops = 0

\* ixgbe_probe (a probe that fails leaves no port), and ixgbe_resume afterwards
QlBuild == \E g \in QlGrants, lost \in BOOLEAN : (ql_ops = 0 => ~lost) /\ QlScheme(ql, g, lost)

\* On the 82598 it is eight classes or an error, so DCB is never switched off again.
QlTcAllowed(tc) == tc <= ql.pgtcs /\ (ql.mac = "82598" => tc >= 8)

\* ixgbe_setup_tc; the FCoE priority falls in one of the classes.
QlSetupTc(tc) ==
    /\ QlTcAllowed(tc)
    /\ \E g \in QlGrants, lost \in BOOLEAN, fctc \in {0, QlMinOf(3, QlMaxOf(tc, 1) - 1)} :
         QlScheme([ql EXCEPT !.tcs = tc, !.fctc = fctc], g, lost)

\* ixgbe_set_channels, ixgbe_max_channels
QlSetChannels(n) ==
    LET most == CASE ~ql.msix \/ ql.sriov -> 1
                  [] ql.msix /\ ~ql.sriov /\ ql.tcs > 1 ->
                        IF ql.mac = "82598" THEN 4 ELSE IF ql.tcs > 4 THEN 8 ELSE 16
                  [] OTHER -> IF ql.atr THEN 63 ELSE 16
        a == [ql EXCEPT !.flimit = n, !.rlimit = QlMinOf(n, 16), !.fclimit = QlMinOf(n, 8)]
    IN  /\ n <= most
        /\ \/ /\ QlTcAllowed(ql.tcs)
              /\ \E g \in QlGrants, lost \in BOOLEAN : QlScheme(a, g, lost)
           \/ /\ ~QlTcAllowed(ql.tcs)
              /\ ql' = a
              /\ UNCHANGED <<ql_vec, ql_reg>>

\* ixgbe_fcoe_enable, ixgbe_fcoe_disable
QlSetFcoe ==
    /\ ql.mac # "82598"
    /\ \E g \in QlGrants, lost \in BOOLEAN : QlScheme([ql EXCEPT !.fcoe = ~@], g, lost)

QlNext ==
    /\ ql_ops < QlMaxOps /\ ql_ops' = ql_ops + 1
    /\ \/ QlBuild
       \/ ql_ops > 0 /\ \E tc \in QlTcs : QlSetupTc(tc)
       \/ ql_ops > 0 /\ \E n \in QlChannels : QlSetChannels(n)
       \/ ql_ops > 0 /\ QlSetFcoe

QlSpec == QlInit /\ [][QlNext]_qlVars

-----------------------------------------------------------------------------
QlDistinct(s) == Cardinality(Range(s)) = Len(s)

(***************************************************************************)
(* No two rings of a direction have the same registers, and all registers  *)
(* exist, whatever features were switched in whatever order: the counts of *)
(* ixgbe_set_num_queues fit the map of ixgbe_cache_ring_register.  (The    *)
(* one exception the code makes: with DCB and VMDq the 82598's transmit    *)
(* map repeats itself from the second pool on.)                            *)
(***************************************************************************)
QlOwnRegisters ==
    /\ QlDistinct(ql_reg.rx)
    /\ QlDistinct(ql_reg.tx) \/ (ql.mac = "82598" /\ ql.tcs > 1 /\ ql.vmdq)
    /\ \A r \in Range(ql_reg.rx) : r < IF ql.mac = "82598" THEN 64 ELSE 128
    /\ \A r \in Range(ql_reg.tx) : r < IF ql.mac = "82598" THEN 32 ELSE 128

(***************************************************************************)
(* The physical function keeps a pool beside the pools of its VFs (the     *)
(* comment in ixgbe_enable_sriov: "limit traffic classes based on VFs      *)
(* enabled"), so it never falls back, and takes the VFs away, unless the   *)
(* kernel refuses the vectors; and its rings stay clear of the registers   *)
(* of the VFs' pools.                                                      *)
(***************************************************************************)
QlClearOfVfs ==
    /\ ql.qv > 0 /\ ql.given >= 2 => ql.msix
    /\ ql.qv > 0 /\ ql.sriov =>
          \A r \in Range(ql_reg.rx) \cup Range(ql_reg.tx) : r >= ql.voffset * ql.per

(***************************************************************************)
(* Each ring is on exactly one vector, however many vectors were granted.  *)
(***************************************************************************)
QlServed ==
    \A d \in {"rx", "tx"} :
        ql.qv > 0 =>
            /\ UNION Range(ql_vec[d]) = 0 .. ql[d] - 1
            /\ \A v, w \in DOMAIN ql_vec[d] : v # w => ql_vec[d][v] \cap ql_vec[d][w] = {}

(***************************************************************************)
(* A port without MSI-X has one ring in each direction, on one vector.     *)
(***************************************************************************)
QlOneWithoutMsix == ql.qv > 0 /\ ~ql.msix => ql.qv = 1 /\ ql.rx = 1 /\ ql.tx = 1

\* The four about the layout of ixgbe_init_interrupt_scheme: registers of
\* its own for every ring, outside the pools of the VFs, one vector for
\* each ring, and one ring of each kind without MSI-X.
QlSafe ==
  /\ QlOwnRegisters
  /\ QlClearOfVfs
  /\ QlServed
  /\ QlOneWithoutMsix
=============================================================================
