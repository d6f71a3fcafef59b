------------------------------ MODULE FcoeDdp -------------------------------
(***************************************************************************)
(* Direct data placement of FCoE exchanges (ixgbe_fcoe.c): the storage     *)
(* stack sets up a context for an exchange, the port writes the data of    *)
(* the exchange straight into its scatter list, the receive path marks     *)
(* the exchange done, and the stack puts the context back, or takes it     *)
(* back when it gives up.                                                  *)
(*                                                                         *)
(* Setting up and the receive path are cut where another processor can     *)
(* come in between.  Environment: the stack sets up an exchange only after *)
(* it put the last one of the same number and no descriptor of that one is *)
(* waiting in a ring; a hardware reset drops all contexts; the port drops  *)
(* a context when it receives the response of its exchange.                *)
(***************************************************************************)
EXTENDS Naturals, Sequences, FiniteSets, SequencesExt

CONSTANTS
    FoXids,     \* numbers of exchanges, 0 .. fcoe_ddp_xid
    FoSgls,     \* scatter lists: sequences of [addr, len]
    FoBuf,      \* IXGBE_FCBUFF_MIN, size of a buffer
    FoCountMax, \* IXGBE_BUFFCNT_MAX
    FoExtra,    \* address of the extra buffer
    FoMaxOps    \* bound: calls of the stack and the administrator

ASSUME FoAssumption ==
    /\ 0 \in FoXids /\ FoBuf \in Nat \ {0, 1} /\ FoCountMax \in Nat \ {0} /\ FoMaxOps \in Nat
    /\ \A sgl \in FoSgls : Len(sgl) > 0 /\ \A i \in DOMAIN sgl : sgl[i].len > 0

VARIABLES
    fo_if,      \* open, enabled, ref(count), ddp_pool, pools, top (fcoe_ddp_xid), target, lastseq
    fo_ddp,     \* fcoe->ddp: udl, sgl, err for each exchange
    fo_mapped,  \* how often the scatter list of an exchange is mapped
    fo_local,   \* what ixgbe_fcoe_ddp_setup is about to tell the port
    fo_hw,      \* the port's contexts
    fo_uld,     \* the stack's view: "idle", "setup", "on" or "off" (no DDP)
    fo_rxq,     \* descriptors of FCoE frames in the ring
    fo_rx,      \* the descriptor ixgbe_fcoe_ddp is working on
    fo_clash,   \* history: exchanges two processors worked on at once
    fo_ops

foVars == <<fo_if, fo_ddp, fo_mapped, fo_local, fo_hw, fo_uld, fo_rxq, fo_rx, fo_clash, fo_ops>>

FoClear == [udl |-> FALSE, sgl |-> <<>>, err |-> TRUE, target |-> FALSE]
FoNoContext == [valid |-> FALSE, bufs |-> <<>>, first |-> 0, last |-> 0]
FoTop == CHOOSE x \in FoXids : \A y \in FoXids : y <= x

FoInit ==
    /\ fo_if = [open |-> FALSE, enabled |-> FALSE, ref |-> 0, ddp_pool |-> FALSE,
                pools |-> FALSE, top |-> 0, target |-> FALSE, lastseq |-> FALSE]
    /\ fo_ddp = [x \in FoXids |-> FoClear]
    /\ fo_mapped = [x \in FoXids |-> 0]
    /\ fo_local = [x \in FoXids |-> FoNoContext]
    /\ fo_hw = [x \in FoXids |-> FoNoContext]
    /\ fo_uld = [x \in FoXids |-> "idle"]
    /\ fo_rxq = <<>> /\ fo_rx = <<>> /\ fo_clash = {} /\ fo_ops = 0

FoOp == fo_ops < FoMaxOps /\ fo_ops' = fo_ops + 1

-----------------------------------------------------------------------------
(***************************************************************************)
(* The walk over a scatter list in ixgbe_fcoe_ddp_setup.                   *)
(***************************************************************************)
\* the pieces of one element: up to each multiple of FoBuf
FoPieces(e) ==
    LET first == e.addr \div FoBuf
        last == (e.addr + e.len - 1) \div FoBuf
    IN  [k \in 1 .. last - first + 1 |->
            LET from == IF k = 1 THEN e.addr ELSE (first + k - 1) * FoBuf
                to == IF k = last - first + 1 THEN e.addr + e.len ELSE (first + k) * FoBuf
            IN  [off |-> from % FoBuf, len |-> to - from, base |-> from - (from % FoBuf)]]

FoAll(sgl) == FlattenSeq([i \in DOMAIN sgl |-> FoPieces(sgl[i])])

FoAligned(p, j, n) ==
    /\ j > 1 => p.off = 0
    /\ j < n => p.off + p.len = FoBuf

\* whether the list can be described to the port
FoFits(sgl) ==
    LET ps == FoAll(sgl)
    IN  /\ Len(ps) <= FoCountMax
        /\ \A j \in DOMAIN ps : FoAligned(ps[j], j, Len(ps))
        /\ Last(ps).off + Last(ps).len = FoBuf => Len(ps) < FoCountMax

\* udl, firstoff and lastsize: a full last buffer is followed by one byte of
\* the extra buffer
FoContext(sgl) ==
    LET ps == FoAll(sgl)
        size == Last(ps).off + Last(ps).len
        bases == [j \in DOMAIN ps |-> ps[j].base]
    IN  [valid |-> TRUE, first |-> ps[1].off,
         bufs |-> IF size = FoBuf THEN Append(bases, FoExtra) ELSE bases,
         last |-> IF size = FoBuf THEN 1 ELSE size]

-----------------------------------------------------------------------------
(***************************************************************************)
(* The storage stack.                                                      *)
(***************************************************************************)
\* ixgbe_fcoe_ddp_setup up to the programming of the port: the checks, the
\* mapping of the list and the walk, which gives everything back if it fails.
\* The pool or the mapping may fail.
FoSetup(x, sgl, target) ==
    /\ FoOp /\ fo_uld[x] = "idle"
    /\ \A i \in DOMAIN fo_rxq : fo_rxq[i].xid # x
    /\ \A i \in DOMAIN fo_rx : fo_rx[i].xid # x
    /\ LET may == x <= fo_if.top /\ fo_if.open /\ fo_ddp[x].sgl = <<>> /\ fo_if.pools
       IN  \/ /\ may /\ FoFits(sgl)
              /\ fo_ddp' = [fo_ddp EXCEPT ![x] =
                                [udl |-> TRUE, sgl |-> sgl, err |-> TRUE, target |-> target]]
              /\ fo_mapped' = [fo_mapped EXCEPT ![x] = @ + 1]
              /\ fo_local' = [fo_local EXCEPT ![x] = FoContext(sgl)]
              /\ fo_uld' = [fo_uld EXCEPT ![x] = "setup"]
           \/ /\ fo_ddp' = IF may THEN [fo_ddp EXCEPT ![x] = FoClear] ELSE fo_ddp
              /\ fo_uld' = [fo_uld EXCEPT ![x] = "off"]
              /\ UNCHANGED <<fo_mapped, fo_local>>
    /\ UNCHANGED <<fo_if, fo_hw, fo_rxq, fo_rx, fo_clash>>

\* the rest of it, under fcoe->lock
FoProgram(x) ==
    /\ fo_uld[x] = "setup"
    /\ LET turnon == fo_ddp[x].target /\ ~fo_if.target
       IN  fo_if' = [fo_if EXCEPT !.target = @ \/ turnon, !.lastseq = @ \/ turnon]
    /\ fo_hw' = [fo_hw EXCEPT ![x] = fo_local[x]]
    /\ fo_local' = [fo_local EXCEPT ![x] = FoNoContext]
    /\ fo_uld' = [fo_uld EXCEPT ![x] = "on"]
    /\ UNCHANGED <<fo_ddp, fo_mapped, fo_rxq, fo_rx, fo_clash, fo_ops>>

\* Mutant: the context in the port is left alone.
FoInvalidatesNot(ddp) == FALSE

FoInvalidates(ddp) == ddp.err

\* ixgbe_fcoe_ddp_put of the exchanges xs
FoPutAll(xs) ==
    LET live == {x \in xs : x <= fo_if.top /\ fo_ddp[x].udl}
    IN  /\ fo_ddp' = [x \in FoXids |-> IF x \in live THEN FoClear ELSE fo_ddp[x]]
        /\ fo_mapped' = [x \in FoXids |-> IF x \in live /\ fo_ddp[x].sgl # <<>>
                                          THEN fo_mapped[x] - 1 ELSE fo_mapped[x]]
        /\ fo_clash' = fo_clash \cup {fo_rx[i].xid : i \in {j \in DOMAIN fo_rx : fo_rx[j].xid \in live}}
                                \cup {x \in live : fo_uld[x] = "setup"}

\* the exchange is over, or the stack gives it up
FoPut(x) ==
    /\ fo_uld[x] \in {"on", "off"}
    /\ FoPutAll({x})
    /\ fo_hw' = IF x <= fo_if.top /\ fo_ddp[x].udl /\ FoInvalidates(fo_ddp[x])
                THEN [fo_hw EXCEPT ![x] = FoNoContext] ELSE fo_hw
    /\ fo_uld' = [fo_uld EXCEPT ![x] = "idle"]
    /\ UNCHANGED <<fo_if, fo_local, fo_rxq, fo_rx, fo_ops>>

-----------------------------------------------------------------------------
(***************************************************************************)
(* The port and the receive path.                                          *)
(***************************************************************************)
\* a frame of an exchange: its data was placed, it was a response, it came
\* too late or it had an error
FoFrame(x, stat) ==
    /\ fo_if.open /\ fo_hw[x].valid /\ Len(fo_rxq) < 2
    /\ fo_rxq' = Append(fo_rxq, [xid |-> x, stat |-> stat])
    /\ fo_hw' = IF stat = "rsp" THEN [fo_hw EXCEPT ![x] = FoNoContext] ELSE fo_hw
    /\ UNCHANGED <<fo_if, fo_ddp, fo_mapped, fo_local, fo_uld, fo_rx, fo_clash, fo_ops>>

\* ixgbe_fcoe_ddp: the checks
FoRxLook ==
    /\ fo_rx = <<>> /\ fo_rxq # <<>>
    /\ fo_rx' = IF fo_ddp[Head(fo_rxq).xid].udl /\ Head(fo_rxq).stat # "error"
                THEN <<Head(fo_rxq)>> ELSE <<>>
    /\ fo_rxq' = Tail(fo_rxq)
    /\ UNCHANGED <<fo_if, fo_ddp, fo_mapped, fo_local, fo_hw, fo_uld, fo_clash, fo_ops>>

FoResponded(ddp) == [ddp EXCEPT !.err = FALSE, !.sgl = <<>>]

\* the rest: a response unmaps the list
FoRxDone ==
    /\ fo_rx # <<>> /\ fo_rx' = <<>>
    /\ LET x == fo_rx[1].xid
       IN  IF fo_rx[1].stat = "rsp"
           THEN /\ fo_ddp' = [fo_ddp EXCEPT ![x] = FoResponded(@)]
                /\ fo_mapped' = [fo_mapped EXCEPT ![x] = IF fo_ddp[x].sgl = <<>> THEN @ ELSE @ - 1]
           ELSE UNCHANGED <<fo_ddp, fo_mapped>>
    /\ UNCHANGED <<fo_if, fo_local, fo_hw, fo_uld, fo_rxq, fo_clash, fo_ops>>

-----------------------------------------------------------------------------
(***************************************************************************)
(* The interface.  ixgbe_open and ixgbe_close set up and free the pools;   *)
(* the receive path does not run while the port is reset.                  *)
(***************************************************************************)
FoQuiet == fo_rx = <<>>

\* ixgbe_configure_fcoe, after a reset
FoConfigured(s) == [s EXCEPT !.lastseq = FALSE]

\* ixgbe_setup_fcoe_ddp_resources: fails as a whole
FoOpenWith(s) ==
    fo_if' \in {[FoConfigured(s) EXCEPT !.open = TRUE, !.pools = s.ddp_pool]}
               \cup (IF s.ddp_pool THEN {s} ELSE {})

FoOpen ==
    /\ ~fo_if.open /\ FoOp /\ FoOpenWith(fo_if)
    /\ UNCHANGED <<fo_ddp, fo_mapped, fo_local, fo_hw, fo_uld, fo_rxq, fo_rx, fo_clash>>

\* ixgbe_close resets the port, then ixgbe_free_fcoe_ddp_resources puts all
\* contexts.
FoPutMany(xs) == IF fo_if.ddp_pool THEN FoPutAll(xs) ELSE UNCHANGED <<fo_ddp, fo_mapped, fo_clash>>

FoFreed == fo_rxq' = <<>> /\ FoPutMany(FoXids)

FoStopped ==
    IF fo_if.open
    THEN FoFreed /\ fo_hw' = [x \in FoXids |-> FoNoContext]
    ELSE UNCHANGED <<fo_ddp, fo_mapped, fo_hw, fo_rxq, fo_clash>>

FoReset ==
    /\ fo_if.open /\ FoQuiet /\ FoOp
    /\ fo_if' = FoConfigured(fo_if)
    /\ fo_hw' = [x \in FoXids |-> FoNoContext] /\ fo_rxq' = <<>>
    /\ UNCHANGED <<fo_ddp, fo_mapped, fo_local, fo_uld, fo_rx, fo_clash>>

FoClose ==
    /\ fo_if.open /\ FoQuiet /\ FoOp /\ FoStopped
    /\ fo_if' = [FoConfigured(fo_if) EXCEPT !.open = FALSE, !.pools = FALSE]
    /\ UNCHANGED <<fo_local, fo_uld, fo_rx>>

\* ixgbe_fcoe_enable: the memory for the pools may fail
FoEnable ==
    /\ FoQuiet /\ FoOp
    /\ IF fo_if.enabled
       THEN /\ fo_if' = [fo_if EXCEPT !.ref = @ + 1]
            /\ UNCHANGED <<fo_ddp, fo_mapped, fo_hw, fo_rxq, fo_clash>>
       ELSE /\ FoStopped
            /\ \E ok \in BOOLEAN :
                 fo_if' = [FoConfigured(fo_if) EXCEPT
                             !.ref = @ + 1, !.enabled = TRUE, !.ddp_pool = ok,
                             !.pools = ok /\ fo_if.open, !.top = IF ok THEN FoTop ELSE @]
    /\ UNCHANGED <<fo_local, fo_uld, fo_rx>>

\* ixgbe_fcoe_disable: stops the port first
FoDisable ==
    /\ FoQuiet /\ FoOp /\ fo_if.ref > 0
    /\ IF fo_if.ref > 1 \/ ~fo_if.enabled
       THEN /\ fo_if' = [fo_if EXCEPT !.ref = @ - 1]
            /\ UNCHANGED <<fo_ddp, fo_mapped, fo_hw, fo_rxq, fo_clash>>
       ELSE /\ FoStopped
            /\ fo_if' = [FoConfigured(fo_if) EXCEPT !.ref = 0, !.enabled = FALSE,
                           !.ddp_pool = FALSE, !.pools = FALSE, !.top = 0]
    /\ UNCHANGED <<fo_local, fo_uld, fo_rx>>

FoNext ==
    \/ \E x \in FoXids, sgl \in FoSgls, target \in BOOLEAN : FoSetup(x, sgl, target)
    \/ \E x \in FoXids : FoProgram(x) \/ FoPut(x)
    \/ \E x \in FoXids, stat \in {"ddp", "rsp", "error"} : FoFrame(x, stat)
    \/ FoRxLook \/ FoRxDone
    \/ FoOpen \/ FoReset \/ FoClose \/ FoEnable \/ FoDisable

FoSpec == FoInit /\ [][FoNext]_foVars

-----------------------------------------------------------------------------
FoAlone(x) == x \notin fo_clash

\* The port never writes into memory the driver gave back: while it has a
\* context, the list of the exchange is mapped and the list of buffers is
\* allocated (ixgbe_fcoe_ddp_put invalidates first unless the response was
\* seen).  Not when the interface was closed, or the exchange was given up,
\* in the middle of ixgbe_fcoe_ddp_setup or ixgbe_fcoe_ddp.
FoHwOwned ==
    \A x \in FoXids : FoAlone(x) /\ fo_hw[x].valid => fo_ddp[x].udl /\ fo_mapped[x] = 1

\* A list is mapped exactly as long as it is noted, and no list of buffers
\* outlives the pool it came from.
FoReturned ==
    /\ \A x \in FoXids : FoAlone(x) => fo_mapped[x] = IF fo_ddp[x].sgl # <<>> THEN 1 ELSE 0
    /\ ~fo_if.pools => \A x \in FoXids : ~fo_ddp[x].udl

\* the bytes a context reaches, in order
FoReach(c) ==
    LET n == Len(c.bufs)
        bytes(j) == LET from == IF j = 1 THEN c.first ELSE 0
                        to == IF j = n THEN c.last ELSE FoBuf
                    IN  [k \in 1 .. to - from |-> c.bufs[j] + from + k - 1]
    IN  SelectSeq(FlattenSeq([j \in 1 .. n |-> bytes(j)]), LAMBDA b : b # FoExtra)

FoBytes(sgl) == FlattenSeq([i \in DOMAIN sgl |-> [k \in 1 .. sgl[i].len |-> sgl[i].addr + k - 1]])

\* What the port was told describes exactly the bytes of the scatter list, in
\* their order, whatever its pieces (the walk in ixgbe_fcoe_ddp_setup).
FoPlacesRight ==
    \A x \in FoXids : FoAlone(x) /\ fo_hw[x].valid /\ fo_ddp[x].sgl # <<>>
        => FoReach(fo_hw[x]) = FoBytes(fo_ddp[x].sgl)

\* The three about direct placement: the port reaches only memory that is
\* mapped, what was mapped is returned, and data lands where the scatter
\* list says.
FoSafe ==
  /\ FoHwOwned
  /\ FoReturned
  /\ FoPlacesRight
=============================================================================
