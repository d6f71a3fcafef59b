------------------------------- MODULE TxRing -------------------------------
(***************************************************************************)
(* A transmit ring of an ordinary port (ixgbe_main.c): ixgbe_xmit_frame_   *)
(* ring step by step, against ixgbe_clean_tx_irq in NAPI context and the   *)
(* controller; stopping and waking of the queue; hang detection and reset. *)
(* Packets are numbered in the order the stack hands them over.            *)
(***************************************************************************)
EXTENDS Naturals, FiniteSets

CONSTANTS
  TxCount,     \* descriptors of the ring
  TxFrags,     \* MAX_SKB_FRAGS
  TxBudget,    \* q_vector->tx.work_limit, packets
  TxPkts,      \* bound on packets
  TxStalls     \* bound on stalls of the controller

ASSUME TxAssumption ==
  /\ {TxCount, TxFrags, TxBudget, TxPkts, TxStalls} \subseteq Nat
  /\ TxCount > 2 * (TxFrags + 4) /\ TxBudget > 0

VARIABLES
  tx_ntu, tx_ntc,    \* next_to_use, next_to_clean
  tx_info,     \* tx_buffer_info: [skb (0 none), watch (eop slot or TxCount)]
  tx_desc,     \* descriptors: [pkt, eop, dd]
  tx_skb,      \* packet -> "stack", "ring" or "freed"
  tx_head, tx_tail,  \* TDH, TDT (external: the controller owns head..tail-1)
  tx_stopped,  \* the stack may not call
  tx_x,        \* transmit path: [pc, pkt, need, segs, ctx, last]
  tx_c,        \* cleaning: [pc, i, budget, done]
  tx_hang,     \* [check, armed, moved (done # done_old), reset]
  tx_stuck, tx_stalls

txVars == <<tx_ntu, tx_ntc, tx_info, tx_desc, tx_skb, tx_head, tx_tail, tx_stopped, tx_x, tx_c,
            tx_hang, tx_stuck, tx_stalls>>

TxSlots == 0..(TxCount - 1)
TxNo == [skb |-> 0, watch |-> TxCount]
TxBlank == [pkt |-> 0, eop |-> FALSE, dd |-> FALSE]
TxIdle == [pc |-> "idle", pkt |-> 0, need |-> 0, segs |-> 0, ctx |-> 0, last |-> 0]
TxRest == [pc |-> "idle", i |-> 0, budget |-> 0, done |-> FALSE]
DESC_NEEDED == TxFrags + 4
TX_WAKE_THRESHOLD == DESC_NEEDED * 2

TxAdd(i, n) == (i + n) % TxCount
TxUnused == (IF tx_ntc > tx_ntu THEN 0 ELSE TxCount) + tx_ntc - tx_ntu - 1

(* A ring that has sent almost a lap of small packets, so that stale DD bits
   and the wrap are met at once (a reset makes it a fresh one). *)
TxInit ==
  /\ tx_ntu = TxCount - 3 /\ tx_desc = [i \in TxSlots |-> [TxBlank EXCEPT !.dd = TRUE]]
  /\ tx_ntc = tx_ntu /\ tx_head = tx_ntu /\ tx_tail = tx_ntu
  /\ tx_info = [i \in TxSlots |-> TxNo] /\ tx_skb = [p \in 1..TxPkts |-> "stack"] /\ tx_stopped = FALSE /\ tx_x = TxIdle
  /\ tx_c = TxRest
  /\ tx_hang = [check |-> FALSE, armed |-> FALSE, moved |-> FALSE, reset |-> FALSE]
  /\ tx_stuck = FALSE /\ tx_stalls = 0

-----------------------------------------------------------------------------
TxNeeded(segs) == segs + 3

(* The stack calls with packet p of `segs` data descriptors; `ctx` of them
   need a context descriptor in front. *)
TxCall ==
  \E p \in 1..TxPkts, segs \in 1..(TxFrags + 1), ctx \in {0, 1} :
    /\ tx_x.pc = "idle" /\ ~tx_stopped /\ tx_skb[p] = "stack"
    /\ \A q \in 1..(p - 1) : tx_skb[q] # "stack"
    /\ tx_x' = [pc |-> IF TxUnused >= TxNeeded(segs) THEN "fill" ELSE "stop", pkt |-> p,
                need |-> TxNeeded(segs), segs |-> segs, ctx |-> ctx, last |-> 0]
    /\ UNCHANGED <<tx_ntu, tx_ntc, tx_info, tx_desc, tx_skb, tx_head, tx_tail, tx_stopped, tx_c,
                   tx_hang, tx_stuck, tx_stalls>>

TxStop ==     \* netif_stop_subqueue
  /\ tx_x.pc = "stop" /\ tx_stopped' = TRUE /\ tx_x' = [tx_x EXCEPT !.pc = "again"]
  /\ UNCHANGED <<tx_ntu, tx_ntc, tx_info, tx_desc, tx_skb, tx_head, tx_tail, tx_c, tx_hang,
                 tx_stuck, tx_stalls>>

TxReprieveNever(need) == FALSE
TxReprieve(need) == TxUnused >= need

(* The second look of __ixgbe_maybe_stop_tx: NETDEV_TX_BUSY leaves the packet with the stack. *)
TxAgain ==
  /\ tx_x.pc = "again"
  /\ IF TxReprieve(tx_x.need)
       THEN tx_stopped' = FALSE /\ tx_x' = IF tx_x.pkt = 0 THEN TxIdle ELSE [tx_x EXCEPT !.pc = "fill"]
       ELSE tx_x' = TxIdle /\ UNCHANGED tx_stopped
  /\ UNCHANGED <<tx_ntu, tx_ntc, tx_info, tx_desc, tx_skb, tx_head, tx_tail, tx_c, tx_hang,
                 tx_stuck, tx_stalls>>

(* Room for the next packet is looked for before returning. *)
TxAfter ==
  IF TxUnused >= DESC_NEEDED THEN TxIdle ELSE [TxIdle EXCEPT !.pc = "stop", !.need = DESC_NEEDED]

(* ixgbe_tx_map up to the barrier: context and data descriptors are written,
   which clears their DD bits.  A failed mapping of a segment undoes it all
   and frees the packet. *)
TxWrittenStale(d, pkt, eop) == [pkt |-> pkt, eop |-> eop, dd |-> d.dd]
TxWritten(d, pkt, eop) == [pkt |-> pkt, eop |-> eop, dd |-> FALSE]

TxFill ==
  LET n == tx_x.segs + tx_x.ctx
      last == TxAdd(tx_ntu, n - 1)
      used == {TxAdd(tx_ntu, k) : k \in 0..(n - 1)}
  IN  /\ tx_x.pc = "fill"
      /\ tx_desc' = [i \in TxSlots |-> IF i \in used
                       THEN TxWritten(tx_desc[i], tx_x.pkt, i = last) ELSE tx_desc[i]]
      /\ tx_info' = [tx_info EXCEPT ![tx_ntu].skb = tx_x.pkt]
      /\ tx_skb' = [tx_skb EXCEPT ![tx_x.pkt] = "ring"]
      /\ tx_x' = [tx_x EXCEPT !.pc = "publish", !.last = last]
      /\ UNCHANGED <<tx_ntu, tx_ntc, tx_head, tx_tail, tx_stopped, tx_c, tx_hang, tx_stuck, tx_stalls>>

(* out_drop, which returns at once, or dma_error: next_to_use goes back to
   `first`, so the descriptors written so far are overwritten before the
   controller may read them. *)
TxDrop ==
  /\ tx_x.pc = "fill" /\ tx_skb' = [tx_skb EXCEPT ![tx_x.pkt] = "freed"]
  /\ tx_x' \in {TxIdle, TxAfter}
  /\ UNCHANGED <<tx_ntu, tx_ntc, tx_info, tx_desc, tx_head, tx_tail, tx_stopped, tx_c, tx_hang, tx_stuck, tx_stalls>>

TxPublish ==     \* next_to_watch, next_to_use
  /\ tx_x.pc = "publish" /\ tx_info' = [tx_info EXCEPT ![tx_ntu].watch = tx_x.last]
  /\ tx_ntu' = TxAdd(tx_x.last, 1) /\ tx_x' = [tx_x EXCEPT !.pc = "tail"]
  /\ UNCHANGED <<tx_ntc, tx_desc, tx_skb, tx_head, tx_tail, tx_stopped, tx_c, tx_hang, tx_stuck, tx_stalls>>

TxTail ==     \* the tail register
  /\ tx_x.pc = "tail" /\ tx_tail' = tx_ntu
  /\ tx_x' = TxAfter
  /\ UNCHANGED <<tx_ntu, tx_ntc, tx_info, tx_desc, tx_skb, tx_head, tx_stopped, tx_c, tx_hang, tx_stuck, tx_stalls>>

-----------------------------------------------------------------------------
TxHwSends ==     \* the controller sends a packet and writes its last descriptor back
  /\ tx_head # tx_tail /\ ~tx_stuck
  /\ \E n \in 0..(TxFrags + 1) :
       LET last == TxAdd(tx_head, n)
       IN  /\ tx_desc[last].eop /\ \A k \in 0..n : ~tx_desc[TxAdd(tx_head, k)].eop \/ k = n
           /\ tx_desc' = [tx_desc EXCEPT ![last] = [TxBlank EXCEPT !.dd = TRUE]]
           /\ tx_head' = TxAdd(last, 1)
  /\ UNCHANGED <<tx_ntu, tx_ntc, tx_info, tx_skb, tx_tail, tx_stopped, tx_x, tx_c, tx_hang, tx_stuck, tx_stalls>>

TxHwStalls ==
  /\ ~tx_stuck /\ tx_stalls < TxStalls /\ tx_stuck' = TRUE /\ tx_stalls' = tx_stalls + 1
  /\ UNCHANGED <<tx_ntu, tx_ntc, tx_info, tx_desc, tx_skb, tx_head, tx_tail, tx_stopped, tx_x, tx_c, tx_hang>>

-----------------------------------------------------------------------------
TxPoll ==     \* ixgbe_poll calls ixgbe_clean_tx_irq
  /\ tx_c.pc = "idle"
  /\ tx_c' = [pc |-> "clean", i |-> tx_ntc, budget |-> TxBudget, done |-> FALSE]
  /\ UNCHANGED <<tx_ntu, tx_ntc, tx_info, tx_desc, tx_skb, tx_head, tx_tail, tx_stopped, tx_x,
                 tx_hang, tx_stuck, tx_stalls>>

(* One packet: freed when its last descriptor is done. *)
TxClean ==
  LET w == tx_info[tx_c.i].watch
      done == w # TxCount /\ tx_desc[w].dd
  IN  /\ tx_c.pc = "clean"
      /\ IF done
           THEN /\ tx_skb' = [tx_skb EXCEPT ![tx_info[tx_c.i].skb] = "freed"]
                /\ tx_info' = [tx_info EXCEPT ![tx_c.i] = TxNo]
                /\ tx_c' = [tx_c EXCEPT !.i = TxAdd(w, 1), !.done = TRUE, !.budget = @ - 1,
                                        !.pc = IF tx_c.budget = 1 THEN "commit" ELSE "clean"]
           ELSE tx_c' = [tx_c EXCEPT !.pc = "commit"] /\ UNCHANGED <<tx_skb, tx_info>>
      /\ UNCHANGED <<tx_ntu, tx_ntc, tx_desc, tx_head, tx_tail, tx_stopped, tx_x, tx_hang,
                     tx_stuck, tx_stalls>>

(* next_to_clean, the count of packets and ixgbe_check_tx_hang: nothing done
   twice in a row with work pending asks for a reset. *)
TxCheckHang(h, pending) ==
  IF ~h.check THEN h
  ELSE IF ~h.moved /\ pending
         THEN [h EXCEPT !.check = FALSE, !.armed = TRUE, !.reset = @ \/ h.armed]
         ELSE [h EXCEPT !.check = FALSE, !.armed = FALSE, !.moved = FALSE]

TxCommit ==
  LET h == TxCheckHang([tx_hang EXCEPT !.moved = @ \/ tx_c.done], tx_head # tx_tail)
      hung == h.reset /\ ~tx_hang.reset
  IN  /\ tx_c.pc = "commit" /\ tx_ntc' = tx_c.i /\ tx_hang' = h
      /\ tx_stopped' = (tx_stopped \/ hung)
      /\ tx_c' = IF hung \/ ~tx_c.done THEN TxRest ELSE [TxRest EXCEPT !.pc = "wake"]
      /\ UNCHANGED <<tx_ntu, tx_info, tx_desc, tx_skb, tx_head, tx_tail, tx_x, tx_stuck, tx_stalls>>

TxWake ==     \* after the barrier; the wake test reads both indices
  /\ tx_c.pc = "wake" /\ tx_c' = TxRest
  /\ tx_stopped' = (tx_stopped /\ TxUnused < TX_WAKE_THRESHOLD)
  /\ UNCHANGED <<tx_ntu, tx_ntc, tx_info, tx_desc, tx_skb, tx_head, tx_tail, tx_x, tx_hang, tx_stuck, tx_stalls>>

TxTimer ==     \* ixgbe_check_hang_subtask
  /\ ~tx_hang.check /\ tx_head # tx_tail /\ tx_hang' = [tx_hang EXCEPT !.check = TRUE]
  /\ UNCHANGED <<tx_ntu, tx_ntc, tx_info, tx_desc, tx_skb, tx_head, tx_tail, tx_stopped, tx_x, tx_c, tx_stuck, tx_stalls>>

(* The reset: ixgbe_down waits for the transmit lock and for NAPI, stops the
   queue in the controller and frees every packet (ixgbe_clean_tx_ring);
   ixgbe_up starts over. *)
TxFreedRing(skb, info) ==
  [p \in 1..TxPkts |-> IF \E i \in TxSlots : info[i].skb = p THEN "freed" ELSE skb[p]]

TxReset ==
  /\ tx_hang.reset /\ tx_x.pc = "idle" /\ tx_c.pc = "idle"
  /\ tx_skb' = TxFreedRing(tx_skb, tx_info)
  /\ tx_info' = [i \in TxSlots |-> TxNo] /\ tx_desc' = [i \in TxSlots |-> TxBlank]
  /\ tx_ntu' = 0 /\ tx_ntc' = 0 /\ tx_head' = 0 /\ tx_tail' = 0
  /\ tx_stopped' = FALSE /\ tx_stuck' = FALSE
  /\ tx_hang' = [tx_hang EXCEPT !.reset = FALSE, !.armed = FALSE]
  /\ UNCHANGED <<tx_x, tx_c, tx_stalls>>

TxXmit == TxStop \/ TxAgain \/ TxFill \/ TxPublish \/ TxTail
TxNapi == TxPoll \/ TxClean \/ TxCommit \/ TxWake

TxNext ==
  TxCall \/ TxXmit \/ TxDrop \/ TxHwSends \/ TxHwStalls \/ TxNapi \/ TxTimer \/ TxReset

TxSpec ==
  /\ TxInit /\ [][TxNext]_txVars
  /\ WF_txVars(TxXmit) /\ WF_txVars(TxNapi) /\ WF_txVars(TxHwSends)
  /\ WF_txVars(TxTimer) /\ SF_txVars(TxReset)

-----------------------------------------------------------------------------
(* The controller only reads buffers of packets that are still the ring's:
   none is freed or unmapped before its last descriptor is done, whatever the
   descriptors held on the last lap (ixgbe_clean_tx_irq, ixgbe_tx_map). *)
TxNotEarly ==
  \A i \in TxSlots : (i + TxCount - tx_head) % TxCount < (tx_tail + TxCount - tx_head) % TxCount =>
    tx_skb[tx_desc[i].pkt] = "ring"

(* Every packet the driver took is in exactly one buffer until it is freed:
   none is leaked or freed twice by a clean, a drop or a reset. *)
TxOwned ==
  /\ {p \in 1..TxPkts : tx_skb[p] = "ring"} = {tx_info[i].skb : i \in TxSlots} \ {0}
  /\ \A i, j \in TxSlots : tx_info[i].skb = tx_info[j].skb /\ i # j => tx_info[i].skb = 0

(* "2 desc gap to keep tail from touching head" (ixgbe_xmit_frame_ring). *)
TxGap == (tx_ntc + TxCount - tx_ntu - 1) % TxCount >= 2

(* A stopped queue is started again, by the cleaner, by the second look or,
   when the controller hangs, by the reset. *)
TxWakes == tx_stopped ~> ~tx_stopped

\* The three about the transmit ring: no buffer freed while the controller
\* may read it, every packet in one buffer until freed, and the gap between
\* tail and head.
TxSafe ==
  /\ TxNotEarly
  /\ TxOwned
  /\ TxGap
=============================================================================
