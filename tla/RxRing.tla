------------------------------- MODULE RxRing -------------------------------
(***************************************************************************)
(* A receive ring of an ordinary port as this build compiles it (one       *)
(* buffer per descriptor, CONFIG_IXGBE_DISABLE_PACKET_SPLIT): ixgbe_clean_ *)
(* rx_irq descriptor by descriptor, frames the controller spreads over     *)
(* several descriptors (RSC) chained by NEXTP, and refilling that may      *)
(* fail.  Frames are numbered; a part is one descriptor's data.            *)
(***************************************************************************)
EXTENDS Naturals, FiniteSets

CONSTANTS
  RxCount,     \* descriptors of the ring
  RxWrite,     \* IXGBE_RX_BUFFER_WRITE
  RxBudget,    \* packets per pass
  RxFrames,    \* bound on frames
  RxParts,     \* bound on descriptors of a frame
  RxFails      \* bound on failed allocations

ASSUME RxAssumption ==
  /\ {RxCount, RxWrite, RxBudget, RxFrames, RxParts, RxFails} \subseteq Nat \ {0}
  /\ RxWrite < RxCount

VARIABLES
  rx_rsc,      \* RSC enabled on the ring
  rx_ntu, rx_ntc,    \* next_to_use (also the tail register), next_to_clean
  rx_buf,      \* slots with a mapped buffer
  rx_chain,    \* slot -> <<frame, parts so far>> its buffer continues, <<0, 0>> none
  rx_desc,     \* slot -> [dd, eop, next, frame]
  rx_head,     \* next descriptor the controller takes (external)
  rx_open,     \* frame -> [slot, parts] being received (external)
  rx_len,      \* frame -> descriptors it took, 0: not finished (external)
  rx_got,      \* frames given to the stack: <<frame, parts>>
  rx_p,        \* the pass: [pc, cnt, left]
  rx_fails

rxVars == <<rx_rsc, rx_ntu, rx_ntc, rx_buf, rx_chain, rx_desc, rx_head, rx_open, rx_len, rx_got, rx_p, rx_fails>>

RxSlots == 0..(RxCount - 1)
RxBlank == [dd |-> FALSE, eop |-> FALSE, next |-> 0, frame |-> 0]
RxShut == [slot |-> 0, parts |-> 0]
RxIdle == [pc |-> "idle", cnt |-> 0, left |-> 0]
RxAdd(i, n) == (i + n) % RxCount
RxUnused == (IF rx_ntc > rx_ntu THEN 0 ELSE RxCount) + rx_ntc - rx_ntu - 1

RxInit ==
  /\ rx_rsc \in BOOLEAN
  /\ rx_ntu = RxCount - 1 /\ rx_ntc = 0 /\ rx_buf = RxSlots \ {RxCount - 1}
  /\ rx_chain = [i \in RxSlots |-> <<0, 0>>] /\ rx_desc = [i \in RxSlots |-> RxBlank]
  /\ rx_head = 0 /\ rx_open = [f \in 1..RxFrames |-> RxShut] /\ rx_len = [f \in 1..RxFrames |-> 0]
  /\ rx_got = {} /\ rx_p = RxIdle /\ rx_fails = 0

-----------------------------------------------------------------------------
(* The controller: a frame takes the next descriptor; a frame that goes on
   takes another one and writes the old one back pointing to it. *)
RxHwStarts ==
  \E f \in 1..RxFrames :
    /\ rx_head # rx_ntu /\ rx_open[f].parts = 0 /\ rx_len[f] = 0
    /\ \A g \in 1..(f - 1) : (rx_rsc /\ rx_open[g].parts # 0) \/ rx_len[g] # 0
    /\ rx_open' = [rx_open EXCEPT ![f] = [slot |-> rx_head, parts |-> 1]]
    /\ rx_head' = RxAdd(rx_head, 1)
    /\ UNCHANGED <<rx_rsc, rx_ntu, rx_ntc, rx_buf, rx_chain, rx_desc, rx_len, rx_got, rx_p, rx_fails>>

RxHwExtends ==
  \E f \in 1..RxFrames :
    /\ rx_head # rx_ntu /\ rx_open[f].parts \in 1..(RxParts - 1)
    /\ rx_desc' = [rx_desc EXCEPT ![rx_open[f].slot] =
                     [dd |-> TRUE, eop |-> FALSE, next |-> rx_head, frame |-> f]]
    /\ rx_open' = [rx_open EXCEPT ![f] = [slot |-> rx_head, parts |-> @.parts + 1]]
    /\ rx_head' = RxAdd(rx_head, 1)
    /\ UNCHANGED <<rx_rsc, rx_ntu, rx_ntc, rx_buf, rx_chain, rx_len, rx_got, rx_p, rx_fails>>

RxHwEnds ==
  \E f \in 1..RxFrames :
    /\ rx_open[f].parts > 0 /\ rx_len' = [rx_len EXCEPT ![f] = rx_open[f].parts]
    /\ rx_desc' = [rx_desc EXCEPT ![rx_open[f].slot] =
                     [dd |-> TRUE, eop |-> TRUE, next |-> 0, frame |-> f]]
    /\ rx_open' = [rx_open EXCEPT ![f] = RxShut]
    /\ UNCHANGED <<rx_rsc, rx_ntu, rx_ntc, rx_buf, rx_chain, rx_head, rx_got, rx_p, rx_fails>>

-----------------------------------------------------------------------------
(* ixgbe_alloc_rx_buffers: descriptors ntu..ntu+n-1 get buffers, the one after
   each has its status cleared (hdr_addr), and the tail moves past them. *)
RxCleared(n) == [k \in 0..(n - 1) |-> RxAdd(rx_ntu, k + 1)]

RxReleased(n) == RxAdd(rx_ntu, n)

RxFill(cnt, n) ==
  LET filled == {RxAdd(rx_ntu, k) : k \in 0..(n - 1)}
      clear == {RxCleared(n)[k] : k \in 0..(n - 1)}
  IN  /\ rx_buf' = rx_buf \cup filled /\ rx_ntu' = RxReleased(n)
      /\ rx_desc' = [i \in RxSlots |-> IF i \in clear THEN RxBlank ELSE rx_desc[i]]
      /\ rx_fails' = IF n < cnt THEN rx_fails + 1 ELSE rx_fails

RxAlloc(cnt) == \E n \in 0..cnt : (n = cnt \/ rx_fails < RxFails) /\ RxFill(cnt, n)

RxDirty == RxUnused

RxBegin ==
  /\ rx_p.pc = "idle" /\ rx_p' = [pc |-> "clean", cnt |-> RxDirty, left |-> RxBudget]
  /\ UNCHANGED <<rx_rsc, rx_ntu, rx_ntc, rx_buf, rx_chain, rx_desc, rx_head, rx_open, rx_len, rx_got, rx_fails>>

RxRefill ==     \* "return some buffers to hardware, one at a time is too slow"
  /\ rx_p.pc = "clean" /\ rx_p.left > 0 /\ rx_p.cnt >= RxWrite
  /\ RxAlloc(rx_p.cnt) /\ rx_p' = [rx_p EXCEPT !.cnt = 0]
  /\ UNCHANGED <<rx_rsc, rx_ntc, rx_chain, rx_head, rx_open, rx_len, rx_got>>

RxNextSlotInOrder(i) == RxAdd(i, 1)
RxNextSlot(i) == IF rx_rsc THEN rx_desc[i].next ELSE RxAdd(i, 1)

(* One written-back descriptor; its buffer joins the chain that waits on the
   slot, and the chain waits on the next slot or goes to the stack; without
   RSC a frame of several buffers is dropped. *)
RxTake ==
  LET i == rx_ntc
      d == rx_desc[i]
      c == rx_chain[i]
      f == IF c[1] = 0 THEN d.frame ELSE c[1]
      parts == IF c[1] = d.frame THEN c[2] + 1 ELSE IF c[1] = 0 THEN 1 ELSE RxParts + 1
      freed == [rx_chain EXCEPT ![i] = <<0, 0>>]
  IN  /\ rx_p.pc = "clean" /\ rx_p.left > 0 /\ rx_p.cnt < RxWrite /\ d.dd
      /\ rx_ntc' = RxAdd(i, 1) /\ rx_buf' = rx_buf \ {i}
      /\ IF d.eop THEN /\ rx_chain' = freed
                       /\ rx_got' = IF parts > 1 /\ ~rx_rsc THEN rx_got ELSE rx_got \cup {<<f, parts>>}
                       /\ rx_p' = [rx_p EXCEPT !.cnt = @ + 1, !.left = IF parts > 1 /\ ~rx_rsc THEN @ ELSE @ - 1]
                  ELSE /\ rx_chain' = [freed EXCEPT ![RxNextSlot(i)] = <<f, parts>>]
                       /\ rx_p' = [rx_p EXCEPT !.cnt = @ + 1] /\ UNCHANGED rx_got
      /\ UNCHANGED <<rx_rsc, rx_ntu, rx_desc, rx_head, rx_open, rx_len, rx_fails>>

RxDone ==     \* nothing written back, or the budget is used
  /\ rx_p.pc = "clean" /\ (rx_p.left = 0 \/ (rx_p.cnt < RxWrite /\ ~rx_desc[rx_ntc].dd))
  /\ RxAlloc(rx_p.cnt) /\ rx_p' = RxIdle
  /\ UNCHANGED <<rx_rsc, rx_ntc, rx_chain, rx_head, rx_open, rx_len, rx_got>>

(* ixgbe_down and ixgbe_up between passes: buffers, chains and descriptors
   are cleared (ixgbe_clean_rx_ring) and the ring is filled again. *)
RxReset ==
  /\ rx_p.pc = "idle" /\ \E f \in 1..RxFrames : rx_open[f].parts > 0
  /\ rx_open' = [f \in 1..RxFrames |-> RxShut]
  /\ rx_len' = [f \in 1..RxFrames |-> IF rx_open[f].parts > 0 THEN rx_open[f].parts ELSE rx_len[f]]
  /\ rx_chain' = [i \in RxSlots |-> <<0, 0>>] /\ rx_desc' = [i \in RxSlots |-> RxBlank]
  /\ rx_buf' = RxSlots \ {RxCount - 1} /\ rx_ntu' = RxCount - 1 /\ rx_ntc' = 0 /\ rx_head' = 0
  /\ UNCHANGED <<rx_rsc, rx_got, rx_p, rx_fails>>

RxPass == RxBegin \/ RxRefill \/ RxTake \/ RxDone
RxNext == RxHwStarts \/ RxHwExtends \/ RxHwEnds \/ RxPass \/ RxReset
RxSpec == RxInit /\ [][RxNext]_rxVars /\ WF_rxVars(RxPass)

-----------------------------------------------------------------------------
(* What looks written back has a buffer, and so has the slot a chain waits
   on: after a failed allocation the cleaner stops at the first descriptor
   without one instead of following a stale DD bit ("clear the hdr_addr for
   the next_to_use descriptor", ixgbe_alloc_rx_buffers). *)
RxNoHole ==
  /\ rx_desc[rx_ntc].dd => rx_ntc \in rx_buf
  /\ \A i \in RxSlots : rx_chain[i] # <<0, 0>> => i \in rx_buf

(* Every frame given to the stack is one whole frame: its buffers, all of
   them, in order, although frames interleave on the ring (ixgbe_is_non_eop,
   ixgbe_add_active_tail). *)
RxWhole == \A g \in rx_got : g[2] = rx_len[g[1]]

(* The controller only owns descriptors with buffers. *)
RxOwned ==
  /\ \A i \in RxSlots : (i + RxCount - rx_head) % RxCount < (rx_ntu + RxCount - rx_head) % RxCount
                        => i \in rx_buf
  /\ \A f \in 1..RxFrames : rx_open[f].parts > 0 => rx_open[f].slot \in rx_buf

(* A ring that ran out of buffers is filled again once memory is there: the
   pass starts from what is missing, not from what it cleans. *)
RxRefilled == (rx_head = rx_ntu) ~> (rx_head # rx_ntu \/ \E f \in 1..RxFrames : rx_open[f].parts > 0)

\* The three about the receive ring: no slot without a buffer is cleaned or
\* handed to the controller, and frames go up whole.
RxSafe ==
  /\ RxNoHole
  /\ RxWhole
  /\ RxOwned
=============================================================================
