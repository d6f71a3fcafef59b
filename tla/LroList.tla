------------------------------- MODULE LroList -------------------------------
(***************************************************************************)
(* Software large receive offload (ixgbe_lro_receive): TCP segments that   *)
(* ixgbe_can_lro admits are merged into the active packets of one receive  *)
(* pass, and everything is flushed when the pass ends.  A segment is       *)
(* [id, flow, seq, len, psh, ts, ack, ok]; ok is the verdict of the header *)
(* checks, lengths are in units of payload.                                *)
(***************************************************************************)
EXTENDS Integers, Sequences, SequencesExt, FiniteSets

CONSTANTS
  LroFlows,    \* connections
  LroLens,     \* payload lengths
  LroFree,     \* room for payload in a merged packet (65521 less headers)
  LroMax,      \* IXGBE_LRO_MAX
  LroPkts      \* bound on segments

ASSUME LroAssumption == {LroFree, LroMax, LroPkts} \subseteq Nat \ {0} /\ LroLens \subseteq Nat

VARIABLES
  lro_active,  \* q_vector->lrolist.active: [seg, next, mss, free, ts, ids]
  lro_up,      \* what the stack was given: sequences of segment ids
  lro_rcvd     \* [flow, seq, len] of the segments received, in order

lroVars == <<lro_active, lro_up, lro_rcvd>>

LroInit == lro_active = <<>> /\ lro_up = <<>> /\ lro_rcvd = <<>>

(* ixgbe_lro_header_ok: a segment that may not be merged has mss 0; its
   next_seq is not set either. *)
LroMss(s) == IF s.ok THEN s.len ELSE 0

LroSame(a, s) == a.seg.flow = s.flow     \* addresses, ports, VLAN

LroFlush(up, a) == Append(up, a.ids)

(* What becomes of the first active packet of the segment's flow: "merge", or
   "flush" with the segment kept mergeable or not. *)
LroTooBig(a, s) == LroMss(s) > a.free

LroVerdict(a, s) ==
  IF ~s.ok \/ a.next # s.seq THEN "flush, pass on"
  ELSE IF (a.ts = 0) # (s.ts = 0) THEN "flush"
  ELSE IF a.ts # 0 /\ a.ts > s.ts THEN "flush, pass on"
  ELSE IF LroMss(s) = 0 \/ LroMss(s) > a.mss \/ LroTooBig(a, s) \/ a.seg.ack # s.ack THEN "flush"
  ELSE "merge"

LroMerged(a, s) ==
  [a EXCEPT !.next = @ + s.len, !.free = @ - s.len, !.ts = s.ts, !.ids = Append(@, s.id)]

LroNew(s) ==
  [seg |-> s, next |-> s.seq + s.len, mss |-> s.len, free |-> LroFree - s.len, ts |-> s.ts,
   ids |-> <<s.id>>]

LroWithout(active, k) == SubSeq(active, 1, k - 1) \o SubSeq(active, k + 1, Len(active))

(* The segment starts an active packet of its own, at the front, after the
   last one made room for it; or it goes straight to the stack. *)
LroStart(active, up, s, mss) ==
  IF mss > 0 /\ ~s.psh
    THEN LET full == Len(active) >= LroMax
         IN  /\ lro_up' = IF full THEN LroFlush(up, Last(active)) ELSE up
             /\ lro_active' = <<LroNew(s)>> \o (IF full THEN Front(active) ELSE active)
    ELSE lro_up' = Append(up, <<s.id>>) /\ lro_active' = active

LroFlushedNot(up, a) == up
LroFlushed(up, a) == LroFlush(up, a)

LroReceive ==
  \E flow \in LroFlows, len \in LroLens, ahead \in 0..1,
     kind \in {"plain", "push", "ack moved", "bad header", "time 1", "time 2"} :
    LET mine == SelectSeq(lro_rcvd, LAMBDA p : p.flow = flow)
        seq == (IF mine = <<>> THEN 1 ELSE Last(mine).seq + Last(mine).len) + ahead
        s == [id |-> Len(lro_rcvd) + 1, flow |-> flow, seq |-> seq, len |-> len, psh |-> kind = "push",
              ts |-> CASE kind = "time 1" -> 1 [] kind = "time 2" -> 2 [] OTHER -> 0,
              ack |-> kind = "ack moved", ok |-> kind # "bad header"]
        ks == {k \in 1..Len(lro_active) : LroSame(lro_active[k], s)}
        k == CHOOSE i \in ks : \A j \in ks : i <= j
        a == lro_active[k]
        m == LroMerged(a, s)
    IN  /\ Len(lro_rcvd) < LroPkts /\ lro_rcvd' = Append(lro_rcvd, [flow |-> flow, seq |-> seq, len |-> len])
        /\ IF ks = {} THEN LroStart(lro_active, lro_up, s, LroMss(s))
           ELSE IF LroVerdict(a, s) # "merge"
             THEN LroStart(LroWithout(lro_active, k), LroFlushed(lro_up, a), s,
                           IF LroVerdict(a, s) = "flush" THEN LroMss(s) ELSE 0)
           ELSE IF s.len < a.mss \/ s.psh
             THEN lro_active' = LroWithout(lro_active, k) /\ lro_up' = LroFlush(lro_up, m)
             ELSE lro_active' = [lro_active EXCEPT ![k] = m] /\ UNCHANGED lro_up

LroFlushAll ==     \* the end of ixgbe_clean_rx_irq, oldest first
  /\ lro_active # <<>> /\ lro_active' = <<>>
  /\ lro_up' = lro_up \o [i \in 1..Len(lro_active) |-> lro_active[Len(lro_active) + 1 - i].ids]
  /\ UNCHANGED lro_rcvd

LroNext == LroReceive \/ LroFlushAll
LroSpec == LroInit /\ [][LroNext]_lroVars

-----------------------------------------------------------------------------
(* Merging never reorders, loses or repeats segments of a connection: what the
   stack has been given and what waits in the active list, together, are the
   segments received, in the order they came. *)
LroInOrder ==
  \A flow \in LroFlows :
    LET of(i) == lro_rcvd[i].flow = flow
        waiting == FlattenSeq([i \in 1..Len(lro_active) |->
                     SelectSeq(lro_active[Len(lro_active) + 1 - i].ids, of)])
    IN  SelectSeq(FlattenSeq(lro_up), of) \o waiting
          = SelectSeq([i \in 1..Len(lro_rcvd) |-> i], of)

(* A merged packet still fits its 16 bit IP length. *)
LroFits ==
  \A i \in 1..Len(lro_up) :
    Len(lro_up[i]) > 1 => FoldLeft(+, 0, [j \in 1..Len(lro_up[i]) |-> lro_rcvd[lro_up[i][j]].len]) <= LroFree

\* Both: segments go up in order, none lost or doubled, in packets that
\* fit.
LroSafe ==
  /\ LroInOrder
  /\ LroFits
=============================================================================
