----------------------- MODULE CaptureRingRefinement -----------------------
(***************************************************************************)
(* Proof that CaptureRing, with a ring that never runs dry, implements     *)
(* BucketFeed: what todisk and count_then_discard see of the driver is     *)
(* what BucketFeed says.                                                   *)
(***************************************************************************)
EXTENDS CaptureRingProofs

(***************************************************************************)
(* The phases of the threads are kept by every step.                       *)
(***************************************************************************)
LEMMA PhasesStep ==
  ASSUME TypeOK, ThreadPhases, [Next]_vars
  PROVE  ThreadPhases'
<1> USE DEF TypeOK, ThreadsTyped, ThreadPhases
<1>1. CASE UserStart \/ UserStop \/ Stopped \/ UNCHANGED vars \/ Nic
  BY <1>1 DEF UserStart, UserStop, Stopped, Nic, NicReceive, vars, shared,
          allocVars,
     procVars, nicVars
<1>2. CASE AllocBegin \/ AllocStop \/ AllocCount
  BY <1>2 DEF AllocBegin, AllocStop, StopSeen, AllocCount, shared, procVars, nicVars
<1>3. CASE AllocFill \/ AllocCommit
  BY <1>3 DEF AllocFill, AllocCommit, shared, procVars, nicVars
<1>4. CASE ProcBegin \/ ProcAbort \/ ProcOuter \/ ProcIdle
  BY <1>4 DEF ProcBegin, ProcAbort, ProcOuter, ProcIdle, Done, shared,
          allocVars, nicVars
<1>5. CASE ProcStore \/ ProcRowEnd \/ ProcBucket
  BY <1>5 DEF ProcStore, ProcRowEnd, ProcBucket, shared, allocVars, nicVars
<1>6. CASE ProcFinish \/ ProcLast
  BY <1>6 DEF ProcFinish, ProcLast, shared, allocVars, nicVars
<1> QED
  BY <1>1, <1>2, <1>3, <1>4, <1>5, <1>6 DEF Next, AllocThread, ProcThread

(***************************************************************************)
(* The initial states correspond.                                          *)
(***************************************************************************)
LEMMA InitRefines == Init => Feed!FeedInit /\ ThreadPhases
BY DEF Init, Feed!FeedInit, ThreadPhases, Feed!Buckets, Buckets

(***************************************************************************)
(* While the end of the bucket is open there is room for another row.      *)
(***************************************************************************)
LEMMA RoomWhileOpen ==
  ASSUME RingInv, desc[rx_desc].dd, max_row = 0
  PROVE  cur_partial + 1 < NUM_ROWS * NUM_RX_SLOTS
<1> USE Sizes
<1>1. /\ rx_desc \in Slots /\ head \in Slots /\ tail \in Slots /\ Cleaned \in Slots
      /\ Supplied \in Slots /\ cur_partial \in Nat /\ sup_row \in Nat
      /\ sup_partial \in 0 .. NUM_RX_SLOTS /\ sup_row <= NUM_ROWS - 1
  BY CleanedSlot DEF RingInv, TypeOK, IndicesTyped, SlotOffsets, Supplied, Slots
<1>2. rx_desc # head /\ head # tail
  BY DoneMeansPending
<1>3. Dist(rx_desc, Supplied) >= 2
  BY <1>1, <1>2 DEF RingInv, RingOrder, Dist, Slots
<1>4. HandedOut - cur_partial >= 2
  BY <1>3 DEF RingInv, Ahead
<1>5. (sup_row + 1) * NUM_RX_SLOTS <= NUM_ROWS * NUM_RX_SLOTS
  BY <1>1, TimesMonotone
<1> QED
  BY <1>1, <1>4, <1>5 DEF HandedOut

(***************************************************************************)
(* Each step of the ring is a step of the bucket-level driver or leaves    *)
(* what that driver shows unchanged.                                       *)
(***************************************************************************)
LEMMA StepRefines ==
  ASSUME RingInv, ThreadPhases, [Next]_vars
  PROVE  [Feed!FeedNext]_(Feed!feedVars)
<1> USE Sizes
<1> DEFINE sizes == {r * NUM_RX_SLOTS : r \in 1 .. NUM_ROWS}
<1>1. CASE UserStart \/ UserStop
  <2>1. Feed!UserStart \/ Feed!UserStop
    BY <1>1 DEF UserStart, UserStop, Feed!UserStart, Feed!UserStop, allocVars,
            procVars
  <2> QED
    BY <2>1 DEF Feed!FeedNext
<1>2. CASE \/ Stopped \/ UNCHANGED vars \/ Nic \/ AllocCount
           \/ ProcBegin \/ ProcOuter \/ ProcIdle \/ ProcRowEnd
  <2>1. UNCHANGED Feed!feedVars
    BY <1>2 DEF Stopped, vars, Nic, NicReceive, AllocCount, ProcBegin,
            ProcOuter, ProcIdle, Done,
       ProcRowEnd, shared, allocVars, procVars, Feed!feedVars
  <2> QED
    BY <2>1
<1>3. CASE AllocBegin
  <2>1. Feed!Begin
    BY <1>3 DEF AllocBegin, Feed!Begin, RingInv, RingOrder, ThreadPhases, procVars
  <2> QED
    BY <2>1 DEF Feed!FeedNext, Feed!Driver
<1>4. CASE AllocStop
  <2>1. Feed!AllocDone
    BY <1>4 DEF AllocStop, StopSeen, Feed!AllocDone, procVars
  <2> QED
    BY <2>1 DEF Feed!FeedNext, Feed!Driver
<1>5. CASE AllocFill
  <2>1. sup_row \in Nat /\ sup_row <= NUM_ROWS - 1 /\ cur_partial \in Nat
    BY DEF RingInv, TypeOK, IndicesTyped, SlotOffsets
  <2>2. CASE NextOffset > BYTE_LIMIT
    <3> DEFINE end == (sup_row + 1) * NUM_RX_SLOTS
    <3>1. acur = pcur /\ sup_row # 0
      BY <1>5, <2>2, OffsetFacts DEF AllocFill
    <3>2. end \in sizes
      BY <2>1
    <3>3. max_row = 0 => cur_partial < end
      <4>1. /\ HandedOut - cur_partial = Dist(rx_desc, Supplied)
            /\ Dist(rx_desc, Supplied) \in Nat /\ sup_partial < NUM_RX_SLOTS
            /\ sup_partial \in Nat
        BY <1>5, <3>1, NextBucketFacts
           DEF AllocFill, RingInv, RingOrder, TypeOK, IndicesTyped, Ahead, Dist, Supplied, Slots
      <4> QED
        BY <2>1, <4>1 DEF HandedOut
    <3>4. max_row = 0 \/ max_row = end
      BY <3>1, NextBucketFacts DEF RingInv, TypeOK, IndicesTyped, Ahead
    <3>5. process_start /\ apc = "fill" /\ apc' \in {"fill", "commit"}
      BY <1>5 DEF AllocFill, ThreadPhases
    <3>6. max_row' = end /\ num_captured' = [num_captured EXCEPT ![acur] = end]
      BY <1>5, <2>2 DEF AllocFill, LastRow
    <3> HIDE DEF end
    <3>7. Feed!Announce(end)
      BY <1>5, <3>1, <3>2, <3>3, <3>4, <3>5, <3>6 DEF AllocFill, Feed!Announce,
              shared, procVars
    <3> QED
      BY <3>2, <3>7 DEF Feed!FeedNext, Feed!Driver
  <2>3. CASE ~(NextOffset > BYTE_LIMIT)
    <3>1. UNCHANGED Feed!feedVars
      BY <1>5, <2>3 DEF AllocFill, LastRow, Feed!feedVars, shared, procVars
    <3> QED
      BY <3>1
  <2> QED
    BY <2>2, <2>3
<1>6. CASE AllocCommit
  <2>1. CASE sup_partial = NUM_RX_SLOTS /\ max_row # 0
    <3>1. acur = pcur
      <4>1. /\ Dist(rx_desc, Supplied) \in 0 .. NUM_RX_SLOTS - 1
            /\ cur_partial \in Nat /\ max_row \in Nat
        BY DEF RingInv, TypeOK, IndicesTyped, Dist, Supplied, Slots
      <4> QED
        BY <2>1, <4>1 DEF RingInv, Ahead, BucketEnd
    <3>2. Feed!Advance
      BY <1>6, <2>1, <3>1 DEF AllocCommit, Feed!Advance, Feed!NextBucket,
              NextBucket,
         ThreadPhases, shared, procVars
    <3> QED
      BY <3>2 DEF Feed!FeedNext, Feed!Driver
  <2>2. CASE ~(sup_partial = NUM_RX_SLOTS /\ max_row # 0)
    <3>1. UNCHANGED Feed!feedVars
      BY <1>6, <2>2 DEF AllocCommit, Feed!feedVars, shared, procVars
    <3> QED
      BY <3>1
  <2> QED
    BY <2>1, <2>2
<1>7. CASE ProcAbort \/ ProcFinish
  <2>1. Feed!Finish
    BY <1>7 DEF ProcAbort, ProcFinish, Feed!Finish, Feed!FinalCount,
            ThreadPhases, shared, allocVars
  <2> QED
    BY <2>1 DEF Feed!FeedNext, Feed!Driver
<1>8. CASE ProcLast
  <2>1. pcur \in Buckets
    BY DEF RingInv, TypeOK, IndicesTyped
  <2>2. Feed!MarkLast
    BY <1>8, <2>1 DEF ProcLast, Feed!MarkLast, ThreadPhases, shared, allocVars
  <2> QED
    BY <2>2 DEF Feed!FeedNext, Feed!Driver
<1>9. CASE ProcStore
  <2>1. cur_partial + 1 < NUM_ROWS * NUM_RX_SLOTS \/ max_row # 0
    BY <1>9, RoomWhileOpen DEF ProcStore, Done
  <2>2. NUM_ROWS * NUM_RX_SLOTS \in sizes
    OBVIOUS
  <2>3. max_row # 0 => cur_partial < max_row
    BY <1>9 DEF ProcStore, RingInv, BucketEnd, TypeOK, IndicesTyped
  <2>4. /\ process_start /\ ~(ppc \in {"last", "done"}) /\ ~(ppc' \in {"last", "done"})
    BY <1>9 DEF ProcStore, ThreadPhases
  <2>5. Feed!Store
    BY <1>9, <2>1, <2>2, <2>3, <2>4 DEF ProcStore, Feed!Store, shared, allocVars
  <2> QED
    BY <2>5 DEF Feed!FeedNext, Feed!Driver
<1>10. CASE ProcBucket
  <2>1. acur # pcur /\ max_row = cur_partial /\ cur_partial # 0
    BY <1>10, BucketReached DEF ProcBucket
  <2>2. Feed!Complete
    BY <1>10, <2>1 DEF ProcBucket, Feed!Complete, Feed!NextBucket, NextBucket,
            shared, allocVars
  <2> QED
    BY <2>2 DEF Feed!FeedNext, Feed!Driver
<1> QED
  BY <1>1, <1>2, <1>3, <1>4, <1>5, <1>6, <1>7, <1>8, <1>9, <1>10
     DEF Next, AllocThread, ProcThread

(***************************************************************************)
(* The two threads and their ring implement the bucket-level driver.       *)
(***************************************************************************)
THEOREM RingImplementsFeed ==
  ASSUME ~RingMayRunDry
  PROVE  Spec => ImplementsFeed
<1>1. Init => Feed!FeedInit /\ ThreadPhases
  BY InitRefines
<1>2. RingInv /\ ThreadPhases /\ [Next]_vars => ThreadPhases'
  BY PhasesStep DEF RingInv
<1>3. RingInv /\ ThreadPhases /\ [Next]_vars => [Feed!FeedNext]_(Feed!feedVars)
  BY StepRefines
<1>4. Spec => []RingInv
  BY RingInvariant
<1> QED
  BY <1>1, <1>2, <1>3, <1>4, PTL DEF Spec, ImplementsFeed, Feed!FeedSpec

=============================================================================
