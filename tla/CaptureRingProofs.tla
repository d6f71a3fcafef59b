------------------------- MODULE CaptureRingProofs -------------------------
(***************************************************************************)
(* Proofs about CaptureRing: for every ring size, batch size, number of    *)
(* buckets, slot size and set of packet lengths that RingAssumption allows *)
(* RingInv is an invariant of a ring that never runs dry, and the safety   *)
(* properties of CaptureRing follow from it.                               *)
(***************************************************************************)
EXTENDS CaptureRing, TLAPS

-----------------------------------------------------------------------------
(* Arithmetic. *)

(***************************************************************************)
(* Division with remainder, for the masks and u16 conversions of the code. *)
(***************************************************************************)
LEMMA DivMod ==
  ASSUME NEW a \in Int, NEW n \in Nat \ {0}
  PROVE  /\ a % n \in 0 .. n - 1
         /\ a \div n \in Int
         /\ a = (a \div n) * n + (a % n)
OBVIOUS

(***************************************************************************)
(* Multiples of n that are less than n apart are ordered as their factors. *)
(***************************************************************************)
LEMMA FactorOrder ==
  ASSUME NEW n \in Nat \ {0}, NEW x \in Int, NEW y \in Int, x * n < y * n + n
  PROVE  x <= y
<1>1. SUFFICES ASSUME x >= y + 1 PROVE FALSE
  OBVIOUS
<1>2. (x - (y + 1)) * n >= 0
  BY <1>1
<1> QED
  BY <1>2

(***************************************************************************)
(* Multiplication by a natural number is monotone.                         *)
(***************************************************************************)
LEMMA TimesMonotone ==
  ASSUME NEW n \in Nat, NEW x \in Int, NEW y \in Int, x <= y
  PROVE  x * n <= y * n
<1>1. (y - x) * n >= 0
  OBVIOUS
<1> QED
  BY <1>1

(***************************************************************************)
(* A remainder is determined by any decomposition.                         *)
(***************************************************************************)
LEMMA ModUnique ==
  ASSUME NEW n \in Nat \ {0}, NEW q \in Int, NEW r \in 0 .. n - 1
  PROVE  (q * n + r) % n = r
<1> DEFINE a == q * n + r
           d == a \div n
<1>1. a \in Int
  OBVIOUS
<1>2. a = q * n + r
  OBVIOUS
<1>3. a % n \in 0 .. n - 1 /\ d \in Int /\ a = d * n + (a % n)
  BY <1>1, DivMod
<1> HIDE DEF a, d
<1>4. d * n < q * n + n /\ q * n < d * n + n
  BY <1>1, <1>2, <1>3
<1>5. d <= q /\ q <= d
  BY <1>3, <1>4, FactorOrder
<1> QED
  BY <1>1, <1>2, <1>3, <1>5 DEF a

(***************************************************************************)
(* One step further round the ring.                                        *)
(***************************************************************************)
LEMMA ModSucc ==
  ASSUME NEW c \in Nat, NEW n \in Nat \ {0}
  PROVE  (c + 1) % n = IF c % n = n - 1 THEN 0 ELSE (c % n) + 1
<1> DEFINE q == c \div n
           r == c % n
<1>1. r \in 0 .. n - 1 /\ q \in Int /\ c = q * n + r
  BY DivMod
<1> HIDE DEF q, r
<1>2. CASE r = n - 1
  <2>1. c + 1 = (q + 1) * n + 0
    BY <1>1, <1>2
  <2>2. ((q + 1) * n + 0) % n = 0
    BY <1>1, ModUnique
  <2> QED
    BY <1>2, <2>1, <2>2 DEF r
<1>3. CASE r # n - 1
  <2>1. c + 1 = q * n + (r + 1) /\ r + 1 \in 0 .. n - 1
    BY <1>1, <1>3
  <2>2. (q * n + (r + 1)) % n = r + 1
    BY <1>1, <2>1, ModUnique
  <2> QED
    BY <1>3, <2>1, <2>2 DEF r
<1> QED
  BY <1>2, <1>3

(***************************************************************************)
(* Truncating to 16 bits does not move a ring index.                       *)
(***************************************************************************)
LEMMA ModMod ==
  ASSUME NEW c \in Nat, NEW n \in Nat \ {0}, NEW m \in Nat \ {0}, m % n = 0
  PROVE  (c % m) % n = c % n
<1> DEFINE k == m \div n
           q == c \div m
           r == c % m
           d == r \div n
           s == r % n
<1>1. k \in Int /\ m = k * n
  BY DivMod
<1>2. q \in Int /\ r \in 0 .. m - 1 /\ c = q * m + r
  BY DivMod
<1>3. d \in Int /\ s \in 0 .. n - 1 /\ r = d * n + s
  BY <1>2, DivMod
<1> HIDE DEF k, q, r, d, s
<1>4. q * k \in Int /\ q * m = (q * k) * n
  BY <1>1, <1>2
<1>5. q * k + d \in Int /\ c = (q * k + d) * n + s
  BY <1>1, <1>2, <1>3, <1>4
<1>6. ((q * k + d) * n + s) % n = s
  BY <1>3, <1>5, ModUnique
<1> QED
  BY <1>5, <1>6 DEF r, s

-----------------------------------------------------------------------------
(* The ring. *)

(***************************************************************************)
(* What RingAssumption says without remainders and products.               *)
(***************************************************************************)
LEMMA Sizes ==
  /\ NUM_RX_SLOTS \in Nat \ {0} /\ NUM_RX_SLOTS >= 2
  /\ U16 \in Nat \ {0} /\ NUM_ROWS \in Nat \ {0}
  /\ BYTE_LIMIT \in Nat /\ RX_BUF_SIZE \in Nat /\ MIN_PACKET \in Nat \ {0}
  /\ START_1G \in Nat /\ END_1G \in Nat /\ START_1G < END_1G
BY RingAssumption

(***************************************************************************)
(* The next bucket is a bucket, and another one.                           *)
(***************************************************************************)
LEMMA NextBucketFacts ==
  \A b \in Buckets : NextBucket(b) \in Buckets /\ NextBucket(b) # b
BY Sizes DEF Buckets, NextBucket

(***************************************************************************)
(* next_to_clean names a slot.                                             *)
(***************************************************************************)
LEMMA CleanedSlot == TypeOK => Cleaned \in Slots
<1> SUFFICES ASSUME TypeOK PROVE Cleaned \in Slots
  OBVIOUS
<1>1. next_to_clean \in Int
  BY Sizes DEF TypeOK, IndicesTyped
<1> QED
  BY <1>1, Sizes, DivMod DEF Cleaned, Slots

(***************************************************************************)
(* The masked difference of nlsim_alloc_thread is the room left between    *)
(* the next descriptor to refill and the last cleaned one, less one.       *)
(***************************************************************************)
LEMMA RefillRoom ==
  ASSUME TypeOK, sup_partial < NUM_RX_SLOTS
  PROVE  RefillCount = NUM_RX_SLOTS - 1 - Dist(Cleaned, sup_partial)
<1> DEFINE N == NUM_RX_SLOTS
           q == next_to_clean \div N
<1>1. next_to_clean \in Int /\ sup_partial \in 0 .. N - 1 /\ N \in Nat \ {0}
  BY Sizes DEF TypeOK, IndicesTyped
<1>2. Cleaned \in 0 .. N - 1 /\ q \in Int /\ next_to_clean = q * N + Cleaned
  BY <1>1, DivMod DEF Cleaned
<1> HIDE DEF N, q
<1>3. CASE Cleaned > sup_partial
  <2>1. N + next_to_clean - sup_partial - 1 = (q + 1) * N + (Cleaned - sup_partial - 1)
    BY <1>1, <1>2
  <2>2. Cleaned - sup_partial - 1 \in 0 .. N - 1
    BY <1>1, <1>2, <1>3
  <2>3. ((q + 1) * N + (Cleaned - sup_partial - 1)) % N = Cleaned - sup_partial - 1
    BY <1>1, <1>2, <2>2, ModUnique
  <2> QED
    BY <1>1, <1>2, <1>3, <2>1, <2>3 DEF RefillCount, Dist, N
<1>4. CASE Cleaned <= sup_partial
  <2>1. N + next_to_clean - sup_partial - 1 = q * N + (N + Cleaned - sup_partial - 1)
    BY <1>1, <1>2
  <2>2. N + Cleaned - sup_partial - 1 \in 0 .. N - 1
    BY <1>1, <1>2, <1>4
  <2>3. (q * N + (N + Cleaned - sup_partial - 1)) % N = N + Cleaned - sup_partial - 1
    BY <1>1, <1>2, <2>2, ModUnique
  <2> QED
    BY <1>1, <1>2, <1>4, <2>1, <2>3 DEF RefillCount, Dist, N
<1> QED
  BY <1>1, <1>2, <1>3, <1>4

-----------------------------------------------------------------------------
(* The invariant. *)

(***************************************************************************)
(* The state before ./start satisfies the invariant.                       *)
(***************************************************************************)
LEMMA InitRingInv == Init => RingInv
<1> SUFFICES ASSUME Init PROVE RingInv
  OBVIOUS
<1> USE Sizes DEF Init
<1>1. (0 * NUM_RX_SLOTS + 0) % NUM_RX_SLOTS = 0
  BY ModUnique
<1>2. 0 % NUM_RX_SLOTS = 0
  BY <1>1
<1>3. TypeOK
  <2>1. ThreadsTyped
    BY DEF ThreadsTyped
  <2>2. IndicesTyped
    BY DEF IndicesTyped, Buckets, Slots
  <2>3. MemoryTyped
    BY DEF MemoryTyped, Buckets, Slots, Cells, Descriptors, Places
  <2> QED
    BY <2>1, <2>2, <2>3 DEF TypeOK
<1>4. RingOrder
  BY <1>2 DEF RingOrder, Dist, Cleaned, Supplied
<1>5. RingFresh
  BY DEF RingFresh
<1>6. RecordIndex
  BY <1>2 DEF RecordIndex
<1>7. Ahead
  BY DEF Ahead, HandedOut, Dist, Supplied
<1>8. BucketEnd /\ RealLengths /\ SlotOffsets
  BY DEF BucketEnd, RealLengths, SlotOffsets, Slots, Cells
<1> QED
  BY <1>3, <1>4, <1>5, <1>6, <1>7, <1>8 DEF RingInv

(***************************************************************************)
(* The steps that only move a program counter or a flag: the users, the    *)
(* beginning and the end of the threads, the idle turns of their loops.    *)
(***************************************************************************)
LEMMA QuietSteps ==
  ASSUME RingInv,
         UserStart \/ UserStop \/ AllocBegin \/ AllocStop \/ ProcBegin
         \/ ProcAbort \/ ProcOuter \/ ProcIdle \/ ProcFinish \/ ProcLast
         \/ Stopped \/ UNCHANGED vars
  PROVE  RingInv'
<1> DEFINE ring == <<next_to_clean, max_row, acur, sup_row, sup_partial, count,
                     glength, pcur, cur_partial, rx_desc, desc, head, tail, dma,
                     len>>
<1>1. UNCHANGED ring
  BY DEF RingInv, RingOrder, UserStart, UserStop, AllocBegin, AllocStop,
          StopSeen, ProcBegin,
     ProcAbort, ProcOuter, ProcIdle, Done, ProcFinish, ProcLast, Stopped, vars, shared,
     allocVars, procVars, nicVars
<1>2. /\ apc' \in {apc, "top", "done"} /\ (apc' # apc => apc \in {"start", "top"})
      /\ ppc' \in {ppc, "outer", "poll", "last", "done"}
      /\ (ppc' # ppc => ppc \in {"start", "outer", "poll", "last"})
  BY DEF UserStart, UserStop, AllocBegin, AllocStop, StopSeen, ProcBegin,
     ProcAbort, ProcOuter, ProcIdle, Done, ProcFinish, ProcLast, Stopped, vars, shared,
     allocVars, procVars, nicVars
<1>3. TypeOK'
  <2>1. ThreadsTyped'
    <3>1. /\ user_start' \in BOOLEAN /\ user_stop' \in BOOLEAN
          /\ process_start' \in BOOLEAN /\ process_stop' \in BOOLEAN
      BY Zenon DEF RingInv, TypeOK, ThreadsTyped, UserStart, UserStop,
              AllocBegin, AllocStop, StopSeen, ProcBegin,
       ProcAbort, ProcOuter, ProcIdle, Done, ProcFinish, ProcLast, Stopped, vars, shared,
       allocVars, procVars, nicVars
    <3>2. apc' \in {"start", "top", "fill", "commit", "done"}
      BY <1>2, Zenon DEF RingInv, TypeOK, ThreadsTyped
    <3>3. ppc' \in {"start", "outer", "poll", "rowend", "bucket", "last", "done"}
      BY <1>2, Zenon DEF RingInv, TypeOK, ThreadsTyped
    <3> QED
      BY <3>1, <3>2, <3>3 DEF ThreadsTyped
  <2>2. IndicesTyped'
    BY <1>1 DEF RingInv, TypeOK, IndicesTyped
  <2>3. num_captured' \in [Buckets -> Nat]
    BY DEF RingInv, TypeOK, IndicesTyped, MemoryTyped, UserStart, UserStop,
            AllocBegin, AllocStop, StopSeen, ProcBegin,
       ProcAbort, ProcOuter, ProcIdle, Done, ProcFinish, ProcLast, Stopped, vars, shared,
       allocVars, procVars, nicVars
  <2>4. last' \in [Buckets -> BOOLEAN]
    BY DEF RingInv, TypeOK, IndicesTyped, MemoryTyped, UserStart, UserStop,
            AllocBegin, AllocStop, StopSeen, ProcBegin,
       ProcAbort, ProcOuter, ProcIdle, Done, ProcFinish, ProcLast, Stopped, vars, shared,
       allocVars, procVars, nicVars
  <2>5. MemoryTyped'
    BY <1>1, <2>3, <2>4 DEF RingInv, TypeOK, MemoryTyped
  <2> QED
    BY <2>1, <2>2, <2>5 DEF TypeOK
<1>4. RingOrder'
  BY <1>1, <1>2 DEF RingInv, RingOrder, Dist, Cleaned, Supplied
<1>5. RingFresh' /\ RecordIndex'
  BY <1>1, <1>2 DEF RingInv, RingFresh, RecordIndex, Dist, Supplied
<1>6. Ahead' /\ BucketEnd'
  BY <1>1, <1>2 DEF RingInv, Ahead, BucketEnd, HandedOut, Dist, Supplied
<1>7. RealLengths' /\ SlotOffsets'
  BY <1>1, <1>2 DEF RingInv, RealLengths, SlotOffsets
<1> QED
  BY <1>3, <1>4, <1>5, <1>6, <1>7 DEF RingInv

(***************************************************************************)
(* Sizing a batch: count keeps one slot free before next_to_clean.         *)
(***************************************************************************)
LEMMA AllocCountStep ==
  ASSUME RingInv, AllocCount
  PROVE  RingInv'
<1> USE Sizes
<1>1. /\ sup_partial \in Slots /\ Supplied = sup_partial /\ Cleaned \in Slots
      /\ RefillCount = NUM_RX_SLOTS - 1 - Dist(Cleaned, sup_partial)
  BY RefillRoom, CleanedSlot
     DEF RingInv, TypeOK, IndicesTyped, RingOrder, AllocCount, Slots, Supplied
<1>2. TypeOK'
  <2>1. ThreadsTyped'
    BY Zenon DEF RingInv, TypeOK, ThreadsTyped, AllocCount, shared, procVars
  <2>2. IndicesTyped'
    BY <1>1 DEF RingInv, TypeOK, IndicesTyped, AllocCount, procVars, nicVars,
            Slots, Dist
  <2>3. MemoryTyped'
    BY DEF RingInv, TypeOK, MemoryTyped, AllocCount, nicVars
  <2> QED
    BY <2>1, <2>2, <2>3 DEF TypeOK
<1>3. RingOrder'
  BY <1>1 DEF RingInv, RingOrder, AllocCount, procVars, nicVars, Dist, Cleaned,
          Supplied, Slots
<1>4. RingFresh' /\ RecordIndex'
  BY DEF RingInv, RingFresh, RecordIndex, AllocCount, procVars, nicVars, Dist,
          Supplied
<1>5. Ahead' /\ BucketEnd'
  BY DEF RingInv, Ahead, BucketEnd, AllocCount, procVars, nicVars, HandedOut,
          Dist, Supplied
<1>6. RealLengths' /\ SlotOffsets'
  BY DEF RingInv, RealLengths, SlotOffsets, AllocCount, procVars
<1> QED
  BY <1>2, <1>3, <1>4, <1>5, <1>6 DEF RingInv

(***************************************************************************)
(* At the end of a row the recording thread compares with max_row.         *)
(***************************************************************************)
LEMMA ProcRowEndStep ==
  ASSUME RingInv, ProcRowEnd
  PROVE  RingInv'
<1>1. TypeOK'
  <2>1. ThreadsTyped'
    BY Zenon DEF RingInv, TypeOK, ThreadsTyped, ProcRowEnd, shared, allocVars
  <2>2. IndicesTyped'
    BY DEF RingInv, TypeOK, IndicesTyped, ProcRowEnd, allocVars, nicVars
  <2>3. MemoryTyped'
    BY DEF RingInv, TypeOK, MemoryTyped, ProcRowEnd, allocVars, nicVars
  <2> QED
    BY <2>1, <2>2, <2>3 DEF TypeOK
<1>2. RingOrder'
  BY DEF RingInv, RingOrder, ProcRowEnd, allocVars, nicVars, Dist, Cleaned, Supplied
<1>3. RingFresh' /\ RecordIndex'
  BY DEF RingInv, RingFresh, RecordIndex, ProcRowEnd, BucketEnds, allocVars,
          nicVars, Dist, Supplied
<1>4. Ahead' /\ BucketEnd'
  BY DEF RingInv, Ahead, BucketEnd, ProcRowEnd, BucketEnds, allocVars, nicVars,
          HandedOut, Dist, Supplied
<1>5. RealLengths' /\ SlotOffsets'
  BY DEF RingInv, RealLengths, SlotOffsets, ProcRowEnd, allocVars
<1> QED
  BY <1>1, <1>2, <1>3, <1>4, <1>5 DEF RingInv

(***************************************************************************)
(* When the recording thread reaches max_row the allocating thread is      *)
(* already in the next bucket.                                             *)
(***************************************************************************)
LEMMA BucketReached ==
  ASSUME RingInv, ppc = "bucket"
  PROVE  /\ max_row = cur_partial /\ cur_partial # 0 /\ rx_desc = 0
         /\ acur # pcur /\ acur = NextBucket(pcur) /\ sup_row = 0
         /\ sup_partial = Dist(rx_desc, Supplied)
<1> USE Sizes
<1>1. /\ max_row = cur_partial /\ cur_partial # 0 /\ rx_desc = 0 /\ head # tail
      /\ cur_partial \in Nat /\ sup_row \in Nat /\ sup_partial \in 0 .. NUM_RX_SLOTS
      /\ Cleaned \in Slots /\ rx_desc \in Slots /\ head \in Slots /\ tail \in Slots
  BY CleanedSlot DEF RingInv, TypeOK, IndicesTyped, RecordIndex, RingFresh
<1>2. Dist(rx_desc, Supplied) >= 1
  BY <1>1 DEF RingInv, RingOrder, Dist, Supplied, Slots
<1>3. acur # pcur
  <2> SUFFICES ASSUME acur = pcur PROVE FALSE
    OBVIOUS
  <2>1. max_row = (sup_row + 1) * NUM_RX_SLOTS /\ HandedOut - cur_partial >= 1
    BY <1>1, <1>2, NextBucketFacts DEF RingInv, Ahead, TypeOK, IndicesTyped
  <2> QED
    BY <1>1, <2>1 DEF HandedOut
<1>4. /\ acur = NextBucket(pcur) /\ sup_row = 0
      /\ sup_partial = Dist(rx_desc, Supplied)
  BY <1>1, <1>3 DEF RingInv, Ahead, Dist, Supplied
<1> QED
  BY <1>1, <1>3, <1>4

(***************************************************************************)
(* Clearing max_row at the end of a bucket brings the threads together.    *)
(***************************************************************************)
LEMMA ProcBucketStep ==
  ASSUME RingInv, ProcBucket
  PROVE  RingInv'
<1> USE Sizes
<1>1. /\ max_row = cur_partial /\ rx_desc = 0 /\ acur = NextBucket(pcur)
      /\ sup_row = 0 /\ sup_partial = Dist(rx_desc, Supplied)
  BY BucketReached DEF ProcBucket
<1>2. sup_partial \in 0 .. NUM_RX_SLOTS
  BY DEF RingInv, TypeOK, IndicesTyped
<1>3. TypeOK'
  <2>1. ThreadsTyped'
    BY Zenon DEF RingInv, TypeOK, ThreadsTyped, ProcBucket, shared, allocVars
  <2>2. IndicesTyped'
    BY NextBucketFacts DEF RingInv, TypeOK, IndicesTyped, ProcBucket,
            allocVars, nicVars
  <2>3. MemoryTyped'
    BY DEF RingInv, TypeOK, MemoryTyped, ProcBucket, allocVars, nicVars
  <2> QED
    BY <2>1, <2>2, <2>3 DEF TypeOK
<1>4. RingOrder' /\ RingFresh'
  BY DEF RingInv, RingOrder, RingFresh, ProcBucket, allocVars, nicVars, Dist,
          Cleaned, Supplied
<1>5. RecordIndex' /\ BucketEnd'
  <2>1. (0 * NUM_RX_SLOTS + 0) % NUM_RX_SLOTS = 0
    BY ModUnique
  <2> QED
    BY <1>1, <2>1 DEF RecordIndex, BucketEnd, ProcBucket
<1>6. Ahead'
  BY <1>1, <1>2 DEF Ahead, ProcBucket, allocVars, HandedOut, Dist, Supplied
<1>7. RealLengths' /\ SlotOffsets'
  BY <1>1 DEF RingInv, RealLengths, SlotOffsets, ProcBucket, allocVars, Cells
<1> QED
  BY <1>3, <1>4, <1>5, <1>6, <1>7 DEF RingInv

(***************************************************************************)
(* The NIC uses up a descriptor, but never the last one.                   *)
(***************************************************************************)
LEMMA NicStep ==
  ASSUME ~RingMayRunDry, RingInv, NEW l \in PacketLens[head], NicReceive(l)
  PROVE  RingInv'
<1> USE Sizes
<1>1. /\ rx_desc \in Slots /\ head \in Slots /\ tail \in Slots /\ Cleaned \in Slots
      /\ Supplied \in Slots
  BY CleanedSlot DEF RingInv, TypeOK, IndicesTyped, Supplied, Slots
<1>2. l \in MIN_PACKET .. RX_BUF_SIZE
  BY <1>1, RingAssumption DEF Slots
<1>3. head # tail /\ head' = Succ(head) /\ Succ(head) \in Slots /\ Succ(head) # tail
  BY <1>1 DEF NicReceive, Succ, Slots
<1>4. /\ Supplied' = Supplied /\ Cleaned' = Cleaned /\ rx_desc' = rx_desc /\ tail' = tail
      /\ cur_partial' = cur_partial
  BY DEF NicReceive, Supplied, Cleaned, allocVars, procVars
<1>5. TypeOK'
  <2>1. ThreadsTyped'
    BY Zenon DEF RingInv, TypeOK, ThreadsTyped, NicReceive, shared, allocVars,
            procVars
  <2>2. IndicesTyped'
    BY <1>3 DEF RingInv, TypeOK, IndicesTyped, NicReceive, allocVars, procVars
  <2>3. desc' \in [Slots -> Descriptors]
    <3>1. desc \in [Slots -> Descriptors] /\ desc[head] \in Descriptors
      BY <1>1 DEF RingInv, TypeOK, MemoryTyped
    <3>2. l \in 0 .. RX_BUF_SIZE
      BY <1>2
    <3>3. [desc[head] EXCEPT !.dd = TRUE, !.len = l] \in Descriptors
      BY <3>1, <3>2 DEF Descriptors
    <3>4. desc' = [desc EXCEPT ![head] = [desc[head] EXCEPT !.dd = TRUE, !.len = l]]
      BY <1>1, <3>1 DEF NicReceive
    <3> QED
      BY <1>1, <3>1, <3>3, <3>4
  <2>4. dma' \in [Slots -> Places]
    BY <1>1 DEF RingInv, TypeOK, MemoryTyped, NicReceive, Descriptors, Places
  <2>5. MemoryTyped'
    BY <2>3, <2>4 DEF RingInv, TypeOK, MemoryTyped, NicReceive, allocVars
  <2> QED
    BY <2>1, <2>2, <2>5 DEF TypeOK
<1>6. RingOrder'
  <2>1. Dist(Cleaned, rx_desc) + Dist(rx_desc, head') + Dist(head', tail)
          + Dist(tail, Supplied) = Dist(Cleaned, Supplied)
    BY <1>1, <1>3 DEF RingInv, RingOrder, Dist, Slots, Succ
  <2> QED
    BY <1>4, <2>1 DEF RingInv, RingOrder, NicReceive, allocVars, procVars, Dist
<1>7. RingFresh'
  <2>1. ASSUME NEW s \in Slots, Dist(head', s) < Dist(head', Supplied)
        PROVE  s # head /\ Dist(head, s) < Dist(head, Supplied)
    BY <1>1, <1>3, <2>1 DEF RingInv, RingOrder, Dist, Slots, Succ
  <2>2. \A s \in Slots : s # head => desc'[s] = desc[s]
    BY DEF RingInv, TypeOK, MemoryTyped, NicReceive
  <2>3. \A s \in Slots : Dist(head', s) < Dist(head', Supplied) => ~desc'[s].dd
    BY <2>1, <2>2 DEF RingInv, RingFresh
  <2> QED
    BY <1>3, <1>4, <2>3 DEF RingFresh, Dist
<1>8. RecordIndex' /\ BucketEnd'
  BY DEF RingInv, RecordIndex, BucketEnd, NicReceive, procVars
<1>9. Ahead'
  BY <1>4 DEF RingInv, Ahead, NicReceive, allocVars, procVars, HandedOut, Dist
<1>10. RealLengths'
  BY <1>1, <1>2 DEF RingInv, TypeOK, MemoryTyped, RealLengths, NicReceive,
          procVars, Descriptors
<1>11. SlotOffsets'
  BY DEF RingInv, SlotOffsets, NicReceive, allocVars
<1> QED
  BY <1>5, <1>6, <1>7, <1>8, <1>9, <1>10, <1>11 DEF RingInv

(***************************************************************************)
(* A descriptor with DD set that the recording thread looks at is behind   *)
(* the head, so it holds a packet not yet recorded.                        *)
(***************************************************************************)
LEMMA DoneMeansPending ==
  ASSUME RingInv, desc[rx_desc].dd
  PROVE  rx_desc # head /\ head # tail /\ Pending(rx_desc)
<1> USE Sizes
<1>1. /\ rx_desc \in Slots /\ head \in Slots /\ tail \in Slots /\ Cleaned \in Slots
      /\ Supplied \in Slots
  BY CleanedSlot DEF RingInv, TypeOK, IndicesTyped, Supplied, Slots
<1>2. head # tail
  BY <1>1 DEF RingInv, RingFresh
<1>3. Dist(head, head) < Dist(head, Supplied)
  BY <1>1, <1>2 DEF RingInv, RingOrder, Dist, Slots
<1>4. rx_desc # head
  BY <1>1, <1>3 DEF RingInv, RingFresh
<1> QED
  BY <1>1, <1>2, <1>4 DEF Pending, Dist, Slots

(***************************************************************************)
(* Recording a packet.                                                     *)
(***************************************************************************)
LEMMA ProcStoreStep ==
  ASSUME RingInv, ProcStore
  PROVE  RingInv'
<1> USE Sizes
<1>1. /\ rx_desc \in Slots /\ head \in Slots /\ tail \in Slots /\ Cleaned \in Slots
      /\ Supplied \in Slots /\ cur_partial \in Nat /\ pcur \in Buckets
      /\ sup_partial \in 0 .. NUM_RX_SLOTS /\ sup_row \in Nat /\ max_row \in Nat
      /\ count \in 0 .. NUM_RX_SLOTS
  BY CleanedSlot DEF RingInv, TypeOK, IndicesTyped, Supplied, Slots
<1>2. rx_desc # head /\ head # tail
  BY DoneMeansPending DEF ProcStore, Done
<1>3. /\ cur_partial' = cur_partial + 1 /\ cur_partial' \in Nat
      /\ cur_partial' % NUM_RX_SLOTS = Succ(rx_desc)
  <2>1. cur_partial' = cur_partial + 1
    BY DEF ProcStore
  <2>2. (cur_partial + 1) % NUM_RX_SLOTS = Succ(rx_desc)
    <3>1. cur_partial % NUM_RX_SLOTS = rx_desc
      BY DEF RingInv, RecordIndex
    <3>2. (cur_partial + 1) % NUM_RX_SLOTS
            = IF rx_desc = NUM_RX_SLOTS - 1 THEN 0 ELSE rx_desc + 1
      BY <1>1, <3>1, ModSucc
    <3> QED
      BY <1>1, <3>2 DEF Succ, Slots
  <2>3. cur_partial + 1 \in Nat
    BY <1>1
  <2> QED
    BY <2>1, <2>2, <2>3
<1>4. /\ rx_desc' = Succ(rx_desc) /\ Succ(rx_desc) \in Slots
      /\ ppc' = IF Succ(rx_desc) = 0 THEN "rowend" ELSE "poll"
  BY <1>1, <1>3 DEF ProcStore, Succ, Slots
<1>5. /\ next_to_clean' \in 0 .. U16 - 1
      /\ Cleaned' = Cleaned \/ Cleaned' = Succ(rx_desc)
  <2>1. CASE next_to_clean' = next_to_clean
    BY <2>1 DEF Cleaned, RingInv, TypeOK, IndicesTyped
  <2>2. CASE next_to_clean' = cur_partial' % U16
    <3>1. cur_partial' % U16 \in 0 .. U16 - 1
      <4> DEFINE c == cur_partial'
      <4>1. c \in Int
        BY <1>3
      <4> HIDE DEF c
      <4>2. c % U16 \in 0 .. U16 - 1
        BY <4>1, DivMod
      <4> QED
        BY <4>2 DEF c
    <3>2. (cur_partial' % U16) % NUM_RX_SLOTS = cur_partial' % NUM_RX_SLOTS
      BY <1>3, ModMod, RingAssumption
    <3> QED
      BY <1>3, <2>2, <3>1, <3>2 DEF Cleaned
  <2> QED
    BY <2>1, <2>2 DEF ProcStore, Progress
<1>6. /\ Supplied' = Supplied /\ head' = head /\ tail' = tail /\ desc' = desc
      /\ UNCHANGED allocVars /\ pcur' = pcur /\ max_row' = max_row
  BY DEF ProcStore, Supplied, allocVars, nicVars
<1>7. TypeOK'
  <2>1. ThreadsTyped'
    <3>1. ppc' \in {"poll", "rowend"}
      BY <1>4
    <3> QED
      BY <3>1, Zenon DEF RingInv, TypeOK, ThreadsTyped, ProcStore, shared, allocVars
  <2>2. IndicesTyped'
    BY <1>3, <1>4, <1>5, <1>6 DEF RingInv, TypeOK, IndicesTyped, allocVars
  <2>3. len' \in [Buckets -> [Cells -> 0 .. RX_BUF_SIZE]]
    <3>1. desc[rx_desc].len \in 0 .. RX_BUF_SIZE
      BY <1>1 DEF RingInv, TypeOK, MemoryTyped, Descriptors
    <3> QED
      BY <1>1, <3>1 DEF RingInv, TypeOK, MemoryTyped, ProcStore
  <2>4. MemoryTyped'
    BY <2>3 DEF RingInv, TypeOK, MemoryTyped, ProcStore, allocVars, nicVars
  <2> QED
    BY <2>1, <2>2, <2>4 DEF TypeOK
<1>8. Dist(rx_desc', Supplied) = Dist(rx_desc, Supplied) - 1
  BY <1>1, <1>2, <1>4 DEF RingInv, RingOrder, Dist, Slots, Succ
<1>9. RingOrder'
  <2>1. /\ Dist(Cleaned', rx_desc') + Dist(rx_desc', head) + Dist(head, tail)
             + Dist(tail, Supplied) = Dist(Cleaned', Supplied)
        /\ Dist(Cleaned', Supplied) <= Dist(Cleaned, Supplied)
    <3>1. CASE Cleaned' = Cleaned
      BY <1>1, <1>2, <1>4, <3>1 DEF RingInv, RingOrder, Dist, Slots, Succ
    <3>2. CASE Cleaned' = Succ(rx_desc)
      BY <1>1, <1>2, <1>4, <3>2 DEF RingInv, RingOrder, Dist, Slots, Succ
    <3> QED
      BY <1>5, <3>1, <3>2
  <2>2. apc' = "fill" => Dist(Cleaned', Supplied) + count <= NUM_RX_SLOTS - 1
    BY <1>1, <1>4, <1>5, <1>6, <2>1 DEF RingInv, RingOrder, Dist, Slots, allocVars
  <2> QED
    BY <1>6, <2>1, <2>2 DEF RingInv, RingOrder, allocVars, Dist
<1>10. RingFresh'
  BY <1>2, <1>6 DEF RingInv, RingFresh, Dist
<1>11. RecordIndex'
  BY <1>1, <1>3, <1>4 DEF RecordIndex
<1>12. Ahead'
  BY <1>1, <1>3, <1>6, <1>8 DEF RingInv, Ahead, allocVars, HandedOut, Dist
<1>13. BucketEnd'
  BY <1>1, <1>3, <1>4, <1>6 DEF RingInv, BucketEnd, ProcStore
<1>14. RealLengths'
  <2>1. desc[rx_desc].len >= MIN_PACKET
    BY <1>1 DEF RingInv, RealLengths, ProcStore, Done
  <2>2. len' = [len EXCEPT ![pcur][cur_partial] = desc[rx_desc].len]
    BY DEF ProcStore
  <2>3. \A c \in Cells : c < cur_partial' => len'[pcur][c] >= MIN_PACKET
    BY <1>1, <1>3, <2>1, <2>2 DEF RingInv, TypeOK, MemoryTyped, RealLengths, Cells
  <2> QED
    BY <1>6, <2>3 DEF RingInv, RealLengths
<1>15. SlotOffsets'
  BY <1>6 DEF RingInv, SlotOffsets, allocVars
<1> QED
  BY <1>7, <1>9, <1>10, <1>11, <1>12, <1>13, <1>14, <1>15 DEF RingInv

(***************************************************************************)
(* The offset a descriptor gets: the recorded lengths of its slot so far,  *)
(* at most one packet behind BYTE_LIMIT.                                   *)
(***************************************************************************)
LEMMA OffsetFacts ==
  ASSUME RingInv, apc = "fill"
  PROVE  /\ NextOffset \in 0 .. BYTE_LIMIT + RX_BUF_SIZE
         /\ NextOffset >= sup_row * MIN_PACKET
         /\ sup_row = 0 => NextOffset = 0
         /\ sup_row # 0 => acur = pcur /\ PreviousCell < cur_partial
<1> USE Sizes
<1>1. /\ count >= 1 /\ sup_partial + count <= NUM_RX_SLOTS
      /\ count \in 0 .. NUM_RX_SLOTS /\ sup_partial \in 0 .. NUM_RX_SLOTS
      /\ sup_row \in Nat /\ cur_partial \in Nat /\ rx_desc \in Slots
      /\ sup_row <= NUM_ROWS - 1 /\ acur \in Buckets
  BY DEF RingInv, TypeOK, IndicesTyped, RingOrder, SlotOffsets
<1>2. sup_partial \in Slots /\ Supplied = sup_partial
  BY <1>1 DEF Slots, Supplied
<1>3. CASE sup_row = 0
  BY <1>1, <1>3 DEF NextOffset
<1>4. CASE sup_row # 0
  <2>1. acur = pcur /\ HandedOut - cur_partial = Dist(rx_desc, Supplied)
    BY <1>4 DEF RingInv, Ahead
  <2>2. Dist(rx_desc, Supplied) <= NUM_RX_SLOTS - 1 /\ Dist(rx_desc, Supplied) \in Int
    BY <1>1, <1>2 DEF Dist, Slots
  <2>3. PreviousCell = HandedOut - NUM_RX_SLOTS /\ HandedOut \in Int
    BY <1>1 DEF PreviousCell, HandedOut
  <2>4. PreviousCell < cur_partial
    BY <1>1, <2>1, <2>2, <2>3
  <2>5. PreviousCell \in Cells
    <3>1. (sup_row - 1) * NUM_RX_SLOTS \in Nat
      BY <1>1, <1>4
    <3>2. sup_row * NUM_RX_SLOTS <= (NUM_ROWS - 1) * NUM_RX_SLOTS
      BY <1>1, TimesMonotone
    <3> QED
      BY <1>1, <1>2, <3>1, <3>2 DEF PreviousCell, Cells, Slots
  <2>6. len[acur][PreviousCell] \in MIN_PACKET .. RX_BUF_SIZE
    BY <1>1, <2>1, <2>4, <2>5 DEF RingInv, RealLengths, TypeOK, MemoryTyped
  <2>7. /\ glength[sup_partial] \in Nat /\ glength[sup_partial] <= BYTE_LIMIT
        /\ glength[sup_partial] >= (sup_row - 1) * MIN_PACKET
    BY <1>1, <1>2, <1>4 DEF RingInv, SlotOffsets, TypeOK, MemoryTyped
  <2>8. NextOffset = glength[sup_partial] + len[acur][PreviousCell]
    BY <1>4 DEF NextOffset
  <2> QED
    BY <1>1, <1>4, <2>1, <2>4, <2>6, <2>7, <2>8
<1> QED
  BY <1>3, <1>4

(***************************************************************************)
(* Filling one descriptor.                                                 *)
(***************************************************************************)
LEMMA AllocFillStep ==
  ASSUME RingInv, AllocFill
  PROVE  RingInv'
<1> USE Sizes
<1> DEFINE end == (sup_row + 1) * NUM_RX_SLOTS
<1>1. /\ count >= 1 /\ sup_partial + count <= NUM_RX_SLOTS
      /\ Dist(Cleaned, Supplied) + count <= NUM_RX_SLOTS - 1
      /\ count \in 0 .. NUM_RX_SLOTS /\ sup_partial \in 0 .. NUM_RX_SLOTS
      /\ sup_row \in Nat /\ cur_partial \in Nat /\ max_row \in Nat
      /\ sup_row <= NUM_ROWS - 1 /\ acur \in Buckets /\ pcur \in Buckets
      /\ rx_desc \in Slots /\ head \in Slots /\ tail \in Slots /\ Cleaned \in Slots
  BY CleanedSlot DEF RingInv, TypeOK, IndicesTyped, RingOrder, SlotOffsets,
          AllocFill
<1>2. sup_partial \in Slots /\ Supplied = sup_partial
  BY <1>1 DEF Slots, Supplied
<1>3. /\ sup_partial' = sup_partial + 1 /\ count' = count - 1
      /\ apc' = IF count = 1 THEN "commit" ELSE "fill"
      /\ acur' = acur /\ sup_row' = sup_row /\ UNCHANGED procVars
      /\ tail' = tail /\ head' = head /\ dma' = dma /\ len' = len
      /\ Cleaned' = Cleaned /\ next_to_clean' = next_to_clean
  BY DEF AllocFill, nicVars, Cleaned
<1>4. Supplied' = Succ(sup_partial) /\ Succ(sup_partial) \in Slots
  BY <1>1, <1>2, <1>3 DEF Supplied, Succ, Slots
<1>5. /\ NextOffset \in 0 .. BYTE_LIMIT + RX_BUF_SIZE
      /\ NextOffset >= sup_row * MIN_PACKET
      /\ sup_row = 0 => NextOffset = 0
      /\ sup_row # 0 => acur = pcur
  BY OffsetFacts DEF AllocFill
<1>6. end \in Nat /\ end # 0 /\ end <= NUM_ROWS * NUM_RX_SLOTS /\ end % NUM_RX_SLOTS = 0
  <2>1. end \in Nat /\ end # 0
    BY <1>1
  <2>2. (sup_row + 1) * NUM_RX_SLOTS <= NUM_ROWS * NUM_RX_SLOTS
    BY <1>1, TimesMonotone
  <2>3. ((sup_row + 1) * NUM_RX_SLOTS + 0) % NUM_RX_SLOTS = 0
    BY <1>1, ModUnique
  <2> QED
    BY <1>1, <2>1, <2>2, <2>3
<1> HIDE DEF end
<1>7. \/ NextOffset > BYTE_LIMIT /\ sup_row # 0 /\ max_row' = end
      \/ NextOffset <= BYTE_LIMIT /\ max_row' = max_row
  BY <1>5 DEF AllocFill, LastRow, end
<1>8. TypeOK'
  <2>1. ThreadsTyped'
    <3>1. apc' \in {"commit", "fill"}
      BY <1>3
    <3> QED
      BY <3>1, Zenon DEF RingInv, TypeOK, ThreadsTyped, AllocFill, shared, procVars
  <2>2. max_row' \in Nat
    BY <1>1, <1>6, <1>7
  <2>3. IndicesTyped'
    BY <1>1, <1>3, <2>2 DEF RingInv, TypeOK, IndicesTyped, procVars
  <2>4. glength' \in [Slots -> 0 .. BYTE_LIMIT + RX_BUF_SIZE]
    BY <1>2, <1>5 DEF RingInv, TypeOK, MemoryTyped, AllocFill
  <2>5. desc' \in [Slots -> Descriptors]
    <3> DEFINE d == [desc[sup_partial] EXCEPT !.dd = FALSE, !.bucket = acur,
                                              !.offset = NextOffset]
    <3>1. desc \in [Slots -> Descriptors] /\ desc[sup_partial] \in Descriptors
      BY <1>2 DEF RingInv, TypeOK, MemoryTyped
    <3>2. d \in Descriptors
      BY <1>1, <1>5, <3>1 DEF Descriptors
    <3>3. desc' = [desc EXCEPT ![sup_partial] = d]
      BY <1>2, <3>1 DEF AllocFill, Empty
    <3> HIDE DEF d
    <3> QED
      BY <1>2, <3>1, <3>2, <3>3
  <2>6. num_captured' \in [Buckets -> Nat]
    BY <1>1, <2>2 DEF RingInv, TypeOK, MemoryTyped, AllocFill
  <2>7. MemoryTyped'
    BY <1>3, <2>4, <2>5, <2>6 DEF RingInv, TypeOK, MemoryTyped, AllocFill
  <2> QED
    BY <2>1, <2>3, <2>7 DEF TypeOK
<1>9. RingOrder'
  <2>1. /\ Dist(tail, Succ(sup_partial)) = Dist(tail, sup_partial) + 1
        /\ Dist(Cleaned, Succ(sup_partial)) = Dist(Cleaned, sup_partial) + 1
    BY <1>1, <1>2 DEF RingInv, RingOrder, Dist, Slots, Succ
  <2>2. /\ Dist(Cleaned, rx_desc) \in Int /\ Dist(rx_desc, head) \in Int
        /\ Dist(head, tail) \in Int /\ Dist(tail, sup_partial) \in Int
        /\ Dist(Cleaned, sup_partial) \in Int
    BY <1>1, <1>2 DEF Dist, Slots
  <2>3. Dist(Cleaned, rx_desc) + Dist(rx_desc, head) + Dist(head, tail)
          + Dist(tail, Supplied') = Dist(Cleaned, Supplied')
    BY <1>2, <1>4, <2>1, <2>2 DEF RingInv, RingOrder
  <2>4. apc' = "fill" => /\ count' >= 1 /\ sup_partial' + count' <= NUM_RX_SLOTS
                         /\ Dist(Cleaned, Supplied') + count' <= NUM_RX_SLOTS - 1
    BY <1>1, <1>2, <1>3, <1>4, <2>1, <2>2
  <2>5. apc' \in {"fill", "commit"}
    BY <1>3
  <2> QED
    BY <1>3, <2>3, <2>4, <2>5 DEF RingOrder, procVars, Dist
<1>10. \A s \in Slots : IF s = sup_partial THEN ~desc'[s].dd ELSE desc'[s] = desc[s]
  BY <1>2 DEF RingInv, TypeOK, MemoryTyped, AllocFill, Empty, Descriptors
<1>11. RingFresh'
  <2>1. ASSUME NEW s \in Slots, Dist(head, s) < Dist(head, Succ(sup_partial))
        PROVE  s = sup_partial \/ Dist(head, s) < Dist(head, Supplied)
    BY <1>1, <1>2, <2>1 DEF RingInv, RingOrder, Dist, Slots, Succ
  <2>2. \A s \in Slots : Dist(head, s) < Dist(head, Supplied') => ~desc'[s].dd
    BY <1>4, <1>10, <2>1 DEF RingInv, RingFresh
  <2>3. head = tail => \A s \in Slots : ~desc'[s].dd
    BY <1>10 DEF RingInv, RingFresh
  <2> QED
    BY <1>3, <2>2, <2>3 DEF RingInv, RingFresh, procVars, Dist
<1>12. Dist(rx_desc, Supplied') = Dist(rx_desc, Supplied) + 1
  BY <1>1, <1>2, <1>4 DEF RingInv, RingOrder, Dist, Slots, Succ
<1>13. /\ acur = pcur => max_row \in {0, end} /\ cur_partial <= HandedOut
       /\ HandedOut < end /\ HandedOut \in Int
  <2>1. Dist(rx_desc, Supplied) \in Nat
    BY <1>1, <1>2 DEF Dist, Slots
  <2>2. HandedOut \in Int /\ HandedOut < end
    BY <1>1, <1>2 DEF HandedOut, end, Slots
  <2> QED
    BY <1>1, <2>1, <2>2, NextBucketFacts DEF RingInv, Ahead, end
<1>14. RecordIndex'
  BY <1>3, <1>5, <1>7, <1>13 DEF RingInv, RecordIndex, procVars
<1>15. Ahead'
  <2>1. HandedOut' = HandedOut + 1
    BY <1>1, <1>3 DEF HandedOut
  <2>2. Dist(rx_desc, Supplied) \in Int
    BY <1>1, <1>2 DEF Dist, Slots
  <2>3. end' = end
    BY <1>3 DEF end
  <2>4. CASE acur = pcur
    <3>1. HandedOut - cur_partial = Dist(rx_desc, Supplied)
      BY <1>1, <2>4, NextBucketFacts DEF RingInv, Ahead
    <3>2. HandedOut' - cur_partial = Dist(rx_desc, Supplied')
      BY <1>1, <1>12, <1>13, <2>1, <2>2, <3>1
    <3>3. max_row' \in {0, end}
      BY <1>7, <1>13, <2>4
    <3> QED
      BY <1>3, <2>3, <2>4, <3>2, <3>3 DEF Ahead, procVars, Dist, end
  <2>5. CASE acur # pcur
    BY <1>1, <1>3, <1>5, <1>7, <1>12, <2>2, <2>5 DEF RingInv, Ahead, procVars, Dist
  <2> QED
    BY <2>4, <2>5
<1>16. BucketEnd'
  BY <1>1, <1>3, <1>5, <1>6, <1>7, <1>13 DEF RingInv, BucketEnd, procVars
<1>17. RealLengths'
  BY <1>3, <1>10 DEF RingInv, RealLengths, procVars
<1>18. SlotOffsets'
  <2>1. \A s \in Slots : glength'[s] = IF s = sup_partial THEN NextOffset ELSE glength[s]
    BY <1>2 DEF RingInv, TypeOK, MemoryTyped, AllocFill
  <2>2. max_row # 0 => max_row' # 0
    BY <1>6, <1>7
  <2>3. NextOffset > BYTE_LIMIT => max_row' # 0
    BY <1>5, <1>6, <1>7
  <2>4. \A s \in Slots : s < sup_partial + 1 <=> s < sup_partial \/ s = sup_partial
    BY <1>2 DEF Slots
  <2> QED
    BY <1>1, <1>3, <1>5, <2>1, <2>2, <2>3, <2>4 DEF RingInv, SlotOffsets
<1> QED
  BY <1>8, <1>9, <1>11, <1>14, <1>15, <1>16, <1>17, <1>18 DEF RingInv

(***************************************************************************)
(* The end of a batch.  The slot kept free before next_to_clean is what    *)
(* keeps the allocating thread from finishing the first row of a bucket    *)
(* before the recording thread has entered that bucket.                    *)
(***************************************************************************)
LEMMA AllocCommitStep ==
  ASSUME RingInv, AllocCommit
  PROVE  RingInv'
<1> USE Sizes
<1> DEFINE wrap == sup_partial = NUM_RX_SLOTS
<1>1. /\ sup_partial \in 0 .. NUM_RX_SLOTS /\ sup_row \in Nat /\ cur_partial \in Nat
      /\ max_row \in Nat /\ sup_row <= NUM_ROWS - 1 /\ acur \in Buckets
      /\ pcur \in Buckets /\ rx_desc \in Slots /\ head \in Slots /\ tail \in Slots
      /\ Cleaned \in Slots /\ Supplied \in Slots
  BY CleanedSlot DEF RingInv, TypeOK, IndicesTyped, SlotOffsets, Supplied, Slots
<1>2. /\ apc' = "top" /\ tail' = Supplied /\ sup_partial' = Supplied
      /\ Supplied' = Supplied /\ Cleaned' = Cleaned
      /\ UNCHANGED <<shared, next_to_clean, max_row, count, glength, procVars, desc,
                      nicVars, len, num_captured, last>>
  BY <1>1 DEF AllocCommit, Supplied, Cleaned, Slots
<1>3. Dist(rx_desc, Supplied) \in 0 .. NUM_RX_SLOTS - 1
  BY <1>1 DEF Dist, Slots
<1>4. ASSUME wrap
      PROVE  /\ acur = pcur
             /\ (sup_row + 1) * NUM_RX_SLOTS - cur_partial = Dist(rx_desc, Supplied)
             /\ max_row \in {0, (sup_row + 1) * NUM_RX_SLOTS}
  <2>1. acur = pcur
    BY <1>1, <1>3, <1>4 DEF RingInv, Ahead, BucketEnd
  <2>2. HandedOut = (sup_row + 1) * NUM_RX_SLOTS
    BY <1>1, <1>4 DEF HandedOut
  <2> QED
    BY <1>1, <2>1, <2>2, NextBucketFacts DEF RingInv, Ahead
<1>5. \/ ~wrap /\ sup_row' = sup_row /\ acur' = acur /\ sup_partial' = sup_partial
      \/ wrap /\ max_row # 0 /\ sup_row' = 0 /\ acur' = NextBucket(acur) /\ sup_partial' = 0
      \/ wrap /\ max_row = 0 /\ sup_row' = sup_row + 1 /\ acur' = acur /\ sup_partial' = 0
  BY DEF AllocCommit
<1>6. ASSUME wrap, max_row = 0
      PROVE  /\ sup_row + 1 <= NUM_ROWS - 1
             /\ \A s \in Slots : glength[s] >= sup_row * MIN_PACKET /\ glength[s] <= BYTE_LIMIT
  <2>1. \A s \in Slots : /\ glength[s] >= sup_row * MIN_PACKET /\ glength[s] <= BYTE_LIMIT
                         /\ glength[s] \in Nat
    BY <1>6 DEF RingInv, SlotOffsets, TypeOK, MemoryTyped, Slots
  <2>2. 0 \in Slots
    BY DEF Slots
  <2>3. sup_row * MIN_PACKET < (NUM_ROWS - 1) * MIN_PACKET
    BY <1>1, <2>1, <2>2, RingAssumption
  <2>4. sup_row * MIN_PACKET < (NUM_ROWS - 2) * MIN_PACKET + MIN_PACKET
    BY <1>1, <2>3
  <2>5. sup_row <= NUM_ROWS - 2
    BY <1>1, <2>4, FactorOrder
  <2> QED
    BY <1>1, <2>1, <2>5
<1> HIDE DEF wrap
<1>7. TypeOK'
  <2>1. ThreadsTyped'
    BY <1>2, Zenon DEF RingInv, TypeOK, ThreadsTyped, shared, procVars
  <2>2. sup_row' \in Nat /\ acur' \in Buckets /\ sup_partial' \in 0 .. NUM_RX_SLOTS
    BY <1>1, <1>5, NextBucketFacts
  <2>3. IndicesTyped'
    BY <1>1, <1>2, <2>2 DEF RingInv, TypeOK, IndicesTyped, procVars, nicVars
  <2>4. MemoryTyped'
    BY <1>2 DEF RingInv, TypeOK, MemoryTyped, nicVars
  <2> QED
    BY <2>1, <2>3, <2>4 DEF TypeOK
<1>8. RingOrder'
  <2>1. Dist(Cleaned, rx_desc) + Dist(rx_desc, head) + Dist(head, Supplied)
          + Dist(Supplied, Supplied) = Dist(Cleaned, Supplied)
    BY <1>1 DEF RingInv, RingOrder, Dist, Slots
  <2> QED
    BY <1>2, <2>1 DEF RingOrder, procVars, nicVars, Dist
<1>9. RingFresh'
  <2>1. head # tail => head # Supplied
    BY <1>1 DEF RingInv, RingOrder, Dist, Slots
  <2> QED
    BY <1>2, <2>1 DEF RingInv, RingFresh, procVars, nicVars, Dist
<1>10. RecordIndex' /\ BucketEnd'
  BY <1>2 DEF RingInv, RecordIndex, BucketEnd, procVars
<1>11. Ahead'
  <2>1. Dist(rx_desc', Supplied') = Dist(rx_desc, Supplied)
    BY <1>2 DEF Dist, procVars
  <2>2. CASE ~wrap /\ sup_row' = sup_row /\ acur' = acur /\ sup_partial' = sup_partial
    BY <1>2, <2>1, <2>2 DEF RingInv, Ahead, HandedOut, procVars
  <2>3. CASE wrap /\ max_row # 0 /\ sup_row' = 0 /\ acur' = NextBucket(acur) /\ sup_partial' = 0
    <3>1. max_row' + sup_partial' - cur_partial' = Dist(rx_desc', Supplied')
      BY <1>1, <1>2, <1>4, <2>1, <2>3 DEF procVars
    <3> QED
      BY <1>2, <1>4, <2>3, <3>1 DEF Ahead, procVars
  <2>4. CASE wrap /\ max_row = 0 /\ sup_row' = sup_row + 1 /\ acur' = acur /\ sup_partial' = 0
    <3>1. HandedOut' - cur_partial' = Dist(rx_desc', Supplied')
      BY <1>1, <1>2, <1>4, <2>1, <2>4 DEF HandedOut, procVars
    <3> QED
      BY <1>2, <1>4, <2>4, <3>1 DEF Ahead, procVars
  <2> QED
    BY <1>5, <2>2, <2>3, <2>4
<1>12. RealLengths'
  BY <1>2 DEF RingInv, RealLengths, procVars
<1>13. SlotOffsets'
  <2>1. CASE ~wrap /\ sup_row' = sup_row /\ acur' = acur /\ sup_partial' = sup_partial
    BY <1>2, <2>1 DEF RingInv, SlotOffsets
  <2>2. CASE wrap /\ max_row # 0 /\ sup_row' = 0 /\ acur' = NextBucket(acur) /\ sup_partial' = 0
    BY <1>2, <2>2 DEF SlotOffsets, Slots
  <2>3. CASE wrap /\ max_row = 0 /\ sup_row' = sup_row + 1 /\ acur' = acur /\ sup_partial' = 0
    <3>1. /\ sup_row' <= NUM_ROWS - 1
          /\ \A s \in Slots : /\ glength'[s] >= (sup_row' - 1) * MIN_PACKET
                             /\ glength'[s] <= BYTE_LIMIT
      BY <1>1, <1>2, <1>6, <2>3
    <3>2. \A s \in Slots : ~(s < sup_partial')
      BY <2>3 DEF Slots
    <3> QED
      BY <3>1, <3>2 DEF SlotOffsets
  <2> QED
    BY <1>5, <2>1, <2>2, <2>3
<1> QED
  BY <1>7, <1>8, <1>9, <1>10, <1>11, <1>12, <1>13 DEF RingInv

(***************************************************************************)
(* Every step of the threads and of the NIC keeps the invariant.           *)
(***************************************************************************)
LEMMA NextRingInv ==
  ASSUME ~RingMayRunDry, RingInv, [Next]_vars
  PROVE  RingInv'
<1>1. CASE UserStart \/ UserStop \/ AllocBegin \/ AllocStop \/ ProcBegin
           \/ ProcAbort \/ ProcOuter \/ ProcIdle \/ ProcFinish \/ ProcLast
           \/ Stopped \/ UNCHANGED vars
  BY <1>1, QuietSteps
<1>2. CASE AllocCount
  BY <1>2, AllocCountStep
<1>3. CASE AllocFill
  BY <1>3, AllocFillStep
<1>4. CASE AllocCommit
  BY <1>4, AllocCommitStep
<1>5. CASE ProcStore
  BY <1>5, ProcStoreStep
<1>6. CASE ProcRowEnd
  BY <1>6, ProcRowEndStep
<1>7. CASE ProcBucket
  BY <1>7, ProcBucketStep
<1>8. CASE Nic
  BY <1>8, NicStep DEF Nic
<1> QED
  BY <1>1, <1>2, <1>3, <1>4, <1>5, <1>6, <1>7, <1>8
     DEF Next, AllocThread, ProcThread

(***************************************************************************)
(* RingInv holds at every step of a capture whose ring never runs dry.     *)
(***************************************************************************)
THEOREM RingInvariant ==
  ASSUME ~RingMayRunDry
  PROVE  Spec => []RingInv
<1>1. Init => RingInv
  BY InitRingInv
<1>2. RingInv /\ [Next]_vars => RingInv'
  BY NextRingInv
<1> QED
  BY <1>1, <1>2, PTL DEF Spec

-----------------------------------------------------------------------------
(* What follows from it. *)

(***************************************************************************)
(* Indices, descriptors, offsets and lengths keep to their types.          *)
(***************************************************************************)
THEOREM TypeCorrect ==
  ASSUME ~RingMayRunDry
  PROVE  Spec => []TypeOK
<1>1. RingInv => TypeOK
  BY DEF RingInv
<1> QED
  BY <1>1, RingInvariant, PTL

(***************************************************************************)
(* nlsim_process_thread never takes a stale DD bit for a packet.           *)
(***************************************************************************)
THEOREM NeverPhantom ==
  ASSUME ~RingMayRunDry
  PROVE  Spec => []NoPhantom
<1>1. RingInv => NoPhantom
  BY DoneMeansPending DEF NoPhantom
<1> QED
  BY <1>1, RingInvariant, PTL

(***************************************************************************)
(* nlsim_alloc_thread never refills a descriptor that is still in use.     *)
(***************************************************************************)
THEOREM RefillSafe ==
  ASSUME ~RingMayRunDry
  PROVE  Spec => []RefillsOnlyRecorded
<1>1. RingInv => RefillsOnlyRecorded
  <2> SUFFICES ASSUME RingInv, apc = "fill"
               PROVE  sup_partial \in Slots /\ ~Pending(sup_partial) /\ ~NicOwns(sup_partial)
    BY DEF RefillsOnlyRecorded
  <2> USE Sizes
  <2>1. /\ rx_desc \in Slots /\ head \in Slots /\ tail \in Slots /\ Cleaned \in Slots
        /\ sup_partial \in Slots /\ Supplied = sup_partial
    BY CleanedSlot DEF RingInv, TypeOK, IndicesTyped, RingOrder, Supplied, Slots
  <2> QED
    BY <2>1 DEF RingInv, RingOrder, Pending, NicOwns, Dist, Slots
<1> QED
  BY <1>1, RingInvariant, PTL

(***************************************************************************)
(* A packet is placed behind lengths of this pass over the bucket.         *)
(***************************************************************************)
THEOREM PlacedByRecordedLengths ==
  ASSUME ~RingMayRunDry
  PROVE  Spec => []LengthIsRecorded
<1>1. RingInv => LengthIsRecorded
  BY OffsetFacts DEF LengthIsRecorded
<1> QED
  BY <1>1, RingInvariant, PTL

(***************************************************************************)
(* The two threads agree on where a bucket ends.                           *)
(***************************************************************************)
THEOREM HandshakeHolds ==
  ASSUME ~RingMayRunDry
  PROVE  Spec => []BucketHandshake
<1>1. RingInv => BucketHandshake
  BY NextBucketFacts DEF RingInv, BucketHandshake, Ahead, BucketEnd, TypeOK,
          IndicesTyped
<1> QED
  BY <1>1, RingInvariant, PTL

(***************************************************************************)
(* No packet crosses into the region of the next slot.                     *)
(***************************************************************************)
THEOREM PacketsFitSlots ==
  ASSUME ~RingMayRunDry
  PROVE  Spec => []SlotFits
<1>1. RingInv => SlotFits
  <2> SUFFICES ASSUME RingInv, NEW s \in Slots
               PROVE  desc[s].offset + RX_BUF_SIZE <= BYTES_PER_SLOT
    BY DEF SlotFits
  <2>1. desc[s].offset \in 0 .. BYTE_LIMIT + RX_BUF_SIZE
    BY DEF RingInv, TypeOK, MemoryTyped, Descriptors
  <2> QED
    BY <2>1, RingAssumption DEF BYTE_LIMIT
<1> QED
  BY <1>1, RingInvariant, PTL

(***************************************************************************)
(* The length table is large enough for packets of at least MIN_PACKET.    *)
(***************************************************************************)
THEOREM RecordsFitTable ==
  ASSUME ~RingMayRunDry
  PROVE  Spec => []TableFits
<1>1. RingInv => TableFits
  <2> SUFFICES ASSUME RingInv, ppc = "poll" PROVE cur_partial \in Cells
    BY DEF TableFits
  <2> USE Sizes
  <2>1. /\ rx_desc \in Slots /\ head \in Slots /\ tail \in Slots /\ Cleaned \in Slots
        /\ Supplied \in Slots /\ cur_partial \in Nat /\ sup_row \in Nat
        /\ sup_partial \in 0 .. NUM_RX_SLOTS /\ sup_row <= NUM_ROWS - 1
        /\ max_row \in Nat
    BY CleanedSlot DEF RingInv, TypeOK, IndicesTyped, SlotOffsets, Supplied, Slots
  <2>2. NUM_ROWS * NUM_RX_SLOTS \in Nat /\ NUM_ROWS * NUM_RX_SLOTS > 0
    OBVIOUS
  <2>3. CASE head = tail
    BY <2>2, <2>3 DEF RingInv, RingFresh, Cells
  <2>4. CASE head # tail /\ max_row # 0
    BY <2>1, <2>2, <2>4 DEF RingInv, BucketEnd, Cells
  <2>5. CASE head # tail /\ max_row = 0
    <3>1. Dist(rx_desc, Supplied) >= 1
      BY <2>1, <2>5 DEF RingInv, RingOrder, Dist, Slots
    <3>2. HandedOut - cur_partial >= 1
      BY <2>5, <3>1 DEF RingInv, Ahead
    <3>3. (sup_row + 1) * NUM_RX_SLOTS <= NUM_ROWS * NUM_RX_SLOTS
      BY <2>1, TimesMonotone
    <3> QED
      BY <2>1, <2>2, <3>2, <3>3 DEF HandedOut, Cells
  <2> QED
    BY <2>3, <2>4, <2>5
<1> QED
  BY <1>1, RingInvariant, PTL

(***************************************************************************)
(* All that users of a recording rely on, for every size of ring, bucket   *)
(* and packet: RingSafe, from the theorems above.                          *)
(***************************************************************************)
THEOREM RingIsSafe ==
  ASSUME ~RingMayRunDry
  PROVE  Spec => []RingSafe
<1>1. NoPhantom /\ RefillsOnlyRecorded /\ LengthIsRecorded /\ BucketHandshake
        /\ SlotFits /\ TableFits => RingSafe
  BY DEF RingSafe
<1> QED
  BY <1>1, NeverPhantom, RefillSafe, PlacedByRecordedLengths, HandshakeHolds,
     PacketsFitSlots, RecordsFitTable, PTL
=============================================================================
