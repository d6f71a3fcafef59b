---------------------------- MODULE CaptureRing ----------------------------
(***************************************************************************)
(* The capture threads of the driver, ixgbe-3.18.7/src/nlsim_pbm.c, and    *)
(* the receive side of the NIC they drive.                                 *)
(*                                                                         *)
(* nlsim_alloc_thread hands empty descriptors to the NIC, nlsim_process_   *)
(* thread records the length of each received packet in the bucket's       *)
(* length table.  They run on two cores with no lock; they share           *)
(* next_to_clean, max_row, process_start, process_stop, the descriptor     *)
(* ring and the buckets.  A packet of ring slot s, row r of bucket b lies   *)
(* in slot s's private region of b, right behind the packets of the rows   *)
(* before r; nothing but the length table says where.                      *)
(*                                                                         *)
(* The variables hold what the code holds (all of it wraps around), so     *)
(* TLC explores captures of any length.                                    *)
(***************************************************************************)
EXTENDS Integers

CONSTANTS
  NUM_RX_SLOTS,    \* descriptors in the receive ring
  CLEAN_BATCH,     \* 0xff + 1: packets between two updates of next_to_clean
  U16,             \* 2^16: next_to_clean is a u16
  NUM_ROWS,        \* rows of the length table of a bucket
  START_1G,        \* first bucket
  END_1G,          \* last bucket
  BYTES_PER_SLOT,  \* size of a slot's region in a bucket
  RX_BUF_SIZE,     \* longest packet
  MIN_PACKET,      \* shortest packet, 60 bytes on Ethernet
  PacketLens,      \* the lengths packets may have, per slot they arrive in
  RingMayRunDry    \* may the NIC use up every descriptor it was given?

Slots   == 0 .. NUM_RX_SLOTS - 1
Buckets == START_1G .. END_1G
Cells   == 0 .. NUM_ROWS * NUM_RX_SLOTS - 1

BYTE_LIMIT == BYTES_PER_SLOT - 2 * RX_BUF_SIZE

(***************************************************************************)
(* RX_SLOT_BITS is 12..15 and next_to_clean a u16, so the ring size is a   *)
(* power of two that divides 2^16 and that 256 divides.  The length table  *)
(* has (4096 * 4096) >> RX_SLOT_BITS rows, more than 60-byte packets need  *)
(* to fill a slot's region.                                                *)
(***************************************************************************)
ASSUME RingAssumption ==
  /\ NUM_RX_SLOTS \in Nat /\ CLEAN_BATCH \in Nat \ {0} /\ U16 \in Nat \ {0}
  /\ CLEAN_BATCH < NUM_RX_SLOTS
  /\ NUM_RX_SLOTS % CLEAN_BATCH = 0
  /\ U16 % NUM_RX_SLOTS = 0
  /\ NUM_ROWS \in Nat \ {0}
  /\ START_1G \in Nat /\ END_1G \in Nat /\ START_1G < END_1G
  /\ BYTES_PER_SLOT \in Nat /\ RX_BUF_SIZE \in Nat
  /\ BYTE_LIMIT \in Nat
  /\ MIN_PACKET \in Nat \ {0} /\ (NUM_ROWS - 1) * MIN_PACKET > BYTE_LIMIT
  /\ PacketLens \in [0 .. NUM_RX_SLOTS - 1 -> SUBSET (MIN_PACKET .. RX_BUF_SIZE)]
  /\ RingMayRunDry \in BOOLEAN

VARIABLES
  user_start,     \* gshare->data [USER_ISSUE_START]
  user_stop,      \* gshare->data [USER_ISSUE_STOP]
  process_start,
  process_stop,
  next_to_clean,
  max_row,        \* packets in the bucket being finished, 0 while unknown
  apc,            \* where nlsim_alloc_thread is
  acur,           \* its bucket
  sup_row,
  sup_partial,
  count,          \* descriptors left to fill in this batch
  glength,        \* bytes handed out so far, per slot
  ppc,            \* where nlsim_process_thread is
  pcur,           \* its bucket
  cur_partial,    \* packets of that bucket recorded so far
  rx_desc,        \* ring index of the descriptor it looks at
  desc,           \* the descriptor ring
  head,           \* RDH: the NIC's next descriptor
  tail,           \* RDT: the first descriptor the NIC may not use
  dma,            \* history: where the NIC put the last packet of each slot
  len,            \* the length tables
  num_captured,
  last

shared    == <<user_start, user_stop, process_start, process_stop>>
allocVars == <<apc, acur, sup_row, sup_partial, count, glength>>
procVars  == <<ppc, pcur, cur_partial, rx_desc>>
nicVars   == <<head, dma>>
vars == <<shared, next_to_clean, max_row, allocVars, procVars, desc, tail,
          nicVars, len, num_captured, last>>

NextBucket(b) == IF b = END_1G THEN START_1G ELSE b + 1
Succ(s)       == IF s + 1 = NUM_RX_SLOTS THEN 0 ELSE s + 1

RefillCountUnmasked == NUM_RX_SLOTS + next_to_clean - sup_partial - 1

(* (NUM_RX_SLOTS + next_to_clean - sup_partial - 1) & RX_SLOT_MASK *)
RefillCount == (NUM_RX_SLOTS + next_to_clean - sup_partial - 1) % NUM_RX_SLOTS

PreviousCellSameRow == sup_row * NUM_RX_SLOTS + sup_partial

(* Cell of the previous row, what u16_ptr [sup_partial] points at. *)
PreviousCell == (sup_row - 1) * NUM_RX_SLOTS + sup_partial

NextOffsetNotReset ==
  IF sup_row = 0 THEN glength[sup_partial]
  ELSE glength[sup_partial] + len[acur][PreviousCell]

(* Offset in its slot's region of the next packet to be placed there. *)
NextOffset ==
  IF sup_row = 0 THEN 0
  ELSE glength[sup_partial] + len[acur][PreviousCell]

(* The slot has room for the packet of this row, but not for another row. *)
LastRow == NextOffset > BYTE_LIMIT

(* hdr_addr = 0, which lies over the DD bit, and the address of the buffer. *)
Empty(d) == [d EXCEPT !.dd = FALSE, !.bucket = acur, !.offset = NextOffset]

(* Is next_to_clean updated after the bucket's c-th packet? *)
Publishes(c) == c % CLEAN_BATCH = 0

(* The 16-bit value stored then. *)
Progress(c) == c % U16

(* The descriptor's DD bit. *)
Done(s) == desc[s].dd

BucketEndsNever == FALSE

(* At the end of a row: was it the bucket's last? *)
BucketEnds == max_row = cur_partial

StopSeenWhenBusy == user_stop /\ RefillCount # 0

(* The allocating thread's test of the user's stop flag. *)
StopSeen == user_stop

Init ==
  /\ user_start = FALSE /\ user_stop = FALSE
  /\ process_start = FALSE /\ process_stop = FALSE
  /\ next_to_clean = 0 /\ max_row = 0
  /\ apc = "start" /\ acur = START_1G /\ sup_row = 0 /\ sup_partial = 0
  /\ count = 0 /\ glength = [s \in Slots |-> 0]
  /\ ppc = "start" /\ pcur = START_1G /\ cur_partial = 0 /\ rx_desc = 0
  /\ desc = [s \in Slots |-> [dd |-> FALSE, len |-> 0,
                              bucket |-> START_1G, offset |-> 0]]
  /\ head = 0 /\ tail = 0
  /\ dma = [s \in Slots |-> [bucket |-> START_1G, offset |-> 0]]
  /\ len = [b \in Buckets |-> [c \in Cells |-> 0]]
  /\ num_captured = [b \in Buckets |-> 0]
  /\ last = [b \in Buckets |-> FALSE]

-----------------------------------------------------------------------------
(***************************************************************************)
(* The users of the shared page: ./start, and ./stop or a stalling writer. *)
(***************************************************************************)
UserStart ==
  /\ ~user_start
  /\ user_start' = TRUE
  /\ UNCHANGED <<user_stop, process_start, process_stop, next_to_clean, max_row,
                 allocVars, procVars, desc, tail, nicVars, len, num_captured, last>>

UserStop ==
  /\ ~user_stop
  /\ user_stop' = TRUE
  /\ UNCHANGED <<user_start, process_start, process_stop, next_to_clean, max_row,
                 allocVars, procVars, desc, tail, nicVars, len, num_captured, last>>

-----------------------------------------------------------------------------
(***************************************************************************)
(* nlsim_alloc_thread.                                                     *)
(***************************************************************************)
AllocBegin ==
  /\ apc = "start" /\ user_start
  /\ process_start' = TRUE
  /\ apc' = "top"
  /\ acur' = START_1G /\ sup_row' = 0 /\ sup_partial' = 0
  /\ UNCHANGED <<user_start, user_stop, process_stop, next_to_clean, max_row,
                 count, glength, procVars, desc, tail, nicVars, len,
                 num_captured, last>>

AllocStop ==
  /\ \/ apc = "start" /\ ~user_start
     \/ apc = "top"
  /\ StopSeen
  /\ process_stop' = TRUE
  /\ apc' = "done"
  /\ UNCHANGED <<user_start, user_stop, process_start, next_to_clean, max_row,
                 acur, sup_row, sup_partial, count, glength, procVars, desc,
                 tail, nicVars, len, num_captured, last>>

(* Size of the next batch; with nothing to refill the loop goes around. *)
AllocCount ==
  /\ apc = "top" /\ ~user_stop
  /\ RefillCount # 0
  /\ count' = IF RefillCount > NUM_RX_SLOTS - sup_partial
              THEN NUM_RX_SLOTS - sup_partial
              ELSE RefillCount
  /\ apc' = "fill"
  /\ UNCHANGED <<shared, next_to_clean, max_row, acur, sup_row, sup_partial,
                 glength, procVars, desc, tail, nicVars, len, num_captured, last>>

(***************************************************************************)
(* One turn of either for loop.  The slot that outgrows BYTE_LIMIT makes   *)
(* this row the bucket's last and announces the bucket to its reader.      *)
(***************************************************************************)
AllocFill ==
  /\ apc = "fill"
  /\ glength' = [glength EXCEPT ![sup_partial] = NextOffset]
  /\ IF LastRow
     THEN /\ max_row' = (sup_row + 1) * NUM_RX_SLOTS
          /\ num_captured' = [num_captured EXCEPT ![acur] = max_row']
     ELSE UNCHANGED <<max_row, num_captured>>
  /\ desc' = [desc EXCEPT ![sup_partial] = Empty(@)]
  /\ sup_partial' = sup_partial + 1
  /\ count' = count - 1
  /\ apc' = IF count = 1 THEN "commit" ELSE "fill"
  /\ UNCHANGED <<shared, next_to_clean, acur, sup_row, procVars, tail, nicVars,
                 len, last>>

(* End of the row, then the tail register. *)
AllocCommit ==
  /\ apc = "commit"
  /\ IF sup_partial = NUM_RX_SLOTS
     THEN /\ sup_partial' = 0
          /\ IF max_row # 0
             THEN sup_row' = 0 /\ acur' = NextBucket(acur)
             ELSE sup_row' = sup_row + 1 /\ acur' = acur
     ELSE UNCHANGED <<sup_partial, sup_row, acur>>
  /\ tail' = sup_partial'
  /\ apc' = "top"
  /\ UNCHANGED <<shared, next_to_clean, max_row, count, glength, procVars, desc,
                 nicVars, len, num_captured, last>>

AllocThread == AllocBegin \/ AllocStop \/ AllocCount \/ AllocFill \/ AllocCommit

-----------------------------------------------------------------------------
(***************************************************************************)
(* nlsim_process_thread.                                                   *)
(***************************************************************************)
ProcBegin ==
  /\ ppc = "start" /\ process_start
  /\ ppc' = "outer"
  /\ UNCHANGED <<shared, next_to_clean, max_row, allocVars, pcur, cur_partial,
                 rx_desc, desc, tail, nicVars, len, num_captured, last>>

ProcAbort ==
  /\ ppc = "start" /\ ~process_start /\ process_stop
  /\ ppc' = "done"
  /\ UNCHANGED <<shared, next_to_clean, max_row, allocVars, pcur, cur_partial,
                 rx_desc, desc, tail, nicVars, len, num_captured, last>>

ProcOuter ==
  /\ ppc = "outer" /\ ~process_stop
  /\ ppc' = "poll"
  /\ UNCHANGED <<shared, next_to_clean, max_row, allocVars, pcur, cur_partial,
                 rx_desc, desc, tail, nicVars, len, num_captured, last>>

ProcIdle ==
  /\ ppc = "poll" /\ ~Done(rx_desc)
  /\ ppc' = "outer"
  /\ UNCHANGED <<shared, next_to_clean, max_row, allocVars, pcur, cur_partial,
                 rx_desc, desc, tail, nicVars, len, num_captured, last>>

(* Record one packet; publish progress after every CLEAN_BATCH packets. *)
ProcStore ==
  /\ ppc = "poll" /\ Done(rx_desc)
  /\ len' = [len EXCEPT ![pcur][cur_partial] = desc[rx_desc].len]
  /\ cur_partial' = cur_partial + 1
  /\ next_to_clean' = IF Publishes(cur_partial') THEN Progress(cur_partial')
                      ELSE next_to_clean
  /\ IF cur_partial' % NUM_RX_SLOTS = 0
     THEN rx_desc' = rx_desc + 1 - NUM_RX_SLOTS /\ ppc' = "rowend"
     ELSE rx_desc' = rx_desc + 1 /\ ppc' = "poll"
  /\ UNCHANGED <<shared, max_row, allocVars, pcur, desc, tail, nicVars,
                 num_captured, last>>

ProcRowEnd ==
  /\ ppc = "rowend"
  /\ ppc' = IF BucketEnds THEN "bucket" ELSE "poll"
  /\ UNCHANGED <<shared, next_to_clean, max_row, allocVars, pcur, cur_partial,
                 rx_desc, desc, tail, nicVars, len, num_captured, last>>

ProcBucket ==
  /\ ppc = "bucket"
  /\ max_row' = 0 /\ cur_partial' = 0
  /\ pcur' = NextBucket(pcur)
  /\ ppc' = "poll"
  /\ UNCHANGED <<shared, next_to_clean, allocVars, rx_desc, desc, tail, nicVars,
                 len, num_captured, last>>

(* The final count first, then the mark: two stores a reader can see between. *)
ProcFinish ==
  /\ ppc = "outer" /\ process_stop
  /\ num_captured' = [num_captured EXCEPT ![pcur] = cur_partial]
  /\ ppc' = "last"
  /\ UNCHANGED <<shared, next_to_clean, max_row, allocVars, pcur, cur_partial,
                 rx_desc, desc, tail, nicVars, len, last>>

ProcLast ==
  /\ ppc = "last"
  /\ last' = [last EXCEPT ![pcur] = TRUE]
  /\ ppc' = "done"
  /\ UNCHANGED <<shared, next_to_clean, max_row, allocVars, pcur, cur_partial,
                 rx_desc, desc, tail, nicVars, len, num_captured>>

ProcThread ==
  \/ ProcBegin \/ ProcAbort \/ ProcOuter \/ ProcIdle
  \/ ProcStore \/ ProcRowEnd \/ ProcBucket \/ ProcFinish \/ ProcLast

-----------------------------------------------------------------------------
(***************************************************************************)
(* The NIC: a packet of length l goes where the head descriptor says, and  *)
(* the write-back sets its length and its DD bit.                          *)
(***************************************************************************)
NicReceive(l) ==
  /\ head # tail
  /\ RingMayRunDry \/ Succ(head) # tail
  /\ dma' = [dma EXCEPT ![head] = [bucket |-> desc[head].bucket,
                                   offset |-> desc[head].offset]]
  /\ desc' = [desc EXCEPT ![head].dd = TRUE, ![head].len = l]
  /\ head' = Succ(head)
  /\ UNCHANGED <<shared, next_to_clean, max_row, allocVars, procVars, tail, len,
                 num_captured, last>>

Nic == \E l \in PacketLens[head] : NicReceive(l)

(* Both threads have returned; the capture is over. *)
Stopped == apc = "done" /\ ppc = "done" /\ UNCHANGED vars

Next == UserStart \/ UserStop \/ AllocThread \/ ProcThread \/ Nic \/ Stopped

Spec == Init /\ [][Next]_vars

(* Each thread owns a core and never sleeps for good. *)
FairSpec == Spec /\ WF_vars(AllocThread) /\ WF_vars(ProcThread)
-----------------------------------------------------------------------------
(***************************************************************************)
(* What the ring looks like to the programs that read the buckets.         *)
(***************************************************************************)
Feed == INSTANCE BucketFeed WITH
  adone <- apc = "done",
  pdone <- ppc \in {"last", "done"},
  BucketSizes <- {r * NUM_RX_SLOTS : r \in 1 .. NUM_ROWS}

(***************************************************************************)
(* The two threads and their ring implement BucketFeed: each of their      *)
(* steps is a step of the bucket-level driver or leaves it alone.          *)
(***************************************************************************)
ImplementsFeed == Feed!FeedSpec

-----------------------------------------------------------------------------
(***************************************************************************)
(* Properties.                                                             *)
(***************************************************************************)
Descriptors == [dd : BOOLEAN, len : 0 .. RX_BUF_SIZE, bucket : Buckets,
                offset : 0 .. BYTE_LIMIT + RX_BUF_SIZE]
Places      == [bucket : Buckets, offset : 0 .. BYTE_LIMIT + RX_BUF_SIZE]

ThreadsTyped ==
  /\ user_start \in BOOLEAN /\ user_stop \in BOOLEAN
  /\ process_start \in BOOLEAN /\ process_stop \in BOOLEAN
  /\ apc \in {"start", "top", "fill", "commit", "done"}
  /\ ppc \in {"start", "outer", "poll", "rowend", "bucket", "last", "done"}

IndicesTyped ==
  /\ next_to_clean \in 0 .. U16 - 1 /\ max_row \in Nat
  /\ acur \in Buckets /\ sup_row \in Nat
  /\ sup_partial \in 0 .. NUM_RX_SLOTS /\ count \in 0 .. NUM_RX_SLOTS
  /\ pcur \in Buckets /\ cur_partial \in Nat /\ rx_desc \in Slots
  /\ head \in Slots /\ tail \in Slots

MemoryTyped ==
  /\ glength \in [Slots -> 0 .. BYTE_LIMIT + RX_BUF_SIZE]
  /\ desc \in [Slots -> Descriptors] /\ dma \in [Slots -> Places]
  /\ len \in [Buckets -> [Cells -> 0 .. RX_BUF_SIZE]]
  /\ num_captured \in [Buckets -> Nat] /\ last \in [Buckets -> BOOLEAN]

(***************************************************************************)
(* Every variable of the two threads, of the ring and of the buckets keeps *)
(* to its type; in particular no offset passes BYTE_LIMIT + RX_BUF_SIZE.   *)
(***************************************************************************)
TypeOK == ThreadsTyped /\ IndicesTyped /\ MemoryTyped

(* Steps from ring index a forward to ring index b. *)
Dist(a, b) == IF a <= b THEN b - a ELSE b - a + NUM_RX_SLOTS

(* Slot s holds a packet the NIC delivered and no one has recorded. *)
Pending(s) == Dist(rx_desc, s) < Dist(rx_desc, head)

(* Slot s was handed to the NIC, which has not used it yet. *)
NicOwns(s) == Dist(head, s) < Dist(head, tail)

(***************************************************************************)
(* nlsim_process_thread takes a descriptor for a packet only if the NIC    *)
(* delivered one there since it was last recorded: the DD bit it tests is  *)
(* never left over from the previous turn of the ring.                     *)
(***************************************************************************)
NoPhantom == ppc = "poll" /\ desc[rx_desc].dd => Pending(rx_desc)

(***************************************************************************)
(* nlsim_alloc_thread refills a descriptor only after its packet has been  *)
(* recorded and never one that the NIC still owns.                         *)
(***************************************************************************)
RefillsOnlyRecorded ==
  apc = "fill" => sup_partial \in Slots /\ ~Pending(sup_partial) /\ ~NicOwns(sup_partial)

(***************************************************************************)
(* The length that places the next packet of a slot (u16_ptr[sup_partial]  *)
(* in nlsim_alloc_thread) was recorded in this pass over the bucket: it is *)
(* never left over from the bucket's previous use.                         *)
(***************************************************************************)
LengthIsRecorded ==
  apc = "fill" /\ sup_row # 0 => acur = pcur /\ PreviousCell < cur_partial

(***************************************************************************)
(* The max_row handshake.  The allocating thread is in the bucket being    *)
(* recorded, or in the first row of the next one and then max_row tells    *)
(* where the recorded one ends; the recording thread never runs past that  *)
(* end.                                                                    *)
(***************************************************************************)
BucketHandshake ==
  /\ max_row = 0 => acur = pcur
  /\ max_row # 0 => /\ cur_partial <= max_row
                    /\ \/ acur = pcur /\ max_row = (sup_row + 1) * NUM_RX_SLOTS
                       \/ acur = NextBucket(pcur) /\ sup_row = 0

(***************************************************************************)
(* A packet fits its slot's region of the bucket: whatever the NIC may     *)
(* still write (RX_BUF_SIZE bytes) ends before the next slot's region.     *)
(***************************************************************************)
SlotFits ==
  \A s \in Slots : NicOwns(s) => desc[s].offset + RX_BUF_SIZE <= BYTES_PER_SLOT

(***************************************************************************)
(* nlsim_process_thread never writes behind the end of a length table.     *)
(***************************************************************************)
TableFits == ppc = "poll" => cur_partial \in Cells

\* What users of a recording rely on, together: nothing is recorded that
\* did not arrive, no descriptor is given back before its packet was
\* recorded, packets lie where the recorded lengths say, a bucket ends the
\* same for both threads, and slots and table are large enough.
RingSafe ==
  /\ NoPhantom
  /\ RefillsOnlyRecorded
  /\ LengthIsRecorded
  /\ BucketHandshake
  /\ SlotFits
  /\ TableFits

(* Sum of the lengths recorded in bucket b for slot s in the rows before r. *)
RecordedOffset(b, r, s) ==
  LET sum[i \in 0 .. r] ==
        IF i = 0 THEN 0 ELSE sum[i - 1] + len[b][(i - 1) * NUM_RX_SLOTS + s]
  IN  sum[r]

(***************************************************************************)
(* A packet lies where a reader of the bucket will look for it: when       *)
(* nlsim_process_thread records the packet in a cell, the NIC has put it   *)
(* in that bucket, behind the packets recorded for its slot before.        *)
(***************************************************************************)
FoundWhereRecorded ==
  [][ProcStore =>
       dma[rx_desc] = [bucket |-> pcur,
                       offset |-> RecordedOffset(pcur, cur_partial \div NUM_RX_SLOTS,
                                                 cur_partial % NUM_RX_SLOTS)]]_vars

(***************************************************************************)
(* After ./stop (or a stalling writer) both threads exit, whether or not   *)
(* the capture was ever started.                                           *)
(***************************************************************************)
StopExits == user_stop ~> (apc = "done" /\ ppc = "done")

(***************************************************************************)
(* Until the capture is stopped the NIC always gets a free descriptor      *)
(* again: the two threads never wait for each other's next_to_clean and    *)
(* tail with the ring in between.                                          *)
(***************************************************************************)
NeverStarved == user_start ~> (user_stop \/ (head # tail /\ Succ(head) # tail))

(***************************************************************************)
(* A delivered packet is recorded, unless the capture is being stopped.    *)
(***************************************************************************)
EventuallyRecorded ==
  \A s \in Slots : Pending(s) ~> (~Pending(s) \/ process_stop)

\* The three about progress: a stop ends both threads, the NIC does not
\* stay without descriptors, and what arrived is recorded.
ThreadsProgress ==
  /\ StopExits
  /\ NeverStarved
  /\ EventuallyRecorded
-----------------------------------------------------------------------------
(***************************************************************************)
(* The inductive invariant behind the properties, for a ring that never    *)
(* runs dry.                                                               *)
(***************************************************************************)

(* Ring indices of next_to_clean and of the next descriptor to refill. *)
Cleaned  == next_to_clean % NUM_RX_SLOTS
Supplied == IF sup_partial = NUM_RX_SLOTS THEN 0 ELSE sup_partial

(* Packets handed out in the bucket of the allocating thread. *)
HandedOut == sup_row * NUM_RX_SLOTS + sup_partial

(* Around the ring: cleaned, recorded, received, given to the NIC, refilled. *)
RingOrder ==
  /\ Dist(Cleaned, rx_desc) + Dist(rx_desc, head) + Dist(head, tail)
       + Dist(tail, Supplied) = Dist(Cleaned, Supplied)
  /\ apc = "fill" => /\ count >= 1 /\ sup_partial + count <= NUM_RX_SLOTS
                     /\ Dist(Cleaned, Supplied) + count <= NUM_RX_SLOTS - 1
  /\ apc \notin {"fill", "commit"} => sup_partial = tail
  /\ apc = "start" => acur = START_1G /\ sup_row = 0 /\ sup_partial = 0

(* Every descriptor from the head on is empty, and there is at least one
   unless nothing was ever supplied. *)
RingFresh ==
  /\ \A s \in Slots : Dist(head, s) < Dist(head, Supplied) => ~desc[s].dd
  /\ head = tail => cur_partial = 0 /\ \A s \in Slots : ~desc[s].dd

(* The recording thread's two indices agree, and where a row ends. *)
RecordIndex ==
  /\ cur_partial % NUM_RX_SLOTS = rx_desc
  /\ ppc \in {"rowend", "bucket"} => cur_partial # 0 /\ rx_desc = 0
  /\ ppc = "bucket" => max_row = cur_partial

(* How far the allocating thread is ahead, within and across buckets. *)
Ahead ==
  \/ /\ acur = pcur
     /\ max_row \in {0, (sup_row + 1) * NUM_RX_SLOTS}
     /\ HandedOut - cur_partial = Dist(rx_desc, Supplied)
  \/ /\ acur = NextBucket(pcur)
     /\ max_row # 0 /\ sup_row = 0
     /\ max_row + sup_partial - cur_partial = Dist(rx_desc, Supplied)

BucketEnd ==
  max_row # 0 =>
    /\ max_row % NUM_RX_SLOTS = 0 /\ max_row <= NUM_ROWS * NUM_RX_SLOTS
    /\ cur_partial <= max_row
    /\ ppc \notin {"rowend", "bucket"} => cur_partial # max_row

(* Lengths recorded in this pass, and delivered, are real ones. *)
RealLengths ==
  /\ \A c \in Cells : c < cur_partial => len[pcur][c] >= MIN_PACKET
  /\ \A s \in Slots : desc[s].dd => desc[s].len >= MIN_PACKET

(* A slot that outgrew BYTE_LIMIT has ended the bucket. *)
SlotOffsets ==
  /\ sup_row <= NUM_ROWS - 1
  /\ \A s \in Slots :
       IF s < sup_partial
       THEN /\ glength[s] >= sup_row * MIN_PACKET
            /\ sup_row = 0 => glength[s] = 0
            /\ glength[s] > BYTE_LIMIT => max_row # 0
       ELSE sup_row # 0 => /\ glength[s] >= (sup_row - 1) * MIN_PACKET
                          /\ glength[s] <= BYTE_LIMIT

(***************************************************************************)
(* What the two threads keep true of the ring, the buckets and each other  *)
(* at every step; NoPhantom, RefillsOnlyRecorded, LengthIsRecorded,        *)
(* BucketHandshake, SlotFits and TableFits all follow from it.             *)
(***************************************************************************)
RingInv ==
  /\ TypeOK /\ RingOrder /\ RingFresh /\ RecordIndex /\ Ahead /\ BucketEnd
  /\ RealLengths /\ SlotOffsets
(***************************************************************************)
(* The phases of the two threads: neither works before the capture has     *)
(* begun, process_stop is the allocating thread's farewell, and no bucket  *)
(* is marked last before the recording thread is done.                     *)
(***************************************************************************)
ThreadPhases ==
  /\ apc = "start" => ~process_start
  /\ apc \in {"top", "fill", "commit"} => process_start
  /\ ppc \notin {"start", "done"} => process_start
  /\ process_stop => apc = "done"
  /\ ppc # "done" => \A b \in Buckets : ~last[b]

=============================================================================
