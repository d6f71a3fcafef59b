----------------------------- MODULE BucketFeed -----------------------------
(***************************************************************************)
(* What the driver promises the programs that read the buckets: the ring   *)
(* of descriptors is gone, a bucket is filled packet by packet, announced  *)
(* through its num_captured, and the last one marked.  CaptureRing         *)
(* implements this specification.                                          *)
(***************************************************************************)
EXTENDS Integers

CONSTANTS
  START_1G, END_1G,  \* first and last bucket
  BucketSizes        \* how many packets a full bucket may hold

Buckets == START_1G .. END_1G

ASSUME BucketAssumption ==
  /\ START_1G \in Nat /\ END_1G \in Nat /\ START_1G < END_1G
  /\ BucketSizes \subseteq Nat \ {0}

VARIABLES
  user_start, user_stop,  \* the shared page
  process_start,          \* the capture has begun
  adone,                  \* nlsim_alloc_thread has returned
  pdone,                  \* nlsim_process_thread has recorded its last packet
  acur,                   \* the bucket being handed to the NIC
  pcur,                   \* the bucket being recorded
  max_row,                \* its size once that is known, else 0
  cur_partial,            \* packets of it recorded so far
  num_captured, last      \* headers of the buckets

feedVars == <<user_start, user_stop, process_start, adone, pdone, acur, pcur,
              max_row, cur_partial, num_captured, last>>

NextBucket(b) == IF b = END_1G THEN START_1G ELSE b + 1

FeedInit ==
  /\ user_start = FALSE /\ user_stop = FALSE /\ process_start = FALSE
  /\ adone = FALSE /\ pdone = FALSE
  /\ acur = START_1G /\ pcur = START_1G /\ max_row = 0 /\ cur_partial = 0
  /\ num_captured = [b \in Buckets |-> 0]
  /\ last = [b \in Buckets |-> FALSE]

UserStart ==
  /\ ~user_start
  /\ user_start' = TRUE
  /\ UNCHANGED <<user_stop, process_start, adone, pdone, acur, pcur, max_row,
                 cur_partial, num_captured, last>>

UserStop ==
  /\ ~user_stop
  /\ user_stop' = TRUE
  /\ UNCHANGED <<user_start, process_start, adone, pdone, acur, pcur, max_row,
                 cur_partial, num_captured, last>>

Begin ==
  /\ user_start /\ ~process_start /\ ~adone
  /\ process_start' = TRUE
  /\ UNCHANGED <<user_start, user_stop, adone, pdone, acur, pcur, max_row,
                 cur_partial, num_captured, last>>

(* A packet of the current bucket is recorded. *)
Store ==
  /\ process_start /\ ~pdone
  /\ IF max_row = 0 THEN \E n \in BucketSizes : cur_partial + 1 < n
                    ELSE cur_partial < max_row
  /\ cur_partial' = cur_partial + 1
  /\ UNCHANGED <<user_start, user_stop, process_start, adone, pdone, acur, pcur,
                 max_row, num_captured, last>>

(***************************************************************************)
(* While it hands out the last row the driver announces the bucket, once   *)
(* for every slot of that row that passes BYTE_LIMIT.  Packets of the last *)
(* rows are still to come.                                                 *)
(***************************************************************************)
Announce(n) ==
  /\ process_start /\ ~adone /\ acur = pcur
  /\ \/ max_row = 0 /\ n \in BucketSizes /\ cur_partial < n
     \/ max_row = n
  /\ max_row' = n
  /\ num_captured' = [num_captured EXCEPT ![acur] = n]
  /\ UNCHANGED <<user_start, user_stop, process_start, adone, pdone, acur, pcur,
                 cur_partial, last>>

(* The last row is handed out; the next packets go to the next bucket. *)
Advance ==
  /\ process_start /\ ~adone /\ acur = pcur /\ max_row # 0
  /\ acur' = NextBucket(acur)
  /\ UNCHANGED <<user_start, user_stop, process_start, adone, pdone, pcur,
                 max_row, cur_partial, num_captured, last>>

(* The last packet of a bucket has been recorded. *)
Complete ==
  /\ ~pdone /\ acur # pcur /\ max_row # 0 /\ cur_partial = max_row
  /\ pcur' = NextBucket(pcur)
  /\ max_row' = 0 /\ cur_partial' = 0
  /\ UNCHANGED <<user_start, user_stop, process_start, adone, pdone, acur,
                 num_captured, last>>

AllocDone ==
  /\ user_stop /\ ~adone
  /\ adone' = TRUE
  /\ UNCHANGED <<user_start, user_stop, process_start, pdone, acur, pcur,
                 max_row, cur_partial, num_captured, last>>

FinalCountTooMany == cur_partial + 1

(* What the process thread stores in num_captured on its way out. *)
FinalCount == cur_partial

(* The bucket being recorded when the capture ends: first its count ... *)
Finish ==
  /\ adone /\ ~pdone
  /\ pdone' = TRUE
  /\ num_captured' = IF process_start
                     THEN [num_captured EXCEPT ![pcur] = FinalCount]
                     ELSE num_captured
  /\ UNCHANGED <<user_start, user_stop, process_start, adone, acur, pcur,
                 max_row, cur_partial, last>>

(* ... then its last mark. *)
MarkLast ==
  /\ pdone /\ process_start /\ ~last[pcur]
  /\ last' = [last EXCEPT ![pcur] = TRUE]
  /\ UNCHANGED <<user_start, user_stop, process_start, adone, pdone, acur, pcur,
                 max_row, cur_partial, num_captured>>

Driver ==
  \/ Begin \/ Store \/ (\E n \in BucketSizes : Announce(n)) \/ Advance
  \/ Complete \/ AllocDone \/ Finish \/ MarkLast

FeedNext == UserStart \/ UserStop \/ Driver

FeedSpec == FeedInit /\ [][FeedNext]_feedVars
=============================================================================
