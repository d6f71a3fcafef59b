---------------------------- MODULE CountDiscard ----------------------------
(***************************************************************************)
(* application_ixgbe/count_then_discard.c beside the driver (BucketFeed):  *)
(* one process that adds up the num_captured of the buckets and clears     *)
(* their headers, to measure the capture rate without disks.               *)
(***************************************************************************)
EXTENDS BucketFeed

CONSTANTS
  CdEndLimit,   \* 20: polls before the reader looks at the stop flag
  CdMaxGen,     \* bound on the driver's buckets
  CdEarlyRead   \* may a poll see a bucket before its last rows arrived?

ASSUME DiscardAssumption ==
  CdEndLimit \in Nat /\ CdMaxGen \in Nat /\ CdEarlyRead \in BOOLEAN

VARIABLES
  cd_pc, cd_cur, cd_end_cnt, cd_delay_stop, cd_driver_stop, cd_total_packets,
  cd_recorded,       \* history: packets the driver recorded
  cd_agen, cd_rgen,     \* history: buckets handed out, and discarded, so far
  cd_seen,           \* history: buckets discarded when the stop flag was first seen
  cd_lapped          \* history: the driver reused a bucket before it was discarded

cdReaderVars == <<cd_pc, cd_cur, cd_end_cnt, cd_delay_stop, cd_driver_stop, cd_total_packets, cd_rgen,
                cd_seen>>
cdVars == <<feedVars, cdReaderVars, cd_recorded, cd_agen, cd_lapped>>

CdInit ==
  /\ FeedInit
  /\ cd_pc = "again" /\ cd_cur = START_1G /\ cd_end_cnt = 0 /\ cd_delay_stop = 0
  /\ cd_driver_stop = FALSE /\ cd_total_packets = 0
  /\ cd_recorded = 0 /\ cd_agen = 0 /\ cd_rgen = 0 /\ cd_seen = 0
  /\ cd_lapped = FALSE

-----------------------------------------------------------------------------
CdDriverStep ==
  /\ \/ Begin \/ (\E n \in BucketSizes : Announce(n)) \/ Complete
     \/ AllocDone \/ Finish \/ MarkLast \/ UserStart \/ UserStop
  /\ UNCHANGED <<cdReaderVars, cd_recorded, cd_agen, cd_lapped>>

CdDriverStore ==
  /\ Store
  /\ cd_recorded' = cd_recorded + 1
  /\ UNCHANGED <<cdReaderVars, cd_agen, cd_lapped>>

CdDriverAdvance ==
  /\ cd_agen < CdMaxGen
  /\ Advance
  /\ cd_agen' = cd_agen + 1
  /\ cd_lapped' = (cd_lapped \/ cd_agen' - cd_rgen > END_1G - START_1G)
  /\ UNCHANGED <<cdReaderVars, cd_recorded>>

-----------------------------------------------------------------------------
CdGivesUpAtOnce == user_stop

(* Three more turns once the stop flag is seen. *)
CdGivesUp == user_stop /\ cd_delay_stop > 2

CdTimedOut == user_stop /\ cd_end_cnt' > CdEndLimit

(* The driver's threads are gone long before the reader has made them. *)
CdAgain ==
  /\ cd_pc = "again"
  /\ user_stop /\ cd_delay_stop > 2 => pdone
  /\ cd_seen' = IF user_stop /\ cd_delay_stop = 0 THEN cd_rgen ELSE cd_seen
  /\ cd_delay_stop' = cd_delay_stop + (IF user_stop THEN 1 ELSE 0)
  /\ cd_end_cnt' = 0
  /\ cd_pc' = IF CdGivesUp THEN "done" ELSE "poll"
  /\ UNCHANGED <<feedVars, cd_cur, cd_driver_stop, cd_total_packets, cd_recorded, cd_agen, cd_rgen,
                 cd_lapped>>

(* The driver's threads exit within the 2 seconds of EndLimit polls. *)
CdPollEmpty ==
  /\ cd_pc = "poll" /\ num_captured[cd_cur] = 0
  /\ cd_end_cnt' = IF cd_end_cnt > CdEndLimit \/ (cd_end_cnt = CdEndLimit /\ user_stop /\ ~pdone)
                THEN cd_end_cnt ELSE cd_end_cnt + 1
  /\ cd_pc' = IF CdTimedOut THEN "again" ELSE "poll"
  /\ UNCHANGED <<feedVars, cd_cur, cd_delay_stop, cd_driver_stop, cd_total_packets, cd_recorded,
                 cd_agen, cd_rgen, cd_seen, cd_lapped>>

(* packets = num_captured; it is read once more after the poll that saw it. *)
CdCount ==
  /\ cd_pc = "poll" /\ num_captured[cd_cur] # 0
  /\ CdEarlyRead \/ pdone \/ cd_cur # pcur \/ max_row = 0
  /\ cd_total_packets' = cd_total_packets + num_captured[cd_cur]
  /\ cd_pc' = "last"
  /\ UNCHANGED <<feedVars, cd_cur, cd_end_cnt, cd_delay_stop, cd_driver_stop, cd_recorded, cd_agen,
                 cd_rgen, cd_seen, cd_lapped>>

CdReadLast ==
  /\ cd_pc = "last"
  /\ cd_driver_stop' = last[cd_cur]
  /\ cd_pc' = "clear"
  /\ UNCHANGED <<feedVars, cd_cur, cd_end_cnt, cd_delay_stop, cd_total_packets, cd_recorded, cd_agen,
                 cd_rgen, cd_seen, cd_lapped>>

CdCleared == [num_captured EXCEPT ![cd_cur] = 0]

CdNextCur(b) == IF b + 1 > END_1G THEN START_1G ELSE b + 1

(* memset of the header, then the next bucket. *)
CdClear ==
  /\ cd_pc = "clear"
  /\ num_captured' = CdCleared
  /\ last' = [last EXCEPT ![cd_cur] = FALSE]
  /\ cd_cur' = CdNextCur(cd_cur)
  /\ cd_rgen' = cd_rgen + 1
  /\ cd_pc' = IF cd_driver_stop THEN "done" ELSE "again"
  /\ UNCHANGED <<user_start, user_stop, process_start, adone, pdone, acur, pcur,
                 max_row, cur_partial, cd_end_cnt, cd_delay_stop, cd_driver_stop,
                 cd_total_packets, cd_recorded, cd_agen, cd_seen, cd_lapped>>

CdReader == CdAgain \/ CdPollEmpty \/ CdCount \/ CdReadLast \/ CdClear

CdNext == CdDriverStep \/ CdDriverStore \/ CdDriverAdvance \/ CdReader

CdSpec == CdInit /\ [][CdNext]_cdVars

(* The capture threads leave after a stop; the reader is scheduled. *)
CdFairSpec ==
  /\ CdSpec
  /\ WF_cdVars((AllocDone \/ Finish \/ MarkLast) /\ CdDriverStep)
  /\ WF_cdVars(CdReader)
-----------------------------------------------------------------------------
(***************************************************************************)
(* The total that count_then_discard displays is the number of packets the *)
(* driver recorded, the partly filled last bucket included, if the driver  *)
(* never lapped it and at most three buckets were left to count when it    *)
(* saw the stop.                                                           *)
(***************************************************************************)
CountIsExact ==
  cd_pc = "done" /\ pdone /\ ~cd_lapped /\ (cd_delay_stop = 0 \/ cd_agen + 1 - cd_seen <= 3) =>
    cd_total_packets = cd_recorded

(***************************************************************************)
(* It never displays more packets than were recorded.                      *)
(***************************************************************************)
NeverOvercounts == ~cd_lapped => cd_total_packets <= cd_recorded

\* Both: the total is exact when it can be and never too large.
CountIsRight ==
  /\ CountIsExact
  /\ NeverOvercounts
=============================================================================
