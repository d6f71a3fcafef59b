---------------------------- MODULE DiskWriters ----------------------------
(***************************************************************************)
(* The parallel writer system: num_writers processes of application_ixgbe/ *)
(* todisk.c copy the buckets to files while the driver (BucketFeed) goes   *)
(* on filling them.  The driver never waits for a writer; a writer that    *)
(* finds its next bucket already full declares a stall and stops everyone. *)
(*                                                                         *)
(* Bucket contents are modelled by generations: the driver's g-th bucket   *)
(* (from 0) is generation g and must end up in file g.                     *)
(***************************************************************************)
EXTENDS BucketFeed

CONSTANTS
  num_writers,
  max_blocks,       \* files a writer may write
  DataBlocks,       \* 31: data blocks written after the length block
  EndLimit,         \* 40: polls before a writer looks at the stop flag
  MaxGen,           \* bound on the driver's buckets
  OpenMayFail,      \* may open() of an output file fail?
  PromptDriver,     \* do the driver's threads exit within EndLimit polls?
  EarlyRead         \* may a writer see a bucket before its last rows arrived?

NUM_BUCKETS == END_1G - START_1G + 1
Writers     == 0 .. num_writers - 1
Files       == 0 .. MaxGen + NUM_BUCKETS + num_writers

(* read_disk_table refuses other values. *)
ASSUME WriterAssumption ==
  /\ num_writers \in Nat \ {0} /\ num_writers + 2 <= NUM_BUCKETS
  /\ max_blocks \in Nat \ {0}
  /\ DataBlocks \in Nat \ {0} /\ EndLimit \in Nat /\ MaxGen \in Nat
  /\ OpenMayFail \in BOOLEAN /\ PromptDriver \in BOOLEAN /\ EarlyRead \in BOOLEAN

VARIABLES
  pc,              \* where each writer is
  cur,             \* its bucket
  file_count,      \* its file
  end_cnt,         \* polls of this bucket, up to EndLimit + 1
  delay_stop,
  stalled,         \* its own stall flag
  seen_last,       \* its copy of the bucket's last mark
  blocks_written,
  block,           \* data blocks written to the current file
  bucket_stalled,  \* the stalled field of the bucket headers
  disk,            \* the files
  agen, pgen,      \* history: generations handed out, and recorded, so far
  asked,           \* history: the stop flag was raised by ./stop, not by a stall
  late,            \* history: some writer found its bucket waiting
  overrun          \* history: the driver reused a bucket not yet on disk

writerVars == <<pc, cur, file_count, end_cnt, delay_stop, stalled, seen_last,
                blocks_written, block, bucket_stalled, disk, late>>
vars == <<feedVars, writerVars, agen, pgen, asked, overrun>>

NoFile == [there |-> FALSE, intact |-> TRUE, whole |-> FALSE, num |-> 0,
           last |-> FALSE, stalled |-> FALSE]

Init ==
  /\ FeedInit
  /\ pc = [w \in Writers |-> "again"]
  /\ cur = [w \in Writers |-> START_1G + w]
  /\ file_count = [w \in Writers |-> w]
  /\ end_cnt = [w \in Writers |-> 0]
  /\ delay_stop = [w \in Writers |-> 0]
  /\ stalled = [w \in Writers |-> FALSE]
  /\ seen_last = [w \in Writers |-> FALSE]
  /\ blocks_written = [w \in Writers |-> 0]
  /\ block = [w \in Writers |-> 0]
  /\ bucket_stalled = [b \in Buckets |-> FALSE]
  /\ disk = [f \in Files |-> NoFile]
  /\ agen = 0 /\ pgen = 0
  /\ asked = FALSE /\ late = FALSE /\ overrun = FALSE

-----------------------------------------------------------------------------
(***************************************************************************)
(* The driver and the user.                                                *)
(***************************************************************************)
DriverStep ==
  /\ \/ Begin \/ Store \/ (\E n \in BucketSizes : Announce(n))
     \/ AllocDone \/ Finish \/ MarkLast \/ UserStart
  /\ UNCHANGED <<writerVars, agen, pgen, asked, overrun>>

UserStops ==
  /\ UserStop
  /\ asked' = TRUE
  /\ UNCHANGED <<writerVars, agen, pgen, overrun>>

(* The driver starts to reuse the bucket of generation agen + 1 - NUM_BUCKETS. *)
DriverAdvance ==
  /\ agen < MaxGen
  /\ Advance
  /\ agen' = agen + 1
  /\ overrun' = (overrun \/ (agen' >= NUM_BUCKETS /\ ~disk[agen' - NUM_BUCKETS].whole))
  /\ UNCHANGED <<writerVars, pgen, asked>>

DriverComplete ==
  /\ Complete
  /\ pgen' = pgen + 1
  /\ UNCHANGED <<writerVars, agen, asked, overrun>>

-----------------------------------------------------------------------------
(***************************************************************************)
(* One writer, main() of todisk.c from the loop on.                        *)
(***************************************************************************)
Goto(w, l) == pc' = [pc EXCEPT ![w] = l]

(* Three more turns once the stop flag is seen. *)
GivesUp(w) == user_stop /\ delay_stop[w] > 2

TimedOutNever(w) == FALSE

(* Enough polls of an empty bucket, and the stop flag is up. *)
TimedOut(w) == user_stop /\ end_cnt'[w] > EndLimit

(* Found waiting at the first look, and no stop seen yet. *)
FellBehind(w) == end_cnt[w] = 0 /\ delay_stop[w] = 0

MarkForgotten(w) == bucket_stalled

Mark(w) == [bucket_stalled EXCEPT ![cur[w]] = TRUE]

NextCur(c) == START_1G + ((c - START_1G + num_writers) % NUM_BUCKETS)

ClearedNot(w) == num_captured

Cleared(w) == [num_captured EXCEPT ![cur[w]] = 0]

(* again0. *)
Again(w) ==
  /\ pc[w] = "again"
  /\ delay_stop' = [delay_stop EXCEPT ![w] = @ + (IF user_stop THEN 1 ELSE 0)]
  /\ end_cnt' = [end_cnt EXCEPT ![w] = 0]
  /\ Goto(w, IF GivesUp(w) THEN "done" ELSE "poll")
  /\ UNCHANGED <<feedVars, cur, file_count, stalled, seen_last, blocks_written,
                 block, bucket_stalled, disk, agen, pgen, late, asked, overrun>>

(***************************************************************************)
(* The bucket is still empty: sleep and count; after EndLimit polls look   *)
(* at the stop flag.  A PromptDriver has exited by the time a poll count   *)
(* that was still running at the stop gets there.                          *)
(***************************************************************************)
PollEmpty(w) ==
  /\ pc[w] = "poll" /\ num_captured[cur[w]] = 0
  /\ end_cnt' = [end_cnt EXCEPT ![w] =
       IF @ > EndLimit \/ (@ = EndLimit /\ PromptDriver /\ user_stop /\ ~pdone)
       THEN @ ELSE @ + 1]
  /\ Goto(w, IF TimedOut(w) THEN "again" ELSE "poll")
  /\ UNCHANGED <<feedVars, cur, file_count, delay_stop, stalled, seen_last,
                 blocks_written, block, bucket_stalled, disk, agen, pgen, late,
                 asked, overrun>>

(***************************************************************************)
(* The bucket is there; found at once, the writer has fallen behind.       *)
(* Without EarlyRead the poll that sees a new announcement comes after the *)
(* bucket's last packet.                                                   *)
(***************************************************************************)
Found(w) ==
  /\ pc[w] = "poll" /\ num_captured[cur[w]] # 0
  /\ EarlyRead \/ pdone \/ cur[w] # pcur \/ max_row = 0
  /\ IF FellBehind(w)
     THEN /\ user_stop' = TRUE
          /\ bucket_stalled' = Mark(w)
          /\ stalled' = [stalled EXCEPT ![w] = TRUE]
     ELSE UNCHANGED <<user_stop, bucket_stalled, stalled>>
  /\ late' = (late \/ end_cnt[w] = 0)
  /\ Goto(w, "open")
  /\ UNCHANGED <<user_start, process_start, adone, pdone, acur, pcur, max_row,
                 cur_partial, num_captured, last, cur, file_count, end_cnt,
                 delay_stop, seen_last, blocks_written, block, disk, agen, pgen,
                 asked, overrun>>

(* Memory holds generation g up to its n-th packet. *)
HoldsLengths(g, n) ==
  /\ pgen > g \/ (pgen = g /\ n <= cur_partial)
  /\ pgen < g + NUM_BUCKETS \/ (pgen = g + NUM_BUCKETS /\ cur_partial = 0)
HoldsData(g, n) ==
  /\ pgen > g \/ (pgen = g /\ n <= cur_partial)
  /\ agen < g + NUM_BUCKETS

OpenFails(w) ==
  /\ OpenMayFail /\ pc[w] = "open"
  /\ Goto(w, "done")
  /\ UNCHANGED <<feedVars, cur, file_count, end_cnt, delay_stop, stalled,
                 seen_last, blocks_written, block, bucket_stalled, disk, agen,
                 pgen, late, asked, overrun>>

(* Open the file and write the header with the length table. *)
WriteLengths(w) ==
  /\ pc[w] = "open"
  /\ LET n == num_captured[cur[w]] IN
     disk' = [disk EXCEPT ![file_count[w]] =
                [there |-> TRUE, intact |-> HoldsLengths(file_count[w], n),
                 whole |-> FALSE, num |-> n, last |-> last[cur[w]],
                 stalled |-> bucket_stalled[cur[w]]]]
  /\ Goto(w, "release")
  /\ UNCHANGED <<feedVars, cur, file_count, end_cnt, delay_stop, stalled,
                 seen_last, blocks_written, block, bucket_stalled, agen, pgen,
                 late, asked, overrun>>

(* last is read and num_captured cleared before any data is copied. *)
Release(w) ==
  /\ pc[w] = "release"
  /\ seen_last' = [seen_last EXCEPT ![w] = last[cur[w]]]
  /\ num_captured' = Cleared(w)
  /\ block' = [block EXCEPT ![w] = 0]
  /\ Goto(w, "data")
  /\ UNCHANGED <<user_start, user_stop, process_start, adone, pdone, acur, pcur,
                 max_row, cur_partial, last, cur, file_count, end_cnt,
                 delay_stop, stalled, blocks_written, bucket_stalled, disk, agen,
                 pgen, late, asked, overrun>>

WriteData(w) ==
  /\ pc[w] = "data" /\ block[w] < DataBlocks
  /\ disk' = [disk EXCEPT ![file_count[w]].intact =
                @ /\ HoldsData(file_count[w], disk[file_count[w]].num),
              ![file_count[w]].whole = block[w] + 1 = DataBlocks]
  /\ block' = [block EXCEPT ![w] = @ + 1]
  /\ UNCHANGED <<feedVars, pc, cur, file_count, end_cnt, delay_stop, stalled,
                 seen_last, blocks_written, bucket_stalled, agen, pgen, late,
                 asked, overrun>>

(* File closed: stop here, or go on with the bucket num_writers further on. *)
NextFile(w) ==
  /\ pc[w] = "data" /\ block[w] = DataBlocks
  /\ IF seen_last[w] \/ stalled[w]
     THEN Goto(w, "done") /\ UNCHANGED <<blocks_written, file_count, cur>>
     ELSE /\ blocks_written' = [blocks_written EXCEPT ![w] = @ + 1]
          /\ IF blocks_written'[w] = max_blocks
             THEN Goto(w, "done") /\ UNCHANGED <<file_count, cur>>
             ELSE /\ Goto(w, "again")
                  /\ file_count' = [file_count EXCEPT ![w] = @ + num_writers]
                  /\ cur' = [cur EXCEPT ![w] = NextCur(@)]
  /\ UNCHANGED <<feedVars, end_cnt, delay_stop, stalled, seen_last, block,
                 bucket_stalled, disk, agen, pgen, late, asked, overrun>>

Writer(w) ==
  \/ Again(w) \/ PollEmpty(w) \/ Found(w) \/ OpenFails(w) \/ WriteLengths(w)
  \/ Release(w) \/ WriteData(w) \/ NextFile(w)

AllDone == \A w \in Writers : pc[w] = "done"

(* The driver may go on recording into buckets no one reads any more. *)
Next ==
  \/ DriverStep \/ UserStops \/ DriverAdvance \/ DriverComplete
  \/ \E w \in Writers : Writer(w)

Spec == Init /\ [][Next]_vars

FairSpec ==
  /\ Spec
  /\ WF_vars((AllocDone \/ Finish \/ MarkLast) /\ UNCHANGED <<writerVars, agen, pgen, asked, overrun>>)
  /\ \A w \in Writers : WF_vars(Writer(w))
-----------------------------------------------------------------------------
(***************************************************************************)
(* Properties.                                                             *)
(***************************************************************************)

OnDisk(g) == disk[g].whole /\ disk[g].intact

(* A generation with at least one recorded packet. *)
Recorded(g) == g < pgen \/ (g = pgen /\ cur_partial > 0)

AtLimit == \E w \in Writers : blocks_written[w] = max_blocks

(***************************************************************************)
(* Nothing is lost by writers that keep up: if no writer ever found its    *)
(* bucket already waiting and the driver never reused an unsaved bucket,   *)
(* then after the stop every recorded generation is in its own file, whole *)
(* and untorn, the last, partly filled one included, and there is no other *)
(* file.                                                                   *)
(***************************************************************************)
NothingLost ==
  AllDone /\ pdone /\ ~late /\ ~overrun /\ ~AtLimit =>
    \A f \in Files : IF Recorded(f) THEN OnDisk(f) ELSE ~disk[f].there

(***************************************************************************)
(* "parallel writer system" can detect "stalling": when a full bucket is   *)
(* missing from disk or torn there, and nobody issued ./stop, some file    *)
(* carries the stalled mark (or a writer had written its max_blocks        *)
(* files).  After ./stop a writer does not look for stalls any more.       *)
(***************************************************************************)
LossIsMarked ==
  AllDone /\ ~asked /\ (\E g \in 0 .. pgen - 1 : ~OnDisk(g)) =>
    AtLimit \/ \E f \in Files : disk[f].stalled

(***************************************************************************)
(* Both: writers that keep up lose nothing, and others mark what is lost.  *)
(***************************************************************************)
LossIsKnown ==
  /\ NothingLost
  /\ LossIsMarked

(* The driver has announced generation g. *)
Announced(g) ==
  \/ agen > g
  \/ agen = g /\ pgen = g /\ max_row # 0
  \/ pdone /\ Recorded(g)

(* An announced bucket waits for writer w. *)
Behind(w) ==
  pc[w] \in {"again", "poll", "open", "release"} /\ Announced(file_count[w])

(***************************************************************************)
(* A stall is declared only when writing cannot keep up with the capture:  *)
(* some writer has a bucket waiting that it has not copied yet.            *)
(***************************************************************************)
StallIsReal ==
  [][(\E w \in Writers : ~stalled[w] /\ stalled'[w]) => \E v \in Writers : Behind(v)]_vars

(***************************************************************************)
(* Every file's header counts packets that its length table and its data   *)
(* blocks really hold, unless the driver reused the bucket.                *)
(***************************************************************************)
FileHoldsItsPackets ==
  ~overrun /\ ~late => \A f \in Files : disk[f].there => disk[f].intact
=============================================================================
