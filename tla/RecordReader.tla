---------------------------- MODULE RecordReader ----------------------------
(***************************************************************************)
(* The programs that read a recording back from the disks: dump_packet,    *)
(* to_libpcap and block2libpcap extract packets, count_recorded counts     *)
(* them, block_info looks at one file.  They share their loops; the tools  *)
(* differ in where they begin and what they print.                         *)
(*                                                                         *)
(* A file is one bucket as a disk writer left it: the lengths of its       *)
(* packets and the end marks of its header.  File f lies on the disk of    *)
(* writer f % num_writers.  The disk writers reuse the names of earlier    *)
(* recordings and remove nothing, so the files of an older, longer one may *)
(* follow.                                                                 *)
(***************************************************************************)
EXTENDS Integers, Sequences, SequencesExt

CONSTANTS
  num_writers,
  num_rx_slots,    \* of the file headers
  BYTES_PER_SLOT,  \* the driver's distance between the regions of two slots
  SlotStride,      \* 240 * 1024, the readers'
  Recordings,      \* what may be on the disks: sequences of files
  MaxArg           \* bound on the command line's numbers

ASSUME ReaderAssumption ==
  /\ num_writers \in Nat \ {0} /\ num_rx_slots \in Nat \ {0}
  /\ BYTES_PER_SLOT \in Nat /\ SlotStride \in Nat /\ MaxArg \in Nat

VARIABLES
  files,           \* the recording, and what an older one left behind it
  pc,              \* next step, or how the tool ended
  asked,           \* the command line
  writer_num, file_count,
  start, count,    \* packets to skip, packets wanted
  offs,            \* packets in the files before this one
  total_packets,
  cur,             \* the file in memory
  cur_row, cur_partial, local_len, processed,
  out              \* the packets printed or written

vars == <<files, pc, asked, writer_num, file_count, start, count, offs,
          total_packets, cur, cur_row, cur_partial, local_len, processed, out>>

num_captured(f) == Len(files[f + 1].len)

(* The length of a packet by row and slot of file f. *)
len(f, row, slot) == files[f + 1].len[row * num_rx_slots + slot + 1]

LenSumNoPartial(f, row, partial, slot) ==
  FoldLeft(+, 0, [i \in 1 .. row |-> len(f, i - 1, slot)])

(* Lengths of the packets of a slot before packet (row, partial). *)
LenSum(f, row, partial, slot) ==
  FoldLeft(+, 0, [i \in 1 .. (IF slot < partial THEN row + 1 ELSE row) |-> len(f, i - 1, slot)])

(* The file is found if the reader looks on the disk of its writer. *)
CanOpen == file_count < Len(files) /\ writer_num = file_count % num_writers

WriterOf(f) == f % num_writers

NextWriter == (writer_num + 1) % num_writers

(* What is left to skip after a file has been read to its end. *)
RestToSkip == start + processed - num_captured(cur)

(* All packets of the file have been seen. *)
AtEnd ==
  /\ cur_row = num_captured(cur) \div num_rx_slots
  /\ cur_partial = num_captured(cur) % num_rx_slots

InitWith(recording) ==
  /\ files = recording
  /\ pc = "main"
  /\ asked = [tool |-> "", first |-> 0, count |-> 0]
  /\ writer_num = 0 /\ file_count = 0 /\ start = 0 /\ count = 0
  /\ offs = 0 /\ total_packets = 0 /\ cur = 0
  /\ cur_row = 0 /\ cur_partial = 0
  /\ local_len = [s \in 0 .. num_rx_slots - 1 |-> 0]
  /\ processed = 0 /\ out = <<>>

Init == \E r \in Recordings : InitWith(r)

(* dump_packet <start> <count>, and to_libpcap. *)
DumpPacket(s, n) ==
  /\ pc = "main"
  /\ asked' = [tool |-> "dump_packet", first |-> s, count |-> n]
  /\ start' = s /\ count' = n
  /\ pc' = "open"
  /\ UNCHANGED <<files, writer_num, file_count, offs, total_packets, cur, cur_row,
                 cur_partial, local_len, processed, out>>

(* block2libpcap <start_block> <count>. *)
Block2Libpcap(f, n) ==
  /\ pc = "main"
  /\ asked' = [tool |-> "block2libpcap", first |-> f, count |-> n]
  /\ file_count' = f /\ count' = n
  /\ writer_num' = WriterOf(f)
  /\ pc' = "open"
  /\ UNCHANGED <<files, start, offs, total_packets, cur, cur_row, cur_partial,
                 local_len, processed, out>>

CountRecorded ==
  /\ pc = "main"
  /\ asked' = [tool |-> "count_recorded", first |-> 0, count |-> 0]
  /\ pc' = "count"
  /\ UNCHANGED <<files, writer_num, file_count, start, count, offs, total_packets,
                 cur, cur_row, cur_partial, local_len, processed, out>>

(* block_info <block_num>: everything at once, there is no loop. *)
BlockInfo(f) ==
  /\ pc = "main"
  /\ asked' = [tool |-> "block_info", first |-> f, count |-> 0]
  /\ file_count' = f /\ writer_num' = WriterOf(f)
  /\ IF f < Len(files)
     THEN total_packets' = num_captured(f) /\ pc' = "last"
     ELSE UNCHANGED total_packets /\ pc' = "missing"
  /\ UNCHANGED <<files, start, count, offs, cur, cur_row, cur_partial, local_len,
                 processed, out>>

-----------------------------------------------------------------------------
(* The next file does not exist, or not where the reader looks. *)
OpenFails ==
  /\ pc \in {"open", "count"} /\ ~CanOpen
  /\ pc' = "missing"
  /\ UNCHANGED <<files, asked, writer_num, file_count, start, count, offs,
                 total_packets, cur, cur_row, cur_partial, local_len, processed, out>>

(* The header of the next file; all of its packets are to be skipped. *)
Skip ==
  /\ pc = "open" /\ CanOpen
  /\ start >= num_captured(file_count)
  /\ writer_num' = NextWriter /\ file_count' = file_count + 1
  /\ total_packets' = total_packets + num_captured(file_count)
  /\ offs' = offs + num_captured(file_count)
  /\ start' = start - num_captured(file_count)
  /\ UNCHANGED <<files, pc, asked, count, cur, cur_row, cur_partial, local_len,
                 processed, out>>

(* The file is read into memory and dump_packet() called. *)
Enter ==
  /\ pc = "open" /\ CanOpen
  /\ start < num_captured(file_count)
  /\ writer_num' = NextWriter /\ file_count' = file_count + 1
  /\ total_packets' = total_packets + num_captured(file_count)
  /\ cur' = file_count
  /\ cur_row' = start \div num_rx_slots /\ cur_partial' = start % num_rx_slots
  /\ local_len' = [s \in 0 .. num_rx_slots - 1 |->
                     LenSum(file_count, cur_row', cur_partial', s)]
  /\ processed' = 0
  /\ pc' = "dump"
  /\ UNCHANGED <<files, asked, start, count, offs, out>>

(* One turn of the loop of dump_packet(). *)
DumpOne ==
  /\ pc = "dump" /\ ~AtEnd /\ processed # count
  /\ LET l == len(cur, cur_row, cur_partial) IN
     /\ out' = Append(out, [number |-> offs + cur_row * num_rx_slots + cur_partial,
                            at |-> SlotStride * cur_partial + local_len[cur_partial],
                            len |-> l])
     /\ local_len' = [local_len EXCEPT ![cur_partial] = @ + l]
  /\ processed' = processed + 1
  /\ IF cur_partial + 1 = num_rx_slots
     THEN cur_partial' = 0 /\ cur_row' = cur_row + 1
     ELSE cur_partial' = cur_partial + 1 /\ cur_row' = cur_row
  /\ UNCHANGED <<files, pc, asked, writer_num, file_count, start, count, offs,
                 total_packets, cur>>

(* dump_packet() has returned. *)
Leave ==
  /\ pc = "dump" /\ (AtEnd \/ processed = count)
  /\ IF processed = 0 \/ count = processed
     THEN /\ pc' = IF processed = 0 THEN "error" ELSE "done"
          /\ UNCHANGED <<offs, start, count, processed>>
     ELSE /\ offs' = offs + num_captured(cur)
          /\ start' = RestToSkip
          /\ count' = count - processed
          /\ processed' = 0
          /\ pc' = IF files[cur + 1].stalled THEN "stalled"
                   ELSE IF files[cur + 1].last THEN "last" ELSE "open"
  /\ UNCHANGED <<files, asked, writer_num, file_count, total_packets, cur, cur_row,
                 cur_partial, local_len, out>>

(* One turn of count_recorded's loop. *)
CountOne ==
  /\ pc = "count" /\ CanOpen
  /\ writer_num' = NextWriter /\ file_count' = file_count + 1
  /\ total_packets' = total_packets + num_captured(file_count)
  /\ pc' = IF files[file_count + 1].stalled THEN "stalled"
           ELSE IF files[file_count + 1].last THEN "last" ELSE "count"
  /\ UNCHANGED <<files, asked, start, count, offs, cur, cur_row, cur_partial,
                 local_len, processed, out>>

Ended == pc \in {"missing", "done", "error", "stalled", "last"}

Finished == Ended /\ UNCHANGED vars

Next ==
  \/ \E s, n \in 0 .. MaxArg : DumpPacket(s, n) \/ Block2Libpcap(s, n)
  \/ CountRecorded
  \/ \E f \in 0 .. MaxArg : BlockInfo(f)
  \/ OpenFails \/ Skip \/ Enter \/ DumpOne \/ Leave \/ CountOne \/ Finished

Spec == Init /\ [][Next]_vars
-----------------------------------------------------------------------------
(***************************************************************************)
(* Properties.                                                             *)
(***************************************************************************)

(* Where nlsim_alloc_thread had the NIC put packet k of file f. *)
Placement(f, k) ==
  LET slot == k % num_rx_slots
      before == {i \in 0 .. k - 1 : i % num_rx_slots = slot}
  IN  [at  |-> BYTES_PER_SLOT * slot + FoldSet(LAMBDA i, sum : sum + files[f + 1].len[i + 1], 0, before),
       len |-> files[f + 1].len[k + 1]]

(* The recording ends with its first marked file. *)
Recorded == SelectInSeq(files, LAMBDA f : f.last \/ f.stalled)

(* All its packets from file first on, in the order of their arrival. *)
PacketsFrom(first) ==
  FoldLeft(\o, <<>>, [i \in 1 .. Recorded - first |->
             [k \in 1 .. num_captured(first + i - 1) |-> Placement(first + i - 1, k - 1)]])

(* The packets the command line asks for, numbered from the first file read. *)
Wanted ==
  LET block == asked.tool = "block2libpcap"
      all   == PacketsFrom(IF block THEN asked.first ELSE 0)
      from  == IF block THEN 0 ELSE asked.first
      size  == IF from + asked.count <= Len(all) THEN asked.count ELSE Len(all) - from
  IN  [i \in 1 .. (IF size < 0 THEN 0 ELSE size) |->
         [number |-> from + i - 1, at |-> all[from + i].at, len |-> all[from + i].len]]

(* The request begins in the recording, or nothing lies behind it. *)
Begins ==
  \/ Recorded = Len(files)
  \/ asked.first < IF asked.tool = "block2libpcap" THEN Recorded ELSE Len(PacketsFrom(0))

(***************************************************************************)
(* The extracting tools deliver exactly the packets asked for, in order,   *)
(* each from the place in its bucket where the driver had put it, up to    *)
(* the end of the recording and not into the files of an older one.  (A    *)
(* request that begins behind the end does read those: files are skipped   *)
(* without a look at their end marks.)                                     *)
(***************************************************************************)
ExtractsWhatWasAsked ==
  asked.tool \in {"dump_packet", "block2libpcap"} /\ Begins =>
    /\ IsPrefix(out, Wanted)
    /\ Ended => out = Wanted

(***************************************************************************)
(* A reader gives up for a missing file only behind the recording's end:   *)
(* it looks for every file on the disk its writer used.                    *)
(***************************************************************************)
FindsEveryFile == pc = "missing" => file_count >= Len(files)

(***************************************************************************)
(* count_recorded ends at the recording's end mark, whatever lies behind   *)
(* it, with the number of all recorded packets.                            *)
(***************************************************************************)
CountsEveryPacket ==
  asked.tool = "count_recorded" /\ Ended =>
    total_packets = Len(PacketsFrom(0)) /\ pc \in {"last", "stalled"}

\* The three about the readers: what was asked for is extracted, every file
\* of a recording is found, and all its packets are counted.
ReadsBack ==
  /\ ExtractsWhatWasAsked
  /\ FindsEveryFile
  /\ CountsEveryPacket
=============================================================================
