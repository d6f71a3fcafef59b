----------------------------- MODULE MCConsumers -----------------------------
(***************************************************************************)
(* The programs that empty the buckets, each beside the driver: two disk   *)
(* writers on four buckets, and count_then_discard.  `part` is the one     *)
(* that runs; the .cfg files choose the environment.                       *)
(***************************************************************************)
EXTENDS DiskWriters, CountDiscard

VARIABLE part

Sizes  == {2}
Sizes1 == {1}

ConsumersInit == part \in {"writers", "discard"} /\ Init /\ CdInit

\* What the driver and the programs share is in feedVars.
ConsumersNext ==
  /\ part' = part
  /\ \/ part = "writers" /\ Next /\ UNCHANGED <<cdReaderVars, cd_recorded, cd_agen, cd_lapped>>
     \/ part = "discard" /\ CdNext /\ UNCHANGED <<writerVars, agen, pgen, asked, overrun>>

ConsumersSpec == ConsumersInit /\ [][ConsumersNext]_<<part, vars, cdVars>>

\* The capture threads leave after a stop, and the programs are scheduled.
ConsumersFairSpec ==
  /\ ConsumersSpec
  /\ WF_feedVars((AllocDone \/ Finish \/ MarkLast) /\ part' = part)
  /\ \A w \in Writers : WF_vars(part = "writers" /\ Writer(w))
  /\ WF_cdVars(part = "discard" /\ CdReader)
-----------------------------------------------------------------------------
(***************************************************************************)
(* After ./stop, or after one writer's stall, every program that empties   *)
(* the buckets ends: all disk writers, and count_then_discard, whether or  *)
(* not the last mark is ever seen and whether or not files can be opened.  *)
(***************************************************************************)
StopEndsConsumers ==
  user_stop ~> IF part = "writers" THEN AllDone ELSE cd_pc = "done"
=============================================================================
