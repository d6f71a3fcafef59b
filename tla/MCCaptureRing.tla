--------------------------- MODULE MCCaptureRing ---------------------------
(* Small rings for TLC; the .cfg files give the sizes. *)
EXTENDS CaptureRing

(* One slot sees packets of both lengths, so buckets of 2 and of 3 rows. *)
MixedLens == [s \in Slots |-> IF s = 1 THEN {1, 2} ELSE {1}]

(* Every packet has the greatest length. *)
FullLens == [s \in Slots |-> {RX_BUF_SIZE}]
=============================================================================
