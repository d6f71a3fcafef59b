# A TLA+ model of the packet recorder

The recorder captures 10 Gbit/s Ethernet traffic into reserved memory and copies
it to disks. This directory models its concurrent parts, checks them with TLC on
small instances, and proves the invariants of the capture threads for all sizes
with TLAPS. `PROJECT.json` maps every definition to source lines and lists runs,
findings, hazards and theorems.

## The system

| part | source | state | operations |
|---|---|---|---|
| capture threads | `ixgbe-3.18.7/src/nlsim_pbm.c` | `next_to_clean`, `max_row`, `process_start`, `process_stop`, the descriptor ring, length tables and headers of the buckets | refill descriptors, record packets, switch buckets, stop |
| shared page | `nlsim_ixgbe.h`, `start.c`, `stop.c`, `status.c` | two magic words, start and stop flags | written by users, polled by threads and writers |
| disk writers | `application_ixgbe/todisk.c` | one process per disk, one file per bucket | poll, detect a stall, copy, release |
| memory reader | `count_then_discard.c` | a total | count and drop buckets |
| file readers | `dump_packet.c`, `to_libpcap.c`, `block2libpcap.c`, `count_recorded.c`, `block_info.c` | files | find, print, convert, count packets |
| mapping device | `map_user/map_nlsim.c` | - | map the buckets into processes (its read and write are not used by the recorder) |
| NIC driver | `ixgbe-3.18.7/src` (Intel's, with patches) | the adapter | bring ring 0 up and hand it to the capture threads; reset, close, remove |
| IRQ scripts | `arrange_irq/` | - | move interrupts off two cores |
| shell scripts | `init_capture`, `driver_ixgbe`, `start`, `stop`, `unload_ixgbe`, ... | - | the order in which all this is used |

Memory is a circle of 1-GB *buckets* `START_1G .. END_1G`. A bucket is divided
into one region per ring slot; a packet received in slot *s* is appended to
slot *s*'s region. The only index is the bucket's *length table*, one cell per
packet, so a packet is found by adding up the lengths before it in its slot. Two
kernel threads on two cores share all of this without a lock:

- `nlsim_alloc_thread` refills descriptors, with each slot's next address. When
  a slot passes `BYTE_LIMIT`, it announces the bucket (`max_row`,
  `num_captured`) and after that row goes on in the next bucket.
- `nlsim_process_thread` polls the DD bits, stores lengths, publishes
  `next_to_clean` once per 256 packets, and changes bucket when its count
  reaches `max_row`, which it then clears.

Writers and `count_then_discard` poll `num_captured` and clear it. `./start` and
`./stop` set flags in the shared page. Around this the Intel driver opens,
resets and closes the adapter whose ring 0 the threads use.

What is hard: unlocked interleavings of two threads, the NIC and the readers;
announcements made before the data is complete; a u16 index of a larger count;
stops at any moment; writers that are too slow; resets, failed opens and removal
beside running threads. Every hazard is listed in `PROJECT.json`.

## Modules

| module | models | composed of |
|---|---|---|
| `CaptureRing` | both capture threads, statement group by statement group, and the receive side of the NIC (external) | |
| `BucketFeed` | what the driver promises the programs that read the buckets | |
| `CaptureRingProofs` | the inductive invariant of `CaptureRing` and its consequences | `CaptureRing` |
| `CaptureRingRefinement` | proof that `CaptureRing` implements `BucketFeed` | both |
| `DiskWriters` | `num_writers` processes of `todisk.c` | `BucketFeed` |
| `CountDiscard` | `count_then_discard.c` | `BucketFeed` |
| `RecordReader` | the five programs that read recordings, over a set of recordings | |
| `AdapterLifecycle` | open, close, reinit, ring parameters and removal beside service task, timer and interrupts | |
| `CaptureSession` | loading, handing over ring 0, capture, stop, unloading, loading again | `AdapterLifecycle` |
| `MC*` | packet lengths, bucket sizes, recordings for TLC | |

How state and actions correspond to the code:

- **CaptureRing.** `apc` and `ppc` are the program counters of the two threads,
  `sup_*` and `cur_*` keep the names of their locals. `AllocCount` is the loop
  head that reads `next_to_clean` once, `AllocFill` one iteration of the fill
  loop, `AllocCommit` the tail write with the change of row or bucket.
  `ProcStore` is one packet, `ProcRowEnd` the test of `max_row` at the
  end of a row, `ProcBucket` the change of bucket. `NicReceive(l)` writes a packet of length *l* back to the head descriptor.
- **BucketFeed** keeps only the bucket headers, the record count and the two
  current buckets.
- **DiskWriters.** `pc[w]` walks through the main loop: `again`, `poll`, `open`,
  `release`, the data blocks, the next file. `disk` holds for each file whether
  it is there, whole, intact, and its marks. A *generation* is one filling of a
  bucket; `late` and `overrun` are histories.
- **RecordReader.** One state machine for the shared loops; a printed packet is
  its number, place and length.
- **AdapterLifecycle.** `state` is the set of `__IXGBE_*` bits, `on` what is
  enabled (receive queue, NAPI, interrupts, timer, queued work), `owned` what is
  allocated. `user` and `work` run the common `ixgbe_down`, `ixgbe_reset` and
  `ixgbe_up` steps; `timer` and `irq` test DOWN and schedule in two steps.

## Runs

Deadlock is checked unless the system really may stop (all processes ended) or
a bound ends the exploration; those configurations say `CHECK_DEADLOCK FALSE`.

| run | question | result |
|---|---|---|
| `ring` | safety of the two threads, and that they implement `BucketFeed` | holds |
| `ring_live` | threads end after a stop, packets are recorded, the NIC is not starved | holds |
| `ring_dry` | no packet is recorded that was not received, if the ring may run dry | violated |
| `writers` | writers that keep up lose nothing; stalls are real; without `./stop` a lost full bucket leaves a stalled mark | holds |
| `writers_live` | all writers end after a stop or a stall, also when `open` fails | holds |
| `writers_early` | files hold what their headers count, with early polls | violated |
| `readers` | the tools print and count exactly what was recorded | holds |
| `discard` | the total is exact, never too large, and the program ends | holds |
| `adapter` | closed is quiet, nothing survives removal, requests and resets end | holds |
| `adapter_race` | closed is quiet, if a close may meet a service reset | violated |
| `session` | in the documented order the threads only use a live ring, in sync | holds |
| `session_reset` | in sync, if the adapter is reset during a capture | violated |

### Environment assumptions

Most are constants of the modules. The violated runs show why they are needed;
where there is no such run the text says what happens without the assumption.

- `RingMayRunDry = FALSE` (`CaptureRing`): the NIC never uses up all its
  descriptors, that is, the capture threads keep up with the line.
- `EarlyRead = FALSE` (`DiskWriters`, `CountDiscard`): a poll that sees a new
  announcement comes after the bucket's last row has arrived. Writers poll every
  50 ms and `count_then_discard` every 100 ms, and the rest of a ring arrives in
  a few milliseconds at full rate, so it mostly holds then; nothing in the code
  guarantees it, and on a slow line the gap is long. `writers_early` shows the
  consequence for files. With `EarlyRead = TRUE` TLC also finds a false stall
  (`StallIsReal`, one writer, three buckets) and a total that is too large (`NeverOvercounts`).
- `PromptDriver = TRUE` (`DiskWriters`): the driver's threads exit within the 40
  polls a writer waits after a stop. `writers_live` does without it.
- `OpenMayFail = FALSE` in `writers`: a writer whose `open` fails exits, and its
  buckets are lost. `writers_live` allows it.
- `LossIsMarked` speaks of recordings that `./stop` did not end (`~asked`): a
  writer that has seen the stop no longer tests for stalls, and without the
  exclusion TLC finds lost full buckets and no mark.
- `SlotStride = BYTES_PER_SLOT` (`RecordReader`): the readers' literal 240 KB
  between slots is the distance the driver was built with. With another
  `RX_SLOT_BITS` it is not, and `ExtractsWhatWasAsked` fails.
- `Races = FALSE` (`AdapterLifecycle`): a reset by the service task and a close
  or removal do not overlap, as if the reset took the rtnl lock.
- `Documented = TRUE` (`CaptureSession`): set up, start, stop, remove, in the
  order of the repository's README; nothing is reconfigured during a capture.
  The `session` run also has `MaxEvents = 0`: no reset request arrives.

### Bounds

- `ring`: 4 slots, batches of 2, 3 rows, 2 buckets, lengths 1 and 2, `u16`
  as modulus 8. Small enough for every interleaving, large enough for the ring,
  the counter and the circle of buckets to wrap, for buckets of different row
  counts, and for a batch to end inside a row. Nothing is capped: all of the
  state is finite. `ring_live`: 8 slots, 3 buckets, one length.
- `writers*`: 1 or 2 writers, 3 or 4 buckets (`num_writers + 2`, the least
  that `read_disk_table` admits, or the next), `MaxGen` fillings of a bucket,
  so that the circle wraps; `EndLimit = 1` stands for the 40 polls.
- `discard*`: 4 buckets of 1 or 2 packets, 5 fillings, more than the three turns
  a stopped reader still makes.
- `readers*`: 2 disks, 2 slots, up to 3 files, partly filled last rows, every
  request up to argument 7, which is past the end of every recording.
- `adapter*`: up to 4 user requests and 3 reset-requesting interrupts.
- `session*`: up to 4 requests per load, 2 loads, 2 refills per capture.

### Fairness

Weak fairness only: the two kernel threads run on cores of their own
(`ring_live`, `session`); writers and readers are ordinary processes that poll
and sleep; a request inside the kernel is carried out; the service timer fires
while it is armed and a work item that is queued runs. In `writers_live` and
`discard` the only driver steps that are fair are the ones that follow a stop
(`AllocDone`, `Finish`, `MarkLast`). Packets, users and interrupts are never
fair.

## Proofs

`CaptureRingProofs` proves, for every number of slots, batch size, counter
modulus, row count, bucket count and packet length that satisfy
`RingAssumption`, and with `~RingMayRunDry`:

- `RingInvariant`: `Spec => []RingInv`;
- from it `TypeCorrect`, `NeverPhantom`, `RefillSafe`,
  `PlacedByRecordedLengths`, `HandshakeHolds`, `PacketsFitSlots`,
  `RecordsFitTable`.

The properties are not proved inductive one by one but as consequences of
`RingInv`, which says:

- `RingOrder`: around the ring come, in this order, the published
  `next_to_clean`, the next descriptor to record, the NIC's head, its tail and the
  next descriptor to refill, and a refill under way has room;
- `RingFresh`: every descriptor from the head to the last one refilled has its DD
  bit clear, and head meets tail only before anything was supplied;
- `RecordIndex`: the recording thread's count and its ring index agree, and a
  bucket ends only at a row;
- `Ahead`: the allocating thread is in the same bucket or at most one row into
  the next one, and by how many packets it is ahead;
- `BucketEnd`: `max_row` is a whole number of rows that fits the table and has
  not been passed;
- `RealLengths`: cells recorded in this pass, and lengths delivered, are those of
  real packets (at least `MIN_PACKET`);
- `SlotOffsets`: each slot's offset has grown with every row, and one beyond
  `BYTE_LIMIT` has ended the bucket.

The proof has one lemma per action (the steps that change nothing of interest
share one); the arithmetic of remainders is in lemmas of its own. The assumption
that the ring does not run dry is needed in `NicStep` only: a NIC that takes its
last descriptor makes head meet tail, and what the recording thread finds next
is an old DD bit. That the offset is the *sum* of the recorded lengths
(`FoundWhereRecorded`) is model-checked only.

`CaptureRingRefinement` proves `RingImplementsFeed`, by `RingInv` and
`ThreadPhases`: every step of the ring is a step of `BucketFeed` or leaves its
variables unchanged. What the writers and `count_then_discard` are checked
against is therefore what the threads do.

Only model-checked: all liveness (out of the prover's reach), `FoundWhereRecorded`,
the writers, readers, adapter and session.

## Findings

The violated runs are disagreements between code and its own comments or
documents; `PROJECT.json` quotes them. In short: a dry ring makes stale DD bits
look like packets; a bucket is announced before its last row has arrived, so
that an early reader copies cells that were never recorded, counts wrongly, or
later takes the bucket for a stall; a writer that saw the user's stop no longer
marks losses; the readers hard-code one of the four possible slot sizes; a reset
by the service task can undo a close; a reset during a capture leaves the
threads out of step with the NIC.

## Not modelled

- The rest of the Intel driver: see the components of `PROJECT.json`, each with
  its reason or plan.
- `map_nlsim.c`: its `mmap` keeps no state, and the programs use nothing else.
- `status.c` (prints), wording and layout of output, pcap headers.
- CPU store order: x86 keeps stores of one thread in order, and the model takes
  the stores of one action together, in program order between actions.
- Timing. Sleeps are steps; where the code relies on time there is one of the
  environment constants above.
- Two recordings on the same disks, where files of a longer, older one remain.

## Plan

Done: the core (capture threads, feed, writers, readers, life cycle, session)
and the proofs of the ring. To come, in this order; small pure parts share one
run, and a violated run gives way where a new part needs its place:

1. recorder: `ReadDiskTable` and `MakeIrqScript` as pure operators; old files of
   an earlier recording in `DiskWriters` and `RecordReader`; readers that run
   during a capture.
2. driver, data path: interrupts and NAPI, `TxRing`, `RxRing`, queue layout
   against reference definitions.
3. driver, control: `EepromAccess` with its semaphores, host interface commands,
   `PhyI2c`, link setup, flow control negotiation, filter tables (addresses,
   VLANs), flow director, mailbox with the SR-IOV functions, DCB credits, PTP,
   FCoE contexts, module parameters, other ethtool operations; probe with its
   unwinding, suspend and PCI error recovery as operations of
   `AdapterLifecycle`.
4. proofs: `LocksHeldOnce` and `ServiceOnce` of `AdapterLifecycle`,
   `NeverOvercounts` of `CountDiscard`, type correctness and `StallIsReal` of
   `DiskWriters`, mutual exclusion of the semaphores.
