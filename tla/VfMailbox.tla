----------------------------- MODULE VfMailbox ------------------------------
(***************************************************************************)
(* The mailbox between the physical function's driver and one virtual      *)
(* function: a buffer both sides write, a lock bit for each side (PFU,     *)
(* VFU), and status bits that tell each side of a message or of an         *)
(* acknowledgement.  The PF serves it from the interrupt handler           *)
(* (ixgbe_msg_task) and pings from the service task (ixgbe_ping_all_vfs);  *)
(* the two take no lock against each other, so the model lets them         *)
(* overlap.  The VF side follows the VF routines of the mailbox file.      *)
(*                                                                         *)
(* A message has a head (its type) and a body (its argument): the buffer   *)
(* is copied word by word.  A PF message that says "clear to send" has     *)
(* cts set.  Argument 0 is that of a message of one word.                  *)
(***************************************************************************)
EXTENDS Naturals

CONSTANTS
    VmRequests,  \* bound: requests the VF makes
    VmTimeouts,  \* bound: polls of the VF that end before a slow PF answers
    VmPings,     \* bound: pings for link changes
    VmDowns      \* bound: times the port goes down

ASSUME VmAssumption == {VmRequests, VmTimeouts, VmPings, VmDowns} \subseteq Nat

VARIABLES
    vm_buf,   \* the buffer: head and body
    vm_bits,  \* lock and status bits that are set
    vm_pf,    \* interrupt handler: pc, message read, message to write
    vm_ping,  \* service task: pc
    vm_vf,    \* VF: pc, message, ready, requests done, what it asks
    vm_cts,   \* clear_to_send
    vm_up,    \* the port's interrupts are on
    vm_done,  \* requests the PF carried out since it went up last
    vm_clash, \* the two PF threads were in the mailbox together
    vm_left   \* remaining timeouts, pings and downs

vmVars == <<vm_buf, vm_bits, vm_pf, vm_ping, vm_vf, vm_cts, vm_up, vm_done,
            vm_clash, vm_left>>

VmHead(kind, ack, cts) == [kind |-> kind, ack |-> ack, cts |-> cts]
VmNoHead == VmHead("none", "none", FALSE)
VmPingHead(cts) == VmHead("ping", "none", cts)

VmInit ==
    /\ vm_buf = [head |-> VmNoHead, body |-> 0]
    /\ vm_bits = {}
    /\ vm_pf = [pc |-> "idle", head |-> VmNoHead, body |-> 0, long |-> FALSE]
    /\ vm_ping = "idle"
    /\ vm_vf = [pc |-> "idle", head |-> VmNoHead, body |-> 0, ready |-> FALSE,
                n |-> 0, want |-> "none"]
    /\ vm_cts = FALSE
    /\ vm_up = TRUE
    /\ vm_done = {}
    /\ vm_clash = FALSE
    /\ vm_left = [timeouts |-> VmTimeouts, pings |-> VmPings, downs |-> VmDowns]

(***************************************************************************)
(* The bits.  A side gets the buffer unless the other one holds it.        *)
(***************************************************************************)
\* Mutant: the bit is written and not read back.
VmLocksBlind(other) == TRUE

VmLocks(other) == other \notin vm_bits

\* Mutant: the write that tells the VF does not give the buffer up.
VmReleasedNot(bits) == bits

VmReleased(bits) == bits \ {"pfu"}

VmPfAt(pc) == vm_pf.pc = pc
VmVfAt(pc) == vm_vf.pc = pc

VmClash == vm_clash' = (vm_clash \/ (vm_pf'.pc # "idle" /\ vm_ping' # "idle"))

(***************************************************************************)
(* Physical function, interrupt handler.                                   *)
(***************************************************************************)
VmPfGoto(pc) == vm_pf' = [vm_pf EXCEPT !.pc = pc]

VmPfKeep == UNCHANGED <<vm_ping, vm_vf, vm_up, vm_left>> /\ VmClash

\* ixgbe_check_for_msg_pf: the request bit is cleared before the read.
VmPfNotice ==
    /\ vm_up /\ VmPfAt("idle") /\ "req" \in vm_bits
    /\ vm_bits' = vm_bits \ {"req"}
    /\ VmPfGoto("rlock")
    /\ VmPfKeep /\ UNCHANGED <<vm_buf, vm_cts, vm_done>>

\* ixgbe_rcv_msg_from_vf goes on with the message buffer it did not fill when
\* the VF holds the mailbox: it then acts on whatever was on the stack.
VmPfReadLock ==
    /\ VmPfAt("rlock")
    /\ \/ /\ VmLocks("vfu")
          /\ vm_bits' = vm_bits \cup {"pfu"}
          /\ VmPfGoto("read1")
       \/ /\ ~VmLocks("vfu")
          /\ \E kind \in {"reset", "set", "none"}, ack \in {"none", "nack"} :
                vm_pf' = [vm_pf EXCEPT !.pc = "act", !.body = 0,
                                       !.head = VmHead(kind, ack, FALSE)]
          /\ UNCHANGED vm_bits
    /\ VmPfKeep /\ UNCHANGED <<vm_buf, vm_cts, vm_done>>

VmPfRead1 ==
    /\ VmPfAt("read1")
    /\ vm_pf' = [vm_pf EXCEPT !.pc = "read2", !.head = vm_buf.head]
    /\ VmPfKeep /\ UNCHANGED <<vm_buf, vm_bits, vm_cts, vm_done>>

\* The last word, the acknowledgement and the release.
VmPfRead2 ==
    /\ VmPfAt("read2")
    /\ vm_pf' = [vm_pf EXCEPT !.pc = "act", !.body = vm_buf.body]
    /\ vm_bits' = VmReleased(vm_bits) \cup {"pfack"}
    /\ VmPfKeep /\ UNCHANGED <<vm_buf, vm_cts, vm_done>>

VmReply(head, long) == vm_pf' = [vm_pf EXCEPT !.pc = "wlock", !.head = head, !.long = long]

\* ixgbe_rcv_msg_from_vf: a reset opens the mailbox for requests.
VmPfAct ==
    /\ VmPfAt("act")
    /\ LET m == vm_pf.head
       IN  \/ /\ m.ack # "none" /\ VmPfGoto("idle") /\ UNCHANGED <<vm_cts, vm_done>>
           \/ /\ m.ack = "none" /\ m.kind = "reset"
              /\ vm_cts' = TRUE
              /\ VmReply(VmHead("reset", "ack", FALSE), TRUE)
              /\ UNCHANGED vm_done
           \/ /\ m.ack = "none" /\ m.kind # "reset" /\ ~vm_cts
              /\ VmReply(VmHead(m.kind, "nack", m.cts), FALSE)
              /\ UNCHANGED <<vm_cts, vm_done>>
           \/ /\ m.ack = "none" /\ m.kind # "reset" /\ vm_cts
              /\ vm_done' = IF m.kind = "set" THEN vm_done \cup {vm_pf.body} ELSE vm_done
              /\ VmReply(VmHead(m.kind, IF m.kind = "set" THEN "ack" ELSE "nack", TRUE), TRUE)
              /\ UNCHANGED vm_cts
    /\ VmPfKeep /\ UNCHANGED <<vm_buf, vm_bits>>

\* ixgbe_write_mbx_pf drops the message when the VF holds the mailbox, and
\* forgets a request and an acknowledgement of the VF that came meanwhile.
VmPfWriteLock ==
    /\ VmPfAt("wlock")
    /\ \/ VmLocks("vfu") /\ VmPfGoto("write1")
          /\ vm_bits' = (vm_bits \ {"req", "ack"}) \cup {"pfu"}
       \/ ~VmLocks("vfu") /\ VmPfGoto("idle") /\ UNCHANGED vm_bits
    /\ VmPfKeep /\ UNCHANGED <<vm_buf, vm_cts, vm_done>>

VmPfWrite1 ==
    /\ VmPfAt("write1")
    /\ vm_buf' = [vm_buf EXCEPT !.head = vm_pf.head]
    /\ VmPfGoto("write2")
    /\ VmPfKeep /\ UNCHANGED <<vm_bits, vm_cts, vm_done>>

VmPfWrite2 ==
    /\ VmPfAt("write2")
    /\ vm_buf' = IF vm_pf.long THEN [vm_buf EXCEPT !.body = vm_pf.body] ELSE vm_buf
    /\ vm_bits' = VmReleased(vm_bits) \cup {"sts"}
    /\ vm_pf' = [vm_pf EXCEPT !.pc = "idle", !.head = VmNoHead, !.body = 0, !.long = FALSE]
    /\ VmPfKeep /\ UNCHANGED <<vm_cts, vm_done>>

VmRefusesAck == ~vm_cts

\* ixgbe_rcv_ack_from_vf: a VF that reads before its reset is told so.
VmPfAck ==
    /\ vm_up /\ VmPfAt("idle") /\ {"req", "ack"} \cap vm_bits = {"ack"}
    /\ vm_bits' = vm_bits \ {"ack"}
    /\ \/ VmRefusesAck /\ VmReply(VmHead("none", "nack", FALSE), FALSE)
       \/ ~VmRefusesAck /\ UNCHANGED vm_pf
    /\ VmPfKeep /\ UNCHANGED <<vm_buf, vm_cts, vm_done>>

VmPf ==
    \/ VmPfNotice \/ VmPfReadLock \/ VmPfRead1 \/ VmPfRead2 \/ VmPfAct
    \/ VmPfWriteLock \/ VmPfWrite1 \/ VmPfWrite2 \/ VmPfAck

(***************************************************************************)
(* Physical function, service task: link changes and ixgbe_down, which     *)
(* first turns the interrupts off.                                         *)
(***************************************************************************)
VmPingKeep == UNCHANGED <<vm_pf, vm_vf, vm_done>> /\ VmClash

VmLinkChange ==
    /\ vm_up /\ vm_ping = "idle" /\ vm_left.pings > 0
    /\ vm_left' = [vm_left EXCEPT !.pings = @ - 1]
    /\ vm_ping' = "lock"
    /\ VmPingKeep /\ UNCHANGED <<vm_buf, vm_bits, vm_cts, vm_up>>

VmDown ==
    /\ vm_up /\ vm_ping = "idle" /\ VmPfAt("idle") /\ vm_left.downs > 0
    /\ vm_left' = [vm_left EXCEPT !.downs = @ - 1]
    /\ vm_up' = FALSE
    /\ vm_cts' = FALSE
    /\ vm_done' = {}
    /\ vm_ping' = "lock"
    /\ UNCHANGED <<vm_buf, vm_bits, vm_pf, vm_vf>> /\ VmClash

\* The port comes up again; the link follows, and with it a ping.
VmUp ==
    /\ ~vm_up /\ vm_ping = "idle"
    /\ vm_up' = TRUE
    /\ vm_ping' = "lock"
    /\ VmPingKeep /\ UNCHANGED <<vm_buf, vm_bits, vm_cts, vm_left>>

VmPingLock ==
    /\ vm_ping = "lock"
    /\ \/ VmLocks("vfu") /\ vm_ping' = "write"
          /\ vm_bits' = (vm_bits \ {"req", "ack"}) \cup {"pfu"}
       \/ ~VmLocks("vfu") /\ vm_ping' = "idle" /\ UNCHANGED vm_bits
    /\ VmPingKeep /\ UNCHANGED <<vm_buf, vm_cts, vm_up, vm_left>>

VmPingWrite ==
    /\ vm_ping = "write"
    /\ vm_buf' = [vm_buf EXCEPT !.head = VmPingHead(vm_cts)]
    /\ vm_bits' = VmReleased(vm_bits) \cup {"sts"}
    /\ vm_ping' = "idle"
    /\ VmPingKeep /\ UNCHANGED <<vm_cts, vm_up, vm_left>>

VmService == VmUp \/ VmPingLock \/ VmPingWrite

(***************************************************************************)
(* Virtual function: it asks for a reset until it is ready, then makes its *)
(* requests, each one with ixgbe_write_posted_mbx and                      *)
(* ixgbe_read_posted_mbx.  A request that fails is made again.             *)
(***************************************************************************)
VmVfKeep == UNCHANGED <<vm_pf, vm_ping, vm_cts, vm_up, vm_done, vm_clash>>

VmVfGoto(pc) == vm_vf' = [vm_vf EXCEPT !.pc = pc]

VmVfAsk ==
    /\ VmVfAt("idle")
    /\ \/ ~vm_vf.ready /\ vm_vf' = [vm_vf EXCEPT !.pc = "wlock", !.want = "reset", !.body = 0]
       \/ vm_vf.ready /\ vm_vf.n < VmRequests
          /\ vm_vf' = [vm_vf EXCEPT !.pc = "wlock", !.want = "set", !.body = vm_vf.n + 1]
    /\ VmVfKeep /\ UNCHANGED <<vm_buf, vm_bits, vm_left>>

VmVfWriteLock ==
    /\ VmVfAt("wlock")
    /\ \/ VmLocks("pfu") /\ VmVfGoto("write1")
          /\ vm_bits' = (vm_bits \ {"sts", "pfack"}) \cup {"vfu"}
       \/ ~VmLocks("pfu") /\ VmVfGoto("idle") /\ UNCHANGED vm_bits
    /\ VmVfKeep /\ UNCHANGED <<vm_buf, vm_left>>

VmVfWrite1 ==
    /\ VmVfAt("write1")
    /\ vm_buf' = [vm_buf EXCEPT !.head = VmHead(vm_vf.want, "none", FALSE)]
    /\ VmVfGoto("write2")
    /\ VmVfKeep /\ UNCHANGED <<vm_bits, vm_left>>

VmVfWrite2 ==
    /\ VmVfAt("write2")
    /\ vm_buf' = [vm_buf EXCEPT !.body = vm_vf.body]
    /\ vm_bits' = (vm_bits \ {"vfu"}) \cup {"req"}
    /\ VmVfGoto("poll_ack")
    /\ VmVfKeep /\ UNCHANGED vm_left

VmVfPollAck ==
    /\ VmVfAt("poll_ack") /\ "pfack" \in vm_bits
    /\ vm_bits' = vm_bits \ {"pfack"}
    /\ VmVfGoto("poll_msg")
    /\ VmVfKeep /\ UNCHANGED <<vm_buf, vm_left>>

\* Also how an idle VF in service learns of a ping, by its mailbox interrupt.
VmVfPollMsg ==
    /\ VmVfAt("poll_msg") \/ (VmVfAt("idle") /\ vm_vf.ready)
    /\ "sts" \in vm_bits
    /\ vm_bits' = vm_bits \ {"sts"}
    /\ vm_vf' = [vm_vf EXCEPT !.pc = "rlock", !.want = IF VmVfAt("idle") THEN "none" ELSE @]
    /\ VmVfKeep /\ UNCHANGED <<vm_buf, vm_left>>

\* A poll ends without an answer: the PF is slow, or nothing is on its way.
VmVfTimeout ==
    /\ vm_vf.pc \in {"poll_ack", "poll_msg"}
    /\ \/ vm_left.timeouts > 0 /\ vm_left' = [vm_left EXCEPT !.timeouts = @ - 1]
       \/ /\ {"req", "pfack", "sts"} \cap vm_bits = {} /\ VmPfAt("idle")
          /\ UNCHANGED vm_left
       \/ VmVfAt("poll_ack") /\ "req" \notin vm_bits /\ "pfack" \notin vm_bits
          /\ VmPfAt("idle") /\ UNCHANGED vm_left
    /\ VmVfGoto("idle")
    /\ VmVfKeep /\ UNCHANGED <<vm_buf, vm_bits>>

VmVfReadLock ==
    /\ VmVfAt("rlock")
    /\ \/ VmLocks("pfu") /\ VmVfGoto("read1") /\ vm_bits' = vm_bits \cup {"vfu"}
       \/ ~VmLocks("pfu") /\ VmVfGoto("idle") /\ UNCHANGED vm_bits
    /\ VmVfKeep /\ UNCHANGED <<vm_buf, vm_left>>

VmVfRead1 ==
    /\ VmVfAt("read1")
    /\ vm_vf' = [vm_vf EXCEPT !.pc = "read2", !.head = vm_buf.head]
    /\ VmVfKeep /\ UNCHANGED <<vm_buf, vm_bits, vm_left>>

\* The VF compares the answer with what it asked; a message without "clear to
\* send" other than the answer to a reset sends it back to its reset.
VmVfRead2 ==
    /\ VmVfAt("read2")
    /\ LET h == vm_vf.head
           answered == vm_vf.want # "none" /\ h.kind = vm_vf.want /\ h.ack = "ack"
           set == answered /\ vm_vf.want = "set"
       IN  vm_vf' = [vm_vf EXCEPT !.pc = "idle", !.head = VmNoHead, !.body = 0,
                                  !.ready = (answered /\ vm_vf.want = "reset") \/ (@ /\ h.cts),
                                  !.n = IF set THEN @ + 1 ELSE @,
                                  !.want = "none"]
    /\ vm_bits' = (vm_bits \ {"vfu"}) \cup {"ack"}
    /\ VmVfKeep /\ UNCHANGED <<vm_buf, vm_left>>

VmVf ==
    \/ VmVfAsk \/ VmVfWriteLock \/ VmVfWrite1 \/ VmVfWrite2 \/ VmVfPollAck \/ VmVfPollMsg
    \/ VmVfTimeout \/ VmVfReadLock \/ VmVfRead1 \/ VmVfRead2

VmNext == VmPf \/ VmService \/ VmVf \/ VmLinkChange \/ VmDown

\* Interrupts are delivered, the service task runs, and the VF's driver runs.
VmFairness == WF_vmVars(VmPf) /\ WF_vmVars(VmService) /\ WF_vmVars(VmVf)

VmSpec == VmInit /\ [][VmNext]_vmVars /\ VmFairness

-----------------------------------------------------------------------------
(***************************************************************************)
(* Properties.                                                             *)
(***************************************************************************)
\* The two sides are never in the buffer together, so that each reads whole
\* messages, as long as the PF's two threads were not in it together.
VmExclusive ==
    ~vm_clash =>
        ~ /\ vm_pf.pc \in {"read1", "read2", "write1", "write2"} \/ vm_ping = "write"
          /\ vm_vf.pc \in {"write1", "write2", "read1", "read2"}

\* A VF that believes itself in service of a port that went down meanwhile
\* finds out: it asks for a reset and gets one.
VmFindsOut == (vm_vf.ready /\ ~vm_cts) ~> (vm_vf.ready /\ vm_cts)

\* A VF that has asked for something comes to the end of its requests, whatever
\* time-outs, pings and resets come between (the VF's write_posted_mbx and
\* read_posted_mbx against ixgbe_msg_task).
VmServed == vm_vf.pc # "idle" ~> (vm_vf.pc = "idle" /\ vm_vf.n = VmRequests /\ vm_vf.ready)

=============================================================================
