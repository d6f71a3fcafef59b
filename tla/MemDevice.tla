------------------------------ MODULE MemDevice ------------------------------
(***************************************************************************)
(* map_user/map_nlsim.c: the character device through which the programs   *)
(* reach the buckets.  mmap_mem maps a range at its own physical address;  *)
(* read_mem and write_mem copy page by page and keep the file position.    *)
(***************************************************************************)
EXTENDS Integers

CONSTANTS
  MdPageSize,
  MdHighMemory,  \* end of the memory the kernel maps
  MdMaxPos,       \* bound on the file position
  MdMaxCount,     \* bound on the size of a request
  MdMaxCalls      \* bound on the number of calls

ASSUME MdAssumption ==
  /\ MdPageSize \in Nat \ {0} /\ MdHighMemory \in Nat
  /\ MdMaxPos \in Nat /\ MdMaxCount \in Nat /\ MdMaxCalls \in Nat

MdEFAULT == -14
MdEINVAL == -22

VARIABLES
  md_pc, md_call,      \* "read" or "write" while a call is copying
  md_f_pos,         \* the file position
  md_p, md_count, md_sz,  \* next address, bytes left, size of the current piece
  md_done,          \* read, or written: bytes copied so far
  md_ret,           \* what the last call returned
  md_touched,       \* history: addresses copied by the call, in order of copying
  md_asked,         \* history: position and size of the call
  md_calls

mdVars == <<md_pc, md_call, md_f_pos, md_p, md_count, md_sz, md_done, md_ret, md_touched, md_asked, md_calls>>

valid_phys_addr_range(addr, n) == addr + n <= MdHighMemory

(* -p & (PAGE_SIZE - 1): the bytes from p to the end of its page, 0 when p is
   aligned (PAGE_SIZE is a power of two). *)
MdToPageEnd(a) == (-a) % MdPageSize

MdPiece(a, left) ==
  LET size == IF MdToPageEnd(a) # 0 THEN MdToPageEnd(a) ELSE MdPageSize
  IN  IF size < left THEN size ELSE left

MdInit ==
  /\ md_pc = "idle" /\ md_call = "none" /\ md_f_pos = 0
  /\ md_p = 0 /\ md_count = 0 /\ md_sz = 0 /\ md_done = 0 /\ md_ret = 0
  /\ md_touched = {} /\ md_asked = [pos |-> 0, count |-> 0] /\ md_calls = 0

(* memory_lseek: SEEK_SET, SEEK_CUR; anything else is refused.  No position is
   refused: read_mem and write_mem check the range. *)
MdSeek(orig, offset) ==
  /\ md_pc = "idle" /\ md_calls < MdMaxCalls
  /\ \/ orig = 0 /\ md_f_pos' = offset /\ md_ret' = md_f_pos'
     \/ orig = 1 /\ md_f_pos' = md_f_pos + offset /\ md_ret' = md_f_pos'
     \/ orig = 2 /\ md_f_pos' = md_f_pos /\ md_ret' = MdEINVAL
  /\ md_f_pos' <= MdMaxPos
  /\ md_call' = "seek" /\ md_calls' = md_calls + 1
  /\ md_touched' = {} /\ md_asked' = [pos |-> md_f_pos', count |-> 0]
  /\ UNCHANGED <<md_pc, md_p, md_count, md_sz, md_done>>

(* read_mem, write_mem: the range must lie in memory. *)
MdCall(c, n) ==
  /\ md_pc = "idle" /\ md_calls < MdMaxCalls
  /\ md_calls' = md_calls + 1 /\ md_call' = c
  /\ md_asked' = [pos |-> md_f_pos, count |-> n]
  /\ md_touched' = {} /\ md_done' = 0
  /\ IF valid_phys_addr_range(md_f_pos, n)
     THEN md_pc' = "loop" /\ md_p' = md_f_pos /\ md_count' = n /\ UNCHANGED md_ret
     ELSE md_pc' = "idle" /\ md_ret' = MdEFAULT /\ UNCHANGED <<md_p, md_count>>
  /\ UNCHANGED <<md_f_pos, md_sz>>

MdChoose ==
  /\ md_pc = "loop" /\ md_count > 0
  /\ md_sz' = MdPiece(md_p, md_count)
  /\ md_pc' = "copy"
  /\ UNCHANGED <<md_call, md_f_pos, md_p, md_count, md_done, md_ret, md_touched, md_asked, md_calls>>

MdCopy ==
  /\ md_pc = "copy"
  /\ md_touched' = md_touched \cup (md_p .. md_p + md_sz - 1)
  /\ md_p' = md_p + md_sz /\ md_count' = md_count - md_sz /\ md_done' = md_done + md_sz
  /\ md_pc' = "loop"
  /\ UNCHANGED <<md_call, md_f_pos, md_sz, md_ret, md_asked, md_calls>>

(* copy_to_user fails: the read fails as a whole. *)
MdReadFault ==
  /\ md_pc = "copy" /\ md_call = "read"
  /\ \E n \in 0 .. md_sz - 1 : md_touched' = md_touched \cup (md_p .. md_p + n - 1)
  /\ md_ret' = MdEFAULT
  /\ md_pc' = "idle"
  /\ UNCHANGED <<md_call, md_f_pos, md_p, md_count, md_sz, md_done, md_asked, md_calls>>

MdWrittenWhole(n) == md_done + md_sz

MdWritten(n) == md_done + n

(* copy_from_user stops after n bytes: a short write, unless nothing was
   written at all. *)
MdWriteFault ==
  /\ md_pc = "copy" /\ md_call = "write"
  /\ \E n \in 0 .. md_sz - 1 :
       /\ md_touched' = md_touched \cup (md_p .. md_p + n - 1)
       /\ md_done' = MdWritten(n)
  /\ IF md_done' # 0
     THEN md_f_pos' = md_f_pos + md_done' /\ md_ret' = md_done'
     ELSE md_f_pos' = md_f_pos /\ md_ret' = MdEFAULT
  /\ md_pc' = "idle"
  /\ UNCHANGED <<md_call, md_p, md_count, md_sz, md_asked, md_calls>>

MdFinish ==
  /\ md_pc = "loop" /\ md_count = 0
  /\ md_f_pos' = md_f_pos + md_done
  /\ md_ret' = md_done
  /\ md_pc' = "idle"
  /\ UNCHANGED <<md_call, md_p, md_count, md_sz, md_done, md_touched, md_asked, md_calls>>

MdNext ==
  \/ \E orig \in 0 .. 2, offset \in 0 .. MdMaxPos : MdSeek(orig, offset)
  \/ \E c \in {"read", "write"}, n \in 0 .. MdMaxCount : MdCall(c, n)
  \/ MdChoose \/ MdCopy \/ MdReadFault \/ MdWriteFault \/ MdFinish

MdSpec == MdInit /\ [][MdNext]_mdVars /\ WF_mdVars(MdChoose \/ MdCopy \/ MdFinish)
-----------------------------------------------------------------------------
(***************************************************************************)
(* A read_mem or write_mem that succeeds has copied exactly the bytes it   *)
(* reports, from the old file position on, and moved the position behind   *)
(* them; one that fails leaves the position, and a failed write memory.    *)
(***************************************************************************)
MdReportsCopied ==
  md_pc = "idle" /\ md_call \in {"read", "write"} =>
    IF md_ret >= 0
    THEN /\ md_touched = md_asked.pos .. md_asked.pos + md_ret - 1
         /\ md_f_pos = md_asked.pos + md_ret
    ELSE /\ md_f_pos = md_asked.pos
         /\ md_call = "write" => md_touched = {}

(***************************************************************************)
(* "Handle first page in case it's not aligned": no copy of the loops of   *)
(* read_mem and write_mem crosses a page or leaves the range that          *)
(* valid_phys_addr_range admitted.                                         *)
(***************************************************************************)
MdPiecesInPages ==
  md_pc = "copy" =>
    /\ md_p \div MdPageSize = (md_p + md_sz - 1) \div MdPageSize
    /\ md_p + md_sz <= MdHighMemory

(***************************************************************************)
(* Every call returns: the loop always makes progress.                     *)
(***************************************************************************)
MdReturns == md_pc # "idle" ~> md_pc = "idle"

\* Both about a transfer: bytes reported are bytes copied, in pieces that
\* stay in their pages.
MdSafe ==
  /\ MdReportsCopied
  /\ MdPiecesInPages
=============================================================================
