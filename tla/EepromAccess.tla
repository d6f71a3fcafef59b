---------------------------- MODULE EepromAccess ----------------------------
(***************************************************************************)
(* The EEPROM of the card: reads by EERD or bit-bang (ixgbe_common.c,      *)
(* ixgbe_82599.c, ixgbe_x540.c), paged SPI writes with the detection of    *)
(* the page size, the checksum, the X540's shadow RAM and flash, and the   *)
(* read-modify-write of ethtool -E (ixgbe_ethtool.c).  A routine is an     *)
(* operator that yields the set of its outcomes, one for each way the      *)
(* hardware may fail it.  Words are base EeByte^2, two bytes each.         *)
(***************************************************************************)
EXTENDS Integers, Sequences, FiniteSetsExt, SequencesExt
LOCAL INSTANCE Bitwise

CONSTANTS
  EeSize, EeByte,        \* words of the EEPROM, values of a byte
  EeChecksumAt, EePtrs, EeSkipped, EeSum,  \* layout: IXGBE_EEPROM_CHECKSUM, pointers
  EePageMax, EeChunk,    \* IXGBE_EEPROM_PAGE_SIZE_MAX, IXGBE_EEPROM_RD_BUFFER_MAX_COUNT
  EeRealPages,           \* page sizes a chip may have
  EeImages,              \* contents it may start with
  EeOffsets, EeLens,     \* what the user may ask to write
  EeBad,                 \* addresses whose read may fail, and EeSize: none does
  EeMaxOps               \* bound on requests

VARIABLES ee_mac, ee_mem, ee_flash, ee_type, ee_page, ee_real, ee_last, ee_ops

eeVars == <<ee_mac, ee_mem, ee_flash, ee_type, ee_page, ee_real, ee_last, ee_ops>>

EeWord == EeByte * EeByte
EeNothing == [st |-> "none"]
EeOnes == EeWord - 1     \* 0xFFFF

EeInit ==
  /\ ee_mac \in {"82599", "X540"} /\ ee_mem \in EeImages /\ ee_flash = ee_mem
  /\ ee_type = "uninitialized" /\ ee_page = 0 /\ ee_real \in EeRealPages
  /\ ee_last = EeNothing /\ ee_ops = 0

(* ixgbe_init_eeprom_params: done once, by the first access. *)
EeInitParams == IF ee_type = "uninitialized" THEN {"spi", "none"} ELSE {ee_type}
EeInitParamsX540 == {"flash"}

-----------------------------------------------------------------------------
(* Reads.  Each yields its status; the data is the memory's when it is "ok". *)
EePoll == {"ok", "EEPROM"}                 \* ixgbe_poll_eerd_eewr_done
EeAcquire == {"ok", "SWFW_SYNC", "EEPROM"} \* semaphore, grant, ready

EeReadEerd(off, n) ==
  CASE n = 0 -> {"INVALID_ARGUMENT"} [] off >= EeSize -> {"EEPROM"} [] OTHER -> EePoll

EeReadBitBang(off, n) ==
  CASE n = 0 -> {"INVALID_ARGUMENT"} [] off + n > EeSize -> {"EEPROM"} [] OTHER -> EeAcquire

EeRead82599(type, off, n) ==
  IF type = "spi" THEN EeReadEerd(off, n) ELSE EeReadBitBang(off, n)

EeReadX540(off, n) == {"SWFW_SYNC"} \cup EeReadEerd(off, n)

EeRead(type, off, n) ==
  IF ee_mac = "X540" THEN EeReadX540(off, n) ELSE EeRead82599(type, off, n)

-----------------------------------------------------------------------------
(* Bit-bang writes.  A burst stops at the end of a page as word_page_size
   has it; the chip wraps around inside its real page (external). *)
EeSpi(m, off, ws) ==
  LET base == off - (off % ee_real)
      At(a) == {i \in 1..Len(ws) : base + ((off - base + i - 1) % ee_real) = a}
  IN  [a \in DOMAIN m |-> IF At(a) = {} THEN m[a] ELSE ws[Max(At(a))]]

EeBurst(off, n, page) ==
  IF page = 0 THEN 1
  ELSE Min({n} \cup {k \in 1..n : ((off + k - 1) & (page - 1)) = page - 1})

RECURSIVE EeBang(_, _, _, _)
EeBang(m, off, ws, page) ==
  IF ws = <<>> THEN m
  ELSE LET k == EeBurst(off, Len(ws), page)
       IN  EeBang(EeSpi(m, off, SubSeq(ws, 1, k)), off + k, SubSeq(ws, k + 1, Len(ws)), page)

(* ixgbe_detect_eeprom_page_size_generic: a burst of marching data, read back. *)
EeDetect(m, off) ==
  LET marched == EeBang(m, off, [i \in 1..EePageMax |-> i - 1], EePageMax)
  IN  {[mem |-> m, page |-> 0], [mem |-> marched, page |-> 0],
       [mem |-> marched, page |-> EePageMax - marched[off]]}

EeInChunks(m, off, ws, page, k) ==
  FoldLeft(LAMBDA acc, c :
             EeBang(acc, off + (c - 1) * EeChunk,
                    SubSeq(ws, (c - 1) * EeChunk + 1, Min({c * EeChunk, Len(ws)})), page),
           m, [c \in 1..k |-> c])

EeWriteBitBang(m, off, ws) ==
  LET chunks == (Len(ws) + EeChunk - 1) \div EeChunk
      tried == IF ee_page = 0 /\ Len(ws) > EePageMax THEN EeDetect(m, off)
               ELSE {[mem |-> m, page |-> ee_page]}
  IN  IF ws = <<>> \/ off + Len(ws) > EeSize
        THEN {[mem |-> m, page |-> ee_page, st |-> "EEPROM"]}
        ELSE {[mem |-> EeInChunks(t.mem, off, ws, t.page, k), page |-> t.page,
               st |-> IF k = chunks THEN "ok" ELSE "SWFW_SYNC"] : t \in tried, k \in 0..chunks}

(* EEWR: word by word into the shadow RAM, abandoned at the first time-out. *)
EeWriteEewr(m, off, ws) ==
  {[mem |-> [a \in DOMAIN m |-> IF a \in off..(off + k - 1) THEN ws[a - off + 1] ELSE m[a]],
    page |-> ee_page, st |-> st] : k \in 0..Len(ws), st \in {"EEPROM"}}
  \cup {[mem |-> [a \in DOMAIN m |-> IF a \in off..(off + Len(ws) - 1) THEN ws[a - off + 1]
                                     ELSE m[a]], page |-> ee_page, st |-> "ok"]}

EeWriteX540(m, off, ws) ==
  {[mem |-> m, page |-> ee_page, st |-> "SWFW_SYNC"]} \cup EeWriteEewr(m, off, ws)

EeWriteBuffer(m, off, ws) ==
  IF ee_mac = "X540" THEN EeWriteX540(m, off, ws) ELSE EeWriteBitBang(m, off, ws)

-----------------------------------------------------------------------------
(* The checksum, when reads of address `bad` fail (EeSize: none do).  A failed
   read leaves the variable it was to fill as it was. *)
EeFails(a, bad) == a = bad \/ a >= EeSize

EeHead(m, bad) ==
  SumFunctionOnSet(m, 0..(IF bad \in 0..(EeChecksumAt - 1) THEN bad ELSE EeChecksumAt) - 1)

EeSection(m, s, bad) ==   \* the words behind s.ptr
  FoldLeft(LAMBDA acc, j : LET w == IF EeFails(j, bad) THEN acc.word ELSE m[j]
                           IN  [acc EXCEPT !.word = w, !.sum = @ + w],
           s, [i \in 1..s.len |-> s.ptr + i])

EeCalcGeneric(m, bad) ==
  LET Step(s, i) ==
        LET p == IF EeFails(i, bad) THEN s.ptr ELSE m[i]
            l == IF EeFails(p, bad) THEN s.len ELSE m[p]
        IN  IF p \in {0, EeOnes} THEN [s EXCEPT !.ptr = p]
            ELSE IF l \in {0, EeOnes} THEN [s EXCEPT !.ptr = p, !.len = l]
            ELSE EeSection(m, [s EXCEPT !.ptr = p, !.len = l], bad)
      last == IF bad = 0 THEN 0 ELSE m[IF bad \in 1..(EeChecksumAt - 1) THEN bad - 1
                                       ELSE EeChecksumAt - 1]
      end == FoldLeft(Step, [sum |-> EeHead(m, bad), word |-> last, ptr |-> 0, len |-> 0], EePtrs)
  IN  (EeSum - end.sum) % EeWord

(* The X540 leaves out the PHY and option ROM sections and any section that
   does not fit, and stops at a failed read. *)
EeSectionFits(m, p) ==
  /\ p \notin {0, EeOnes} /\ p < EeSize
  /\ m[p] \notin {0, EeOnes} /\ p + m[p] < EeSize

EeCalcX540(m, bad) ==
  LET Step(s, i) ==
        IF s.stop \/ i \in EeSkipped THEN s
        ELSE IF i = bad THEN [s EXCEPT !.stop = TRUE]
        ELSE LET p == m[i]
             IN  IF p \in {0, EeOnes} \/ p >= EeSize THEN s
                 ELSE IF p = bad THEN [s EXCEPT !.stop = TRUE]
                 ELSE IF ~EeSectionFits(m, p) THEN s
                 ELSE [s EXCEPT !.sum = @ + SumFunctionOnSet(m,
                         p + 1 .. (IF bad \in p + 1 .. p + m[p] THEN bad - 1 ELSE p + m[p]))]
  IN  (EeSum - FoldLeft(Step, [sum |-> EeHead(m, bad), stop |-> FALSE], EePtrs).sum) % EeWord

EeCalc(m, bad) == IF ee_mac = "X540" THEN EeCalcX540(m, bad) ELSE EeCalcGeneric(m, bad)

EeValidate(m, bad) ==
  CASE bad = 0 -> "EEPROM"
    [] (IF bad = EeChecksumAt THEN 0 ELSE m[EeChecksumAt]) # EeCalc(m, bad) -> "CHECKSUM"
    [] OTHER -> "ok"

(* ixgbe_update_flash_X540: FLUP copies the shadow RAM once the previous
   update is done; a time-out leaves it open whether the copy was made. *)
EeUpdateFlash(m) ==
  {[flash |-> ee_flash, st |-> "EEPROM"], [flash |-> m, st |-> "EEPROM"], [flash |-> m, st |-> "ok"]}

EeSummed(m, bad) == [m EXCEPT ![EeChecksumAt] = EeCalc(m, bad)]

EeUpdateGeneric(m) ==
  {[mem |-> m, flash |-> ee_flash, sum |-> FALSE]} \cup
  {[mem |-> EeSummed(m, bad), flash |-> ee_flash, sum |-> (bad = EeSize)] : bad \in EeBad \ {0}}

EeUpdateX540(m) ==
  {[mem |-> m, flash |-> ee_flash, sum |-> FALSE]} \cup
  UNION {{[mem |-> EeSummed(m, bad), flash |-> f.flash, sum |-> (bad = EeSize /\ f.st = "ok")] :
            f \in EeUpdateFlash(EeSummed(m, bad))} : bad \in EeBad}

EeUpdate(m) == IF ee_mac = "X540" THEN EeUpdateX540(m) ELSE EeUpdateGeneric(m)

-----------------------------------------------------------------------------
(* ethtool.  The byte at address a is half of word a \div 2. *)
EeByteAt(m, a) == IF a % 2 = 0 THEN m[a \div 2] % EeByte ELSE m[a \div 2] \div EeByte
EeUser(a) == (a + 1) % EeByte              \* the byte the user wants at a

(* ixgbe_get_eeprom: the words that hold the bytes asked for. *)
EeGetWords(off, len) == (off + len - 1) \div 2 - off \div 2 + 1

EeGet ==
  /\ ee_ops < EeMaxOps /\ ee_ops' = ee_ops + 1
  /\ \E off \in EeOffsets, len \in EeLens :
       /\ len > 0 /\ off + len <= 2 * EeSize
       /\ \E type \in (IF ee_mac = "X540" THEN EeInitParamsX540 ELSE EeInitParams) :
          \E st \in EeRead(type, off \div 2, EeGetWords(off, len)) :
            /\ ee_type' = type
            /\ ee_last' = [st |-> st]
  /\ UNCHANGED <<ee_mac, ee_mem, ee_flash, ee_page, ee_real>>

EeMergeBlind(off, len, w) == EeUser(2 * w) + EeByte * EeUser(2 * w + 1)

EeMerge(off, len, w) ==
  LET B(a) == IF a \in off..(off + len - 1) THEN EeUser(a) ELSE EeByteAt(ee_mem, a)
  IN  B(2 * w) + EeByte * B(2 * w + 1)

(* ixgbe_set_eeprom: reads the words it changes by half, writes all of them
   and then the checksum, whose result it ignores. *)
EeSet ==
  /\ ee_ops < EeMaxOps /\ ee_ops' = ee_ops + 1
  /\ \E off \in EeOffsets, len \in EeLens :
       LET first == off \div 2
           ws == [i \in 1..EeGetWords(off, len) |-> EeMerge(off, len, first + i - 1)]
           halves == off % 2 = 1 \/ (off + len) % 2 = 1
           Asked(st, sum) == [st |-> st, before |-> ee_mem, off |-> off, len |-> len, sum |-> sum,
                             placed |-> Len(ws) <= EePageMax \/ first % EePageMax = 0
                                        \/ ee_page = ee_real \/ ee_mac = "X540"]
       IN  /\ len > 0 /\ off + len <= 2 * EeSize
           /\ \E type \in (IF ee_mac = "X540" THEN EeInitParamsX540 ELSE EeInitParams) :
                /\ ee_type' = type
                /\ \/ /\ halves
                      /\ \E st \in EeRead(type, first, 1) \ {"ok"} : ee_last' = Asked(st, FALSE)
                      /\ UNCHANGED <<ee_mem, ee_flash, ee_page>>
                   \/ \E w \in EeWriteBuffer(ee_mem, first, ws) :
                        /\ ee_page' = w.page
                        /\ IF w.st # "ok"
                             THEN /\ ee_mem' = w.mem /\ ee_last' = Asked(w.st, FALSE)
                                  /\ UNCHANGED ee_flash
                             ELSE \E u \in EeUpdate(w.mem) :
                                    /\ ee_mem' = u.mem /\ ee_flash' = u.flash
                                    /\ ee_last' = Asked("ok", u.sum)
  /\ UNCHANGED <<ee_mac, ee_real>>

EeNext == EeGet \/ EeSet

EeSpec == EeInit /\ [][EeNext]_eeVars

-----------------------------------------------------------------------------
EeWritten == "before" \in DOMAIN ee_last

(* After a successful ethtool -E every byte asked for holds its new value and
   every other byte of the EEPROM but the checksum its old one: the half words
   at both ends, the paged bursts and the scratch writes of the page detection
   leave nothing behind.  (A buffer longer than the largest page must start on
   such a page, or the page size must be known.) *)
EeSetLands ==
  (EeWritten /\ ee_last.st = "ok" /\ ee_last.placed) =>
    \A a \in 0..(2 * EeSize - 1) :
      a \div 2 # EeChecksumAt =>
        EeByteAt(ee_mem, a) = IF a \in ee_last.off..(ee_last.off + ee_last.len - 1)
                              THEN EeUser(a) ELSE EeByteAt(ee_last.before, a)

(* When the checksum was updated without a failed read, the next probe accepts
   the EEPROM, and on the X540 the flash holds it (no section may contain the
   checksum word itself). *)
EeChecksumValid ==
  (EeWritten /\ ee_last.sum
     /\ \A i \in 1..Len(EePtrs) :
          LET p == ee_mem[EePtrs[i]]
          IN  p < EeSize => EeChecksumAt \notin p..(p + ee_mem[p]))
    => /\ EeValidate(ee_mem, EeSize) = "ok"
       /\ ee_mac = "X540" => ee_flash = ee_mem

\* Both: what ethtool writes lands where it was asked to and nowhere else,
\* and the checksum written after it is the one the next probe accepts.
EeSafe ==
  /\ EeSetLands
  /\ EeChecksumValid
=============================================================================
