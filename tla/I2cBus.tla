-------------------------------- MODULE I2cBus --------------------------------
(***************************************************************************)
(* The two-wire bus to the SFP module, bit-banged through I2CCTL           *)
(* (ixgbe_phy.c, ixgbe_82599.c).  A register write moves the clock and the *)
(* data line; the module (external) sees the edges.  The data line is      *)
(* open-drain: it is low when either side pulls it low.  A byte has        *)
(* I2cBits bits.  A transfer is a fold over its steps, abandoned at the    *)
(* first failure, which the bus clear then cleans up.                      *)
(***************************************************************************)
EXTENDS Integers, Sequences, SequencesExt, TLC

CONSTANTS
  I2cBits,       \* bits of a byte
  I2cTries,      \* max_retry of a read
  I2cOffsets, I2cData,   \* what may be read, and written
  I2cMaxBusy,    \* addressings the module may leave unanswered
  I2cMaxOps      \* bound on transfers

VARIABLES i2c_bus, i2c_mem, i2c_last, i2c_ops, i2c_shared

i2cVars == <<i2c_bus, i2c_mem, i2c_last, i2c_ops, i2c_shared>>

I2cBytes == 0..(2^I2cBits - 1)
I2cBit(byte, i) == (byte \div 2^i) % 2
I2cDevAddr == 2^(I2cBits - 1)                  \* IXGBE_I2C_EEPROM_DEV_ADDR, bit 0: read
I2cDown(n) == [i \in 1..n |-> n - i]

-----------------------------------------------------------------------------
(* The module.  It is idle, receives a byte (want: what the byte is), holds
   an acknowledge, sends a byte, or samples the master's acknowledge. *)
I2cIdle == [mode |-> "idle", want |-> "addr", n |-> 0, byte |-> 0, out |-> 1]
I2cRecv(d, want) == [d EXCEPT !.mode = "recv", !.want = want, !.n = 0, !.byte = 0, !.out = 1]

I2cRise(b, line) ==
  CASE b.dev.mode = "recv" ->
         [b EXCEPT !.dev.byte = (2 * @ + line) % 2^I2cBits, !.dev.n = @ + 1]
    [] b.dev.mode = "sendack" /\ line = 1 -> [b EXCEPT !.dev = I2cIdle]
    [] OTHER -> b

I2cSend(b, n) == [b EXCEPT !.dev.mode = "send", !.dev.n = n,
                           !.dev.out = I2cBit(b.mem[b.ptr], I2cBits - 1 - n)]

I2cByteIn(b) ==     \* the last bit of a byte is in: acknowledge it, or not
  IF b.dev.want = "addr" /\ (b.busy > 0 \/ b.dev.byte \div 2 # I2cDevAddr \div 2)
    THEN [b EXCEPT !.dev = I2cIdle, !.busy = IF @ > 0 THEN @ - 1 ELSE 0]
    ELSE [b EXCEPT !.dev.mode = "ack", !.dev.out = 0,
                   !.ptr = IF b.dev.want = "offset" THEN b.dev.byte ELSE @,
                   !.mem = IF b.dev.want = "data" THEN [@ EXCEPT ![b.ptr] = b.dev.byte] ELSE @]

I2cFall(b) ==
  CASE b.dev.mode = "recv" /\ b.dev.n = I2cBits -> I2cByteIn(b)
    [] b.dev.mode = "ack" ->
         IF b.dev.want = "addr" /\ b.dev.byte % 2 = 1 THEN I2cSend(b, 0)
         ELSE [b EXCEPT !.dev = I2cRecv(@, IF b.dev.want = "addr" THEN "offset" ELSE "data")]
    [] b.dev.mode = "send" ->
         IF b.dev.n < I2cBits - 1 THEN I2cSend(b, b.dev.n + 1)
         ELSE [b EXCEPT !.dev.mode = "sendack", !.dev.out = 1]
    [] b.dev.mode = "sendack" -> I2cSend(b, 0)
    [] OTHER -> b

I2cLineOf(data, dev) == data * dev.out
I2cLine(b) == I2cLineOf(b.data, b.dev)      \* ixgbe_get_i2c_data

(* A write of I2CCTL as the module sees it: start and stop are moves of the
   data line while the clock is high. *)
I2cWriteReg(b, clk, data) ==
  LET was == I2cLine(b)
      w == [b EXCEPT !.clk = clk, !.data = data]
      is == I2cLine(w)
  IN  CASE b.clk = 0 /\ clk = 1 -> I2cRise(w, is)
        [] b.clk = 1 /\ clk = 0 -> I2cFall(w)
        [] clk = 1 /\ was = 1 /\ is = 0 -> [w EXCEPT !.dev = I2cRecv(@, "addr")]
        [] clk = 1 /\ was = 0 /\ is = 1 -> [w EXCEPT !.dev = I2cIdle]
        [] OTHER -> w

-----------------------------------------------------------------------------
I2cRaiseClk(b) == I2cWriteReg(b, 1, b.data)
I2cLowerClk(b) == I2cWriteReg(b, 0, b.data)
I2cSetData(b, data) == I2cWriteReg(b, b.clk, data)

I2cStart(b) == I2cLowerClk(I2cSetData(I2cRaiseClk(I2cSetData(b, 1)), 0))
I2cStop(b) == I2cSetData(I2cRaiseClk(I2cSetData(b, 0)), 1)

I2cClockOutBit(b, bit) ==     \* fails when the line does not follow
  LET s == I2cSetData(b, bit)
  IN  IF I2cLine(s) = bit THEN I2cLowerClk(I2cRaiseClk(s)) ELSE [s EXCEPT !.ok = FALSE]

I2cClockOutByte(b, byte) ==
  I2cSetData(FoldLeft(LAMBDA s, i : IF s.ok THEN I2cClockOutBit(s, I2cBit(byte, i)) ELSE s,
                      b, I2cDown(I2cBits)), 1)

I2cGetAck(b) ==
  LET s == I2cRaiseClk(b) IN I2cLowerClk([s EXCEPT !.ok = I2cLine(s) = 0])

I2cClockInBit(b, i) ==        \* *data |= bit << i
  LET s == I2cRaiseClk(b)
  IN  I2cLowerClk([s EXCEPT !.got = IF I2cBit(@, i) = 0 THEN @ + I2cLine(s) * 2^i ELSE @])
I2cClockInByte(b) == FoldLeft(I2cClockInBit, b, I2cDown(I2cBits))

I2cClearPulses == I2cBits + 1        \* nine, for a byte of eight

I2cBusClearStop(b) == I2cStop(b)

I2cBusClear(b) ==
  LET Pulse(s, i) == I2cLowerClk(I2cRaiseClk(s))
      begun == I2cStart(b)
      freed == I2cWriteReg(begun, b.clk, 1)     \* i2cctl was read before the start
  IN  I2cStop(I2cStart(FoldLeft(Pulse, freed, I2cDown(I2cClearPulses))))

I2cDo(b, step) ==
  CASE step[1] = "start" -> I2cStart(b)
    [] step[1] = "out" -> I2cClockOutByte(b, step[2])
    [] step[1] = "ack" -> I2cGetAck(b)
    [] step[1] = "in" -> I2cClockInByte(b)
    [] step[1] = "nack" -> I2cClockOutBit(b, 1)
    [] step[1] = "stop" -> I2cStop(b)

I2cReadSteps(off) ==
  << <<"start">>, <<"out", I2cDevAddr>>, <<"ack">>, <<"out", off>>, <<"ack">>, <<"start">>,
     <<"out", I2cDevAddr + 1>>, <<"ack">>, <<"in">>, <<"nack">>, <<"stop">> >>
I2cWriteSteps(off, data) ==
  << <<"start">>, <<"out", I2cDevAddr>>, <<"ack">>, <<"out", off>>, <<"ack">>,
     <<"out", data>>, <<"ack">>, <<"stop">> >>

(* Up to `tries` attempts; each failed one clears the bus. *)
I2cAttempts(b, steps, tries) ==
  LET Attempt(s, i) ==
        IF s.ok THEN s
        ELSE LET t == FoldLeft(LAMBDA x, c : IF x.ok THEN I2cDo(x, c) ELSE x,
                               [s EXCEPT !.ok = TRUE], steps)
             IN  IF t.ok THEN t ELSE I2cBusClear(t)
  IN  FoldLeft(Attempt, b, I2cDown(tries))

-----------------------------------------------------------------------------
I2cInit ==
  /\ i2c_mem = [a \in I2cBytes |-> (2^I2cBits - 1) - a]
  /\ \E busy \in 0..I2cMaxBusy, ptr \in I2cOffsets : \E
        dev \in {I2cIdle, I2cRecv(I2cIdle, "offset"), [I2cIdle EXCEPT !.mode = "ack", !.out = 0]}
                \cup {[I2cIdle EXCEPT !.mode = "send", !.n = n,
                                          !.out = I2cBit(i2c_mem[ptr], I2cBits - 1 - n)] :
                        n \in 0..(I2cBits - 1)} :
       i2c_bus = [clk |-> 1, data |-> 1, dev |-> dev, ptr |-> ptr, busy |-> busy]
  /\ i2c_last = [op |-> "none"] /\ i2c_ops = 0 /\ i2c_shared \in BOOLEAN

(* A transfer and how it ended. *)
I2cTransfer(op, off, steps, tries) ==
  LET r == I2cAttempts(i2c_bus @@ [mem |-> i2c_mem, ok |-> FALSE, got |-> 0], steps, tries)
  IN  /\ i2c_ops < I2cMaxOps /\ i2c_ops' = i2c_ops + 1
      /\ i2c_mem' = r.mem
      /\ i2c_bus' = [f \in DOMAIN i2c_bus |-> r[f]]
      /\ i2c_last' = [op |-> op, off |-> off, ok |-> r.ok, got |-> r.got,
                     busy |-> i2c_bus.busy, idle |-> i2c_bus.dev = I2cIdle]
      /\ UNCHANGED i2c_shared

I2cRead(off) == I2cTransfer("read", off, I2cReadSteps(off), I2cTries)
I2cWrite(off, data) == I2cTransfer("write", off, I2cWriteSteps(off, data), 1)

(* ixgbe_*_i2c_byte_82599: ports that share the QSFP bus ask for it with a pin;
   when the grant does not come the pin is dropped and nothing is transferred. *)
I2cNoGrant ==
  /\ i2c_shared /\ i2c_ops < I2cMaxOps /\ i2c_ops' = i2c_ops + 1
  /\ i2c_last' = [op |-> "none"] /\ UNCHANGED <<i2c_bus, i2c_mem, i2c_shared>>

I2cNext ==
  \/ \E off \in I2cOffsets : I2cRead(off) \/ \E data \in I2cData : I2cWrite(off, data)
  \/ I2cNoGrant

I2cSpec == I2cInit /\ [][I2cNext]_i2cVars

-----------------------------------------------------------------------------
(* A read that finds the module idle and reports success returns the byte the
   module holds at that offset, however many attempts it took
   (ixgbe_read_i2c_byte_generic). *)
I2cReadRight ==
  i2c_last.op = "read" /\ i2c_last.ok /\ i2c_last.idle => i2c_last.got = i2c_mem[i2c_last.off]

(* A transfer that found the module idle, or that failed, leaves the bus free:
   both lines high and the module waiting for a start condition
   (ixgbe_i2c_stop, ixgbe_i2c_bus_clear). *)
I2cBusReleased ==
  i2c_last.op # "none" /\ (i2c_last.idle \/ ~i2c_last.ok) =>
    i2c_bus.clk = 1 /\ i2c_bus.data = 1 /\ i2c_bus.dev = I2cIdle

(* A read fails only when the module kept silent for the attempts that were
   left once the first had cleared the bus: a module found in the middle of a
   byte, holding the data line low, is always recovered. *)
I2cRecovers == i2c_last.op = "read" /\ ~i2c_last.ok => i2c_last.busy >= I2cTries - 1

\* Reading, releasing and recovering: a transfer delivers the byte asked
\* for or fails, and neither a failure nor a module left in the middle of a
\* byte spoils the bus for the next one.
I2cSafe ==
  /\ I2cReadRight
  /\ I2cBusReleased
  /\ I2cRecovers
=============================================================================
