-------------------------------- MODULE I2c --------------------------------
(***************************************************************************)
(* The I2C drivers: i2c-v1.c for the PMB8875, i2c-v2.c for the PMB8876,    *)
(* and i2c.c on top of either.  A driver polls its controller, which works *)
(* on the bus at the same time; the slave may refuse any byte, and the bus *)
(* may hang.                                                               *)
(*                                                                         *)
(* The controllers and the slave are external.  A controller behaves as    *)
(* the driver uses it and as unit/i2c-v1 and unit/i2c-v2 find it: a data   *)
(* interrupt holds the transfer, the end may come while one is pending,    *)
(* and a request for the next word comes when the last one is cleared.     *)
(* The slave is a set of registers with a pointer, as the PMIC is.         *)
(***************************************************************************)
EXTENDS Integers, Sequences, FiniteSets, FiniteSetsExt

CONSTANTS
    WordSize,      \* bytes of a buffer or FIFO word: 4 in the code
    Sizes,         \* sizes of the transfers
    MaxCalls,      \* calls of the driver
    MaxTroubles    \* bytes refused and hangs of the bus

ASSUME I2cAssumption ==
    /\ WordSize \in Nat \ {0, 1} /\ Sizes \subseteq Nat
    /\ \E max \in Sizes \union {0} : \A n \in Sizes : n <= max
    /\ MaxCalls \in Nat /\ MaxTroubles \in Nat

VARIABLES
    chip,          \* which of the two drivers is built
    call,          \* the call being made
    calls,         \* how many there have been
    pc,            \* where the driver is
    msg,           \* bytes not yet handed to the controller: prefix, then data
    left,          \* bytes not yet received
    buffer,        \* bytes received
    flags,         \* reading, address_sent and stop_requested (v1), receiving (v2)
    sample,        \* the protocol status read last (v2)
    hw,            \* the controller
    slave,
    stuck,         \* the bus hangs
    troubles

driver == <<pc, msg, left, buffer, flags, sample>>
vars == <<chip, call, calls, driver, hw, slave, stuck, troubles>>

AddressW == -1
AddressR == -2
Registers == 0 .. Max(Sizes \union {0})

NoCall == [op |-> "none", reg |-> 0, size |-> 0, result |-> FALSE]

\* What the k-th call writes.
Value(k, i) == 10 * k + i
CallData(k, n) == [i \in 1 .. n |-> Value(k, i)]

(***************************************************************************)
(* The slave.                                                              *)
(***************************************************************************)
\* Register Max(Registers) + 1 stands for all the others.
Clip(r) == Min({r, Max(Registers) + 1})

SlaveTakes(s, b) ==
    CASE b = AddressW -> [s EXCEPT !.fresh = TRUE]
      [] b = AddressR -> s
      [] OTHER        -> IF s.fresh THEN [s EXCEPT !.fresh = FALSE, !.ptr = b]
                         ELSE [s EXCEPT !.regs[s.ptr] = b, !.ptr = Clip(s.ptr + 1)]

SlaveGives(s) == s.regs[s.ptr]
SlaveGave(s) == [s EXCEPT !.ptr = Clip(s.ptr + 1)]

Refuses == troubles < MaxTroubles /\ troubles' = troubles + 1
Fine == UNCHANGED troubles

(***************************************************************************)
(* The PMB8875's controller.  `tx` is the buffer being sent; while `irqd`  *)
(* is pending nothing moves.                                               *)
(***************************************************************************)
Idle1 == [tx |-> <<>>, rx |-> <<>>, ci |-> 1, bum |-> FALSE, receive |-> FALSE,
          stp |-> FALSE, ending |-> FALSE, irqd |-> FALSE, irqe |-> FALSE, lrb |-> FALSE]

Hw1Send ==
    /\ hw.bum /\ ~hw.irqd /\ hw.tx # <<>> /\ ~stuck
    /\ \/ /\ Fine
          /\ slave' = SlaveTakes(slave, Head(hw.tx))
          /\ hw' = [hw EXCEPT !.tx = Tail(@), !.irqd = Len(hw.tx) = 1, !.lrb = FALSE]
       \/ /\ Refuses
          /\ hw' = [hw EXCEPT !.irqd = TRUE, !.lrb = TRUE]
          /\ UNCHANGED slave

\* LRB also shows the controller's own NACK of the last byte.
Hw1Receive ==
    /\ hw.bum /\ hw.receive /\ ~hw.irqd /\ ~hw.ending /\ ~stuck
    /\ Fine
    /\ slave' = SlaveGave(slave)
    /\ LET full == Len(hw.rx) + 1 = hw.ci
       IN  hw' = [hw EXCEPT !.rx = Append(@, SlaveGives(slave)), !.irqd = full,
                            !.lrb = full /\ hw.stp, !.ending = full /\ hw.stp]

\* The STOP, asked for with CLRBUM or with STP before the last bytes.
Hw1Stop ==
    /\ hw.ending /\ ~hw.irqe /\ ~stuck
    /\ hw' = [hw EXCEPT !.irqe = TRUE]
    /\ UNCHANGED <<slave, troubles>>

(***************************************************************************)
(* The PMB8876's controller.  `open` bytes of the packet are still to be   *)
(* handed over, `wait` bytes still to come from the slave.                 *)
(***************************************************************************)
Idle2 == [tx |-> <<>>, rx |-> <<>>, open |-> 0, wait |-> 0, rps |-> 0, halted |-> FALSE,
          request |-> FALSE, nack |-> FALSE, txEnd |-> FALSE, rxOn |-> FALSE]

Cleared(h) == [h EXCEPT !.request = FALSE, !.nack = FALSE, !.txEnd = FALSE, !.rxOn = FALSE]

Hw2Request ==
    /\ ~hw.request /\ ~hw.halted /\ ~stuck
    /\ hw.open > 0 \/ (hw.rxOn /\ (Len(hw.rx) >= WordSize \/ (hw.wait = 0 /\ hw.rx # <<>>)))
    /\ hw' = [hw EXCEPT !.request = TRUE]
    /\ UNCHANGED <<slave, troubles>>

Hw2Send ==
    /\ hw.tx # <<>> /\ ~hw.halted /\ ~stuck
    /\ LET last == Len(hw.tx) = 1 /\ hw.open = 0
           reading == Head(hw.tx) = AddressR
       IN  \/ /\ Fine
              /\ slave' = SlaveTakes(slave, Head(hw.tx))
              /\ hw' = [hw EXCEPT !.tx = Tail(@), !.txEnd = last /\ ~reading,
                                  !.rxOn = reading]
           \/ /\ Refuses
              /\ hw' = [hw EXCEPT !.nack = TRUE, !.halted = TRUE]
              /\ UNCHANGED slave

\* With flow control the FIFO never overflows.
Hw2Receive ==
    /\ hw.rxOn /\ hw.wait > 0 /\ Len(hw.rx) < 2 * WordSize /\ ~stuck
    /\ Fine
    /\ slave' = SlaveGave(slave)
    /\ hw' = [hw EXCEPT !.rx = Append(@, SlaveGives(slave)), !.wait = @ - 1, !.rps = @ + 1,
                        !.txEnd = hw.wait = 1]

Hangs ==
    /\ pc # "idle" /\ ~stuck /\ Refuses
    /\ stuck' = TRUE
    /\ UNCHANGED <<chip, call, calls, driver, hw, slave>>

Controller ==
    /\ IF chip = "v1" THEN Hw1Send \/ Hw1Receive \/ Hw1Stop
                      ELSE Hw2Request \/ Hw2Send \/ Hw2Receive
    /\ UNCHANGED <<chip, call, calls, driver, stuck>>

(***************************************************************************)
(* Both drivers.                                                           *)
(***************************************************************************)
First(s, n) == SubSeq(s, 1, Min({n, Len(s)}))
Rest(s, n) == SubSeq(s, n + 1, Len(s))

NoFlags == [reading |-> FALSE, address |-> FALSE, stop |-> FALSE, receiving |-> FALSE]

\* i2c_hw_write or i2c_hw_read returns; i2c_smbus_read goes on to the read.
Returns(ok) ==
    IF ok /\ pc \in {"poll", "end"} /\ ~flags.reading /\ call.op = "smread"
    THEN pc' = "read" /\ UNCHANGED call
    ELSE pc' = "idle" /\ call' = [call EXCEPT !.result = ok]

Keep == UNCHANGED <<chip, calls, slave, troubles>>

\* Nothing to read.
ReadNothing ==
    /\ pc = "read" /\ call.size = 0
    /\ Returns(TRUE)
    /\ Keep /\ UNCHANGED <<msg, left, buffer, flags, sample, hw, stuck>>

(***************************************************************************)
(* i2c-v1.c.                                                               *)
(***************************************************************************)
\* transfer_stop clears every flag.  That this frees a hanging bus is assumed of the hardware.
transfer_stop(ok) ==
    /\ hw' = [Idle1 EXCEPT !.ci = hw.ci]
    /\ stuck' = FALSE
    /\ Returns(ok)

StartWrite1 ==
    /\ chip = "v1" /\ pc = "write"
    /\ hw' = [hw EXCEPT !.tx = <<AddressW>> \o First(msg, WordSize - 1), !.bum = TRUE]
    /\ msg' = Rest(msg, WordSize - 1)
    /\ flags' = [NoFlags EXCEPT !.address = TRUE]
    /\ pc' = "poll"
    /\ Keep /\ UNCHANGED <<call, left, buffer, sample, stuck>>

StartRead1 ==
    /\ chip = "v1" /\ pc = "read" /\ call.size > 0
    /\ hw' = [hw EXCEPT !.tx = <<AddressR>>, !.ci = 1, !.bum = TRUE]
    /\ left' = call.size
    /\ flags' = [NoFlags EXCEPT !.reading = TRUE]
    /\ pc' = "poll"
    /\ Keep /\ UNCHANGED <<call, msg, buffer, sample, stuck>>

Bug_OnlyAddressChecked == hw.irqd /\ hw.lrb /\ ~flags.stop /\ flags.reading /\ ~flags.address

\* A refused byte; the last bit is the controller's own when it receives.
Nack1 == hw.irqd /\ hw.lrb /\ ~flags.stop /\ (~flags.reading \/ ~flags.address)

\* What the data interrupt makes of the transfer: the next word is handed over,
\* or the STOP asked for while the interrupt stays pending.
Written ==
    IF msg # <<>>
    THEN [msg |-> Rest(msg, WordSize), left |-> left, buffer |-> buffer, flags |-> flags,
          hw |-> [hw EXCEPT !.tx = First(msg, WordSize), !.irqd = FALSE]]
    ELSE [msg |-> msg, left |-> left, buffer |-> buffer,
          flags |-> [flags EXCEPT !.stop = TRUE],
          hw |-> [hw EXCEPT !.bum = FALSE, !.ending = TRUE]]

\* read_buffer's count.
ReadCount == IF flags.address THEN Min({Len(hw.rx), hw.ci, left}) ELSE 0

\* Bytes are taken from the buffer, the next are asked for, the last ones with
\* the STOP behind them, and reading RTB lets the controller go on.
ReadOn ==
    LET more == left - ReadCount
    IN  [msg |-> msg, left |-> more, buffer |-> buffer \o First(hw.rx, ReadCount),
         flags |-> [flags EXCEPT !.address = TRUE],
         hw |-> [hw EXCEPT !.rx = <<>>, !.receive = TRUE, !.irqd = FALSE,
                           !.ci = IF more # 0 THEN Min({more, WordSize}) ELSE @,
                           !.stp = @ \/ (more # 0 /\ more <= WordSize)]]

Same == [msg |-> msg, left |-> left, buffer |-> buffer, flags |-> flags, hw |-> hw]

Complete(t) == t.left = 0 /\ t.msg = <<>>

\* transfer_wait, once around: data first, then the end.
Poll1 ==
    /\ chip = "v1" /\ pc = "poll" /\ (hw.irqd \/ hw.irqe) /\ ~Nack1
    /\ LET t == IF ~hw.irqd THEN Same ELSE IF flags.reading THEN ReadOn ELSE Written
       IN  /\ msg' = t.msg /\ left' = t.left /\ buffer' = t.buffer /\ flags' = t.flags
           /\ IF hw.irqe THEN transfer_stop(Complete(t))
                         ELSE hw' = t.hw /\ UNCHANGED <<pc, call, stuck>>
    /\ Keep /\ UNCHANGED sample

Bug_NoTimeout ==
    /\ chip = "v1" /\ pc = "poll" /\ Nack1
    /\ transfer_stop(FALSE)
    /\ Keep /\ UNCHANGED <<msg, left, buffer, flags, sample>>

\* A refused byte, or 100 ms have passed.
Fail1 ==
    /\ chip = "v1" /\ pc = "poll" /\ (Nack1 \/ stuck)
    /\ transfer_stop(FALSE)
    /\ Keep /\ UNCHANGED <<msg, left, buffer, flags, sample>>

(***************************************************************************)
(* i2c-v2.c.                                                               *)
(***************************************************************************)
StartWrite2 ==
    /\ chip = "v2" /\ pc = "write"
    /\ hw' = [Cleared(hw) EXCEPT !.open = Len(msg) + 1]
    /\ msg' = <<AddressW>> \o msg
    /\ flags' = NoFlags
    /\ pc' = "request"
    /\ Keep /\ UNCHANGED <<call, left, buffer, sample, stuck>>

StartRead2 ==
    /\ chip = "v2" /\ pc = "read" /\ call.size > 0
    /\ hw' = [Cleared(hw) EXCEPT !.open = 1, !.wait = call.size, !.rps = 0]
    /\ left' = call.size
    /\ msg' = <<AddressR>>
    /\ flags' = [NoFlags EXCEPT !.reading = TRUE]
    /\ pc' = "request"
    /\ Keep /\ UNCHANGED <<call, buffer, sample, stuck>>

\* request_wait saw a request: the next word goes into the FIFO.
HandOver2 ==
    /\ pc = "request" /\ hw.request
    /\ LET word == First(msg, WordSize)
       IN  hw' = [hw EXCEPT !.tx = @ \o word, !.open = @ - Len(word), !.request = FALSE]
    /\ msg' = Rest(msg, WordSize)
    /\ pc' = IF msg' # <<>> THEN "request" ELSE IF flags.reading THEN "sample" ELSE "end"
    /\ Keep /\ UNCHANGED <<call, left, buffer, flags, sample, stuck>>

\* transfer_wait saw the end.
Ended2 ==
    /\ pc = "end" /\ hw.txEnd /\ ~hw.nack
    /\ hw' = Cleared(hw)
    /\ Returns(TRUE)
    /\ Keep /\ UNCHANGED <<msg, left, buffer, flags, sample, stuck>>

\* The read loop takes the protocol status first ...
Sample2 ==
    /\ pc = "sample" /\ ~hw.nack
    /\ sample' = [txEnd |-> hw.txEnd, rxOn |-> hw.rxOn]
    /\ flags' = [flags EXCEPT !.receiving = @ \/ hw.rxOn]
    /\ pc' = "act"
    /\ Keep /\ UNCHANGED <<call, msg, left, buffer, hw, stuck>>

Undefined == -9
Word2(n) == [i \in 1 .. n |-> IF i <= Len(hw.rx) THEN hw.rx[i] ELSE Undefined]
TakesWord == flags.receiving /\ hw.request /\ hw.rx # <<>> /\ left # 0
Bug_WholeWord == IF TakesWord THEN WordSize ELSE 0
Taken2 == IF TakesWord THEN Min({left, WordSize}) ELSE 0

\* ... then a word, when one is announced, and ends with the status it took.
Act2 ==
    /\ pc = "act"
    /\ buffer' = buffer \o Word2(Taken2)
    /\ left' = left - Taken2
    /\ LET h == IF TakesWord THEN [hw EXCEPT !.rx = Rest(@, WordSize), !.request = FALSE] ELSE hw
       IN  IF left' # 0 \/ ~sample.txEnd
           THEN hw' = h /\ pc' = "sample" /\ UNCHANGED call
           ELSE hw' = (IF h.rps = call.size THEN Cleared(h) ELSE Idle2)
                    /\ Returns(h.rps = call.size)
    /\ Keep /\ UNCHANGED <<msg, flags, sample, stuck>>

\* A refused byte where no request hides it, or the poll limit: transfer_abort, which is
\* assumed to free a hanging bus as well.
Fail2 ==
    /\ \/ pc = "request" /\ ~hw.request
       \/ pc \in {"end", "sample"}
    /\ hw.nack \/ stuck
    /\ hw' = Idle2
    /\ stuck' = FALSE
    /\ Returns(FALSE)
    /\ Keep /\ UNCHANGED <<msg, left, buffer, flags, sample>>

Driver ==
    \/ ReadNothing \/ StartWrite1 \/ StartRead1 \/ Poll1 \/ Fail1
    \/ StartWrite2 \/ StartRead2 \/ HandOver2 \/ Ended2 \/ Sample2 \/ Act2 \/ Fail2

(***************************************************************************)
(* i2c.c and its caller.                                                   *)
(***************************************************************************)
Begins(op, reg, n, m, where) ==
    /\ pc = "idle" /\ calls < MaxCalls
    /\ calls' = calls + 1
    /\ call' = [op |-> op, reg |-> reg, size |-> n, result |-> FALSE]
    /\ msg' = m /\ left' = 0 /\ buffer' = <<>> /\ flags' = NoFlags
    /\ pc' = where
    /\ UNCHANGED <<chip, sample, hw, slave, stuck, troubles>>

\* i2c_smbus_write; i2c_write and i2c_smbus_write_pec cut the same bytes
\* differently into prefix and data.
i2c_smbus_write(reg, n) ==
    Begins("write", reg, n, <<reg>> \o CallData(calls + 1, n), "write")

i2c_smbus_read(reg, n) == Begins("smread", reg, n, <<reg>>, "write")

\* Goes on where the slave's pointer is.
i2c_read(n) == Begins("read", slave.ptr, n, <<>>, "read")

Caller ==
    \E n \in Sizes :
        \/ \E reg \in {0, 1} : i2c_smbus_write(reg, n) \/ i2c_smbus_read(reg, n)
        \/ i2c_read(n)

Init ==
    /\ chip \in {"v1", "v2"}
    /\ call = NoCall /\ calls = 0
    /\ pc = "idle" /\ msg = <<>> /\ left = 0 /\ buffer = <<>>
    /\ flags = NoFlags /\ sample = [txEnd |-> FALSE, rxOn |-> FALSE]
    /\ hw = IF chip = "v1" THEN Idle1 ELSE Idle2
    /\ slave = [ptr |-> 0, fresh |-> FALSE, regs |-> [r \in Registers \union {Max(Registers) + 1} |-> r]]
    /\ stuck = FALSE /\ troubles = 0

Next == Caller \/ Driver \/ Controller \/ Hangs

\* The controller works on unless the bus hangs, and the driver polls, but not
\* for ever: a loop that still waits ends after 100 ms (v1) or a million
\* polls (v2).
Spec ==
    /\ Init /\ [][Next]_vars
    /\ WF_vars(Driver) /\ WF_vars(Controller) /\ SF_vars(Fail1) /\ SF_vars(Fail2)

(***************************************************************************)
(* Properties.                                                             *)
(***************************************************************************)
\* A call that returns true has done all of what it was asked for and nothing
\* else: every byte is in its register, or every byte of the buffer is what the
\* slave holds, and the slave has seen no byte more, although the end of a
\* transfer races the interrupt of its last bytes, a refused byte races the
\* request for the next ones, and the transfer before may have been cut off
\* anywhere.
TrueMeansDone ==
    pc = "idle" /\ call.result =>
        /\ slave.ptr = Clip(call.reg + call.size)
        /\ \A i \in 1 .. call.size :
              slave.regs[Clip(call.reg + i - 1)] =
                  IF call.op = "write" THEN Value(calls, i) ELSE buffer[i]

\* No byte is stored behind the end of the caller's buffer, and the driver never
\* takes more than it asked for: `left` is unsigned.
InsideBuffer ==
    left >= 0 /\ (call.op # "write" => Len(buffer) + left <= call.size)

\* Every call returns, whatever the slave and the bus do: no loop of either driver waits for
\* a bus that hangs or for an end that does not come.
CallReturns == pc # "idle" ~> pc = "idle"
=============================================================================
