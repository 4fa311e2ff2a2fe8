# Verification of pmb887x-dev

TLA+ models, TLC runs and TLAPS proofs for the parts of `pmb887x-dev` that carry its own logic:
loading a program into a phone over the serial line (with `boot.py` and with `chaos-boot.py`), the
decompressor that runs on the phone, the watchdog and I2C drivers, the session in which a test on the
phone is run by the host, the SIM reader, and the bridge that lets QEMU use a phone's peripherals.

Run a model with `tlc -config <name>.cfg <Module>`, check the proofs of a component with `tlapm
<Component>Proofs.tla` (eight modules; for `BootLink` it is `BootDeliveryProofs`; `BootDeliveryProofs`,
`ChaosBootProofs`, `TestSessionProofs` and `IoBridgeProofs` take some minutes).
`PROJECT.json` maps every definition to source lines, lists the runs, the
mutations of the code each property detects, the hazards and the findings.

## 1. The system

| Component | State | Operations | Talks to |
| --- | --- | --- | --- |
| `boot.py`, loading | port speed, block index, request in progress | BootROM handshake, set speed, EXTRAM, write raw/LZ4 blocks, GOTO, each with status and timeout | preloader, over the line |
| `boot.py`, LZ4 encoder | hash table, positions | `lz4_compress_block` | decoder in the preloader |
| `boot.py`, forwarding | pending line, command block, expected reset, port settings | `forward_output`, `execute_host_command`, `complete_expected_reset` | test on the phone; `run.sh` by stdout |
| preloader (`preloader/src`) | command, words and data read so far, USART speed, RAM | PING, SET_SPEED, INIT_EXTRAM, RAM_WRITE, LZ4 write, GOTO | `boot.py` |
| LZ4 decoder (`lz4.c`) | offsets, lengths, output | `read_length`, `lz4_decompress` | preloader's command loop |
| watchdog driver (`lib/wdt.c`) | interval, limit, off flag, two time stamps | init, serve, set interval, set limit, disable | SCU watchdog, IRQ mask, stopwatch; called from programs and handlers |
| stopwatch (`lib/stopwatch.c`) | conversion factors | get, elapsed, sleep | 64-bit timer read as two words |
| USART driver (`lib/usart.c`) | registers, 8-byte FIFOs | init, set speed, read, write, flush | everything that uses the line |
| clock tree (`lib/cpu.c`) | none (reads CGU registers) | frequencies | USART, stopwatch, watchdog |
| I2C driver (`lib/i2c*.c`) | transfer in progress, controller registers | write, read, SMBus read and write, for two controllers | PMIC; used by the SIM reader |
| test framework (`unit/test.c`) | assertions, failures, time limit | check, category, finish, expect reset | `forward_output`, watchdog |
| I/O bridge (`io_bridge/main.c`, `io_bridge.pm`) | command being read, current interrupt; on the host the interrupt reported last | greeting, ping, register access from the main loop or the IRQ handler until acknowledged | QEMU, by two sockets |
| SIM reader (`apps/sim-reader`) | state of the slot, parameters, frame being read, T=0 exchange | CCID messages: power on and off, parameters, block transfer, escapes | card; host script |
| `chaos-boot.py` and the PV boot code (`boot/pv_boot_x85.S`) | tasks, block, tries left; on the phone RAM and speed | ping, speed, read and write RAM, goto | each other, over the line |
| other loaders (`boot/*.S`), tools, register data, ROM listings, examples | | | |

What is hard in this code: the two ends of the line change their speed on their own; requests carry
data that is read as commands when one byte is missing; memory is written before its CRC is known;
nothing on the phone has a timeout but the watchdog; the host's reads time out while answers are on
their way and end in the middle of a line; the watchdog's register protocol can be interrupted by a
handler that uses the same protocol; all bounds in the decoder are differences of unsigned numbers;
hosts send again what may still be on its way, and have no means to discard what they do not expect; an
interrupt handler takes over the command loop in the middle of it; a card, a slave or a bus may stop, or
be late, at any byte. `PROJECT.json` has the list of these hazards, each at its line, with the properties that
cover it or the reason none does.

What makes each component correct:

* decoder: no read or write outside the buffers, no byte of older memory in the output, TRUE only
  for a complete block, the result of the LZ4 format, termination;
* encoder: what it writes decodes to what it was given;
* loading: a payload that is started is the payload; the ends stay in step; nobody waits for ever;
* watchdog: a live program is never reset, a hung one always is; callers get their IRQ mask back;
* test session: success is never reported for a test that failed; the ends meet at one speed;
* other loaders: a program that is started is the file, a file that is read is the memory, retries end;
* SIM reader: each request is answered once and with what the card said to it; buffers hold whatever the
  card does;
* I/O bridge: phone and QEMU are in the handler of the same interrupt, and nobody waits for ever;
* I2C: true means that all bytes were transferred; every call returns.

## 2. Modules

| Module | Models | How |
| --- | --- | --- |
| `Lz4Decoder` | `preloader/src/lz4.c`, called as `cmd_write_ram_lz4` does | one action per decision, per length byte, per copied byte |
| `Lz4DecoderProofs` | theorems about `Lz4Decoder` | |
| `Lz4Encoder` | `append_lz4_length`, `lz4_compress_block` of `boot.py` as operators | |
| `MCLz4` | a reference definition of the block format, the composition of encoder and decoder, and the instance for TLC | |
| `BootLink` | `boot.py` `main()` from the ready byte on, the preloader's `main.c`, `usart_read` with its FIFO, and the line between them | |
| `BootDeliveryProofs` | theorems about `BootLink`, with any faults and without faults | |
| `Watchdog` | `lib/wdt.c` and the SCU watchdog, called by a program and an interrupt handler | |
| `WatchdogProofs` | theorems about `Watchdog` | |
| `TestSession` | `unit/test.c`, `unit/usart/autobaud.c`, `unit/scu/reset.c`, `forward_output` and its helpers, `tap-result.awk` | |
| `CcidSlot` | what a card reader promises: each request echoed and answered once, with the state of the slot | abstract specification |
| `SimReader` | `apps/sim-reader/main.c` and `Reader` of `sim-reader.py`; refines `CcidSlot` | one action per handler and per byte to or from the card |
| `TestSessionProofs` | theorems about `TestSession`: the verdict for every timing; both ends in step where the timeouts suffice | |
| `SimReaderProofs` | theorems about `SimReader`: buffers, host and refinement; the exchange with the card | |
| `IoBridge` | `io_bridge/main.c`, `io_bridge.pm` | one action per byte the phone reads, per command it executes and per answer the host reads |
| `IoBridgeProofs` | theorems about `IoBridge` | |
| `ChaosBoot`, `MCChaosBoot` | `chaos-boot.py` against `boot/pv_boot_x85.S`, and the sessions TLC tries | one action per command of the phone, per request and per answer of the host |
| `ChaosBootProofs` | a theorem about `ChaosBoot` | |
| `I2c` | `lib/i2c.c`, `i2c-v1.c`, `i2c-v2.c` with their controllers and a slave | one action per turn of a polling loop |
| `I2cProofs` | theorems about `I2c` | |

### Lz4Decoder

The variables are those of `lz4_decompress` (`input_offset`, `output_offset`, `match_offset`,
`literal_size`/`match_size` as `length`, the loop counter `i`), the output memory and the place in
the code. `uint32_t` arithmetic is `Add` and `Sub` modulo `Wrap`. The number of values of a half byte
(`Nibble`, 16 in the code), the bias of a match (`MinMatch`, 4) and the sizes are constants, so that
TLC can use small ones and the proofs any. Memory beyond the frontier holds the value `Stale`.

### BootLink

A byte on the line knows its field, value and position. Read in its place a word has its value; read
from other bytes, or from a damaged one, it is any word, and a data byte read as a command is any
command. This is what a shifted stream does to the preloader. Data of a block is a value, the sizes of
blocks are in bytes of a few. A CRC is taken to tell blocks apart. The CRC of nothing is 0 (`CrcResults`): a size that is
misread as 0 writes no byte, and four zero data bytes in the place of the CRC are answered SUCCESS. `cmd_ram_write`, which writes its bytes one by
one, stores the block when its last byte has been read: nothing looks at memory in between, and a
phone that stops half-way through is not started. The host's request is put on the line at once; bytes
arrive one by one, into a FIFO that loses what it has no room for. Faults (`MaxFaults`) damage or lose a
byte in either direction. Faults that hit a command byte or an address are marked `blind`: no CRC covers
these, the code can not notice them, and the properties say so by excepting them. A SUCCESS for a write of nothing is marked the
same way: it is a hole in the protocol that one fault can reach, and without the mark `PayloadIntact` and `InStep` are both
violated on `boot_faulty_line`. The host times out
only when nothing is on its way any more: with an answer that comes later than a timeout it raises
`ProtocolError` all the same, and does nothing after that. With `DeviceKeepsUp` the phone has changed its speed when the
host sends the ping behind a SET_SPEED; `boot.py` only sleeps before it. `boot_clean_line` assumes it, `boot_faulty_line` does
not, so that the race of the two speed changes is in `HostEnds` and not in `BootCompletes`.

### Watchdog

Static variables of `wdt.c`, with time stamps as ages; two contexts, the program and a handler that
preempts it wherever IRQs are not masked; the driver's register accesses are single steps. The SCU is
external: a password access unlocks and starts time-out mode, a modify access relocks, accesses out of
order or a count that runs out reset the phone. At most one tick falls into an access sequence. The
variant for boards with `GPIO_PM_WADOG` is one pin toggle and is not modelled.

### TestSession

The phone's program is a sequence of steps; the output a sequence of symbols (a line's text, newline,
ready byte, completion byte), which the host reads in pieces; the lines it has still to look at stay the
text that was read, and the next line ends at the first newline in it. Both ends have a speed; what is sent
while they differ arrives as junk, newlines or completion bytes. `Quick` says that the phone does what
it can before the host takes its next step, and that the phone's 500 ms are enough for what the host
has to do (its waits are 100 and 50 ms). Without it every timeout may come at any moment, and the
watchdog may end the test at any point (`Crash`). The end of the host's observation of a reset is the
one time that is always respected: it lasts one second, the phone's own error line comes after 250 ms.

### SimReader and CcidSlot

A byte from the host is the number of its request and its place in the frame; what is read from anywhere
else may look like anything, and an LRC is taken to tell. While the reader serves a request nobody
empties its FIFO. Towards the card there is one byte in the transmitter, one in the receiver, and one OK
flag for both, as `sim_wait_ok` sees them. The card answers a T=0 header with NULL, INS, complement or
status bytes as it likes, stops, or is slower than a wait (`late`), after which it is out of step with the
reader. Before it answers it may put the reader off for ever with NULL bytes (`CardPutsOff`): each of them starts
the wait anew, and nothing in `main.c` limits their number. Only for a card that is out of step is what it sends beside the
data bounded (`MaxStray`). The answer to reset of a card in time has `MaxAtr` bytes; a shorter one ends as the code
ends it, by the time-out.

A PPS request may be as long as a message (`MaxPayload`, 261 bytes in the code), and `sim_exchange_pps` writes its answer to
`response[]`, which has 258: a request of 259 to 261 bytes makes the reader write up to 3 bytes behind it. `ResponseFits`
excepts that one exchange by name (`PpsTooLong`); the instance has such a request, and without the exception the
property is violated.

`CcidSlot` knows nothing of frames and cards: a slot that is active or not, the request being served, and
the last frame sent. `SimReader` implements it with `pending` taken from the place in the code, and
`active` from `icc_active`; it has to answer every request it has echoed, under fairness of the
reader's own steps and for a card that comes to an answer.

### IoBridge

Commands are bytes, so that an `O` of the greeting that is left on the line is read as the write command it
looks like. An address or value is one byte that counts and three that do not. The registers are a plain
one, one whose write ends the interrupt at its peripheral, `VIC_IRQ_CURRENT`, `VIC_IRQ_ACK`, `CGU_STAT` and
one the host must not write. QEMU's firmware accesses what it likes, enters its handler when it has been
told of an interrupt, and acknowledges once at the end. `SeeByte` and the software interrupt that follows
are two steps: an IRQ in between serves the command that `main` has seen. The number of an interrupt and the answers go to QEMU by
two sockets. The host writes the number first; that QEMU has read it before it goes on with the answer is an assumption on
QEMU, which is not in the repository (`EnterIsr` looks at the host's `last_irq`).

### ChaosBoot

The phone takes a command from `up` when all of it has arrived; the host reads from `down` what it expects
or, when the line has been quiet, what is there. Neither side discards. An address and a size are one byte each. `Sessions`
are the orders of tasks that `main()` can come to: a ping, maybe a change of speed, then reads and writes, and a goto only behind a
write and at the end (`run_exec`). The other commands of the phone are followed up to where they begin (`OtherCommand`).

Every byte of every message, on both ways, may be lost or become any byte of `Noise`. Much of what the host sends is protected by
nothing: the keep-alive, command, address and size of a request; all of a goto against a lost byte, behind which two shifted
copies of the address can agree; and a byte that becomes a command where the phone looks for one. A fault there
is marked `blind`. `SerialPort.read` waits for 0.2 s and 0.2 s more per byte. That is enough for everything but a whole block at
57600 baud, which takes 0.624 s against the 0.6 s for its OK: `AckLate` is a wait that ends too early and has the block sent
again behind itself. It counts as a fault. `Guarded` says what the properties are for: no blind fault, and at most one. So at
57600 baud they promise something for one such wait only, that is for a file of one whole block, with nothing else going
wrong; a longer one has every OK out of step, and a damaged block is then not repaired.

### I2c

`chip` says which driver is built. A turn of `transfer_wait` of v1 is one step: it works on one sample of
`SYSCON`, and the controller is held while a data interrupt is pending. The read loop of v2 samples the
protocol status and the requests in two steps, with the controller working in between. The slave is a set of
registers with a pointer, so that `TrueMeansDone` can compare what was asked for with what arrived. The bus
may hang at any time; the limits of the loops (100 ms, a million polls) are what ends the call. That `transfer_stop` and
`transfer_abort` free the bus is assumed of the hardware, not shown.

## 3. Runs

| Run | Checks | Bounds, and why they are enough |
| --- | --- | --- |
| `lz4` | memory safety, lengths, completeness, termination, equality with the format, `RoundTrip` | every block of up to 7 bytes over bytes of 2 bits: literals, extended lengths, matches with overlap and a second sequence fit; what the encoder makes of all blocks of 1 and of 11 to 14 bytes (both sides of the 12-byte margin) over two letters, and of periodic ones of up to 33 bytes, which need extended lengths |
| `boot_clean_line` | `NoOverrun`, `BootCompletes` | real word and FIFO sizes (4, 8); a raw and two packed blocks, both speeds |
| `boot_faulty_line` | `PayloadIntact`, `InStep`, `HostEnds`, `PhoneRecovers` | one fault at any byte, in either direction; words of 2 bytes are enough for a word to be cut |
| `watchdog` | types, `NoSpuriousReset`, `IrqRestored`, `SequencesComplete`, `StaysOff`, `HungIsReset` | a few ticks per interval, with a clock ratio that truncates; ages stop past every limit |
| `watchdog_factor` | expected violation of `TimeoutIsFactor` | |
| `session_quick` | types, `NothingGarbled`, `OnlyMissedResetFails`, `SessionEnds` | two autobaud cases in a row, a reset test; reads of every length up to the whole output |
| `session_slow` | `VerdictHonest` | two cases in a row, so that commands of the second are garbled by the speed of the first; reads of one symbol, one special byte out of garbled ones |
| `session_confirm` | expected violation of `OnlyPhoneConfirms` | |
| `sim_reader` | `ResponseFits`, `HostInStep`, `ExchangeExact`, `RefinesSlot` | three requests of any kind (power on, exchange, and one before, between or behind them), two data bytes, PPS requests that fit `response[]` and one that does not, any number of NULL bytes, one trouble: a byte lost or damaged, or a wait that ends too early; rates for one FI/DI byte that is allowed and one that is not |
| `io_bridge` | `StaleHelloCaughtAtGreeting`, `HandlersAgree`, `NobodyWaitsForEver`, deadlock | two interrupts, one of them with the number of a `.`; five greetings too many, enough for a whole three-byte write |
| `chaos_boot` | `StartedIntact`, `FileIsRam`, `HostEnds` | one fault in any message or one early wait, with twelve values of a damaged byte (each command of the tasks, another command, parts of answers); three blocks with `.` and `OK` among their bytes, three RAMs that hold a pong or an OK with its checksum, three kinds of session |
| `i2c` | `TrueMeansDone`, `InsideBuffer`, `CallReturns` | both drivers; two calls in a row, words of 2 bytes and sizes of none, less than, exactly, and more than one and two words; two troubles |

Deadlock is checked in `io_bridge` alone: a decoder that has returned, a loaded phone, a reset phone, a
finished session and a host that has made its last request stop. That none of them stops too early is
what the liveness properties say.

What the runs show that a test would hardly reach:

* `boot_faulty_line`: with any single byte damaged or lost that a CRC covers, and unless a size is misread as 0, `boot.py` never goes on to forward the
  output of a payload that is not in place, and a status is never taken for that of another request.
  After any such fault the phone comes back, but only through the watchdog that
  `usart_read` does not serve; the mutant that serves it while polling leaves the phone waiting.
* `watchdog`: masking IRQs around the access sequence is necessary and sufficient for a handler that
  serves too; the early return of `wdt_serve` costs at most the time between two calls.
* `session_slow`: whatever garbled bytes do to lines and commands, the exit status of `run.sh` is 0 only
  for a test without a failed check.
* `sim_reader`: no card, however late or talkative, makes the reader write past its buffers (a PPS request of more than
  258 bytes does), and with a
  card that keeps the times an answer is exactly what the card said to that request. The script is out of
  step only when it is started while the reader still serves an earlier run's request.
* `io_bridge`: a greeting too many can only be noticed at the ping that follows it; the change back to
  interrupt 0 that the acknowledgement reports is what lets the same interrupt be reported twice in a row.
* `chaos_boot`: with one lost data byte, or one wait that ends too early, every later OK belongs to the block before, and
  still the program that is started is the file. With two faults that is no longer true (a lost data byte and a later
  damaged block), and the host may send on almost for ever (a lost data byte and a lost byte of an answer).
* `i2c`: whatever the order of the end, the last data interrupt and a refused byte, true means done.

### Findings

* `wdt_set_interval` changes the serve interval alone. `wdt.c:10` calls `WDT_TIMEOUT_FACTOR` "How much
  longer than the serve interval the hardware timeout is", which is then no longer true. (With an
  interval of four times the initial one `wdt_serve` returns early until the watchdog has bitten; that follows from the
  code, the trace of the run ends at the call.)
* `unit/README.md` says that `run.sh` cannot confirm the success of the tests that reset the phone.
  `complete_expected_reset` writes a result line in the phone's place, and `run.sh` succeeds.

### Fairness

* `BootLink`: weak fairness of the host's steps, its timeout, the phone's steps, the delivery of bytes
  and the watchdog. The host is a running process and pyserial's timeout is a clock; the phone's program
  has the CPU to itself; the watchdog counts by itself. Faults have none.
* `Watchdog`: of the steps inside a driver call, of the return from the handler and of time. Calls,
  interrupts and hanging have none: the program decides.
* `TestSession`: of the phone's and of the host's steps. `Crash` has none, and is excluded from
  `SessionEnds`: `forward_output` really reads on for ever when the phone stops in the middle.
* `SimReader`: of the reader's steps, of the card's and the line's. A wait for the card ends one way or the
  other since `sim_wait_ok` has a time limit. Strong fairness of `CardProcedure` is an assumption on the card: one that is
  asked comes to an answer after some NULL bytes. Without it the reader waits for ever, since `main.c` has no limit over
  all waits. Nobody makes the host ask.
* `IoBridge`: weak fairness of the phone's and of the host's programs; strong fairness of QEMU being started,
  of its firmware entering the handler it was told of, and of that handler coming to its end, whatever it
  accesses before. Peripherals have none.
* `ChaosBoot`: of both programs.
* `I2c`: of driver and controller; strong fairness of the drivers' limits, which end a loop that waits
  whatever else happens in it.
* `Lz4Decoder` needs none: termination is the action property `Progress`, every step lowers a rank.

## 4. Proofs

Eight modules, each extending the module it is about. Every theorem is for all values of the constants that
satisfy the named assumptions of the model; the instances TLC checks satisfy them too, since TLC evaluates
the assumptions. The inductive invariants were checked with TLC on the instances of section 3 before they
were proved.

### The decoder (`Lz4DecoderProofs`)

For all half bytes, sizes, blocks and memories: `TypeCorrect`, `MemorySafety` (reads inside the input,
writes inside the output, no stale byte copied; the first and the last also on their own, as `ReadsAreInside`
and `CopiesOwnBytes`), `CompleteOnSuccess`, `LengthsAreExact` (no length wraps) and `AlwaysProgress`.

The inductive invariant `Inv` consists of

* `TypeOK` and `ReadsInsideInput`;
* `Frontier`: `output_offset <= output_size`, every location below `output_offset` holds a byte
  written by this call and every one behind it is untouched. The write bound alone is not inductive: a
  match copies from behind, and that what it copies is not stale has to be known for every location it
  may reach;
* `SuccessIsComplete`;
* `CopyInv`: in a literal loop what is left to copy fits both buffers, in a match loop it fits the
  output, and from the check of the offset to the end of the match `match_offset` lies between 1 and
  `output_offset`. This carries the checks made before a loop to its steps.

`NextInv` shows it preserved action by action. For the lengths, `LengthInv` bounds `length` by
`input_offset * ByteCount`: every length byte read moves `input_offset` on, so that the bound on the
input size which `cmd_write_ram_lz4` enforces bounds the sum. `Inv` is used in that proof, not the
reverse: memory safety does not depend on lengths being exact, since the code's checks are made on the
wrapped values. That separation is the reason for two invariants.

Assumptions: a half byte has at least two values (`NibbleAssumption`), the match bias is positive
(`MatchAssumption`), sizes are numbers below `Wrap`, as is a two-byte match offset (`SizeAssumption`,
`WrapAssumption`), `Stale` is not a byte (`StaleAssumption`), and, for the lengths only, the longest
length an input of `MaxInput` bytes can spell is below `Wrap` (`LengthAssumption`; 4096 bytes spell about
a million).

### The watchdog driver (`WatchdogProofs`)

For every clock, set of intervals and limits: `TypeCorrect`, `IrqIsRestored`, `SequencesAreComplete`,
`OffStaysOff` and, when the program serves often enough, `NoLiveReset`.

The first four share an invariant: an interrupt never finds the main program inside an access sequence
(`WhereInv`), who has set the I bit at every place (`IrqInv`), what each place of a sequence finds in the
registers (`LockInv`), and how `wdt_off`, `WDTCON1` and the mode follow each other (`OffInv`). None of these is
inductive alone: that a handler can not come between two accesses is a fact about the I bit, and that the I
bit is restored is one about who is inside a sequence.

`NoLiveReset` assumes `GapIsEnough`: an age at which `wdt_serve` still returns early leaves two gaps (the
longest time between two returns of `wdt_serve`) to the period that was programmed. It says precisely for
which intervals given to `wdt_set_interval` the driver is safe, with the truncating conversions of the code, and the
instance of `watchdog` satisfies it. The invariant `TimeInv` bounds the hardware's count by the age of the driver's
stamp: `count <= sinceServe + Gap`, since a serve reloads the count before it takes the stamp.

### The SIM reader (`SimReaderProofs`)

For every card, every loss and damage on the line, and all sizes of frames, headers and buffers:

* `BuffersHold`: `response[]` and `atr[]` are never written behind their end, but for a PPS request longer than
  `response[]` (the exception is part of `ResponseFits`);
* `SlotSafety`: the reader implements the initial states and the steps of `CcidSlot`, under the refinement
  mapping of the run. Its liveness part (every request is answered) stays with TLC;
* `HostStaysInStep`: what `command()` returns is the answer to this command;
* `ExchangesAreExact`: with a card that keeps the times, an exchange that is not reported as failed gave the
  card this request's data in order and the host what the card said, at the rate in force.

The invariant of the first three follows the frame (`LineInv`): the last byte of a request is the last byte on
the line, so that a frame that was cut can not be completed by bytes of a later request; `ServeInv` and
`BufferInv` carry what the handlers have checked to the loops of `sim_exchange_tpdu` behind the checks;
`EchoInv`, `ReplyInv` and `HostInv` say what each frame that is on its way is an answer to. The exchange needs a second
one, `InStepInv`: at each place of the reader the card is at the same byte of header, data or status, and
everything it has said is in the buffer or in `SIM_RXB`.

Assumptions (`SizesAssumption`): a PPS request is no longer than a message, which `host_read_message` checks, and
`atr[]` (64 bytes) is no larger than `response[]` (258); the model keeps the two arrays in one variable, the theorem
has a bound for each.

### The test session (`TestSessionProofs`)

For every number of autobaud cases, every size of reads, any number of garbled bytes and both timings:
`TypeCorrect` and `VerdictIsHonest` (`run.sh` never succeeds for a test that failed, that is still running or that went on
after the reset it asked for). A `PASS` comes from one of two places, `test_finish` and
`complete_expected_reset`, and the second writes it on the phone's behalf from what it was told before. The
inductive invariant `Inv` therefore follows the announcement of a reset:

* `PassIsHonest`: a `PASS` anywhere between the phone and `run.sh` is that of a test that has ended well;
* `Announced`, `CountStands`: an EXPECT_RESET line exists only behind that step of the reset test, and the number
  of failures it carries is still right, or the host is bound to fail;
* `Released`, `Continued`, `ErrorComes`: the phone goes on behind its reset only after the host has sent the
  `R`, that is while it observes, and then its error line is still to come or on the line: the host can not reach the
  end of its observation without seeing it;
* `SameSpeed`: nothing of the reset test is garbled, since neither end has changed its speed. This is what
  makes the three before it true: garbled bytes may take the place of any line.

Under `Quick`, the hypothesis that the waits in the HOST-CMD blocks and the phone's 500 ms are long enough:
`QuickIsInStep`, and from it `QuickNeverGarbles` (`NothingGarbled`) and `QuickFailsOnlyAtReset`
(`OnlyMissedResetFails`). Without the hypothesis both are false, and `session_slow` has states that violate them: it is
exactly what the delays in the code are for. `LockStep` says that a session is always in one of nine phases: the
phone prints the commands of a case (`Printing`); the host has read up to any place of any line of them
(`Parsing`: what it has taken, what is in `lines`, what is in `pending` and what is in `output` make up the one block that was
printed); it executes one after the other (`Executing`, with the phone's place, both speeds, the bytes that are
in its FIFO and the ready byte for each of the commands); the phone finishes the case or the test; or, in the reset
test, it checks, announces, and is observed. In `Executing` the speeds differ only while the phone is silent, and the host
only while the phone discards. There is one lemma for each phase and action that is possible in it, and one that
excludes the others.

### Loading (`BootDeliveryProofs`)

`TypeCorrect` holds with any number of faults: the FIFO has its size, and every stage of the command
loop has read the operands that it uses.

Over a line without faults (`CleanLine`, that is `MaxFaults = 0`), for every number and size of blocks, every set of
speeds and every FIFO a word fits in: `FifoNeverOverruns`, `PayloadIsDelivered` (what `boot.py` reports as
loaded is in RAM, block for block, and runs) and `StatusesInStep`.

The invariant `LinkInv` has one conjunct per step of `main()` of `boot.py`. It is about one stream of bytes, `Pend`:
what the phone has read for the current word, then its FIFO, then the line. It says which words of which
request the stream still holds for the operands that have been read, and that both ends have the same speed whenever
something is under way (the two changes of speed are the exceptions it has to describe). Delivering a byte leaves
`Pend` as it is, so that the proof needs one case per request, per word that is complete and per command carried
out. The FIFO bound is the part that a reader would doubt: an unpacking phone does not read, and `LinkInv` shows that then only
the CRC word can be on the line, which fits.

With faults `PayloadIntact` and `InStep` are checked on `boot_faulty_line` only: what a shifted stream may be
taken for is a much larger invariant.

Assumptions: a word fits the FIFO (4 and 8 bytes in the code), and the words have a greatest one (they are `uint32_t`).

### The other loader (`ChaosBootProofs`)

For every program, size of blocks, content of the RAM, session, number of tries, noise and number of faults:
`ProgramIsIntact`, that is `StartedIntact`. What the theorem excepts is in the formula (`Guarded`: more than one fault, or a blind
one), nothing is assumed of `MaxFaults`. The exceptions are needed: a byte lost from a goto starts another address, a damaged
address of a write spoils a block for good, and section 3 says what two faults do.

One lost data byte puts host and phone out of step for the rest of a task: the phone takes the keep-alive for the checksum,
stores a wrong block, refuses it, and from then on every OK is that of the block before. So an invariant that relates
the host's offset to what the RAM holds now is not true. `Inv` is about what the RAM will hold: `Good(up, ram, D, gotos)` says that
`up` is a sequence of whole commands behind which the RAM is right at the addresses `D`; that at most one write of them is
wrong, that it is the first, and that what it spoils is written again behind it; and that a goto comes behind
all writes, to `Base`, and only if `D` is everything. `Safe` demands `Good` for `Promised`, the addresses the host
takes to be written or waits for. The phone taking the first command of `up` keeps it (`TakeHead`, `GoodTake`), the host appending
a command keeps it or enlarges `D` (`AppendCommand` and the lemmas behind it), and neither depends on who answers what.
Before the first fault `Calm` says that one side waits for the other.

A wait that ends too early only appends a write, to a line that holds the same one already (`SafeLate`).

The rest of `Inv` are the states one fault leads to in which `up` is not a sequence of whole commands, or is one
that spoils more than it repairs: a damaged block on its way, refused, or short of a byte (`Spoilt`: `ChecksumTells` is the fact
that one damaged byte changes the XOR); the ping and the change of speed at the beginning (`Pinging`, `Speeding`); and the states
in which nothing will be started any more, since the host has given up and there is nothing like a whole goto on the line
(`GivenUp`). There is one lemma for the phone's and one for the host's steps from each of them. After a blind fault `Inv` says nothing
but the types.

Assumptions: those of the model (`ChaosAssumption`, `SessionsAssumption`).

### The I/O bridge (`IoBridgeProofs`)

For every set of interrupts, every set of values and any number of greetings: `StaleHelloIsCaught` and
`FirmwareAndPhoneAgree`. The invariant `BridgeInv` is that either the greeting is going on or the session is.
`Greeting` describes the line as what the host has sent too often, cut where the phone's place in `OK` or in a
command puts it, and what comes back as the phone's answers so far; a greeting too many makes the ping that
follows it the operand of a write, and the answer to that differs from a ping's. `Session` knows one command under way: the bytes of it the
phone has read, those on the line, or its answer, and the change of `current_irq` the answer may report first.
`HandlersAgree` alone says nothing of answers that are on the line, and the firmware's state changes only when they arrive.

### The I2C drivers (`I2cProofs`)

For both drivers, every size of a transfer and of a FIFO word, any number of calls, refused bytes and hangs:

* `BufferIsKept`: nothing is stored behind the caller's buffer, and `left`, which is unsigned, never wraps. The
  invariant `DriverInv` says that what has been stored and what is left make up at most the size asked for, and
  that nothing is received before a read has begun.
* `TrueIsDone`: a call that returns true has done what it was asked for and nothing else. The property looks at
  the end of a call only; the invariant `TransferInv` says at every moment which byte driver, controller and slave are
  at. The bytes of a write are one stream: the slave has taken the first k of it (`SlaveAt`), the next are
  in the controller and the rest is with the driver (`OnItsWay`). The bytes of a read are the slave's registers
  from the first one on, in the caller's buffer and behind them in the controller (`Got`). On top of that it says what each
  controller may announce: the end of a write (`ending`, `txEnd`) only when nothing of it is left, the v1's STOP
  only with the last bytes asked for, a request of the v2 for reading only with as many bytes in the FIFO as the
  driver will take. Between two transfers the controller is `Quiet`: the cleanup of the drivers has to reach
  it from wherever a transfer is cut off. There is one lemma per action.

Assumptions: a word has at least two bytes (4 in the code), and the sizes have a greatest one (they are `uint32_t`).

### Only model-checked

* Liveness under fairness, which the prover does not do: `BootCompletes`, `HostEnds`, `PhoneRecovers`, `HungIsReset`,
  `SessionEnds`, the fairness part of `RefinesSlot`, `NobodyWaitsForEver`, `CallReturns`. (`Progress` of the
  decoder is an action property, and is proved.)
* `AgreesWithFormat` and `RoundTrip`: their references are recursive over the data.
* `FileIsRam` of `ChaosBoot`, on three RAMs. A request to read whose address is lost makes the phone take the ping behind it
  for the number of bytes to send, and a RAM that looks like a pong followed by a block with its OK and XOR would then be
  accepted; that is a blind fault, which the formula excepts.
* `PayloadIntact` and `InStep` with faults, as said above.

## 5. Not modelled

* BootROM handshake and preloader selection: the BootROM is not in the repository. `boot.py` sends `AT` every
  5 ms; what becomes of the answers to earlier ones once the BSL header has been sent is not known.
* Two faults at once, and the values of CRCs: they need a model of byte values. `ChaosBoot` has one, and
  with two faults its properties fail, as section 3 says.
* Torn reads of the 64-bit stopwatch and torn stores of its stamps: a carry between two reads, once in 2^32
  ticks. The code has nothing against it that a property could be about.
* Fast interrupts that serve the watchdog (only IRQs are masked; no handler in the repository does), intervals
  of 2^30 ms and more, divider arithmetic of `usart_set_speed`, the clock tree.
* `forward_output` reads on for ever when the phone stops without the completion byte; `SessionEnds` is
  checked without `Crash`.
* `unit/usart/host-rx.c`, whose handshake relies on waits, and `SEND_XORSHIFT32`.
* SIM reader: parity errors and overruns are a wait that fails; the text before the first frame.
* I/O bridge: QEMU closing its sockets and partial reads from them (the script dies), the exceptions that
  end in `onerr`, an interrupt that has gone when `VIC_IRQ_CURRENT` is read, an overflow of the phone's FIFO,
  noise that is a `.`, and the order in which the compiler reads the bytes of an address (C leaves it open).
* Other loaders: the flash commands (`chaos_write_flash` is not reachable), reading the information block and
  OTP, the chaos variant `chaos_x85.S`, speed codes past the loader's table, the Linux loader. What
  becomes of a session after a blind fault (section 2): the protocol does not detect it.
* I2C: loss of arbitration, the protocol interrupt of v1, the computation of the PEC.
* DMA, PMIC and LCD helpers, start-up code, tools, register data, ROM listings, examples and the tests of
  single peripherals: register set-up, I/O, data, or checks of hardware that is not in the repository.
  `lib/printf.c` is third-party code. These, with generated register headers, are by far the most of the
  repository's lines: the models cover its protocols and drivers.

## 6. Plan

Done: the modules of section 2 and the proofs of section 4.

1. Proofs: `PayloadIntact` with one fault.
2. `ReliableLoad`: "the phone runs the payload or the host reports an error", refined by `BootLink`.
3. An abstract transfer refined by both I2C drivers.
