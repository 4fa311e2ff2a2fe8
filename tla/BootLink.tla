------------------------------ MODULE BootLink ------------------------------
(***************************************************************************)
(* Loading a payload over the serial line: the host program boot.py and    *)
(* the preloader (preloader/src/main.c) that runs on the phone, from the   *)
(* preloader's ready byte to the jump into the payload.                    *)
(*                                                                         *)
(* The line carries bytes.  What a byte is worth depends on its place, so  *)
(* a byte is a record: the field it belongs to, the value of that field    *)
(* and its position in it.  A word is read right from its own WordBytes    *)
(* bytes in order; read from any others, or from a damaged one, it may be  *)
(* any word.  A data byte read as a command may be any command or none.    *)
(* A CRC is taken to tell different blocks apart; that of no bytes is 0,   *)
(* which the bytes read for it may be, too.                                *)
(*                                                                         *)
(* Time is left out, but for who waits for whom: the host's read times out *)
(* and the watchdog resets the phone when nothing else can happen.         *)
(***************************************************************************)
EXTENDS Integers, Sequences

CONSTANTS
    WordBytes,      \* bytes of an address, a size, a speed or a CRC: 4
    FifoSize,       \* bytes of the receive FIFO: USART_FIFO_SIZE = 8
    Blocks,         \* number of blocks of the payload; block k is loaded at address k
    BlockSize,      \* bytes of a block: LZ4_BLOCK_SIZE of both programs
    PackedSize,     \* bytes of a compressed block
    Packed,         \* the blocks that get shorter by compression
    Words,          \* the values a misread word can have
    Speeds,         \* the values of --speed; the BootROM's speed is 0
    UseExtram,      \* the payload goes to external RAM
    MaxFaults,      \* bytes the line may damage or lose
    DeviceKeepsUp   \* the phone has taken a byte before the host acts on it

BootSpeed == 0
ExtramSize == CHOOSE w \in Words : \A v \in Words : v <= w
Exec == 1                               \* exec_address: the first block

ASSUME SizesAssumption ==
    /\ WordBytes \in Nat \ {0} /\ FifoSize \in Nat /\ WordBytes <= FifoSize
    /\ Blocks \in Nat \ {0}
    /\ BlockSize \in Nat /\ PackedSize \in 1 .. BlockSize - 1
    /\ Packed \subseteq 1 .. Blocks
    /\ MaxFaults \in Nat
ASSUME WordsAssumption ==
    /\ Words \subseteq Nat /\ \E w \in Words : \A v \in Words : v <= w
    /\ (0 .. Blocks) \cup {BlockSize, PackedSize} \cup Speeds \subseteq Words
ASSUME ModesAssumption ==
    UseExtram \in BOOLEAN /\ DeviceKeepsUp \in BOOLEAN

VARIABLES
    phase,      \* host: the step of main() it is in
    waiting,    \* host: it has sent its request and reads the status
    block,      \* host: the block it writes
    speed,      \* host: args.speed
    hostSpeed,  \* port.baudrate
    wire,       \* bytes from the host on the line
    fifo,       \* bytes in the phone's receive FIFO
    up,         \* status bytes on their way to the host
    stage,      \* phone: what it does
    command,    \* phone: the command it serves
    args,       \* phone: the words of the command, so far
    got,        \* phone: the bytes read for the current word or buffer
    deviceSpeed,
    extram,     \* phone: the external RAM is mapped where the payload goes
    ram,        \* phone: what lies at the address of each block
    entry,      \* phone: the address it has jumped to
    faults,     \* damaged and lost bytes so far
    blind,      \* one of them was a command or part of an address, or made a write one of nothing
    overrun     \* the FIFO has lost a byte

host == <<phase, waiting, block, speed, hostSpeed>>
device == <<stage, command, args, got, deviceSpeed, extram, ram, entry>>
line == <<faults, blind, overrun>>
vars == <<host, wire, fifo, up, device, line>>

-----------------------------------------------------------------------------
\* Bytes, requests and blocks.

Commands == {"PING", "INIT_EXTRAM", "GOTO", "SET_SPEED", "WRITE_RAM_LZ4", "RAM_WRITE"}

ByteAt(kind, value, k, baud) == [kind |-> kind, value |-> value, pos |-> k, speed |-> baud]
Field(kind, value, size) == [k \in 1 .. size |-> ByteAt(kind, value, k, hostSpeed)]
Word(kind, value) == Field(kind, value, WordBytes)

\* A field as the phone keeps it in memory, without the line's speed.
Content(bytes) == [k \in 1 .. Len(bytes) |-> <<bytes[k].kind, bytes[k].value, bytes[k].pos>>]
Intact(kind, value, size) == [k \in 1 .. size |-> <<kind, value, k>>]
Block(k) == Intact("data", k, BlockSize)
Unknown == <<>>

\* struct.pack of a command and its words, then data and CRC
PingRequest == Field("PING", 0, 1)
SpeedRequest == Field("SET_SPEED", 0, 1) \o Word("speed", speed)
ExtramRequest == Field("INIT_EXTRAM", 0, 1) \o Word("address", 0) \o Word("size", ExtramSize)
RawRequest(k) ==
    Field("RAM_WRITE", 0, 1) \o Word("address", k) \o Word("size", BlockSize)
      \o Field("data", k, BlockSize) \o Word("crc", k)
PackedRequest(k) ==
    Field("WRITE_RAM_LZ4", 0, 1) \o Word("address", k) \o Word("size", PackedSize)
      \o Word("size", BlockSize) \o Field("packed", k, PackedSize) \o Word("crc", k)
GotoRequest == Field("GOTO", 0, 1) \o Word("address", Exec)

WordValues(bytes) ==
    LET c == Content(bytes)
    IN  IF \E kind \in {"speed", "address", "size"} : c = Intact(kind, c[1][2], WordBytes)
        THEN {c[1][2]} ELSE Words

CommandValues(byte) == IF byte.kind \in Commands THEN {byte.kind} ELSE Commands \cup {"unknown"}

-----------------------------------------------------------------------------
\* The host, boot.py.

HostDone == phase \in {"forward", "exit"}

AfterSpeed == IF UseExtram THEN "extram" ELSE "write"

\* What main() does after the step it is in; the block counter is moved by Advance.
NextPhase ==
    CASE phase = "ready" -> "speed"
      [] phase = "ping" -> AfterSpeed
      [] phase = "extram" -> "write"
      [] phase = "write" /\ block < Blocks -> "write"
      [] phase = "write" /\ block >= Blocks -> "goto"
      [] phase = "goto" -> "forward"

Expected ==
    CASE phase = "ready" -> "READY" [] phase = "ping" -> "PONG" [] OTHER -> "SUCCESS"

\* The requests whose status the host reads before it goes on.
Bug_WriteUnanswered(p) == p \in {"ready", "ping", "extram", "goto"}
Answered(p) == p \in {"ready", "ping", "extram", "write", "goto"}

Advance ==
    /\ phase' = NextPhase
    /\ block' = IF phase = "write" THEN block + 1 ELSE block
    /\ waiting' = FALSE

Send(request) ==
    /\ wire' = wire \o request
    /\ IF Answered(phase)
       THEN waiting' = TRUE /\ UNCHANGED <<phase, block>>
       ELSE Advance
    /\ UNCHANGED <<speed, hostSpeed, fifo, up, device, line>>

\* preloader_set_speed to the speed the line already has: only a ping.
KeepSpeed ==
    /\ phase = "speed"
    /\ speed = hostSpeed
    /\ wire' = wire \o PingRequest
    /\ phase' = "ping"
    /\ waiting' = TRUE
    /\ UNCHANGED <<block, speed, hostSpeed, fifo, up, device, line>>

SetSpeed ==
    /\ phase = "speed"
    /\ speed # hostSpeed
    /\ wire' = wire \o SpeedRequest
    /\ phase' = "switch"
    /\ UNCHANGED <<waiting, block, speed, hostSpeed, fifo, up, device, line>>

\* port.flush(); port.baudrate = speed: the request has left the host, but the phone
\* need not have taken it out of its FIFO.  DeviceKeepsUp leaves out that race: it is
\* time, not the code, that decides it.
SwitchSpeed ==
    /\ phase = "switch"
    /\ wire = <<>>
    /\ DeviceKeepsUp => fifo = <<>> /\ got = <<>>
    /\ hostSpeed' = speed
    /\ phase' = "ping"
    /\ UNCHANGED <<waiting, block, speed, wire, fifo, up, device, line>>

Ping == phase = "ping" /\ ~waiting /\ Send(PingRequest)

InitExtram == phase = "extram" /\ ~waiting /\ Send(ExtramRequest)

\* One turn of preloader_write_payload.
WriteBlock ==
    /\ phase = "write"
    /\ ~waiting
    /\ Send(IF block \in Packed THEN PackedRequest(block) ELSE RawRequest(block))

Goto == phase = "goto" /\ ~waiting /\ Send(GotoRequest)

\* expect_byte: the status that was asked for, or a ProtocolError and the end.
ReadStatus ==
    /\ waiting
    /\ ~HostDone
    /\ up # <<>>
    /\ up' = Tail(up)
    /\ IF Head(up).speed = hostSpeed /\ Head(up).status = Expected
       THEN Advance
       ELSE phase' = "exit" /\ waiting' = FALSE /\ UNCHANGED block
    /\ UNCHANGED <<speed, hostSpeed, wire, fifo, device, line>>

\* The bytes usart_read was asked for.
Needed ==
    CASE stage \in {"word", "crc"} -> WordBytes
      [] stage \in {"raw", "packed", "discard"} -> args[2]
      [] OTHER -> 0

\* The phone polls its FIFO, or it listens to nobody.
Listening == stage \notin {"reset", "running"}
Polling ==
    \/ stage \in {"command", "await_ping"}
    \/ stage \in {"word", "raw", "packed", "discard", "crc"} /\ Len(got) < Needed
Quiet == wire = <<>> /\ fifo = <<>> /\ (Polling \/ ~Listening)

\* read_byte without data: port.timeout bounds every wait.
Bug_NoTimeoutOfPing(p) == p \in {"ready", "extram", "write", "goto"}
TimesOut(p) == p \in {"ready", "ping", "extram", "write", "goto"}

HostTimeout ==
    /\ waiting
    /\ ~HostDone
    /\ TimesOut(phase)
    /\ Quiet /\ up = <<>>
    /\ phase' = "exit"
    /\ waiting' = FALSE
    /\ UNCHANGED <<block, speed, hostSpeed, wire, fifo, up, device, line>>

-----------------------------------------------------------------------------
\* The line and the receive FIFO.

\* The bits of a byte sent at another speed are read as some other byte.
Received(byte) == IF byte.speed = deviceSpeed THEN byte ELSE [byte EXCEPT !.kind = "junk"]

\* A phone that polls keeps up with the line; one that computes does not look.
Computing == stage \in {"start", "decompress", "check"}
HasRoom(bytes) == Len(bytes) < FifoSize

Deliver(byte) ==
    CASE ~Listening -> UNCHANGED <<fifo, overrun>>
      [] Listening /\ HasRoom(fifo) -> fifo' = Append(fifo, byte) /\ UNCHANGED overrun
      [] Listening /\ ~HasRoom(fifo) -> overrun' = TRUE /\ UNCHANGED fifo

MayArrive == wire # <<>> /\ (Computing \/ ~Listening \/ HasRoom(fifo))

Arrive ==
    /\ MayArrive
    /\ wire' = Tail(wire)
    /\ Deliver(Received(Head(wire)))
    /\ UNCHANGED <<host, up, device, faults, blind>>

\* The CRC covers neither the command nor the address.
Uncovered(byte) == byte.kind \in Commands \cup {"address"}

Damage ==
    /\ MayArrive
    /\ faults < MaxFaults
    /\ wire' = Tail(wire)
    /\ Deliver([Head(wire) EXCEPT !.kind = "junk"])
    /\ faults' = faults + 1
    /\ blind' = (blind \/ Uncovered(Head(wire)))
    /\ UNCHANGED <<host, up, device>>

Lose ==
    /\ wire # <<>>
    /\ faults < MaxFaults
    /\ wire' = Tail(wire)
    /\ faults' = faults + 1
    /\ blind' = (blind \/ Head(wire).kind \in Commands)
    /\ UNCHANGED <<host, fifo, up, device, overrun>>

DamageStatus ==
    /\ up # <<>>
    /\ faults < MaxFaults
    /\ up' = <<[Head(up) EXCEPT !.status = "junk"]>> \o Tail(up)
    /\ faults' = faults + 1
    /\ UNCHANGED <<host, wire, fifo, device, blind, overrun>>

LoseStatus ==
    /\ up # <<>>
    /\ faults < MaxFaults
    /\ up' = Tail(up)
    /\ faults' = faults + 1
    /\ UNCHANGED <<host, wire, fifo, device, blind, overrun>>

-----------------------------------------------------------------------------
\* The preloader, main.c.

Put(status) == up' = Append(up, [status |-> status, speed |-> deviceSpeed])

ToCommand ==
    /\ stage' = "command"
    /\ command' = "none"
    /\ args' = <<>>
    /\ got' = <<>>

\* dtcm_enable, wdt_init, then the ready byte
Start ==
    /\ stage = "start"
    /\ ToCommand
    /\ Put("READY")
    /\ UNCHANGED <<host, wire, fifo, deviceSpeed, extram, ram, entry, line>>

TakeCommand ==
    /\ stage = "command"
    /\ fifo # <<>>
    /\ fifo' = Tail(fifo)
    /\ \E c \in CommandValues(Head(fifo)) :
         \/ c = "unknown" /\ UNCHANGED <<up, stage, command, args, got>>
         \/ c = "PING" /\ Put("PONG") /\ UNCHANGED <<stage, command, args, got>>
         \/ /\ c \notin {"unknown", "PING"}
            /\ stage' = "word"
            /\ command' = c
            /\ UNCHANGED <<up, args, got>>
    /\ UNCHANGED <<host, wire, deviceSpeed, extram, ram, entry, line>>

WordCount(c) ==
    CASE c \in {"GOTO", "SET_SPEED"} -> 1
      [] c \in {"INIT_EXTRAM", "RAM_WRITE"} -> 2
      [] c = "WRITE_RAM_LZ4" -> 3

\* usart_read takes one byte after the other out of the FIFO.
TakeByte ==
    /\ stage \in {"word", "raw", "packed", "discard", "crc"}
    /\ Len(got) < Needed
    /\ fifo # <<>>
    /\ fifo' = Tail(fifo)
    /\ got' = Append(got, Head(fifo))
    /\ UNCHANGED <<host, wire, up, stage, command, args, deviceSpeed, extram, ram, entry, line>>

\* A word is complete and another one follows.
TakeWord ==
    /\ stage = "word"
    /\ Len(got) = WordBytes
    /\ Len(args) + 1 < WordCount(command)
    /\ \E w \in WordValues(got) : args' = Append(args, w)
    /\ got' = <<>>
    /\ UNCHANGED <<host, wire, fifo, up, stage, command, deviceSpeed, extram, ram, entry, line>>

\* The last word of command c is complete, with value w.
LastWord(c, w) ==
    /\ stage = "word"
    /\ command = c
    /\ Len(got) = WordBytes
    /\ Len(args) + 1 = WordCount(c)
    /\ w \in WordValues(got)

\* cmd_set_speed: reprogram the USART, then wait for a ping at the new speed.
CmdSetSpeed ==
    \E w \in Words :
        /\ LastWord("SET_SPEED", w)
        /\ deviceSpeed' = w
        /\ stage' = "await_ping"
        /\ args' = <<>>
        /\ got' = <<>>
        /\ UNCHANGED <<host, wire, fifo, up, command, extram, ram, entry, line>>

AwaitPing ==
    /\ stage = "await_ping"
    /\ fifo # <<>>
    /\ fifo' = Tail(fifo)
    /\ \E c \in CommandValues(Head(fifo)) :
         \/ c = "PING" /\ Put("PONG") /\ ToCommand
         \/ c # "PING" /\ UNCHANGED <<up, stage, command, args, got>>
    /\ UNCHANGED <<host, wire, deviceSpeed, extram, ram, entry, line>>

\* cmd_init_extram: only the host's own address and size map the RAM where the payload
\* goes; others are refused, or accepted for a window elsewhere.
CmdInitExtram ==
    \E w \in Words :
        /\ LastWord("INIT_EXTRAM", w)
        /\ \/ /\ args[1] = 0 /\ w = ExtramSize
              /\ Put("SUCCESS") /\ extram' = TRUE
           \/ /\ ~(args[1] = 0 /\ w = ExtramSize)
              /\ \/ Put("SUCCESS") /\ extram' = FALSE
                 \/ Put("FAILURE") /\ UNCHANGED extram
        /\ ToCommand
        /\ UNCHANGED <<host, wire, fifo, deviceSpeed, ram, entry, line>>

\* cmd_goto: answer, flush, jump; from here on the USART is the payload's.
CmdGoto ==
    \E w \in Words :
        /\ LastWord("GOTO", w)
        /\ Put("SUCCESS")
        /\ entry' = w
        /\ stage' = "running"
        /\ fifo' = <<>>
        /\ UNCHANGED <<host, wire, command, args, got, deviceSpeed, extram, ram, line>>

\* The size checks of cmd_write_ram_lz4.
Bug_AtLeastBlockSize(size) == size >= BlockSize
TooLarge(size) == size > BlockSize

\* The arguments of a write are complete: read the data, or read it away.
CmdWrite ==
    \E c \in {"RAM_WRITE", "WRITE_RAM_LZ4"}, w \in Words :
        /\ LastWord(c, w)
        /\ args' = Append(args, w)
        /\ stage' = CASE c = "RAM_WRITE" -> "raw"
                      [] c = "WRITE_RAM_LZ4" /\ (TooLarge(args[2]) \/ TooLarge(w)) -> "discard"
                      [] OTHER -> "packed"
        /\ got' = <<>>
        /\ UNCHANGED <<host, wire, fifo, up, command, deviceSpeed, extram, ram, entry, line>>

\* Memory at `address` takes `size` bytes of `content`, if there is memory.
Store(address, size, content) ==
    ram' = IF size > 0 /\ address \in 1 .. Blocks /\ (UseExtram => extram)
           THEN [ram EXCEPT ![address] = content] ELSE ram

\* cmd_ram_write reads straight into the memory, before it has seen the CRC.
StoreRaw ==
    /\ stage = "raw"
    /\ Len(got) = Needed
    /\ Store(args[1], args[2], Content(got))
    /\ stage' = "crc"
    /\ got' = <<>>
    /\ UNCHANGED <<host, wire, fifo, up, command, args, deviceSpeed, extram, entry, line>>

Discarded ==
    /\ stage = "discard"
    /\ Len(got) = Needed
    /\ stage' = "crc"
    /\ command' = "invalid"
    /\ got' = <<>>
    /\ UNCHANGED <<host, wire, fifo, up, args, deviceSpeed, extram, ram, entry, line>>

ReadPacked ==
    /\ stage = "packed"
    /\ Len(got) = Needed
    /\ stage' = "decompress"
    /\ UNCHANGED <<host, wire, fifo, up, command, args, got, deviceSpeed, extram, ram, entry, line>>

\* lz4_decompress, while the CRC is still arriving: a compressed block gives back the
\* block, if that is the size asked for.  Anything else is refused or decoded into
\* something else.
Unpacks(k) == Content(got) = Intact("packed", k, PackedSize) /\ args[3] = BlockSize

Decompress ==
    /\ stage = "decompress"
    /\ \/ \E k \in 1 .. Blocks : Unpacks(k) /\ Store(args[1], args[3], Block(k)) /\ UNCHANGED command
       \/ /\ \A k \in 1 .. Blocks : ~Unpacks(k)
          /\ Store(args[1], args[3], Unknown)
          /\ command' \in {command, "invalid"}
    /\ stage' = "crc"
    /\ got' = <<>>
    /\ UNCHANGED <<host, wire, fifo, up, args, deviceSpeed, extram, entry, line>>

\* The received CRC is that of what lies in memory.
Bug_CrcOfNothing(address, bytes) == TRUE
CrcMatches(address, bytes) ==
    \E k \in 1 .. Blocks :
        /\ Content(bytes) = Intact("crc", k, WordBytes)
        /\ address \in 1 .. Blocks
        /\ ram[address] = Block(k)

\* size of cmd_ram_write, output_size of cmd_write_ram_lz4: the last word of either.
WrittenSize == args[Len(args)]

\* The CRC of no bytes at all is ~CRC32_INITIAL_VALUE = 0: four zero bytes match it, and
\* what is read in the place of the CRC then is data, which may be zero or not.
CrcResults == IF WrittenSize = 0 THEN BOOLEAN ELSE {CrcMatches(args[1], got)}

ReadCrc ==
    /\ stage = "crc"
    /\ Len(got) = WordBytes
    /\ stage' = "check"
    /\ UNCHANGED <<host, wire, fifo, up, command, args, got, deviceSpeed, extram, ram, entry, line>>

Check ==
    /\ stage = "check"
    /\ \E matches \in CrcResults :
         /\ Put(IF command # "invalid" /\ matches THEN "SUCCESS" ELSE "FAILURE")
         /\ blind' = (blind \/ (WrittenSize = 0 /\ command # "invalid" /\ matches))
    /\ ToCommand
    /\ UNCHANGED <<host, wire, fifo, deviceSpeed, extram, ram, entry, faults, overrun>>

\* Polling the FIFO does not serve the watchdog: a preloader nobody talks to is reset.
Bug_ServedWhilePolling(s) == s \notin {"reset", "running", "command"}
Watched(s) == s \notin {"reset", "running"}

WatchdogReset ==
    /\ Watched(stage)
    /\ Quiet
    /\ HostDone \/ (waiting /\ up = <<>>)
    /\ stage' = "reset"
    /\ UNCHANGED <<host, wire, fifo, up, command, args, got, deviceSpeed, extram, ram, entry, line>>

-----------------------------------------------------------------------------

Init ==
    /\ phase = "ready" /\ waiting = TRUE /\ block = 1
    /\ speed \in Speeds /\ hostSpeed = BootSpeed
    /\ wire = <<>> /\ fifo = <<>> /\ up = <<>>
    /\ stage = "start" /\ command = "none" /\ args = <<>> /\ got = <<>>
    /\ deviceSpeed = BootSpeed
    /\ extram = FALSE
    /\ ram = [k \in 1 .. Blocks |-> Unknown]
    /\ entry = 0
    /\ faults = 0 /\ blind = FALSE /\ overrun = FALSE

HostSteps ==
    KeepSpeed \/ SetSpeed \/ SwitchSpeed \/ Ping \/ InitExtram \/ WriteBlock \/ Goto \/ ReadStatus

DeviceSteps ==
    \/ Start \/ TakeCommand \/ TakeByte \/ TakeWord \/ CmdSetSpeed \/ AwaitPing
    \/ CmdInitExtram \/ CmdGoto \/ CmdWrite \/ StoreRaw \/ Discarded \/ ReadPacked
    \/ Decompress \/ ReadCrc \/ Check

Faults == Damage \/ Lose \/ DamageStatus \/ LoseStatus

Next == HostSteps \/ HostTimeout \/ DeviceSteps \/ Arrive \/ Faults \/ WatchdogReset

\* Both programs run on, the line delivers, a silent phone is reset, a silent host gives
\* up.  No fairness for the faults.
Fairness ==
    /\ WF_vars(HostSteps)
    /\ WF_vars(HostTimeout)
    /\ WF_vars(DeviceSteps)
    /\ WF_vars(Arrive)
    /\ WF_vars(WatchdogReset)

Spec == Init /\ [][Next]_vars /\ Fairness

-----------------------------------------------------------------------------

Kinds == Commands \cup {"speed", "address", "size", "data", "packed", "crc", "junk"}
Bytes == [kind : Kinds, value : Words, pos : Nat, speed : Words]
Statuses == [status : {"READY", "PONG", "SUCCESS", "FAILURE", "junk"}, speed : Words]
Stages == {"start", "command", "word", "await_ping", "raw", "packed", "discard", "decompress",
           "crc", "check", "running", "reset"}

\* The types of both programs' state; the FIFO never holds more than it can.
TypeOK ==
    /\ phase \in {"ready", "speed", "switch", "ping", "extram", "write", "goto", "forward", "exit"}
    /\ waiting \in BOOLEAN
    /\ block \in 1 .. Blocks + 1
    /\ speed \in Speeds /\ hostSpeed \in Words /\ deviceSpeed \in Words
    /\ wire \in Seq(Bytes) /\ fifo \in Seq(Bytes) /\ got \in Seq(Bytes)
    /\ Len(fifo) <= FifoSize
    /\ up \in Seq(Statuses)
    /\ stage \in Stages
    /\ command \in Commands \cup {"none", "invalid"}
    /\ args \in Seq(Words) /\ Len(args) <= 3
    /\ extram \in BOOLEAN
    /\ DOMAIN ram = 1 .. Blocks
    /\ entry \in Words
    /\ faults \in 0 .. MaxFaults
    /\ blind \in BOOLEAN /\ overrun \in BOOLEAN

\* What boot.py prints as loaded is loaded: when the host goes on to forward the phone's
\* output, the phone has jumped to exec_address with every block of the payload in
\* place, unless a fault hit a command or an address, which no CRC covers, or made the
\* size of a write zero in front of zero bytes: cmd_ram_write then answers SUCCESS for
\* nothing written, and what follows is taken for commands.
PayloadIntact ==
    phase = "forward" /\ ~blind =>
        /\ stage = "running"
        /\ entry = Exec
        /\ \A k \in 1 .. Blocks : ram[k] = Block(k)

\* The host never starts a request while a status of an earlier one is on its way: the
\* status it reads next is always the answer to what it sends next (with the same
\* exceptions).
InStep == ~waiting /\ ~HostDone /\ ~blind => up = <<>>

\* The receive FIFO never overflows: not while lz4_decompress runs and the CRC of the
\* block is still arriving, not during the CRC, not between two requests.
NoOverrun == ~overrun

\* The host always comes to an end: the payload is started or an error is reported.
HostEnds == <>HostDone

\* A host that gives up in the middle of anything leaves a phone that a new session can
\* use: the watchdog resets a preloader that waits for bytes nobody sends.
PhoneRecovers == phase = "exit" ~> stage \in {"reset", "running"}

\* On a line without faults the payload is started.
BootCompletes == <>(phase = "forward" /\ stage = "running")
=============================================================================
