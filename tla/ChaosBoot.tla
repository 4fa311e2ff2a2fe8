----------------------------- MODULE ChaosBoot -----------------------------
(***************************************************************************)
(* chaos-boot.py against the PV boot code (boot/pv_boot_x85.S): writing,   *)
(* reading back and starting a program in the phone's RAM over a line that *)
(* damages or loses bytes.                                                 *)
(*                                                                         *)
(* The phone takes one command after the other from the line and answers;  *)
(* what it has received of an unfinished command stays in `up`.  The host  *)
(* has no means to discard: what it does not read stays in `down`.         *)
(* An address and a size are one byte each.                                *)
(*                                                                         *)
(* Every byte of every message may be damaged or lost, on both ways.  Some *)
(* of them are protected by nothing; `blind` remembers that one was hit.   *)
(* SerialPort.read waits for 0.2 s and 0.2 s more per byte.  That is more  *)
(* than the phone takes for what it is sent, but for a whole block at      *)
(* 57600 baud: its 3594 bytes take 0.624 s, and read(2) waits for 0.6 s.   *)
(***************************************************************************)
EXTENDS Integers, Sequences, FiniteSets, FiniteSetsExt

CONSTANTS
    Payload,     \* the bytes written to addresses 1, 2, ...
    OldRams,     \* what the RAM may hold there before
    Chunk,       \* FLASHER_CHUNK_SIZE: bytes per block
    Sessions,    \* sequences of tasks: "ping", "speed", "write", "read", "goto"
    ReadTries,   \* 10 in chaos_read_ram
    WriteTries,  \* 999999 in chaos_write_ram
    Noise,       \* what a damaged byte may become
    MaxFaults    \* bound: bytes damaged or lost and waits that end too early, in a session

ASSUME ChaosAssumption ==
    /\ Payload \in Seq(0 .. 255) /\ Payload # <<>>
    /\ OldRams \subseteq [DOMAIN Payload -> 0 .. 255]
    /\ Chunk \in 1 .. 255
    /\ Noise \subseteq 0 .. 255
    /\ {ReadTries, WriteTries, MaxFaults} \subseteq Nat

\* main: a ping, then maybe another speed, then the tasks; a program is started at
\* the end, and was written before.
ASSUME SessionsAssumption ==
    \A s \in Sessions :
        /\ s \in Seq({"ping", "speed", "read", "write", "goto"}) /\ s # <<>>
        /\ \A i \in DOMAIN s :
             /\ s[i] = "ping" <=> i = 1
             /\ s[i] = "speed" => i = 2
             /\ s[i] = "goto" => i = Len(s) /\ \E j \in 1 .. i : s[j] = "write"

VARIABLES
    up, down,    \* bytes on their way to the phone, to the host
    ram,         \* the RAM the payload is written to
    phone,       \* "loop", "speed" (waiting for the 'A' at the new speed), "jumped", "other"
    target,      \* the address jumped to
    fast,        \* per side: it has changed the speed
    todo,        \* tasks left, the current one first
    offset,      \* bytes of the current task that are done
    host,        \* what the host waits for; "send", "done", "exit"
    tries,       \* left for this block
    file,        \* what chaos_read_ram has collected
    faults,      \* damaged and lost bytes and waits that ended too early, so far
    blind        \* one of them hit what is protected by nothing

vars == <<up, down, ram, phone, target, fast, todo, offset, host, tries, file, faults, blind>>

(***************************************************************************)
(* The line damages or loses a byte of a message m.  The XOR covers a      *)
(* block's data, the copies of the address cover each other in a goto, and *)
(* an answer is checked by what it says.  Nothing covers the command, the  *)
(* address and the size of a request on their way to the phone; with the   *)
(* keep-alive in front of them they are the bytes of m up to `d` for       *)
(* damage and up to `l` for loss.  Nor does anything cover a byte that     *)
(* becomes a command of the phone (`codes`) where the phone looks for one. *)
(***************************************************************************)
Damaged(m, i, b) == [m EXCEPT ![i] = b]
Lost(m, i) == SubSeq(m, 1, i - 1) \o SubSeq(m, i + 1, Len(m))

\* A receiver at another speed gets nothing.
Arrives(channel, channel_, bytes) ==
    channel_ = IF fast.host = fast.phone THEN channel \o bytes ELSE channel

Sent(channel, channel_, m, d, l, codes) ==
    \/ Arrives(channel, channel_, m) /\ UNCHANGED <<faults, blind>>
    \/ /\ faults < MaxFaults
       /\ faults' = faults + 1
       /\ \E i \in 1 .. Len(m) :
            \/ /\ Arrives(channel, channel_, Lost(m, i))
               /\ blind' = (blind \/ i <= l)
            \/ \E b \in Noise \ {m[i]} :
                 /\ Arrives(channel, channel_, Damaged(m, i, b))
                 /\ blind' = (blind \/ i <= d \/ b \in codes)

\* The XOR of all bytes, bit by bit: `bit` is the value of the bit.
Parity(s, bit) == Cardinality({i \in 1 .. Len(s) : (s[i] \div bit) % 2 = 1}) % 2
xor_checksum(s) ==
    Parity(s, 1) + 2 * Parity(s, 2) + 4 * Parity(s, 4) + 8 * Parity(s, 8)
        + 16 * Parity(s, 16) + 32 * Parity(s, 32) + 64 * Parity(s, 64) + 128 * Parity(s, 128)

(***************************************************************************)
(* The phone.                                                              *)
(***************************************************************************)
OK == <<79, 75>>
ChecksumError == <<187, 187>>
GotoError == <<170>>
CmdPing == 65
Pong == <<82>>
CmdSpeed == 72
CmdRead == 82
CmdWrite == 87
CmdGoto == 71
\* Information, quit, test, flash, erase, patch, OTP, CFI, RAM test and address
OtherCommands == {73, 81, 84, 70, 69, 80, 79, 67, 88, 86}
KeepAlive == 46
SpeedSoon == <<104>>
SpeedDone == <<72>>
Commands == {CmdPing, CmdSpeed, CmdRead, CmdWrite, CmdGoto} \cup OtherCommands

\* A request, and the data of a block.
SentUp(m, d, l) == Sent(up, up', m, d, l, Commands)
SentBlock(m, d) == Sent(up, up', m, d, d, {})

\* Bytes of the command at the head of s.  Bytes that are no command, and '.',
\* stand for themselves.
CommandSize(s) ==
    CASE s[1] \in {CmdRead, CmdGoto} -> 3
      [] s[1] = CmdSpeed             -> 2
      [] s[1] = CmdWrite             -> IF Len(s) < 3 THEN 3 ELSE 3 + s[3] + 1
      [] OTHER                       -> 1

Takes(c) ==
    /\ phone = "loop" /\ up # <<>> /\ up[1] = c /\ Len(up) >= CommandSize(up)
    /\ up' = SubSeq(up, CommandSize(up) + 1, Len(up))

\* The answers of the phone.
Answers(m) == Sent(down, down', m, 0, 0, {})
HostWaits == UNCHANGED <<todo, offset, host, tries, file>>

cmd_ping ==
    /\ Takes(CmdPing)
    /\ Answers(Pong)
    /\ UNCHANGED <<ram, phone, target, fast>> /\ HostWaits

\* 'h' is still sent at the old speed.
cmd_speed ==
    /\ Takes(CmdSpeed)
    /\ Answers(SpeedSoon)
    /\ phone' = "speed"
    /\ fast' = [fast EXCEPT !.phone = TRUE]
    /\ UNCHANGED <<ram, target>> /\ HostWaits

SpeedConfirmed ==
    /\ phone = "speed" /\ up # <<>>
    /\ up' = Tail(up)
    /\ IF Head(up) = CmdPing
       THEN phone' = "loop" /\ Answers(SpeedDone)
       ELSE UNCHANGED <<phone, down, faults, blind>>
    /\ UNCHANGED <<ram, target, fast>> /\ HostWaits

\* The bytes from addr on; what lies behind the payload reads as 0.
Memory(addr, n) ==
    [i \in 1 .. n |-> IF addr + i - 1 \in DOMAIN ram THEN ram[addr + i - 1] ELSE 0]

cmd_read ==
    /\ Takes(CmdRead)
    /\ LET data == Memory(up[2], up[3])
       IN  Answers(data \o OK \o <<xor_checksum(data), 0>>)
    /\ UNCHANGED <<ram, phone, target, fast>> /\ HostWaits

Bug_NeverRefused(data, check) == OK
BlockAnswer(data, check) == IF xor_checksum(data) = check THEN OK ELSE ChecksumError

\* rx_memblk stores while it receives: a block that fails its check is stored.
cmd_write ==
    /\ Takes(CmdWrite)
    /\ LET data == SubSeq(up, 4, 3 + up[3])
       IN  /\ ram' = [i \in DOMAIN ram |-> IF i \in up[2] .. up[2] + up[3] - 1
                                           THEN data[i - up[2] + 1] ELSE ram[i]]
           /\ Answers(BlockAnswer(data, up[4 + up[3]]))
    /\ UNCHANGED <<phone, target, fast>> /\ HostWaits

\* The answer to a goto is as long as an address, longer than GotoError.
Echo(addr) == <<addr, 0>>

\* The address comes three times; the phone compares two of them and leaves the
\* third on the line.
cmd_goto ==
    /\ Takes(CmdGoto)
    /\ IF up[2] = up[3]
       THEN phone' = "jumped" /\ target' = up[2] /\ Answers(Echo(up[2]))
       ELSE Answers(GotoError) /\ UNCHANGED <<phone, target>>
    /\ UNCHANGED <<ram, fast>> /\ HostWaits

\* '.', and what is no command.
OtherByte ==
    /\ phone = "loop" /\ up # <<>>
    /\ up[1] \notin Commands
    /\ up' = Tail(up)
    /\ UNCHANGED <<down, faults, blind, ram, phone, target, fast>> /\ HostWaits

\* A command that these tasks do not use: from here on the phone is not followed.
OtherCommand ==
    /\ phone = "loop" /\ up # <<>>
    /\ up[1] \in OtherCommands
    /\ phone' = "other" /\ up' = Tail(up)
    /\ UNCHANGED <<down, faults, blind, ram, target, fast>> /\ HostWaits

Phone ==
    \/ cmd_ping \/ cmd_speed \/ SpeedConfirmed \/ cmd_read \/ cmd_write \/ cmd_goto
    \/ OtherByte \/ OtherCommand

(***************************************************************************)
(* The host.                                                               *)
(***************************************************************************)
Task == IF todo = <<>> THEN "none" ELSE Head(todo)
PhoneWaits == UNCHANGED <<ram, phone, target>>

Base == 1
BlockSize == Min({Chunk, Len(Payload) - offset})
BlockData == SubSeq(Payload, offset + 1, offset + BlockSize)

\* The keep-alive that every task starts with.
Alive == IF offset = 0 THEN <<KeepAlive>> ELSE <<>>

WriteRequest ==
    <<CmdWrite, Base + offset, BlockSize>> \o BlockData \o <<xor_checksum(BlockData)>>
ReadRequest == <<CmdRead, Base + offset, BlockSize>>
GotoRequest == <<CmdGoto, Base, Base, Base>>

\* The phone will not send more by itself.
Quiet == phone \in {"jumped", "other"} \/ up = <<>> \/ (phone = "loop" /\ up # <<>> /\ Len(up) < CommandSize(up))

Bug_NoTimeout(wanted) ==
    /\ Len(down) >= wanted
    /\ down' = SubSeq(down, wanted + 1, Len(down))

\* SerialPort.read(wanted) returns all of it, or less after the time-out.
ReadReturns(wanted) ==
    /\ Len(down) >= wanted \/ Quiet
    /\ down' = SubSeq(down, wanted + 1, Len(down))

Received(wanted) == SubSeq(down, 1, Min({wanted, Len(down)}))

\* The next n bytes of the task are done, and the task with the last of them.
Advance(n) ==
    /\ host' = IF offset + n >= Len(Payload) /\ Len(todo) = 1 THEN "done" ELSE "send"
    /\ IF offset + n >= Len(Payload)
       THEN todo' = Tail(todo) /\ offset' = 0
       ELSE offset' = offset + n /\ UNCHANGED todo

TaskDone == Advance(Len(Payload))

Exit == host' = "exit" /\ UNCHANGED <<up, faults, blind, todo, offset, tries, file>>

SendPing ==
    /\ host = "send" /\ Task = "ping"
    /\ SentUp(<<CmdPing>>, 0, 0)
    /\ host' = "pong"
    /\ PhoneWaits /\ UNCHANGED <<down, fast, todo, offset, tries, file>>

SendSpeed ==
    /\ host = "send" /\ Task = "speed"
    /\ SentUp(<<CmdSpeed, 7>>, 2, 2)
    /\ host' = "speed"
    /\ PhoneWaits /\ UNCHANGED <<down, fast, todo, offset, tries, file>>

SendBlock ==
    /\ host = "send" /\ Task = "write"
    /\ SentBlock(Alive \o WriteRequest, Len(Alive) + 3)
    /\ host' = "ack"
    /\ tries' = WriteTries
    /\ PhoneWaits /\ UNCHANGED <<down, fast, todo, offset, file>>

SendRead ==
    /\ host = "send" /\ Task = "read"
    /\ SentUp(Alive \o ReadRequest, Len(Alive) + 3, Len(Alive) + 3)
    /\ host' = "data"
    /\ tries' = ReadTries
    /\ PhoneWaits /\ UNCHANGED <<down, fast, todo, offset, file>>

SendGoto ==
    /\ host = "send" /\ Task = "goto"
    /\ SentUp(GotoRequest, 1, 4)
    /\ host' = "echo"
    /\ PhoneWaits /\ UNCHANGED <<down, fast, todo, offset, tries, file>>

\* chaos_ping, at the start and between two attempts to read a block.
PongRead ==
    /\ host = "pong" /\ PhoneWaits /\ UNCHANGED fast
    /\ ReadReturns(1)
    /\ LET b == Received(1)
       IN  \/ /\ b = Pong /\ Task = "ping"
              /\ SentUp(<<KeepAlive>>, 0, 0)
              /\ TaskDone /\ UNCHANGED <<tries, file>>
           \/ /\ b = Pong /\ Task = "read"
              /\ SentUp(ReadRequest, 3, 3)
              /\ host' = "data" /\ UNCHANGED <<todo, offset, tries, file>>
           \/ b # Pong /\ Exit

\* chaos_set_speed: the host follows when the phone has said 'h'.
SpeedSoonRead ==
    /\ host = "speed" /\ PhoneWaits
    /\ ReadReturns(1)
    /\ LET b == Received(1)
       IN  \/ /\ b = SpeedSoon
              /\ fast' = [fast EXCEPT !.host = TRUE]
              /\ host' = "newspeed"
              /\ UNCHANGED <<up, faults, blind, todo, offset, tries, file>>
           \/ b # SpeedSoon /\ Exit /\ UNCHANGED fast

SendConfirm ==
    /\ host = "newspeed"
    /\ SentUp(<<CmdPing>>, 0, 0)
    /\ host' = "confirm"
    /\ PhoneWaits /\ UNCHANGED <<down, fast, todo, offset, tries, file>>

SpeedDoneRead ==
    /\ host = "confirm" /\ PhoneWaits
    /\ ReadReturns(1)
    /\ LET b == Received(1)
       IN  \/ /\ b = SpeedDone
              /\ TaskDone /\ UNCHANGED <<up, faults, blind, fast, tries, file>>
           \/ b # SpeedDone /\ Exit /\ fast' = [fast EXCEPT !.host = FALSE]

\* chaos_write_ram: anything but OK, and the block is sent again.
AckRead ==
    /\ host = "ack" /\ PhoneWaits /\ UNCHANGED fast
    /\ ReadReturns(2)
    /\ LET b == Received(2)
       IN  \/ b = OK /\ Advance(BlockSize) /\ UNCHANGED <<up, faults, blind, tries, file>>
           \/ b # OK /\ tries = 0 /\ Exit
           \/ /\ b # OK /\ tries > 0
              /\ tries' = tries - 1
              /\ SentBlock(<<KeepAlive>> \o WriteRequest, 4)
              /\ UNCHANGED <<todo, offset, host, file>>

\* The wait for the answer ends before the phone has received all of the block.  It counts as
\* a fault, and the block sent again is not hit by another one in this step.
AckLate ==
    /\ host = "ack" /\ PhoneWaits /\ UNCHANGED <<fast, blind, todo, offset, file>>
    /\ Len(down) < 2 /\ ~Quiet
    /\ faults < MaxFaults /\ faults' = faults + 1
    /\ down' = <<>>
    /\ IF tries = 0
       THEN host' = "exit" /\ UNCHANGED <<up, tries>>
       ELSE /\ tries' = tries - 1
            /\ Arrives(up, up', <<KeepAlive>> \o WriteRequest)
            /\ UNCHANGED host

Bug_ChecksumIgnored(b) ==
    /\ Len(b) = BlockSize + 4
    /\ SubSeq(b, BlockSize + 1, BlockSize + 2) = OK

\* A whole answer, "OK" behind the data, and the data's XOR.
Accepted(b) ==
    /\ Len(b) = BlockSize + 4
    /\ SubSeq(b, BlockSize + 1, BlockSize + 2) = OK
    /\ b[BlockSize + 4] * 256 + b[BlockSize + 3] = xor_checksum(SubSeq(b, 1, BlockSize))

DataRead ==
    /\ host = "data" /\ PhoneWaits /\ UNCHANGED fast
    /\ ReadReturns(BlockSize + 4)
    /\ LET b == Received(BlockSize + 4)
       IN  \/ /\ Accepted(b)
              /\ file' = file \o SubSeq(b, 1, BlockSize)
              /\ Advance(BlockSize) /\ UNCHANGED <<up, faults, blind, tries>>
           \/ /\ ~Accepted(b)
              /\ IF tries = 0 THEN Exit
                 ELSE /\ tries' = tries - 1
                      /\ SentUp(<<CmdPing>>, 0, 0)
                      /\ host' = "pong" /\ UNCHANGED <<todo, offset, file>>

\* chaos_goto tries again after a whole 0xAA only; a wrong echo is reported,
\* and that is all.
EchoRead ==
    /\ host = "echo" /\ PhoneWaits /\ UNCHANGED <<fast, tries, file>>
    /\ ReadReturns(2)
    /\ LET b == Received(2)
       IN  \/ Len(b) = 2 /\ TaskDone /\ UNCHANGED <<up, faults, blind>>
           \/ /\ Len(b) < 2 /\ b = GotoError
              /\ SentUp(<<KeepAlive>> \o GotoRequest, 2, 5)
              /\ UNCHANGED <<todo, offset, host>>
           \/ /\ Len(b) < 2 /\ b # GotoError
              /\ host' = "exit" /\ UNCHANGED <<up, faults, blind, todo, offset>>

Host ==
    \/ SendPing \/ SendSpeed \/ SendBlock \/ SendRead \/ SendGoto
    \/ PongRead \/ SpeedSoonRead \/ SendConfirm \/ SpeedDoneRead \/ AckRead
    \/ AckLate \/ DataRead \/ EchoRead

\* The boot code has been started (0xA5, 0x55, 0xAA).
Init ==
    /\ up = <<>> /\ down = <<>> /\ faults = 0 /\ blind = FALSE
    /\ ram \in OldRams
    /\ phone = "loop" /\ target = 0 /\ fast = [host |-> FALSE, phone |-> FALSE]
    /\ todo \in Sessions /\ offset = 0 /\ host = "send"
    /\ tries = ReadTries /\ file = <<>>

Next == Phone \/ Host

\* Both are programs that run on.
Spec == Init /\ [][Next]_vars /\ WF_vars(Phone) /\ WF_vars(Host)

(***************************************************************************)
(* Properties.                                                             *)
(***************************************************************************)
\* What the two programs stand up to: one byte damaged or lost where something covers it, or
\* one wait that ends too early.
Guarded == ~blind /\ faults <= 1

\* A program is started only where it was asked for and only when all of it is
\* in the RAM as the file has it, although an unanswered block makes the host
\* send it again behind the one the phone still waits for, and from then on
\* every OK is read for the block after its own.
StartedIntact ==
    phone = "jumped" /\ Guarded => target = Base /\ ram = Payload

\* Whatever chaos_read_ram puts into the file is what the RAM holds: neither bytes left
\* over by an earlier attempt, nor the answer to the ping between two attempts,
\* nor an OK left over by a write end up in the file.
FileIsRam ==
    [][file' # file /\ Guarded' => file' = file \o Memory(Base + offset, BlockSize)]_vars

\* The host comes to an end: it is never left with a phone that waits for the
\* rest of a block, and a block is written long before its tries are used up.
HostEnds == <>(host = "done" \/ (host = "exit" /\ Task # "write") \/ ~Guarded)
=============================================================================
