------------------------------ MODULE IoBridge ------------------------------
(***************************************************************************)
(* The I/O bridge (io_bridge/main.c on the phone, io_bridge/io_bridge.pm   *)
(* on the host): QEMU runs the phone's firmware, and every access it makes *)
(* to a peripheral is carried out on a real phone.  The phone answers one  *)
(* command after the other, from its main loop through a software          *)
(* interrupt, or from its IRQ handler, which keeps answering commands      *)
(* until QEMU's firmware has acknowledged the interrupt.  The host learns  *)
(* of an interrupt only from the answer to some command.                   *)
(*                                                                         *)
(* QEMU, its firmware and the peripherals are external.  A value is one    *)
(* byte that counts, followed by three that do not (Pad).                  *)
(***************************************************************************)
EXTENDS Integers, Sequences

CONSTANTS
    Irqs,        \* numbers of the interrupts the peripherals raise
    Values,      \* values written to and read from the plain register
    MaxHellos    \* how often the host says "OK" before the phone answers

ASSUME BridgeAssumption ==
    /\ Irqs \subseteq 1 .. 255
    /\ Values \subseteq 0 .. 255
    /\ 0 \in Values
    /\ MaxHellos \in Nat

VARIABLES
    up, down,       \* bytes on their way to the phone, to the host
    pc,             \* where the phone's program is
    inIrq,          \* irq_handler is running: the argument of command_handler
    back,           \* where irq_handler returns to
    frame,          \* bytes of the command being read
    current_irq,
    data,           \* the plain register
    line,           \* the interrupt a peripheral asks for, 0 for none
    host,           \* what the host waits for, "next" between two commands
    phase,          \* "greet", "connect", "serve": how far boot_module_init is
    hellos,
    last_irq,       \* the number sent to QEMU last, -1 for none
    req,            \* QEMU's request being served
    guest           \* QEMU's firmware: "run" or "isr"

phone == <<pc, inIrq, back, frame, current_irq, data, line>>
bridge == <<host, phase, hellos, last_irq>>
qemu == <<req, guest>>
vars == <<up, down, phone, bridge, qemu>>

(***************************************************************************)
(* Commands, as bytes: a stale byte is read as whatever it looks like.     *)
(***************************************************************************)
Dot == 46
Comma == 44
Semicolon == 59
Bang == 33
CharO == 79
CharK == 75

ReadOps == {82, 114, 73, 105}      \* R r I i: 4, 2, 3, 1 bytes
WriteOps == {87, 119, CharO, 111}  \* W w O o
Read4 == 82
Write4 == 87

\* Addresses, by the one byte that counts.  Data is a plain register, Source
\* the one whose write ends the interrupt at its peripheral, CguStat one whose
\* value is made up, Blocked one the host must not write.
Data == 1
Source == 2
VicIrqCurrent == 3
VicIrqAck == 4
CguStat == 5
Blocked == 6
Registers == {Data, Source, VicIrqCurrent, VicIrqAck, CguStat, Blocked}

Pad == <<255, 255, 255>>
Word(v) == <<v>> \o Pad
Ok == <<CharO, CharK>>

ReadRequest(reg) == [op |-> Read4, reg |-> reg, value |-> 0]
WriteRequest(reg, v) == [op |-> Write4, reg |-> reg, value |-> v]
NoRequest == [op |-> 0, reg |-> 0, value |-> 0]
Requests ==
    {ReadRequest(r) : r \in Registers}
        \union {WriteRequest(r, v) : r \in Registers, v \in Values}

Encoded(r) ==
    <<r.op>> \o Word(r.reg)
        \o (IF r.op \in WriteOps THEN Word(r.value) ELSE <<>>)

\* Bytes of the command that starts with op.
CommandSize(op) == IF op \in ReadOps THEN 5 ELSE 9

(***************************************************************************)
(* The phone.                                                              *)
(***************************************************************************)
CguValue == 32

Bug_NotReported(mark, plain, irq, n) == <<plain>>

\* current_irq as it is reported behind '!' and ','.
Report(mark, plain, irq, n) == IF irq THEN <<mark, n>> ELSE <<plain>>

\* command_handler returns; 2 ends irq_handler's loop.
HandlerReturns(ends) ==
    /\ frame' = <<>>
    /\ IF inIrq /\ ends
       THEN pc' = back /\ inIrq' = FALSE /\ back' = "loop"
       ELSE pc' = (IF inIrq THEN "poll" ELSE "loop") /\ UNCHANGED <<inIrq, back>>

HelloO ==
    /\ pc = "O" /\ up # <<>>
    /\ up' = Tail(up)
    /\ pc' = IF Head(up) = CharO THEN "K" ELSE "O"
    /\ UNCHANGED <<down, inIrq, back, frame, current_irq, data, line, bridge, qemu>>

\* The 'K', the '.', and interrupts are enabled.
HelloK ==
    /\ pc = "K" /\ up # <<>>
    /\ up' = Tail(up)
    /\ IF Head(up) = CharK
       THEN pc' = "loop" /\ down' = Append(down, Dot)
       ELSE UNCHANGED <<pc, down>>
    /\ UNCHANGED <<inIrq, back, frame, current_irq, data, line, bridge, qemu>>

\* main saw a byte; the swi comes next, but an IRQ may come first.
SeeByte ==
    /\ pc = "loop" /\ up # <<>>
    /\ pc' = "swi"
    /\ UNCHANGED <<up, down, inIrq, back, frame, current_irq, data, line, bridge, qemu>>

TakeIrq ==
    /\ pc \in {"loop", "swi"} /\ line # 0
    /\ current_irq' = line
    /\ inIrq' = TRUE
    /\ back' = pc
    /\ pc' = "poll"
    /\ UNCHANGED <<up, down, frame, data, line, bridge, qemu>>

\* The byte main saw was eaten by irq_handler.
SwiTooLate ==
    /\ pc = "swi" /\ up = <<>>
    /\ pc' = "loop"
    /\ UNCHANGED <<up, down, inIrq, back, frame, current_irq, data, line, bridge, qemu>>

AnswerPing ==
    /\ pc \in {"swi", "poll"} /\ up # <<>> /\ Head(up) = Dot
    /\ up' = Tail(up)
    /\ down' = down \o Report(Comma, Dot, inIrq, current_irq)
    /\ HandlerReturns(FALSE)
    /\ UNCHANGED <<current_irq, data, line, bridge, qemu>>

BeginCommand ==
    /\ pc \in {"swi", "poll"} /\ up # <<>> /\ Head(up) # Dot
    /\ up' = Tail(up)
    /\ frame' = <<Head(up)>>
    /\ pc' = IF Head(up) \in ReadOps \union WriteOps THEN "args" ELSE "onerr"
    /\ UNCHANGED <<down, inIrq, back, current_irq, data, line, bridge, qemu>>

ReadArgument ==
    /\ pc = "args" /\ Len(frame) < CommandSize(frame[1]) /\ up # <<>>
    /\ up' = Tail(up)
    /\ frame' = Append(frame, Head(up))
    /\ UNCHANGED <<down, pc, inIrq, back, current_irq, data, line, bridge, qemu>>

CommandComplete(op) == pc = "args" /\ frame[1] = op /\ Len(frame) = CommandSize(op)

ReadValue(reg) ==
    CASE reg = VicIrqCurrent -> current_irq
      [] reg = CguStat       -> CguValue
      [] OTHER               -> data

ExecuteRead ==
    \E op \in ReadOps :
        /\ CommandComplete(op)
        /\ down' = down \o Word(ReadValue(frame[2])) \o Report(Bang, Semicolon, inIrq, current_irq)
        /\ HandlerReturns(FALSE)
        /\ UNCHANGED <<up, current_irq, data, line, bridge, qemu>>

Bug_AnyWriteAcknowledges(reg) == IF inIrq THEN 0 ELSE current_irq

\* The current interrupt after a write to reg.
Acknowledged(reg) == IF inIrq /\ reg = VicIrqAck THEN 0 ELSE current_irq

ExecuteWrite ==
    \E op \in WriteOps :
        /\ CommandComplete(op)
        /\ data' = IF frame[2] = Data THEN frame[6] ELSE data
        /\ line' = IF frame[2] = Source THEN 0 ELSE line
        /\ current_irq' = Acknowledged(frame[2])
        /\ down' = down \o Report(Bang, Semicolon, inIrq, current_irq')
        /\ HandlerReturns(current_irq' = 0)
        /\ UNCHANGED <<up, bridge, qemu>>

ErrByte == 230

\* onerr sends its byte for ever.
OnErr ==
    /\ pc = "onerr" /\ Len(down) < 5
    /\ down' = Append(down, ErrByte)
    /\ UNCHANGED <<up, phone, bridge, qemu>>

Phone ==
    \/ HelloO \/ HelloK \/ SeeByte \/ TakeIrq \/ SwiTooLate \/ AnswerPing
    \/ BeginCommand \/ ReadArgument \/ ExecuteRead \/ ExecuteWrite \/ OnErr

(***************************************************************************)
(* The host.                                                               *)
(***************************************************************************)
\* No '.' within 100 ms.
HelloAgain ==
    /\ host = "hello" /\ down = <<>> /\ hellos < MaxHellos
    /\ hellos' = hellos + 1
    /\ up' = up \o Ok
    /\ UNCHANGED <<down, phone, host, phase, last_irq, qemu>>

Bug_NoGreetingPing ==
    /\ host = "hello" /\ down # <<>> /\ Head(down) = Dot
    /\ down' = Tail(down)
    /\ host' = "next" /\ phase' = "connect"
    /\ UNCHANGED <<up, phone, hellos, last_irq, qemu>>

\* The phone is there; the first cmd_ping follows.
HelloAnswered ==
    /\ host = "hello" /\ down # <<>> /\ Head(down) = Dot
    /\ down' = Tail(down)
    /\ host' = "ping"
    /\ up' = Append(up, Dot)
    /\ UNCHANGED <<phone, phase, hellos, last_irq, qemu>>

\* Any other byte is answered like none.
HelloOther ==
    /\ host = "hello" /\ down # <<>> /\ Head(down) # Dot /\ hellos < MaxHellos
    /\ hellos' = hellos + 1
    /\ down' = Tail(down)
    /\ up' = up \o Ok
    /\ UNCHANGED <<phone, host, phase, last_irq, qemu>>

\* Sockets to QEMU are opened between two pings that have no handler for an
\* interrupt's number: they read the number and forget it.
Ping ==
    /\ host = "next" /\ (phase = "serve" => req = NoRequest)
    /\ up' = Append(up, Dot)
    /\ host' = "ping"
    /\ phase' \in (IF phase = "connect" THEN {"connect", "serve"} ELSE {phase})
    /\ UNCHANGED <<down, phone, hellos, last_irq, qemu>>

\* A write that would break the bridge itself becomes a ping.
Valid(r) == ~(r.op \in WriteOps /\ r.reg = Blocked)

Forward ==
    /\ host = "next" /\ phase = "serve" /\ req # NoRequest
    /\ IF Valid(req)
       THEN up' = up \o Encoded(req) /\ host' = (IF req.op \in ReadOps THEN "read" ELSE "write")
       ELSE up' = Append(up, Dot) /\ host' = "skip"
    /\ UNCHANGED <<down, phone, phase, hellos, last_irq, qemu>>

Waits == {"ping", "skip", "read", "write"}

\* Bytes of data before the acknowledgement, and the two acknowledgements.
DataSize == IF host = "read" THEN 4 ELSE 0
IrqMark == IF host \in {"ping", "skip"} THEN Comma ELSE Bang
PlainMark == IF host \in {"ping", "skip"} THEN Dot ELSE Semicolon

\* write_irq: the new last_irq; handlers exist once QEMU is connected.
WriteIrq(n) == IF phase = "serve" THEN n ELSE last_irq

\* QEMU gets its answer; the firmware leaves its handler with the ACK.
Complete ==
    /\ host' = "next"
    /\ phase' = IF phase = "greet" THEN "connect" ELSE phase
    /\ IF host # "ping"
       THEN /\ req' = NoRequest
            /\ guest' = IF req.reg = VicIrqAck /\ req.op \in WriteOps THEN "run" ELSE guest
       ELSE UNCHANGED qemu

Answered ==
    /\ host \in Waits /\ Len(down) > DataSize
    /\ LET ack == down[DataSize + 1]
       IN  \/ /\ ack = PlainMark
              /\ down' = SubSeq(down, DataSize + 2, Len(down))
              /\ UNCHANGED last_irq
              /\ Complete
           \/ /\ ack = IrqMark /\ Len(down) > DataSize + 1
              /\ down' = SubSeq(down, DataSize + 3, Len(down))
              /\ last_irq' = WriteIrq(down[DataSize + 2])
              /\ Complete
           \/ /\ ack \notin {PlainMark, IrqMark}
              /\ host' = "dead"
              /\ UNCHANGED <<down, phase, last_irq, qemu>>
    /\ UNCHANGED <<up, phone, hellos>>

\* The phone reads on, and the host has sent all.
TimedOut ==
    /\ host \in Waits /\ Len(down) <= DataSize
    /\ up = <<>> /\ pc = "args" /\ Len(frame) < CommandSize(frame[1])
    /\ host' = "dead"
    /\ UNCHANGED <<up, down, phone, phase, hellos, last_irq, qemu>>

Host ==
    \/ HelloAgain \/ HelloAnswered \/ HelloOther \/ Ping \/ Forward \/ Answered
    \/ TimedOut

(***************************************************************************)
(* QEMU, its firmware and the peripherals (external).                      *)
(***************************************************************************)
Raise ==
    /\ line = 0
    /\ line' \in Irqs
    /\ UNCHANGED <<up, down, pc, inIrq, back, frame, current_irq, data, bridge, qemu>>

\* QEMU was told of an interrupt: its firmware enters the handler.  The number and the answer
\* to an access come by two sockets; the host writes the number first, and QEMU is assumed to
\* have read it before it goes on with the answer, so that what it knows is last_irq.
EnterIsr ==
    /\ phase = "serve" /\ req = NoRequest /\ guest = "run" /\ last_irq > 0
    /\ guest' = "isr"
    /\ UNCHANGED <<up, down, phone, bridge, req>>

\* The firmware acknowledges once, at the end of its handler.
Access ==
    /\ phase = "serve" /\ req = NoRequest /\ host \in {"next", "ping"}
    /\ req' \in {r \in Requests : r.reg = VicIrqAck => r.op \in ReadOps}
    /\ UNCHANGED <<up, down, phone, bridge, guest>>

LeaveIsr ==
    /\ phase = "serve" /\ req = NoRequest /\ guest = "isr" /\ host \in {"next", "ping"}
    /\ req' = WriteRequest(VicIrqAck, 0)
    /\ UNCHANGED <<up, down, phone, bridge, guest>>

\* The change of speed may leave a byte of noise, which is no '.'.
Noise == 0

Init ==
    /\ up = Ok /\ down \in {<<>>, <<Noise>>}
    /\ pc = "O" /\ inIrq = FALSE /\ back = "loop" /\ frame = <<>>
    /\ current_irq = 0 /\ data = 0 /\ line = 0
    /\ host = "hello" /\ phase = "greet" /\ hellos = 0 /\ last_irq = -1
    /\ req = NoRequest /\ guest = "run"

\* After the host died nothing is left to do.
Over == host = "dead" /\ UNCHANGED vars

Next == Phone \/ Host \/ Raise \/ EnterIsr \/ Access \/ LeaveIsr \/ Over

(***************************************************************************)
(* The phone and the host are programs that run on.  A peripheral asks     *)
(* when it likes.  QEMU is started at some time, its firmware enters the   *)
(* handler of an interrupt and comes to the handler's end, whatever else   *)
(* it accesses before that.                                                *)
(***************************************************************************)
Connect == Ping /\ phase' = "serve"

Fairness ==
    /\ WF_vars(Phone) /\ WF_vars(Host) /\ SF_vars(Connect)
    /\ SF_vars(EnterIsr) /\ SF_vars(LeaveIsr)

Spec == Init /\ [][Next]_vars /\ Fairness

(***************************************************************************)
(* Properties.                                                             *)
(***************************************************************************)
\* An "OK" the host sent again because the phone's '.' was late is still in
\* the phone's receiver when the session begins, where it starts a three-byte
\* write.  The ping behind the greeting catches that: whatever the timing, the
\* host gives up there or never, and no access of QEMU is ever read in the
\* middle of a command.
StaleHelloCaughtAtGreeting ==
    host = "dead" => phase = "greet"

\* QEMU's firmware runs its handler only while the phone is inside
\* irq_handler for the same interrupt, until the ACK itself is under way: what
\* it reads from VIC_IRQ_CURRENT is the interrupt it was entered for, and its
\* ACK ends that one and no later one.
HandlersAgree ==
    guest = "isr" /\ ~(req.reg = VicIrqAck /\ req.op \in WriteOps) =>
        inIrq /\ current_irq = last_irq

\* The phone stays in irq_handler until QEMU acknowledges, and QEMU knows of
\* the interrupt only from an answer: neither waits for the other for ever, a
\* second interrupt of the same number is reported again, and every access of
\* QEMU is answered, whichever of the two answers it.
NobodyWaitsForEver ==
    /\ \A n \in Irqs :
          (inIrq /\ current_irq = n) ~> (last_irq = n \/ host = "dead")
    /\ inIrq ~> (~inIrq \/ host = "dead")
    /\ req # NoRequest ~> req = NoRequest
=============================================================================
