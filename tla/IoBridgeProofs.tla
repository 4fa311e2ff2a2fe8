--------------------------- MODULE IoBridgeProofs ---------------------------
(***************************************************************************)
(* The I/O bridge for every set of interrupts, every set of values and any *)
(* number of greetings: a greeting the phone reads twice is noticed before *)
(* QEMU is connected, and QEMU's firmware is in its interrupt handler only *)
(* while the phone is in its own for the same interrupt.                   *)
(*                                                                         *)
(* The inductive invariant BridgeInv follows the two programs through the  *)
(* session: in the greeting, what lies between the phone's '.' and the end *)
(* of its answers; after it, the one command that is under way.            *)
(***************************************************************************)
EXTENDS IoBridge, SequenceTheorems, TLAPS

Bytes == 0 .. 255

TypeInv ==
    /\ up \in Seq(Bytes) /\ down \in Seq(Bytes) /\ frame \in Seq(Bytes)
    /\ pc \in {"O", "K", "loop", "swi", "poll", "args", "onerr"}
    /\ inIrq \in BOOLEAN /\ back \in {"loop", "swi"}
    /\ current_irq \in Bytes /\ data \in Bytes /\ line \in Irqs \union {0}
    /\ host \in {"hello", "next", "ping", "skip", "read", "write", "dead"}
    /\ phase \in {"greet", "connect", "serve"}
    /\ last_irq \in Bytes \union {-1}
    /\ req \in Requests \union {NoRequest} /\ guest \in {"run", "isr"}

\* inIrq is the phone's place in irq_handler, current_irq the interrupt it is there for.
PhoneInv ==
    /\ pc = "args" => frame # <<>> /\ frame[1] \in ReadOps \union WriteOps
    /\ pc = "poll" => inIrq
    /\ pc \in {"O", "K", "loop", "swi"} => ~inIrq
    /\ inIrq => current_irq \in Irqs
    /\ ~inIrq => current_irq = 0

AtRest == pc \in {"loop", "swi", "poll"} /\ frame = <<>>

-----------------------------------------------------------------------------
\* The greeting.

Hellos(s, n) == \A i \in 1 .. n : s[i] \in {CharO, CharK}

Unheard ==
    /\ host = "hello" /\ pc \in {"O", "K"} /\ frame = <<>> /\ Hellos(up, Len(up))
    /\ down \in {<<>>, <<Noise>>}

\* k bytes are in front of what the phone says after its '.'.
Ahead(k) ==
    \/ k = 0 /\ host = "ping"
    \/ k = 1 /\ host = "hello" /\ Len(down) >= 1 /\ down[1] = Dot
    \/ k = 2 /\ host = "hello" /\ Len(down) >= 2 /\ down[1] = Noise /\ down[2] = Dot

\* No command was read yet, and the ping is the last byte.
Clean(k) ==
    /\ AtRest /\ Len(down) = k
    /\ \/ host = "hello" /\ Hellos(up, Len(up))
       \/ host = "ping" /\ Len(up) >= 1 /\ up[Len(up)] = Dot /\ Hellos(up, Len(up) - 1)

\* The phone took a greeting for a command, and may have answered it.
Spoiled(k) ==
    \/ Len(down) = k /\ (pc = "onerr" \/ (pc = "args" /\ frame # <<>> /\ frame[1] = CharO))
    \/ Len(down) > k /\ down[k + 1] \in {Semicolon, Bang, ErrByte}

\* The ping was answered, as the last byte there was.
Welcome ==
    /\ host = "ping" /\ AtRest /\ up = <<>>
    /\ \/ Len(down) = 1 /\ down[1] = Dot
       \/ Len(down) = 2 /\ down[1] = Comma

Greeting ==
    /\ phase = "greet" /\ req = NoRequest /\ guest = "run" /\ last_irq = -1
    /\ \/ host = "dead"
       \/ Unheard
       \/ Welcome
       \/ \E k \in 0 .. 2 : Ahead(k) /\ (Clean(k) \/ Spoiled(k))

-----------------------------------------------------------------------------
\* The session.

IsAck(r) == r.reg = VicIrqAck /\ r.op \in WriteOps
Acking == host = "write" /\ IsAck(req)

\* The bytes of s from the first on are those of the request behind the n-th.
Spells(s, n) == \A i \in 1 .. Len(s) : s[i] = Encoded(req)[n + i]

\* The command under way is not answered.
Sent ==
    /\ down = <<>>
    /\ \/ host \in {"ping", "skip"} /\ AtRest /\ Len(up) = 1 /\ up[1] = Dot
       \/ /\ host \in {"read", "write"} /\ (AtRest \/ pc = "args")
          /\ Len(frame) + Len(up) = CommandSize(req.op)
          /\ Spells(frame, 0) /\ Spells(up, Len(frame))

\* The command under way is answered; an interrupt that is reported is still served.
Replied ==
    /\ host \in Waits /\ AtRest /\ up = <<>>
    /\ \/ Len(down) = DataSize + 1 /\ down[DataSize + 1] = PlainMark /\ ~Acking
       \/ /\ Len(down) = DataSize + 2 /\ down[DataSize + 1] = IrqMark
          /\ IF Acking THEN down[DataSize + 2] = 0 ELSE inIrq /\ down[DataSize + 2] = current_irq

\* What QEMU asks for, and what the host makes of it.
Asked ==
    /\ host \in {"skip", "read", "write"} => req # NoRequest
    /\ host = "read" => req.op \in ReadOps
    /\ host = "write" => req.op \in WriteOps
    /\ IsAck(req) => guest = "isr" /\ host # "skip"
    /\ guest = "isr" => last_irq > 0

Known ==
    last_irq > 0 => \/ inIrq /\ current_irq = last_irq
                    \/ Acking /\ down # <<>>

Session ==
    /\ phase \in {"connect", "serve"}
    /\ phase = "connect" => host \in {"next", "ping"} /\ req = NoRequest /\ last_irq = -1
    /\ \/ host = "next" /\ AtRest /\ up = <<>> /\ down = <<>>
       \/ Sent
       \/ Replied
    /\ Asked /\ Known

BridgeInv == TypeInv /\ PhoneInv /\ (Greeting \/ Session)

-----------------------------------------------------------------------------
\* Bytes and sequences of them.

\* What is sent, read and written is a byte.
LEMMA BytesFact ==
    /\ Irqs \subseteq Bytes /\ Values \subseteq Bytes /\ 0 \in Values /\ 0 \notin Irqs
    /\ \A n \in Irqs : n > 0 /\ n \in Nat
    /\ {Dot, Comma, Semicolon, Bang, CharO, CharK, ErrByte, Noise, CguValue} \subseteq Bytes
    /\ Registers \subseteq Bytes /\ ReadOps \subseteq Bytes /\ WriteOps \subseteq Bytes
BY BridgeAssumption DEF Bytes, Dot, Comma, Semicolon, Bang, CharO, CharK, ErrByte, Noise, CguValue, Registers, Data,
   Source, VicIrqCurrent, VicIrqAck, CguStat, Blocked, ReadOps, WriteOps

\* Bytes that are told apart.
LEMMA MarksFact ==
    /\ Dot # Comma /\ Dot # Semicolon /\ Dot # Bang /\ Dot # CharO /\ Dot # CharK /\ Dot # ErrByte /\ Dot # Noise
    /\ Comma # Semicolon /\ Comma # Bang /\ Comma # ErrByte /\ Semicolon # Bang
    /\ CharO \in WriteOps /\ CharO \notin ReadOps /\ CharK \notin ReadOps \union WriteOps /\ ReadOps \cap WriteOps = {}
    /\ Dot \notin ReadOps \union WriteOps /\ Read4 \in ReadOps /\ Write4 \in WriteOps
BY DEF Dot, Comma, Semicolon, Bang, CharO, CharK, ErrByte, Noise, ReadOps, WriteOps, Read4, Write4

\* The head and the rest of a sequence, place by place.
LEMMA TailFact ==
    ASSUME NEW S, NEW s \in Seq(S), s # <<>>
    PROVE  /\ Len(s) \in Nat /\ Len(s) >= 1 /\ Head(s) = s[1] /\ s[1] \in S
           /\ Tail(s) \in Seq(S) /\ Len(Tail(s)) = Len(s) - 1
           /\ \A i \in 1 .. Len(s) - 1 : Tail(s)[i] = s[i + 1]
<1>1. Len(s) \in Nat /\ Len(s) >= 1
    BY EmptySeq
<1>2. Head(s) = s[1] /\ s[1] \in S
    BY <1>1, ElementOfSeq
<1>3. Tail(s) \in Seq(S) /\ Len(Tail(s)) = Len(s) - 1 /\ \A i \in 1 .. Len(s) - 1 : Tail(s)[i] = s[i + 1]
    BY <1>1, HeadTailProperties
<1> QED BY <1>1, <1>2, <1>3

\* A sequence with one element more.
LEMMA AppendFact ==
    ASSUME NEW S, NEW s \in Seq(S), NEW e \in S
    PROVE  /\ Append(s, e) \in Seq(S) /\ Len(s) \in Nat /\ Len(Append(s, e)) = Len(s) + 1
           /\ \A i \in 1 .. Len(s) : Append(s, e)[i] = s[i]
           /\ Append(s, e)[Len(s) + 1] = e
OBVIOUS

\* Two sequences behind one another.
LEMMA ConcatFact ==
    ASSUME NEW S, NEW s \in Seq(S), NEW t \in Seq(S)
    PROVE  /\ s \o t \in Seq(S) /\ Len(s) \in Nat /\ Len(t) \in Nat /\ Len(s \o t) = Len(s) + Len(t)
           /\ \A i \in 1 .. Len(s) : (s \o t)[i] = s[i]
           /\ \A i \in 1 .. Len(t) : (s \o t)[Len(s) + i] = t[i]
<1>1. /\ s \o t \in Seq(S) /\ Len(s \o t) = Len(s) + Len(t) /\ Len(s) \in Nat /\ Len(t) \in Nat
      /\ \A i \in 1 .. Len(s) + Len(t) : (s \o t)[i] = IF i <= Len(s) THEN s[i] ELSE t[i - Len(s)]
    BY ConcatProperties, LenProperties
<1>2. \A i \in 1 .. Len(s) : i \in 1 .. Len(s) + Len(t) /\ i <= Len(s)
    BY <1>1
<1>3. \A i \in 1 .. Len(t) : Len(s) + i \in 1 .. Len(s) + Len(t) /\ ~(Len(s) + i <= Len(s)) /\ Len(s) + i - Len(s) = i
    BY <1>1
<1>4. \A i \in 1 .. Len(s) : (s \o t)[i] = s[i]
    BY <1>1, <1>2
<1>5. \A i \in 1 .. Len(t) : (s \o t)[Len(s) + i] = t[i]
    <2> SUFFICES ASSUME NEW i \in 1 .. Len(t) PROVE (s \o t)[Len(s) + i] = t[i]
        OBVIOUS
    <2>1. Len(s) + i \in 1 .. Len(s) + Len(t) /\ ~(Len(s) + i <= Len(s)) /\ Len(s) + i - Len(s) = i
        BY <1>3
    <2> QED BY <1>1, <2>1
<1> QED BY <1>1, <1>4, <1>5

\* A sequence without elements.
LEMMA EmptyFact ==
    ASSUME NEW S
    PROVE  /\ <<>> \in Seq(S) /\ Len(<<>>) = 0
           /\ \A s \in Seq(S) : Len(s) \in Nat /\ (Len(s) = 0 <=> s = <<>>)
BY EmptySeq

\* Nothing is left behind the last byte.
LEMMA RestFact ==
    ASSUME NEW s \in Seq(Bytes), NEW n \in Nat, Len(s) = n
    PROVE  SubSeq(s, n + 1, Len(s)) = <<>>
OBVIOUS

\* The sequences the two programs send.
LEMMA OkFact == Ok \in Seq(Bytes) /\ Len(Ok) = 2 /\ Ok[1] = CharO /\ Ok[2] = CharK
BY BytesFact DEF Ok

\* A value, by the byte that counts.
LEMMA WordFact ==
    ASSUME NEW v \in Bytes
    PROVE  Word(v) \in Seq(Bytes) /\ Len(Word(v)) = 4 /\ Word(v)[1] = v
<1>1. <<v>> \in Seq(Bytes) /\ Len(<<v>>) = 1 /\ <<v>>[1] = v
    OBVIOUS
<1>2. Pad \in Seq(Bytes) /\ Len(Pad) = 3
    BY DEF Pad, Bytes
<1>3. /\ <<v>> \o Pad \in Seq(Bytes) /\ Len(<<v>> \o Pad) = Len(<<v>>) + Len(Pad)
      /\ \A i \in 1 .. Len(<<v>>) : (<<v>> \o Pad)[i] = <<v>>[i]
    BY <1>1, <1>2, ConcatFact
<1> QED BY <1>1, <1>2, <1>3 DEF Word

\* The end of an answer.
LEMMA ReportFact ==
    ASSUME NEW mark \in Bytes, NEW plain \in Bytes, NEW n \in Bytes, NEW irq \in BOOLEAN
    PROVE  /\ Report(mark, plain, irq, n) \in Seq(Bytes)
           /\ irq => /\ Len(Report(mark, plain, irq, n)) = 2
                     /\ Report(mark, plain, irq, n)[1] = mark /\ Report(mark, plain, irq, n)[2] = n
           /\ ~irq => Len(Report(mark, plain, irq, n)) = 1 /\ Report(mark, plain, irq, n)[1] = plain
<1>1. <<plain>> \in Seq(Bytes) /\ <<mark, n>> \in Seq(Bytes)
    OBVIOUS
<1>2. CASE irq
    BY <1>1, <1>2 DEF Report
<1>3. CASE ~irq
    BY <1>1, <1>3 DEF Report
<1> QED BY <1>2, <1>3

\* The bytes of a command: its letter, then the register.
LEMMA EncodedFact ==
    ASSUME NEW r \in Requests
    PROVE  /\ Encoded(r) \in Seq(Bytes) /\ Len(Encoded(r)) = CommandSize(r.op)
           /\ Encoded(r)[1] = r.op /\ Encoded(r)[2] = r.reg
           /\ r.op \in {Read4, Write4} /\ r.reg \in Registers /\ r # NoRequest
<1>1. /\ r.op \in {Read4, Write4} /\ r.reg \in Registers /\ r.value \in Values
    BY BytesFact DEF Requests, ReadRequest, WriteRequest
<1>2. r.op \in Bytes /\ r.reg \in Bytes /\ r.value \in Bytes
    BY <1>1, BytesFact, MarksFact
<1>3. r # NoRequest
    BY <1>1 DEF NoRequest, Read4, Write4
<1> DEFINE a == <<r.op>>
           b == Word(r.reg)
           c == Word(r.value)
<1>4. a \in Seq(Bytes) /\ Len(a) = 1 /\ a[1] = r.op
    BY <1>2
<1>5. b \in Seq(Bytes) /\ Len(b) = 4 /\ b[1] = r.reg
    BY <1>2, WordFact
<1>6. c \in Seq(Bytes) /\ Len(c) = 4
    BY <1>2, WordFact
<1>7. Encoded(r) = IF r.op \in WriteOps THEN (a \o b) \o c ELSE (a \o b) \o <<>>
    BY DEF Encoded
<1> HIDE DEF a, b, c
<1>8. /\ a \o b \in Seq(Bytes) /\ Len(a \o b) = Len(a) + Len(b)
      /\ \A i \in 1 .. Len(a) : (a \o b)[i] = a[i]
      /\ \A i \in 1 .. Len(b) : (a \o b)[Len(a) + i] = b[i]
    <2>1. a \in Seq(Bytes) /\ b \in Seq(Bytes)
        BY <1>4, <1>5
    <2> QED BY <2>1, ConcatFact
<1>9. a \o b \in Seq(Bytes) /\ Len(a \o b) = 5 /\ (a \o b)[1] = r.op /\ (a \o b)[2] = r.reg
    <2>1. Len(a) + 1 = 2 /\ 1 \in 1 .. Len(a) /\ 1 \in 1 .. Len(b)
        BY <1>4, <1>5
    <2>2. (a \o b)[Len(a) + 1] = b[1]
        BY <1>8, <2>1
    <2>3. Len(a \o b) = 5
        BY <1>4, <1>5, <1>8
    <2> QED BY <1>4, <1>5, <1>8, <2>1, <2>2, <2>3
<1> DEFINE h == a \o b
<1>10. h \in Seq(Bytes) /\ Len(h) = 5 /\ h[1] = r.op /\ h[2] = r.reg
    BY <1>9
<1> HIDE DEF h
<1>11. CASE r.op \in WriteOps
    <2>1. /\ h \o c \in Seq(Bytes) /\ Len(h \o c) = Len(h) + Len(c)
          /\ \A i \in 1 .. Len(h) : (h \o c)[i] = h[i]
        BY <1>6, <1>10, ConcatFact
    <2>2. Encoded(r) = h \o c
        BY <1>7, <1>11 DEF h
    <2>3. CommandSize(r.op) = 9
        BY <1>11, MarksFact DEF CommandSize
    <2>4. 1 \in 1 .. Len(h) /\ 2 \in 1 .. Len(h) /\ Len(h) + Len(c) = 9
        BY <1>6, <1>10
    <2> QED BY <1>1, <1>3, <1>10, <2>1, <2>2, <2>3, <2>4
<1>12. CASE r.op \notin WriteOps
    <2>1. Encoded(r) = h \o <<>> /\ h \o <<>> = h
        BY <1>7, <1>10, <1>12 DEF h
    <2>2. CommandSize(r.op) = 5
        BY <1>1, <1>12, MarksFact DEF CommandSize
    <2> QED BY <1>1, <1>3, <1>10, <2>1, <2>2
<1> QED BY <1>11, <1>12

-----------------------------------------------------------------------------
\* Types, and the phone's place in irq_handler.

Kept == TypeInv /\ PhoneInv

\* Init.
LEMMA InitKept == Init => Kept
<1> SUFFICES ASSUME Init PROVE Kept
    OBVIOUS
<1>1. up \in Seq(Bytes)
    BY OkFact DEF Init
<1>2. down \in Seq(Bytes)
    <2>1. <<Noise>> \in Seq(Bytes) /\ <<>> \in Seq(Bytes)
        BY BytesFact
    <2> QED BY <2>1 DEF Init
<1>3. TypeInv
    <2>1. <<>> \in Seq(Bytes) /\ 0 \in Bytes
        BY BytesFact
    <2> QED BY <1>1, <1>2, <2>1 DEF Init, TypeInv
<1>4. PhoneInv
    BY DEF Init, PhoneInv
<1> QED BY <1>3, <1>4 DEF Kept

\* Where command_handler returns to, and what it leaves of current_irq.
LEMMA ReturnsKept ==
    ASSUME Kept, NEW ends \in BOOLEAN, HandlerReturns(ends), current_irq' \in Bytes,
           inIrq => (IF ends THEN current_irq' = 0 ELSE current_irq' \in Irqs),
           ~inIrq => current_irq' = 0
    PROVE  /\ frame' \in Seq(Bytes) /\ pc' \in {"loop", "swi", "poll"} /\ inIrq' \in BOOLEAN /\ back' \in {"loop", "swi"}
           /\ frame' = <<>> /\ PhoneInv'
<1>1. inIrq \in BOOLEAN /\ back \in {"loop", "swi"}
    BY DEF Kept, TypeInv
<1>2. frame' = <<>> /\ <<>> \in Seq(Bytes)
    BY DEF HandlerReturns
<1>3. CASE inIrq /\ ends
    <2>1. pc' = back /\ inIrq' = FALSE /\ back' = "loop"
        BY <1>3 DEF HandlerReturns
    <2> QED BY <1>1, <1>2, <1>3, <2>1 DEF PhoneInv
<1>4. CASE inIrq /\ ~ends
    <2>1. pc' = "poll" /\ inIrq' = inIrq /\ back' = back
        BY <1>4 DEF HandlerReturns
    <2> QED BY <1>1, <1>2, <1>4, <2>1 DEF PhoneInv
<1>5. CASE ~inIrq
    <2>1. pc' = "loop" /\ inIrq' = inIrq /\ back' = back
        BY <1>5 DEF HandlerReturns
    <2> QED BY <1>1, <1>2, <1>5, <2>1 DEF PhoneInv
<1> QED BY <1>3, <1>4, <1>5

\* current_irq while no command ends the interrupt.
LEMMA CurrentFact ==
    ASSUME Kept
    PROVE  /\ current_irq \in Bytes /\ inIrq \in BOOLEAN
           /\ inIrq => current_irq \in Irqs /\ current_irq # 0
           /\ ~inIrq => current_irq = 0
BY BytesFact DEF Kept, TypeInv, PhoneInv

\* A step of the phone.
LEMMA PhoneKept ==
    ASSUME Kept, Phone
    PROVE  Kept'
<1>1. /\ up \in Seq(Bytes) /\ down \in Seq(Bytes) /\ frame \in Seq(Bytes) /\ inIrq \in BOOLEAN /\ back \in {"loop", "swi"}
      /\ current_irq \in Bytes /\ data \in Bytes /\ line \in Irqs \union {0}
    BY DEF Kept, TypeInv
<1>2. UNCHANGED <<host, phase, hellos, last_irq, req, guest>>
    BY DEF Phone, HelloO, HelloK, SeeByte, TakeIrq, SwiTooLate, AnswerPing, BeginCommand, ReadArgument, ExecuteRead,
           ExecuteWrite, OnErr, bridge, qemu
<1>3. ASSUME up # <<>> PROVE Tail(up) \in Seq(Bytes) /\ Head(up) \in Bytes
    BY <1>1, <1>3, TailFact
<1>4. CASE HelloO
    <2>1. /\ pc = "O" /\ up # <<>> /\ up' = Tail(up) /\ pc' \in {"O", "K"}
          /\ UNCHANGED <<down, inIrq, back, frame, current_irq, data, line>>
        BY <1>4 DEF HelloO
    <2>2. TypeInv'
        BY <1>1, <1>2, <1>3, <2>1 DEF Kept, TypeInv
    <2>3. PhoneInv'
        BY <2>1 DEF Kept, PhoneInv
    <2> QED BY <2>2, <2>3 DEF Kept
<1>5. CASE HelloK
    <2>1. /\ pc = "K" /\ up # <<>> /\ up' = Tail(up) /\ pc' \in {"K", "loop"} /\ down' \in {down, Append(down, Dot)}
          /\ UNCHANGED <<inIrq, back, frame, current_irq, data, line>>
        BY <1>5 DEF HelloK
    <2>2. down' \in Seq(Bytes)
        <3>1. Dot \in Bytes
            BY BytesFact
        <3>2. Append(down, Dot) \in Seq(Bytes)
            BY <1>1, <3>1, AppendFact
        <3> QED BY <1>1, <2>1, <3>2
    <2>3. TypeInv'
        BY <1>1, <1>2, <1>3, <2>1, <2>2 DEF Kept, TypeInv
    <2>4. PhoneInv'
        BY <2>1 DEF Kept, PhoneInv
    <2> QED BY <2>3, <2>4 DEF Kept
<1>6. CASE SeeByte
    <2>1. pc = "loop" /\ pc' = "swi" /\ UNCHANGED <<up, down, inIrq, back, frame, current_irq, data, line>>
        BY <1>6 DEF SeeByte
    <2> QED BY <1>1, <1>2, <2>1 DEF Kept, TypeInv, PhoneInv
<1>7. CASE TakeIrq
    <2>1. /\ pc \in {"loop", "swi"} /\ line # 0 /\ current_irq' = line /\ inIrq' = TRUE /\ back' = pc /\ pc' = "poll"
          /\ UNCHANGED <<up, down, frame, data, line>>
        BY <1>7 DEF TakeIrq
    <2>2. line \in Irqs /\ line \in Bytes
        BY <1>1, <2>1, BytesFact
    <2> QED BY <1>1, <1>2, <2>1, <2>2 DEF Kept, TypeInv, PhoneInv
<1>8. CASE SwiTooLate
    <2>1. pc = "swi" /\ pc' = "loop" /\ UNCHANGED <<up, down, inIrq, back, frame, current_irq, data, line>>
        BY <1>8 DEF SwiTooLate
    <2> QED BY <1>1, <1>2, <2>1 DEF Kept, TypeInv, PhoneInv
<1>9. CASE AnswerPing
    <2>1. /\ up # <<>> /\ up' = Tail(up) /\ down' = down \o Report(Comma, Dot, inIrq, current_irq)
          /\ HandlerReturns(FALSE) /\ UNCHANGED <<current_irq, data, line>>
        BY <1>9 DEF AnswerPing
    <2>2. down' \in Seq(Bytes)
        BY <1>1, <2>1, ReportFact, ConcatFact, BytesFact
    <2>3. /\ frame' \in Seq(Bytes) /\ pc' \in {"loop", "swi", "poll"} /\ inIrq' \in BOOLEAN /\ back' \in {"loop", "swi"}
          /\ PhoneInv'
        BY <2>1, CurrentFact, ReturnsKept
    <2> QED BY <1>1, <1>2, <1>3, <2>1, <2>2, <2>3 DEF Kept, TypeInv
<1>10. CASE BeginCommand
    <2>1. /\ up # <<>> /\ up' = Tail(up) /\ frame' = <<Head(up)>>
          /\ pc' = IF Head(up) \in ReadOps \union WriteOps THEN "args" ELSE "onerr"
          /\ UNCHANGED <<down, inIrq, back, current_irq, data, line>>
        BY <1>10 DEF BeginCommand
    <2>2. frame' \in Seq(Bytes) /\ frame' # <<>> /\ frame'[1] = Head(up)
        BY <1>3, <2>1
    <2>3. TypeInv'
        BY <1>1, <1>2, <1>3, <2>1, <2>2 DEF Kept, TypeInv
    <2>4. PhoneInv'
        BY <2>1, <2>2 DEF Kept, PhoneInv
    <2> QED BY <2>3, <2>4 DEF Kept
<1>11. CASE ReadArgument
    <2>1. /\ pc = "args" /\ up # <<>> /\ up' = Tail(up) /\ frame' = Append(frame, Head(up))
          /\ UNCHANGED <<down, pc, inIrq, back, current_irq, data, line>>
        BY <1>11 DEF ReadArgument
    <2>2. /\ frame # <<>> /\ frame[1] \in ReadOps \union WriteOps
        BY <2>1 DEF Kept, PhoneInv
    <2>3. /\ frame' \in Seq(Bytes) /\ Len(frame) \in Nat /\ Len(frame') = Len(frame) + 1
          /\ \A i \in 1 .. Len(frame) : frame'[i] = frame[i]
        BY <1>1, <1>3, <2>1, AppendFact
    <2>4. Len(frame) >= 1
        BY <1>1, <2>2, TailFact
    <2>5. frame'[1] = frame[1] /\ frame' # <<>>
        BY <2>3, <2>4
    <2>6. TypeInv'
        BY <1>1, <1>2, <1>3, <2>1, <2>3 DEF Kept, TypeInv
    <2>7. PhoneInv'
        BY <2>1, <2>2, <2>5 DEF Kept, PhoneInv
    <2> QED BY <2>6, <2>7 DEF Kept
<1>12. CASE ExecuteRead
    <2>1. /\ down' = down \o Word(ReadValue(frame[2])) \o Report(Bang, Semicolon, inIrq, current_irq)
          /\ HandlerReturns(FALSE) /\ UNCHANGED <<up, current_irq, data, line>>
        BY <1>12 DEF ExecuteRead
    <2>2. ReadValue(frame[2]) \in Bytes
        BY <1>1, BytesFact DEF ReadValue
    <2>3. Word(ReadValue(frame[2])) \in Seq(Bytes) /\ Report(Bang, Semicolon, inIrq, current_irq) \in Seq(Bytes)
        BY <1>1, <2>2, WordFact, ReportFact, BytesFact
    <2>4. down' \in Seq(Bytes)
        BY <1>1, <2>1, <2>3, ConcatFact
    <2>5. /\ frame' \in Seq(Bytes) /\ pc' \in {"loop", "swi", "poll"} /\ inIrq' \in BOOLEAN /\ back' \in {"loop", "swi"}
          /\ PhoneInv'
        BY <2>1, CurrentFact, ReturnsKept
    <2> QED BY <1>1, <1>2, <2>1, <2>4, <2>5 DEF Kept, TypeInv
<1>13. CASE ExecuteWrite
    <2>1. PICK op \in WriteOps :
          /\ CommandComplete(op)
          /\ data' = IF frame[2] = Data THEN frame[6] ELSE data
          /\ line' = IF frame[2] = Source THEN 0 ELSE line
          /\ current_irq' = Acknowledged(frame[2])
          /\ down' = down \o Report(Bang, Semicolon, inIrq, current_irq')
          /\ HandlerReturns(current_irq' = 0)
          /\ up' = up
        BY <1>13 DEF ExecuteWrite
    <2>2. frame[6] \in Bytes
        <3>1. Len(frame) = 9
            BY <2>1, MarksFact DEF CommandComplete, CommandSize
        <3>2. 6 \in 1 .. Len(frame)
            BY <3>1
        <3> QED BY <1>1, <3>2, ElementOfSeq
    <2>3. current_irq' \in Bytes /\ current_irq' \in {0, current_irq} /\ (~inIrq => current_irq' = 0)
        BY <2>1, CurrentFact, BytesFact DEF Acknowledged
    <2>4. Report(Bang, Semicolon, inIrq, current_irq') \in Seq(Bytes)
        BY <1>1, <2>3, ReportFact, BytesFact
    <2>5. down' \in Seq(Bytes) /\ data' \in Bytes /\ line' \in Irqs \union {0}
        <3>1. down' \in Seq(Bytes)
            BY <1>1, <2>1, <2>4, ConcatFact
        <3> QED BY <1>1, <2>1, <2>2, <3>1
    <2>6. inIrq => (IF current_irq' = 0 THEN current_irq' = 0 ELSE current_irq' \in Irqs)
        BY <2>3, CurrentFact
    <2>7. /\ frame' \in Seq(Bytes) /\ pc' \in {"loop", "swi", "poll"} /\ inIrq' \in BOOLEAN /\ back' \in {"loop", "swi"}
          /\ PhoneInv'
        <3> DEFINE ends == current_irq' = 0
        <3>1. ends \in BOOLEAN /\ HandlerReturns(ends)
            BY <2>1
        <3>2. inIrq => (IF ends THEN current_irq' = 0 ELSE current_irq' \in Irqs)
            BY <2>6
        <3> HIDE DEF ends
        <3> QED BY <2>3, <3>1, <3>2, ReturnsKept
    <2> QED BY <1>1, <1>2, <2>1, <2>3, <2>5, <2>7 DEF Kept, TypeInv
<1>14. CASE OnErr
    <2>1. down' = Append(down, ErrByte) /\ UNCHANGED <<up, pc, inIrq, back, frame, current_irq, data, line>>
        BY <1>14 DEF OnErr, phone
    <2>2. down' \in Seq(Bytes)
        BY <1>1, <2>1, AppendFact, BytesFact
    <2> QED BY <1>1, <1>2, <2>1, <2>2 DEF Kept, TypeInv, PhoneInv
<1> QED BY <1>4, <1>5, <1>6, <1>7, <1>8, <1>9, <1>10, <1>11, <1>12, <1>13, <1>14 DEF Phone

\* A step of the host, of QEMU or of a peripheral.
LEMMA HostKept ==
    ASSUME Kept, Host
    PROVE  Kept'
<1>1. UNCHANGED <<pc, inIrq, back, frame, current_irq, data, line>>
    BY DEF Host, HelloAgain, HelloAnswered, HelloOther, Ping, Forward, Answered, TimedOut, phone
<1>2. PhoneInv'
    BY <1>1 DEF Kept, PhoneInv
<1>3. up \in Seq(Bytes) /\ down \in Seq(Bytes) /\ host \in {"hello", "next", "ping", "skip", "read", "write", "dead"}
    BY DEF Kept, TypeInv
<1>4. ASSUME NEW b \in Bytes PROVE Append(up, b) \in Seq(Bytes)
    BY <1>3, AppendFact
<1>5. Append(up, Dot) \in Seq(Bytes) /\ up \o Ok \in Seq(Bytes)
    <2>1. Dot \in Bytes
        BY BytesFact
    <2>2. up \o Ok \in Seq(Bytes)
        BY <1>3, OkFact, ConcatFact
    <2> QED BY <1>4, <2>1, <2>2
<1>6. down # <<>> => Tail(down) \in Seq(Bytes)
    BY <1>3, TailFact
<1>7. CASE HelloAgain
    BY <1>1, <1>2, <1>3, <1>5, <1>7 DEF HelloAgain, Kept, TypeInv, qemu
<1>8. CASE HelloAnswered
    BY <1>1, <1>2, <1>3, <1>5, <1>6, <1>8 DEF HelloAnswered, Kept, TypeInv, qemu
<1>9. CASE HelloOther
    BY <1>1, <1>2, <1>3, <1>5, <1>6, <1>9 DEF HelloOther, Kept, TypeInv, qemu
<1>10. CASE Ping
    <2>1. phase' \in {phase, "connect", "serve"}
        BY <1>10 DEF Ping
    <2>2. up' = Append(up, Dot) /\ host' = "ping" /\ UNCHANGED <<down, last_irq, req, guest>>
        BY <1>10 DEF Ping, qemu
    <2> QED BY <1>1, <1>2, <1>3, <1>5, <2>1, <2>2 DEF Kept, TypeInv
<1>11. CASE Forward
    <2>1. req \in Requests /\ UNCHANGED <<down, phase, last_irq, req, guest>>
        BY <1>11 DEF Forward, Kept, TypeInv, qemu
    <2>2. up \o Encoded(req) \in Seq(Bytes)
        BY <1>3, <2>1, EncodedFact, ConcatFact
    <2>3. up' \in Seq(Bytes) /\ host' \in {"skip", "read", "write"}
        BY <1>5, <1>11, <2>2 DEF Forward
    <2> QED BY <1>1, <1>2, <1>3, <2>1, <2>3 DEF Kept, TypeInv
<1>12. CASE Answered
    <2>1. host \in Waits /\ Len(down) > DataSize /\ DataSize \in {0, 4} /\ up' = up /\ Len(down) \in Nat
        BY <1>3, <1>12, EmptyFact DEF Answered, DataSize
    <2>2. SubSeq(down, DataSize + 2, Len(down)) \in Seq(Bytes) /\ SubSeq(down, DataSize + 3, Len(down)) \in Seq(Bytes)
        BY <1>3, <2>1
    <2>3. Complete => host' = "next" /\ phase' \in {phase, "connect"} /\ req' \in {req, NoRequest} /\ guest' \in {guest, "run"}
        BY DEF Complete, qemu
    <2>4. CASE Complete /\ last_irq' = last_irq /\ down' = SubSeq(down, DataSize + 2, Len(down))
        BY <1>1, <1>2, <1>3, <2>1, <2>2, <2>3, <2>4 DEF Kept, TypeInv
    <2>5. CASE /\ Complete /\ last_irq' = WriteIrq(down[DataSize + 2]) /\ down' = SubSeq(down, DataSize + 3, Len(down))
               /\ Len(down) > DataSize + 1
        <3>1. down[DataSize + 2] \in Bytes
            <4>1. DataSize + 2 \in 1 .. Len(down)
                BY <2>1, <2>5
            <4> QED BY <1>3, <4>1, ElementOfSeq
        <3>2. last_irq' \in Bytes \union {-1}
            BY <2>5, <3>1 DEF WriteIrq, Kept, TypeInv
        <3> QED BY <1>1, <1>2, <1>3, <2>1, <2>2, <2>3, <2>5, <3>2 DEF Kept, TypeInv
    <2>6. CASE host' = "dead" /\ UNCHANGED <<down, phase, last_irq, qemu>>
        BY <1>1, <1>2, <1>3, <2>1, <2>6 DEF Kept, TypeInv, qemu
    <2> QED BY <1>12, <2>4, <2>5, <2>6 DEF Answered
<1>13. CASE TimedOut
    BY <1>1, <1>2, <1>3, <1>13 DEF TimedOut, Kept, TypeInv, qemu
<1> QED BY <1>7, <1>8, <1>9, <1>10, <1>11, <1>12, <1>13 DEF Host

\* A peripheral, QEMU's firmware, or nothing.
LEMMA ElseKept ==
    ASSUME Kept, Raise \/ EnterIsr \/ Access \/ LeaveIsr \/ UNCHANGED vars
    PROVE  Kept'
<1>1. CASE Raise
    <2>1. line' \in Irqs /\ UNCHANGED <<up, down, pc, inIrq, back, frame, current_irq, data, bridge, qemu>>
        BY <1>1 DEF Raise
    <2> QED BY <2>1 DEF Kept, TypeInv, PhoneInv, bridge, qemu
<1>2. CASE EnterIsr
    BY <1>2 DEF EnterIsr, Kept, TypeInv, PhoneInv, bridge, phone
<1>3. CASE Access \/ LeaveIsr
    <2>1. req' \in Requests
        BY <1>3, BytesFact DEF Access, LeaveIsr, Requests, WriteRequest, Registers
    <2>2. UNCHANGED <<up, down, phone, bridge, guest>>
        BY <1>3 DEF Access, LeaveIsr
    <2> QED BY <2>1, <2>2 DEF Kept, TypeInv, PhoneInv, bridge, phone
<1>4. CASE UNCHANGED vars
    BY <1>4 DEF vars, Kept, TypeInv, PhoneInv, bridge, phone, qemu
<1> QED BY <1>1, <1>2, <1>3, <1>4

\* Any step.
LEMMA StepKept == Kept /\ [Next]_vars => Kept'
BY PhoneKept, HostKept, ElseKept DEF Next, Over

-----------------------------------------------------------------------------
\* The phone's steps.

\* Which steps a place allows.
LEMMA Places ==
    ASSUME Phone
    PROVE  /\ UNCHANGED <<host, phase, last_irq, req, guest>>
           /\ AtRest => SeeByte \/ TakeIrq \/ SwiTooLate \/ AnswerPing \/ BeginCommand
           /\ pc \in {"O", "K"} => HelloO \/ HelloK
           /\ pc = "args" => ReadArgument \/ ExecuteRead \/ ExecuteWrite
           /\ pc = "onerr" => OnErr
<1>1. UNCHANGED <<host, phase, last_irq, req, guest>>
    BY DEF Phone, HelloO, HelloK, SeeByte, TakeIrq, SwiTooLate, AnswerPing, BeginCommand, ReadArgument, ExecuteRead,
           ExecuteWrite, OnErr, bridge, qemu
<1>2. /\ HelloO => pc = "O"
      /\ HelloK => pc = "K"
      /\ SeeByte \/ TakeIrq \/ SwiTooLate \/ AnswerPing \/ BeginCommand => pc \in {"loop", "swi", "poll"}
      /\ ReadArgument \/ ExecuteRead \/ ExecuteWrite => pc = "args"
      /\ OnErr => pc = "onerr"
    BY DEF HelloO, HelloK, SeeByte, TakeIrq, SwiTooLate, AnswerPing, BeginCommand, ReadArgument, ExecuteRead,
           ExecuteWrite, CommandComplete, OnErr
<1> QED BY <1>1, <1>2 DEF Phone, AtRest

\* A step that neither reads nor sends.
LEMMA Silent ==
    ASSUME Kept, AtRest, SeeByte \/ TakeIrq \/ SwiTooLate
    PROVE  /\ AtRest' /\ UNCHANGED <<up, down, frame>>
           /\ inIrq => inIrq' /\ current_irq' = current_irq
<1>1. pc = "poll" => inIrq
    BY DEF Kept, PhoneInv
<1>2. pc \in {"loop", "swi"} => ~inIrq
    BY DEF Kept, PhoneInv
<1> QED BY <1>1, <1>2 DEF SeeByte, TakeIrq, SwiTooLate, AtRest

\* The bytes s with one byte, or with two, behind them.
LEMMA EndFact ==
    ASSUME NEW s \in Seq(Bytes), NEW a \in Bytes, NEW b \in Bytes
    PROVE  /\ Len(s) \in Nat
           /\ s \o <<a>> \in Seq(Bytes) /\ Len(s \o <<a>>) = Len(s) + 1 /\ (s \o <<a>>)[Len(s) + 1] = a
           /\ \A i \in 1 .. Len(s) : (s \o <<a>>)[i] = s[i]
           /\ s \o <<a, b>> \in Seq(Bytes) /\ Len(s \o <<a, b>>) = Len(s) + 2
           /\ (s \o <<a, b>>)[Len(s) + 1] = a /\ (s \o <<a, b>>)[Len(s) + 2] = b
           /\ \A i \in 1 .. Len(s) : (s \o <<a, b>>)[i] = s[i]
OBVIOUS

\* An answer: its data s, then Report.
Ends(d, s, mark, plain, irq, n) ==
    /\ Len(s) \in Nat /\ d \in Seq(Bytes)
    /\ irq => Len(d) = Len(s) + 2 /\ d[Len(s) + 1] = mark /\ d[Len(s) + 2] = n
    /\ ~irq => Len(d) = Len(s) + 1 /\ d[Len(s) + 1] = plain
    /\ \A i \in 1 .. Len(s) : d[i] = s[i]

\* What Report makes of an answer.
LEMMA AnswerFact ==
    ASSUME NEW mark \in Bytes, NEW plain \in Bytes, NEW n \in Bytes, NEW s \in Seq(Bytes), NEW irq \in BOOLEAN
    PROVE  Ends(s \o Report(mark, plain, irq, n), s, mark, plain, irq, n)
<1>1. CASE irq
    <2>1. Report(mark, plain, irq, n) = <<mark, n>>
        BY <1>1 DEF Report
    <2>2. /\ Len(s) \in Nat /\ s \o <<mark, n>> \in Seq(Bytes) /\ Len(s \o <<mark, n>>) = Len(s) + 2
          /\ (s \o <<mark, n>>)[Len(s) + 1] = mark /\ (s \o <<mark, n>>)[Len(s) + 2] = n
          /\ \A i \in 1 .. Len(s) : (s \o <<mark, n>>)[i] = s[i]
        BY EndFact
    <2> QED BY <1>1, <2>1, <2>2, Zenon DEF Ends
<1>2. CASE ~irq
    <2>1. Report(mark, plain, irq, n) = <<plain>>
        BY <1>2 DEF Report
    <2> QED BY <1>2, <2>1, EndFact DEF Ends
<1> QED BY <1>1, <1>2

\* What the phone has sent stays sent.
LEMMA Grows ==
    ASSUME Kept, Phone
    PROVE  /\ Len(down) \in Nat /\ Len(down') \in Nat /\ Len(down') >= Len(down)
           /\ \A i \in 1 .. Len(down) : down'[i] = down[i]
<1>1. down \in Seq(Bytes) /\ inIrq \in BOOLEAN /\ current_irq \in Bytes /\ Len(down) \in Nat /\ data \in Bytes
    BY EmptyFact DEF Kept, TypeInv
<1>2. ASSUME NEW t \in Seq(Bytes), down' = down \o t
      PROVE  Len(down') \in Nat /\ Len(down') >= Len(down) /\ \A i \in 1 .. Len(down) : down'[i] = down[i]
    BY <1>1, <1>2, ConcatFact
<1>3. ASSUME NEW b \in Bytes, down' = Append(down, b)
      PROVE  Len(down') \in Nat /\ Len(down') >= Len(down) /\ \A i \in 1 .. Len(down) : down'[i] = down[i]
    BY <1>1, <1>3, AppendFact
<1>4. CASE down' = down
    BY <1>1, <1>4
<1>5. CASE HelloK \/ OnErr
    <2>1. down' \in {down, Append(down, Dot), Append(down, ErrByte)} /\ Dot \in Bytes /\ ErrByte \in Bytes
        BY <1>5, BytesFact DEF HelloK, OnErr
    <2> QED BY <1>1, <1>3, <1>4, <2>1
<1>6. CASE AnswerPing
    <2>1. Report(Comma, Dot, inIrq, current_irq) \in Seq(Bytes)
        BY <1>1, ReportFact, BytesFact
    <2> QED BY <1>1, <1>2, <1>6, <2>1 DEF AnswerPing
<1>7. CASE ExecuteRead
    <2> DEFINE w == Word(ReadValue(frame[2]))
               r == Report(Bang, Semicolon, inIrq, current_irq)
    <2>1. down' = (down \o w) \o r
        BY <1>7 DEF ExecuteRead
    <2>2. w \in Seq(Bytes) /\ r \in Seq(Bytes)
        <3>1. ReadValue(frame[2]) \in Bytes
            BY <1>1, BytesFact DEF ReadValue
        <3> QED BY <1>1, <3>1, WordFact, ReportFact, BytesFact
    <2> HIDE DEF w, r
    <2>3. (down \o w) \o r = down \o (w \o r) /\ w \o r \in Seq(Bytes)
        BY <1>1, <2>2, ConcatAssociative, ConcatFact
    <2> QED BY <1>1, <1>2, <2>1, <2>3
<1>8. CASE ExecuteWrite
    <2>1. current_irq' \in Bytes /\ down' = down \o Report(Bang, Semicolon, inIrq, current_irq')
        BY <1>8, PhoneKept DEF ExecuteWrite, Kept, TypeInv
    <2>2. Report(Bang, Semicolon, inIrq, current_irq') \in Seq(Bytes)
        BY <1>1, <2>1, ReportFact, BytesFact
    <2> QED BY <1>1, <1>2, <2>1, <2>2
<1>9. CASE HelloO \/ SeeByte \/ TakeIrq \/ SwiTooLate \/ BeginCommand \/ ReadArgument
    BY <1>4, <1>9 DEF HelloO, SeeByte, TakeIrq, SwiTooLate, BeginCommand, ReadArgument
<1> QED BY <1>1, <1>5, <1>6, <1>7, <1>8, <1>9 DEF Phone

-----------------------------------------------------------------------------
\* The greeting, step by step.

\* One greeting more, or one byte of them less.
LEMMA HellosFact ==
    ASSUME NEW s \in Seq(Bytes), Hellos(s, Len(s))
    PROVE  /\ Hellos(s \o Ok, Len(s \o Ok))
           /\ s # <<>> => Hellos(Tail(s), Len(Tail(s))) /\ Head(s) \in {CharO, CharK}
           /\ Len(Append(s, Dot)) >= 1 /\ Append(s, Dot)[Len(Append(s, Dot))] = Dot
           /\ Hellos(Append(s, Dot), Len(Append(s, Dot)) - 1)
<1>1. /\ Len(s) \in Nat /\ Len(s \o Ok) = Len(s) + 2
      /\ \A i \in 1 .. Len(s) : (s \o Ok)[i] = s[i]
      /\ \A i \in 1 .. 2 : (s \o Ok)[Len(s) + i] = Ok[i]
    <2>1. Ok \in Seq(Bytes)
        BY OkFact
    <2>2. /\ Len(s) \in Nat /\ Len(s \o Ok) = Len(s) + Len(Ok)
          /\ \A i \in 1 .. Len(s) : (s \o Ok)[i] = s[i]
          /\ \A i \in 1 .. Len(Ok) : (s \o Ok)[Len(s) + i] = Ok[i]
        BY <2>1, ConcatFact
    <2> QED BY <2>2, OkFact
<1>2. Hellos(s \o Ok, Len(s \o Ok))
    <2> SUFFICES ASSUME NEW i \in 1 .. Len(s) + 2 PROVE (s \o Ok)[i] \in {CharO, CharK}
        BY <1>1 DEF Hellos
    <2>1. CASE i \in 1 .. Len(s)
        BY <1>1, <2>1 DEF Hellos
    <2>2. CASE i \in {Len(s) + 1, Len(s) + 2}
        <3>1. (s \o Ok)[Len(s) + 1] = CharO /\ (s \o Ok)[Len(s) + 2] = CharK
            BY <1>1, OkFact
        <3> QED BY <2>2, <3>1
    <2> QED BY <1>1, <2>1, <2>2
<1>3. ASSUME s # <<>> PROVE Hellos(Tail(s), Len(Tail(s))) /\ Head(s) \in {CharO, CharK}
    <2>1. /\ Len(s) >= 1 /\ Head(s) = s[1] /\ Len(Tail(s)) = Len(s) - 1
          /\ \A i \in 1 .. Len(s) - 1 : Tail(s)[i] = s[i + 1]
        BY <1>3, TailFact
    <2>2. 1 \in 1 .. Len(s) /\ \A i \in 1 .. Len(s) - 1 : i + 1 \in 1 .. Len(s)
        BY <1>1, <2>1
    <2> QED BY <2>1, <2>2 DEF Hellos
<1>4. /\ Len(Append(s, Dot)) = Len(s) + 1 /\ Append(s, Dot)[Len(s) + 1] = Dot
      /\ \A i \in 1 .. Len(s) : Append(s, Dot)[i] = s[i]
    <2>1. Dot \in Bytes
        BY BytesFact
    <2> QED BY <2>1, AppendFact
<1>5. /\ Len(Append(s, Dot)) >= 1 /\ Append(s, Dot)[Len(Append(s, Dot))] = Dot
      /\ Len(Append(s, Dot)) - 1 = Len(s)
    BY <1>1, <1>4
<1>6. Hellos(Append(s, Dot), Len(s))
    BY <1>4 DEF Hellos
<1>7. Hellos(Append(s, Dot), Len(Append(s, Dot)) - 1)
    BY <1>5, <1>6
<1> QED BY <1>2, <1>3, <1>5, <1>7

\* The greetings that are left when the ping has been sent.
LEMMA PingLast ==
    ASSUME NEW s \in Seq(Bytes), Len(s) >= 1, s[Len(s)] = Dot, Hellos(s, Len(s) - 1)
    PROVE  /\ s # <<>> /\ (Head(s) = Dot => Tail(s) = <<>>)
           /\ Head(s) # Dot => /\ Len(Tail(s)) >= 1 /\ Tail(s)[Len(Tail(s))] = Dot
                               /\ Hellos(Tail(s), Len(Tail(s)) - 1)
                               /\ Head(s) \in {CharO, CharK}
<1>1. s # <<>> /\ Len(s) \in Nat
    BY EmptyFact
<1>2. /\ Head(s) = s[1] /\ Tail(s) \in Seq(Bytes) /\ Len(Tail(s)) = Len(s) - 1
      /\ \A i \in 1 .. Len(s) - 1 : Tail(s)[i] = s[i + 1]
    BY <1>1, TailFact
<1>3. CASE Len(s) = 1
    <2>1. Head(s) = Dot /\ Len(Tail(s)) = 0
        BY <1>2, <1>3
    <2> QED BY <1>1, <1>2, <2>1, EmptyFact
<1>4. CASE Len(s) > 1
    <2>1. 1 \in 1 .. Len(s) - 1 /\ Len(s) - 1 \in 1 .. Len(s) - 1 /\ Len(s) - 1 + 1 = Len(s)
        BY <1>1, <1>4
    <2>2. Head(s) \in {CharO, CharK}
        BY <1>2, <2>1 DEF Hellos
    <2>3. Tail(s)[Len(Tail(s))] = Dot
        BY <1>2, <2>1
    <2>4. \A i \in 1 .. Len(Tail(s)) - 1 : i \in 1 .. Len(s) - 1 /\ i + 1 \in 1 .. Len(s) - 1
        BY <1>1, <1>2, <1>4
    <2>5. Hellos(Tail(s), Len(Tail(s)) - 1)
        BY <1>2, <2>4 DEF Hellos
    <2>6. Len(Tail(s)) >= 1
        BY <1>1, <1>2, <1>4
    <2> QED BY <1>1, <2>2, <2>3, <2>5, <2>6, MarksFact
<1> QED BY <1>1, <1>3, <1>4

\* A step of the phone leaves what is in front.
LEMMA AheadKept ==
    ASSUME Kept, Phone, NEW k \in 0 .. 2, Ahead(k)
    PROVE  Ahead(k)' /\ Len(down) >= k
<1>1. host' = host
    BY Places
<1>2. /\ Len(down) \in Nat /\ Len(down') \in Nat /\ Len(down') >= Len(down)
      /\ \A i \in 1 .. Len(down) : down'[i] = down[i]
    BY Grows
<1>3. CASE k = 0
    BY <1>1, <1>2, <1>3 DEF Ahead
<1>4. CASE k = 1
    <2>1. host = "hello" /\ Len(down) >= 1 /\ down[1] = Dot
        BY <1>4 DEF Ahead
    <2>2. 1 \in 1 .. Len(down) /\ Len(down') >= 1
        BY <1>2, <2>1
    <2>3. down'[1] = Dot
        BY <1>2, <2>1, <2>2
    <2> QED BY <1>1, <1>4, <2>1, <2>2, <2>3 DEF Ahead
<1>5. CASE k = 2
    <2>1. host = "hello" /\ Len(down) >= 2 /\ down[1] = Noise /\ down[2] = Dot
        BY <1>5 DEF Ahead
    <2>2. 1 \in 1 .. Len(down) /\ 2 \in 1 .. Len(down) /\ Len(down') >= 2
        BY <1>2, <2>1
    <2>3. down'[1] = Noise /\ down'[2] = Dot
        BY <1>2, <2>1, <2>2
    <2> QED BY <1>1, <1>5, <2>1, <2>2, <2>3 DEF Ahead
<1> QED BY <1>3, <1>4, <1>5

\* A phone that took a greeting for a command never says '.' or ',' to the ping.
LEMMA SpoiledKept ==
    ASSUME Kept, Phone, NEW k \in 0 .. 2, Spoiled(k)
    PROVE  Spoiled(k)'
<1>1. /\ Len(down) \in Nat /\ Len(down') \in Nat /\ Len(down') >= Len(down)
      /\ \A i \in 1 .. Len(down) : down'[i] = down[i]
    BY Grows
<1>2. /\ down \in Seq(Bytes) /\ up \in Seq(Bytes) /\ frame \in Seq(Bytes) /\ inIrq \in BOOLEAN /\ current_irq' \in Bytes
    BY PhoneKept DEF Kept, TypeInv
<1>3. CASE Len(down) > k /\ down[k + 1] \in {Semicolon, Bang, ErrByte}
    <2>1. k + 1 \in 1 .. Len(down) /\ Len(down') > k
        BY <1>1, <1>3
    <2> QED BY <1>1, <1>3, <2>1 DEF Spoiled
<1>4. CASE Len(down) = k /\ pc = "onerr"
    <2>1. down' = Append(down, ErrByte) /\ ErrByte \in Bytes
        BY <1>4, Places, BytesFact DEF OnErr
    <2>2. Len(down') = Len(down) + 1 /\ down'[Len(down) + 1] = ErrByte
        BY <1>2, <2>1, AppendFact
    <2>3. Len(down') > k /\ down'[k + 1] = ErrByte
        BY <1>1, <1>4, <2>2
    <2> QED BY <2>3 DEF Spoiled
<1>5. CASE Len(down) = k /\ pc = "args" /\ frame # <<>> /\ frame[1] = CharO
    <2>1. ReadArgument \/ ExecuteRead \/ ExecuteWrite
        BY <1>5, Places
    <2>2. ~ExecuteRead
        BY <1>5, MarksFact DEF ExecuteRead, CommandComplete
    <2>3. CASE ReadArgument
        <3>1. up # <<>> /\ frame' = Append(frame, Head(up)) /\ down' = down /\ pc' = pc
            BY <2>3 DEF ReadArgument
        <3>2. Head(up) \in Bytes /\ Len(frame) >= 1
            BY <1>2, <1>5, <3>1, TailFact
        <3>3. /\ Len(frame) \in Nat /\ Len(frame') = Len(frame) + 1
              /\ \A i \in 1 .. Len(frame) : frame'[i] = frame[i]
            BY <1>2, <3>1, <3>2, AppendFact
        <3>4. frame' # <<>> /\ frame'[1] = CharO
            BY <1>5, <3>2, <3>3
        <3> QED BY <1>5, <3>1, <3>4 DEF Spoiled
    <2>4. CASE ExecuteWrite
        <3>1. down' = down \o Report(Bang, Semicolon, inIrq, current_irq') /\ Bang \in Bytes /\ Semicolon \in Bytes
            BY <2>4, BytesFact DEF ExecuteWrite
        <3>2. down \in Seq(Bytes) /\ current_irq' \in Bytes /\ inIrq \in BOOLEAN
            BY <1>2
        <3>3. Ends(down', down, Bang, Semicolon, inIrq, current_irq')
            BY <3>1, <3>2, AnswerFact
        <3>4. Len(down') \in {Len(down) + 1, Len(down) + 2} /\ down'[Len(down) + 1] \in {Bang, Semicolon}
            BY <1>2, <3>3 DEF Ends
        <3>5. Len(down') > k /\ down'[k + 1] \in {Bang, Semicolon}
            BY <1>1, <1>5, <3>4
        <3> QED BY <3>5 DEF Spoiled
    <2> QED BY <2>1, <2>2, <2>3, <2>4
<1> QED BY <1>3, <1>4, <1>5 DEF Spoiled

\* The phone, while it has read no command.
LEMMA CleanKept ==
    ASSUME Kept, Phone, NEW k \in 0 .. 2, Ahead(k), Clean(k)
    PROVE  Clean(k)' \/ Spoiled(k)' \/ Welcome'
<1>1. /\ down \in Seq(Bytes) /\ up \in Seq(Bytes) /\ inIrq \in BOOLEAN /\ current_irq \in Bytes /\ Len(down) \in Nat
    BY EmptyFact DEF Kept, TypeInv
<1>2. /\ AtRest /\ Len(down) = k /\ host' = host
      /\ SeeByte \/ TakeIrq \/ SwiTooLate \/ AnswerPing \/ BeginCommand
    BY Places DEF Clean
<1>3. CASE SeeByte \/ TakeIrq \/ SwiTooLate
    <2>1. AtRest' /\ up' = up /\ down' = down
        BY <1>2, <1>3, Silent
    <2> QED BY <1>2, <2>1 DEF Clean, Hellos
<1>4. ASSUME up # <<>>, host = "hello"
      PROVE  Head(up) \in {CharO, CharK} /\ Hellos(Tail(up), Len(Tail(up)))
    BY <1>1, <1>4, HellosFact DEF Clean
<1>5. ASSUME host = "ping"
      PROVE  /\ up # <<>> /\ (Head(up) = Dot => Tail(up) = <<>>)
             /\ Head(up) # Dot => Head(up) \in {CharO, CharK}
    BY <1>1, <1>5, PingLast DEF Clean
<1>6. host \in {"hello", "ping"}
    BY DEF Clean
<1>7. CASE AnswerPing
    <2>1. /\ up # <<>> /\ Head(up) = Dot /\ up' = Tail(up) /\ HandlerReturns(FALSE) /\ current_irq' = current_irq
          /\ down' = down \o Report(Comma, Dot, inIrq, current_irq)
        BY <1>7 DEF AnswerPing
    <2>2. host = "ping" /\ k = 0
        <3>1. host # "hello"
            BY <1>4, <2>1, MarksFact
        <3> QED BY <1>6, <3>1 DEF Ahead
    <2>3. up' = <<>>
        BY <1>5, <2>1, <2>2
    <2>4. Ends(down', down, Comma, Dot, inIrq, current_irq)
        <3>1. Comma \in Bytes /\ Dot \in Bytes
            BY BytesFact
        <3> QED BY <1>1, <2>1, <3>1, AnswerFact
    <2>5. (Len(down') = 2 /\ down'[1] = Comma) \/ (Len(down') = 1 /\ down'[1] = Dot)
        BY <1>1, <1>2, <2>2, <2>4 DEF Ends
    <2>6. AtRest'
        <3>1. pc' \in {"loop", "swi", "poll"} /\ frame' = <<>>
            BY <2>1, CurrentFact, ReturnsKept
        <3> QED BY <3>1 DEF AtRest
    <2> QED BY <1>2, <2>2, <2>3, <2>5, <2>6 DEF Welcome
<1>8. CASE BeginCommand
    <2>1. /\ up # <<>> /\ Head(up) # Dot /\ frame' = <<Head(up)>> /\ down' = down
          /\ pc' = IF Head(up) \in ReadOps \union WriteOps THEN "args" ELSE "onerr"
        BY <1>8 DEF BeginCommand
    <2>2. Head(up) \in {CharO, CharK}
        BY <1>4, <1>5, <1>6, <2>1
    <2>3. frame' # <<>> /\ frame'[1] = Head(up)
        BY <2>1
    <2>4. CASE Head(up) = CharO
        <3>1. pc' = "args"
            BY <2>1, <2>4, MarksFact
        <3> QED BY <1>2, <2>1, <2>3, <2>4, <3>1 DEF Spoiled
    <2>5. CASE Head(up) = CharK
        <3>1. pc' = "onerr"
            BY <2>1, <2>5, MarksFact
        <3> QED BY <1>2, <2>1, <3>1 DEF Spoiled
    <2> QED BY <2>2, <2>4, <2>5
<1> QED BY <1>2, <1>3, <1>7, <1>8

\* The phone during the greeting.
LEMMA GreetingPhone ==
    ASSUME Kept, Greeting, Phone
    PROVE  Greeting'
<1>1. UNCHANGED <<host, phase, last_irq, req, guest>>
    BY Places
<1>2. /\ phase' = "greet" /\ req' = NoRequest /\ guest' = "run" /\ last_irq' = -1
    BY <1>1 DEF Greeting, NoRequest
<1>3. up \in Seq(Bytes) /\ down \in Seq(Bytes)
    BY DEF Kept, TypeInv
<1>4. CASE host = "dead"
    BY <1>1, <1>2, <1>4 DEF Greeting
<1>5. CASE Unheard
    <2>1. host' = "hello" /\ (HelloO \/ HelloK) /\ frame = <<>> /\ down \in {<<>>, <<Noise>>}
        BY <1>1, <1>5, Places DEF Unheard
    <2>2. up # <<>> /\ up' = Tail(up) /\ frame' = frame
        BY <2>1 DEF HelloO, HelloK
    <2>3. Hellos(Tail(up), Len(Tail(up)))
        BY <1>3, <1>5, <2>2, HellosFact DEF Unheard
    <2>4. Hellos(up, Len(up))'
        BY <2>2, <2>3 DEF Hellos
    <2>5. CASE down' = down /\ pc' \in {"O", "K"}
        <3>1. Unheard'
            BY <2>1, <2>2, <2>4, <2>5 DEF Unheard, Noise
        <3> QED BY <1>2, <3>1 DEF Greeting
    <2>6. CASE down' = Append(down, Dot) /\ pc' = "loop"
        <3>1. AtRest'
            BY <2>1, <2>2, <2>6 DEF AtRest
        <3>2. CASE down = <<>>
            <4>1. Len(down') = 1 /\ down'[1] = Dot
                BY <2>6, <3>2
            <4>2. Ahead(1)' /\ Clean(1)'
                BY <2>1, <2>4, <3>1, <4>1 DEF Ahead, Clean, Dot
            <4> QED BY <1>2, <4>2 DEF Greeting
        <3>3. CASE down = <<Noise>>
            <4>1. Len(down') = 2 /\ down'[1] = Noise /\ down'[2] = Dot
                BY <2>6, <3>3
            <4>2. Ahead(2)' /\ Clean(2)'
                BY <2>1, <2>4, <3>1, <4>1 DEF Ahead, Clean, Dot, Noise
            <4> QED BY <1>2, <4>2 DEF Greeting
        <3> QED BY <2>1, <3>2, <3>3
    <2> QED BY <2>1, <2>5, <2>6 DEF HelloO, HelloK
<1>6. CASE Welcome
    <2>1. host' = "ping" /\ AtRest /\ up = <<>>
        BY <1>1, <1>6 DEF Welcome
    <2>2. SeeByte \/ TakeIrq \/ SwiTooLate
        BY <2>1, Places DEF AnswerPing, BeginCommand
    <2>3. AtRest' /\ up' = up /\ down' = down
        BY <2>1, <2>2, Silent
    <2>4. Welcome'
        BY <1>6, <2>1, <2>3 DEF Welcome, Dot, Comma
    <2> QED BY <1>2, <2>4 DEF Greeting
<1>7. ASSUME NEW k \in 0 .. 2, Ahead(k), Clean(k) \/ Spoiled(k)
      PROVE  Greeting'
    <2>1. Ahead(k)'
        BY <1>7, AheadKept
    <2>2. Clean(k)' \/ Spoiled(k)' \/ Welcome'
        BY <1>7, CleanKept, SpoiledKept
    <2> QED BY <1>2, <2>1, <2>2 DEF Greeting
<1> QED BY <1>4, <1>5, <1>6, <1>7 DEF Greeting

\* The host during the greeting: only the answer to the ping ends it.
LEMMA GreetingHost ==
    ASSUME Kept, Greeting, Host
    PROVE  Greeting' \/ Session'
<1>1. /\ phase = "greet" /\ req = NoRequest /\ guest = "run" /\ last_irq = -1
      /\ up \in Seq(Bytes) /\ down \in Seq(Bytes) /\ Len(down) \in Nat
    BY EmptyFact DEF Greeting, Kept, TypeInv
<1>2. /\ host \in {"dead", "hello", "ping"}
      /\ UNCHANGED <<pc, inIrq, back, frame, current_irq, data, line>>
    BY DEF Greeting, Unheard, Welcome, Ahead, Host, HelloAgain, HelloAnswered, HelloOther, Ping, Forward, Answered,
           TimedOut, phone
<1>3. ~Ping /\ ~Forward
    BY <1>2 DEF Ping, Forward
<1>4. CASE HelloAgain
    <2>1. host = "hello" /\ down = <<>> /\ up' = up \o Ok /\ UNCHANGED <<down, host, phase, last_irq, req, guest>>
        BY <1>4 DEF HelloAgain, qemu
    <2>2. Len(down) = 0
        BY <2>1
    <2>3. Unheard
        BY <2>1, <2>2 DEF Greeting, Welcome, Ahead
    <2>4. Hellos(up \o Ok, Len(up \o Ok))
        BY <1>1, <2>3, HellosFact DEF Unheard
    <2>5. Unheard'
        BY <1>2, <2>1, <2>3, <2>4 DEF Unheard, Hellos, Noise, CharO, CharK
    <2> QED BY <1>1, <2>1, <2>5 DEF Greeting, NoRequest
<1>5. CASE HelloAnswered
    <2>1. /\ host = "hello" /\ down # <<>> /\ Head(down) = Dot /\ down' = Tail(down) /\ host' = "ping"
          /\ up' = Append(up, Dot) /\ UNCHANGED <<phase, last_irq, req, guest>>
        BY <1>5 DEF HelloAnswered, qemu
    <2>2. /\ Len(down) >= 1 /\ down[1] = Dot /\ Len(down') = Len(down) - 1
          /\ \A i \in 1 .. Len(down) - 1 : down'[i] = down[i + 1]
        BY <1>1, <2>1, TailFact
    <2>3. ~Unheard /\ ~Welcome
        <3>1. <<Noise>>[1] = Noise
            OBVIOUS
        <3> QED BY <2>1, <2>2, <3>1, MarksFact DEF Unheard, Welcome
    <2>4. Ahead(1) /\ (Clean(1) \/ Spoiled(1))
        <3>1. ~Ahead(0) /\ ~Ahead(2)
            BY <2>1, <2>2, MarksFact DEF Ahead
        <3> QED BY <2>1, <2>3, <3>1 DEF Greeting
    <2>5. Ahead(0)'
        BY <2>1 DEF Ahead
    <2>6. CASE Clean(1)
        <3>1. AtRest' /\ Len(down') = 0
            BY <1>2, <2>2, <2>6 DEF Clean, AtRest
        <3>2. Len(up') >= 1 /\ up'[Len(up')] = Dot /\ Hellos(Append(up, Dot), Len(Append(up, Dot)) - 1)
            BY <1>1, <2>1, <2>6, HellosFact DEF Clean
        <3>3. Hellos(up, Len(up) - 1)'
            BY <2>1, <3>2 DEF Hellos, CharO, CharK
        <3>4. Clean(0)'
            BY <2>1, <3>1, <3>2, <3>3 DEF Clean, Dot
        <3> QED BY <1>1, <2>1, <2>5, <3>4 DEF Greeting, NoRequest
    <2>7. CASE Spoiled(1)
        <3>1. CASE Len(down) = 1 /\ (pc = "onerr" \/ (pc = "args" /\ frame # <<>> /\ frame[1] = CharO))
            <4>1. Len(down') = 0
                BY <2>2, <3>1
            <4>2. Spoiled(0)'
                BY <1>2, <3>1, <4>1 DEF Spoiled, CharO
            <4> QED BY <1>1, <2>1, <2>5, <4>2 DEF Greeting, NoRequest
        <3>2. CASE Len(down) > 1 /\ down[1 + 1] \in {Semicolon, Bang, ErrByte}
            <4>1. 1 \in 1 .. Len(down) - 1 /\ Len(down') > 0
                BY <1>1, <2>2, <3>2
            <4>2. down'[0 + 1] \in {Semicolon, Bang, ErrByte}
                BY <2>2, <3>2, <4>1
            <4>3. Spoiled(0)'
                BY <4>1, <4>2 DEF Spoiled, Semicolon, Bang, ErrByte
            <4> QED BY <1>1, <2>1, <2>5, <4>3 DEF Greeting, NoRequest
        <3> QED BY <2>7, <3>1, <3>2 DEF Spoiled
    <2> QED BY <2>4, <2>6, <2>7
<1>6. CASE HelloOther
    <2>1. /\ host = "hello" /\ down # <<>> /\ Head(down) # Dot /\ down' = Tail(down) /\ host' = host
          /\ up' = up \o Ok /\ UNCHANGED <<phase, last_irq, req, guest>>
        BY <1>6 DEF HelloOther, qemu
    <2>2. /\ Len(down) >= 1 /\ down[1] # Dot /\ Len(down') = Len(down) - 1 /\ down' \in Seq(Bytes)
          /\ \A i \in 1 .. Len(down) - 1 : down'[i] = down[i + 1]
        BY <1>1, <2>1, TailFact
    <2>3. ~Welcome /\ ~Ahead(0) /\ ~Ahead(1)
        BY <2>1, <2>2 DEF Welcome, Ahead
    <2>4. CASE Unheard
        <3>1. down' = <<>>
            <4>1. down = <<Noise>>
                BY <2>1, <2>4 DEF Unheard
            <4>2. Len(down') = 0
                BY <2>2, <4>1
            <4> QED BY <2>2, <4>2, EmptyFact
        <3>2. Hellos(up \o Ok, Len(up \o Ok))
            BY <1>1, <2>4, HellosFact DEF Unheard
        <3>3. Unheard'
            BY <1>2, <2>1, <2>4, <3>1, <3>2 DEF Unheard, Hellos, Noise, CharO, CharK
        <3> QED BY <1>1, <2>1, <3>3 DEF Greeting, NoRequest
    <2>5. CASE Ahead(2) /\ (Clean(2) \/ Spoiled(2))
        <3>1. Len(down) >= 2 /\ down[2] = Dot
            BY <2>5 DEF Ahead
        <3>2. 1 \in 1 .. Len(down) - 1 /\ 1 + 1 = 2 /\ Len(down') >= 1
            BY <1>1, <2>2, <3>1
        <3>3. down'[1] = Dot
            BY <2>2, <3>1, <3>2
        <3>4. Ahead(1)'
            BY <2>1, <3>2, <3>3 DEF Ahead, Dot
        <3>5. CASE Clean(2)
            <4>1. AtRest' /\ Len(down') = 1
                BY <1>2, <2>2, <3>5 DEF Clean, AtRest
            <4>2. Hellos(up \o Ok, Len(up \o Ok))
                BY <1>1, <2>1, <3>5, HellosFact DEF Clean
            <4>3. Clean(1)'
                BY <2>1, <4>1, <4>2 DEF Clean, Hellos, CharO, CharK
            <4> QED BY <1>1, <2>1, <3>4, <4>3 DEF Greeting, NoRequest
        <3>6. CASE Len(down) = 2 /\ (pc = "onerr" \/ (pc = "args" /\ frame # <<>> /\ frame[1] = CharO))
            <4>1. Len(down') = 1
                BY <2>2, <3>6
            <4>2. Spoiled(1)'
                BY <1>2, <3>6, <4>1 DEF Spoiled, CharO
            <4> QED BY <1>1, <2>1, <3>4, <4>2 DEF Greeting, NoRequest
        <3>7. CASE Len(down) > 2 /\ down[2 + 1] \in {Semicolon, Bang, ErrByte}
            <4>1. 2 \in 1 .. Len(down) - 1 /\ Len(down') > 1 /\ 1 + 1 = 2
                BY <1>1, <2>2, <3>7
            <4>2. down'[1 + 1] \in {Semicolon, Bang, ErrByte}
                BY <2>2, <3>7, <4>1
            <4>3. Spoiled(1)'
                BY <4>1, <4>2 DEF Spoiled, Semicolon, Bang, ErrByte
            <4> QED BY <1>1, <2>1, <3>4, <4>3 DEF Greeting, NoRequest
        <3> QED BY <2>5, <3>5, <3>6, <3>7 DEF Spoiled
    <2> QED BY <2>1, <2>3, <2>4, <2>5 DEF Greeting
<1>7. CASE TimedOut
    BY <1>1, <1>7 DEF TimedOut, Greeting, NoRequest, qemu
<1>8. CASE Answered
    <2>1. /\ host = "ping" /\ Len(down) > 0 /\ DataSize = 0 /\ IrqMark = Comma /\ PlainMark = Dot /\ up' = up
        BY <1>2, <1>8 DEF Answered, Waits, DataSize, IrqMark, PlainMark
    <2>2. ~Unheard
        BY <2>1 DEF Unheard
    <2>3. CASE Welcome
        <3>1. /\ AtRest /\ up = <<>>
              /\ (Len(down) = 1 /\ down[1] = Dot) \/ (Len(down) = 2 /\ down[1] = Comma)
            BY <2>3 DEF Welcome
        <3>2. \/ /\ down[1] = Dot /\ down' = SubSeq(down, 2, Len(down)) /\ last_irq' = last_irq /\ Complete
              \/ /\ down[1] = Comma /\ down' = SubSeq(down, 3, Len(down)) /\ last_irq' = WriteIrq(down[2]) /\ Complete
            BY <1>8, <2>1, <3>1 DEF Answered
        <3>3. down' = <<>>
            <4>1. CASE Len(down) = 1 /\ down[1] = Dot
                <5>1. down' = SubSeq(down, 1 + 1, Len(down))
                    BY <3>2, <4>1, MarksFact
                <5> QED BY <1>1, <4>1, <5>1, RestFact
            <4>2. CASE Len(down) = 2 /\ down[1] = Comma
                <5>1. down' = SubSeq(down, 2 + 1, Len(down))
                    BY <3>2, <4>2, MarksFact
                <5> QED BY <1>1, <4>2, <5>1, RestFact
            <4> QED BY <3>1, <4>1, <4>2
        <3>4. last_irq' = -1
            BY <1>1, <3>2 DEF WriteIrq
        <3>5. host' = "next" /\ phase' = "connect" /\ req' = NoRequest /\ guest' = "run"
            BY <1>1, <2>1, <3>2 DEF Complete, qemu
        <3>6. AtRest'
            BY <1>2, <3>1 DEF AtRest
        <3>7. Asked'
            BY <3>4, <3>5 DEF Asked, IsAck, NoRequest, VicIrqAck
        <3>8. Known'
            BY <3>4 DEF Known
        <3> QED BY <2>1, <3>1, <3>3, <3>4, <3>5, <3>6, <3>7, <3>8 DEF Session, NoRequest
    <2>4. CASE Ahead(0) /\ (Clean(0) \/ Spoiled(0))
        <3>1. down[0 + 1] \in {Semicolon, Bang, ErrByte}
            BY <1>1, <2>1, <2>4 DEF Clean, Spoiled
        <3>2. down[1] \notin {Dot, Comma}
            BY <3>1, MarksFact
        <3>3. host' = "dead" /\ UNCHANGED <<phase, last_irq, qemu>>
            BY <1>8, <2>1, <3>2 DEF Answered
        <3> QED BY <1>1, <3>3 DEF Greeting, NoRequest, qemu
    <2> QED BY <2>1, <2>2, <2>3, <2>4 DEF Greeting, Ahead
<1> QED BY <1>3, <1>4, <1>5, <1>6, <1>7, <1>8 DEF Host

-----------------------------------------------------------------------------
\* The session, step by step.

\* The command that Forward sends, place by place.
LEMMA CommandFact ==
    ASSUME Kept, Session, host \in {"read", "write"}
    PROVE  /\ req \in Requests /\ phase = "serve" /\ Encoded(req) \in Seq(Bytes)
           /\ Len(Encoded(req)) = CommandSize(req.op) /\ CommandSize(req.op) \in {5, 9}
           /\ Encoded(req)[1] = req.op /\ Encoded(req)[2] = req.reg
           /\ host = "read" <=> req.op \in ReadOps
           /\ host = "write" <=> req.op \in WriteOps
           /\ req.op \notin {Dot}
<1>1. req \in Requests /\ phase = "serve"
    BY DEF Session, Asked, Kept, TypeInv
<1>2. /\ host = "read" <=> req.op \in ReadOps
      /\ host = "write" <=> req.op \in WriteOps
    BY MarksFact DEF Session, Asked
<1>3. /\ Encoded(req) \in Seq(Bytes) /\ Len(Encoded(req)) = CommandSize(req.op)
      /\ Encoded(req)[1] = req.op /\ Encoded(req)[2] = req.reg
    BY <1>1, EncodedFact
<1>4. req.op \notin {Dot}
    BY <1>2, MarksFact
<1>5. CommandSize(req.op) \in {5, 9}
    BY DEF CommandSize
<1> QED BY <1>1, <1>2, <1>3, <1>4, <1>5

\* What a step of the phone leaves of the session's frame.
LEMMA SessionFrame ==
    ASSUME Session, UNCHANGED <<host, phase, last_irq, req, guest>>,
           Known', Sent' \/ Replied' \/ (host = "next" /\ AtRest' /\ up' = <<>> /\ down' = <<>>)
    PROVE  Session'
<1>1. Asked'
    BY DEF Session, Asked, IsAck, NoRequest, VicIrqAck, ReadOps, WriteOps, CharO
<1> QED BY <1>1 DEF Session, NoRequest

\* A step that neither reads nor sends.
LEMMA SessionSilent ==
    ASSUME Kept, Session, AtRest, SeeByte \/ TakeIrq \/ SwiTooLate
    PROVE  Session'
<1>1. UNCHANGED <<host, phase, last_irq, req, guest>>
    BY Places DEF Phone
<1>2. AtRest' /\ up' = up /\ down' = down /\ frame' = frame
    BY Silent
<1>3. inIrq => inIrq' /\ current_irq' = current_irq
    BY Silent
<1>4. Acking' = Acking
    BY <1>1 DEF Acking, IsAck, VicIrqAck, WriteOps, CharO
<1>5. Known'
    BY <1>1, <1>2, <1>3, <1>4 DEF Session, Known
<1>6. Sent => Sent'
    <2>1. Encoded(req)' = Encoded(req)
        BY <1>1 DEF Encoded, Word, Pad, WriteOps, CharO
    <2>2. Spells(frame, 0) => Spells(frame, 0)'
        BY <1>1, <1>2, <2>1 DEF Spells
    <2>3. Spells(up, Len(frame)) => Spells(up, Len(frame))'
        BY <1>1, <1>2, <2>1 DEF Spells
    <2> QED BY <1>1, <1>2, <2>2, <2>3 DEF Sent, Dot, CommandSize, ReadOps
<1>7. Replied => Replied'
    <2>1. DataSize' = DataSize /\ PlainMark' = PlainMark /\ IrqMark' = IrqMark
        BY <1>1 DEF DataSize, PlainMark, IrqMark, Comma, Bang, Dot, Semicolon
    <2> QED BY <1>1, <1>2, <1>3, <1>4, <2>1 DEF Replied, Waits
<1> QED BY <1>1, <1>2, <1>5, <1>6, <1>7, SessionFrame DEF Session

\* The phone answers a ping.
LEMMA SessionPing ==
    ASSUME Kept, Session, AtRest, AnswerPing
    PROVE  Session'
<1>1. UNCHANGED <<host, phase, last_irq, req, guest>>
    BY Places DEF Phone
<1>2. /\ up # <<>> /\ Head(up) = Dot /\ up' = Tail(up) /\ HandlerReturns(FALSE) /\ current_irq' = current_irq
      /\ down' = down \o Report(Comma, Dot, inIrq, current_irq)
    BY DEF AnswerPing
<1>3. up \in Seq(Bytes) /\ down \in Seq(Bytes) /\ inIrq \in BOOLEAN /\ current_irq \in Bytes
    BY DEF Kept, TypeInv
<1>4. /\ Len(up) \in Nat /\ Len(up) >= 1 /\ Head(up) = up[1] /\ Tail(up) \in Seq(Bytes) /\ Len(Tail(up)) = Len(up) - 1
    BY <1>2, <1>3, TailFact
<1>5. Sent
    BY <1>2 DEF Session, Replied
<1>6. host \in {"ping", "skip"}
    <2> SUFFICES ASSUME host \in {"read", "write"} PROVE FALSE
        BY <1>5 DEF Sent
    <2>1. Spells(up, 0)
        BY <1>5 DEF Sent, AtRest
    <2>2. 1 \in 1 .. Len(up) /\ 0 + 1 = 1
        BY <1>4
    <2>3. up[1] = Encoded(req)[1]
        BY <2>1, <2>2 DEF Spells
    <2> QED BY <1>2, <1>4, <2>3, CommandFact
<1>7. Len(up) = 1 /\ down = <<>>
    BY <1>5, <1>6 DEF Sent
<1>8. up' = <<>> /\ Len(down) = 0
    BY <1>2, <1>4, <1>7, EmptyFact
<1>9. Ends(down', down, Comma, Dot, inIrq, current_irq)
    <2>1. Comma \in Bytes /\ Dot \in Bytes
        BY BytesFact
    <2> QED BY <1>2, <1>3, <2>1, AnswerFact
<1>10. /\ inIrq => Len(down') = 2 /\ down'[1] = Comma /\ down'[2] = current_irq
       /\ ~inIrq => Len(down') = 1 /\ down'[1] = Dot
    BY <1>8, <1>9 DEF Ends
<1>11. AtRest' /\ inIrq' = inIrq
    <2>1. pc' \in {"loop", "swi", "poll"} /\ frame' = <<>>
        BY <1>2, CurrentFact, ReturnsKept
    <2> QED BY <1>2, <2>1 DEF AtRest, HandlerReturns
<1>12. DataSize' = 0 /\ PlainMark' = Dot /\ IrqMark' = Comma /\ ~Acking' /\ ~Acking
    BY <1>1, <1>6 DEF DataSize, PlainMark, IrqMark, Acking, Dot, Comma
<1>13. Known'
    BY <1>1, <1>2, <1>11, <1>12 DEF Session, Known
<1>14. Replied'
    <2>1. CASE inIrq
        <3>1. Len(down') = DataSize' + 2 /\ down'[DataSize' + 1] = IrqMark' /\ down'[DataSize' + 2] = current_irq'
            <4>1. Len(down') = 2 /\ down'[1] = Comma /\ down'[2] = current_irq
                BY <1>10, <2>1, Zenon
            <4> QED BY <1>2, <1>12, <4>1
        <3> QED BY <1>1, <1>6, <1>8, <1>11, <1>12, <2>1, <3>1 DEF Replied, Waits
    <2>2. CASE ~inIrq
        <3>1. Len(down') = DataSize' + 1 /\ down'[DataSize' + 1] = PlainMark'
            BY <1>10, <1>12, <2>2
        <3> QED BY <1>1, <1>6, <1>8, <1>11, <1>12, <3>1 DEF Replied, Waits
    <2> QED BY <2>1, <2>2
<1> QED BY <1>1, <1>13, <1>14, SessionFrame

\* A byte of the command moves from the receiver to the frame.
LEMMA SessionByte ==
    ASSUME Kept, Session, Sent, host \in {"read", "write"}, up # <<>>,
           frame' = Append(frame, Head(up)), up' = Tail(up), pc' = "args",
           UNCHANGED <<host, phase, last_irq, req, guest, down, inIrq, current_irq>>
    PROVE  Session'
<1>1. up \in Seq(Bytes) /\ frame \in Seq(Bytes) /\ Encoded(req) \in Seq(Bytes)
    BY CommandFact DEF Kept, TypeInv
<1>2. /\ Len(up) \in Nat /\ Len(up) >= 1 /\ Head(up) = up[1] /\ Head(up) \in Bytes /\ Len(up') = Len(up) - 1
      /\ \A i \in 1 .. Len(up) - 1 : up'[i] = up[i + 1]
    BY <1>1, TailFact
<1>3. /\ Len(frame) \in Nat /\ Len(frame') = Len(frame) + 1
      /\ \A i \in 1 .. Len(frame) : frame'[i] = frame[i]
      /\ frame'[Len(frame) + 1] = Head(up)
    BY <1>1, <1>2, AppendFact
<1>4. /\ down = <<>> /\ Len(frame) + Len(up) = CommandSize(req.op) /\ Spells(frame, 0) /\ Spells(up, Len(frame))
    BY DEF Sent
<1>5. Len(frame') + Len(up') = CommandSize(req.op)
    BY <1>2, <1>3, <1>4
<1> DEFINE e == Encoded(req)
<1>6. e' = e
    BY DEF Encoded, Word, Pad, WriteOps, CharO
<1>7. /\ \A i \in 1 .. Len(frame) : frame[i] = e[0 + i]
      /\ \A i \in 1 .. Len(up) : up[i] = e[Len(frame) + i]
    BY <1>4 DEF Spells
<1> HIDE DEF e
<1>8. \A i \in 1 .. Len(frame') : frame'[i] = e[0 + i]
    <2> SUFFICES ASSUME NEW i \in 1 .. Len(frame') PROVE frame'[i] = e[i]
        BY <1>3
    <2>1. CASE i \in 1 .. Len(frame)
        BY <1>3, <1>7, <2>1
    <2>2. CASE i = Len(frame) + 1
        <3>1. 1 \in 1 .. Len(up)
            BY <1>2
        <3>2. up[1] = e[Len(frame) + 1]
            BY <1>7, <3>1
        <3> QED BY <1>2, <1>3, <2>2, <3>2
    <2> QED BY <1>3, <2>1, <2>2
<1>9. \A i \in 1 .. Len(up') : up'[i] = e[Len(frame') + i]
    <2> SUFFICES ASSUME NEW i \in 1 .. Len(up') PROVE up'[i] = e[Len(frame') + i]
        OBVIOUS
    <2>1. i \in 1 .. Len(up) - 1 /\ i + 1 \in 1 .. Len(up) /\ Len(frame') + i = Len(frame) + (i + 1)
        BY <1>2, <1>3
    <2> QED BY <1>2, <1>7, <2>1
<1>10. Spells(frame, 0)' /\ Spells(up, Len(frame))'
    <2>1. Encoded(req)' = e
        BY <1>6 DEF e
    <2>2. (\A i \in 1 .. Len(frame) : frame[i] = Encoded(req)[0 + i])'
        BY <1>8, <2>1
    <2>3. (\A i \in 1 .. Len(up) : up[i] = Encoded(req)[Len(frame) + i])'
        BY <1>9, <2>1
    <2> QED BY <2>2, <2>3 DEF Spells
<1>11. Sent'
    BY <1>4, <1>5, <1>10 DEF Sent, CommandSize, ReadOps
<1>12. Known'
    BY <1>4 DEF Session, Known
<1> QED BY <1>11, <1>12, SessionFrame

\* The phone reads a command.
LEMMA SessionRead ==
    ASSUME Kept, Session, (AtRest /\ BeginCommand) \/ ReadArgument
    PROVE  Session'
<1>1. UNCHANGED <<host, phase, last_irq, req, guest>>
    BY Places DEF Phone
<1>2. /\ up # <<>> /\ up' = Tail(up) /\ UNCHANGED <<down, inIrq, current_irq>>
    BY DEF BeginCommand, ReadArgument
<1>3. up \in Seq(Bytes) /\ Len(up) \in Nat /\ Len(up) >= 1 /\ Head(up) = up[1]
    BY <1>2, TailFact DEF Kept, TypeInv
<1>4. Sent
    BY <1>2 DEF Session, Replied
<1>5. host \in {"read", "write"}
    BY <1>3, <1>4 DEF Sent, BeginCommand, ReadArgument, AtRest
<1>6. CASE AtRest /\ BeginCommand
    <2>1. Spells(up, 0) /\ frame = <<>>
        BY <1>4, <1>5, <1>6 DEF Sent, AtRest
    <2>2. 1 \in 1 .. Len(up) /\ 0 + 1 = 1
        BY <1>3
    <2>3. Head(up) = Encoded(req)[1]
        BY <1>3, <2>1, <2>2 DEF Spells
    <2>4. Head(up) \in ReadOps \union WriteOps
        BY <1>5, <2>3, CommandFact
    <2>5. pc' = "args" /\ frame' = <<Head(up)>>
        BY <1>6, <2>4 DEF BeginCommand
    <2>6. frame' = Append(frame, Head(up))
        BY <2>1, <2>5
    <2> QED BY <1>1, <1>2, <1>4, <1>5, <2>5, <2>6, SessionByte
<1>7. CASE ReadArgument
    <2>1. pc' = "args" /\ frame' = Append(frame, Head(up))
        BY <1>7 DEF ReadArgument
    <2> QED BY <1>1, <1>2, <1>4, <1>5, <2>1, SessionByte
<1> QED BY <1>6, <1>7

\* A complete command is the one the host has sent.
LEMMA WholeCommand ==
    ASSUME Kept, Session, NEW op \in ReadOps \union WriteOps, CommandComplete(op)
    PROVE  /\ host \in {"read", "write"} /\ op = req.op /\ frame[2] = req.reg
           /\ up = <<>> /\ down = <<>> /\ Len(down) = 0 /\ Sent
<1>1. pc = "args" /\ frame[1] = op /\ Len(frame) = CommandSize(op)
    BY DEF CommandComplete
<1>2. Sent /\ host \in {"read", "write"}
    BY <1>1 DEF Session, Sent, Replied, AtRest
<1>3. /\ Len(frame) + Len(up) = CommandSize(req.op) /\ Spells(frame, 0) /\ down = <<>>
    BY <1>2 DEF Sent
<1>4. up \in Seq(Bytes) /\ Len(up) \in Nat
    BY EmptyFact DEF Kept, TypeInv
<1>5. 1 \in 1 .. Len(frame) /\ 2 \in 1 .. Len(frame) /\ Len(frame) \in {5, 9}
    BY <1>1 DEF CommandSize
<1>6. frame[1] = Encoded(req)[1] /\ frame[2] = Encoded(req)[2]
    BY <1>3, <1>5 DEF Spells
<1>7. op = req.op /\ frame[2] = req.reg
    BY <1>1, <1>2, <1>6, CommandFact
<1>8. Len(up) = 0
    BY <1>1, <1>3, <1>4, <1>5, <1>7
<1> QED BY <1>2, <1>3, <1>4, <1>7, <1>8, EmptyFact

\* The phone carries out a read.
LEMMA SessionExecuteRead ==
    ASSUME Kept, Session, ExecuteRead
    PROVE  Session'
<1>1. UNCHANGED <<host, phase, last_irq, req, guest>>
    BY Places DEF Phone
<1> DEFINE w == Word(ReadValue(frame[2]))
           s == down \o w
<1>2. PICK op \in ReadOps : CommandComplete(op)
    BY DEF ExecuteRead
<1>3. /\ down' = s \o Report(Bang, Semicolon, inIrq, current_irq) /\ HandlerReturns(FALSE)
      /\ up' = up /\ current_irq' = current_irq
    BY DEF ExecuteRead
<1>4. /\ down \in Seq(Bytes) /\ inIrq \in BOOLEAN /\ current_irq \in Bytes /\ data \in Bytes
    BY DEF Kept, TypeInv
<1>5. /\ host \in {"read", "write"} /\ op = req.op /\ up = <<>> /\ Len(down) = 0
    BY <1>2, WholeCommand
<1>6. host = "read"
    BY <1>2, <1>5, CommandFact
<1>7. w \in Seq(Bytes) /\ Len(w) = 4
    <2>1. ReadValue(frame[2]) \in Bytes
        BY <1>4, BytesFact DEF ReadValue
    <2> QED BY <2>1, WordFact
<1> HIDE DEF w
<1>8. s \in Seq(Bytes) /\ Len(s) = 4
    <2>1. w \in Seq(Bytes)
        BY <1>7
    <2>2. down \o w \in Seq(Bytes) /\ Len(down \o w) = Len(down) + Len(w)
        BY <1>4, <2>1, ConcatFact
    <2> QED BY <1>5, <1>7, <2>2
<1> HIDE DEF s
<1>9. Ends(down', s, Bang, Semicolon, inIrq, current_irq)
    <2>1. Bang \in Bytes /\ Semicolon \in Bytes /\ s \in Seq(Bytes)
        BY <1>8, BytesFact
    <2> QED BY <1>3, <1>4, <2>1, AnswerFact
<1>10. /\ inIrq => Len(down') = 6 /\ down'[5] = Bang /\ down'[6] = current_irq
       /\ ~inIrq => Len(down') = 5 /\ down'[5] = Semicolon
    BY <1>8, <1>9 DEF Ends
<1>11. AtRest' /\ inIrq' = inIrq
    <2>1. pc' \in {"loop", "swi", "poll"} /\ frame' = <<>>
        BY <1>3, CurrentFact, ReturnsKept
    <2> QED BY <1>3, <2>1 DEF AtRest, HandlerReturns
<1>12. DataSize' = 4 /\ PlainMark' = Semicolon /\ IrqMark' = Bang /\ ~Acking' /\ ~Acking
    BY <1>1, <1>6 DEF DataSize, PlainMark, IrqMark, Acking, Semicolon, Bang
<1>13. Known'
    BY <1>1, <1>3, <1>11, <1>12 DEF Session, Known
<1>14. Replied'
    <2>1. CASE inIrq
        <3>1. Len(down') = 6 /\ down'[5] = Bang /\ down'[6] = current_irq
            BY <1>10, <2>1, Zenon
        <3>2. Len(down') = DataSize' + 2 /\ down'[DataSize' + 1] = IrqMark' /\ down'[DataSize' + 2] = current_irq'
            BY <1>3, <1>12, <3>1
        <3> QED BY <1>1, <1>3, <1>5, <1>6, <1>11, <1>12, <2>1, <3>2 DEF Replied, Waits
    <2>2. CASE ~inIrq
        <3>1. Len(down') = 5 /\ down'[5] = Semicolon
            BY <1>10, <2>2, Zenon
        <3>2. Len(down') = DataSize' + 1 /\ down'[DataSize' + 1] = PlainMark'
            BY <1>12, <3>1
        <3> QED BY <1>1, <1>3, <1>5, <1>6, <1>11, <1>12, <3>2 DEF Replied, Waits
    <2> QED BY <2>1, <2>2
<1> QED BY <1>1, <1>13, <1>14, SessionFrame

\* The phone carries out a write; the acknowledgement is carried out inside irq_handler.
LEMMA SessionExecuteWrite ==
    ASSUME Kept, Session, ExecuteWrite
    PROVE  Session'
<1>1. UNCHANGED <<host, phase, last_irq, req, guest>>
    BY Places DEF Phone
<1>2. PICK op \in WriteOps : CommandComplete(op)
    BY DEF ExecuteWrite
<1>3. /\ down' = down \o Report(Bang, Semicolon, inIrq, current_irq') /\ HandlerReturns(current_irq' = 0)
      /\ up' = up /\ current_irq' = Acknowledged(frame[2])
    BY DEF ExecuteWrite
<1>4. /\ down \in Seq(Bytes) /\ inIrq \in BOOLEAN /\ current_irq \in Bytes /\ current_irq' \in Bytes
      /\ inIrq => current_irq # 0
    BY PhoneKept, CurrentFact DEF Phone, Kept, TypeInv
<1>5. /\ host \in {"read", "write"} /\ op = req.op /\ up = <<>> /\ down = <<>> /\ Len(down) = 0 /\ frame[2] = req.reg
    BY <1>2, WholeCommand
<1>6. host = "write" /\ (Acking <=> req.reg = VicIrqAck)
    BY <1>2, <1>5, CommandFact DEF Acking, IsAck
<1>7. Ends(down', down, Bang, Semicolon, inIrq, current_irq')
    <2>1. Bang \in Bytes /\ Semicolon \in Bytes
        BY BytesFact
    <2> QED BY <1>3, <1>4, <2>1, AnswerFact
<1>8. /\ inIrq => Len(down') = 2 /\ down'[1] = Bang /\ down'[2] = current_irq'
      /\ ~inIrq => Len(down') = 1 /\ down'[1] = Semicolon
    BY <1>5, <1>7 DEF Ends
<1>9. DataSize' = 0 /\ PlainMark' = Semicolon /\ IrqMark' = Bang /\ Acking' = Acking
    BY <1>1, <1>6 DEF DataSize, PlainMark, IrqMark, Acking, IsAck, Semicolon, Bang, VicIrqAck, WriteOps, CharO
<1>10. AtRest'
    <2>1. back \in {"loop", "swi"}
        BY DEF Kept, TypeInv
    <2> QED BY <1>3, <2>1 DEF AtRest, HandlerReturns
<1>11. Acking => inIrq
    <2> SUFFICES ASSUME Acking PROVE inIrq
        OBVIOUS
    <2>1. last_irq > 0
        BY DEF Session, Asked, Acking
    <2> QED BY <1>5, <2>1 DEF Session, Known
<1>12. CASE Acking
    <2>1. inIrq /\ current_irq' = 0
        BY <1>3, <1>5, <1>6, <1>11, <1>12 DEF Acknowledged
    <2>2. Len(down') = 2 /\ down'[1] = Bang /\ down'[2] = 0
        BY <1>8, <2>1, Zenon
    <2>3. down' # <<>>
        BY <2>2
    <2>4. Known'
        BY <1>9, <1>12, <2>3 DEF Known
    <2>5. Len(down') = DataSize' + 2 /\ down'[DataSize' + 1] = IrqMark' /\ down'[DataSize' + 2] = 0
        BY <1>9, <2>2
    <2>6. Replied'
        BY <1>1, <1>3, <1>5, <1>6, <1>9, <1>10, <1>12, <2>5 DEF Replied, Waits
    <2> QED BY <1>1, <2>4, <2>6, SessionFrame
<1>13. CASE ~Acking
    <2>1. current_irq' = current_irq
        BY <1>3, <1>5, <1>6, <1>13 DEF Acknowledged
    <2>2. inIrq => inIrq'
        BY <1>3, <1>4, <2>1 DEF HandlerReturns
    <2>3. Known'
        BY <1>1, <1>13, <2>1, <2>2 DEF Session, Known
    <2>4. Replied'
        <3>1. CASE inIrq
            <4>1. Len(down') = 2 /\ down'[1] = Bang /\ down'[2] = current_irq'
                BY <1>8, <3>1, Zenon
            <4>2. Len(down') = DataSize' + 2 /\ down'[DataSize' + 1] = IrqMark' /\ down'[DataSize' + 2] = current_irq'
                BY <1>9, <4>1
            <4>3. inIrq'
                BY <2>2, <3>1
            <4> QED BY <1>1, <1>3, <1>5, <1>6, <1>9, <1>10, <1>13, <4>2, <4>3 DEF Replied, Waits
        <3>2. CASE ~inIrq
            <4>1. Len(down') = 1 /\ down'[1] = Semicolon
                BY <1>8, <3>2, Zenon
            <4>2. Len(down') = DataSize' + 1 /\ down'[DataSize' + 1] = PlainMark'
                BY <1>9, <4>1
            <4> QED BY <1>1, <1>3, <1>5, <1>6, <1>9, <1>10, <1>13, <4>2 DEF Replied, Waits
        <3> QED BY <3>1, <3>2
    <2> QED BY <1>1, <2>3, <2>4, SessionFrame
<1> QED BY <1>12, <1>13

\* The phone during the session.
LEMMA SessionPhone ==
    ASSUME Kept, Session, Phone
    PROVE  Session'
<1>1. AtRest \/ pc = "args"
    BY DEF Session, Sent, Replied
<1>2. CASE AtRest
    BY <1>2, Places, SessionSilent, SessionPing, SessionRead
<1>3. CASE pc = "args"
    BY <1>3, Places, SessionRead, SessionExecuteRead, SessionExecuteWrite
<1> QED BY <1>1, <1>2, <1>3

\* The host sends a command.
LEMMA SessionSend ==
    ASSUME Kept, Session, Ping \/ Forward
    PROVE  Session'
<1>1. /\ host = "next" /\ AtRest /\ up = <<>> /\ down = <<>> /\ frame = <<>>
    BY DEF Ping, Forward, Session, Sent, Replied, Waits, AtRest
<1>2. /\ UNCHANGED <<pc, inIrq, frame, current_irq, down, last_irq, req, guest>>
    BY DEF Ping, Forward, phone, qemu
<1>3. AtRest'
    BY <1>1, <1>2 DEF AtRest
<1>4. ~Acking
    BY <1>1 DEF Acking
<1>5. Known'
    BY <1>2, <1>4 DEF Session, Known
<1>6. CASE Ping
    <2>1. up' = Append(up, Dot) /\ host' = "ping"
        BY <1>6 DEF Ping
    <2>2. Len(up') = 1 /\ up'[1] = Dot
        BY <1>1, <2>1
    <2>3. Sent'
        BY <1>1, <1>2, <1>3, <2>1, <2>2 DEF Sent, Dot
    <2>4. Asked'
        BY <1>2, <2>1 DEF Session, Asked, IsAck, VicIrqAck, WriteOps, CharO
    <2>5. phase' \in {"connect", "serve"} /\ (phase' = "connect" => phase = "connect")
        BY <1>6 DEF Ping, Session
    <2> QED BY <1>2, <1>5, <2>1, <2>3, <2>4, <2>5 DEF Session, NoRequest
<1>7. CASE Forward
    <2>1. phase = "serve" /\ req # NoRequest /\ phase' = phase
        BY <1>7 DEF Forward
    <2>2. req \in Requests
        BY <2>1 DEF Kept, TypeInv
    <2>3. /\ Encoded(req) \in Seq(Bytes) /\ Len(Encoded(req)) = CommandSize(req.op) /\ req.op \in {Read4, Write4}
        BY <2>2, EncodedFact
    <2>4. CASE Valid(req)
        <3>1. up' = up \o Encoded(req) /\ host' = (IF req.op \in ReadOps THEN "read" ELSE "write")
            BY <1>7, <2>4 DEF Forward
        <3>2. up' = Encoded(req)
            BY <1>1, <2>3, <3>1
        <3>3. \/ host' = "read" /\ req.op \in ReadOps
              \/ host' = "write" /\ req.op \in WriteOps
            BY <2>3, <3>1, MarksFact
        <3>4. Encoded(req)' = Encoded(req)
            BY <1>2 DEF Encoded, Word, Pad, WriteOps, CharO
        <3>5. Len(frame') = 0 /\ Len(frame') + Len(up') = CommandSize(req.op)
            <4>1. Len(up') = CommandSize(req.op) /\ Len(up') \in Nat
                BY <2>3, <3>2 DEF CommandSize
            <4>2. Len(frame') = 0
                BY <1>1, <1>2
            <4> QED BY <4>1, <4>2
        <3>6. Spells(frame, 0)' /\ Spells(up, Len(frame))'
            <4>1. \A i \in 1 .. Len(frame') : frame'[i] = Encoded(req)[0 + i]
                BY <3>5
            <4>2. \A i \in 1 .. Len(up') : 0 + i = i
                BY <2>3, <3>2
            <4>3. \A i \in 1 .. Len(up') : up'[i] = Encoded(req)[Len(frame') + i]
                BY <3>2, <3>5, <4>2
            <4> QED BY <3>4, <4>1, <4>3 DEF Spells
        <3>7. Sent'
            BY <1>1, <1>2, <1>3, <3>3, <3>5, <3>6 DEF Sent, CommandSize, ReadOps
        <3>8. Asked'
            BY <1>2, <2>1, <3>3 DEF Session, Asked, IsAck, VicIrqAck, ReadOps, WriteOps, CharO, NoRequest
        <3> QED BY <1>2, <1>5, <2>1, <3>7, <3>8 DEF Session
    <2>5. CASE ~Valid(req)
        <3>1. up' = Append(up, Dot) /\ host' = "skip" /\ req.reg = Blocked
            BY <1>7, <2>5 DEF Forward, Valid
        <3>2. Len(up') = 1 /\ up'[1] = Dot
            BY <1>1, <3>1
        <3>3. Sent'
            BY <1>1, <1>2, <1>3, <3>1, <3>2 DEF Sent, Dot
        <3>4. ~IsAck(req)'
            BY <1>2, <3>1 DEF IsAck, VicIrqAck, Blocked
        <3>5. Asked'
            BY <1>2, <2>1, <3>1, <3>4 DEF Session, Asked, NoRequest
        <3> QED BY <1>2, <1>5, <2>1, <3>3, <3>5 DEF Session
    <2> QED BY <2>4, <2>5
<1> QED BY <1>6, <1>7

\* The host reads the answer it waits for, and never another byte.
LEMMA SessionAnswered ==
    ASSUME Kept, Session, Answered
    PROVE  Session'
<1>1. /\ host \in Waits /\ Len(down) > DataSize /\ DataSize \in {0, 4} /\ UNCHANGED <<up, pc, inIrq, frame, current_irq>>
    BY DEF Answered, DataSize, phone
<1>2. down # <<>> /\ down \in Seq(Bytes) /\ Len(down) \in Nat
    BY <1>1, EmptyFact DEF Kept, TypeInv
<1>3. Replied
    BY <1>1, <1>2 DEF Session, Sent, Waits
<1>4. PlainMark # IrqMark
    BY MarksFact DEF PlainMark, IrqMark
<1>5. /\ AtRest /\ up = <<>>
      /\ \/ Len(down) = DataSize + 1 /\ down[DataSize + 1] = PlainMark /\ ~Acking
         \/ /\ Len(down) = DataSize + 2 /\ down[DataSize + 1] = IrqMark
            /\ Acking => down[DataSize + 2] = 0
            /\ ~Acking => inIrq /\ down[DataSize + 2] = current_irq
    BY <1>3 DEF Replied
<1>6. AtRest'
    BY <1>1, <1>5 DEF AtRest
<1>7. phase \in {"connect", "serve"}
    BY DEF Session
<1>8. Complete => /\ host' = "next" /\ phase' = phase
                  /\ host = "ping" => req' = req /\ guest' = guest
                  /\ host # "ping" => req' = NoRequest /\ guest' = IF IsAck(req) THEN "run" ELSE guest
    BY <1>7 DEF Complete, qemu, IsAck
<1>9. ~IsAck(NoRequest)
    BY DEF IsAck, NoRequest, VicIrqAck
<1>10. host # "ping" => phase = "serve"
    BY <1>1 DEF Session, Waits
<1>11. ASSUME Complete, down' = <<>>, guest' = "isr" => last_irq' > 0,
             last_irq' > 0 => inIrq /\ current_irq = last_irq',
             phase = "connect" => last_irq' = -1
       PROVE Session'
    <2>1. host' = "next" /\ phase' = phase
        BY <1>8, <1>11
    <2>2. IsAck(req') => req' = req /\ guest' = guest
        BY <1>8, <1>9, <1>11
    <2>3. IsAck(req)' => guest' = "isr"
        BY <2>2 DEF Session, Asked, IsAck, VicIrqAck, WriteOps, CharO
    <2>4. Asked'
        BY <1>11, <2>1, <2>3 DEF Asked
    <2>5. Known'
        BY <1>1, <1>11 DEF Known
    <2>6. phase = "connect" => req' = NoRequest
        BY <1>8, <1>10, <1>11 DEF Session
    <2> QED BY <1>1, <1>5, <1>6, <1>7, <1>11, <2>1, <2>4, <2>5, <2>6 DEF Session, NoRequest
<1>12. CASE Len(down) = DataSize + 1 /\ down[DataSize + 1] = PlainMark /\ ~Acking
    <2>1. down' = SubSeq(down, DataSize + 2, Len(down)) /\ last_irq' = last_irq /\ Complete
        BY <1>4, <1>12 DEF Answered
    <2>2. down' = <<>>
        <3>1. DataSize + 1 \in Nat /\ (DataSize + 1) + 1 = DataSize + 2
            BY <1>1
        <3>2. SubSeq(down, (DataSize + 1) + 1, Len(down)) = <<>>
            BY <1>2, <1>12, <3>1, RestFact
        <3> QED BY <2>1, <3>1, <3>2
    <2>3. guest' = "isr" => last_irq > 0
        BY <1>8, <2>1 DEF Session, Asked
    <2>4. last_irq > 0 => inIrq /\ current_irq = last_irq
        BY <1>12 DEF Session, Known
    <2>5. phase = "connect" => last_irq = -1
        BY DEF Session
    <2> QED BY <1>11, <2>1, <2>2, <2>3, <2>4, <2>5
<1>13. CASE /\ Len(down) = DataSize + 2 /\ down[DataSize + 1] = IrqMark
            /\ Acking => down[DataSize + 2] = 0
            /\ ~Acking => inIrq /\ down[DataSize + 2] = current_irq
    <2>1. down' = SubSeq(down, DataSize + 3, Len(down)) /\ last_irq' = WriteIrq(down[DataSize + 2]) /\ Complete
        BY <1>4, <1>13 DEF Answered
    <2>2. down' = <<>>
        <3>1. DataSize + 2 \in Nat /\ (DataSize + 2) + 1 = DataSize + 3
            BY <1>1
        <3>2. SubSeq(down, (DataSize + 2) + 1, Len(down)) = <<>>
            BY <1>2, <1>13, <3>1, RestFact
        <3> QED BY <2>1, <3>1, <3>2
    <2>3. phase = "connect" => last_irq' = -1
        BY <2>1 DEF Session, WriteIrq
    <2>4. CASE Acking
        <3>1. host # "ping" /\ IsAck(req) /\ phase = "serve"
            BY <1>10, <2>4 DEF Acking
        <3>2. last_irq' = 0
            BY <1>13, <2>1, <2>4, <3>1 DEF WriteIrq
        <3>3. guest' = "run"
            BY <1>8, <2>1, <3>1
        <3>4. ~(last_irq' > 0)
            BY <3>2
        <3> QED BY <1>11, <2>1, <2>2, <2>3, <3>3, <3>4
    <2>5. CASE ~Acking
        <3>1. inIrq /\ down[DataSize + 2] = current_irq
            BY <1>13, <2>5
        <3>2. current_irq > 0
            BY <3>1, BytesFact DEF Kept, PhoneInv
        <3>3. CASE phase = "serve"
            <4>1. last_irq' = current_irq
                BY <2>1, <3>1, <3>3 DEF WriteIrq
            <4> QED BY <1>11, <2>1, <2>2, <2>3, <3>1, <3>2, <4>1
        <3>4. CASE phase = "connect"
            <4>1. ~(last_irq' > 0) /\ ~(last_irq > 0)
                BY <2>3, <3>4 DEF Session
            <4>2. guest' # "isr"
                BY <1>8, <1>10, <2>1, <3>4, <4>1 DEF Session, Asked
            <4> QED BY <1>11, <2>1, <2>2, <2>3, <4>1, <4>2
        <3> QED BY <1>7, <3>3, <3>4
    <2> QED BY <2>4, <2>5
<1> QED BY <1>5, <1>12, <1>13

\* The host during the session: it never times out.
LEMMA SessionHost ==
    ASSUME Kept, Session, Host
    PROVE  Session'
<1>1. host # "hello" /\ host # "dead"
    BY DEF Session, Sent, Replied, Waits
<1>2. ~HelloAgain /\ ~HelloAnswered /\ ~HelloOther
    BY <1>1 DEF HelloAgain, HelloAnswered, HelloOther
<1>3. ~TimedOut
    <2> SUFFICES ASSUME TimedOut PROVE FALSE
        OBVIOUS
    <2>1. up = <<>> /\ pc = "args" /\ Len(frame) < CommandSize(frame[1])
        BY DEF TimedOut
    <2>2. Sent /\ host \in {"read", "write"}
        BY <2>1 DEF Session, Sent, Replied, AtRest
    <2>3. Len(frame) + Len(up) = CommandSize(req.op) /\ Spells(frame, 0)
        BY <2>2 DEF Sent
    <2>4. Len(up) = 0 /\ frame \in Seq(Bytes) /\ Len(frame) \in Nat /\ Len(frame) >= 1
        BY <2>1, TailFact, EmptyFact DEF Kept, TypeInv, PhoneInv
    <2>5. frame[1] = req.op
        <3>1. 1 \in 1 .. Len(frame) /\ 0 + 1 = 1
            BY <2>4
        <3>2. frame[1] = Encoded(req)[1]
            BY <2>3, <3>1 DEF Spells
        <3> QED BY <2>2, <3>2, CommandFact
    <2>6. CommandSize(req.op) \in {5, 9}
        BY DEF CommandSize
    <2> QED BY <2>1, <2>3, <2>4, <2>5, <2>6
<1> QED BY <1>2, <1>3, SessionSend, SessionAnswered DEF Host

\* A peripheral, QEMU's firmware, or nothing: what is on the line stays.
LEMMA ElseSteady ==
    ASSUME Kept, Greeting \/ Session, Raise \/ EnterIsr \/ Access \/ LeaveIsr \/ UNCHANGED vars
    PROVE  Greeting' \/ Session'
<1>1. UNCHANGED <<up, down, pc, inIrq, frame, current_irq, host, phase, last_irq>>
    BY DEF Raise, EnterIsr, Access, LeaveIsr, vars, phone, bridge
<1>2. AtRest' = AtRest
    BY <1>1 DEF AtRest
<1>3. CASE Raise \/ UNCHANGED vars
    <2>1. req' = req /\ guest' = guest
        BY <1>3 DEF Raise, vars, qemu
    <2>2. CASE Greeting
        <3>1. Unheard => Unheard'
            BY <1>1 DEF Unheard, Hellos, Noise, CharO, CharK
        <3>2. Welcome => Welcome'
            BY <1>1, <1>2 DEF Welcome, Dot, Comma
        <3>3. \A k : Ahead(k) => Ahead(k)'
            BY <1>1 DEF Ahead, Dot, Noise
        <3>4. \A k : Clean(k) => Clean(k)'
            BY <1>1, <1>2 DEF Clean, Hellos, Dot, CharO, CharK
        <3>5. \A k : Spoiled(k) => Spoiled(k)'
            BY <1>1 DEF Spoiled, CharO, Semicolon, Bang, ErrByte
        <3>6. Greeting'
            BY <1>1, <2>1, <2>2, <3>1, <3>2, <3>3, <3>4, <3>5 DEF Greeting, NoRequest
        <3> QED BY <3>6
    <2>3. CASE Session
        <3>1. Acking' = Acking
            BY <1>1, <2>1 DEF Acking, IsAck, VicIrqAck, WriteOps, CharO
        <3>2. Known'
            BY <1>1, <2>3, <3>1 DEF Session, Known
        <3>3. Encoded(req)' = Encoded(req)
            BY <2>1 DEF Encoded, Word, Pad, WriteOps, CharO
        <3>4. (Spells(frame, 0) => Spells(frame, 0)') /\ (Spells(up, Len(frame)) => Spells(up, Len(frame))')
            BY <1>1, <3>3 DEF Spells
        <3>5. Sent => Sent'
            BY <1>1, <1>2, <2>1, <3>4 DEF Sent, Dot, CommandSize, ReadOps
        <3>6. DataSize' = DataSize /\ PlainMark' = PlainMark /\ IrqMark' = IrqMark
            BY <1>1 DEF DataSize, PlainMark, IrqMark, Comma, Bang, Dot, Semicolon
        <3>7. Replied => Replied'
            BY <1>1, <1>2, <3>1, <3>6 DEF Replied, Waits
        <3>8. Session'
            BY <1>1, <1>2, <2>1, <2>3, <3>2, <3>5, <3>7, SessionFrame DEF Session
        <3> QED BY <3>8
    <2> QED BY <2>2, <2>3
<1>4. CASE EnterIsr \/ Access \/ LeaveIsr
    <2>1. phase = "serve" /\ req = NoRequest
        BY <1>4 DEF EnterIsr, Access, LeaveIsr
    <2>2. Session /\ host \in {"next", "ping"}
        BY <2>1 DEF Greeting, Session, Asked, Sent, Replied, Waits
    <2>3. ~Acking /\ ~Acking'
        BY <1>1, <2>2 DEF Acking
    <2>4. Known'
        BY <1>1, <2>2, <2>3 DEF Session, Known
    <2>5. Sent => Sent'
        BY <1>1, <1>2, <2>2 DEF Sent, Dot
    <2>6. Replied => Replied'
        <3>1. DataSize' = DataSize /\ PlainMark' = PlainMark /\ IrqMark' = IrqMark
            BY <1>1 DEF DataSize, PlainMark, IrqMark, Comma, Bang, Dot, Semicolon
        <3> QED BY <1>1, <1>2, <2>3, <3>1 DEF Replied, Waits
    <2>7. Asked'
        <3>1. host' \notin {"skip", "read", "write"}
            BY <1>1, <2>2
        <3>2. CASE EnterIsr
            <4>1. req' = req /\ last_irq > 0 /\ ~IsAck(NoRequest)
                BY <3>2 DEF EnterIsr, IsAck, NoRequest, VicIrqAck
            <4>2. ~IsAck(req)'
                BY <2>1, <4>1 DEF IsAck, NoRequest, VicIrqAck
            <4> QED BY <1>1, <3>1, <4>1, <4>2 DEF Asked
        <3>3. CASE Access
            <4>1. guest' = guest /\ (req'.reg = VicIrqAck => req'.op \in ReadOps)
                BY <3>3 DEF Access
            <4>2. ~IsAck(req)'
                BY <4>1, MarksFact DEF IsAck, VicIrqAck, ReadOps, WriteOps, CharO
            <4> QED BY <1>1, <2>2, <3>1, <4>1, <4>2 DEF Session, Asked
        <3>4. CASE LeaveIsr
            <4>1. guest' = guest /\ guest = "isr"
                BY <3>4 DEF LeaveIsr
            <4> QED BY <1>1, <2>2, <3>1, <4>1 DEF Session, Asked
        <3> QED BY <1>4, <3>2, <3>3, <3>4
    <2>8. Session'
        BY <1>1, <1>2, <2>1, <2>2, <2>4, <2>5, <2>6, <2>7 DEF Session
    <2> QED BY <2>8
<1> QED BY <1>3, <1>4

\* What Init establishes, and what a step keeps.
LEMMA InitBridge == Init => BridgeInv
<1> SUFFICES ASSUME Init PROVE BridgeInv
    OBVIOUS
<1>1. Hellos(Ok, Len(Ok))
    <2>1. Ok[1] = CharO /\ Ok[2] = CharK /\ Len(Ok) = 2 /\ 1 .. 2 = {1, 2}
        BY OkFact
    <2> QED BY <2>1 DEF Hellos
<1>2. Unheard
    BY <1>1 DEF Init, Unheard
<1> QED BY <1>2, InitKept DEF Init, Kept, BridgeInv, Greeting

\* Any step.
LEMMA StepBridge == BridgeInv /\ [Next]_vars => BridgeInv'
<1> SUFFICES ASSUME BridgeInv, [Next]_vars PROVE BridgeInv'
    OBVIOUS
<1>1. Kept /\ (Greeting \/ Session)
    BY DEF BridgeInv, Kept
<1>2. Kept'
    BY <1>1, StepKept
<1>3. (Greeting \/ Session)'
    <2>1. CASE Phone
        BY <1>1, <2>1, GreetingPhone, SessionPhone
    <2>2. CASE Host
        BY <1>1, <2>2, GreetingHost, SessionHost
    <2>3. CASE Raise \/ EnterIsr \/ Access \/ LeaveIsr \/ UNCHANGED vars
        BY <1>1, <2>3, ElseSteady
    <2> QED BY <2>1, <2>2, <2>3 DEF Next, Over
<1> QED BY <1>2, <1>3 DEF BridgeInv, Kept

-----------------------------------------------------------------------------
\* The invariant holds in every state of the bridge.
THEOREM BridgeInvariance == Spec => []BridgeInv
BY InitBridge, StepBridge, PTL DEF Spec

\* However late the phone's '.' is and however often the host has said "OK", the host gives
\* up at the ping behind the greeting or never: io_bridge.pm never dies with QEMU connected,
\* and no access of QEMU is read in the middle of a command.
THEOREM StaleHelloIsCaught == Spec => []StaleHelloCaughtAtGreeting
<1>1. BridgeInv => StaleHelloCaughtAtGreeting
    BY DEF BridgeInv, Greeting, Session, Sent, Replied, Waits, StaleHelloCaughtAtGreeting
<1> QED BY <1>1, BridgeInvariance, PTL

\* QEMU's firmware is in its handler only while the phone is in irq_handler for the same
\* interrupt, up to the acknowledgement: for all interrupts, at any time, and whichever
\* command reported them.
THEOREM FirmwareAndPhoneAgree == Spec => []HandlersAgree
<1>1. BridgeInv => HandlersAgree
    <2> SUFFICES ASSUME BridgeInv, guest = "isr", ~(req.reg = VicIrqAck /\ req.op \in WriteOps)
                 PROVE  inIrq /\ current_irq = last_irq
        BY DEF HandlersAgree
    <2>1. Session /\ ~Acking
        BY DEF BridgeInv, Greeting, Acking, IsAck
    <2>2. last_irq > 0
        BY <2>1 DEF Session, Asked
    <2> QED BY <2>1, <2>2 DEF Session, Known
<1> QED BY <1>1, BridgeInvariance, PTL

=============================================================================
