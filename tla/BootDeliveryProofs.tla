------------------------- MODULE BootDeliveryProofs -------------------------
(***************************************************************************)
(* Loading a payload.  Whatever bytes are lost or damaged, both programs   *)
(* and the line between them keep their types.                             *)
(*                                                                         *)
(* What boot.py and the preloader achieve over a line that damages and     *)
(* loses nothing (MaxFaults = 0), proved for every number and size of      *)
(* blocks, every speed and every size of the FIFO a word fits in: the FIFO *)
(* never overflows, the host is never a status behind, and the payload it  *)
(* reports as loaded is in RAM and running.                                *)
(*                                                                         *)
(* The inductive invariant is LinkInv.  It says where host, line and phone *)
(* are together, in terms of the one stream of bytes (Pend) that the host  *)
(* appends requests to and the phone takes words from: the bytes the phone *)
(* has read but not used, then its FIFO, then the line.  Moving a byte     *)
(* along that stream changes nothing (Steady), so the proof has one case   *)
(* per request sent, per word taken and per command carried out.           *)
(***************************************************************************)
EXTENDS BootLink, SequenceTheorems, TLAPS

-----------------------------------------------------------------------------
\* Sizes, bytes and sequences.

\* The sizes one by one.
LEMMA ConstantsFact ==
    /\ WordBytes \in Nat /\ WordBytes >= 1 /\ FifoSize \in Nat /\ WordBytes <= FifoSize
    /\ Blocks \in Nat /\ Blocks >= 1
    /\ BlockSize \in Nat /\ PackedSize \in Nat /\ PackedSize >= 1 /\ PackedSize <= BlockSize
    /\ MaxFaults \in Nat
BY SizesAssumption

\* The words that the host sends.
LEMMA WordsFact ==
    /\ Words \subseteq Nat /\ Speeds \subseteq Words /\ BootSpeed \in Words /\ Exec \in Words
    /\ BlockSize \in Words /\ PackedSize \in Words
    /\ \A k \in 1 .. Blocks : k \in Words
    /\ 0 \in Words /\ ExtramSize \in Words /\ ExtramSize \in Nat
<1>1. ExtramSize \in Words
    BY WordsAssumption DEF ExtramSize
<1>2. \A k \in 0 .. Blocks : k \in Words
    BY WordsAssumption
<1>3. 0 \in 0 .. Blocks /\ 1 \in 0 .. Blocks /\ \A k \in 1 .. Blocks : k \in 0 .. Blocks
    BY ConstantsFact
<1> QED BY <1>1, <1>2, <1>3, WordsAssumption DEF BootSpeed, Exec

\* The head and the rest of a sequence, place by place.
LEMMA TailFact ==
    ASSUME NEW S, NEW s \in Seq(S), s # <<>>
    PROVE  /\ Len(s) \in Nat /\ Len(s) >= 1 /\ Head(s) = s[1] /\ s[1] \in S
           /\ Tail(s) \in Seq(S) /\ Len(Tail(s)) = Len(s) - 1
           /\ \A i \in 1 .. Len(s) - 1 : Tail(s)[i] = s[i + 1]
<1>1. Len(s) \in Nat /\ Len(s) >= 1
    BY EmptySeq
<1>2. Head(s) = s[1] /\ s[1] \in S
    BY <1>1, ElementOfSeq
<1>3. Tail(s) \in Seq(S) /\ Len(Tail(s)) = Len(s) - 1 /\ \A i \in 1 .. Len(s) - 1 : Tail(s)[i] = s[i + 1]
    BY <1>1, HeadTailProperties
<1> QED BY <1>1, <1>2, <1>3

\* A sequence with one element more.
LEMMA AppendFact ==
    ASSUME NEW S, NEW s \in Seq(S), NEW e \in S
    PROVE  /\ Append(s, e) \in Seq(S) /\ Len(s) \in Nat /\ Len(Append(s, e)) = Len(s) + 1
           /\ \A i \in 1 .. Len(s) : Append(s, e)[i] = s[i]
           /\ Append(s, e)[Len(s) + 1] = e
OBVIOUS

\* A sequence without elements.
LEMMA EmptyFact ==
    ASSUME NEW S
    PROVE  /\ <<>> \in Seq(S) /\ Len(<<>>) = 0
           /\ \A s \in Seq(S) : Len(s) \in Nat /\ (Len(s) = 0 <=> s = <<>>)
BY EmptySeq

\* A field is a sequence of bytes.
LEMMA FieldFact ==
    ASSUME NEW kind \in Kinds, NEW value \in Words, NEW size \in Nat, hostSpeed \in Words
    PROVE  /\ Field(kind, value, size) \in Seq(Bytes) /\ Len(Field(kind, value, size)) = size
           /\ \A k \in 1 .. size : Field(kind, value, size)[k] = ByteAt(kind, value, k, hostSpeed)
<1> DEFINE f == Field(kind, value, size)
<1>1. f = [k \in 1 .. size |-> ByteAt(kind, value, k, hostSpeed)]
    BY DEF Field
<1>2. \A k \in 1 .. size : ByteAt(kind, value, k, hostSpeed) \in Bytes
    BY DEF ByteAt, Bytes
<1> HIDE DEF f
<1>3. f \in Seq(Bytes) /\ Len(f) = size /\ \A k \in 1 .. size : f[k] = ByteAt(kind, value, k, hostSpeed)
    BY <1>1, <1>2
<1> QED BY <1>3 DEF f

\* In bytes p, `start` bytes on, stands a field of `size` bytes sent at speed `baud`.
Has(p, start, kind, value, size, baud) ==
    \A k \in 1 .. size : p[start + k] = ByteAt(kind, value, k, baud)

\* A field behind others: what they hold stays.
LEMMA NextField ==
    ASSUME NEW s \in Seq(Bytes), hostSpeed \in Words,
           NEW kind \in Kinds, NEW value \in Words, NEW size \in Nat
    PROVE  /\ s \o Field(kind, value, size) \in Seq(Bytes)
           /\ Len(s) \in Nat /\ Len(s \o Field(kind, value, size)) = Len(s) + size
           /\ Has(s \o Field(kind, value, size), Len(s), kind, value, size, hostSpeed)
           /\ \A c, v : \A start, n \in Nat : start + n <= Len(s) /\ Has(s, start, c, v, n, hostSpeed) =>
                  Has(s \o Field(kind, value, size), start, c, v, n, hostSpeed)
<1> DEFINE f == Field(kind, value, size)
<1>1. /\ f \in Seq(Bytes) /\ Len(f) = size
      /\ \A k \in 1 .. size : f[k] = ByteAt(kind, value, k, hostSpeed)
    BY FieldFact
<1> HIDE DEF f
<1>2. /\ s \o f \in Seq(Bytes) /\ Len(s \o f) = Len(s) + Len(f) /\ Len(s) \in Nat
      /\ \A i \in 1 .. Len(s) + Len(f) : (s \o f)[i] = IF i <= Len(s) THEN s[i] ELSE f[i - Len(s)]
    BY <1>1, ConcatProperties, LenProperties
<1>3. Has(s \o f, Len(s), kind, value, size, hostSpeed)
    <2> SUFFICES ASSUME NEW k \in 1 .. size PROVE (s \o f)[Len(s) + k] = ByteAt(kind, value, k, hostSpeed)
        BY DEF Has
    <2>1. Len(s) + k \in 1 .. Len(s) + Len(f) /\ ~(Len(s) + k <= Len(s)) /\ Len(s) + k - Len(s) = k
        BY <1>1, <1>2
    <2> QED BY <1>1, <1>2, <2>1
<1>4. ASSUME NEW start \in Nat, NEW n \in Nat, NEW c, NEW v, start + n <= Len(s), Has(s, start, c, v, n, hostSpeed)
      PROVE  Has(s \o f, start, c, v, n, hostSpeed)
    <2> SUFFICES ASSUME NEW k \in 1 .. n PROVE (s \o f)[start + k] = ByteAt(c, v, k, hostSpeed)
        BY DEF Has
    <2>1. start + k \in 1 .. Len(s) + Len(f) /\ start + k <= Len(s)
        BY <1>1, <1>2, <1>4
    <2> QED BY <1>2, <1>4, <2>1 DEF Has
<1>5. Len(s \o f) = Len(s) + size
    BY <1>1, <1>2
<1> QED BY <1>2, <1>3, <1>4, <1>5 DEF f

-----------------------------------------------------------------------------
\* The requests: their bytes in order.

\* A request is bytes.
LEMMA RequestTypes ==
    ASSUME hostSpeed \in Words, speed \in Speeds
    PROVE  /\ PingRequest \in Seq(Bytes) /\ SpeedRequest \in Seq(Bytes)
           /\ ExtramRequest \in Seq(Bytes) /\ GotoRequest \in Seq(Bytes)
           /\ \A k \in 1 .. Blocks : RawRequest(k) \in Seq(Bytes) /\ PackedRequest(k) \in Seq(Bytes)
<1>1. /\ \A kind \in Kinds, value \in Words, size \in Nat : Field(kind, value, size) \in Seq(Bytes)
      /\ \A kind \in Kinds, value \in Words : Word(kind, value) \in Seq(Bytes)
    BY FieldFact, ConstantsFact DEF Word
<1>2. /\ Commands \subseteq Kinds /\ speed \in Words /\ {"speed", "address", "size", "data", "packed", "crc"} \subseteq Kinds
      /\ {"PING", "INIT_EXTRAM", "GOTO", "SET_SPEED", "WRITE_RAM_LZ4", "RAM_WRITE"} \subseteq Kinds
      /\ 1 \in Nat
    BY WordsFact DEF Kinds, Commands
<1>3. \A s, t \in Seq(Bytes) : s \o t \in Seq(Bytes)
    BY ConcatProperties
<1>4. PingRequest \in Seq(Bytes)
    BY <1>1, <1>2, WordsFact DEF PingRequest
<1>5. SpeedRequest \in Seq(Bytes)
    BY <1>1, <1>2, <1>3, WordsFact DEF SpeedRequest
<1>6. ExtramRequest \in Seq(Bytes)
    BY <1>1, <1>2, <1>3, WordsFact DEF ExtramRequest
<1>7. GotoRequest \in Seq(Bytes)
    BY <1>1, <1>2, <1>3, WordsFact DEF GotoRequest
<1>8. ASSUME NEW k \in 1 .. Blocks PROVE RawRequest(k) \in Seq(Bytes)
    BY <1>1, <1>2, <1>3, WordsFact, ConstantsFact DEF RawRequest
<1>9. ASSUME NEW k \in 1 .. Blocks PROVE PackedRequest(k) \in Seq(Bytes)
    BY <1>1, <1>2, <1>3, WordsFact, ConstantsFact DEF PackedRequest
<1> QED BY <1>4, <1>5, <1>6, <1>7, <1>8, <1>9

\* A word that the phone reads is a word.
LEMMA WordValuesType ==
    ASSUME NEW bytes \in Seq(Bytes), Len(bytes) = WordBytes
    PROVE  WordValues(bytes) \subseteq Words
<1> DEFINE c == Content(bytes)
<1>1. 1 \in 1 .. Len(bytes)
    BY ConstantsFact
<1>2. c[1] = <<bytes[1].kind, bytes[1].value, bytes[1].pos>>
    BY <1>1 DEF Content
<1>3. bytes[1] \in Bytes
    BY <1>1, ElementOfSeq
<1>4. c[1][2] = bytes[1].value /\ bytes[1].value \in Words
    BY <1>2, <1>3 DEF Bytes
<1> HIDE DEF c
<1> QED BY <1>4 DEF WordValues, c

-----------------------------------------------------------------------------
\* The types.

Early == {"ready", "speed", "switch", "ping", "extram"}

\* The places the host counts and waits in, and the commands that have words.
PlaceInv ==
    /\ waiting => phase \in {"ready", "ping", "extram", "write", "goto"}
    /\ phase \in Early => block = 1
    /\ phase = "write" => block <= Blocks
    /\ stage = "word" => command \in Commands \ {"PING"}
TypeInv == TypeOK /\ PlaceInv

\* What Init establishes.
LEMMA InitTypes == Init => TypeInv
<1> SUFFICES ASSUME Init PROVE TypeInv
    OBVIOUS
<1>1. <<>> \in Seq(Bytes) /\ <<>> \in Seq(Statuses) /\ <<>> \in Seq(Words) /\ Len(<<>>) = 0
    BY EmptyFact
<1>2. 1 \in 1 .. Blocks + 1 /\ 0 \in 0 .. MaxFaults /\ 0 <= FifoSize /\ 0 <= 3
    BY ConstantsFact
<1>3. TypeOK
    BY <1>1, <1>2, WordsFact DEF Init, TypeOK, Stages
<1>4. PlaceInv
    BY ConstantsFact DEF Init, PlaceInv, Early
<1> QED BY <1>3, <1>4 DEF TypeInv

\* The host sends: its bytes follow the others.
LEMMA SendTypes ==
    ASSUME TypeInv, NEW request \in Seq(Bytes), wire' = wire \o request,
           UNCHANGED <<block, speed, hostSpeed, fifo, up, device, line>>,
           phase' \in {"ping", "switch", phase}, phase' # phase => phase = "speed",
           waiting' \in BOOLEAN, waiting' => phase' \in {"ready", "ping", "extram", "write", "goto"}
    PROVE  TypeInv'
<1>1. wire' \in Seq(Bytes)
    BY ConcatProperties DEF TypeInv, TypeOK
<1>2. /\ UNCHANGED <<stage, command, args, got, deviceSpeed, extram, ram, entry>>
      /\ UNCHANGED <<faults, blind, overrun>>
    BY DEF device, line
<1>3. TypeOK'
    BY <1>1, <1>2 DEF TypeInv, TypeOK
<1>4. PlaceInv'
    BY <1>2 DEF TypeInv, PlaceInv, Early
<1> QED BY <1>3, <1>4 DEF TypeInv

\* What the host does next leaves its counter in the payload.
LEMMA AdvanceTypes ==
    ASSUME TypeInv, Advance, waiting
    PROVE  /\ phase' \in {"speed", "extram", "write", "goto", "forward"} /\ block' \in 1 .. Blocks + 1
           /\ waiting' = FALSE
           /\ phase' \in Early => block' = 1
           /\ phase' = "write" => block' <= Blocks
<1>1. phase \in {"ready", "ping", "extram", "write", "goto"} /\ block \in 1 .. Blocks + 1
    BY DEF TypeInv, TypeOK, PlaceInv
<1>2. CASE phase = "write"
    <2>1. block' = block + 1 /\ waiting' = FALSE /\ phase' = NextPhase /\ block <= Blocks
        BY <1>2 DEF Advance, TypeInv, PlaceInv
    <2>2. /\ block < Blocks => NextPhase = "write"
          /\ ~(block < Blocks) => NextPhase = "goto"
        BY <1>1, <1>2, ConstantsFact DEF NextPhase
    <2>3. block + 1 \in 1 .. Blocks + 1 /\ (block < Blocks => block + 1 <= Blocks)
        BY <1>1, <2>1, ConstantsFact
    <2> QED BY <2>1, <2>2, <2>3 DEF Early
<1>3. CASE phase # "write"
    <2>1. block' = block /\ waiting' = FALSE /\ phase' = NextPhase
        BY <1>3 DEF Advance
    <2>2. /\ phase = "goto" => NextPhase = "forward"
          /\ phase # "goto" => NextPhase \in {"speed", "extram", "write"}
        BY <1>1, <1>3 DEF NextPhase, AfterSpeed
    <2>3. phase # "goto" => block = 1
        BY <1>1, <1>3 DEF TypeInv, PlaceInv, Early
    <2> QED BY <1>1, <2>1, <2>2, <2>3, ConstantsFact DEF Early
<1> QED BY <1>2, <1>3

\* A step of the host.
LEMMA HostTypes ==
    ASSUME TypeInv, HostSteps \/ HostTimeout
    PROVE  TypeInv'
<1>1. speed \in Speeds /\ hostSpeed \in Words /\ block \in 1 .. Blocks + 1
    BY DEF TypeInv, TypeOK
<1>2. CASE KeepSpeed
    BY <1>1, <1>2, RequestTypes, SendTypes DEF KeepSpeed
<1>3. CASE SetSpeed
    <2>1. waiting' = waiting /\ waiting \in BOOLEAN /\ ~waiting
        BY <1>3 DEF SetSpeed, TypeInv, TypeOK, PlaceInv
    <2>2. /\ wire' = wire \o SpeedRequest /\ SpeedRequest \in Seq(Bytes) /\ phase = "speed" /\ phase' = "switch"
          /\ UNCHANGED <<block, speed, hostSpeed, fifo, up, device, line>>
        BY <1>1, <1>3, RequestTypes DEF SetSpeed
    <2>3. waiting' = FALSE
        BY <2>1
    <2> HIDE <1>3
    <2> QED BY <2>2, <2>3, SendTypes
<1>4. CASE SwitchSpeed
    <2>1. /\ UNCHANGED <<waiting, block, speed, wire, fifo, up>> /\ hostSpeed' = speed
          /\ UNCHANGED <<stage, command, args, got, deviceSpeed, extram, ram, entry>>
          /\ UNCHANGED <<faults, blind, overrun>> /\ phase = "switch" /\ phase' = "ping"
        BY <1>4 DEF SwitchSpeed, device, line
    <2>2. TypeOK'
        BY <1>1, <2>1, WordsFact DEF TypeInv, TypeOK
    <2>3. PlaceInv'
        BY <2>1 DEF TypeInv, PlaceInv, Early
    <2> QED BY <2>2, <2>3 DEF TypeInv
<1>5. ASSUME NEW request \in Seq(Bytes), Send(request), phase \in {"ping", "extram", "write", "goto"}
      PROVE  TypeInv'
    <2>1. Answered(phase)
        BY <1>5 DEF Answered
    <2>2. wire' = wire \o request /\ UNCHANGED <<phase, block, speed, hostSpeed, fifo, up, device, line>> /\ waiting'
        BY <1>5, <2>1 DEF Send
    <2>3. waiting' = TRUE
        BY <1>5, <2>1 DEF Send
    <2> QED BY <1>5, <2>2, <2>3, SendTypes
<1>6. CASE Ping
    BY <1>1, <1>5, <1>6, RequestTypes DEF Ping
<1>7. CASE InitExtram
    BY <1>1, <1>5, <1>7, RequestTypes DEF InitExtram
<1>8. CASE WriteBlock
    <2>1. block \in 1 .. Blocks /\ phase = "write"
        BY <1>1, <1>8 DEF WriteBlock, TypeInv, PlaceInv
    <2>2. CASE block \in Packed
        BY <1>1, <1>5, <1>8, <2>1, <2>2, RequestTypes DEF WriteBlock
    <2>3. CASE block \notin Packed
        BY <1>1, <1>5, <1>8, <2>1, <2>3, RequestTypes DEF WriteBlock
    <2> QED BY <2>2, <2>3
<1>9. CASE Goto
    BY <1>1, <1>5, <1>9, RequestTypes DEF Goto
<1>10. CASE ReadStatus
    <2>1. /\ UNCHANGED <<speed, hostSpeed, wire, fifo>> /\ waiting /\ up # <<>> /\ up' = Tail(up)
          /\ UNCHANGED <<stage, command, args, got, deviceSpeed, extram, ram, entry>>
          /\ UNCHANGED <<faults, blind, overrun>>
          /\ Advance \/ (phase' = "exit" /\ waiting' = FALSE /\ block' = block)
        BY <1>10 DEF ReadStatus, device, line
    <2>2. up' \in Seq(Statuses)
        BY <2>1, TailFact DEF TypeInv, TypeOK
    <2>3. /\ phase' \in {"speed", "extram", "write", "goto", "forward", "exit"} /\ block' \in 1 .. Blocks + 1
          /\ waiting' = FALSE
          /\ phase' \in Early => block' = 1
          /\ phase' = "write" => block' <= Blocks
        BY <1>1, <2>1, AdvanceTypes DEF Early
    <2>4. TypeOK'
        BY <2>1, <2>2, <2>3 DEF TypeInv, TypeOK
    <2>5. PlaceInv'
        BY <2>1, <2>3 DEF TypeInv, PlaceInv
    <2> QED BY <2>4, <2>5 DEF TypeInv
<1>11. CASE HostTimeout
    <2>1. /\ UNCHANGED <<block, speed, hostSpeed, wire, fifo, up>> /\ phase' = "exit" /\ waiting' = FALSE
          /\ UNCHANGED <<stage, command, args, got, deviceSpeed, extram, ram, entry>>
          /\ UNCHANGED <<faults, blind, overrun>>
        BY <1>11 DEF HostTimeout, device, line
    <2>2. TypeOK'
        BY <2>1 DEF TypeInv, TypeOK
    <2>3. PlaceInv'
        BY <2>1 DEF TypeInv, PlaceInv, Early
    <2> QED BY <2>2, <2>3 DEF TypeInv
<1> QED BY <1>2, <1>3, <1>4, <1>6, <1>7, <1>8, <1>9, <1>10, <1>11 DEF HostSteps

\* What is received is a byte, and the FIFO holds it or not.
LEMMA DeliverTypes ==
    ASSUME TypeInv, NEW byte \in Bytes, Deliver(byte)
    PROVE  fifo' \in Seq(Bytes) /\ Len(fifo') <= FifoSize /\ overrun' \in BOOLEAN
<1>1. fifo \in Seq(Bytes) /\ Len(fifo) \in Nat /\ Len(fifo) <= FifoSize /\ overrun \in BOOLEAN /\ FifoSize \in Nat
    BY ConstantsFact, EmptyFact DEF TypeInv, TypeOK
<1>2. Append(fifo, byte) \in Seq(Bytes) /\ Len(Append(fifo, byte)) = Len(fifo) + 1
    BY <1>1, AppendFact
<1>3. CASE fifo' = fifo /\ overrun' \in {overrun, TRUE}
    BY <1>1, <1>3
<1>4. CASE Len(fifo) < FifoSize /\ fifo' = Append(fifo, byte) /\ overrun' = overrun
    BY <1>1, <1>2, <1>4
<1> QED BY <1>3, <1>4 DEF Deliver, HasRoom

\* A damaged byte, or one read at another speed, is a byte.
LEMMA JunkType ==
    ASSUME NEW byte \in Bytes
    PROVE  [byte EXCEPT !.kind = "junk"] \in Bytes /\ (deviceSpeed \in Words => Received(byte) \in Bytes)
<1>1. [byte EXCEPT !.kind = "junk"] \in Bytes
    BY DEF Bytes, Kinds
<1> QED BY <1>1 DEF Received

\* A step of the line.
LEMMA LineTypes ==
    ASSUME TypeInv, Arrive \/ Faults
    PROVE  TypeInv'
<1>1. /\ wire \in Seq(Bytes) /\ fifo \in Seq(Bytes) /\ up \in Seq(Statuses) /\ overrun \in BOOLEAN
      /\ faults \in 0 .. MaxFaults /\ blind \in BOOLEAN /\ deviceSpeed \in Words /\ Len(fifo) <= FifoSize
    BY DEF TypeInv, TypeOK
<1>2. ASSUME UNCHANGED <<host, device>>, wire' \in Seq(Bytes), fifo' \in Seq(Bytes), Len(fifo') <= FifoSize,
             up' \in Seq(Statuses), faults' \in 0 .. MaxFaults, blind' \in BOOLEAN, overrun' \in BOOLEAN
      PROVE  TypeInv'
    <2>1. /\ UNCHANGED <<phase, waiting, block, speed, hostSpeed>>
          /\ UNCHANGED <<stage, command, args, got, deviceSpeed, extram, ram, entry>>
        BY <1>2 DEF host, device
    <2>2. TypeOK'
        BY <1>2, <2>1 DEF TypeInv, TypeOK
    <2>3. PlaceInv'
        BY <2>1 DEF TypeInv, PlaceInv
    <2> QED BY <2>2, <2>3 DEF TypeInv
<1>3. faults < MaxFaults => faults + 1 \in 0 .. MaxFaults
    BY <1>1, ConstantsFact
<1>4. wire # <<>> => Head(wire) \in Bytes /\ Tail(wire) \in Seq(Bytes)
    BY <1>1, TailFact
<1>5. up # <<>> => Head(up) \in Statuses /\ Tail(up) \in Seq(Statuses)
    BY <1>1, TailFact
<1>6. CASE Arrive
    <2>1. /\ wire # <<>> /\ wire' = Tail(wire) /\ Deliver(Received(Head(wire)))
          /\ UNCHANGED <<host, up, device, faults, blind>>
        BY <1>6 DEF Arrive, MayArrive
    <2>2. fifo' \in Seq(Bytes) /\ Len(fifo') <= FifoSize /\ overrun' \in BOOLEAN
        BY <1>1, <1>4, <2>1, JunkType, DeliverTypes
    <2> QED BY <1>1, <1>2, <1>4, <2>1, <2>2
<1>7. CASE Damage
    <2>1. /\ wire # <<>> /\ wire' = Tail(wire) /\ Deliver([Head(wire) EXCEPT !.kind = "junk"])
          /\ UNCHANGED <<host, up, device>> /\ faults < MaxFaults /\ faults' = faults + 1
          /\ blind' \in BOOLEAN
        BY <1>7 DEF Damage, MayArrive
    <2>2. fifo' \in Seq(Bytes) /\ Len(fifo') <= FifoSize /\ overrun' \in BOOLEAN
        BY <1>1, <1>4, <2>1, JunkType, DeliverTypes
    <2> QED BY <1>1, <1>2, <1>3, <1>4, <2>1, <2>2
<1>8. CASE Lose
    <2>1. /\ wire # <<>> /\ wire' = Tail(wire) /\ UNCHANGED <<host, fifo, up, device, overrun>>
          /\ faults < MaxFaults /\ faults' = faults + 1
          /\ blind' \in BOOLEAN
        BY <1>8 DEF Lose
    <2> QED BY <1>1, <1>2, <1>3, <1>4, <2>1
<1>9. CASE DamageStatus
    <2>1. /\ up # <<>> /\ up' = <<[Head(up) EXCEPT !.status = "junk"]>> \o Tail(up)
          /\ UNCHANGED <<host, wire, fifo, device, blind, overrun>>
          /\ faults < MaxFaults /\ faults' = faults + 1
        BY <1>9 DEF DamageStatus
    <2>2. [Head(up) EXCEPT !.status = "junk"] \in Statuses
        BY <1>5, <2>1 DEF Statuses
    <2>3. <<[Head(up) EXCEPT !.status = "junk"]>> \in Seq(Statuses)
        BY <2>2
    <2>4. up' \in Seq(Statuses)
        BY <1>5, <2>1, <2>3, ConcatProperties
    <2> QED BY <1>1, <1>2, <1>3, <2>1, <2>4
<1>10. CASE LoseStatus
    <2>1. /\ up # <<>> /\ up' = Tail(up) /\ UNCHANGED <<host, wire, fifo, device, blind, overrun>>
          /\ faults < MaxFaults /\ faults' = faults + 1
        BY <1>10 DEF LoseStatus
    <2> QED BY <1>1, <1>2, <1>3, <1>5, <2>1
<1> QED BY <1>6, <1>7, <1>8, <1>9, <1>10 DEF Faults

\* A step of the phone that keeps the types of what it changes, the mark of a write of nothing among it.
LEMMA BlindFrame ==
    ASSUME TypeInv, UNCHANGED <<host, wire, faults, overrun>>, blind' \in BOOLEAN, fifo' \in Seq(Bytes), Len(fifo') <= FifoSize,
           up' \in Seq(Statuses), stage' \in Stages, command' \in Commands \cup {"none", "invalid"},
           args' \in Seq(Words), Len(args') <= 3, got' \in Seq(Bytes), deviceSpeed' \in Words,
           extram' \in BOOLEAN, DOMAIN ram' = 1 .. Blocks, entry' \in Words,
           stage' = "word" => command' \in Commands \ {"PING"}
    PROVE  TypeInv'
<1>1. /\ UNCHANGED <<phase, waiting, block, speed, hostSpeed>> /\ wire' = wire
      /\ UNCHANGED <<faults, overrun>>
    BY DEF host
<1>2. TypeOK'
    BY <1>1 DEF TypeInv, TypeOK
<1>3. PlaceInv'
    BY <1>1 DEF TypeInv, PlaceInv
<1> QED BY <1>2, <1>3 DEF TypeInv

\* A step of the phone that keeps the types of what it changes.
LEMMA DeviceFrame ==
    ASSUME TypeInv, UNCHANGED <<host, wire, line>>, fifo' \in Seq(Bytes), Len(fifo') <= FifoSize,
           up' \in Seq(Statuses), stage' \in Stages, command' \in Commands \cup {"none", "invalid"},
           args' \in Seq(Words), Len(args') <= 3, got' \in Seq(Bytes), deviceSpeed' \in Words,
           extram' \in BOOLEAN, DOMAIN ram' = 1 .. Blocks, entry' \in Words,
           stage' = "word" => command' \in Commands \ {"PING"}
    PROVE  TypeInv'
<1>1. UNCHANGED <<host, wire, faults, overrun>> /\ blind' \in BOOLEAN
    BY DEF line, TypeInv, TypeOK
<1> QED BY <1>1, BlindFrame

\* A status is sent.
LEMMA PutType ==
    ASSUME TypeInv, NEW status \in {"READY", "PONG", "SUCCESS", "FAILURE"}, Put(status)
    PROVE  up' \in Seq(Statuses)
<1>1. [status |-> status, speed |-> deviceSpeed] \in Statuses
    BY DEF TypeInv, TypeOK, Statuses
<1>2. up \in Seq(Statuses)
    BY DEF TypeInv, TypeOK
<1> DEFINE e == [status |-> status, speed |-> deviceSpeed]
<1> HIDE DEF e
<1>3. Append(up, e) \in Seq(Statuses)
    BY <1>1, <1>2, AppendFact DEF e
<1> QED BY <1>3 DEF Put, e

\* The words of a command: at most three.
LEMMA WordCountFact ==
    ASSUME NEW c \in Commands \ {"PING"}
    PROVE  WordCount(c) \in Nat /\ WordCount(c) <= 3
<1>1. c \in {"INIT_EXTRAM", "GOTO", "SET_SPEED", "WRITE_RAM_LZ4", "RAM_WRITE"}
    BY DEF Commands
<1>2. WordCount(c) = 1 \/ WordCount(c) = 2 \/ WordCount(c) = 3
    BY <1>1 DEF WordCount
<1> QED BY <1>2

\* The memory has the places of the blocks.
LEMMA StoreType ==
    ASSUME TypeInv, NEW address, NEW size, NEW content, Store(address, size, content)
    PROVE  DOMAIN ram' = 1 .. Blocks
BY DEF Store, TypeInv, TypeOK

\* A step of the phone.
LEMMA DeviceTypes ==
    ASSUME TypeInv, DeviceSteps \/ WatchdogReset
    PROVE  TypeInv'
<1>1. /\ fifo \in Seq(Bytes) /\ Len(fifo) <= FifoSize /\ up \in Seq(Statuses) /\ stage \in Stages
      /\ command \in Commands \cup {"none", "invalid"} /\ args \in Seq(Words) /\ Len(args) <= 3
      /\ got \in Seq(Bytes) /\ deviceSpeed \in Words /\ extram \in BOOLEAN /\ DOMAIN ram = 1 .. Blocks
      /\ entry \in Words /\ Len(args) \in Nat
      /\ stage = "word" => command \in Commands \ {"PING"}
    BY EmptyFact DEF TypeInv, TypeOK, PlaceInv
<1>2. <<>> \in Seq(Bytes) /\ <<>> \in Seq(Words) /\ Len(<<>>) <= 3 /\ Len(<<>>) <= FifoSize
    BY EmptyFact, ConstantsFact
<1>3. fifo # <<>> => Head(fifo) \in Bytes /\ Tail(fifo) \in Seq(Bytes) /\ Len(Tail(fifo)) <= FifoSize
    <2> SUFFICES ASSUME fifo # <<>> PROVE Head(fifo) \in Bytes /\ Tail(fifo) \in Seq(Bytes) /\ Len(Tail(fifo)) <= FifoSize
        OBVIOUS
    <2>1. /\ Len(fifo) \in Nat /\ Head(fifo) \in Bytes /\ Tail(fifo) \in Seq(Bytes)
          /\ Len(Tail(fifo)) = Len(fifo) - 1
        BY <1>1, TailFact
    <2> QED BY <1>1, <2>1, ConstantsFact
<1>4. ASSUME NEW w \in Words, Len(args) + 1 <= 3
      PROVE  Append(args, w) \in Seq(Words) /\ Len(Append(args, w)) <= 3
    <2>1. Append(args, w) \in Seq(Words) /\ Len(Append(args, w)) = Len(args) + 1
        BY <1>1, AppendFact
    <2> QED BY <1>4, <2>1
<1>5. Len(got) = WordBytes => WordValues(got) \subseteq Words
    BY <1>1, WordValuesType
<1>6. CASE Start
    <2>1. /\ UNCHANGED <<host, wire, line>> /\ UNCHANGED <<fifo, deviceSpeed, extram, ram, entry>>
          /\ stage' = "command" /\ command' = "none" /\ args' = <<>> /\ got' = <<>> /\ Put("READY")
        BY <1>6 DEF Start, ToCommand
    <2>2. up' \in Seq(Statuses)
        BY <2>1, PutType
    <2> QED BY <1>1, <1>2, <2>1, <2>2, DeviceFrame DEF Stages
<1>7. CASE TakeCommand
    <2>1. /\ UNCHANGED <<host, wire, line>> /\ UNCHANGED <<deviceSpeed, extram, ram, entry>>
          /\ fifo # <<>> /\ fifo' = Tail(fifo)
          /\ UNCHANGED <<args, got>> /\ stage = "command"
          /\ \/ UNCHANGED <<up, stage, command>>
             \/ Put("PONG") /\ UNCHANGED <<stage, command>>
             \/ stage' = "word" /\ command' \in Commands \ {"PING"} /\ UNCHANGED up
        BY <1>7 DEF TakeCommand, CommandValues
    <2>2. up' \in Seq(Statuses)
        BY <1>1, <2>1, PutType
    <2> QED BY <1>1, <1>3, <2>1, <2>2, DeviceFrame DEF Stages
<1>8. CASE TakeByte
    <2>1. /\ UNCHANGED <<host, wire, line>> /\ UNCHANGED <<up, stage, command, args, deviceSpeed, extram, ram, entry>>
          /\ fifo # <<>> /\ fifo' = Tail(fifo) /\ got' = Append(got, Head(fifo))
        BY <1>8 DEF TakeByte
    <2>2. got' \in Seq(Bytes)
        BY <1>1, <1>3, <2>1, AppendFact
    <2> QED BY <1>1, <1>3, <2>1, <2>2, DeviceFrame
<1>9. CASE TakeWord
    <2>1. /\ UNCHANGED <<host, wire, line>> /\ UNCHANGED <<fifo, up, stage, command, deviceSpeed, extram, ram, entry>>
          /\ got' = <<>> /\ stage = "word" /\ Len(got) = WordBytes /\ Len(args) + 1 < WordCount(command)
        BY <1>9 DEF TakeWord
    <2>2. PICK w \in WordValues(got) : args' = Append(args, w)
        BY <1>9 DEF TakeWord
    <2>3. Len(args) + 1 <= 3
        BY <1>1, <2>1, WordCountFact
    <2> QED BY <1>1, <1>2, <1>4, <1>5, <2>1, <2>2, <2>3, DeviceFrame
<1>10. CASE CmdSetSpeed
    <2>1. PICK w \in Words : deviceSpeed' = w
        BY <1>10 DEF CmdSetSpeed
    <2>2. /\ UNCHANGED <<host, wire, line>> /\ UNCHANGED <<fifo, up, command, extram, ram, entry>>
          /\ stage' = "await_ping" /\ args' = <<>> /\ got' = <<>>
        BY <1>10 DEF CmdSetSpeed
    <2> QED BY <1>1, <1>2, <2>1, <2>2, DeviceFrame DEF Stages
<1>11. CASE AwaitPing
    <2>1. /\ UNCHANGED <<host, wire, line>> /\ UNCHANGED <<deviceSpeed, extram, ram, entry>>
          /\ fifo # <<>> /\ fifo' = Tail(fifo) /\ stage = "await_ping"
          /\ \/ UNCHANGED <<up, stage, command, args, got>>
             \/ Put("PONG") /\ stage' = "command" /\ command' = "none" /\ args' = <<>> /\ got' = <<>>
        BY <1>11 DEF AwaitPing, ToCommand
    <2>2. up' \in Seq(Statuses)
        BY <1>1, <2>1, PutType
    <2> QED BY <1>1, <1>2, <1>3, <2>1, <2>2, DeviceFrame DEF Stages
<1>12. CASE CmdInitExtram
    <2>1. /\ UNCHANGED <<host, wire, line>> /\ UNCHANGED <<fifo, deviceSpeed, ram, entry>>
          /\ Put("SUCCESS") \/ Put("FAILURE")
          /\ extram' \in {TRUE, FALSE, extram}
          /\ stage' = "command" /\ command' = "none" /\ args' = <<>> /\ got' = <<>>
        BY <1>12 DEF CmdInitExtram, ToCommand
    <2>2. up' \in Seq(Statuses)
        BY <1>1, <2>1, PutType
    <2> QED BY <1>1, <1>2, <2>1, <2>2, DeviceFrame DEF Stages
<1>13. CASE CmdGoto
    <2>1. PICK w \in Words : entry' = w
        BY <1>13 DEF CmdGoto
    <2>2. /\ UNCHANGED <<host, wire, line>> /\ UNCHANGED <<command, args, got, deviceSpeed, extram, ram>>
          /\ Put("SUCCESS") /\ stage' = "running" /\ fifo' = <<>>
        BY <1>13 DEF CmdGoto
    <2>3. up' \in Seq(Statuses)
        BY <1>1, <2>2, PutType
    <2> QED BY <1>1, <1>2, <2>1, <2>2, <2>3, DeviceFrame DEF Stages
<1>14. CASE CmdWrite
    <2>1. PICK c \in {"RAM_WRITE", "WRITE_RAM_LZ4"}, w \in Words : LastWord(c, w) /\ args' = Append(args, w)
        BY <1>14 DEF CmdWrite
    <2>2. /\ UNCHANGED <<host, wire, line>> /\ UNCHANGED <<fifo, up, command, deviceSpeed, extram, ram, entry>>
          /\ stage' \in {"raw", "packed", "discard"} /\ got' = <<>>
        BY <1>14 DEF CmdWrite
    <2>3. Len(args) + 1 <= 3
        <3>1. Len(args) + 1 = WordCount(c)
            BY <2>1 DEF LastWord
        <3>2. c \in Commands \ {"PING"}
            BY DEF Commands
        <3> QED BY <1>1, <3>1, <3>2, WordCountFact
    <2> QED BY <1>1, <1>2, <1>4, <2>1, <2>2, <2>3, DeviceFrame DEF Stages
<1>15. CASE StoreRaw
    <2>1. /\ UNCHANGED <<host, wire, line>> /\ UNCHANGED <<fifo, up, command, args, deviceSpeed, extram, entry>>
          /\ Store(args[1], args[2], Content(got)) /\ stage' = "crc" /\ got' = <<>>
        BY <1>15 DEF StoreRaw
    <2>2. DOMAIN ram' = 1 .. Blocks
        BY <2>1, StoreType
    <2> QED BY <1>1, <1>2, <2>1, <2>2, DeviceFrame DEF Stages
<1>16. CASE Discarded
    <2>1. /\ UNCHANGED <<host, wire, line>> /\ UNCHANGED <<fifo, up, args, deviceSpeed, extram, ram, entry>>
          /\ stage' = "crc" /\ command' = "invalid" /\ got' = <<>>
        BY <1>16 DEF Discarded
    <2> QED BY <1>1, <1>2, <2>1, DeviceFrame DEF Stages
<1>17. CASE ReadPacked
    <2>1. /\ UNCHANGED <<host, wire, line>> /\ UNCHANGED <<fifo, up, command, args, got, deviceSpeed, extram, ram, entry>>
          /\ stage' = "decompress"
        BY <1>17 DEF ReadPacked
    <2> QED BY <1>1, <2>1, DeviceFrame DEF Stages
<1>18. CASE Decompress
    <2>1. /\ UNCHANGED <<host, wire, line>> /\ UNCHANGED <<fifo, up, args, deviceSpeed, extram, entry>>
          /\ stage' = "crc" /\ got' = <<>> /\ command' \in {command, "invalid"}
          /\ \E content : Store(args[1], args[3], content)
        BY <1>18 DEF Decompress
    <2>2. DOMAIN ram' = 1 .. Blocks
        BY <2>1, StoreType
    <2> QED BY <1>1, <1>2, <2>1, <2>2, DeviceFrame DEF Stages
<1>19. CASE ReadCrc
    <2>1. /\ UNCHANGED <<host, wire, line>> /\ UNCHANGED <<fifo, up, command, args, got, deviceSpeed, extram, ram, entry>>
          /\ stage' = "check"
        BY <1>19 DEF ReadCrc
    <2> QED BY <1>1, <2>1, DeviceFrame DEF Stages
<1>20. CASE Check
    <2>1. /\ UNCHANGED <<host, wire, faults, overrun>> /\ UNCHANGED <<fifo, deviceSpeed, extram, ram, entry>>
          /\ Put("SUCCESS") \/ Put("FAILURE")
          /\ blind' \in BOOLEAN
          /\ stage' = "command" /\ command' = "none" /\ args' = <<>> /\ got' = <<>>
        BY <1>20 DEF Check, ToCommand
    <2>2. up' \in Seq(Statuses)
        BY <1>1, <2>1, PutType
    <2> QED BY <1>1, <1>2, <2>1, <2>2, BlindFrame DEF Stages
<1>21. CASE WatchdogReset
    <2>1. /\ UNCHANGED <<host, wire, line>> /\ UNCHANGED <<fifo, up, command, args, got, deviceSpeed, extram, ram, entry>>
          /\ stage' = "reset"
        BY <1>21 DEF WatchdogReset
    <2> QED BY <1>1, <2>1, DeviceFrame DEF Stages
<1> QED BY <1>6, <1>7, <1>8, <1>9, <1>10, <1>11, <1>12, <1>13, <1>14, <1>15, <1>16, <1>17, <1>18, <1>19, <1>20,
           <1>21 DEF DeviceSteps

\* A step, or none.
LEMMA StepTypes == TypeInv /\ [Next]_vars => TypeInv'
<1> SUFFICES ASSUME TypeInv, [Next]_vars PROVE TypeInv'
    OBVIOUS
<1>1. CASE Next
    BY <1>1, HostTypes, DeviceTypes, LineTypes DEF Next
<1>2. CASE UNCHANGED vars
    <2>1. /\ UNCHANGED <<phase, waiting, block, speed, hostSpeed>> /\ UNCHANGED <<wire, fifo, up>>
          /\ UNCHANGED <<stage, command, args, got, deviceSpeed, extram, ram, entry>>
          /\ UNCHANGED <<faults, blind, overrun>>
        BY <1>2 DEF vars, host, device, line
    <2>2. TypeOK'
        BY <2>1 DEF TypeInv, TypeOK
    <2>3. PlaceInv'
        BY <2>1 DEF TypeInv, PlaceInv
    <2> QED BY <2>2, <2>3 DEF TypeInv
<1> QED BY <1>1, <1>2

\* Whatever the line damages, loses or delays, both programs keep their types, the
\* phone's FIFO holds no more than it can, no command has more than three words and the
\* host's block counter stays in the payload.
THEOREM TypeCorrect == Spec => []TypeOK
<1>1. TypeInv => TypeOK
    BY DEF TypeInv
<1> QED BY <1>1, InitTypes, StepTypes, PTL DEF Spec

-----------------------------------------------------------------------------
\* A line without faults.

\* The bytes the phone has not made use of, in order: those it has read for the current
\* word or buffer, those in its FIFO and those on the line.
Pend == got \o (fifo \o wire)

HasField(start, kind, value, size, baud) == Has(Pend, start, kind, value, size, baud)
HasWord(start, kind, value, baud) == Has(Pend, start, kind, value, WordBytes, baud)

\* What is on the line was sent at the speed the phone listens at.
SameSpeed == \A i \in 1 .. Len(wire) : wire[i].speed = deviceSpeed
Settled == hostSpeed = speed /\ deviceSpeed = speed /\ SameSpeed

Idle == stage = "command" /\ args = <<>> /\ Pend = <<>>
Free == ~waiting /\ Idle /\ up = <<>>
Reply(status) == up = <<[status |-> status, speed |-> deviceSpeed]>>
Asked == waiting /\ up = <<>>
AtCommand == stage = "command" /\ args = <<>> /\ got = <<>>
AtWord(c) == stage = "word" /\ command = c
Loaded(n) == \A k \in 1 .. Blocks : k <= n => ram[k] = Block(k)

Readying ==
    /\ phase = "ready" /\ waiting /\ hostSpeed = BootSpeed /\ deviceSpeed = BootSpeed
    /\ Pend = <<>> /\ args = <<>>
    /\ \/ stage = "start" /\ up = <<>>
       \/ stage = "command" /\ Reply("READY")

Choosing == phase = "speed" /\ Free /\ hostSpeed = BootSpeed /\ deviceSpeed = BootSpeed

\* From the request of another speed to the ping at that speed.  The host changes its own
\* speed when its request has left; the ping may reach the phone before it has changed
\* too, and is then read as anything.
Pings == IF waiting THEN 1 ELSE 0
SpeedPlace ==
    \/ /\ AtCommand /\ deviceSpeed = BootSpeed /\ Len(Pend) = 1 + WordBytes + Pings
       /\ HasField(0, "SET_SPEED", 0, 1, BootSpeed) /\ HasWord(1, "speed", speed, BootSpeed)
    \/ /\ AtWord("SET_SPEED") /\ args = <<>> /\ deviceSpeed = BootSpeed /\ Len(Pend) = WordBytes + Pings
       /\ HasWord(0, "speed", speed, BootSpeed)
    \/ stage = "await_ping" /\ args = <<>> /\ got = <<>> /\ deviceSpeed = speed /\ Len(Pend) <= Pings
    \/ stage = "reset" /\ waiting /\ Pend = <<>>
Switching ==
    /\ up = <<>> /\ SpeedPlace
    /\ \/ phase = "switch" /\ ~waiting /\ hostSpeed = BootSpeed /\ (wire # <<>> => SameSpeed)
       \/ phase = "ping" /\ hostSpeed = speed /\ Len(wire) <= Pings

Pinging ==
    /\ phase = "ping" /\ waiting /\ Settled /\ AtCommand
    /\ \/ up = <<>> /\ Len(Pend) = 1 /\ HasField(0, "PING", 0, 1, speed)
       \/ Reply("PONG") /\ Pend = <<>>

ExtramPlace ==
    \/ /\ AtCommand /\ Len(Pend) = 1 + WordBytes + WordBytes /\ HasField(0, "INIT_EXTRAM", 0, 1, speed)
       /\ HasWord(1, "address", 0, speed) /\ HasWord(1 + WordBytes, "size", ExtramSize, speed)
    \/ /\ AtWord("INIT_EXTRAM") /\ args = <<>> /\ Len(Pend) = WordBytes + WordBytes
       /\ HasWord(0, "address", 0, speed) /\ HasWord(WordBytes, "size", ExtramSize, speed)
    \/ /\ AtWord("INIT_EXTRAM") /\ args = <<0>> /\ Len(Pend) = WordBytes
       /\ HasWord(0, "size", ExtramSize, speed)
Extending ==
    /\ phase = "extram" /\ Settled
    /\ \/ Free
       \/ Asked /\ ExtramPlace
       \/ waiting /\ Idle /\ Reply("SUCCESS") /\ extram

\* The end of a block's request: the data, then the CRC.
Rest(start, kind, size) ==
    /\ Len(Pend) = start + size + WordBytes
    /\ HasField(start, kind, block, size, speed) /\ HasWord(start + size, "crc", block, speed)
RawPlace ==
    \/ /\ AtCommand /\ HasField(0, "RAM_WRITE", 0, 1, speed) /\ HasWord(1, "address", block, speed)
       /\ HasWord(1 + WordBytes, "size", BlockSize, speed)
       /\ Rest(1 + WordBytes + WordBytes, "data", BlockSize)
    \/ /\ AtWord("RAM_WRITE") /\ args = <<>> /\ HasWord(0, "address", block, speed)
       /\ HasWord(WordBytes, "size", BlockSize, speed) /\ Rest(WordBytes + WordBytes, "data", BlockSize)
    \/ /\ AtWord("RAM_WRITE") /\ args = <<block>> /\ HasWord(0, "size", BlockSize, speed)
       /\ Rest(WordBytes, "data", BlockSize)
    \/ stage = "raw" /\ command = "RAM_WRITE" /\ args = <<block, BlockSize>> /\ Rest(0, "data", BlockSize)
PackedPlace ==
    \/ /\ AtCommand /\ HasField(0, "WRITE_RAM_LZ4", 0, 1, speed) /\ HasWord(1, "address", block, speed)
       /\ HasWord(1 + WordBytes, "size", PackedSize, speed)
       /\ HasWord(1 + WordBytes + WordBytes, "size", BlockSize, speed)
       /\ Rest(1 + WordBytes + WordBytes + WordBytes, "packed", PackedSize)
    \/ /\ AtWord("WRITE_RAM_LZ4") /\ args = <<>> /\ HasWord(0, "address", block, speed)
       /\ HasWord(WordBytes, "size", PackedSize, speed)
       /\ HasWord(WordBytes + WordBytes, "size", BlockSize, speed)
       /\ Rest(WordBytes + WordBytes + WordBytes, "packed", PackedSize)
    \/ /\ AtWord("WRITE_RAM_LZ4") /\ args = <<block>> /\ HasWord(0, "size", PackedSize, speed)
       /\ HasWord(WordBytes, "size", BlockSize, speed) /\ Rest(WordBytes + WordBytes, "packed", PackedSize)
    \/ /\ AtWord("WRITE_RAM_LZ4") /\ args = <<block, PackedSize>> /\ HasWord(0, "size", BlockSize, speed)
       /\ Rest(WordBytes, "packed", PackedSize)
    \/ /\ stage \in {"packed", "decompress"} /\ command = "WRITE_RAM_LZ4"
       /\ args = <<block, PackedSize, BlockSize>>
       /\ Rest(0, "packed", PackedSize) /\ (stage = "decompress" => Len(got) = PackedSize)
CrcPlace ==
    /\ stage \in {"crc", "check"} /\ command \in {"RAM_WRITE", "WRITE_RAM_LZ4"} /\ args[1] = block
    /\ args[Len(args)] = BlockSize
    /\ Len(Pend) = WordBytes /\ HasWord(0, "crc", block, speed) /\ Loaded(block)
    /\ stage = "check" => Len(got) = WordBytes
Writing ==
    /\ phase = "write" /\ Settled /\ (UseExtram => extram) /\ Loaded(block - 1)
    /\ \/ Free
       \/ Asked /\ (RawPlace \/ PackedPlace \/ CrcPlace)
       \/ waiting /\ Idle /\ Reply("SUCCESS") /\ Loaded(block)

GotoPlace ==
    \/ /\ AtCommand /\ Len(Pend) = 1 + WordBytes
       /\ HasField(0, "GOTO", 0, 1, speed) /\ HasWord(1, "address", Exec, speed)
    \/ AtWord("GOTO") /\ args = <<>> /\ Len(Pend) = WordBytes /\ HasWord(0, "address", Exec, speed)
Started == stage = "running" /\ entry = Exec /\ wire = <<>> /\ fifo = <<>> /\ Loaded(Blocks)
Jumping ==
    /\ phase = "goto" /\ Settled /\ Loaded(Blocks)
    /\ \/ Free
       \/ Asked /\ GotoPlace
       \/ waiting /\ Started /\ Reply("SUCCESS")

Forwarding == phase = "forward" /\ Started
GivenUp == phase = "exit" /\ stage \in {"await_ping", "reset"} /\ wire = <<>> /\ fifo = <<>>

\* Where host, line and phone are together, step by step of main().
LinkInv ==
    /\ faults = 0 /\ ~blind /\ ~overrun
    /\ \/ Readying \/ Choosing \/ Switching \/ Pinging \/ Extending \/ Writing \/ Jumping
       \/ Forwarding \/ GivenUp

-----------------------------------------------------------------------------
\* The stream of bytes.

\* The first byte of t may as well stand behind s.
LEMMA MoveFact ==
    ASSUME NEW S, NEW s \in Seq(S), NEW t \in Seq(S), t # <<>>
    PROVE  Append(s, Head(t)) \o Tail(t) = s \o t
<1>1. /\ Len(t) \in Nat /\ Len(t) >= 1 /\ Head(t) = t[1] /\ t[1] \in S
      /\ Tail(t) \in Seq(S) /\ Len(Tail(t)) = Len(t) - 1
      /\ \A i \in 1 .. Len(t) - 1 : Tail(t)[i] = t[i + 1]
    BY TailFact
<1> DEFINE a == Append(s, Head(t))
           b == Tail(t)
<1>2. /\ a \in Seq(S) /\ Len(s) \in Nat /\ Len(a) = Len(s) + 1
      /\ \A i \in 1 .. Len(s) : a[i] = s[i]
      /\ a[Len(s) + 1] = t[1]
    BY <1>1, AppendFact
<1>3. b \in Seq(S) /\ Len(b) = Len(t) - 1 /\ \A i \in 1 .. Len(t) - 1 : b[i] = t[i + 1]
    BY <1>1
<1> HIDE DEF a, b
<1>4. /\ a \o b \in Seq(S) /\ Len(a \o b) = Len(a) + Len(b)
      /\ \A i \in 1 .. Len(a) + Len(b) : (a \o b)[i] = IF i <= Len(a) THEN a[i] ELSE b[i - Len(a)]
    BY <1>2, <1>3, ConcatProperties
<1>5. /\ s \o t \in Seq(S) /\ Len(s \o t) = Len(s) + Len(t)
      /\ \A i \in 1 .. Len(s) + Len(t) : (s \o t)[i] = IF i <= Len(s) THEN s[i] ELSE t[i - Len(s)]
    BY ConcatProperties
<1>6. Len(a \o b) = Len(s \o t) /\ Len(a) + Len(b) = Len(s) + Len(t)
    BY <1>1, <1>2, <1>3, <1>4, <1>5
<1>7. ASSUME NEW i \in 1 .. Len(a \o b) PROVE (a \o b)[i] = (s \o t)[i]
    <2>1. i \in 1 .. Len(s) + Len(t) /\ i \in 1 .. Len(a) + Len(b)
        BY <1>4, <1>6
    <2>2. CASE i <= Len(s)
        BY <1>2, <1>4, <1>5, <2>1, <2>2
    <2>3. CASE i = Len(s) + 1
        <3>1. i <= Len(a) /\ ~(i <= Len(s)) /\ i - Len(s) = 1
            BY <1>2, <2>3
        <3> QED BY <1>2, <1>4, <1>5, <2>1, <2>3, <3>1
    <2>4. CASE i > Len(s) + 1
        <3>1. ~(i <= Len(a)) /\ ~(i <= Len(s)) /\ i - Len(a) \in 1 .. Len(t) - 1 /\ i - Len(a) + 1 = i - Len(s)
            BY <1>1, <1>2, <2>1, <2>4
        <3> QED BY <1>3, <1>4, <1>5, <2>1, <3>1
    <2> QED BY <1>2, <2>1, <2>2, <2>3, <2>4
<1>8. a \o b = s \o t
    BY <1>4, <1>5, <1>6, <1>7, SeqEqual
<1> QED BY <1>8 DEF a, b

\* Three sequences behind each other, place by place.
LEMMA ThreeFact ==
    ASSUME NEW S, NEW s \in Seq(S), NEW t \in Seq(S), NEW u \in Seq(S)
    PROVE  LET p == s \o (t \o u)
           IN  /\ p \in Seq(S) /\ Len(s) \in Nat /\ Len(t) \in Nat /\ Len(u) \in Nat
               /\ Len(p) = Len(s) + Len(t) + Len(u)
               /\ \A i \in 1 .. Len(s) : p[i] = s[i]
               /\ \A i \in 1 .. Len(t) : p[Len(s) + i] = t[i]
               /\ \A i \in 1 .. Len(u) : p[Len(s) + Len(t) + i] = u[i]
<1> DEFINE q == t \o u
<1>1. /\ q \in Seq(S) /\ Len(q) = Len(t) + Len(u) /\ Len(s) \in Nat /\ Len(t) \in Nat /\ Len(u) \in Nat
      /\ \A i \in 1 .. Len(t) + Len(u) : q[i] = IF i <= Len(t) THEN t[i] ELSE u[i - Len(t)]
    BY ConcatProperties, LenProperties
<1> HIDE DEF q
<1>0. q \in Seq(S)
    BY <1>1
<1> DEFINE p == s \o q
<1>2. /\ p \in Seq(S) /\ Len(p) = Len(s) + Len(q)
      /\ \A i \in 1 .. Len(s) + Len(q) : p[i] = IF i <= Len(s) THEN s[i] ELSE q[i - Len(s)]
    BY <1>0, ConcatProperties
<1> HIDE DEF p
<1>3. Len(p) = Len(s) + Len(t) + Len(u)
    BY <1>1, <1>2
<1>4. ASSUME NEW i \in 1 .. Len(s) PROVE p[i] = s[i]
    <2>1. i \in 1 .. Len(s) + Len(q) /\ i <= Len(s)
        BY <1>1
    <2> QED BY <1>2, <2>1
<1>5. ASSUME NEW i \in 1 .. Len(q) PROVE p[Len(s) + i] = q[i]
    <2>1. Len(s) + i \in 1 .. Len(s) + Len(q) /\ ~(Len(s) + i <= Len(s)) /\ Len(s) + i - Len(s) = i
        BY <1>1
    <2> QED BY <1>2, <2>1
<1>6. ASSUME NEW i \in 1 .. Len(t) PROVE p[Len(s) + i] = t[i]
    <2>1. i \in 1 .. Len(q) /\ i \in 1 .. Len(t) + Len(u) /\ i <= Len(t)
        BY <1>1
    <2> QED BY <1>1, <1>5, <2>1
<1>7. ASSUME NEW i \in 1 .. Len(u) PROVE p[Len(s) + Len(t) + i] = u[i]
    <2> DEFINE j == Len(t) + i
    <2>1. /\ j \in 1 .. Len(q) /\ j \in 1 .. Len(t) + Len(u) /\ ~(j <= Len(t)) /\ j - Len(t) = i
          /\ Len(s) + j = Len(s) + Len(t) + i
        BY <1>1
    <2> HIDE DEF j
    <2>2. p[Len(s) + j] = q[j] /\ q[j] = u[i]
        BY <1>1, <1>5, <2>1
    <2> QED BY <2>1, <2>2
<1> QED BY <1>1, <1>2, <1>3, <1>4, <1>6, <1>7 DEF p, q

\* What the phone has, place by place.
LEMMA PendFact ==
    ASSUME TypeInv
    PROVE  /\ Pend \in Seq(Bytes) /\ Len(got) \in Nat /\ Len(fifo) \in Nat /\ Len(wire) \in Nat
           /\ Len(Pend) = Len(got) + Len(fifo) + Len(wire)
           /\ \A i \in 1 .. Len(got) : Pend[i] = got[i]
           /\ \A i \in 1 .. Len(fifo) : Pend[Len(got) + i] = fifo[i]
           /\ \A i \in 1 .. Len(wire) : Pend[Len(got) + Len(fifo) + i] = wire[i]
<1>1. got \in Seq(Bytes) /\ fifo \in Seq(Bytes) /\ wire \in Seq(Bytes)
    BY DEF TypeInv, TypeOK
<1> QED BY <1>1, ThreeFact DEF Pend

\* The same after a step.
LEMMA PendNext ==
    ASSUME TypeInv'
    PROVE  /\ Pend' \in Seq(Bytes) /\ Len(got') \in Nat /\ Len(fifo') \in Nat /\ Len(wire') \in Nat
           /\ Len(Pend') = Len(got') + Len(fifo') + Len(wire')
           /\ \A i \in 1 .. Len(got') : Pend'[i] = got'[i]
           /\ \A i \in 1 .. Len(fifo') : Pend'[Len(got') + i] = fifo'[i]
           /\ \A i \in 1 .. Len(wire') : Pend'[Len(got') + Len(fifo') + i] = wire'[i]
<1>1. got' \in Seq(Bytes) /\ fifo' \in Seq(Bytes) /\ wire' \in Seq(Bytes)
    BY DEF TypeInv, TypeOK
<1> QED BY <1>1, ThreeFact DEF Pend

\* Nothing there is nothing anywhere.
LEMMA PendEmpty ==
    ASSUME TypeInv
    PROVE  /\ Pend = <<>> <=> got = <<>> /\ fifo = <<>> /\ wire = <<>>
           /\ Pend = <<>> <=> Len(Pend) = 0
           /\ got = <<>> <=> Len(got) = 0
           /\ fifo = <<>> <=> Len(fifo) = 0
           /\ wire = <<>> <=> Len(wire) = 0
<1>1. got \in Seq(Bytes) /\ fifo \in Seq(Bytes) /\ wire \in Seq(Bytes)
    BY DEF TypeInv, TypeOK
<1>2. /\ Pend = <<>> <=> Len(Pend) = 0
      /\ got = <<>> <=> Len(got) = 0
      /\ fifo = <<>> <=> Len(fifo) = 0
      /\ wire = <<>> <=> Len(wire) = 0
    BY <1>1, PendFact, EmptyFact
<1>3. Len(Pend) = 0 <=> Len(got) = 0 /\ Len(fifo) = 0 /\ Len(wire) = 0
    BY PendFact
<1> QED BY <1>2, <1>3

\* usart_read moves a byte: the stream stays.
LEMMA TakeByteStream ==
    ASSUME TypeInv, TakeByte
    PROVE  Pend' = Pend
<1>1. /\ got \in Seq(Bytes) /\ fifo \in Seq(Bytes) /\ wire \in Seq(Bytes) /\ fifo # <<>>
      /\ got' = Append(got, Head(fifo)) /\ fifo' = Tail(fifo) /\ wire' = wire
    BY DEF TypeInv, TypeOK, TakeByte
<1>2. /\ Head(fifo) \in Bytes /\ Tail(fifo) \in Seq(Bytes) /\ Append(got, Head(fifo)) \in Seq(Bytes)
    BY <1>1, TailFact, AppendFact
<1> DEFINE g == Append(got, Head(fifo))
           t == Tail(fifo)
<1>3. g \in Seq(Bytes) /\ t \in Seq(Bytes) /\ got' = g /\ fifo' = t
    BY <1>1, <1>2
<1>4. g \o t = got \o fifo
    BY <1>1, MoveFact
<1> HIDE DEF g, t
<1>5. g \o (t \o wire) = (g \o t) \o wire
    <2>1. g \in Seq(Bytes) /\ t \in Seq(Bytes) /\ wire \in Seq(Bytes)
        BY <1>1, <1>3
    <2> QED BY <2>1, ConcatAssociative
<1>6. (got \o fifo) \o wire = got \o (fifo \o wire)
    BY <1>1, ConcatAssociative
<1> QED BY <1>1, <1>3, <1>4, <1>5, <1>6 DEF Pend

\* A byte arrives as it was sent: the stream stays.
LEMMA ArriveStream ==
    ASSUME TypeInv, Arrive, Listening, HasRoom(fifo), SameSpeed
    PROVE  /\ Pend' = Pend /\ SameSpeed' /\ UNCHANGED <<host, up, device, line>>
           /\ Len(wire') <= Len(wire) /\ (wire' # <<>> => wire # <<>>)
<1>1. /\ got \in Seq(Bytes) /\ fifo \in Seq(Bytes) /\ wire \in Seq(Bytes) /\ wire # <<>>
      /\ wire' = Tail(wire) /\ UNCHANGED <<host, up, device, faults, blind>>
      /\ fifo' = Append(fifo, Received(Head(wire))) /\ overrun' = overrun
    BY DEF TypeInv, TypeOK, Arrive, MayArrive, Deliver
<1>2. /\ Len(wire) \in Nat /\ Len(wire) >= 1 /\ Head(wire) = wire[1] /\ Len(Tail(wire)) = Len(wire) - 1
      /\ \A i \in 1 .. Len(wire) - 1 : Tail(wire)[i] = wire[i + 1]
    BY <1>1, TailFact
<1>3. Head(wire).speed = deviceSpeed
    BY <1>2 DEF SameSpeed
<1>4. Received(Head(wire)) = Head(wire)
    BY <1>3 DEF Received
<1>5. fifo' \o wire' = fifo \o wire
    BY <1>1, <1>4, MoveFact
<1>6. got' = got /\ deviceSpeed' = deviceSpeed
    BY <1>1 DEF device
<1>7. SameSpeed'
    <2> SUFFICES ASSUME NEW i \in 1 .. Len(wire') PROVE wire'[i].speed = deviceSpeed'
        BY DEF SameSpeed
    <2>1. i \in 1 .. Len(wire) - 1 /\ i + 1 \in 1 .. Len(wire)
        BY <1>1, <1>2
    <2>2. wire'[i] = wire[i + 1]
        BY <1>1, <1>2, <2>1
    <2> QED BY <1>6, <2>1, <2>2 DEF SameSpeed
<1>8. UNCHANGED line
    BY <1>1 DEF line
<1>9. Len(wire') <= Len(wire)
    BY <1>1, <1>2
<1> QED BY <1>1, <1>5, <1>6, <1>7, <1>8, <1>9 DEF Pend

\* q is p without its first n bytes.
Rests(p, q, n) == Len(q) = Len(p) - n /\ \A i \in 1 .. Len(p) - n : q[i] = p[n + i]

\* What stands further on in p stands in the rest of it.
LEMMA ShiftHas ==
    ASSUME NEW p, NEW q, NEW n \in Nat, NEW start \in Nat, NEW size \in Nat, NEW kind, NEW value, NEW baud,
           Len(p) \in Nat, Rests(p, q, n), n + start + size <= Len(p),
           Has(p, n + start, kind, value, size, baud)
    PROVE  Has(q, start, kind, value, size, baud)
<1> SUFFICES ASSUME NEW k \in 1 .. size PROVE q[start + k] = ByteAt(kind, value, k, baud)
    BY DEF Has
<1>1. start + k \in 1 .. Len(p) - n /\ n + (start + k) = n + start + k
    OBVIOUS
<1>2. q[start + k] = p[n + start + k]
    BY <1>1 DEF Rests
<1> QED BY <1>2 DEF Has

\* A word or a buffer is taken: the rest of the stream follows.
LEMMA DropGot ==
    ASSUME TypeInv, TypeInv', got' = <<>>, UNCHANGED <<fifo, wire>>
    PROVE  Rests(Pend, Pend', Len(got))
<1>1. /\ Len(Pend) = Len(got) + Len(fifo) + Len(wire) /\ Len(got) \in Nat /\ Len(fifo) \in Nat /\ Len(wire) \in Nat
      /\ \A i \in 1 .. Len(fifo) : Pend[Len(got) + i] = fifo[i]
      /\ \A i \in 1 .. Len(wire) : Pend[Len(got) + Len(fifo) + i] = wire[i]
    BY PendFact
<1>2. Len(got') = 0
    BY EmptyFact
<1>3. /\ Len(Pend') = Len(fifo) + Len(wire)
      /\ \A i \in 1 .. Len(fifo) : Pend'[i] = fifo[i]
      /\ \A i \in 1 .. Len(wire) : Pend'[Len(fifo) + i] = wire[i]
    <2>1. /\ Len(Pend') = 0 + Len(fifo) + Len(wire)
          /\ \A i \in 1 .. Len(fifo) : Pend'[0 + i] = fifo[i]
          /\ \A i \in 1 .. Len(wire) : Pend'[0 + Len(fifo) + i] = wire[i]
        BY <1>2, PendNext
    <2> QED BY <1>1, <2>1
<1>4. Len(Pend') = Len(Pend) - Len(got)
    BY <1>1, <1>3
<1>5. ASSUME NEW i \in 1 .. Len(Pend) - Len(got) PROVE Pend'[i] = Pend[Len(got) + i]
    <2>1. CASE i <= Len(fifo)
        BY <1>1, <1>3, <2>1
    <2>2. CASE i > Len(fifo)
        <3> DEFINE j == i - Len(fifo)
        <3>1. j \in 1 .. Len(wire) /\ Len(fifo) + j = i /\ Len(got) + Len(fifo) + j = Len(got) + i
            BY <1>1, <2>2
        <3> HIDE DEF j
        <3>2. Pend'[Len(fifo) + j] = wire[j] /\ Pend[Len(got) + Len(fifo) + j] = wire[j]
            BY <1>1, <1>3, <3>1
        <3> QED BY <3>1, <3>2
    <2> QED BY <1>1, <2>1, <2>2
<1> QED BY <1>4, <1>5 DEF Rests

\* A byte is taken on its own: the rest of the stream follows.
LEMMA DropByte ==
    ASSUME TypeInv, TypeInv', got = <<>>, got' = <<>>, fifo # <<>>, fifo' = Tail(fifo), wire' = wire
    PROVE  Rests(Pend, Pend', 1) /\ Pend[1] = Head(fifo) /\ Len(Pend) >= 1 /\ Len(Pend) \in Nat
<1>0. Len(got) = 0 /\ Len(got') = 0 /\ fifo \in Seq(Bytes)
    BY EmptyFact DEF TypeInv, TypeOK
<1>1. /\ Len(Pend) = Len(fifo) + Len(wire) /\ Len(fifo) \in Nat /\ Len(wire) \in Nat
      /\ \A i \in 1 .. Len(fifo) : Pend[i] = fifo[i]
      /\ \A i \in 1 .. Len(wire) : Pend[Len(fifo) + i] = wire[i]
    <2>1. /\ Len(Pend) = 0 + Len(fifo) + Len(wire) /\ Len(fifo) \in Nat /\ Len(wire) \in Nat
          /\ \A i \in 1 .. Len(fifo) : Pend[0 + i] = fifo[i]
          /\ \A i \in 1 .. Len(wire) : Pend[0 + Len(fifo) + i] = wire[i]
        BY <1>0, PendFact
    <2> QED BY <2>1
<1>2. /\ Len(fifo) >= 1 /\ Len(fifo') = Len(fifo) - 1 /\ Head(fifo) = fifo[1]
      /\ \A i \in 1 .. Len(fifo) - 1 : fifo'[i] = fifo[i + 1]
    BY <1>0, TailFact
<1>3. /\ Len(Pend') = Len(fifo) - 1 + Len(wire)
      /\ \A i \in 1 .. Len(fifo) - 1 : Pend'[i] = fifo[i + 1]
      /\ \A i \in 1 .. Len(wire) : Pend'[Len(fifo) - 1 + i] = wire[i]
    <2>1. /\ Len(Pend') = 0 + Len(fifo') + Len(wire)
          /\ \A i \in 1 .. Len(fifo') : Pend'[0 + i] = fifo'[i]
          /\ \A i \in 1 .. Len(wire) : Pend'[0 + Len(fifo') + i] = wire[i]
        BY <1>0, PendNext
    <2>2. /\ Len(Pend') = Len(fifo') + Len(wire)
          /\ \A i \in 1 .. Len(fifo') : Pend'[i] = fifo'[i]
          /\ \A i \in 1 .. Len(wire) : Pend'[Len(fifo') + i] = wire[i]
        BY <1>1, <1>2, <2>1
    <2> QED BY <1>2, <2>2
<1>4. Len(Pend') = Len(Pend) - 1 /\ Len(Pend) >= 1 /\ Len(Pend) \in Nat
    BY <1>1, <1>2, <1>3
<1>5. ASSUME NEW i \in 1 .. Len(Pend) - 1 PROVE Pend'[i] = Pend[1 + i]
    <2>1. CASE i <= Len(fifo) - 1
        <3>1. i \in 1 .. Len(fifo) - 1 /\ i + 1 \in 1 .. Len(fifo) /\ 1 + i = i + 1
            BY <1>1, <1>2, <2>1
        <3> QED BY <1>1, <1>3, <3>1
    <2>2. CASE i > Len(fifo) - 1
        <3> DEFINE j == i - (Len(fifo) - 1)
        <3>1. j \in 1 .. Len(wire) /\ Len(fifo) - 1 + j = i /\ Len(fifo) + j = 1 + i
            BY <1>1, <1>2, <2>2
        <3> HIDE DEF j
        <3>2. Pend'[Len(fifo) - 1 + j] = wire[j] /\ Pend[Len(fifo) + j] = wire[j]
            BY <1>1, <1>3, <3>1
        <3> QED BY <3>1, <3>2
    <2> QED BY <1>1, <1>2, <2>1, <2>2
<1>6. Pend[1] = Head(fifo)
    BY <1>1, <1>2
<1> QED BY <1>4, <1>5, <1>6 DEF Rests

\* The host sends when the phone has nothing: the stream is the request, at one speed.
LEMMA FreshStream ==
    ASSUME TypeInv, Pend = <<>>, NEW request \in Seq(Bytes), wire' = wire \o request, UNCHANGED <<fifo, got>>
    PROVE  Pend' = request /\ wire' = request /\ fifo = <<>> /\ got = <<>>
<1>1. got = <<>> /\ fifo = <<>> /\ wire = <<>>
    BY PendEmpty
<1>2. <<>> \o request = request
    BY ConcatEmptySeq
<1> QED BY <1>1, <1>2 DEF Pend

\* A word whose bytes are there is read right.
LEMMA WordRead ==
    ASSUME TypeInv, NEW kind \in {"speed", "address", "size"}, NEW value, NEW baud,
           Len(got) = WordBytes, Has(Pend, 0, kind, value, WordBytes, baud)
    PROVE  WordValues(got) = {value}
<1>1. 1 \in 1 .. Len(got) /\ got \in Seq(Bytes)
    BY ConstantsFact DEF TypeInv, TypeOK
<1>2. \A k \in 1 .. WordBytes : got[k] = ByteAt(kind, value, k, baud)
    <2>1. \A k \in 1 .. WordBytes : Pend[k] = got[k]
        BY PendFact
    <2>2. \A k \in 1 .. WordBytes : Pend[0 + k] = ByteAt(kind, value, k, baud) /\ 0 + k = k
        BY ConstantsFact DEF Has
    <2> QED BY <2>1, <2>2
<1>3. \A k \in 1 .. WordBytes : <<got[k].kind, got[k].value, got[k].pos>> = <<kind, value, k>>
    BY <1>2 DEF ByteAt
<1> DEFINE c == Content(got)
<1>4. c = [k \in 1 .. WordBytes |-> <<kind, value, k>>]
    BY <1>3 DEF Content
<1>5. c[1] = <<kind, value, 1>>
    BY <1>1, <1>4
<1>6. c[1][2] = value
    BY <1>5
<1>7. c = Intact(kind, c[1][2], WordBytes)
    BY <1>4, <1>6 DEF Intact
<1> HIDE DEF c
<1> QED BY <1>6, <1>7 DEF WordValues, c

\* A field whose bytes are there is read right.
LEMMA FieldRead ==
    ASSUME TypeInv, NEW kind, NEW value, NEW baud, Has(Pend, 0, kind, value, Len(got), baud)
    PROVE  Content(got) = Intact(kind, value, Len(got))
<1>1. \A k \in 1 .. Len(got) : got[k] = ByteAt(kind, value, k, baud)
    <2>1. \A k \in 1 .. Len(got) : Pend[k] = got[k]
        BY PendFact
    <2>2. \A k \in 1 .. Len(got) : Pend[0 + k] = ByteAt(kind, value, k, baud) /\ 0 + k = k
        BY PendFact DEF Has
    <2> QED BY <2>1, <2>2
<1>2. ASSUME NEW k \in 1 .. Len(got)
      PROVE  <<got[k].kind, got[k].value, got[k].pos>> = <<kind, value, k>>
    <2>1. got[k] = ByteAt(kind, value, k, baud)
        BY <1>1
    <2>2. got[k].kind = kind /\ got[k].value = value /\ got[k].pos = k
        BY <2>1 DEF ByteAt
    <2> QED BY <2>2
<1> QED BY <1>2 DEF Content, Intact

\* A command whose byte is there is read right.
LEMMA CommandRead ==
    ASSUME NEW p, NEW c \in Commands, NEW value, NEW baud, Has(p, 0, c, value, 1, baud)
    PROVE  CommandValues(p[1]) = {c}
<1>1. 1 \in 1 .. 1 /\ 0 + 1 = 1
    OBVIOUS
<1>2. p[1] = ByteAt(c, value, 1, baud)
    BY <1>1 DEF Has
<1>3. p[1].kind = c
    BY <1>2 DEF ByteAt
<1> QED BY <1>3 DEF CommandValues

-----------------------------------------------------------------------------
\* What the requests hold.

AtSpeed(p, baud) == \A i \in 1 .. Len(p) : p[i].speed = baud

\* The first field of a request.
LEMMA FirstField ==
    ASSUME NEW kind \in Kinds, NEW value \in Words, NEW size \in Nat, hostSpeed \in Words
    PROVE  LET f == Field(kind, value, size)
           IN  /\ f \in Seq(Bytes) /\ Len(f) = size /\ AtSpeed(f, hostSpeed)
               /\ Has(f, 0, kind, value, size, hostSpeed)
<1> DEFINE f == Field(kind, value, size)
<1>1. f \in Seq(Bytes) /\ Len(f) = size /\ \A k \in 1 .. size : f[k] = ByteAt(kind, value, k, hostSpeed)
    BY FieldFact
<1> HIDE DEF f
<1>2. Has(f, 0, kind, value, size, hostSpeed)
    <2> SUFFICES ASSUME NEW k \in 1 .. size PROVE f[0 + k] = ByteAt(kind, value, k, hostSpeed)
        BY DEF Has
    <2>1. 0 + k = k
        OBVIOUS
    <2> QED BY <1>1, <2>1
<1>3. AtSpeed(f, hostSpeed)
    <2> SUFFICES ASSUME NEW i \in 1 .. size PROVE f[i].speed = hostSpeed
        BY <1>1 DEF AtSpeed
    <2>1. f[i] = ByteAt(kind, value, i, hostSpeed)
        BY <1>1
    <2> QED BY <2>1 DEF ByteAt
<1> QED BY <1>1, <1>2, <1>3 DEF f

\* A field behind others is sent at the same speed.
LEMMA FieldSpeed ==
    ASSUME NEW s \in Seq(Bytes), hostSpeed \in Words, AtSpeed(s, hostSpeed),
           NEW kind \in Kinds, NEW value \in Words, NEW size \in Nat
    PROVE  AtSpeed(s \o Field(kind, value, size), hostSpeed)
<1> DEFINE f == Field(kind, value, size)
<1>1. f \in Seq(Bytes) /\ AtSpeed(f, hostSpeed)
    BY FirstField
<1> HIDE DEF f
<1>2. /\ Len(s \o f) = Len(s) + Len(f) /\ Len(s) \in Nat /\ Len(f) \in Nat
      /\ \A i \in 1 .. Len(s) + Len(f) : (s \o f)[i] = IF i <= Len(s) THEN s[i] ELSE f[i - Len(s)]
    BY <1>1, ConcatProperties, LenProperties
<1>3. ASSUME NEW i \in 1 .. Len(s \o f) PROVE (s \o f)[i].speed = hostSpeed
    <2>0. i \in 1 .. Len(s) + Len(f)
        BY <1>2
    <2>1. CASE i <= Len(s)
        <3>1. i \in 1 .. Len(s) /\ (s \o f)[i] = s[i]
            BY <1>2, <2>0, <2>1
        <3> QED BY <3>1 DEF AtSpeed
    <2>2. CASE ~(i <= Len(s))
        <3>1. i - Len(s) \in 1 .. Len(f) /\ (s \o f)[i] = f[i - Len(s)]
            BY <1>2, <2>0, <2>2
        <3> QED BY <1>1, <3>1 DEF AtSpeed
    <2> QED BY <2>1, <2>2
<1> QED BY <1>3 DEF AtSpeed, f

\* A field behind n bytes.
LEMMA AddField ==
    ASSUME NEW s \in Seq(Bytes), hostSpeed \in Words, AtSpeed(s, hostSpeed),
           NEW kind \in Kinds, NEW value \in Words, NEW size \in Nat
    PROVE  LET r == s \o Field(kind, value, size)
           IN  r \in Seq(Bytes) /\ Len(r) = Len(s) + size /\ AtSpeed(r, hostSpeed)
               /\ Has(r, Len(s), kind, value, size, hostSpeed)
BY NextField, FieldSpeed

\* What stands before a field stays.
LEMMA KeepField ==
    ASSUME NEW s \in Seq(Bytes), hostSpeed \in Words,
           NEW kind \in Kinds, NEW value \in Words, NEW size \in Nat,
           NEW start \in Nat, NEW n \in Nat, NEW c, NEW v, start + n <= Len(s), Has(s, start, c, v, n, hostSpeed)
    PROVE  Has(s \o Field(kind, value, size), start, c, v, n, hostSpeed)
BY NextField

\* What every field of a request stands on.
LEMMA FieldKinds ==
    /\ {"speed", "address", "size", "data", "packed", "crc"} \subseteq Kinds
    /\ {"PING", "INIT_EXTRAM", "GOTO", "SET_SPEED", "WRITE_RAM_LZ4", "RAM_WRITE"} \subseteq Kinds
    /\ 1 \in Nat /\ 0 \in Nat
BY DEF Kinds, Commands

\* The request of another speed.
LEMMA SpeedFields ==
    ASSUME hostSpeed \in Words, speed \in Speeds
    PROVE  LET r == SpeedRequest
           IN  /\ r \in Seq(Bytes) /\ Len(r) = 1 + WordBytes /\ AtSpeed(r, hostSpeed)
               /\ Has(r, 0, "SET_SPEED", 0, 1, hostSpeed)
               /\ Has(r, 1, "speed", speed, WordBytes, hostSpeed)
<1>0. speed \in Words /\ 0 \in Words /\ WordBytes \in Nat
    BY WordsFact, ConstantsFact
<1> DEFINE a == Field("SET_SPEED", 0, 1)
<1>1. a \in Seq(Bytes) /\ Len(a) = 1 /\ AtSpeed(a, hostSpeed) /\ Has(a, 0, "SET_SPEED", 0, 1, hostSpeed)
    BY <1>0, FieldKinds, FirstField
<1> HIDE DEF a
<1> DEFINE b == a \o Field("speed", speed, WordBytes)
<1>2. b \in Seq(Bytes) /\ Len(b) = 1 + WordBytes /\ AtSpeed(b, hostSpeed) /\ Has(b, 1, "speed", speed, WordBytes, hostSpeed)
    <2>1. b \in Seq(Bytes) /\ Len(b) = Len(a) + WordBytes /\ AtSpeed(b, hostSpeed) /\ Has(b, Len(a), "speed", speed, WordBytes, hostSpeed)
        BY <1>0, <1>1, FieldKinds, AddField
    <2> HIDE DEF b
    <2> QED BY <1>0, <1>1, <2>1
<1>3. /\ Has(b, 0, "SET_SPEED", 0, 1, hostSpeed)
    <2>1. Has(b, 0, "SET_SPEED", 0, 1, hostSpeed)
        <3>1. 0 \in Nat /\ 1 \in Nat /\ 0 + 1 <= Len(a)
            BY <1>0, <1>1
        <3> QED BY <1>0, <1>1, <3>1, FieldKinds, KeepField
    <2> QED BY <2>1
<1> HIDE DEF b
<1>4. SpeedRequest = b
    BY DEF SpeedRequest, Word, a, b
<1> QED BY <1>2, <1>3, <1>4

\* The request of a jump.
LEMMA GotoFields ==
    ASSUME hostSpeed \in Words
    PROVE  LET r == GotoRequest
           IN  /\ r \in Seq(Bytes) /\ Len(r) = 1 + WordBytes /\ AtSpeed(r, hostSpeed)
               /\ Has(r, 0, "GOTO", 0, 1, hostSpeed)
               /\ Has(r, 1, "address", Exec, WordBytes, hostSpeed)
<1>0. Exec \in Words /\ 0 \in Words /\ WordBytes \in Nat
    BY WordsFact, ConstantsFact
<1> DEFINE a == Field("GOTO", 0, 1)
<1>1. a \in Seq(Bytes) /\ Len(a) = 1 /\ AtSpeed(a, hostSpeed) /\ Has(a, 0, "GOTO", 0, 1, hostSpeed)
    BY <1>0, FieldKinds, FirstField
<1> HIDE DEF a
<1> DEFINE b == a \o Field("address", Exec, WordBytes)
<1>2. b \in Seq(Bytes) /\ Len(b) = 1 + WordBytes /\ AtSpeed(b, hostSpeed) /\ Has(b, 1, "address", Exec, WordBytes, hostSpeed)
    <2>1. b \in Seq(Bytes) /\ Len(b) = Len(a) + WordBytes /\ AtSpeed(b, hostSpeed) /\ Has(b, Len(a), "address", Exec, WordBytes, hostSpeed)
        BY <1>0, <1>1, FieldKinds, AddField
    <2> HIDE DEF b
    <2> QED BY <1>0, <1>1, <2>1
<1>3. /\ Has(b, 0, "GOTO", 0, 1, hostSpeed)
    <2>1. Has(b, 0, "GOTO", 0, 1, hostSpeed)
        <3>1. 0 \in Nat /\ 1 \in Nat /\ 0 + 1 <= Len(a)
            BY <1>0, <1>1
        <3> QED BY <1>0, <1>1, <3>1, FieldKinds, KeepField
    <2> QED BY <2>1
<1> HIDE DEF b
<1>4. GotoRequest = b
    BY DEF GotoRequest, Word, a, b
<1> QED BY <1>2, <1>3, <1>4

\* The request of the external RAM.
LEMMA ExtramFields ==
    ASSUME hostSpeed \in Words
    PROVE  LET r == ExtramRequest
           IN  /\ r \in Seq(Bytes) /\ Len(r) = 1 + WordBytes + WordBytes /\ AtSpeed(r, hostSpeed)
               /\ Has(r, 0, "INIT_EXTRAM", 0, 1, hostSpeed)
               /\ Has(r, 1, "address", 0, WordBytes, hostSpeed)
               /\ Has(r, 1 + WordBytes, "size", ExtramSize, WordBytes, hostSpeed)
<1>0. ExtramSize \in Words /\ 0 \in Words /\ WordBytes \in Nat
    BY WordsFact, ConstantsFact
<1> DEFINE a == Field("INIT_EXTRAM", 0, 1)
<1>1. a \in Seq(Bytes) /\ Len(a) = 1 /\ AtSpeed(a, hostSpeed) /\ Has(a, 0, "INIT_EXTRAM", 0, 1, hostSpeed)
    BY <1>0, FieldKinds, FirstField
<1> HIDE DEF a
<1> DEFINE b == a \o Field("address", 0, WordBytes)
<1>2. b \in Seq(Bytes) /\ Len(b) = 1 + WordBytes /\ AtSpeed(b, hostSpeed) /\ Has(b, 1, "address", 0, WordBytes, hostSpeed)
    <2>1. b \in Seq(Bytes) /\ Len(b) = Len(a) + WordBytes /\ AtSpeed(b, hostSpeed) /\ Has(b, Len(a), "address", 0, WordBytes, hostSpeed)
        BY <1>0, <1>1, FieldKinds, AddField
    <2> HIDE DEF b
    <2> QED BY <1>0, <1>1, <2>1
<1>3. /\ Has(b, 0, "INIT_EXTRAM", 0, 1, hostSpeed)
    <2>1. Has(b, 0, "INIT_EXTRAM", 0, 1, hostSpeed)
        <3>1. 0 \in Nat /\ 1 \in Nat /\ 0 + 1 <= Len(a)
            BY <1>0, <1>1
        <3> QED BY <1>0, <1>1, <3>1, FieldKinds, KeepField
    <2> QED BY <2>1
<1> HIDE DEF b
<1> DEFINE c == b \o Field("size", ExtramSize, WordBytes)
<1>4. c \in Seq(Bytes) /\ Len(c) = 1 + WordBytes + WordBytes /\ AtSpeed(c, hostSpeed) /\ Has(c, 1 + WordBytes, "size", ExtramSize, WordBytes, hostSpeed)
    <2>1. c \in Seq(Bytes) /\ Len(c) = Len(b) + WordBytes /\ AtSpeed(c, hostSpeed) /\ Has(c, Len(b), "size", ExtramSize, WordBytes, hostSpeed)
        BY <1>0, <1>2, <1>3, FieldKinds, AddField
    <2> HIDE DEF c
    <2> QED BY <1>0, <1>2, <1>3, <2>1
<1>5. /\ Has(c, 0, "INIT_EXTRAM", 0, 1, hostSpeed)
      /\ Has(c, 1, "address", 0, WordBytes, hostSpeed)
    <2>1. Has(c, 0, "INIT_EXTRAM", 0, 1, hostSpeed)
        <3>1. 0 \in Nat /\ 1 \in Nat /\ 0 + 1 <= Len(b)
            BY <1>0, <1>2, <1>3
        <3> QED BY <1>0, <1>2, <1>3, <3>1, FieldKinds, KeepField
    <2>2. Has(c, 1, "address", 0, WordBytes, hostSpeed)
        <3>1. 1 \in Nat /\ WordBytes \in Nat /\ 1 + WordBytes <= Len(b)
            BY <1>0, <1>2, <1>3
        <3> QED BY <1>0, <1>2, <1>3, <3>1, FieldKinds, KeepField
    <2> QED BY <2>1, <2>2
<1> HIDE DEF c
<1>6. ExtramRequest = c
    BY DEF ExtramRequest, Word, a, b, c
<1> QED BY <1>4, <1>5, <1>6

\* The request of a block as it is.
LEMMA RawFields ==
    ASSUME hostSpeed \in Words, NEW k \in 1 .. Blocks
    PROVE  LET r == RawRequest(k)
           IN  /\ r \in Seq(Bytes) /\ Len(r) = 1 + WordBytes + WordBytes + BlockSize + WordBytes /\ AtSpeed(r, hostSpeed)
               /\ Has(r, 0, "RAM_WRITE", 0, 1, hostSpeed)
               /\ Has(r, 1, "address", k, WordBytes, hostSpeed)
               /\ Has(r, 1 + WordBytes, "size", BlockSize, WordBytes, hostSpeed)
               /\ Has(r, 1 + WordBytes + WordBytes, "data", k, BlockSize, hostSpeed)
               /\ Has(r, 1 + WordBytes + WordBytes + BlockSize, "crc", k, WordBytes, hostSpeed)
<1>0. k \in Words /\ 0 \in Words /\ BlockSize \in Words /\ WordBytes \in Nat /\ BlockSize \in Nat
    BY WordsFact, ConstantsFact
<1> DEFINE a == Field("RAM_WRITE", 0, 1)
<1>1. a \in Seq(Bytes) /\ Len(a) = 1 /\ AtSpeed(a, hostSpeed) /\ Has(a, 0, "RAM_WRITE", 0, 1, hostSpeed)
    BY <1>0, FieldKinds, FirstField
<1> HIDE DEF a
<1> DEFINE b == a \o Field("address", k, WordBytes)
<1>2. b \in Seq(Bytes) /\ Len(b) = 1 + WordBytes /\ AtSpeed(b, hostSpeed) /\ Has(b, 1, "address", k, WordBytes, hostSpeed)
    <2>1. b \in Seq(Bytes) /\ Len(b) = Len(a) + WordBytes /\ AtSpeed(b, hostSpeed) /\ Has(b, Len(a), "address", k, WordBytes, hostSpeed)
        BY <1>0, <1>1, FieldKinds, AddField
    <2> HIDE DEF b
    <2> QED BY <1>0, <1>1, <2>1
<1>3. /\ Has(b, 0, "RAM_WRITE", 0, 1, hostSpeed)
    <2>1. Has(b, 0, "RAM_WRITE", 0, 1, hostSpeed)
        <3>1. 0 \in Nat /\ 1 \in Nat /\ 0 + 1 <= Len(a)
            BY <1>0, <1>1
        <3> QED BY <1>0, <1>1, <3>1, FieldKinds, KeepField
    <2> QED BY <2>1
<1> HIDE DEF b
<1> DEFINE c == b \o Field("size", BlockSize, WordBytes)
<1>4. c \in Seq(Bytes) /\ Len(c) = 1 + WordBytes + WordBytes /\ AtSpeed(c, hostSpeed) /\ Has(c, 1 + WordBytes, "size", BlockSize, WordBytes, hostSpeed)
    <2>1. c \in Seq(Bytes) /\ Len(c) = Len(b) + WordBytes /\ AtSpeed(c, hostSpeed) /\ Has(c, Len(b), "size", BlockSize, WordBytes, hostSpeed)
        BY <1>0, <1>2, <1>3, FieldKinds, AddField
    <2> HIDE DEF c
    <2> QED BY <1>0, <1>2, <1>3, <2>1
<1>5. /\ Has(c, 0, "RAM_WRITE", 0, 1, hostSpeed)
      /\ Has(c, 1, "address", k, WordBytes, hostSpeed)
    <2>1. Has(c, 0, "RAM_WRITE", 0, 1, hostSpeed)
        <3>1. 0 \in Nat /\ 1 \in Nat /\ 0 + 1 <= Len(b)
            BY <1>0, <1>2, <1>3
        <3> QED BY <1>0, <1>2, <1>3, <3>1, FieldKinds, KeepField
    <2>2. Has(c, 1, "address", k, WordBytes, hostSpeed)
        <3>1. 1 \in Nat /\ WordBytes \in Nat /\ 1 + WordBytes <= Len(b)
            BY <1>0, <1>2, <1>3
        <3> QED BY <1>0, <1>2, <1>3, <3>1, FieldKinds, KeepField
    <2> QED BY <2>1, <2>2
<1> HIDE DEF c
<1> DEFINE d == c \o Field("data", k, BlockSize)
<1>6. d \in Seq(Bytes) /\ Len(d) = 1 + WordBytes + WordBytes + BlockSize /\ AtSpeed(d, hostSpeed) /\ Has(d, 1 + WordBytes + WordBytes, "data", k, BlockSize, hostSpeed)
    <2>1. d \in Seq(Bytes) /\ Len(d) = Len(c) + BlockSize /\ AtSpeed(d, hostSpeed) /\ Has(d, Len(c), "data", k, BlockSize, hostSpeed)
        BY <1>0, <1>4, <1>5, FieldKinds, AddField
    <2> HIDE DEF d
    <2> QED BY <1>0, <1>4, <1>5, <2>1
<1>7. /\ Has(d, 0, "RAM_WRITE", 0, 1, hostSpeed)
      /\ Has(d, 1, "address", k, WordBytes, hostSpeed)
      /\ Has(d, 1 + WordBytes, "size", BlockSize, WordBytes, hostSpeed)
    <2>1. Has(d, 0, "RAM_WRITE", 0, 1, hostSpeed)
        <3>1. 0 \in Nat /\ 1 \in Nat /\ 0 + 1 <= Len(c)
            BY <1>0, <1>4, <1>5
        <3> QED BY <1>0, <1>4, <1>5, <3>1, FieldKinds, KeepField
    <2>2. Has(d, 1, "address", k, WordBytes, hostSpeed)
        <3>1. 1 \in Nat /\ WordBytes \in Nat /\ 1 + WordBytes <= Len(c)
            BY <1>0, <1>4, <1>5
        <3> QED BY <1>0, <1>4, <1>5, <3>1, FieldKinds, KeepField
    <2>3. Has(d, 1 + WordBytes, "size", BlockSize, WordBytes, hostSpeed)
        <3>1. 1 + WordBytes \in Nat /\ WordBytes \in Nat /\ 1 + WordBytes + WordBytes <= Len(c)
            BY <1>0, <1>4, <1>5
        <3> QED BY <1>0, <1>4, <1>5, <3>1, FieldKinds, KeepField
    <2> QED BY <2>1, <2>2, <2>3
<1> HIDE DEF d
<1> DEFINE e == d \o Field("crc", k, WordBytes)
<1>8. e \in Seq(Bytes) /\ Len(e) = 1 + WordBytes + WordBytes + BlockSize + WordBytes /\ AtSpeed(e, hostSpeed) /\ Has(e, 1 + WordBytes + WordBytes + BlockSize, "crc", k, WordBytes, hostSpeed)
    <2>1. e \in Seq(Bytes) /\ Len(e) = Len(d) + WordBytes /\ AtSpeed(e, hostSpeed) /\ Has(e, Len(d), "crc", k, WordBytes, hostSpeed)
        BY <1>0, <1>6, <1>7, FieldKinds, AddField
    <2> HIDE DEF e
    <2> QED BY <1>0, <1>6, <1>7, <2>1
<1>9. /\ Has(e, 0, "RAM_WRITE", 0, 1, hostSpeed)
      /\ Has(e, 1, "address", k, WordBytes, hostSpeed)
      /\ Has(e, 1 + WordBytes, "size", BlockSize, WordBytes, hostSpeed)
      /\ Has(e, 1 + WordBytes + WordBytes, "data", k, BlockSize, hostSpeed)
    <2>1. Has(e, 0, "RAM_WRITE", 0, 1, hostSpeed)
        <3>1. 0 \in Nat /\ 1 \in Nat /\ 0 + 1 <= Len(d)
            BY <1>0, <1>6, <1>7
        <3> QED BY <1>0, <1>6, <1>7, <3>1, FieldKinds, KeepField
    <2>2. Has(e, 1, "address", k, WordBytes, hostSpeed)
        <3>1. 1 \in Nat /\ WordBytes \in Nat /\ 1 + WordBytes <= Len(d)
            BY <1>0, <1>6, <1>7
        <3> QED BY <1>0, <1>6, <1>7, <3>1, FieldKinds, KeepField
    <2>3. Has(e, 1 + WordBytes, "size", BlockSize, WordBytes, hostSpeed)
        <3>1. 1 + WordBytes \in Nat /\ WordBytes \in Nat /\ 1 + WordBytes + WordBytes <= Len(d)
            BY <1>0, <1>6, <1>7
        <3> QED BY <1>0, <1>6, <1>7, <3>1, FieldKinds, KeepField
    <2>4. Has(e, 1 + WordBytes + WordBytes, "data", k, BlockSize, hostSpeed)
        <3>1. 1 + WordBytes + WordBytes \in Nat /\ BlockSize \in Nat /\ 1 + WordBytes + WordBytes + BlockSize <= Len(d)
            BY <1>0, <1>6, <1>7
        <3> QED BY <1>0, <1>6, <1>7, <3>1, FieldKinds, KeepField
    <2> QED BY <2>1, <2>2, <2>3, <2>4
<1> HIDE DEF e
<1>10. RawRequest(k) = e
    BY DEF RawRequest, Word, a, b, c, d, e
<1> QED BY <1>8, <1>9, <1>10

\* The request of a compressed block.
LEMMA PackedFields ==
    ASSUME hostSpeed \in Words, NEW k \in 1 .. Blocks
    PROVE  LET r == PackedRequest(k)
           IN  /\ r \in Seq(Bytes) /\ Len(r) = 1 + WordBytes + WordBytes + WordBytes + PackedSize + WordBytes /\ AtSpeed(r, hostSpeed)
               /\ Has(r, 0, "WRITE_RAM_LZ4", 0, 1, hostSpeed)
               /\ Has(r, 1, "address", k, WordBytes, hostSpeed)
               /\ Has(r, 1 + WordBytes, "size", PackedSize, WordBytes, hostSpeed)
               /\ Has(r, 1 + WordBytes + WordBytes, "size", BlockSize, WordBytes, hostSpeed)
               /\ Has(r, 1 + WordBytes + WordBytes + WordBytes, "packed", k, PackedSize, hostSpeed)
               /\ Has(r, 1 + WordBytes + WordBytes + WordBytes + PackedSize, "crc", k, WordBytes, hostSpeed)
<1>0. k \in Words /\ 0 \in Words /\ BlockSize \in Words /\ PackedSize \in Words /\ WordBytes \in Nat /\ PackedSize \in Nat
    BY WordsFact, ConstantsFact
<1> DEFINE a == Field("WRITE_RAM_LZ4", 0, 1)
<1>1. a \in Seq(Bytes) /\ Len(a) = 1 /\ AtSpeed(a, hostSpeed) /\ Has(a, 0, "WRITE_RAM_LZ4", 0, 1, hostSpeed)
    BY <1>0, FieldKinds, FirstField
<1> HIDE DEF a
<1> DEFINE b == a \o Field("address", k, WordBytes)
<1>2. b \in Seq(Bytes) /\ Len(b) = 1 + WordBytes /\ AtSpeed(b, hostSpeed) /\ Has(b, 1, "address", k, WordBytes, hostSpeed)
    <2>1. b \in Seq(Bytes) /\ Len(b) = Len(a) + WordBytes /\ AtSpeed(b, hostSpeed) /\ Has(b, Len(a), "address", k, WordBytes, hostSpeed)
        BY <1>0, <1>1, FieldKinds, AddField
    <2> HIDE DEF b
    <2> QED BY <1>0, <1>1, <2>1
<1>3. /\ Has(b, 0, "WRITE_RAM_LZ4", 0, 1, hostSpeed)
    <2>1. Has(b, 0, "WRITE_RAM_LZ4", 0, 1, hostSpeed)
        <3>1. 0 \in Nat /\ 1 \in Nat /\ 0 + 1 <= Len(a)
            BY <1>0, <1>1
        <3> QED BY <1>0, <1>1, <3>1, FieldKinds, KeepField
    <2> QED BY <2>1
<1> HIDE DEF b
<1> DEFINE c == b \o Field("size", PackedSize, WordBytes)
<1>4. c \in Seq(Bytes) /\ Len(c) = 1 + WordBytes + WordBytes /\ AtSpeed(c, hostSpeed) /\ Has(c, 1 + WordBytes, "size", PackedSize, WordBytes, hostSpeed)
    <2>1. c \in Seq(Bytes) /\ Len(c) = Len(b) + WordBytes /\ AtSpeed(c, hostSpeed) /\ Has(c, Len(b), "size", PackedSize, WordBytes, hostSpeed)
        BY <1>0, <1>2, <1>3, FieldKinds, AddField
    <2> HIDE DEF c
    <2> QED BY <1>0, <1>2, <1>3, <2>1
<1>5. /\ Has(c, 0, "WRITE_RAM_LZ4", 0, 1, hostSpeed)
      /\ Has(c, 1, "address", k, WordBytes, hostSpeed)
    <2>1. Has(c, 0, "WRITE_RAM_LZ4", 0, 1, hostSpeed)
        <3>1. 0 \in Nat /\ 1 \in Nat /\ 0 + 1 <= Len(b)
            BY <1>0, <1>2, <1>3
        <3> QED BY <1>0, <1>2, <1>3, <3>1, FieldKinds, KeepField
    <2>2. Has(c, 1, "address", k, WordBytes, hostSpeed)
        <3>1. 1 \in Nat /\ WordBytes \in Nat /\ 1 + WordBytes <= Len(b)
            BY <1>0, <1>2, <1>3
        <3> QED BY <1>0, <1>2, <1>3, <3>1, FieldKinds, KeepField
    <2> QED BY <2>1, <2>2
<1> HIDE DEF c
<1> DEFINE d == c \o Field("size", BlockSize, WordBytes)
<1>6. d \in Seq(Bytes) /\ Len(d) = 1 + WordBytes + WordBytes + WordBytes /\ AtSpeed(d, hostSpeed) /\ Has(d, 1 + WordBytes + WordBytes, "size", BlockSize, WordBytes, hostSpeed)
    <2>1. d \in Seq(Bytes) /\ Len(d) = Len(c) + WordBytes /\ AtSpeed(d, hostSpeed) /\ Has(d, Len(c), "size", BlockSize, WordBytes, hostSpeed)
        BY <1>0, <1>4, <1>5, FieldKinds, AddField
    <2> HIDE DEF d
    <2> QED BY <1>0, <1>4, <1>5, <2>1
<1>7. /\ Has(d, 0, "WRITE_RAM_LZ4", 0, 1, hostSpeed)
      /\ Has(d, 1, "address", k, WordBytes, hostSpeed)
      /\ Has(d, 1 + WordBytes, "size", PackedSize, WordBytes, hostSpeed)
    <2>1. Has(d, 0, "WRITE_RAM_LZ4", 0, 1, hostSpeed)
        <3>1. 0 \in Nat /\ 1 \in Nat /\ 0 + 1 <= Len(c)
            BY <1>0, <1>4, <1>5
        <3> QED BY <1>0, <1>4, <1>5, <3>1, FieldKinds, KeepField
    <2>2. Has(d, 1, "address", k, WordBytes, hostSpeed)
        <3>1. 1 \in Nat /\ WordBytes \in Nat /\ 1 + WordBytes <= Len(c)
            BY <1>0, <1>4, <1>5
        <3> QED BY <1>0, <1>4, <1>5, <3>1, FieldKinds, KeepField
    <2>3. Has(d, 1 + WordBytes, "size", PackedSize, WordBytes, hostSpeed)
        <3>1. 1 + WordBytes \in Nat /\ WordBytes \in Nat /\ 1 + WordBytes + WordBytes <= Len(c)
            BY <1>0, <1>4, <1>5
        <3> QED BY <1>0, <1>4, <1>5, <3>1, FieldKinds, KeepField
    <2> QED BY <2>1, <2>2, <2>3
<1> HIDE DEF d
<1> DEFINE e == d \o Field("packed", k, PackedSize)
<1>8. e \in Seq(Bytes) /\ Len(e) = 1 + WordBytes + WordBytes + WordBytes + PackedSize /\ AtSpeed(e, hostSpeed) /\ Has(e, 1 + WordBytes + WordBytes + WordBytes, "packed", k, PackedSize, hostSpeed)
    <2>1. e \in Seq(Bytes) /\ Len(e) = Len(d) + PackedSize /\ AtSpeed(e, hostSpeed) /\ Has(e, Len(d), "packed", k, PackedSize, hostSpeed)
        BY <1>0, <1>6, <1>7, FieldKinds, AddField
    <2> HIDE DEF e
    <2> QED BY <1>0, <1>6, <1>7, <2>1
<1>9. /\ Has(e, 0, "WRITE_RAM_LZ4", 0, 1, hostSpeed)
      /\ Has(e, 1, "address", k, WordBytes, hostSpeed)
      /\ Has(e, 1 + WordBytes, "size", PackedSize, WordBytes, hostSpeed)
      /\ Has(e, 1 + WordBytes + WordBytes, "size", BlockSize, WordBytes, hostSpeed)
    <2>1. Has(e, 0, "WRITE_RAM_LZ4", 0, 1, hostSpeed)
        <3>1. 0 \in Nat /\ 1 \in Nat /\ 0 + 1 <= Len(d)
            BY <1>0, <1>6, <1>7
        <3> QED BY <1>0, <1>6, <1>7, <3>1, FieldKinds, KeepField
    <2>2. Has(e, 1, "address", k, WordBytes, hostSpeed)
        <3>1. 1 \in Nat /\ WordBytes \in Nat /\ 1 + WordBytes <= Len(d)
            BY <1>0, <1>6, <1>7
        <3> QED BY <1>0, <1>6, <1>7, <3>1, FieldKinds, KeepField
    <2>3. Has(e, 1 + WordBytes, "size", PackedSize, WordBytes, hostSpeed)
        <3>1. 1 + WordBytes \in Nat /\ WordBytes \in Nat /\ 1 + WordBytes + WordBytes <= Len(d)
            BY <1>0, <1>6, <1>7
        <3> QED BY <1>0, <1>6, <1>7, <3>1, FieldKinds, KeepField
    <2>4. Has(e, 1 + WordBytes + WordBytes, "size", BlockSize, WordBytes, hostSpeed)
        <3>1. 1 + WordBytes + WordBytes \in Nat /\ WordBytes \in Nat /\ 1 + WordBytes + WordBytes + WordBytes <= Len(d)
            BY <1>0, <1>6, <1>7
        <3> QED BY <1>0, <1>6, <1>7, <3>1, FieldKinds, KeepField
    <2> QED BY <2>1, <2>2, <2>3, <2>4
<1> HIDE DEF e
<1> DEFINE f == e \o Field("crc", k, WordBytes)
<1>10. f \in Seq(Bytes) /\ Len(f) = 1 + WordBytes + WordBytes + WordBytes + PackedSize + WordBytes /\ AtSpeed(f, hostSpeed) /\ Has(f, 1 + WordBytes + WordBytes + WordBytes + PackedSize, "crc", k, WordBytes, hostSpeed)
    <2>1. f \in Seq(Bytes) /\ Len(f) = Len(e) + WordBytes /\ AtSpeed(f, hostSpeed) /\ Has(f, Len(e), "crc", k, WordBytes, hostSpeed)
        BY <1>0, <1>8, <1>9, FieldKinds, AddField
    <2> HIDE DEF f
    <2> QED BY <1>0, <1>8, <1>9, <2>1
<1>11. /\ Has(f, 0, "WRITE_RAM_LZ4", 0, 1, hostSpeed)
      /\ Has(f, 1, "address", k, WordBytes, hostSpeed)
      /\ Has(f, 1 + WordBytes, "size", PackedSize, WordBytes, hostSpeed)
      /\ Has(f, 1 + WordBytes + WordBytes, "size", BlockSize, WordBytes, hostSpeed)
      /\ Has(f, 1 + WordBytes + WordBytes + WordBytes, "packed", k, PackedSize, hostSpeed)
    <2>1. Has(f, 0, "WRITE_RAM_LZ4", 0, 1, hostSpeed)
        <3>1. 0 \in Nat /\ 1 \in Nat /\ 0 + 1 <= Len(e)
            BY <1>0, <1>8, <1>9
        <3> QED BY <1>0, <1>8, <1>9, <3>1, FieldKinds, KeepField
    <2>2. Has(f, 1, "address", k, WordBytes, hostSpeed)
        <3>1. 1 \in Nat /\ WordBytes \in Nat /\ 1 + WordBytes <= Len(e)
            BY <1>0, <1>8, <1>9
        <3> QED BY <1>0, <1>8, <1>9, <3>1, FieldKinds, KeepField
    <2>3. Has(f, 1 + WordBytes, "size", PackedSize, WordBytes, hostSpeed)
        <3>1. 1 + WordBytes \in Nat /\ WordBytes \in Nat /\ 1 + WordBytes + WordBytes <= Len(e)
            BY <1>0, <1>8, <1>9
        <3> QED BY <1>0, <1>8, <1>9, <3>1, FieldKinds, KeepField
    <2>4. Has(f, 1 + WordBytes + WordBytes, "size", BlockSize, WordBytes, hostSpeed)
        <3>1. 1 + WordBytes + WordBytes \in Nat /\ WordBytes \in Nat /\ 1 + WordBytes + WordBytes + WordBytes <= Len(e)
            BY <1>0, <1>8, <1>9
        <3> QED BY <1>0, <1>8, <1>9, <3>1, FieldKinds, KeepField
    <2>5. Has(f, 1 + WordBytes + WordBytes + WordBytes, "packed", k, PackedSize, hostSpeed)
        <3>1. 1 + WordBytes + WordBytes + WordBytes \in Nat /\ PackedSize \in Nat /\ 1 + WordBytes + WordBytes + WordBytes + PackedSize <= Len(e)
            BY <1>0, <1>8, <1>9
        <3> QED BY <1>0, <1>8, <1>9, <3>1, FieldKinds, KeepField
    <2> QED BY <2>1, <2>2, <2>3, <2>4, <2>5
<1> HIDE DEF f
<1>12. PackedRequest(k) = f
    BY DEF PackedRequest, Word, a, b, c, d, e, f
<1> QED BY <1>10, <1>11, <1>12

-----------------------------------------------------------------------------
\* Every step keeps LinkInv.

\* A byte that moves from the line to the FIFO, or from there to the reader, changes
\* nothing that LinkInv is about.
LEMMA Steady ==
    ASSUME TypeInv, LinkInv, Pend' = Pend, SameSpeed => SameSpeed',
           UNCHANGED <<host, up, stage, command, args, deviceSpeed, extram, ram, entry, line>>,
           got' = got \/ stage \in {"word", "raw", "packed", "crc"},
           Len(wire') <= Len(wire), Len(wire') \in Nat, wire' # <<>> => wire # <<>>,
           wire = <<>> /\ fifo = <<>> => wire' = <<>> /\ fifo' = <<>>
    PROVE  LinkInv'
<1>1. UNCHANGED <<phase, waiting, block, speed, hostSpeed, faults, blind, overrun>>
    BY DEF host, line
<1>2. UNCHANGED <<up, stage, command, args, deviceSpeed, extram, ram, entry>>
    OBVIOUS
<1>3. /\ \A s : Reply(s) => Reply(s)'
      /\ Idle => Idle'
      /\ Free => Free'
      /\ Asked => Asked'
      /\ \A c : AtWord(c) => AtWord(c)'
      /\ AtCommand => AtCommand'
      /\ Settled => Settled'
      /\ Loaded(block - 1) => Loaded(block - 1)'
      /\ Loaded(block) => Loaded(block)'
      /\ Loaded(Blocks) => Loaded(Blocks)'
    <2>1. (\A s : Reply(s) => Reply(s)') /\ (Idle => Idle') /\ (Asked => Asked') /\ (\A c : AtWord(c) => AtWord(c)')
        BY <1>1, <1>2 DEF Reply, Idle, Asked, AtWord
    <2>2. Free => Free'
        BY <1>1, <1>2 DEF Free, Idle
    <2>3. AtCommand => AtCommand'
        BY <1>2 DEF AtCommand
    <2>4. Settled => Settled'
        BY <1>1, <1>2 DEF Settled
    <2>5. /\ Loaded(block - 1) => Loaded(block - 1)'
          /\ Loaded(block) => Loaded(block)'
          /\ Loaded(Blocks) => Loaded(Blocks)'
        BY <1>1, <1>2 DEF Loaded, Block, Intact
    <2> QED BY <2>1, <2>2, <2>3, <2>4, <2>5
<1>4. CASE Readying
    <2>1. Readying'
        BY <1>1, <1>2, <1>3, <1>4 DEF Readying, BootSpeed
    <2> QED BY <1>1, <2>1 DEF LinkInv
<1>5. CASE Choosing
    <2>1. Choosing'
        BY <1>1, <1>2, <1>3, <1>5 DEF Choosing, BootSpeed
    <2> QED BY <1>1, <2>1 DEF LinkInv
<1>6. CASE Switching
    <2>1. SpeedPlace'
        BY <1>1, <1>2, <1>3, <1>6 DEF Switching, SpeedPlace, BootSpeed, Pings, HasField, HasWord, AtCommand, AtWord
    <2>2. Pings' = Pings /\ Pings \in Nat
        BY <1>1 DEF Pings
    <2>3. Len(wire) \in Nat
        BY PendFact
    <2>4. Len(wire) <= Pings => Len(wire') <= Pings'
        BY <2>2, <2>3
    <2>5. Switching'
        BY <1>1, <1>2, <1>6, <2>1, <2>4 DEF Switching, BootSpeed
    <2> QED BY <1>1, <2>5 DEF LinkInv
<1>7. CASE Pinging
    <2>1. Pinging'
        BY <1>1, <1>2, <1>3, <1>7 DEF Pinging, HasField
    <2> QED BY <1>1, <2>1 DEF LinkInv
<1>8. CASE Extending
    <2>1. ExtramPlace => ExtramPlace'
        BY <1>1, <1>2, <1>3 DEF ExtramPlace, HasField, HasWord, ExtramSize
    <2>2. Extending'
        BY <1>1, <1>2, <1>3, <1>8, <2>1 DEF Extending
    <2> QED BY <1>1, <2>2 DEF LinkInv
<1>9. CASE Writing
    <2>1. \A start, kind, size : Rest(start, kind, size) => Rest(start, kind, size)'
        BY <1>1, <1>2 DEF Rest, HasField, HasWord
    <2>2. RawPlace => RawPlace'
        BY <1>1, <1>2, <1>3, <2>1 DEF RawPlace, HasField, HasWord
    <2>3. PackedPlace => PackedPlace'
        BY <1>1, <1>2, <1>3, <2>1 DEF PackedPlace, HasField, HasWord
    <2>4. CrcPlace => CrcPlace'
        BY <1>1, <1>2, <1>3 DEF CrcPlace, HasField, HasWord
    <2>5. Writing'
        BY <1>1, <1>2, <1>3, <1>9, <2>2, <2>3, <2>4 DEF Writing
    <2> QED BY <1>1, <2>5 DEF LinkInv
<1>10. CASE Jumping
    <2>1. GotoPlace => GotoPlace'
        BY <1>1, <1>2, <1>3 DEF GotoPlace, HasField, HasWord, Exec
    <2>2. Started => Started'
        BY <1>2, <1>3 DEF Started, Exec
    <2>3. Jumping'
        BY <1>1, <1>2, <1>3, <1>10, <2>1, <2>2 DEF Jumping
    <2> QED BY <1>1, <2>3 DEF LinkInv
<1>11. CASE Forwarding
    <2>1. Started'
        BY <1>2, <1>3, <1>11 DEF Forwarding, Started, Exec
    <2> QED BY <1>1, <1>11, <2>1 DEF Forwarding, LinkInv
<1>12. CASE GivenUp
    <2>1. GivenUp'
        BY <1>1, <1>2, <1>12 DEF GivenUp
    <2> QED BY <1>1, <2>1 DEF LinkInv
<1> QED BY <1>4, <1>5, <1>6, <1>7, <1>8, <1>9, <1>10, <1>11, <1>12 DEF LinkInv

\* While bytes are on the line the phone listens; when it does not look at its FIFO, all
\* that is still to come fits in it: a block's CRC.
LEMMA RoomOnTheLine ==
    ASSUME TypeInv, LinkInv, wire # <<>>
    PROVE  /\ Listening /\ (Computing => HasRoom(fifo)) /\ stage # "discard"
           /\ SameSpeed \/ (Switching /\ phase = "ping")
<1>1. /\ Len(wire) \in Nat /\ Len(wire) >= 1 /\ Pend # <<>> /\ Len(got) \in Nat /\ Len(fifo) \in Nat
      /\ Len(Pend) = Len(got) + Len(fifo) + Len(wire)
    <2>1. Len(wire) # 0 /\ Pend # <<>>
        BY PendEmpty
    <2> QED BY <2>1, PendFact
<1>2. ~Readying /\ ~Choosing /\ ~Forwarding /\ ~GivenUp /\ ~Idle /\ ~Started
    BY <1>1 DEF Readying, Choosing, Free, Idle, Forwarding, Started, GivenUp
<1>3. CASE Switching
    <2>1. stage \in {"command", "word", "await_ping"}
        BY <1>1, <1>3 DEF Switching, SpeedPlace, AtCommand, AtWord
    <2> QED BY <1>3, <2>1 DEF Switching, Listening, Computing
<1>4. CASE Pinging
    BY <1>4 DEF Pinging, AtCommand, Settled, Listening, Computing
<1>5. CASE Extending
    BY <1>2, <1>5 DEF Extending, Free, ExtramPlace, AtCommand, AtWord, Settled, Listening, Computing
<1>6. CASE Writing
    <2>1. SameSpeed /\ (RawPlace \/ PackedPlace \/ CrcPlace)
        BY <1>2, <1>6 DEF Writing, Free, Settled
    <2>2. CASE RawPlace
        BY <2>1, <2>2 DEF RawPlace, AtCommand, AtWord, Listening, Computing
    <2>3. CASE PackedPlace
        <3>1. stage \in {"command", "word", "packed", "decompress"}
            BY <2>3 DEF PackedPlace, AtCommand, AtWord
        <3>2. CASE stage # "decompress"
            BY <2>1, <3>1, <3>2 DEF Listening, Computing
        <3>3. CASE stage = "decompress"
            <4>1. Len(Pend) = 0 + PackedSize + WordBytes /\ Len(got) = PackedSize
                BY <2>3, <3>3 DEF PackedPlace, AtCommand, AtWord, Rest
            <4>2. Len(fifo) < FifoSize
                BY <1>1, <4>1, ConstantsFact
            <4> QED BY <2>1, <3>3, <4>2 DEF Listening, HasRoom
        <3> QED BY <3>2, <3>3
    <2>4. CASE CrcPlace
        <3>1. stage \in {"crc", "check"} /\ Len(Pend) = WordBytes /\ (stage = "check" => Len(got) = WordBytes)
            BY <2>4 DEF CrcPlace
        <3>2. stage # "check"
            BY <1>1, <3>1, ConstantsFact
        <3> QED BY <2>1, <3>1, <3>2 DEF Listening, Computing
    <2> QED BY <2>1, <2>2, <2>3, <2>4
<1>7. CASE Jumping
    BY <1>2, <1>7 DEF Jumping, Free, GotoPlace, AtCommand, AtWord, Settled, Listening, Computing
<1> QED BY <1>2, <1>3, <1>4, <1>5, <1>6, <1>7 DEF LinkInv

\* The phone is never made to read a block away.
LEMMA NeverDiscards == ASSUME LinkInv PROVE stage # "discard"
<1>1. CASE Switching
    BY <1>1 DEF Switching, SpeedPlace, AtCommand, AtWord
<1>2. CASE Writing
    BY <1>2 DEF Writing, Free, Idle, RawPlace, PackedPlace, CrcPlace, AtCommand, AtWord
<1>3. CASE Extending \/ Jumping
    BY <1>3 DEF Extending, Jumping, Free, Idle, ExtramPlace, GotoPlace, AtCommand, AtWord, Started
<1> QED BY <1>1, <1>2, <1>3 DEF LinkInv, Readying, Choosing, Free, Idle, Pinging, AtCommand, Forwarding, Started, GivenUp

\* usart_read takes a byte.
LEMMA TakeByteKeeps ==
    ASSUME TypeInv, LinkInv, TakeByte
    PROVE  LinkInv'
<1>1. /\ UNCHANGED <<host, up, stage, command, args, deviceSpeed, extram, ram, entry, line>>
      /\ wire' = wire /\ fifo # <<>> /\ stage \in {"word", "raw", "packed", "discard", "crc"}
    BY DEF TakeByte
<1>2. Pend' = Pend
    BY TakeByteStream
<1>3. SameSpeed => SameSpeed'
    BY <1>1 DEF SameSpeed
<1>4. Len(wire') <= Len(wire) /\ Len(wire') \in Nat
    BY <1>1, PendFact
<1> QED BY <1>1, <1>2, <1>3, <1>4, NeverDiscards, Steady

\* A byte arrives.
LEMMA ArriveKeeps ==
    ASSUME TypeInv, TypeInv', LinkInv, Arrive
    PROVE  LinkInv'
<1>1. wire # <<>> /\ MayArrive
    BY DEF Arrive, MayArrive
<1>2. Listening /\ HasRoom(fifo)
    BY <1>1, RoomOnTheLine DEF MayArrive
<1>3. CASE SameSpeed
    <2>1. /\ Pend' = Pend /\ SameSpeed' /\ UNCHANGED <<host, up, device, line>>
          /\ Len(wire') <= Len(wire) /\ (wire' # <<>> => wire # <<>>)
        BY <1>2, <1>3, ArriveStream
    <2>2. UNCHANGED <<stage, command, args, got, deviceSpeed, extram, ram, entry>>
        BY <2>1 DEF device
    <2>3. Len(wire') \in Nat
        BY PendNext
    <2> QED BY <1>1, <2>1, <2>2, <2>3, Steady
<1>4. CASE Switching /\ phase = "ping"
    <2>1. /\ UNCHANGED <<phase, waiting, block, speed, hostSpeed>> /\ up' = up
          /\ UNCHANGED <<stage, command, args, got, deviceSpeed, extram, ram, entry>>
          /\ faults' = faults /\ blind' = blind /\ overrun' = overrun
          /\ wire' = Tail(wire) /\ fifo' = Append(fifo, Received(Head(wire)))
        BY <1>2 DEF Arrive, Deliver, host, device
    <2>2. up = <<>> /\ SpeedPlace /\ hostSpeed = speed /\ Len(wire) <= Pings
        BY <1>4 DEF Switching
    <2>3. /\ wire \in Seq(Bytes) /\ fifo \in Seq(Bytes) /\ deviceSpeed \in Words
        BY DEF TypeInv, TypeOK
    <2>4. Len(wire) \in Nat /\ Len(wire) >= 1 /\ Len(Tail(wire)) = Len(wire) - 1 /\ Head(wire) \in Bytes
        BY <1>1, <2>3, TailFact
    <2>5. waiting /\ Pings = 1 /\ Len(wire) = 1 /\ Len(wire') = 0
        <3>1. Pings = 1 \/ Pings = 0
            BY DEF Pings
        <3>2. Pings = 1 /\ Len(wire) = 1
            BY <2>2, <2>4, <3>1
        <3>3. waiting
            BY <3>2 DEF Pings
        <3> QED BY <2>1, <2>4, <3>2, <3>3
    <2> DEFINE byte == Received(Head(wire))
    <2>6. byte \in Bytes
        BY <2>3, <2>4, JunkType
    <2> HIDE DEF byte
    <2>7. Len(fifo) \in Nat /\ Len(fifo') = Len(fifo) + 1 /\ \A i \in 1 .. Len(fifo) : fifo'[i] = fifo[i]
        BY <2>1, <2>3, <2>6, AppendFact DEF byte
    <2>8. Len(Pend') = Len(Pend) /\ Len(Pend) \in Nat /\ Len(Pend) = Len(got) + Len(fifo) + 1 /\ Len(got) \in Nat
        <3>1. Len(Pend) = Len(got) + Len(fifo) + 1 /\ Len(got) \in Nat
            BY <2>5, PendFact
        <3>2. Len(Pend') = Len(got) + (Len(fifo) + 1) + 0
            BY <2>1, <2>5, <2>7, PendNext
        <3> QED BY <2>7, <3>1, <3>2
    <2>9. ASSUME NEW i \in 1 .. Len(Pend) - 1 PROVE Pend'[i] = Pend[i]
        <3>1. CASE i <= Len(got)
            <4>1. i \in 1 .. Len(got) /\ i \in 1 .. Len(got')
                BY <2>1, <2>8, <3>1
            <4> QED BY <2>1, <4>1, PendFact, PendNext
        <3>2. CASE i > Len(got)
            <4> DEFINE j == i - Len(got)
            <4>1. j \in 1 .. Len(fifo) /\ j \in 1 .. Len(fifo') /\ Len(got) + j = i /\ Len(got') + j = i
                BY <2>1, <2>7, <2>8, <3>2
            <4> HIDE DEF j
            <4>2. Pend[Len(got) + j] = fifo[j]
                BY <4>1, PendFact
            <4>3. Pend'[Len(got') + j] = fifo'[j]
                BY <4>1, PendNext
            <4> QED BY <2>7, <4>1, <4>2, <4>3
        <3> QED BY <2>8, <3>1, <3>2
    <2>10. ASSUME NEW start \in Nat, NEW size \in Nat, start + size < Len(Pend), NEW kind, NEW value, NEW baud,
                  Has(Pend, start, kind, value, size, baud)
           PROVE  Has(Pend', start, kind, value, size, baud)
        <3> SUFFICES ASSUME NEW k \in 1 .. size PROVE Pend'[start + k] = ByteAt(kind, value, k, baud)
            BY DEF Has
        <3>1. start + k \in 1 .. Len(Pend) - 1
            BY <2>8, <2>10
        <3> QED BY <2>9, <2>10, <3>1 DEF Has
    <2>11. Pings' = Pings /\ Pings' = 1
        BY <2>1, <2>5 DEF Pings
    <2>12. SpeedPlace'
        <3>1. CASE stage = "command"
            <4>1. /\ AtCommand /\ deviceSpeed = BootSpeed /\ Len(Pend) = 1 + WordBytes + 1
                  /\ Has(Pend, 0, "SET_SPEED", 0, 1, BootSpeed) /\ Has(Pend, 1, "speed", speed, WordBytes, BootSpeed)
                BY <2>2, <2>5, <3>1 DEF SpeedPlace, AtWord, HasField, HasWord
            <4>2. /\ 0 + 1 < Len(Pend) /\ 1 + WordBytes < Len(Pend) /\ WordBytes \in Nat
                BY <4>1, ConstantsFact
            <4>3. /\ Has(Pend', 0, "SET_SPEED", 0, 1, BootSpeed)
                  /\ Has(Pend', 1, "speed", speed, WordBytes, BootSpeed)
                BY <2>10, <4>1, <4>2
            <4> QED BY <2>1, <2>8, <2>11, <4>1, <4>3 DEF SpeedPlace, AtCommand, HasField, HasWord, BootSpeed
        <3>2. CASE stage = "word"
            <4>1. /\ AtWord("SET_SPEED") /\ args = <<>> /\ deviceSpeed = BootSpeed /\ Len(Pend) = WordBytes + 1
                  /\ Has(Pend, 0, "speed", speed, WordBytes, BootSpeed)
                BY <2>2, <2>5, <3>2 DEF SpeedPlace, AtCommand, HasField, HasWord
            <4>2. 0 + WordBytes < Len(Pend) /\ WordBytes \in Nat
                BY <4>1, ConstantsFact
            <4>3. Has(Pend', 0, "speed", speed, WordBytes, BootSpeed)
                BY <2>10, <4>1, <4>2
            <4> QED BY <2>1, <2>8, <2>11, <4>1, <4>3 DEF SpeedPlace, AtWord, HasField, HasWord, BootSpeed
        <3>3. CASE stage = "await_ping"
            <4>1. args = <<>> /\ got = <<>> /\ deviceSpeed = speed /\ Len(Pend) <= Pings
                BY <2>2, <3>3 DEF SpeedPlace, AtCommand, AtWord
            <4> QED BY <2>1, <2>8, <2>11, <3>3, <4>1 DEF SpeedPlace
        <3>4. stage # "reset"
            BY <1>2 DEF Listening
        <3> QED BY <2>2, <3>1, <3>2, <3>3, <3>4 DEF SpeedPlace, AtCommand, AtWord
    <2>13. Len(wire') <= Pings'
        BY <2>5, <2>11
    <2>14. Switching'
        BY <1>4, <2>1, <2>2, <2>12, <2>13 DEF Switching
    <2> QED BY <2>1, <2>14 DEF LinkInv
<1> QED BY <1>1, <1>3, <1>4, RoomOnTheLine

\* A status sent when none is on its way.
LEMMA PutReply ==
    ASSUME NEW s, up = <<>>, Put(s), deviceSpeed' = deviceSpeed
    PROVE  Reply(s)'
BY DEF Put, Reply

\* The preloader says that it is ready.
LEMMA StartKeeps ==
    ASSUME TypeInv, LinkInv, Start
    PROVE  LinkInv'
<1>1. /\ UNCHANGED <<phase, waiting, block, speed, hostSpeed, wire, fifo, deviceSpeed, faults, blind, overrun>>
      /\ stage = "start" /\ stage' = "command" /\ args' = <<>> /\ got' = <<>> /\ Put("READY")
    BY DEF Start, ToCommand, host, line
<1>2. Readying
    <2>1. ~Switching /\ ~Pinging /\ ~Choosing
        BY <1>1 DEF Switching, SpeedPlace, AtCommand, AtWord, Pinging, Choosing, Free, Idle
    <2>2. ~Extending /\ ~Jumping /\ ~Forwarding /\ ~GivenUp
        BY <1>1 DEF Extending, ExtramPlace, AtCommand, AtWord, Free, Idle, Jumping, GotoPlace, Started, Forwarding, GivenUp
    <2>3. ~Writing
        BY <1>1 DEF Writing, Free, Idle, RawPlace, PackedPlace, CrcPlace, AtCommand, AtWord
    <2> QED BY <2>1, <2>2, <2>3 DEF LinkInv
<1>3. up = <<>> /\ Pend = <<>>
    BY <1>1, <1>2 DEF Readying
<1>4. Pend' = <<>>
    BY <1>1, <1>3, PendEmpty DEF Pend
<1>5. Reply("READY")'
    BY <1>1, <1>3, PutReply
<1>6. Readying'
    BY <1>1, <1>2, <1>4, <1>5 DEF Readying, BootSpeed
<1> QED BY <1>1, <1>6 DEF LinkInv

\* A ping, as the host sends it.
LEMMA PingFields ==
    ASSUME hostSpeed \in Words
    PROVE  LET r == PingRequest
           IN  r \in Seq(Bytes) /\ Len(r) = 1 /\ AtSpeed(r, hostSpeed) /\ Has(r, 0, "PING", 0, 1, hostSpeed)
<1>1. 0 \in Words
    BY WordsFact
<1> QED BY <1>1, FieldKinds, FirstField DEF PingRequest

\* The speed stays: only a ping.
LEMMA KeepSpeedKeeps ==
    ASSUME TypeInv, LinkInv, KeepSpeed
    PROVE  LinkInv'
<1>1. /\ UNCHANGED <<block, speed, hostSpeed, fifo, up, stage, command, args, got, deviceSpeed, faults, blind, overrun>>
      /\ phase = "speed" /\ phase' = "ping" /\ waiting' = TRUE /\ speed = hostSpeed /\ wire' = wire \o PingRequest
    BY DEF KeepSpeed, device, line
<1>2. Choosing
    BY <1>1 DEF LinkInv, Readying, Switching, Pinging, Extending, Writing, Jumping, Forwarding, GivenUp
<1>3. /\ Pend = <<>> /\ stage = "command" /\ args = <<>> /\ up = <<>> /\ deviceSpeed = hostSpeed
    BY <1>2 DEF Choosing, Free, Idle
<1>4. LET r == PingRequest
      IN  r \in Seq(Bytes) /\ Len(r) = 1 /\ AtSpeed(r, hostSpeed) /\ Has(r, 0, "PING", 0, 1, hostSpeed)
    BY PingFields DEF TypeInv, TypeOK
<1> DEFINE r == PingRequest
<1> HIDE DEF r
<1>5. Pend' = r /\ wire' = r /\ got = <<>>
    BY <1>1, <1>3, <1>4, FreshStream DEF r
<1>6. SameSpeed'
    BY <1>1, <1>3, <1>4, <1>5 DEF SameSpeed, AtSpeed, r
<1>7. Len(Pend') = 1 /\ Has(Pend', 0, "PING", 0, 1, hostSpeed)
    BY <1>4, <1>5 DEF r
<1>8. Pinging'
    BY <1>1, <1>3, <1>5, <1>6, <1>7 DEF Pinging, Settled, AtCommand, HasField
<1> QED BY <1>1, <1>8 DEF LinkInv

\* Another speed is asked for.
LEMMA SetSpeedKeeps ==
    ASSUME TypeInv, LinkInv, SetSpeed
    PROVE  LinkInv'
<1>1. /\ UNCHANGED <<waiting, block, speed, hostSpeed, fifo, up, stage, command, args, got, deviceSpeed, faults, blind, overrun>>
      /\ phase = "speed" /\ phase' = "switch" /\ wire' = wire \o SpeedRequest
    BY DEF SetSpeed, device, line
<1>2. Choosing
    BY <1>1 DEF LinkInv, Readying, Switching, Pinging, Extending, Writing, Jumping, Forwarding, GivenUp
<1>3. /\ Pend = <<>> /\ stage = "command" /\ args = <<>> /\ up = <<>> /\ deviceSpeed = BootSpeed /\ hostSpeed = BootSpeed
      /\ ~waiting
    BY <1>2 DEF Choosing, Free, Idle
<1> DEFINE r == SpeedRequest
<1>4. /\ r \in Seq(Bytes) /\ Len(r) = 1 + WordBytes /\ AtSpeed(r, hostSpeed)
      /\ Has(r, 0, "SET_SPEED", 0, 1, hostSpeed) /\ Has(r, 1, "speed", speed, WordBytes, hostSpeed)
    BY SpeedFields DEF TypeInv, TypeOK
<1> HIDE DEF r
<1>5. Pend' = r /\ wire' = r /\ got = <<>>
    BY <1>1, <1>3, <1>4, FreshStream DEF r
<1>6. SameSpeed'
    BY <1>1, <1>3, <1>4, <1>5 DEF SameSpeed, AtSpeed
<1>7. /\ Len(Pend') = 1 + WordBytes + 0 /\ Has(Pend', 0, "SET_SPEED", 0, 1, BootSpeed)
      /\ Has(Pend', 1, "speed", speed, WordBytes, BootSpeed)
    BY <1>3, <1>4, <1>5, ConstantsFact
<1>8. Pings' = 0
    BY <1>1, <1>3 DEF Pings
<1>9. SpeedPlace'
    BY <1>1, <1>3, <1>5, <1>7, <1>8 DEF SpeedPlace, AtCommand, HasField, HasWord, BootSpeed
<1>10. Switching'
    BY <1>1, <1>3, <1>6, <1>9 DEF Switching, BootSpeed
<1> QED BY <1>1, <1>10 DEF LinkInv

\* The host changes its own speed.
LEMMA SwitchSpeedKeeps ==
    ASSUME TypeInv, LinkInv, SwitchSpeed
    PROVE  LinkInv'
<1>1. /\ UNCHANGED <<waiting, block, speed, wire, fifo, up, stage, command, args, got, deviceSpeed, faults, blind, overrun>>
      /\ phase = "switch" /\ phase' = "ping" /\ wire = <<>> /\ hostSpeed' = speed
    BY DEF SwitchSpeed, device, line
<1>2. Switching
    BY <1>1 DEF LinkInv, Readying, Choosing, Pinging, Extending, Writing, Jumping, Forwarding, GivenUp
<1>3. up = <<>> /\ SpeedPlace /\ ~waiting
    BY <1>1, <1>2 DEF Switching
<1>4. Pend' = Pend
    BY <1>1 DEF Pend
<1>5. SpeedPlace'
    BY <1>1, <1>3, <1>4 DEF SpeedPlace, AtCommand, AtWord, HasField, HasWord, BootSpeed, Pings
<1>6. Len(wire') = 0 /\ Pings' = 0
    BY <1>1, <1>3, EmptyFact DEF Pings
<1>7. Len(wire') <= Pings'
    BY <1>6
<1>8. Switching'
    BY <1>1, <1>3, <1>5, <1>7 DEF Switching
<1> QED BY <1>1, <1>8 DEF LinkInv

\* The host sends a request whose status it waits for.
LEMMA SendFact ==
    ASSUME NEW request, Send(request), phase \in {"ping", "extram", "write", "goto"}
    PROVE  /\ wire' = wire \o request /\ waiting' = TRUE
           /\ UNCHANGED <<phase, block, speed, hostSpeed, fifo, up, stage, command, args, got, deviceSpeed, extram,
                          ram, entry, faults, blind, overrun>>
<1>1. Answered(phase)
    BY DEF Answered
<1> QED BY <1>1 DEF Send, device, line

\* The ping at the new speed.
LEMMA PingKeeps ==
    ASSUME TypeInv, TypeInv', LinkInv, Ping
    PROVE  LinkInv'
<1>1. /\ wire' = wire \o PingRequest /\ waiting' = TRUE /\ ~waiting /\ phase = "ping"
      /\ UNCHANGED <<phase, block, speed, hostSpeed, fifo, up, stage, command, args, got, deviceSpeed, extram,
                     ram, entry, faults, blind, overrun>>
    BY SendFact DEF Ping
<1>2. Switching
    BY <1>1 DEF LinkInv, Readying, Choosing, Pinging, Extending, Writing, Jumping, Forwarding, GivenUp
<1>3. up = <<>> /\ SpeedPlace /\ hostSpeed = speed /\ Len(wire) <= Pings /\ Pings = 0
    BY <1>1, <1>2 DEF Switching, Pings
<1>4. Len(wire) = 0 /\ wire = <<>>
    <2>1. Len(wire) \in Nat
        BY PendFact
    <2>2. Len(wire) = 0
        BY <1>3, <2>1
    <2> QED BY <2>2, PendEmpty
<1> DEFINE r == PingRequest
<1>5. r \in Seq(Bytes) /\ Len(r) = 1
    BY PingFields DEF TypeInv, TypeOK
<1> HIDE DEF r
<1>6. wire' = r
    BY <1>1, <1>4, <1>5, ConcatEmptySeq DEF r
<1>7. Pings' = 1 /\ Len(wire') <= Pings'
    <2>1. Pings' = 1
        BY <1>1 DEF Pings
    <2>2. Len(wire') = 1
        BY <1>5, <1>6
    <2> QED BY <2>1, <2>2
<1>8. Len(Pend') = Len(Pend) + 1 /\ Len(Pend) \in Nat /\ Len(Pend) = Len(got) + Len(fifo) /\ Len(got) \in Nat /\ Len(fifo) \in Nat
    <2>1. Len(Pend) = Len(got) + Len(fifo) + 0 /\ Len(got) \in Nat /\ Len(fifo) \in Nat
        BY <1>4, PendFact
    <2>2. Len(Pend') = Len(got) + Len(fifo) + 1
        BY <1>1, <1>5, <1>6, PendNext
    <2> QED BY <2>1, <2>2
<1>9. ASSUME NEW i \in 1 .. Len(Pend) PROVE Pend'[i] = Pend[i]
    <2>1. CASE i <= Len(got)
        <3>1. i \in 1 .. Len(got) /\ i \in 1 .. Len(got')
            BY <1>1, <1>8, <2>1
        <3> QED BY <1>1, <3>1, PendFact, PendNext
    <2>2. CASE i > Len(got)
        <3> DEFINE j == i - Len(got)
        <3>1. j \in 1 .. Len(fifo) /\ j \in 1 .. Len(fifo') /\ Len(got) + j = i /\ Len(got') + j = i
            BY <1>1, <1>8, <2>2
        <3> HIDE DEF j
        <3>2. Pend[Len(got) + j] = fifo[j]
            BY <3>1, PendFact
        <3>3. Pend'[Len(got') + j] = fifo'[j]
            BY <3>1, PendNext
        <3> QED BY <1>1, <3>1, <3>2, <3>3
    <2> QED BY <1>8, <2>1, <2>2
<1>10. ASSUME NEW start \in Nat, NEW size \in Nat, start + size <= Len(Pend), NEW kind, NEW value, NEW baud,
              Has(Pend, start, kind, value, size, baud)
       PROVE  Has(Pend', start, kind, value, size, baud)
    <2> SUFFICES ASSUME NEW k \in 1 .. size PROVE Pend'[start + k] = ByteAt(kind, value, k, baud)
        BY DEF Has
    <2>1. start + k \in 1 .. Len(Pend)
        BY <1>8, <1>10
    <2> QED BY <1>9, <1>10, <2>1 DEF Has
<1>11. SpeedPlace'
    <2>1. CASE stage = "command"
        <3>1. /\ AtCommand /\ deviceSpeed = BootSpeed /\ Len(Pend) = 1 + WordBytes + 0
              /\ Has(Pend, 0, "SET_SPEED", 0, 1, BootSpeed) /\ Has(Pend, 1, "speed", speed, WordBytes, BootSpeed)
            BY <1>3, <2>1 DEF SpeedPlace, AtWord, HasField, HasWord
        <3>2. 0 + 1 <= Len(Pend) /\ 1 + WordBytes <= Len(Pend) /\ WordBytes \in Nat /\ Len(Pend') = 1 + WordBytes + 1
            BY <1>8, <3>1, ConstantsFact
        <3>3. Has(Pend', 0, "SET_SPEED", 0, 1, BootSpeed) /\ Has(Pend', 1, "speed", speed, WordBytes, BootSpeed)
            BY <1>10, <3>1, <3>2
        <3> QED BY <1>1, <1>7, <3>1, <3>2, <3>3 DEF SpeedPlace, AtCommand, HasField, HasWord, BootSpeed
    <2>2. CASE stage = "word"
        <3>1. /\ AtWord("SET_SPEED") /\ args = <<>> /\ deviceSpeed = BootSpeed /\ Len(Pend) = WordBytes + 0
              /\ Has(Pend, 0, "speed", speed, WordBytes, BootSpeed)
            BY <1>3, <2>2 DEF SpeedPlace, AtCommand, HasField, HasWord
        <3>2. 0 + WordBytes <= Len(Pend) /\ WordBytes \in Nat /\ Len(Pend') = WordBytes + 1
            BY <1>8, <3>1, ConstantsFact
        <3>3. Has(Pend', 0, "speed", speed, WordBytes, BootSpeed)
            BY <1>10, <3>1, <3>2
        <3> QED BY <1>1, <1>7, <3>1, <3>2, <3>3 DEF SpeedPlace, AtWord, HasField, HasWord, BootSpeed
    <2>3. CASE stage = "await_ping"
        <3>1. args = <<>> /\ got = <<>> /\ deviceSpeed = speed /\ Len(Pend) <= 0
            BY <1>3, <2>3 DEF SpeedPlace, AtCommand, AtWord
        <3>2. Len(Pend') <= 1
            BY <1>8, <3>1
        <3> QED BY <1>1, <1>7, <2>3, <3>1, <3>2 DEF SpeedPlace
    <2>4. stage \in {"command", "word", "await_ping"}
        BY <1>1, <1>3 DEF SpeedPlace, AtCommand, AtWord
    <2> QED BY <2>1, <2>2, <2>3, <2>4
<1>12. Switching'
    BY <1>1, <1>3, <1>7, <1>11 DEF Switching
<1> QED BY <1>1, <1>12 DEF LinkInv

\* The external RAM is asked for.
LEMMA InitExtramKeeps ==
    ASSUME TypeInv, LinkInv, InitExtram
    PROVE  LinkInv'
<1>1. /\ wire' = wire \o ExtramRequest /\ waiting' = TRUE /\ ~waiting /\ phase = "extram"
      /\ UNCHANGED <<phase, block, speed, hostSpeed, fifo, up, stage, command, args, got, deviceSpeed, extram,
                     ram, entry, faults, blind, overrun>>
    BY SendFact DEF InitExtram
<1>2. Extending
    BY <1>1 DEF LinkInv, Readying, Choosing, Switching, Pinging, Writing, Jumping, Forwarding, GivenUp
<1>3. Settled /\ Pend = <<>> /\ stage = "command" /\ args = <<>> /\ up = <<>>
    BY <1>1, <1>2 DEF Extending, Free, Idle, Asked
<1> DEFINE r == ExtramRequest
<1>4. /\ r \in Seq(Bytes) /\ Len(r) = 1 + WordBytes + WordBytes /\ AtSpeed(r, hostSpeed)
      /\ Has(r, 0, "INIT_EXTRAM", 0, 1, hostSpeed) /\ Has(r, 1, "address", 0, WordBytes, hostSpeed)
      /\ Has(r, 1 + WordBytes, "size", ExtramSize, WordBytes, hostSpeed)
    BY ExtramFields DEF TypeInv, TypeOK
<1> HIDE DEF r
<1>5. Pend' = r /\ wire' = r /\ got = <<>>
    BY <1>1, <1>3, <1>4, FreshStream DEF r
<1>6. Settled'
    BY <1>1, <1>3, <1>4, <1>5 DEF Settled, SameSpeed, AtSpeed
<1>7. ExtramPlace'
    BY <1>1, <1>3, <1>4, <1>5 DEF ExtramPlace, Settled, AtCommand, HasField, HasWord, ExtramSize
<1>8. Extending'
    BY <1>1, <1>3, <1>6, <1>7 DEF Extending, Asked
<1> QED BY <1>1, <1>8 DEF LinkInv

\* A block is sent.
LEMMA WriteBlockKeeps ==
    ASSUME TypeInv, LinkInv, WriteBlock
    PROVE  LinkInv'
<1>1. /\ waiting' = TRUE /\ ~waiting /\ phase = "write"
      /\ wire' = wire \o (IF block \in Packed THEN PackedRequest(block) ELSE RawRequest(block))
      /\ UNCHANGED <<phase, block, speed, hostSpeed, fifo, up, stage, command, args, got, deviceSpeed, extram,
                     ram, entry, faults, blind, overrun>>
    <2> DEFINE r == IF block \in Packed THEN PackedRequest(block) ELSE RawRequest(block)
    <2>1. phase = "write" /\ ~waiting /\ Send(r)
        BY DEF WriteBlock
    <2> HIDE DEF r
    <2>2. /\ waiting' = TRUE /\ wire' = wire \o r
          /\ UNCHANGED <<phase, block, speed, hostSpeed, fifo, up, stage, command, args, got, deviceSpeed, extram,
                         ram, entry, faults, blind, overrun>>
        BY <2>1, SendFact
    <2> QED BY <2>1, <2>2 DEF r
<1>2. Writing
    BY <1>1 DEF LinkInv, Readying, Choosing, Switching, Pinging, Extending, Jumping, Forwarding, GivenUp
<1>3. Settled /\ Pend = <<>> /\ stage = "command" /\ args = <<>> /\ up = <<>> /\ (UseExtram => extram) /\ Loaded(block - 1)
    BY <1>1, <1>2 DEF Writing, Free, Idle, Asked
<1>4. block \in 1 .. Blocks /\ hostSpeed \in Words
    BY <1>1 DEF TypeInv, TypeOK, PlaceInv
<1>5. Loaded(block - 1)'
    BY <1>1, <1>3 DEF Loaded, Block, Intact
<1>6. ASSUME NEW r \in Seq(Bytes), wire' = wire \o r, AtSpeed(r, hostSpeed)
      PROVE  Pend' = r /\ Settled' /\ got' = <<>>
    <2>1. Pend' = r /\ wire' = r /\ got = <<>>
        BY <1>1, <1>3, <1>6, FreshStream
    <2> QED BY <1>1, <1>3, <1>6, <2>1 DEF Settled, SameSpeed, AtSpeed
<1>7. CASE block \in Packed
    <2> DEFINE r == PackedRequest(block)
    <2>1. /\ r \in Seq(Bytes) /\ AtSpeed(r, hostSpeed)
          /\ Len(r) = 1 + WordBytes + WordBytes + WordBytes + PackedSize + WordBytes
          /\ Has(r, 0, "WRITE_RAM_LZ4", 0, 1, hostSpeed) /\ Has(r, 1, "address", block, WordBytes, hostSpeed)
          /\ Has(r, 1 + WordBytes, "size", PackedSize, WordBytes, hostSpeed)
          /\ Has(r, 1 + WordBytes + WordBytes, "size", BlockSize, WordBytes, hostSpeed)
          /\ Has(r, 1 + WordBytes + WordBytes + WordBytes, "packed", block, PackedSize, hostSpeed)
          /\ Has(r, 1 + WordBytes + WordBytes + WordBytes + PackedSize, "crc", block, WordBytes, hostSpeed)
        BY <1>4, PackedFields
    <2>2. wire' = wire \o r
        BY <1>1, <1>7
    <2> HIDE DEF r
    <2>3. Pend' = r /\ Settled' /\ got' = <<>>
        BY <1>6, <2>1, <2>2
    <2>4. PackedPlace'
        BY <1>1, <1>3, <2>1, <2>3 DEF PackedPlace, Settled, AtCommand, HasField, HasWord, Rest
    <2>5. Writing'
        BY <1>1, <1>3, <1>5, <2>3, <2>4 DEF Writing, Asked
    <2> QED BY <1>1, <2>5 DEF LinkInv
<1>8. CASE block \notin Packed
    <2> DEFINE r == RawRequest(block)
    <2>1. /\ r \in Seq(Bytes) /\ AtSpeed(r, hostSpeed)
          /\ Len(r) = 1 + WordBytes + WordBytes + BlockSize + WordBytes
          /\ Has(r, 0, "RAM_WRITE", 0, 1, hostSpeed) /\ Has(r, 1, "address", block, WordBytes, hostSpeed)
          /\ Has(r, 1 + WordBytes, "size", BlockSize, WordBytes, hostSpeed)
          /\ Has(r, 1 + WordBytes + WordBytes, "data", block, BlockSize, hostSpeed)
          /\ Has(r, 1 + WordBytes + WordBytes + BlockSize, "crc", block, WordBytes, hostSpeed)
        BY <1>4, RawFields
    <2>2. wire' = wire \o r
        BY <1>1, <1>8
    <2> HIDE DEF r
    <2>3. Pend' = r /\ Settled' /\ got' = <<>>
        BY <1>6, <2>1, <2>2
    <2>4. RawPlace'
        BY <1>1, <1>3, <2>1, <2>3 DEF RawPlace, Settled, AtCommand, HasField, HasWord, Rest
    <2>5. Writing'
        BY <1>1, <1>3, <1>5, <2>3, <2>4 DEF Writing, Asked
    <2> QED BY <1>1, <2>5 DEF LinkInv
<1> QED BY <1>7, <1>8

\* The jump is asked for.
LEMMA GotoKeeps ==
    ASSUME TypeInv, LinkInv, Goto
    PROVE  LinkInv'
<1>1. /\ wire' = wire \o GotoRequest /\ waiting' = TRUE /\ ~waiting /\ phase = "goto"
      /\ UNCHANGED <<phase, block, speed, hostSpeed, fifo, up, stage, command, args, got, deviceSpeed, extram,
                     ram, entry, faults, blind, overrun>>
    BY SendFact DEF Goto
<1>2. Jumping
    BY <1>1 DEF LinkInv, Readying, Choosing, Switching, Pinging, Extending, Writing, Forwarding, GivenUp
<1>3. Settled /\ Pend = <<>> /\ stage = "command" /\ args = <<>> /\ up = <<>> /\ Loaded(Blocks)
    BY <1>1, <1>2 DEF Jumping, Free, Idle, Asked
<1> DEFINE r == GotoRequest
<1>4. /\ r \in Seq(Bytes) /\ Len(r) = 1 + WordBytes /\ AtSpeed(r, hostSpeed)
      /\ Has(r, 0, "GOTO", 0, 1, hostSpeed) /\ Has(r, 1, "address", Exec, WordBytes, hostSpeed)
    BY GotoFields DEF TypeInv, TypeOK
<1> HIDE DEF r
<1>5. Pend' = r /\ wire' = r /\ got = <<>>
    BY <1>1, <1>3, <1>4, FreshStream DEF r
<1>6. Settled' /\ Loaded(Blocks)'
    BY <1>1, <1>3, <1>4, <1>5 DEF Settled, SameSpeed, AtSpeed, Loaded, Block, Intact
<1>7. GotoPlace'
    BY <1>1, <1>3, <1>4, <1>5 DEF GotoPlace, Settled, AtCommand, HasField, HasWord, Exec
<1>8. Jumping'
    BY <1>1, <1>3, <1>6, <1>7 DEF Jumping, Asked
<1> QED BY <1>1, <1>8 DEF LinkInv

\* The status that the host reads is the one it waits for.
LEMMA ReadStatusKeeps ==
    ASSUME TypeInv, LinkInv, ReadStatus
    PROVE  LinkInv'
<1>1. /\ waiting /\ ~HostDone /\ up # <<>> /\ up' = Tail(up)
      /\ Head(up).speed = hostSpeed /\ Head(up).status = Expected => Advance
      /\ UNCHANGED <<speed, hostSpeed, wire, fifo, stage, command, args, got, deviceSpeed, extram, ram, entry,
                     faults, blind, overrun>>
    BY DEF ReadStatus, device, line
<1>2. ASSUME NEW s, Reply(s), deviceSpeed = hostSpeed, s = Expected
      PROVE  up' = <<>> /\ phase' = NextPhase /\ waiting' = FALSE /\ block' = IF phase = "write" THEN block + 1 ELSE block
    <2> DEFINE e == [status |-> s, speed |-> deviceSpeed]
    <2>1. e.status = s /\ e.speed = deviceSpeed
        OBVIOUS
    <2> HIDE DEF e
    <2>2. up = <<e>>
        BY <1>2 DEF Reply, e
    <2>3. Head(up) = e /\ Tail(up) = <<>>
        BY <2>2
    <2>4. Advance
        BY <1>1, <1>2, <2>1, <2>3
    <2> QED BY <1>1, <2>3, <2>4 DEF Advance
<1>3. Pend' = Pend /\ (SameSpeed => SameSpeed')
    BY <1>1 DEF Pend, SameSpeed
<1>4. CASE Readying
    <2>1. /\ phase = "ready" /\ hostSpeed = BootSpeed /\ deviceSpeed = BootSpeed /\ Pend = <<>> /\ args = <<>>
          /\ stage = "command" /\ Reply("READY")
        BY <1>1, <1>4 DEF Readying
    <2>2. Expected = "READY" /\ NextPhase = "speed"
        BY <2>1 DEF Expected, NextPhase
    <2>3. up' = <<>> /\ phase' = "speed" /\ waiting' = FALSE
        BY <1>2, <2>1, <2>2
    <2>4. Choosing'
        BY <1>1, <1>3, <2>1, <2>3 DEF Choosing, Free, Idle, BootSpeed
    <2> QED BY <1>1, <2>4 DEF LinkInv
<1>5. CASE Pinging \/ (Extending /\ phase = "extram")
    <2>1. /\ Settled /\ Idle /\ phase \in {"ping", "extram"} /\ (phase = "ping" => Reply("PONG"))
          /\ phase = "extram" => Reply("SUCCESS") /\ extram
        BY <1>1, <1>5 DEF Pinging, Extending, AtCommand, Idle, Free, Asked
    <2>2. /\ phase = "ping" => Expected = "PONG" /\ NextPhase = AfterSpeed
          /\ phase = "extram" => Expected = "SUCCESS" /\ NextPhase = "write"
        BY <2>1 DEF Expected, NextPhase
    <2>3. up' = <<>> /\ waiting' = FALSE /\ block' = block /\ phase' = NextPhase /\ deviceSpeed = hostSpeed
        <3>1. deviceSpeed = hostSpeed
            BY <2>1 DEF Settled
        <3>2. CASE phase = "ping"
            BY <1>2, <2>1, <2>2, <3>1, <3>2
        <3>3. CASE phase = "extram"
            BY <1>2, <2>1, <2>2, <3>1, <3>3
        <3> QED BY <2>1, <3>2, <3>3
    <2>4. Settled' /\ Free'
        BY <1>1, <1>3, <2>1, <2>3 DEF Settled, Free, Idle
    <2>5. block' = 1
        BY <2>1, <2>3 DEF TypeInv, PlaceInv, Early
    <2>6. Loaded(block - 1)'
        <3>1. \A k \in 1 .. Blocks : ~(k <= block' - 1)
            BY <2>5, ConstantsFact
        <3> QED BY <3>1 DEF Loaded
    <2>7. CASE phase = "ping" /\ UseExtram
        <3>1. phase' = "extram"
            BY <2>2, <2>3, <2>7 DEF AfterSpeed
        <3>2. Extending'
            BY <2>4, <3>1 DEF Extending
        <3> QED BY <1>1, <3>2 DEF LinkInv
    <2>8. CASE phase = "extram" \/ ~UseExtram
        <3>1. phase' = "write" /\ (UseExtram => extram')
            BY <1>1, <2>1, <2>2, <2>3, <2>8 DEF AfterSpeed
        <3>2. Writing'
            BY <2>4, <2>6, <3>1 DEF Writing
        <3> QED BY <1>1, <3>2 DEF LinkInv
    <2> QED BY <2>1, <2>7, <2>8
<1>6. CASE Writing
    <2>1. Settled /\ Idle /\ Reply("SUCCESS") /\ Loaded(block) /\ phase = "write" /\ (UseExtram => extram)
        BY <1>1, <1>6 DEF Writing, Free, Asked
    <2>2. Expected = "SUCCESS"
        BY <2>1 DEF Expected
    <2>3. up' = <<>> /\ phase' = NextPhase /\ waiting' = FALSE /\ block' = block + 1
        BY <1>2, <2>1, <2>2 DEF Settled
    <2>4. Settled' /\ Free'
        BY <1>1, <1>3, <2>1, <2>3 DEF Settled, Free, Idle
    <2>5. block \in Nat /\ block' - 1 = block
        <3>1. block \in 1 .. Blocks + 1
            BY DEF TypeInv, TypeOK
        <3> QED BY <2>3, <3>1, ConstantsFact
    <2>6. Loaded(block - 1)'
        BY <1>1, <2>1, <2>5 DEF Loaded, Block, Intact
    <2>7. CASE block < Blocks
        <3>0. ~(block >= Blocks)
            BY <2>5, <2>7, ConstantsFact
        <3>1. phase' = "write"
            BY <2>1, <2>3, <2>7, <3>0 DEF NextPhase
        <3>2. Writing'
            BY <1>1, <2>1, <2>4, <2>6, <3>1 DEF Writing
        <3> QED BY <1>1, <3>2 DEF LinkInv
    <2>8. CASE ~(block < Blocks)
        <3>1. block >= Blocks /\ \A k \in 1 .. Blocks : k <= block
            BY <2>5, <2>8, ConstantsFact
        <3>2. phase' = "goto"
            BY <2>1, <2>3, <2>8, <3>1 DEF NextPhase
        <3>3. Loaded(Blocks)'
            BY <1>1, <2>1, <3>1 DEF Loaded, Block, Intact
        <3>4. Jumping'
            BY <2>4, <3>2, <3>3 DEF Jumping
        <3> QED BY <1>1, <3>4 DEF LinkInv
    <2> QED BY <2>7, <2>8
<1>7. CASE Jumping
    <2>1. Settled /\ Started /\ Reply("SUCCESS") /\ phase = "goto"
        BY <1>1, <1>7 DEF Jumping, Free, Asked
    <2>2. Expected = "SUCCESS" /\ NextPhase = "forward"
        BY <2>1 DEF Expected, NextPhase
    <2>3. phase' = "forward"
        BY <1>2, <2>1, <2>2 DEF Settled
    <2>4. Started'
        BY <1>1, <2>1 DEF Started, Loaded, Block, Intact, Exec
    <2>5. Forwarding'
        BY <2>3, <2>4 DEF Forwarding
    <2> QED BY <1>1, <2>5 DEF LinkInv
<1>8. ~Choosing /\ ~Switching /\ ~Forwarding /\ ~GivenUp
    BY <1>1 DEF Choosing, Free, Switching, Forwarding, GivenUp, HostDone
<1>9. Extending => phase = "extram"
    BY DEF Extending
<1> QED BY <1>4, <1>5, <1>6, <1>7, <1>8, <1>9 DEF LinkInv

\* When nothing moves any more and the host still waits, the ping that was to confirm a
\* new speed is lost; everywhere else an answer is on its way.
LEMMA OnlyPingIsLost ==
    ASSUME TypeInv, LinkInv, waiting, up = <<>>, Quiet
    PROVE  Switching /\ phase = "ping" /\ Pend = <<>> /\ stage \in {"await_ping", "reset"}
<1>1. /\ wire = <<>> /\ fifo = <<>> /\ Len(Pend) = Len(got) /\ Len(got) \in Nat /\ (Polling \/ ~Listening)
    <2>1. wire = <<>> /\ fifo = <<>> /\ (Polling \/ ~Listening)
        BY DEF Quiet
    <2>2. Len(Pend) = Len(got) + 0 + 0 /\ Len(got) \in Nat
        BY <2>1, PendFact, PendEmpty
    <2> QED BY <2>1, <2>2
<1>2. WordBytes \in Nat /\ WordBytes >= 1 /\ BlockSize \in Nat /\ PackedSize \in Nat /\ Len(<<>>) = 0
    BY ConstantsFact, EmptyFact
<1>3. ASSUME AtCommand, Len(Pend) >= 1 PROVE FALSE
    BY <1>1, <1>2, <1>3 DEF AtCommand
<1>4. ASSUME stage \in {"word", "crc"}, Len(Pend) >= WordBytes PROVE FALSE
    <2>1. Needed = WordBytes
        BY <1>4 DEF Needed
    <2>2. Len(got) < Needed
        BY <1>1, <1>4 DEF Polling, Listening
    <2> QED BY <1>1, <1>2, <1>4, <2>1, <2>2
<1>5. CASE Readying
    BY <1>1, <1>5 DEF Readying, Reply, Polling, Listening
<1>6. CASE Switching
    <2>1. SpeedPlace /\ (phase = "ping" \/ ~waiting)
        BY <1>6 DEF Switching
    <2>2. Pings = 1
        BY DEF Pings
    <2>3. stage # "command"
        <3> SUFFICES ASSUME stage = "command" PROVE FALSE
            OBVIOUS
        <3>1. AtCommand /\ Len(Pend) = 1 + WordBytes + 1
            BY <2>1, <2>2 DEF SpeedPlace, AtWord
        <3>2. Len(Pend) >= 1
            BY <1>2, <3>1
        <3> QED BY <1>3, <3>1, <3>2
    <2>4. stage # "word"
        <3> SUFFICES ASSUME stage = "word" PROVE FALSE
            OBVIOUS
        <3>1. Len(Pend) = WordBytes + 1
            BY <2>1, <2>2 DEF SpeedPlace, AtCommand
        <3>2. Len(Pend) >= WordBytes
            BY <1>2, <3>1
        <3> QED BY <1>4, <3>2
    <2>5. stage \in {"await_ping", "reset"} /\ (stage = "await_ping" => got = <<>>) /\ (stage = "reset" => Pend = <<>>)
        BY <2>1, <2>3, <2>4 DEF SpeedPlace, AtCommand, AtWord
    <2>6. Pend = <<>>
        BY <1>1, <2>5, PendEmpty
    <2> QED BY <1>6, <2>1, <2>5, <2>6
<1>7. CASE Pinging
    <2>1. AtCommand /\ Len(Pend) = 1
        BY <1>7 DEF Pinging, Reply
    <2>2. Len(Pend) >= 1
        BY <2>1
    <2> QED BY <1>3, <2>1, <2>2
<1>8. CASE Extending
    <2>1. ExtramPlace
        BY <1>8 DEF Extending, Free, Reply
    <2>2. \/ AtCommand /\ Len(Pend) = 1 + WordBytes + WordBytes
          \/ stage = "word" /\ Len(Pend) \in {WordBytes + WordBytes, WordBytes}
        BY <2>1 DEF ExtramPlace, AtWord
    <2>3. \/ AtCommand /\ Len(Pend) >= 1
          \/ stage = "word" /\ Len(Pend) >= WordBytes
        BY <1>2, <2>2
    <2> QED BY <1>3, <1>4, <2>3
<1>9. CASE Writing
    <2>1. RawPlace \/ PackedPlace \/ CrcPlace
        BY <1>9 DEF Writing, Free, Reply
    <2>2. CASE RawPlace
        <3>1. \/ AtCommand /\ Len(Pend) = 1 + WordBytes + WordBytes + BlockSize + WordBytes
              \/ stage = "word" /\ Len(Pend) = WordBytes + WordBytes + BlockSize + WordBytes
              \/ stage = "word" /\ Len(Pend) = WordBytes + BlockSize + WordBytes
              \/ stage = "raw" /\ args = <<block, BlockSize>> /\ Len(Pend) = 0 + BlockSize + WordBytes
            BY <2>2 DEF RawPlace, AtWord, Rest
        <3>2. \/ AtCommand /\ Len(Pend) >= 1
              \/ stage = "word" /\ Len(Pend) >= WordBytes
              \/ stage = "raw" /\ args = <<block, BlockSize>> /\ Len(Pend) > BlockSize
            BY <1>2, <3>1
        <3>3. CASE stage = "raw"
            <4>1. Needed = BlockSize
                BY <3>2, <3>3 DEF Needed, AtCommand
            <4>2. Len(got) < Needed
                BY <1>1, <3>3 DEF Polling, Listening
            <4> QED BY <1>1, <1>2, <3>2, <3>3, <4>1, <4>2 DEF AtCommand
        <3> QED BY <1>3, <1>4, <3>2, <3>3
    <2>3. CASE PackedPlace
        <3>1. \/ AtCommand /\ Len(Pend) = 1 + WordBytes + WordBytes + WordBytes + PackedSize + WordBytes
              \/ stage = "word" /\ Len(Pend) = WordBytes + WordBytes + WordBytes + PackedSize + WordBytes
              \/ stage = "word" /\ Len(Pend) = WordBytes + WordBytes + PackedSize + WordBytes
              \/ stage = "word" /\ Len(Pend) = WordBytes + PackedSize + WordBytes
              \/ stage = "packed" /\ args = <<block, PackedSize, BlockSize>> /\ Len(Pend) = 0 + PackedSize + WordBytes
              \/ stage = "decompress"
            BY <2>3 DEF PackedPlace, AtWord, Rest
        <3>2. \/ AtCommand /\ Len(Pend) >= 1
              \/ stage = "word" /\ Len(Pend) >= WordBytes
              \/ stage = "packed" /\ args = <<block, PackedSize, BlockSize>> /\ Len(Pend) > PackedSize
              \/ stage = "decompress"
            BY <1>2, <3>1
        <3>3. CASE stage = "packed"
            <4>1. Needed = PackedSize
                BY <3>2, <3>3 DEF Needed, AtCommand
            <4>2. Len(got) < Needed
                BY <1>1, <3>3 DEF Polling, Listening
            <4> QED BY <1>1, <1>2, <3>2, <3>3, <4>1, <4>2 DEF AtCommand
        <3>4. CASE stage = "decompress"
            BY <1>1, <3>4 DEF Polling, Listening
        <3> QED BY <1>3, <1>4, <3>2, <3>3, <3>4
    <2>4. CASE CrcPlace
        <3>1. stage \in {"crc", "check"} /\ Len(Pend) >= WordBytes
            BY <1>2, <2>4 DEF CrcPlace
        <3>2. stage # "check"
            BY <1>1 DEF Polling, Listening
        <3> QED BY <1>4, <3>1, <3>2
    <2> QED BY <2>1, <2>2, <2>3, <2>4
<1>10. CASE Jumping
    <2>1. GotoPlace
        BY <1>10 DEF Jumping, Free, Reply
    <2>2. \/ AtCommand /\ Len(Pend) = 1 + WordBytes
          \/ stage = "word" /\ Len(Pend) = WordBytes
        BY <2>1 DEF GotoPlace, AtWord
    <2>3. \/ AtCommand /\ Len(Pend) >= 1
          \/ stage = "word" /\ Len(Pend) >= WordBytes
        BY <1>2, <2>2
    <2> QED BY <1>3, <1>4, <2>3
<1>11. ~Choosing /\ ~Forwarding /\ ~GivenUp
    BY DEF Choosing, Free, Forwarding, GivenUp, TypeInv, PlaceInv
<1> QED BY <1>5, <1>6, <1>7, <1>8, <1>9, <1>10, <1>11 DEF LinkInv

\* The host gives up.
LEMMA HostTimeoutKeeps ==
    ASSUME TypeInv, LinkInv, HostTimeout
    PROVE  LinkInv'
<1>1. /\ waiting /\ Quiet /\ up = <<>> /\ phase' = "exit"
      /\ UNCHANGED <<wire, fifo, stage, faults, blind, overrun>>
    BY DEF HostTimeout, device, line
<1>2. stage \in {"await_ping", "reset"}
    BY <1>1, OnlyPingIsLost
<1>3. GivenUp'
    BY <1>1, <1>2 DEF GivenUp, Quiet
<1> QED BY <1>1, <1>3 DEF LinkInv

\* The watchdog resets the phone.
LEMMA WatchdogResetKeeps ==
    ASSUME TypeInv, LinkInv, WatchdogReset
    PROVE  LinkInv'
<1>1. /\ Quiet /\ stage \notin {"reset", "running"} /\ stage' = "reset" /\ (HostDone \/ (waiting /\ up = <<>>))
      /\ UNCHANGED <<phase, waiting, block, speed, hostSpeed, wire, fifo, up, command, args, got, deviceSpeed, faults,
                     blind, overrun>>
    BY DEF WatchdogReset, Watched, host, line
<1>2. CASE HostDone
    <2>1. GivenUp
        BY <1>1, <1>2 DEF HostDone, LinkInv, Readying, Choosing, Switching, Pinging, Extending, Writing, Jumping,
                           Forwarding, Started
    <2>2. GivenUp'
        BY <1>1, <2>1 DEF GivenUp
    <2> QED BY <1>1, <2>2 DEF LinkInv
<1>3. CASE waiting /\ up = <<>>
    <2>1. Switching /\ phase = "ping" /\ Pend = <<>>
        BY <1>1, <1>3, OnlyPingIsLost
    <2>2. Pend' = <<>> /\ Pings' = Pings
        BY <1>1, <2>1 DEF Pend, Pings
    <2>3. SpeedPlace'
        BY <1>1, <1>3, <2>2 DEF SpeedPlace
    <2>4. Switching'
        BY <1>1, <2>1, <2>2, <2>3 DEF Switching
    <2> QED BY <1>1, <2>4 DEF LinkInv
<1> QED BY <1>1, <1>2, <1>3

\* Where a command is taken, and which.
LEMMA CommandPlaces ==
    ASSUME TypeInv, TypeInv', LinkInv, TakeCommand
    PROVE  /\ got = <<>> /\ args = <<>> /\ up = <<>> /\ Rests(Pend, Pend', 1) /\ Len(Pend) \in Nat /\ Len(Pend) >= 1
           /\ \A c \in Commands : \A v, b : Has(Pend, 0, c, v, 1, b) => CommandValues(Head(fifo)) = {c}
           /\ UNCHANGED <<phase, waiting, block, speed, hostSpeed, wire, deviceSpeed, extram, ram, entry, args, got,
                          faults, blind, overrun>>
           /\ stage = "command" /\ (SameSpeed => SameSpeed')
           /\ \/ Switching \/ Pinging \/ (Extending /\ Asked /\ ExtramPlace) \/ (Writing /\ Asked /\ (RawPlace \/ PackedPlace))
              \/ (Jumping /\ Asked /\ GotoPlace)
<1>1. /\ stage = "command" /\ fifo # <<>> /\ fifo' = Tail(fifo) /\ UNCHANGED <<args, got>>
      /\ UNCHANGED <<phase, waiting, block, speed, hostSpeed, wire, deviceSpeed, extram, ram, entry, faults, blind, overrun>>
    BY DEF TakeCommand, host, line
<1>2. Pend # <<>> /\ ~Idle
    BY <1>1, PendEmpty DEF Idle
<1>3. /\ \/ Switching /\ AtCommand
         \/ Pinging /\ AtCommand /\ up = <<>>
         \/ Extending /\ Asked /\ ExtramPlace /\ AtCommand
         \/ Writing /\ Asked /\ (RawPlace \/ PackedPlace) /\ AtCommand
         \/ Jumping /\ Asked /\ GotoPlace /\ AtCommand
    <2>1. ~Readying /\ ~Choosing /\ ~Forwarding /\ ~GivenUp /\ ~Free /\ ~Started
        BY <1>1, <1>2 DEF Readying, Choosing, Free, Forwarding, Started, GivenUp
    <2>2. Switching => AtCommand
        BY <1>1 DEF Switching, SpeedPlace, AtWord
    <2>3. Pinging => AtCommand /\ up = <<>>
        BY <1>2 DEF Pinging
    <2>4. Extending => Asked /\ ExtramPlace /\ AtCommand
        BY <1>1, <1>2, <2>1 DEF Extending, ExtramPlace, AtWord
    <2>5. Writing => Asked /\ (RawPlace \/ PackedPlace) /\ AtCommand
        <3> SUFFICES ASSUME Writing PROVE Asked /\ (RawPlace \/ PackedPlace) /\ AtCommand
            OBVIOUS
        <3>1. Asked /\ (RawPlace \/ PackedPlace \/ CrcPlace)
            BY <1>2, <2>1 DEF Writing
        <3>2. ~CrcPlace
            BY <1>1 DEF CrcPlace
        <3>3. RawPlace => AtCommand
            BY <1>1 DEF RawPlace, AtWord
        <3>4. PackedPlace => AtCommand
            BY <1>1 DEF PackedPlace, AtWord
        <3> QED BY <3>1, <3>2, <3>3, <3>4
    <2>6. Jumping => Asked /\ GotoPlace /\ AtCommand
        BY <1>1, <2>1 DEF Jumping, GotoPlace, AtWord
    <2> QED BY <2>1, <2>2, <2>3, <2>4, <2>5, <2>6 DEF LinkInv
<1>4. got = <<>> /\ args = <<>> /\ up = <<>>
    BY <1>3 DEF AtCommand, Asked, Switching
<1>5. Rests(Pend, Pend', 1) /\ Pend[1] = Head(fifo) /\ Len(Pend) >= 1 /\ Len(Pend) \in Nat
    BY <1>1, <1>4, DropByte
<1>6. \A c \in Commands : \A v, b : Has(Pend, 0, c, v, 1, b) => CommandValues(Head(fifo)) = {c}
    BY <1>5, CommandRead
<1>7. SameSpeed => SameSpeed'
    BY <1>1 DEF SameSpeed
<1> QED BY <1>1, <1>3, <1>4, <1>5, <1>6, <1>7

\* The phone takes the command that was sent.
LEMMA TakeCommandKeeps ==
    ASSUME TypeInv, TypeInv', LinkInv, TakeCommand
    PROVE  LinkInv'
<1>1. /\ got = <<>> /\ args = <<>> /\ up = <<>> /\ Rests(Pend, Pend', 1) /\ Len(Pend) \in Nat /\ Len(Pend) >= 1
      /\ \A c \in Commands : \A v, b : Has(Pend, 0, c, v, 1, b) => CommandValues(Head(fifo)) = {c}
      /\ UNCHANGED <<phase, waiting, block, speed, hostSpeed, wire, deviceSpeed, extram, ram, entry, args, got,
                     faults, blind, overrun>>
      /\ stage = "command" /\ (SameSpeed => SameSpeed')
    BY CommandPlaces
<1>2. ASSUME NEW c \in Commands \ {"PING"}, CommandValues(Head(fifo)) = {c}
      PROVE  stage' = "word" /\ command' = c /\ up' = up
    BY <1>2 DEF TakeCommand, Commands
<1>3. Len(Pend') = Len(Pend) - 1
    BY <1>1 DEF Rests
<1>4. ASSUME NEW start \in Nat, NEW size \in Nat, NEW kind, NEW value, NEW baud, 1 + start + size <= Len(Pend),
             Has(Pend, 1 + start, kind, value, size, baud)
      PROVE  Has(Pend', start, kind, value, size, baud)
    BY <1>1, <1>4, ShiftHas
<1>5. WordBytes \in Nat /\ BlockSize \in Nat /\ PackedSize \in Nat
    BY ConstantsFact
<1>6. {"INIT_EXTRAM", "GOTO", "SET_SPEED", "WRITE_RAM_LZ4", "RAM_WRITE"} \subseteq Commands \ {"PING"} /\ "PING" \in Commands
    BY DEF Commands
<1>7. Settled => Settled'
    BY <1>1 DEF Settled
<1>8. CASE Switching
    <2>1. SpeedPlace /\ Pings \in Nat /\ Pings' = Pings
        BY <1>1, <1>8 DEF Switching, Pings
    <2>2. /\ deviceSpeed = BootSpeed /\ Len(Pend) = 1 + WordBytes + Pings
          /\ Has(Pend, 0, "SET_SPEED", 0, 1, BootSpeed) /\ Has(Pend, 1, "speed", speed, WordBytes, BootSpeed)
        BY <1>1, <2>1 DEF SpeedPlace, AtWord, HasField, HasWord
    <2>3. stage' = "word" /\ command' = "SET_SPEED" /\ up' = <<>>
        BY <1>1, <1>2, <1>6, <2>2
    <2>4. Len(Pend') = WordBytes + Pings /\ 1 + 0 + WordBytes <= Len(Pend) /\ 1 + 0 = 1
        BY <1>3, <1>5, <2>1, <2>2
    <2>5. Has(Pend', 0, "speed", speed, WordBytes, BootSpeed)
        BY <1>4, <1>5, <2>2, <2>4
    <2>6. SpeedPlace'
        BY <1>1, <2>1, <2>2, <2>3, <2>4, <2>5 DEF SpeedPlace, AtWord, HasWord, BootSpeed
    <2>7. Switching'
        BY <1>1, <1>8, <2>1, <2>3, <2>6 DEF Switching, BootSpeed
    <2> QED BY <1>1, <2>7 DEF LinkInv
<1>9. CASE Pinging
    <2>1. Settled /\ AtCommand /\ Len(Pend) = 1 /\ Has(Pend, 0, "PING", 0, 1, speed) /\ phase = "ping" /\ waiting
        BY <1>1, <1>9 DEF Pinging, HasField, Reply
    <2>2. CommandValues(Head(fifo)) = {"PING"}
        BY <1>1, <1>6, <2>1
    <2>3. Put("PONG") /\ stage' = stage
        BY <2>2 DEF TakeCommand
    <2>4. Reply("PONG")'
        BY <1>1, <2>3, PutReply
    <2>5. Pend' = <<>>
        <3>1. Len(Pend') = 0
            BY <1>3, <2>1
        <3>2. Pend' \in Seq(Bytes)
            BY PendNext
        <3> QED BY <3>1, <3>2, EmptyFact
    <2>6. Pinging'
        BY <1>1, <1>7, <2>1, <2>3, <2>4, <2>5 DEF Pinging, AtCommand
    <2> QED BY <1>1, <2>6 DEF LinkInv
<1>10. CASE Extending /\ Asked /\ ExtramPlace
    <2>1. /\ Len(Pend) = 1 + WordBytes + WordBytes /\ Has(Pend, 0, "INIT_EXTRAM", 0, 1, speed)
          /\ Has(Pend, 1, "address", 0, WordBytes, speed)
          /\ Has(Pend, 1 + WordBytes, "size", ExtramSize, WordBytes, speed) /\ Settled /\ phase = "extram" /\ waiting
        BY <1>1, <1>10 DEF ExtramPlace, AtWord, HasField, HasWord, Extending, Asked
    <2>2. stage' = "word" /\ command' = "INIT_EXTRAM" /\ up' = <<>>
        BY <1>1, <1>2, <1>6, <2>1
    <2>3. /\ Len(Pend') = WordBytes + WordBytes /\ 1 + 0 + WordBytes <= Len(Pend) /\ 1 + 0 = 1
          /\ 1 + WordBytes + WordBytes <= Len(Pend)
        BY <1>3, <1>5, <2>1
    <2>4. Has(Pend', 0, "address", 0, WordBytes, speed) /\ Has(Pend', WordBytes, "size", ExtramSize, WordBytes, speed)
        BY <1>4, <1>5, <2>1, <2>3
    <2>5. ExtramPlace'
        BY <1>1, <2>2, <2>3, <2>4 DEF ExtramPlace, AtWord, HasWord, ExtramSize
    <2>6. Extending'
        BY <1>1, <1>7, <2>1, <2>2, <2>5 DEF Extending, Asked
    <2> QED BY <1>1, <2>6 DEF LinkInv
<1>11. CASE Writing /\ Asked /\ RawPlace
    <2>1. /\ Has(Pend, 0, "RAM_WRITE", 0, 1, speed) /\ Has(Pend, 1, "address", block, WordBytes, speed)
          /\ Has(Pend, 1 + WordBytes, "size", BlockSize, WordBytes, speed)
          /\ Len(Pend) = 1 + WordBytes + WordBytes + BlockSize + WordBytes
          /\ Has(Pend, 1 + WordBytes + WordBytes, "data", block, BlockSize, speed)
          /\ Has(Pend, 1 + WordBytes + WordBytes + BlockSize, "crc", block, WordBytes, speed)
        BY <1>1, <1>11 DEF RawPlace, AtWord, HasField, HasWord, Rest
    <2>2. stage' = "word" /\ command' = "RAM_WRITE" /\ up' = <<>>
        BY <1>1, <1>2, <1>6, <2>1
    <2>3. /\ Len(Pend') = WordBytes + WordBytes + BlockSize + WordBytes
          /\ 1 + 0 = 1 /\ 1 + 0 + WordBytes <= Len(Pend)
          /\ 1 + WordBytes + WordBytes <= Len(Pend)
          /\ WordBytes + WordBytes \in Nat /\ 1 + (WordBytes + WordBytes) = 1 + WordBytes + WordBytes
          /\ 1 + (WordBytes + WordBytes) + BlockSize <= Len(Pend)
          /\ WordBytes + WordBytes + BlockSize \in Nat
          /\ 1 + (WordBytes + WordBytes + BlockSize) = 1 + WordBytes + WordBytes + BlockSize
          /\ 1 + (WordBytes + WordBytes + BlockSize) + WordBytes <= Len(Pend)
        BY <1>3, <1>5, <2>1
    <2>4. Has(Pend', 0, "address", block, WordBytes, speed) /\ Has(Pend', WordBytes, "size", BlockSize, WordBytes, speed)
        BY <1>4, <1>5, <2>1, <2>3
    <2>5. Has(Pend', WordBytes + WordBytes, "data", block, BlockSize, speed)
        BY <1>4, <1>5, <2>1, <2>3
    <2>6. Has(Pend', WordBytes + WordBytes + BlockSize, "crc", block, WordBytes, speed)
        BY <1>4, <1>5, <2>1, <2>3
    <2>7. RawPlace'
        BY <1>1, <2>2, <2>3, <2>4, <2>5, <2>6 DEF RawPlace, AtWord, HasField, HasWord, Rest
    <2>8. Loaded(block - 1)'
        BY <1>1, <1>11 DEF Writing, Loaded, Block, Intact
    <2>9. Writing'
        BY <1>1, <1>7, <1>11, <2>2, <2>7, <2>8 DEF Writing, Asked
    <2> QED BY <1>1, <2>9 DEF LinkInv
<1>12. CASE Writing /\ Asked /\ PackedPlace
    <2>1. /\ Has(Pend, 0, "WRITE_RAM_LZ4", 0, 1, speed) /\ Has(Pend, 1, "address", block, WordBytes, speed)
          /\ Has(Pend, 1 + WordBytes, "size", PackedSize, WordBytes, speed)
          /\ Has(Pend, 1 + WordBytes + WordBytes, "size", BlockSize, WordBytes, speed)
          /\ Len(Pend) = 1 + WordBytes + WordBytes + WordBytes + PackedSize + WordBytes
          /\ Has(Pend, 1 + WordBytes + WordBytes + WordBytes, "packed", block, PackedSize, speed)
          /\ Has(Pend, 1 + WordBytes + WordBytes + WordBytes + PackedSize, "crc", block, WordBytes, speed)
        BY <1>1, <1>12 DEF PackedPlace, AtWord, HasField, HasWord, Rest
    <2>2. stage' = "word" /\ command' = "WRITE_RAM_LZ4" /\ up' = <<>>
        BY <1>1, <1>2, <1>6, <2>1
    <2>3. /\ Len(Pend') = WordBytes + WordBytes + WordBytes + PackedSize + WordBytes
          /\ 1 + 0 = 1 /\ 1 + 0 + WordBytes <= Len(Pend)
          /\ 1 + WordBytes + WordBytes <= Len(Pend)
          /\ WordBytes + WordBytes \in Nat /\ 1 + (WordBytes + WordBytes) = 1 + WordBytes + WordBytes
          /\ 1 + (WordBytes + WordBytes) + WordBytes <= Len(Pend)
          /\ WordBytes + WordBytes + WordBytes \in Nat
          /\ 1 + (WordBytes + WordBytes + WordBytes) = 1 + WordBytes + WordBytes + WordBytes
          /\ 1 + (WordBytes + WordBytes + WordBytes) + PackedSize <= Len(Pend)
          /\ WordBytes + WordBytes + WordBytes + PackedSize \in Nat
          /\ 1 + (WordBytes + WordBytes + WordBytes + PackedSize) = 1 + WordBytes + WordBytes + WordBytes + PackedSize
          /\ 1 + (WordBytes + WordBytes + WordBytes + PackedSize) + WordBytes <= Len(Pend)
        BY <1>3, <1>5, <2>1
    <2>4. Has(Pend', 0, "address", block, WordBytes, speed) /\ Has(Pend', WordBytes, "size", PackedSize, WordBytes, speed)
        BY <1>4, <1>5, <2>1, <2>3
    <2>5. Has(Pend', WordBytes + WordBytes, "size", BlockSize, WordBytes, speed)
        BY <1>4, <1>5, <2>1, <2>3
    <2>6. Has(Pend', WordBytes + WordBytes + WordBytes, "packed", block, PackedSize, speed)
        BY <1>4, <1>5, <2>1, <2>3
    <2>7. Has(Pend', WordBytes + WordBytes + WordBytes + PackedSize, "crc", block, WordBytes, speed)
        BY <1>4, <1>5, <2>1, <2>3
    <2>8. PackedPlace'
        BY <1>1, <2>2, <2>3, <2>4, <2>5, <2>6, <2>7 DEF PackedPlace, AtWord, HasField, HasWord, Rest
    <2>9. Loaded(block - 1)'
        BY <1>1, <1>12 DEF Writing, Loaded, Block, Intact
    <2>10. Writing'
        BY <1>1, <1>7, <1>12, <2>2, <2>8, <2>9 DEF Writing, Asked
    <2> QED BY <1>1, <2>10 DEF LinkInv
<1>13. CASE Jumping /\ Asked /\ GotoPlace
    <2>1. /\ Len(Pend) = 1 + WordBytes /\ Has(Pend, 0, "GOTO", 0, 1, speed)
          /\ Has(Pend, 1, "address", Exec, WordBytes, speed) /\ Settled /\ phase = "goto" /\ waiting /\ Loaded(Blocks)
        BY <1>1, <1>13 DEF GotoPlace, AtWord, HasField, HasWord, Jumping, Asked
    <2>2. stage' = "word" /\ command' = "GOTO" /\ up' = <<>>
        BY <1>1, <1>2, <1>6, <2>1
    <2>3. Len(Pend') = WordBytes /\ 1 + 0 + WordBytes <= Len(Pend) /\ 1 + 0 = 1
        BY <1>3, <1>5, <2>1
    <2>4. Has(Pend', 0, "address", Exec, WordBytes, speed)
        BY <1>4, <1>5, <2>1, <2>3
    <2>5. GotoPlace' /\ Loaded(Blocks)'
        BY <1>1, <2>1, <2>2, <2>3, <2>4 DEF GotoPlace, AtWord, HasWord, Exec, Loaded, Block, Intact
    <2>6. Jumping'
        BY <1>1, <1>7, <2>1, <2>2, <2>5 DEF Jumping, Asked
    <2> QED BY <1>1, <2>6 DEF LinkInv
<1> QED BY <1>8, <1>9, <1>10, <1>11, <1>12, <1>13, CommandPlaces

\* Where a word is read, and of which command.
LEMMA WordPlaces ==
    ASSUME TypeInv, LinkInv, stage = "word"
    PROVE  \/ Switching /\ command = "SET_SPEED"
           \/ Extending /\ Asked /\ ExtramPlace /\ command = "INIT_EXTRAM"
           \/ Writing /\ Asked /\ RawPlace /\ command = "RAM_WRITE"
           \/ Writing /\ Asked /\ PackedPlace /\ command = "WRITE_RAM_LZ4"
           \/ Jumping /\ Asked /\ GotoPlace /\ command = "GOTO"
<1>1. ~Idle /\ ~Free /\ ~Started /\ ~Readying /\ ~Choosing /\ ~Pinging /\ ~Forwarding /\ ~GivenUp /\ ~CrcPlace
    BY DEF Idle, Free, Started, Readying, Choosing, Pinging, AtCommand, Forwarding, GivenUp, CrcPlace
<1>2. Switching => command = "SET_SPEED"
    BY DEF Switching, SpeedPlace, AtCommand, AtWord
<1>3. Extending => Asked /\ ExtramPlace /\ command = "INIT_EXTRAM"
    BY <1>1 DEF Extending, ExtramPlace, AtCommand, AtWord
<1>4. Writing => Asked /\ (RawPlace \/ PackedPlace)
    BY <1>1 DEF Writing
<1>5. RawPlace => command = "RAM_WRITE"
    BY DEF RawPlace, AtCommand, AtWord
<1>6. PackedPlace => command = "WRITE_RAM_LZ4"
    BY DEF PackedPlace, AtCommand, AtWord
<1>7. Jumping => Asked /\ GotoPlace /\ command = "GOTO"
    BY <1>1 DEF Jumping, GotoPlace, AtCommand, AtWord
<1> QED BY <1>1, <1>2, <1>3, <1>4, <1>5, <1>6, <1>7 DEF LinkInv

\* The words of each command.
LEMMA WordCounts ==
    /\ WordCount("SET_SPEED") = 1 /\ WordCount("GOTO") = 1
    /\ WordCount("INIT_EXTRAM") = 2 /\ WordCount("RAM_WRITE") = 2
    /\ WordCount("WRITE_RAM_LZ4") = 3
<1>1. WordCount("SET_SPEED") = 1 /\ WordCount("GOTO") = 1
    BY DEF WordCount
<1>2. WordCount("INIT_EXTRAM") = 2 /\ WordCount("RAM_WRITE") = 2
    BY DEF WordCount
<1>3. WordCount("WRITE_RAM_LZ4") = 3
    BY DEF WordCount
<1> QED BY <1>1, <1>2, <1>3

\* A step that takes a whole word, whatever it does with it.
LEMMA WordTaken ==
    ASSUME TypeInv, TypeInv', Len(got) = WordBytes, got' = <<>>, UNCHANGED <<fifo, wire, deviceSpeed>>
    PROVE  /\ Rests(Pend, Pend', WordBytes) /\ Len(Pend) \in Nat /\ (SameSpeed => SameSpeed')
           /\ Len(Pend') = Len(Pend) - WordBytes
           /\ \A start, size \in Nat : \A kind, value, baud :
                  WordBytes + start + size <= Len(Pend) /\ Has(Pend, WordBytes + start, kind, value, size, baud)
                  => Has(Pend', start, kind, value, size, baud)
<1>1. Rests(Pend, Pend', WordBytes)
    BY DropGot
<1>2. Len(Pend) \in Nat /\ WordBytes \in Nat
    <2>1. Pend \in Seq(Bytes)
        BY PendFact
    <2> QED BY <2>1, ConstantsFact, EmptyFact
<1>3. SameSpeed => SameSpeed'
    BY DEF SameSpeed
<1>4. Len(Pend') = Len(Pend) - WordBytes
    BY <1>1 DEF Rests
<1>5. ASSUME NEW start \in Nat, NEW size \in Nat, NEW kind, NEW value, NEW baud,
             WordBytes + start + size <= Len(Pend), Has(Pend, WordBytes + start, kind, value, size, baud)
      PROVE  Has(Pend', start, kind, value, size, baud)
    BY <1>1, <1>2, <1>5, ShiftHas
<1> QED BY <1>1, <1>2, <1>3, <1>4, <1>5

\* A third word.
LEMMA AppendThird ==
    ASSUME NEW a, NEW b, NEW c
    PROVE  Append(<<a, b>>, c) = <<a, b, c>>
<1> DEFINE S == {a, b, c}
           s == <<a, b>>
           t == <<a, b, c>>
<1>1. /\ s \in Seq(S) /\ Len(s) = 2 /\ s[1] = a /\ s[2] = b
      /\ t \in Seq(S) /\ Len(t) = 3 /\ t[1] = a /\ t[2] = b /\ t[3] = c
    OBVIOUS
<1> HIDE DEF S, s, t
<1>2. /\ Append(s, c) \in Seq(S) /\ Len(Append(s, c)) = 3
      /\ Append(s, c)[1] = a /\ Append(s, c)[2] = b /\ Append(s, c)[3] = c
    <2>1. c \in S
        BY DEF S
    <2>2. /\ Append(s, c) \in Seq(S) /\ Len(Append(s, c)) = Len(s) + 1
          /\ \A i \in 1 .. Len(s) : Append(s, c)[i] = s[i]
          /\ Append(s, c)[Len(s) + 1] = c
        <3>1. s \in Seq(S)
            BY <1>1
        <3> QED BY <2>1, <3>1, AppendFact
    <2>3. 1 \in 1 .. Len(s) /\ 2 \in 1 .. Len(s) /\ Len(s) + 1 = 3
        BY <1>1
    <2> QED BY <1>1, <2>2, <2>3
<1>3. \A i \in 1 .. 3 : i = 1 \/ i = 2 \/ i = 3
    OBVIOUS
<1>4. Append(s, c) = t
    BY <1>1, <1>2, <1>3, SeqEqual
<1> QED BY <1>4 DEF s, t

\* Words of a command, one by one.
LEMMA ArgsFact ==
    ASSUME NEW a, NEW b, NEW c
    PROVE  /\ Append(<<>>, a) = <<a>> /\ Append(<<a>>, b) = <<a, b>> /\ Append(<<a, b>>, c) = <<a, b, c>>
           /\ Len(<<>>) = 0 /\ Len(<<a>>) = 1 /\ Len(<<a, b>>) = 2
           /\ <<a, b>>[1] = a /\ <<a, b>>[2] = b
           /\ <<a, b, c>>[1] = a /\ <<a, b, c>>[2] = b /\ <<a, b, c>>[3] = c /\ <<a>>[1] = a
<1>1. Append(<<>>, a) = <<a>>
    OBVIOUS
<1>2. Append(<<a>>, b) = <<a, b>>
    <2> DEFINE S == {a, b}
               s == <<a>>
               t == <<a, b>>
    <2>1. s \in Seq(S) /\ Len(s) = 1 /\ s[1] = a /\ t \in Seq(S) /\ Len(t) = 2 /\ t[1] = a /\ t[2] = b
        OBVIOUS
    <2> HIDE DEF S, s, t
    <2>2. Append(s, b) \in Seq(S) /\ Len(Append(s, b)) = 2 /\ Append(s, b)[1] = a /\ Append(s, b)[2] = b
        <3>1. b \in S
            BY DEF S
        <3>2. /\ Append(s, b) \in Seq(S) /\ Len(Append(s, b)) = Len(s) + 1
              /\ \A i \in 1 .. Len(s) : Append(s, b)[i] = s[i]
              /\ Append(s, b)[Len(s) + 1] = b
            <4>1. s \in Seq(S)
                BY <2>1
            <4> QED BY <3>1, <4>1, AppendFact
        <3>3. 1 \in 1 .. Len(s) /\ Len(s) + 1 = 2
            BY <2>1
        <3> QED BY <2>1, <3>2, <3>3
    <2>3. \A i \in 1 .. 2 : i = 1 \/ i = 2
        OBVIOUS
    <2>4. Append(s, b) = t
        BY <2>1, <2>2, <2>3, SeqEqual
    <2> QED BY <2>4 DEF s, t
<1>3. Append(<<a, b>>, c) = <<a, b, c>>
    BY AppendThird
<1>4. Len(<<>>) = 0 /\ Len(<<a>>) = 1 /\ Len(<<a, b>>) = 2
    OBVIOUS
<1>5. <<a, b>>[1] = a /\ <<a, b>>[2] = b /\ <<a>>[1] = a
    OBVIOUS
<1>6. <<a, b, c>>[1] = a /\ <<a, b, c>>[2] = b /\ <<a, b, c>>[3] = c
    OBVIOUS
<1> QED BY <1>1, <1>2, <1>3, <1>4, <1>5, <1>6

\* A word that is not the last one is the one that was sent.
LEMMA TakeWordKeeps ==
    ASSUME TypeInv, TypeInv', LinkInv, TakeWord
    PROVE  LinkInv'
<1>1. /\ stage = "word" /\ Len(got) = WordBytes /\ Len(args) + 1 < WordCount(command) /\ got' = <<>>
      /\ UNCHANGED <<phase, waiting, block, speed, hostSpeed, wire, fifo, up, stage, command, deviceSpeed, extram, ram,
                     entry, faults, blind, overrun>>
    BY DEF TakeWord, host, line
<1>2. ASSUME NEW w, WordValues(got) = {w} PROVE args' = Append(args, w)
    BY <1>2 DEF TakeWord
<1>3. /\ Len(Pend) \in Nat /\ (SameSpeed => SameSpeed') /\ Len(Pend') = Len(Pend) - WordBytes
      /\ \A start, size \in Nat : \A kind, value, baud :
             WordBytes + start + size <= Len(Pend) /\ Has(Pend, WordBytes + start, kind, value, size, baud)
             => Has(Pend', start, kind, value, size, baud)
    BY <1>1, WordTaken
<1>4. WordBytes \in Nat /\ BlockSize \in Nat /\ PackedSize \in Nat /\ 0 \in Nat
    BY ConstantsFact
<1>5. Settled => Settled'
    BY <1>1, <1>3 DEF Settled
<1>6. Len(args) \in Nat
    BY EmptyFact DEF TypeInv, TypeOK
<1>7. CASE Switching /\ command = "SET_SPEED"
    BY <1>1, <1>6, <1>7, WordCounts
<1>8. CASE Extending /\ Asked /\ ExtramPlace /\ command = "INIT_EXTRAM"
    <2>0. args # <<0>>
        BY <1>1, <1>8, WordCounts, ArgsFact
    <2>1. /\ Len(Pend) = WordBytes + WordBytes /\ args = <<>> /\ Has(Pend, 0, "address", 0, WordBytes, speed)
          /\ Has(Pend, WordBytes, "size", ExtramSize, WordBytes, speed) /\ Settled /\ phase = "extram" /\ waiting /\ up = <<>>
        BY <1>1, <1>8, <2>0 DEF ExtramPlace, AtCommand, AtWord, HasWord, Extending, Asked
    <2>2. args' = <<0>>
        BY <1>1, <1>2, <2>1, WordRead, ArgsFact
    <2>3. Len(Pend') = WordBytes /\ WordBytes + 0 + WordBytes <= Len(Pend) /\ WordBytes + 0 = WordBytes
        BY <1>3, <1>4, <2>1
    <2>4. Has(Pend', 0, "size", ExtramSize, WordBytes, speed)
        BY <1>3, <1>4, <2>1, <2>3
    <2>5. ExtramPlace'
        BY <1>1, <1>8, <2>2, <2>3, <2>4 DEF ExtramPlace, AtWord, HasWord, ExtramSize
    <2>6. Extending'
        BY <1>1, <1>5, <2>1, <2>5 DEF Extending, Asked
    <2> QED BY <1>1, <2>6 DEF LinkInv
<1>9. ASSUME Writing, Asked, RawPlace' \/ PackedPlace' PROVE LinkInv'
    <2>1. Loaded(block - 1)'
        BY <1>1, <1>9 DEF Writing, Loaded, Block, Intact
    <2>2. Writing'
        BY <1>1, <1>5, <1>9, <2>1 DEF Writing, Asked
    <2> QED BY <1>1, <2>2 DEF LinkInv
<1>10. CASE Writing /\ Asked /\ RawPlace /\ command = "RAM_WRITE"
    <2>0. args # <<block>>
        BY <1>1, <1>10, WordCounts, ArgsFact
    <2>1. /\ args = <<>> /\ Has(Pend, 0, "address", block, WordBytes, speed)
          /\ Has(Pend, WordBytes, "size", BlockSize, WordBytes, speed)
          /\ Len(Pend) = WordBytes + WordBytes + BlockSize + WordBytes
          /\ Has(Pend, WordBytes + WordBytes, "data", block, BlockSize, speed)
          /\ Has(Pend, WordBytes + WordBytes + BlockSize, "crc", block, WordBytes, speed)
        BY <1>1, <1>10, <2>0 DEF RawPlace, AtCommand, AtWord, HasField, HasWord, Rest
    <2>2. args' = <<block>>
        BY <1>1, <1>2, <2>1, WordRead, ArgsFact
    <2>3. /\ Len(Pend') = WordBytes + BlockSize + WordBytes
          /\ WordBytes + 0 = WordBytes /\ WordBytes + 0 + WordBytes <= Len(Pend)
          /\ WordBytes + WordBytes + BlockSize <= Len(Pend)
          /\ WordBytes + BlockSize \in Nat /\ WordBytes + (WordBytes + BlockSize) = WordBytes + WordBytes + BlockSize
          /\ WordBytes + (WordBytes + BlockSize) + WordBytes <= Len(Pend)
        BY <1>3, <1>4, <2>1
    <2>4. Has(Pend', 0, "size", BlockSize, WordBytes, speed)
        BY <1>3, <1>4, <2>1, <2>3
    <2>5. Has(Pend', WordBytes, "data", block, BlockSize, speed)
        BY <1>3, <1>4, <2>1, <2>3
    <2>6. Has(Pend', WordBytes + BlockSize, "crc", block, WordBytes, speed)
        BY <1>3, <1>4, <2>1, <2>3
    <2>7. RawPlace'
        BY <1>1, <1>10, <2>2, <2>3, <2>4, <2>5, <2>6 DEF RawPlace, AtWord, HasField, HasWord, Rest
    <2> QED BY <1>9, <1>10, <2>7
<1>11. CASE Writing /\ Asked /\ PackedPlace /\ command = "WRITE_RAM_LZ4"
    <2>0. args # <<block, PackedSize>>
        BY <1>1, <1>11, WordCounts, ArgsFact
    <2>1. args = <<>> \/ args = <<block>>
        BY <1>1, <1>11, <2>0 DEF PackedPlace, AtCommand, AtWord
    <2>2. CASE args = <<>>
        <3>0. args # <<block>>
            BY <2>2, ArgsFact
        <3>1. /\ Has(Pend, 0, "address", block, WordBytes, speed)
              /\ Has(Pend, WordBytes, "size", PackedSize, WordBytes, speed)
              /\ Has(Pend, WordBytes + WordBytes, "size", BlockSize, WordBytes, speed)
              /\ Len(Pend) = WordBytes + WordBytes + WordBytes + PackedSize + WordBytes
              /\ Has(Pend, WordBytes + WordBytes + WordBytes, "packed", block, PackedSize, speed)
              /\ Has(Pend, WordBytes + WordBytes + WordBytes + PackedSize, "crc", block, WordBytes, speed)
            BY <1>1, <1>11, <2>0, <3>0 DEF PackedPlace, AtCommand, AtWord, HasField, HasWord, Rest
        <3>2. args' = <<block>>
            BY <1>1, <1>2, <2>2, <3>1, WordRead, ArgsFact
        <3>3. /\ Len(Pend') = WordBytes + WordBytes + PackedSize + WordBytes
              /\ WordBytes + 0 = WordBytes /\ WordBytes + 0 + WordBytes <= Len(Pend)
              /\ WordBytes + WordBytes + WordBytes <= Len(Pend)
              /\ WordBytes + WordBytes \in Nat /\ WordBytes + (WordBytes + WordBytes) = WordBytes + WordBytes + WordBytes
              /\ WordBytes + (WordBytes + WordBytes) + PackedSize <= Len(Pend)
              /\ WordBytes + WordBytes + PackedSize \in Nat
              /\ WordBytes + (WordBytes + WordBytes + PackedSize) = WordBytes + WordBytes + WordBytes + PackedSize
              /\ WordBytes + (WordBytes + WordBytes + PackedSize) + WordBytes <= Len(Pend)
            BY <1>3, <1>4, <3>1
        <3>4. Has(Pend', 0, "size", PackedSize, WordBytes, speed)
            BY <1>3, <1>4, <3>1, <3>3
        <3>5. Has(Pend', WordBytes, "size", BlockSize, WordBytes, speed)
            BY <1>3, <1>4, <3>1, <3>3
        <3>6. Has(Pend', WordBytes + WordBytes, "packed", block, PackedSize, speed)
            BY <1>3, <1>4, <3>1, <3>3
        <3>7. Has(Pend', WordBytes + WordBytes + PackedSize, "crc", block, WordBytes, speed)
            BY <1>3, <1>4, <3>1, <3>3
        <3>8. PackedPlace'
            BY <1>1, <1>11, <3>2, <3>3, <3>4, <3>5, <3>6, <3>7 DEF PackedPlace, AtWord, HasField, HasWord, Rest
        <3> QED BY <1>9, <1>11, <3>8
    <2>3. CASE args = <<block>>
        <3>0. args # <<>>
            BY <2>3, ArgsFact
        <3>1. /\ Has(Pend, 0, "size", PackedSize, WordBytes, speed)
              /\ Has(Pend, WordBytes, "size", BlockSize, WordBytes, speed)
              /\ Len(Pend) = WordBytes + WordBytes + PackedSize + WordBytes
              /\ Has(Pend, WordBytes + WordBytes, "packed", block, PackedSize, speed)
              /\ Has(Pend, WordBytes + WordBytes + PackedSize, "crc", block, WordBytes, speed)
            BY <1>1, <1>11, <2>0, <3>0 DEF PackedPlace, AtCommand, AtWord, HasField, HasWord, Rest
        <3>2. args' = <<block, PackedSize>>
            <4>1. WordValues(got) = {PackedSize}
                BY <1>1, <3>1, WordRead
            <4>2. args' = Append(<<block>>, PackedSize)
                BY <1>2, <2>3, <4>1
            <4> QED BY <4>2, ArgsFact
        <3>3. /\ Len(Pend') = WordBytes + PackedSize + WordBytes
              /\ WordBytes + 0 = WordBytes /\ WordBytes + 0 + WordBytes <= Len(Pend)
              /\ WordBytes + WordBytes + PackedSize <= Len(Pend)
              /\ WordBytes + PackedSize \in Nat /\ WordBytes + (WordBytes + PackedSize) = WordBytes + WordBytes + PackedSize
              /\ WordBytes + (WordBytes + PackedSize) + WordBytes <= Len(Pend)
            BY <1>3, <1>4, <3>1
        <3>4. Has(Pend', 0, "size", BlockSize, WordBytes, speed)
            BY <1>3, <1>4, <3>1, <3>3
        <3>5. Has(Pend', WordBytes, "packed", block, PackedSize, speed)
            BY <1>3, <1>4, <3>1, <3>3
        <3>6. Has(Pend', WordBytes + PackedSize, "crc", block, WordBytes, speed)
            BY <1>3, <1>4, <3>1, <3>3
        <3>7. PackedPlace'
            BY <1>1, <1>11, <3>2, <3>3, <3>4, <3>5, <3>6 DEF PackedPlace, AtWord, HasField, HasWord, Rest
        <3> QED BY <1>9, <1>11, <3>7
    <2> QED BY <2>1, <2>2, <2>3
<1>12. CASE Jumping /\ Asked /\ GotoPlace /\ command = "GOTO"
    BY <1>1, <1>6, <1>12, WordCounts
<1> QED BY <1>1, <1>7, <1>8, <1>10, <1>11, <1>12, WordPlaces

\* cmd_set_speed has the speed that the host asked for.
LEMMA CmdSetSpeedKeeps ==
    ASSUME TypeInv, TypeInv', LinkInv, CmdSetSpeed
    PROVE  LinkInv'
<1>1. PICK w \in Words : LastWord("SET_SPEED", w) /\ deviceSpeed' = w
    BY DEF CmdSetSpeed
<1>2. /\ stage' = "await_ping" /\ args' = <<>> /\ got' = <<>>
      /\ UNCHANGED <<phase, waiting, block, speed, hostSpeed, wire, fifo, up, command, extram, ram, entry, faults, blind,
                     overrun>>
    BY DEF CmdSetSpeed, host, line
<1>3. stage = "word" /\ command = "SET_SPEED" /\ Len(got) = WordBytes /\ w \in WordValues(got)
    BY <1>1 DEF LastWord
<1>4. Switching
    BY <1>3, WordPlaces
<1>5. Pings' = Pings /\ (Pings = 0 \/ Pings = 1) /\ (~waiting => Pings = 0)
    BY <1>2 DEF Pings
<1>6. Len(Pend) = WordBytes + Pings /\ Has(Pend, 0, "speed", speed, WordBytes, BootSpeed)
    BY <1>3, <1>4 DEF Switching, SpeedPlace, AtCommand, HasWord
<1>7. w = speed
    BY <1>3, <1>6, WordRead
<1>8. Len(Pend') = Pings
    <2>1. Rests(Pend, Pend', WordBytes)
        BY <1>2, <1>3, DropGot
    <2>2. Len(Pend') = Len(Pend) - WordBytes
        BY <2>1 DEF Rests
    <2> QED BY <1>5, <1>6, <2>2, ConstantsFact
<1>9. SpeedPlace'
    <2>1. Len(Pend') <= Pings'
        BY <1>5, <1>8
    <2> QED BY <1>1, <1>2, <1>7, <2>1 DEF SpeedPlace
<1>10. phase = "switch" => wire = <<>>
    <2> SUFFICES ASSUME phase = "switch" PROVE wire = <<>>
        OBVIOUS
    <2>1. Pings = 0
        BY <1>4, <1>5 DEF Switching
    <2>2. Len(wire) = 0
        BY <1>3, <1>6, <2>1, ConstantsFact, PendFact
    <2> QED BY <2>2, PendEmpty
<1>11. Switching'
    BY <1>2, <1>4, <1>5, <1>9, <1>10 DEF Switching, BootSpeed
<1> QED BY <1>2, <1>11 DEF LinkInv

\* The phone takes a byte for a ping, or not.
LEMMA AwaitPingKeeps ==
    ASSUME TypeInv, TypeInv', LinkInv, AwaitPing
    PROVE  LinkInv'
<1>1. /\ stage = "await_ping" /\ fifo # <<>> /\ fifo' = Tail(fifo)
      /\ UNCHANGED <<phase, waiting, block, speed, hostSpeed, wire, deviceSpeed, extram, ram, entry, faults, blind, overrun>>
      /\ \/ UNCHANGED <<up, stage, command, args, got>>
         \/ Put("PONG") /\ stage' = "command" /\ args' = <<>> /\ got' = <<>>
    BY DEF AwaitPing, ToCommand, host, line
<1>2. Switching
    <2>1. ~Readying /\ ~Choosing /\ ~Pinging /\ ~Forwarding /\ ~GivenUp /\ ~Free /\ ~Idle /\ ~Started
        BY <1>1 DEF Readying, Choosing, Pinging, AtCommand, Forwarding, GivenUp, Free, Idle, Started
    <2>2. ~ExtramPlace /\ ~GotoPlace /\ ~CrcPlace
        BY <1>1 DEF ExtramPlace, GotoPlace, CrcPlace, AtCommand, AtWord
    <2>3. ~RawPlace /\ ~PackedPlace
        BY <1>1 DEF RawPlace, PackedPlace, AtCommand, AtWord
    <2> QED BY <2>1, <2>2, <2>3 DEF LinkInv, Extending, Writing, Jumping
<1>3. up = <<>> /\ args = <<>> /\ got = <<>> /\ deviceSpeed = speed /\ Len(Pend) <= Pings
    BY <1>1, <1>2 DEF Switching, SpeedPlace, AtCommand, AtWord
<1>4. Rests(Pend, Pend', 1) /\ Len(Pend) >= 1 /\ Len(Pend) \in Nat
    BY <1>1, <1>3, DropByte
<1>5. waiting /\ Pings = 1
    <2>1. Pings = 0 \/ Pings = 1
        BY DEF Pings
    <2>2. Pings = 1
        BY <1>3, <1>4, <2>1
    <2> QED BY <2>2 DEF Pings
<1>6. phase = "ping" /\ hostSpeed = speed
    BY <1>2, <1>5 DEF Switching
<1>7. Len(Pend') = 0
    BY <1>3, <1>4, <1>5 DEF Rests
<1>8. Pend' = <<>> /\ wire' = <<>>
    <2>1. Pend' \in Seq(Bytes) /\ wire' \in Seq(Bytes) /\ Len(wire') = 0
        <3>1. wire' \in Seq(Bytes)
            BY DEF TypeInv, TypeOK
        <3> QED BY <1>7, <3>1, PendNext
    <2> QED BY <1>7, <2>1, EmptyFact
<1>9. Pings' = 1 /\ Len(wire') <= Pings' /\ Len(Pend') <= Pings'
    <2>1. Pings' = 1
        BY <1>1, <1>5 DEF Pings
    <2>2. Len(wire') = 0
        BY <1>8, EmptyFact
    <2> QED BY <1>7, <2>1, <2>2
<1>10. CASE UNCHANGED <<up, stage, command, args, got>>
    <2>1. SpeedPlace'
        BY <1>1, <1>3, <1>9, <1>10 DEF SpeedPlace
    <2>2. Switching'
        BY <1>1, <1>3, <1>6, <1>9, <1>10, <2>1 DEF Switching
    <2> QED BY <1>1, <2>2 DEF LinkInv
<1>11. CASE Put("PONG") /\ stage' = "command" /\ args' = <<>> /\ got' = <<>>
    <2>1. Reply("PONG")'
        BY <1>1, <1>3, <1>11, PutReply
    <2>2. SameSpeed'
        <3>1. Len(wire') = 0
            BY <1>8, EmptyFact
        <3>2. \A i \in 1 .. Len(wire') : FALSE
            BY <3>1
        <3> QED BY <3>2 DEF SameSpeed
    <2>3. Pinging'
        BY <1>1, <1>3, <1>5, <1>6, <1>8, <1>11, <2>1, <2>2 DEF Pinging, Settled, AtCommand
    <2> QED BY <1>1, <2>3 DEF LinkInv
<1> QED BY <1>1, <1>10, <1>11

\* cmd_init_extram has the host's own address and size.
LEMMA CmdInitExtramKeeps ==
    ASSUME TypeInv, TypeInv', LinkInv, CmdInitExtram
    PROVE  LinkInv'
<1>1. PICK w \in Words : /\ LastWord("INIT_EXTRAM", w)
                         /\ args[1] = 0 /\ w = ExtramSize => Put("SUCCESS") /\ extram' = TRUE
    BY DEF CmdInitExtram
<1>2. /\ stage' = "command" /\ args' = <<>> /\ got' = <<>>
      /\ UNCHANGED <<phase, waiting, block, speed, hostSpeed, wire, fifo, deviceSpeed, ram, entry, faults, blind, overrun>>
    BY DEF CmdInitExtram, ToCommand, host, line
<1>3. stage = "word" /\ command = "INIT_EXTRAM" /\ Len(got) = WordBytes /\ w \in WordValues(got) /\ Len(args) + 1 = 2
    BY <1>1, WordCounts DEF LastWord
<1>4. Extending /\ Asked /\ ExtramPlace
    BY <1>3, WordPlaces
<1>5. args # <<>>
    BY <1>3, ArgsFact
<1>6. args = <<0>> /\ Len(Pend) = WordBytes /\ Has(Pend, 0, "size", ExtramSize, WordBytes, speed)
    BY <1>3, <1>4, <1>5 DEF ExtramPlace, AtCommand, HasWord
<1>7. w = ExtramSize /\ args[1] = 0
    BY <1>3, <1>6, WordRead, ArgsFact
<1>8. Put("SUCCESS") /\ extram' = TRUE
    BY <1>1, <1>7
<1>9. Reply("SUCCESS")'
    BY <1>2, <1>4, <1>8, PutReply DEF Asked
<1>10. Len(Pend') = Len(Pend) - WordBytes /\ (SameSpeed => SameSpeed')
    BY <1>2, <1>3, WordTaken
<1>11. Pend' = <<>>
    <2>1. Len(Pend') = 0 /\ Pend' \in Seq(Bytes)
        BY <1>6, <1>10, ConstantsFact, PendNext
    <2> QED BY <2>1, EmptyFact
<1>12. Extending'
    BY <1>2, <1>4, <1>8, <1>9, <1>10, <1>11 DEF Extending, Settled, Asked, Idle
<1> QED BY <1>2, <1>12 DEF LinkInv

\* cmd_goto has the address of the payload.
LEMMA CmdGotoKeeps ==
    ASSUME TypeInv, LinkInv, CmdGoto
    PROVE  LinkInv'
<1>1. PICK w \in Words : LastWord("GOTO", w) /\ entry' = w
    BY DEF CmdGoto
<1>2. /\ stage' = "running" /\ fifo' = <<>> /\ Put("SUCCESS")
      /\ UNCHANGED <<phase, waiting, block, speed, hostSpeed, wire, deviceSpeed, ram, faults, blind, overrun>>
    BY DEF CmdGoto, host, line
<1>3. stage = "word" /\ command = "GOTO" /\ Len(got) = WordBytes /\ w \in WordValues(got)
    BY <1>1 DEF LastWord
<1>4. Jumping /\ Asked /\ GotoPlace
    BY <1>3, WordPlaces
<1>5. Len(Pend) = WordBytes /\ Has(Pend, 0, "address", Exec, WordBytes, speed)
    BY <1>3, <1>4 DEF GotoPlace, AtCommand, HasWord
<1>6. w = Exec
    BY <1>3, <1>5, WordRead
<1>7. wire = <<>>
    <2>1. Len(wire) = 0
        BY <1>3, <1>5, ConstantsFact, PendFact
    <2> QED BY <2>1, PendEmpty
<1>8. Started'
    <2>1. Loaded(Blocks)'
        BY <1>2, <1>4 DEF Jumping, Loaded, Block, Intact
    <2> QED BY <1>1, <1>2, <1>6, <1>7, <2>1 DEF Started, Exec
<1>9. Reply("SUCCESS")'
    BY <1>2, <1>4, PutReply DEF Asked
<1>10. Settled'
    BY <1>2, <1>4 DEF Jumping, Settled, SameSpeed
<1>11. Jumping'
    BY <1>2, <1>4, <1>8, <1>9, <1>10 DEF Jumping, Asked, Started
<1> QED BY <1>2, <1>11 DEF LinkInv

\* cmd_ram_write and cmd_write_ram_lz4 have the host's address and sizes: neither is refused.
LEMMA CmdWriteKeeps ==
    ASSUME TypeInv, TypeInv', LinkInv, CmdWrite
    PROVE  LinkInv'
<1>1. PICK c \in {"RAM_WRITE", "WRITE_RAM_LZ4"}, w \in Words :
           /\ LastWord(c, w) /\ args' = Append(args, w)
           /\ stage' = CASE c = "RAM_WRITE" -> "raw"
                         [] c = "WRITE_RAM_LZ4" /\ (TooLarge(args[2]) \/ TooLarge(w)) -> "discard"
                         [] OTHER -> "packed"
    BY DEF CmdWrite
<1>2. /\ got' = <<>>
      /\ UNCHANGED <<phase, waiting, block, speed, hostSpeed, wire, fifo, up, command, deviceSpeed, extram, ram, entry,
                     faults, blind, overrun>>
    BY DEF CmdWrite, host, line
<1>3. stage = "word" /\ command = c /\ Len(got) = WordBytes /\ w \in WordValues(got) /\ Len(args) + 1 = WordCount(c)
    BY <1>1 DEF LastWord
<1>4. /\ Writing /\ Asked
      /\ c = "RAM_WRITE" => RawPlace
      /\ c = "WRITE_RAM_LZ4" => PackedPlace
    BY <1>1, <1>3, WordPlaces
<1>5. /\ Len(Pend) \in Nat /\ (SameSpeed => SameSpeed') /\ Len(Pend') = Len(Pend) - WordBytes
      /\ \A start, size \in Nat : \A kind, value, baud :
             WordBytes + start + size <= Len(Pend) /\ Has(Pend, WordBytes + start, kind, value, size, baud)
             => Has(Pend', start, kind, value, size, baud)
    BY <1>2, <1>3, WordTaken
<1>6. WordBytes \in Nat /\ BlockSize \in Nat /\ PackedSize \in Nat /\ PackedSize <= BlockSize /\ 0 \in Nat
    BY ConstantsFact
<1>7. Settled' /\ Loaded(block - 1)'
    BY <1>2, <1>4, <1>5 DEF Writing, Settled, Loaded, Block, Intact
<1>8. ASSUME RawPlace' \/ PackedPlace' PROVE LinkInv'
    <2>1. Writing'
        BY <1>2, <1>4, <1>7, <1>8 DEF Writing, Asked
    <2> QED BY <1>2, <2>1 DEF LinkInv
<1>9. CASE c = "RAM_WRITE"
    <2>0. args # <<>>
        BY <1>3, <1>9, WordCounts, ArgsFact
    <2>1. /\ args = <<block>> /\ Has(Pend, 0, "size", BlockSize, WordBytes, speed)
          /\ Len(Pend) = WordBytes + BlockSize + WordBytes
          /\ Has(Pend, WordBytes, "data", block, BlockSize, speed)
          /\ Has(Pend, WordBytes + BlockSize, "crc", block, WordBytes, speed)
        BY <1>3, <1>4, <1>9, <2>0 DEF RawPlace, AtCommand, AtWord, HasField, HasWord, Rest
    <2>2. w = BlockSize
        BY <1>3, <2>1, WordRead
    <2>3. args' = <<block, BlockSize>>
        <3>1. args' = Append(<<block>>, BlockSize)
            BY <1>1, <2>1, <2>2
        <3> QED BY <3>1, ArgsFact
    <2>4. stage' = "raw"
        BY <1>1, <1>9
    <2>5. /\ Len(Pend') = 0 + BlockSize + WordBytes
          /\ WordBytes + 0 = WordBytes /\ WordBytes + 0 + BlockSize <= Len(Pend)
          /\ WordBytes + BlockSize + WordBytes <= Len(Pend) /\ 0 + BlockSize = BlockSize
        BY <1>5, <1>6, <2>1
    <2>6. Has(Pend', 0, "data", block, BlockSize, speed)
        BY <1>5, <1>6, <2>1, <2>5
    <2>7. Has(Pend', 0 + BlockSize, "crc", block, WordBytes, speed)
        BY <1>5, <1>6, <2>1, <2>5
    <2>8. RawPlace'
        BY <1>2, <1>3, <1>9, <2>3, <2>4, <2>5, <2>6, <2>7 DEF RawPlace, HasField, HasWord, Rest
    <2> QED BY <1>8, <2>8
<1>10. CASE c = "WRITE_RAM_LZ4"
    <2>0. args # <<>> /\ args # <<block>>
        <3>1. Len(args) + 1 = 3
            BY <1>3, <1>10, WordCounts
        <3>2. Len(<<>>) = 0 /\ Len(<<block>>) = 1
            BY ArgsFact
        <3>3. ASSUME args = <<>> PROVE FALSE
            BY <3>1, <3>2, <3>3
        <3>4. ASSUME args = <<block>> PROVE FALSE
            BY <3>1, <3>2, <3>4
        <3> QED BY <3>3, <3>4
    <2>1. /\ args = <<block, PackedSize>> /\ Has(Pend, 0, "size", BlockSize, WordBytes, speed)
          /\ Len(Pend) = WordBytes + PackedSize + WordBytes
          /\ Has(Pend, WordBytes, "packed", block, PackedSize, speed)
          /\ Has(Pend, WordBytes + PackedSize, "crc", block, WordBytes, speed)
        BY <1>3, <1>4, <1>10, <2>0 DEF PackedPlace, AtCommand, AtWord, HasField, HasWord, Rest
    <2>2. w = BlockSize
        BY <1>3, <2>1, WordRead
    <2>3. args' = <<block, PackedSize, BlockSize>>
        <3>1. args' = Append(<<block, PackedSize>>, BlockSize)
            BY <1>1, <2>1, <2>2
        <3>2. Append(<<block, PackedSize>>, BlockSize) = <<block, PackedSize, BlockSize>>
            BY AppendThird, Zenon
        <3> QED BY <3>1, <3>2
    <2>4. ~TooLarge(args[2]) /\ ~TooLarge(w)
        <3>1. args[2] = PackedSize
            BY <2>1, ArgsFact
        <3> QED BY <1>6, <2>2, <3>1 DEF TooLarge
    <2>5. stage' = "packed"
        BY <1>1, <1>10, <2>4
    <2>6. /\ Len(Pend') = 0 + PackedSize + WordBytes
          /\ WordBytes + 0 = WordBytes /\ WordBytes + 0 + PackedSize <= Len(Pend)
          /\ WordBytes + PackedSize + WordBytes <= Len(Pend) /\ 0 + PackedSize = PackedSize
        BY <1>5, <1>6, <2>1
    <2>7. Has(Pend', 0, "packed", block, PackedSize, speed)
        BY <1>5, <1>6, <2>1, <2>6
    <2>8. Has(Pend', 0 + PackedSize, "crc", block, WordBytes, speed)
        BY <1>5, <1>6, <2>1, <2>6
    <2>9. PackedPlace'
        BY <1>2, <1>3, <1>10, <2>3, <2>5, <2>6, <2>7, <2>8 DEF PackedPlace, HasField, HasWord, Rest
    <2> QED BY <1>8, <2>9
<1> QED BY <1>1, <1>9, <1>10

\* Where a block's data and CRC are read.
LEMMA WritePlaces ==
    ASSUME LinkInv, stage \in {"raw", "packed", "decompress", "crc", "check"}
    PROVE  /\ Writing /\ Asked
           /\ stage = "raw" => RawPlace
           /\ stage \in {"packed", "decompress"} => PackedPlace
           /\ stage \in {"crc", "check"} => CrcPlace
<1>1. ~Idle /\ ~Free /\ ~Started /\ ~Readying /\ ~Choosing /\ ~Pinging /\ ~Forwarding /\ ~GivenUp
    BY DEF Idle, Free, Started, Readying, Choosing, Pinging, AtCommand, Forwarding, GivenUp
<1>2. ~Switching /\ ~ExtramPlace /\ ~GotoPlace
    BY DEF Switching, SpeedPlace, ExtramPlace, GotoPlace, AtCommand, AtWord
<1>3. Writing
    BY <1>1, <1>2 DEF LinkInv, Extending, Jumping
<1>4. Asked /\ (RawPlace \/ PackedPlace \/ CrcPlace)
    BY <1>1, <1>3 DEF Writing
<1>5. RawPlace => stage = "raw"
    BY DEF RawPlace, AtCommand, AtWord
<1>6. PackedPlace => stage \in {"packed", "decompress"}
    BY DEF PackedPlace, AtCommand, AtWord
<1>7. CrcPlace => stage \in {"crc", "check"}
    BY DEF CrcPlace
<1> QED BY <1>3, <1>4, <1>5, <1>6, <1>7

\* A block is in memory: its CRC is next.
LEMMA Stored ==
    ASSUME TypeInv, TypeInv', Writing, Asked, command \in {"RAM_WRITE", "WRITE_RAM_LZ4"}, args[1] = block,
           args[Len(args)] = BlockSize, faults = 0, ~blind, ~overrun, Store(args[1], BlockSize, Block(block)), NEW kind, Rest(0, kind, Len(got)),
           stage' = "crc", got' = <<>>,
           UNCHANGED <<phase, waiting, block, speed, hostSpeed, wire, fifo, up, command, args, deviceSpeed, extram, faults,
                       blind, overrun>>
    PROVE  LinkInv'
<1>1. /\ phase = "write" /\ block \in 1 .. Blocks /\ DOMAIN ram = 1 .. Blocks /\ (UseExtram => extram)
      /\ Loaded(block - 1) /\ Settled
    BY DEF Writing, TypeInv, TypeOK, PlaceInv
<1>2. ram' = [ram EXCEPT ![block] = Block(block)]
    BY <1>1, ConstantsFact DEF Store
<1>3. \A k \in 1 .. Blocks : k <= block => k <= block - 1 \/ k = block
    BY <1>1, ConstantsFact
<1>4. \A k \in 1 .. Blocks : k <= block => ram'[k] = Block(k)
    BY <1>1, <1>2, <1>3 DEF Loaded
<1>5. Loaded(block)'
    BY <1>4 DEF Loaded, Block, Intact
<1>6. Loaded(block - 1)'
    <2>1. \A k \in 1 .. Blocks : k <= block - 1 => k <= block
        BY <1>1, ConstantsFact
    <2> QED BY <1>4, <2>1 DEF Loaded, Block, Intact
<1>7. Rests(Pend, Pend', Len(got)) /\ Len(got) \in Nat /\ WordBytes \in Nat
    BY DropGot, PendFact, ConstantsFact
<1>8. /\ Len(Pend) = 0 + Len(got) + WordBytes /\ Has(Pend, 0 + Len(got), "crc", block, WordBytes, speed)
    BY DEF Rest, HasWord
<1>9. Len(Pend') = WordBytes /\ Len(got) + 0 = 0 + Len(got) /\ Len(got) + 0 + WordBytes <= Len(Pend) /\ Len(Pend) \in Nat
    <2>1. Len(Pend') = Len(Pend) - Len(got)
        BY <1>7 DEF Rests
    <2> QED BY <1>7, <1>8, <2>1
<1>10. Has(Pend', 0, "crc", block, WordBytes, speed)
    <2>1. Has(Pend, Len(got) + 0, "crc", block, WordBytes, speed)
        BY <1>8, <1>9
    <2> QED BY <1>7, <1>9, <2>1, ShiftHas
<1>11. CrcPlace'
    BY <1>5, <1>9, <1>10 DEF CrcPlace, HasWord
<1>12. Settled'
    BY <1>1 DEF Settled, SameSpeed
<1>13. Writing'
    BY <1>1, <1>6, <1>11, <1>12 DEF Writing, Asked
<1> QED BY <1>13 DEF LinkInv

\* cmd_ram_write puts the block where it belongs.
LEMMA StoreRawKeeps ==
    ASSUME TypeInv, TypeInv', LinkInv, StoreRaw
    PROVE  LinkInv'
<1>1. /\ stage = "raw" /\ Len(got) = Needed /\ Store(args[1], args[2], Content(got)) /\ stage' = "crc" /\ got' = <<>>
      /\ UNCHANGED <<phase, waiting, block, speed, hostSpeed, wire, fifo, up, command, args, deviceSpeed, extram, faults,
                     blind, overrun>>
    BY DEF StoreRaw, host, line
<1>2. Writing /\ Asked /\ RawPlace
    BY <1>1, WritePlaces
<1>3. command = "RAM_WRITE" /\ args = <<block, BlockSize>> /\ Rest(0, "data", BlockSize)
    BY <1>1, <1>2 DEF RawPlace, AtCommand, AtWord
<1>4. args[1] = block /\ args[2] = BlockSize
    BY <1>3, ArgsFact
<1>5. Len(got) = BlockSize
    BY <1>1, <1>4 DEF Needed
<1>6. Content(got) = Block(block)
    <2>1. Has(Pend, 0, "data", block, BlockSize, speed)
        BY <1>3 DEF Rest, HasField
    <2>2. Content(got) = Intact("data", block, Len(got))
        BY <1>5, <2>1, FieldRead
    <2> QED BY <1>5, <2>2 DEF Block
<1>7. faults = 0 /\ ~blind /\ ~overrun
    BY DEF LinkInv
<1>8. Rest(0, "data", Len(got)) /\ Store(args[1], BlockSize, Block(block))
    BY <1>1, <1>3, <1>4, <1>5, <1>6
<1>9. args[Len(args)] = BlockSize
    BY <1>3, ArgsFact
<1> QED BY <1>1, <1>2, <1>3, <1>4, <1>7, <1>8, <1>9, Stored

\* A compressed block has been read: lz4_decompress is next.
LEMMA ReadPackedKeeps ==
    ASSUME TypeInv, LinkInv, ReadPacked
    PROVE  LinkInv'
<1>1. /\ stage = "packed" /\ Len(got) = Needed /\ stage' = "decompress"
      /\ UNCHANGED <<phase, waiting, block, speed, hostSpeed, wire, fifo, up, command, args, got, deviceSpeed, extram, ram,
                     faults, blind, overrun>>
    BY DEF ReadPacked, host, line
<1>2. Writing /\ Asked /\ PackedPlace
    BY <1>1, WritePlaces
<1>3. command = "WRITE_RAM_LZ4" /\ args = <<block, PackedSize, BlockSize>> /\ Rest(0, "packed", PackedSize)
    BY <1>1, <1>2 DEF PackedPlace, AtCommand, AtWord
<1>4. args[2] = PackedSize
    BY <1>3, ArgsFact
<1>5. Len(got) = PackedSize
    BY <1>1, <1>4 DEF Needed
<1>6. Pend' = Pend
    BY <1>1 DEF Pend
<1>7. PackedPlace'
    BY <1>1, <1>3, <1>5, <1>6 DEF PackedPlace, Rest, HasField, HasWord
<1>8. Settled' /\ Loaded(block - 1)'
    BY <1>1, <1>2 DEF Writing, Settled, SameSpeed, Loaded, Block, Intact
<1>9. Writing'
    BY <1>1, <1>2, <1>7, <1>8 DEF Writing, Asked
<1> QED BY <1>1, <1>9 DEF LinkInv

\* lz4_decompress gives back the block, where it belongs.
LEMMA DecompressKeeps ==
    ASSUME TypeInv, TypeInv', LinkInv, Decompress
    PROVE  LinkInv'
<1>1. /\ stage = "decompress" /\ stage' = "crc" /\ got' = <<>>
      /\ UNCHANGED <<phase, waiting, block, speed, hostSpeed, wire, fifo, up, args, deviceSpeed, extram, faults, blind, overrun>>
      /\ \/ \E k \in 1 .. Blocks : Unpacks(k) /\ Store(args[1], args[3], Block(k)) /\ UNCHANGED command
         \/ \A k \in 1 .. Blocks : ~Unpacks(k)
    BY DEF Decompress, host, line
<1>2. Writing /\ Asked /\ PackedPlace
    BY <1>1, WritePlaces
<1>3. /\ command = "WRITE_RAM_LZ4" /\ args = <<block, PackedSize, BlockSize>> /\ Rest(0, "packed", PackedSize)
      /\ Len(got) = PackedSize
    BY <1>1, <1>2 DEF PackedPlace, AtCommand, AtWord
<1>4. args[1] = block /\ args[3] = BlockSize
    BY <1>3, ArgsFact
<1>5. Content(got) = Intact("packed", block, PackedSize)
    <2>1. Has(Pend, 0, "packed", block, PackedSize, speed)
        BY <1>3 DEF Rest, HasField
    <2> QED BY <1>3, <2>1, FieldRead
<1>6. block \in 1 .. Blocks
    BY <1>2 DEF Writing, TypeInv, TypeOK, PlaceInv
<1>7. Unpacks(block)
    BY <1>4, <1>5 DEF Unpacks
<1>8. ASSUME NEW k \in 1 .. Blocks, Unpacks(k) PROVE k = block
    <2>1. Intact("packed", k, PackedSize) = Intact("packed", block, PackedSize)
        BY <1>5, <1>8 DEF Unpacks
    <2>2. 1 \in 1 .. PackedSize
        BY ConstantsFact
    <2>3. <<"packed", k, 1>> = <<"packed", block, 1>>
        <3>1. Intact("packed", k, PackedSize)[1] = <<"packed", k, 1>> /\ Intact("packed", block, PackedSize)[1] = <<"packed", block, 1>>
            BY <2>2 DEF Intact
        <3> QED BY <2>1, <3>1
    <2>4. <<"packed", k, 1>>[2] = k /\ <<"packed", block, 1>>[2] = block
        BY ArgsFact
    <2> QED BY <2>3, <2>4
<1>9. Store(args[1], BlockSize, Block(block)) /\ command' = command
    BY <1>1, <1>4, <1>6, <1>7, <1>8
<1>10. faults = 0 /\ ~blind /\ ~overrun
    BY DEF LinkInv
<1>11. Rest(0, "packed", Len(got))
    BY <1>3
<1>12. args[Len(args)] = BlockSize
    <2>1. Len(<<block, PackedSize, BlockSize>>) = 3
        OBVIOUS
    <2> QED BY <1>3, <1>4, <2>1
<1> QED BY <1>1, <1>2, <1>3, <1>4, <1>9, <1>10, <1>11, <1>12, Stored

\* The CRC has been read.
LEMMA ReadCrcKeeps ==
    ASSUME TypeInv, LinkInv, ReadCrc
    PROVE  LinkInv'
<1>1. /\ stage = "crc" /\ Len(got) = WordBytes /\ stage' = "check"
      /\ UNCHANGED <<phase, waiting, block, speed, hostSpeed, wire, fifo, up, command, args, got, deviceSpeed, extram, ram,
                     faults, blind, overrun>>
    BY DEF ReadCrc, host, line
<1>2. Writing /\ Asked /\ CrcPlace
    BY <1>1, WritePlaces
<1>3. Pend' = Pend
    BY <1>1 DEF Pend
<1>4. Settled' /\ Loaded(block - 1)' /\ (Loaded(block) => Loaded(block)')
    BY <1>1, <1>2 DEF Writing, Settled, SameSpeed, Loaded, Block, Intact
<1>5. CrcPlace'
    BY <1>1, <1>2, <1>3, <1>4 DEF CrcPlace, HasWord
<1>6. Writing'
    BY <1>1, <1>2, <1>4, <1>5 DEF Writing, Asked
<1> QED BY <1>1, <1>6 DEF LinkInv

\* The CRC is that of the block in memory.
LEMMA CheckKeeps ==
    ASSUME TypeInv, TypeInv', LinkInv, Check
    PROVE  LinkInv'
<1>1. /\ stage = "check" /\ stage' = "command" /\ args' = <<>> /\ got' = <<>>
      /\ UNCHANGED <<phase, waiting, block, speed, hostSpeed, wire, fifo, deviceSpeed, extram, ram, faults, overrun>>
    BY DEF Check, ToCommand, host
<1>2. Writing /\ Asked /\ CrcPlace
    BY <1>1, WritePlaces
<1>2a. WrittenSize # 0
    BY <1>2, ConstantsFact DEF CrcPlace, WrittenSize
<1>2b. CrcResults = {CrcMatches(args[1], got)}
    BY <1>2a DEF CrcResults
<1>2c. Put(IF command # "invalid" /\ CrcMatches(args[1], got) THEN "SUCCESS" ELSE "FAILURE") /\ blind' = (blind \/ FALSE)
    BY <1>2a, <1>2b DEF Check
<1>2d. ~blind'
    BY <1>2c DEF LinkInv
<1>3. /\ command # "invalid" /\ args[1] = block /\ Len(Pend) = WordBytes /\ Len(got) = WordBytes /\ Loaded(block)
      /\ Has(Pend, 0, "crc", block, WordBytes, speed)
    BY <1>1, <1>2 DEF CrcPlace, HasWord
<1>4. block \in 1 .. Blocks /\ block <= block
    BY <1>2, ConstantsFact DEF Writing, TypeInv, TypeOK, PlaceInv
<1>5. Content(got) = Intact("crc", block, WordBytes)
    BY <1>3, FieldRead
<1>6. ram[block] = Block(block)
    BY <1>3, <1>4 DEF Loaded
<1>7. CrcMatches(args[1], got)
    BY <1>3, <1>4, <1>5, <1>6 DEF CrcMatches
<1>8. Put("SUCCESS")
    BY <1>3, <1>7, <1>2c
<1>9. Reply("SUCCESS")'
    BY <1>1, <1>2, <1>8, PutReply DEF Asked
<1>10. Len(Pend') = Len(Pend) - WordBytes /\ (SameSpeed => SameSpeed')
    BY <1>1, <1>3, WordTaken
<1>11. Pend' = <<>>
    <2>1. Len(Pend') = 0 /\ Pend' \in Seq(Bytes)
        BY <1>3, <1>10, ConstantsFact, PendNext
    <2> QED BY <2>1, EmptyFact
<1>12. Loaded(block - 1)' /\ Loaded(block)'
    BY <1>1, <1>2, <1>3 DEF Writing, Loaded, Block, Intact
<1>13. Writing'
    BY <1>1, <1>2, <1>9, <1>10, <1>11, <1>12 DEF Writing, Settled, Asked, Idle
<1> QED BY <1>1, <1>13, <1>2d DEF LinkInv

\* What Init establishes.
LEMMA InitLink == Init => LinkInv
<1> SUFFICES ASSUME Init PROVE LinkInv
    OBVIOUS
<1>1. Pend = <<>>
    BY InitTypes, PendEmpty DEF Init
<1>2. Readying
    BY <1>1 DEF Init, Readying
<1> QED BY <1>2 DEF Init, LinkInv

\* A step over a line that damages and loses nothing.
LEMMA StepLink ==
    ASSUME MaxFaults = 0, TypeInv, TypeInv', LinkInv, [Next]_vars
    PROVE  LinkInv'
<1>1. CASE HostSteps
    BY <1>1, KeepSpeedKeeps, SetSpeedKeeps, SwitchSpeedKeeps, PingKeeps, InitExtramKeeps, WriteBlockKeeps, GotoKeeps,
       ReadStatusKeeps DEF HostSteps
<1>2. CASE DeviceSteps
    <2>1. ~Discarded
        BY NeverDiscards DEF Discarded
    <2> QED BY <1>2, <2>1, StartKeeps, TakeCommandKeeps, TakeByteKeeps, TakeWordKeeps, CmdSetSpeedKeeps, AwaitPingKeeps,
               CmdInitExtramKeeps, CmdGotoKeeps, CmdWriteKeeps, StoreRawKeeps, ReadPackedKeeps, DecompressKeeps,
               ReadCrcKeeps, CheckKeeps DEF DeviceSteps
<1>3. ~Faults
    <2>1. ~(faults < MaxFaults)
        BY DEF LinkInv
    <2> QED BY <2>1 DEF Faults, Damage, Lose, DamageStatus, LoseStatus
<1>4. CASE UNCHANGED vars
    <2>1. /\ UNCHANGED <<host, wire, fifo, up, device, line>>
        BY <1>4 DEF vars
    <2>2. /\ UNCHANGED <<phase, waiting, block, speed, hostSpeed>>
          /\ UNCHANGED <<stage, command, args, got, deviceSpeed, extram, ram, entry>>
          /\ UNCHANGED <<faults, blind, overrun>>
        BY <2>1 DEF host, device, line
    <2>3. wire' = wire /\ fifo' = fifo /\ up' = up
        BY <2>1
    <2>4. Pend' = Pend /\ (SameSpeed => SameSpeed')
        BY <2>2, <2>3 DEF Pend, SameSpeed
    <2>5. Len(wire) \in Nat
        BY PendFact
    <2>6. Len(wire') <= Len(wire) /\ Len(wire') \in Nat
        BY <2>3, <2>5
    <2> QED BY <2>1, <2>2, <2>3, <2>4, <2>6, Steady
<1> QED BY <1>1, <1>2, <1>3, <1>4, HostTimeoutKeeps, ArriveKeeps, WatchdogResetKeeps DEF Next

\* A line that damages and loses nothing.
CleanLine == MaxFaults = 0

\* Host, line and phone keep together, step by step of main().
LEMMA LinkKept == CleanLine => (Spec => [](TypeInv /\ LinkInv))
<1> SUFFICES ASSUME CleanLine PROVE Spec => [](TypeInv /\ LinkInv)
    OBVIOUS
<1>1. Init => TypeInv /\ LinkInv
    BY InitTypes, InitLink
<1>2. TypeInv /\ LinkInv /\ [Next]_vars => (TypeInv /\ LinkInv)'
    BY StepTypes, StepLink DEF CleanLine
<1> QED BY <1>1, <1>2, PTL DEF Spec

\* On a line without faults the receive FIFO never overflows, whatever the sizes of the
\* blocks: while lz4_decompress runs, only the CRC is still to come, and a word fits.
THEOREM FifoNeverOverruns == CleanLine => (Spec => []NoOverrun)
<1>1. LinkInv => NoOverrun
    BY DEF LinkInv, NoOverrun
<1> QED BY <1>1, LinkKept, PTL

\* On a line without faults a payload that boot.py reports as loaded is loaded and started:
\* for every number and size of blocks, compressed or not, at every speed, in internal or
\* external RAM, and whether or not the phone keeps up with the host.
THEOREM PayloadIsDelivered == CleanLine => (Spec => []PayloadIntact)
<1>1. LinkInv => PayloadIntact
    <2> SUFFICES ASSUME LinkInv, phase = "forward" PROVE stage = "running" /\ entry = Exec /\ \A k \in 1 .. Blocks : ram[k] = Block(k)
        BY DEF PayloadIntact
    <2>1. Started
        BY DEF LinkInv, Readying, Choosing, Switching, Pinging, Extending, Writing, Jumping, Forwarding, GivenUp
    <2>2. \A k \in 1 .. Blocks : k <= Blocks
        BY ConstantsFact
    <2> QED BY <2>1, <2>2 DEF Started, Loaded
<1> QED BY <1>1, LinkKept, PTL

\* On a line without faults the host never starts a request while a status is on its way.
THEOREM StatusesInStep == CleanLine => (Spec => []InStep)
<1>1. LinkInv => InStep
    <2> SUFFICES ASSUME LinkInv, ~waiting, ~HostDone PROVE up = <<>>
        BY DEF InStep
    <2> QED BY DEF LinkInv, Readying, Choosing, Free, Switching, Pinging, Extending, Asked, Writing, Jumping, Forwarding,
                   GivenUp, HostDone
<1> QED BY <1>1, LinkKept, PTL

=============================================================================
