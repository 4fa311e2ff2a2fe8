--------------------------- MODULE SimReaderProofs ---------------------------
(***************************************************************************)
(* The SIM reader, for every card, every loss on the line and all sizes:   *)
(* its buffers hold, the host gets the answer to its own request, and the  *)
(* reader implements the safety part of CcidSlot.  With a card that keeps  *)
(* the times and a line without faults, the two stay at the same byte.     *)
(***************************************************************************)
EXTENDS SimReader, SequenceTheorems, TLAPS

-----------------------------------------------------------------------------
\* The inductive invariant: the line.

Exchanging == {"send", "sent", "procedure", "receive", "sw2", "pps"}
Places == {"scan", "ack", "frame", "off", "serve", "atr"} \cup Exchanging

\* A byte of a request made so far, or noise.
Bytes == (0 .. count) \X Nat

LineType ==
    /\ count \in 0 .. MaxRequests /\ served \in 0 .. count
    /\ asked \in Requests \cup {Nothing} /\ (count > 0 => asked \in Requests)
    /\ wire \in Seq(Bytes) /\ fifo \in Seq(Bytes) /\ got \in Seq(Bytes)
    /\ need \in Nat /\ pc \in Places

\* The last byte of a request is the last byte on the line.
LastByte == <<count, FrameSize(asked)>>
LastInv ==
    /\ \A i \in 1 .. Len(wire) : wire[i] = LastByte => i = Len(wire)
    /\ \A i \in 1 .. Len(fifo) : fifo[i] = LastByte => i = Len(fifo) /\ wire = <<>>

\* Once a request is served, nothing of it is left that could be served again.
ServedInv == served = count => wire = <<>> /\ fifo = <<>> /\ got = <<>>

\* The bytes read so far are those of the last request.
GotIntact == Intact(got)

\* How far host_read_message is; a header that has come whole gives the request's size.
FrameInv ==
    /\ pc \notin {"ack", "frame"} => got = <<>>
    /\ pc = "ack" => Len(got) = 1
    /\ pc = "frame" =>
           /\ Len(got) >= 2 /\ need >= 1
           /\ Len(got) < 2 + HeaderSize => Len(got) + need = 2 + HeaderSize
           /\ Len(got) >= 2 + HeaderSize /\ GotIntact => Len(got) + need = FrameSize(asked)

LineInv == LineType /\ LastInv /\ ServedInv /\ FrameInv

-----------------------------------------------------------------------------
\* The inductive invariant: the request being served.

ServeInv ==
    /\ icc_active \in BOOLEAN
    /\ Serving => msg \in Requests
    /\ pc = "atr" => msg.type = "POWER_ON"
    /\ pc \in Exchanging => icc_active /\ msg.type \in {"TPDU", "PPS"}
    /\ pc \in {"procedure", "receive", "sw2"} => msg.type = "TPDU"
    /\ pc = "pps" => msg.type = "PPS"

\* What response[] and atr[] hold, and what is still to come.
CardPlaces == {"off", "mute", "wait", "atr", "answer", "pps", "give", "give all", "take", "take all", "sw2"}
Words == CardPlaces \cup {"none", "null", "ins", "~ins", "sw1", "excess"}
CardBytes == Words \X Nat
BufferBound ==
    /\ response \in Seq(CardBytes) /\ transferred \in Nat /\ left \in Nat
    /\ transferred <= MaxData /\ left <= MaxData
BufferInv ==
    /\ BufferBound
    /\ pc = "atr" => Len(response) < MaxAtr
    /\ pc \in {"send", "sent", "procedure", "receive"} /\ msg.type = "TPDU" =>
           /\ transferred <= msg.n
           /\ Len(response) = IF msg.sends THEN 0 ELSE transferred
    /\ pc = "receive" => ~msg.sends /\ left > 0 /\ transferred + left <= msg.n
    /\ pc = "sw2" => Len(response) <= MaxData + 1
    /\ pc \in {"send", "sent", "pps"} /\ msg.type = "PPS" => Len(response) < msg.n

\* What the card says is bytes.
CardInv == card \in CardPlaces /\ rxb \in CardBytes /\ said \in Seq(CardBytes)

-----------------------------------------------------------------------------
\* The inductive invariant: the host.

IsEcho(f) == f.kind = "echo"
IsReply(f) == f.kind = "reply" /\ f.id = count
Naks(n) == \A i \in 1 .. n : up[i].kind = "nak"

\* What a host that waits for an echo, or for a reply, finds.
EchoInv ==
    /\ served < count => ~Serving /\ Naks(Len(up))
    /\ served = count /\ Serving =>
           /\ Len(up) >= 1
           /\ Naks(Len(up) - 1) /\ IsEcho(up[Len(up)])
    /\ served = count /\ ~Serving =>
           /\ Len(up) >= 2
           /\ Naks(Len(up) - 2) /\ IsEcho(up[Len(up) - 1]) /\ IsReply(up[Len(up)])
ReplyInv ==
    /\ served = count
    /\ Serving => up = <<>>
    /\ ~Serving => Len(up) = 1 /\ IsReply(up[1])

Frames == [kind : {"echo", "reply", "nak"}, id : Nat, active : BOOLEAN, failed : BOOLEAN]

\* What command() has returned is the reply to the last request.
ReturnedInv == returned = NoFrame \/ IsReply(returned)

HostInv ==
    /\ host \in {"ready", "echo", "reply", "exit"}
    /\ up \in Seq(Frames)
    /\ overtaken \in BOOLEAN
    /\ ~overtaken =>
           /\ ReturnedInv
           /\ host = "ready" =>
                  up = <<>> /\ ~Serving /\ (pc = "off" \/ (wire = <<>> /\ fifo = <<>>))
           /\ host = "echo" => EchoInv
           /\ host = "reply" => ReplyInv
-----------------------------------------------------------------------------
\* Sizes and sequences.

\* The sizes one by one.
LEMMA ConstantsFact ==
    /\ HeaderSize \in Nat /\ HeaderSize >= 1 /\ TpduHeader \in Nat /\ TpduHeader >= 1
    /\ MaxData \in Nat /\ MaxData >= 1 /\ MaxAtr \in Nat /\ MaxAtr >= 1 /\ MaxAtr <= MaxData + 2
    /\ MaxPayload \in Nat /\ MaxData + 2 \in Nat
    /\ \A n \in PpsSizes : n \in Nat /\ n >= 1 /\ n <= MaxPayload
    /\ MaxRequests \in Nat
BY SizesAssumption

\* Every request has a frame of at least four bytes.
LEMMA SizeFact ==
    ASSUME NEW r \in Requests \cup {Nothing}
    PROVE  /\ Payload(r) \in Nat /\ FrameSize(r) \in Nat
           /\ FrameSize(r) = 2 + HeaderSize + Payload(r) + 1 /\ FrameSize(r) >= 4
<1>1. r.n \in Nat
    BY SizesAssumption DEF Requests, Nothing, Request
<1>2. Payload(r) \in Nat
    BY <1>1, SizesAssumption DEF Payload
<1> QED BY <1>2, ConstantsFact DEF FrameSize

\* The head and the rest of a sequence, place by place.
LEMMA TailFact ==
    ASSUME NEW S, NEW s \in Seq(S), s # <<>>
    PROVE  /\ Len(s) \in Nat /\ Len(s) >= 1 /\ Head(s) = s[1] /\ s[1] \in S
           /\ Tail(s) \in Seq(S) /\ Len(Tail(s)) = Len(s) - 1
           /\ \A i \in 1 .. Len(s) - 1 : Tail(s)[i] = s[i + 1]
           /\ Len(s) = 1 => Tail(s) = <<>>
<1>1. Len(s) \in Nat /\ Len(s) >= 1
    BY EmptySeq
<1>2. Head(s) = s[1] /\ s[1] \in S
    BY <1>1, ElementOfSeq
<1>3. Tail(s) \in Seq(S) /\ Len(Tail(s)) = Len(s) - 1 /\ \A i \in 1 .. Len(s) - 1 : Tail(s)[i] = s[i + 1]
    BY <1>1, HeadTailProperties
<1>4. \A t \in Seq(S) : t # <<>> => Len(t) # 0
    BY EmptySeq
<1>5. Len(s) = 1 => Tail(s) = <<>>
    <2>1. Len(s) = 1 => Len(Tail(s)) = 0
        BY <1>3
    <2> QED BY <1>3, <1>4, <2>1, Zenon
<1> QED BY <1>1, <1>2, <1>3, <1>5

\* A sequence with one element more.
LEMMA AppendFact ==
    ASSUME NEW S, NEW s \in Seq(S), NEW e \in S
    PROVE  /\ Append(s, e) \in Seq(S) /\ Len(s) \in Nat /\ Len(Append(s, e)) = Len(s) + 1
           /\ \A i \in 1 .. Len(s) : Append(s, e)[i] = s[i]
           /\ Append(s, e)[Len(s) + 1] = e
OBVIOUS

\* The first byte on the line, from the FIFO or from the wire.
LEMMA FirstFact ==
    ASSUME NEW S, NEW a \in Seq(S), NEW b \in Seq(S), a \o b # <<>>
    PROVE  /\ a # <<>> => Head(a \o b) = a[1]
           /\ a = <<>> => b # <<>> /\ Head(a \o b) = b[1]
<1>1. CASE a # <<>>
    BY <1>1, ConcatProperties, EmptySeq
<1>2. CASE a = <<>>
    BY <1>2, ConcatEmptySeq, TailFact
<1> QED BY <1>1, <1>2

\* Bytes of a request begin a frame only until the next request is made.
LEMMA IntactFact ==
    ASSUME NEW S, NEW s \in Seq(S), NEW e \in S
    PROVE  Intact(Append(s, e)) => Intact(s) /\ e = <<count, Len(s) + 1>>
<1> SUFFICES ASSUME Intact(Append(s, e)) PROVE Intact(s) /\ e = <<count, Len(s) + 1>>
    OBVIOUS
<1>1. Len(s) \in Nat /\ Len(Append(s, e)) = Len(s) + 1
    BY AppendFact
<1>2. \A k \in 1 .. Len(s) + 1 : Append(s, e)[k] = <<count, k>>
    BY <1>1 DEF Intact
<1>3. e = <<count, Len(s) + 1>>
    <2>1. Len(s) + 1 \in 1 .. Len(s) + 1
        BY <1>1
    <2>2. Append(s, e)[Len(s) + 1] = e
        BY AppendFact
    <2> QED BY <1>2, <2>1, <2>2, Zenon
<1>4. \A k \in 1 .. Len(s) : s[k] = <<count, k>>
    BY <1>1, <1>2, AppendFact
<1>5. s \in [1 .. Len(s) -> S]
    BY LenProperties
<1>6. s = [k \in 1 .. Len(s) |-> <<count, k>>]
    BY <1>4, <1>5
<1> QED BY <1>3, <1>6 DEF Intact

-----------------------------------------------------------------------------
\* The line's part of the invariant is inductive.

\* Nothing on the line, in the frame or of the host's request changes.
LEMMA LineFrame ==
    ASSUME LineInv, UNCHANGED <<asked, count, wire, fifo, got, need, served>>, pc' \in Places,
           pc' = pc \/ (pc \notin {"ack", "frame"} /\ pc' \notin {"ack", "frame"})
    PROVE  LineInv'
BY DEF LineInv, LineType, LastInv, ServedInv, FrameInv, LastByte, Bytes, GotIntact, Intact

\* A new request goes behind whatever is on the line.
LEMMA CommandLine == ASSUME LineInv, NEW r \in Requests, Command(r) PROVE LineInv'
<1> DEFINE new == [k \in 1 .. FrameSize(r) |-> <<count + 1, k>>]
<1>1. /\ count < MaxRequests /\ asked' = r /\ count' = count + 1 /\ wire' = wire \o new
      /\ UNCHANGED <<fifo, got, need, served, pc>>
    BY DEF Command, frame
<1>2. count \in Nat /\ served \in Nat /\ served <= count /\ FrameSize(r) \in Nat /\ FrameSize(r) >= 4
    BY SizeFact, ConstantsFact DEF LineInv, LineType
<1>3. Bytes \subseteq Bytes'
    BY <1>1, <1>2 DEF Bytes
<1>4. new \in Seq(Bytes') /\ Len(new) = FrameSize(r)
    <2>1. \A k \in 1 .. FrameSize(r) : <<count + 1, k>> \in Bytes'
        BY <1>1, <1>2 DEF Bytes
    <2> QED BY <1>2, <2>1
<1>5. wire \in Seq(Bytes') /\ fifo \in Seq(Bytes') /\ got \in Seq(Bytes')
    BY <1>3, SeqMonotonic DEF LineInv, LineType
<1> HIDE DEF new
<1>6. /\ wire' \in Seq(Bytes') /\ Len(wire) \in Nat /\ Len(wire') = Len(wire) + FrameSize(r)
      /\ \A i \in 1 .. Len(wire') : wire'[i] = IF i <= Len(wire) THEN wire[i] ELSE new[i - Len(wire)]
    <2>1. Len(wire) \in Nat
        BY <1>5, LenProperties
    <2>2. /\ wire \o new \in Seq(Bytes')
          /\ Len(wire \o new) = Len(wire) + Len(new)
          /\ \A i \in 1 .. Len(wire) + Len(new) :
                 (wire \o new)[i] = IF i <= Len(wire) THEN wire[i] ELSE new[i - Len(wire)]
        BY <1>4, <1>5, ConcatProperties
    <2> QED BY <1>1, <1>4, <2>1, <2>2
<1>7. \A b \in Bytes : b # LastByte' /\ \A k : b # <<count', k>>
    BY <1>1, <1>2 DEF Bytes, LastByte
<1>8. /\ \A i \in 1 .. Len(wire) : wire[i] \in Bytes
      /\ \A i \in 1 .. Len(fifo) : fifo[i] \in Bytes
      /\ \A i \in 1 .. Len(got) : got[i] \in Bytes
      /\ Len(got) \in Nat
    <2>1. wire \in Seq(Bytes) /\ fifo \in Seq(Bytes) /\ got \in Seq(Bytes)
        BY DEF LineInv, LineType
    <2> QED BY <2>1
<1>9. LineType'
    <2>1. count' \in 0 .. MaxRequests /\ served' \in 0 .. count'
        <3>1. count \in 0 .. MaxRequests /\ served \in 0 .. count
            BY DEF LineInv, LineType
        <3> QED BY <1>1, <1>2, <3>1, SizesAssumption
    <2>2. wire' \in Seq(Bytes') /\ fifo' \in Seq(Bytes') /\ got' \in Seq(Bytes')
        BY <1>1, <1>5, <1>6
    <2>3. asked' \in Requests /\ need' \in Nat /\ pc' \in Places
        BY <1>1 DEF LineInv, LineType
    <2> HIDE DEF new
    <2> QED BY <2>1, <2>2, <2>3 DEF LineType
<1>10. LastInv'
    <2>1. ASSUME NEW i \in 1 .. Len(wire'), wire'[i] = LastByte' PROVE i = Len(wire')
        <3>1. ~(i <= Len(wire))
            BY <1>6, <1>7, <1>8, <2>1
        <3>2. i - Len(wire) \in 1 .. FrameSize(r)
            BY <1>2, <1>6, <2>1, <3>1
        <3>3. wire'[i] = <<count + 1, i - Len(wire)>>
            BY <1>6, <3>1, <3>2 DEF new
        <3>4. i - Len(wire) = FrameSize(r)
            BY <1>1, <2>1, <3>3 DEF LastByte
        <3> QED BY <1>2, <1>6, <3>4
    <2>2. \A i \in 1 .. Len(fifo') : fifo'[i] # LastByte'
        BY <1>1, <1>7, <1>8
    <2> QED BY <2>1, <2>2 DEF LastInv
<1>11. ServedInv'
    BY <1>1, <1>2 DEF ServedInv
<1>12. FrameInv'
    <2>1. ASSUME GotIntact', Len(got) >= 1 PROVE FALSE
        <3>1. 1 \in 1 .. Len(got)
            BY <1>8, <2>1
        <3>2. got[1] = <<count', 1>>
            BY <1>1, <2>1, <3>1 DEF GotIntact, Intact
        <3> QED BY <1>7, <1>8, <3>1, <3>2
    <2> QED BY <1>1, <1>8, <2>1, SizesAssumption DEF LineInv, FrameInv
<1> QED BY <1>9, <1>10, <1>11, <1>12 DEF LineInv

\* The invariant of what is left when the first byte has been taken from the FIFO or,
\* when that is empty, from the wire.
LEMMA TakeLine ==
    ASSUME LineInv, fifo \o wire # <<>>,
           fifo' = IF fifo # <<>> THEN Tail(fifo) ELSE fifo,
           wire' = IF fifo # <<>> THEN wire ELSE Tail(wire),
           UNCHANGED <<asked, count>>
    PROVE  /\ Head(fifo \o wire) \in Bytes
           /\ wire' \in Seq(Bytes) /\ fifo' \in Seq(Bytes)
           /\ LastInv'
           /\ Head(fifo \o wire) = LastByte => fifo' = <<>> /\ wire' = <<>>
           /\ served # count
<1>0. wire \in Seq(Bytes) /\ fifo \in Seq(Bytes)
    BY DEF LineInv, LineType
<1>1. LastByte' = LastByte
    BY DEF LastByte
<1>2. CASE fifo # <<>>
    <2>1. Head(fifo \o wire) = fifo[1]
        BY <1>0, <1>2, FirstFact
    <2>2. /\ Len(fifo) \in Nat /\ Len(fifo) >= 1 /\ fifo[1] \in Bytes
          /\ fifo' \in Seq(Bytes) /\ Len(fifo') = Len(fifo) - 1
          /\ \A i \in 1 .. Len(fifo) - 1 : fifo'[i] = fifo[i + 1]
          /\ Len(fifo) = 1 => fifo' = <<>>
          /\ wire' = wire
        BY <1>0, <1>2, TailFact
    <2>3. LastInv'
        BY <1>1, <2>2 DEF LineInv, LastInv
    <2>4. fifo[1] = LastByte => fifo' = <<>> /\ wire' = <<>>
        BY <2>2 DEF LineInv, LastInv
    <2> QED BY <1>0, <1>2, <2>1, <2>2, <2>3, <2>4 DEF LineInv, ServedInv
<1>3. CASE fifo = <<>>
    <2>1. wire # <<>> /\ Head(fifo \o wire) = wire[1]
        BY <1>0, <1>3, FirstFact
    <2>2. /\ Len(wire) \in Nat /\ Len(wire) >= 1 /\ wire[1] \in Bytes
          /\ wire' \in Seq(Bytes) /\ Len(wire') = Len(wire) - 1
          /\ \A i \in 1 .. Len(wire) - 1 : wire'[i] = wire[i + 1]
          /\ Len(wire) = 1 => wire' = <<>>
          /\ fifo' = <<>>
        BY <1>0, <1>3, <2>1, TailFact
    <2>3. LastInv'
        BY <1>1, <2>2 DEF LineInv, LastInv
    <2>4. wire[1] = LastByte => fifo' = <<>> /\ wire' = <<>>
        BY <2>2 DEF LineInv, LastInv
    <2> QED BY <1>0, <1>3, <2>1, <2>2, <2>3, <2>4 DEF LineInv, ServedInv
<1> QED BY <1>2, <1>3

\* host_read_message takes one byte.  A frame that is served was the last on the line.
LEMMA ReadLine ==
    ASSUME LineInv, host_read_byte
    PROVE  LineInv' /\ (pc' = "serve" => served' = count /\ wire' = <<>> /\ fifo' = <<>> /\ count >= 1)
<1> DEFINE byte == Head(fifo \o wire)
           bytes == Append(got, byte)
<1>1. /\ fifo \o wire # <<>>
      /\ fifo' = IF fifo # <<>> THEN Tail(fifo) ELSE fifo
      /\ wire' = IF fifo # <<>> THEN wire ELSE Tail(wire)
      /\ UNCHANGED <<asked, count>>
    BY DEF host_read_byte, hostVars
<1>2. /\ byte \in Bytes /\ wire' \in Seq(Bytes) /\ fifo' \in Seq(Bytes) /\ LastInv' /\ served # count
      /\ byte = LastByte => fifo' = <<>> /\ wire' = <<>>
    BY <1>1, TakeLine
<1>3. Bytes' = Bytes /\ LastByte' = LastByte
    BY <1>1 DEF Bytes, LastByte
<1>4. got \in Seq(Bytes) /\ need \in Nat /\ count \in Nat /\ served \in Nat /\ served < count
    BY <1>2, ConstantsFact DEF LineInv, LineType
<1>5. /\ bytes \in Seq(Bytes) /\ Len(got) \in Nat /\ Len(bytes) = Len(got) + 1
      /\ Intact(bytes) => GotIntact /\ byte = <<count, Len(got) + 1>>
    BY <1>2, <1>4, AppendFact, IntactFact DEF GotIntact
<1>8. <<>> \in Seq(Bytes) /\ Len(<<>>) = 0
    BY EmptySeq
<1>s. pc = "scan" => /\ need' = need /\ served' = served
                     /\ (pc' = "ack" /\ got' = bytes) \/ (pc' = "scan" /\ got' = got)
    <2> SUFFICES ASSUME pc = "scan"
                 PROVE  /\ need' = need /\ served' = served
                        /\ (pc' = "ack" /\ got' = bytes) \/ (pc' = "scan" /\ got' = got)
        OBVIOUS
    <2> QED BY DEF host_read_byte
<1>a. pc = "ack" => UNCHANGED served /\ (host_write_nak \/ (pc' = "frame" /\ got' = bytes /\ need' = HeaderSize))
    BY Zenon DEF host_read_byte
<1>f. pc = "frame" =>
        \/ /\ Len(bytes) = 2 + HeaderSize /\ served' = served
           /\ \E n \in Announced(bytes) : (need' = n + 1 /\ got' = bytes /\ pc' = pc) \/ host_write_nak
        \/ Len(bytes) # 2 + HeaderSize /\ need > 1 /\ need' = need - 1 /\ got' = bytes /\ pc' = pc /\ served' = served
        \/ /\ Len(bytes) > 2 + HeaderSize /\ need = 1
           /\ \/ Intact(bytes) /\ served' = count /\ pc' = "serve" /\ got' = <<>> /\ need' = 0
              \/ host_write_nak /\ served' = served
    BY Zenon DEF host_read_byte
<1> HIDE DEF byte, bytes
<1>9. pc \in {"scan", "ack", "frame"}
    BY DEF host_read_byte, Serving, LineInv, LineType, Places, Exchanging
<1>10. asked \in Requests /\ FrameSize(asked) = 2 + HeaderSize + Payload(asked) + 1 /\ Payload(asked) \in Nat
    BY <1>4, SizeFact DEF LineInv, LineType
<1>11. ASSUME got' \in {got, <<>>, bytes}, need' \in Nat, pc' \in Places, UNCHANGED served, FrameInv'
       PROVE  LineInv'
    BY <1>1, <1>2, <1>3, <1>4, <1>5, <1>8, <1>11 DEF LineInv, LineType, ServedInv
<1>12. ASSUME host_write_nak, UNCHANGED served PROVE LineInv' /\ pc' # "serve"
    <2>1. got' = <<>> /\ need' = 0 /\ pc' = "scan"
        BY <1>12 DEF host_write_nak
    <2>2. FrameInv'
        BY <2>1 DEF FrameInv
    <2> QED BY <1>11, <1>12, <2>1, <2>2 DEF Places
<1>13. CASE pc = "scan"
    <2>0. got = <<>> /\ Len(got) = 0
        BY <1>8, <1>13 DEF LineInv, FrameInv
    <2>1. /\ need' = need /\ served' = served
          /\ (pc' = "ack" /\ got' = bytes) \/ (pc' = "scan" /\ got' = got)
        BY <1>13, <1>s
    <2>2. FrameInv'
        BY <1>5, <2>0, <2>1 DEF FrameInv
    <2> QED BY <1>4, <1>11, <2>1, <2>2 DEF Places
<1>14. CASE pc = "ack"
    <2>0. Len(got) = 1
        BY <1>14 DEF LineInv, FrameInv
    <2>1. UNCHANGED served /\ (host_write_nak \/ (pc' = "frame" /\ got' = bytes /\ need' = HeaderSize))
        BY <1>14, <1>a
    <2>2. CASE pc' = "frame" /\ got' = bytes /\ need' = HeaderSize
        <3>0. Len(got') = 2 /\ need' = HeaderSize /\ pc' = "frame"
            BY <1>5, <2>0, <2>2
        <3>1. FrameInv'
            BY <3>0, ConstantsFact DEF FrameInv
        <3> QED BY <1>11, <2>1, <2>2, <3>1, ConstantsFact DEF Places
    <2> QED BY <1>12, <2>1, <2>2
<1>15. CASE pc = "frame"
    <2>0. /\ Len(got) >= 2 /\ need >= 1
          /\ Len(got) < 2 + HeaderSize => Len(got) + need = 2 + HeaderSize
          /\ Len(got) >= 2 + HeaderSize /\ GotIntact => Len(got) + need = FrameSize(asked)
        BY <1>15 DEF LineInv, FrameInv
    <2>1. CASE /\ Len(bytes) = 2 + HeaderSize /\ served' = served
               /\ \E n \in Announced(bytes) : (need' = n + 1 /\ got' = bytes /\ pc' = pc) \/ host_write_nak
        <3>2. PICK n \in Announced(bytes) : (need' = n + 1 /\ got' = bytes /\ pc' = pc) \/ host_write_nak
            BY <2>1
        <3>3. CASE need' = n + 1 /\ got' = bytes /\ pc' = pc
            <4>1. n \in Nat /\ (Intact(bytes) => n = Payload(asked))
                BY <1>10, <3>2, ConstantsFact DEF Announced
            <4>2. GotIntact' => Intact(bytes)
                BY <1>1, <3>3 DEF GotIntact, Intact
            <4>m. Len(got') = 2 + HeaderSize /\ need' = n + 1 /\ pc' = "frame" /\ FrameSize(asked)' = FrameSize(asked)
                BY <1>1, <1>15, <2>1, <3>3
            <4>3. FrameInv'
                BY <1>10, <4>1, <4>2, <4>m, ConstantsFact DEF FrameInv
            <4> QED BY <1>11, <1>15, <2>1, <3>3, <4>1, <4>3 DEF Places
        <3> QED BY <1>12, <2>1, <3>2, <3>3
    <2>2. CASE Len(bytes) # 2 + HeaderSize /\ need > 1 /\ need' = need - 1 /\ got' = bytes /\ pc' = pc /\ served' = served
        <3>1. need' = need - 1 /\ got' = bytes /\ UNCHANGED <<pc, served>>
            BY <2>2
        <3>2. GotIntact' => Intact(bytes)
            BY <1>1, <3>1 DEF GotIntact, Intact
        <3>m. Len(got') = Len(got) + 1 /\ need' = need - 1 /\ pc' = "frame" /\ FrameSize(asked)' = FrameSize(asked)
            BY <1>1, <1>5, <1>15, <3>1
        <3>n. GotIntact' => GotIntact
            BY <1>5, <3>2
        <3>3. FrameInv'
            BY <1>4, <1>5, <1>10, <2>0, <2>2, <3>m, <3>n, ConstantsFact DEF FrameInv
        <3>4. need' \in Nat
            BY <1>4, <2>2, <3>1
        <3> QED BY <1>11, <1>15, <3>1, <3>3, <3>4 DEF Places
    <2>3. CASE /\ Len(bytes) > 2 + HeaderSize /\ need = 1
               /\ \/ Intact(bytes) /\ served' = count /\ pc' = "serve" /\ got' = <<>> /\ need' = 0
                  \/ host_write_nak /\ served' = served
        <3>2. CASE Intact(bytes) /\ served' = count /\ pc' = "serve" /\ got' = <<>> /\ need' = 0
            <4>2. Len(got) + 1 = FrameSize(asked)
                BY <1>5, <2>0, <2>3, <3>2, ConstantsFact
            <4>3. byte = LastByte
                BY <1>5, <3>2, <4>2 DEF LastByte
            <4>4. fifo' = <<>> /\ wire' = <<>>
                BY <1>2, <4>3
            <4>5. LineType'
                BY <1>1, <1>3, <1>4, <1>8, <3>2, <4>4, ConstantsFact DEF LineInv, LineType, Places
            <4>6. ServedInv' /\ FrameInv'
                BY <3>2, <4>4 DEF ServedInv, FrameInv
            <4> QED BY <1>2, <1>4, <3>2, <4>4, <4>5, <4>6 DEF LineInv
        <3> QED BY <1>12, <2>3, <3>2
    <2> QED BY <1>15, <1>f, <2>1, <2>2, <2>3
<1> QED BY <1>9, <1>13, <1>14, <1>15

\* A byte moves into the FIFO, or is lost there.
LEMMA ArriveLine == ASSUME LineInv, Arrive PROVE LineInv'
<1>1. /\ wire # <<>> /\ wire' = Tail(wire)
      /\ fifo' = Append(fifo, Head(wire)) \/ fifo' = fifo
      /\ UNCHANGED <<asked, count, got, need, served, pc>>
    BY DEF Arrive, hostVars, frame
<1>2. wire \in Seq(Bytes) /\ fifo \in Seq(Bytes) /\ Bytes' = Bytes /\ LastByte' = LastByte
    BY <1>1 DEF LineInv, LineType, Bytes, LastByte
<1>3. /\ Len(wire) \in Nat /\ Len(wire) >= 1 /\ Head(wire) = wire[1] /\ wire[1] \in Bytes
      /\ wire' \in Seq(Bytes) /\ Len(wire') = Len(wire) - 1
      /\ \A i \in 1 .. Len(wire) - 1 : wire'[i] = wire[i + 1]
      /\ Len(wire) = 1 => wire' = <<>>
    BY <1>1, <1>2, TailFact
<1>4. /\ fifo' \in Seq(Bytes) /\ Len(fifo) \in Nat
      /\ \/ fifo' = fifo
         \/ /\ Len(fifo') = Len(fifo) + 1
            /\ \A i \in 1 .. Len(fifo) : fifo'[i] = fifo[i]
            /\ fifo'[Len(fifo) + 1] = wire[1]
    <2>1. CASE fifo' = fifo
        BY <1>2, <2>1, LenProperties
    <2>2. CASE fifo' = Append(fifo, Head(wire))
        BY <1>2, <1>3, <2>2, AppendFact
    <2> QED BY <1>1, <2>1, <2>2
<1>5. LastInv'
    <2>1. \A i \in 1 .. Len(wire') : wire'[i] = LastByte' => i = Len(wire')
        BY <1>2, <1>3 DEF LineInv, LastInv
    <2>2. ASSUME NEW i \in 1 .. Len(fifo'), fifo'[i] = LastByte' PROVE i = Len(fifo') /\ wire' = <<>>
        <3>1. \A j \in 1 .. Len(fifo) : fifo[j] # LastByte
            BY <1>1 DEF LineInv, LastInv
        <3>2. fifo' # fifo /\ i = Len(fifo) + 1
            BY <1>2, <1>4, <2>2, <3>1
        <3>3. wire[1] = LastByte
            BY <1>2, <1>4, <2>2, <3>2
        <3> QED BY <1>3, <1>4, <3>2, <3>3 DEF LineInv, LastInv
    <2> QED BY <2>1, <2>2 DEF LastInv
<1>6. FrameInv' /\ ServedInv'
    BY <1>1 DEF LineInv, FrameInv, ServedInv, GotIntact, Intact
<1>7. LineType'
    BY <1>1, <1>2, <1>3, <1>4 DEF LineInv, LineType
<1> QED BY <1>5, <1>6, <1>7 DEF LineInv

\* A byte is lost or damaged.
LEMMA FaultLine == ASSUME LineInv, Fault PROVE LineInv'
<1>1. /\ wire # <<>> /\ wire' \in {Tail(wire), <<Junk>> \o Tail(wire)}
      /\ UNCHANGED <<asked, count, fifo, got, need, served, pc>>
    BY DEF Fault, hostVars, frame
<1>2. wire \in Seq(Bytes) /\ Bytes' = Bytes /\ LastByte' = LastByte /\ count \in Nat
    BY <1>1, ConstantsFact DEF LineInv, LineType, Bytes, LastByte
<1>3. /\ Len(wire) \in Nat /\ Len(wire) >= 1
      /\ Tail(wire) \in Seq(Bytes) /\ Len(Tail(wire)) = Len(wire) - 1
      /\ \A i \in 1 .. Len(wire) - 1 : Tail(wire)[i] = wire[i + 1]
    BY <1>1, <1>2, TailFact
<1>4. Junk \in Bytes /\ Junk # LastByte
    BY <1>2, SizeFact DEF Junk, Bytes, LastByte, LineInv, LineType
<1>5. <<Junk>> \in Seq(Bytes) /\ Len(<<Junk>>) = 1 /\ <<Junk>>[1] = Junk
    BY <1>4
<1> DEFINE rest == Tail(wire)
           damaged == <<Junk>> \o rest
<1>6. /\ damaged \in Seq(Bytes) /\ Len(damaged) = Len(wire)
      /\ damaged[1] = Junk
      /\ \A i \in 2 .. Len(wire) : damaged[i] = wire[i]
    <2> HIDE DEF rest
    <2>0. rest \in Seq(Bytes) /\ Len(rest) = Len(wire) - 1 /\ \A i \in 1 .. Len(wire) - 1 : rest[i] = wire[i + 1]
        BY <1>3 DEF rest
    <2>1. /\ damaged \in Seq(Bytes) /\ Len(damaged) = 1 + Len(rest)
          /\ \A i \in 1 .. 1 + Len(rest) : damaged[i] = IF i <= 1 THEN <<Junk>>[i] ELSE rest[i - 1]
        BY <1>5, <2>0, ConcatProperties
    <2> HIDE DEF damaged
    <2>2. damaged[1] = Junk
        BY <1>3, <1>5, <2>0, <2>1
    <2>3. ASSUME NEW i \in 2 .. Len(wire) PROVE damaged[i] = wire[i]
        <3>1. damaged[i] = rest[i - 1]
            BY <1>3, <2>0, <2>1
        <3>2. i - 1 \in 1 .. Len(wire) - 1 /\ (i - 1) + 1 = i
            BY <1>3
        <3> QED BY <2>0, <3>1, <3>2
    <2> QED BY <1>3, <2>0, <2>1, <2>2, <2>3
<1> HIDE DEF rest, damaged
<1>7. /\ wire' \in Seq(Bytes)
      /\ \A i \in 1 .. Len(wire') : wire'[i] = LastByte' => i = Len(wire')
    <2>1. CASE wire' = rest
        <3>1. rest \in Seq(Bytes) /\ Len(rest) = Len(wire) - 1 /\ \A i \in 1 .. Len(wire) - 1 : rest[i] = wire[i + 1]
            BY <1>3 DEF rest
        <3>2. ASSUME NEW i \in 1 .. Len(wire'), wire'[i] = LastByte' PROVE i = Len(wire')
            <4>1. i + 1 \in 1 .. Len(wire) /\ wire[i + 1] = LastByte
                BY <1>2, <1>3, <2>1, <3>1, <3>2
            <4>2. i + 1 = Len(wire)
                BY <4>1 DEF LineInv, LastInv
            <4>3. Len(wire') = Len(wire) - 1 /\ Len(wire) \in Nat
                BY <1>3, <2>1, <3>1
            <4>4. i \in Int
                OBVIOUS
            <4>5. i = Len(wire) - 1
                BY <4>2, <4>3, <4>4
            <4> QED BY <4>3, <4>5, Zenon
        <3> QED BY <2>1, <3>1, <3>2
    <2>2. CASE wire' = damaged
        <3>2. ASSUME NEW i \in 1 .. Len(wire'), wire'[i] = LastByte' PROVE i = Len(wire')
            <4>1. i \in 2 .. Len(wire)
                BY <1>2, <1>3, <1>4, <1>6, <2>2, <3>2
            <4>2. i \in 1 .. Len(wire) /\ wire[i] = LastByte
                BY <1>2, <1>3, <1>6, <2>2, <3>2, <4>1
            <4>3. i = Len(wire)
                BY <4>2 DEF LineInv, LastInv
            <4> QED BY <1>6, <2>2, <4>3
        <3> QED BY <1>6, <2>2, <3>2
    <2> QED BY <1>1, <2>1, <2>2 DEF rest, damaged
<1>8. LastInv'
    BY <1>1, <1>2, <1>7 DEF LineInv, LastInv
<1>9. FrameInv' /\ ServedInv'
    BY <1>1 DEF LineInv, FrameInv, ServedInv, GotIntact, Intact
<1>10. LineType'
    BY <1>1, <1>2, <1>7 DEF LineInv, LineType
<1> QED BY <1>8, <1>9, <1>10 DEF LineInv

\* What the handlers, the exchange with the card and the card itself leave alone, and
\* where the reader goes.
Handlers ==
    \/ host_handle_plain \/ host_handle_reset_parameters \/ host_handle_set_parameters
    \/ host_handle_power_off \/ host_handle_escape \/ host_handle_power_on \/ host_handle_xfr_block
    \/ atr_byte \/ sim_send_byte \/ send_ok \/ sim_receive_procedure \/ receive_data \/ receive_end
    \/ sim_wait_fails

LEMMA HandlersFrame ==
    ASSUME Handlers
    PROVE  /\ UNCHANGED <<elsewhere, host, asked, count, returned, wire, fifo, got, need, served, overtaken>>
           /\ pc \in {"serve", "atr"} \cup Exchanging
           /\ pc' \in Places \ {"ack", "frame"}
<1>0. ASSUME UNCHANGED elsewhere
      PROVE  UNCHANGED <<elsewhere, host, asked, count, returned, wire, fifo, got, need, served, overtaken>>
    BY <1>0 DEF elsewhere, hostVars, line, frame
<1>1. ASSUME NEW failed, host_reply(failed) PROVE pc' \in Places \ {"ack", "frame"}
    BY <1>1 DEF host_reply, Places
<1>2. CASE host_handle_plain
    BY <1>0, <1>1, <1>2 DEF host_handle_plain, Serve
<1>3. CASE host_handle_reset_parameters
    BY <1>0, <1>1, <1>3 DEF host_handle_reset_parameters, Serve
<1>4. CASE host_handle_set_parameters
    BY <1>0, <1>1, <1>4 DEF host_handle_set_parameters, Serve
<1>5. CASE host_handle_power_off
    BY <1>0, <1>1, <1>5 DEF host_handle_power_off, Serve
<1>6. CASE host_handle_escape
    BY <1>0, <1>1, <1>6 DEF host_handle_escape, Serve
<1>7. CASE host_handle_power_on
    BY <1>0, <1>1, <1>7 DEF host_handle_power_on, Serve, Places
<1>8. CASE host_handle_xfr_block
    BY <1>0, <1>1, <1>8 DEF host_handle_xfr_block, Serve, Places, Exchanging
<1>9. CASE atr_byte
    BY <1>0, <1>1, <1>9 DEF atr_byte, Places
<1>10. CASE sim_send_byte
    BY <1>0, <1>10 DEF sim_send_byte, Places, Exchanging
<1>11. CASE send_ok
    BY <1>0, <1>11 DEF send_ok, Places, Exchanging
<1>12. CASE sim_receive_procedure
    BY <1>0, <1>12 DEF sim_receive_procedure, exchange, Places, Exchanging
<1>13. CASE receive_data
    BY <1>0, <1>13 DEF receive_data, Places, Exchanging
<1>14. CASE receive_end
    BY <1>0, <1>1, <1>14 DEF receive_end, Places, Exchanging
<1>15. CASE sim_wait_fails
    BY <1>0, <1>1, <1>15 DEF sim_wait_fails, Waiting, Exchanging
<1> QED BY <1>2, <1>3, <1>4, <1>5, <1>6, <1>7, <1>8, <1>9, <1>10, <1>11, <1>12, <1>13, <1>14, <1>15
        DEF Handlers

\* The card moves nothing but its own state and the byte under way.
LEMMA CardFrame ==
    ASSUME Card \/ CardStops
    PROVE  /\ UNCHANGED others
           /\ UNCHANGED <<host, asked, count, returned, wire, fifo, got, need, served, overtaken, pc,
                          up, told, msg, icc_active, left, transferred, response, out>>
<1>1. UNCHANGED others
    BY DEF Card, CardStops, TxDone, CardData, CardExcess, CardPutsOff, CardProcedure, CardStatus, CardByte
<1> QED BY <1>1 DEF others, hostVars, line, frame, slot, exchange

\* The line's part of the invariant holds after every step.
LEMMA NextLine == LineInv /\ [Next]_vars => LineInv'
<1> SUFFICES ASSUME LineInv, [Next]_vars PROVE LineInv'
    OBVIOUS
<1>0. pc \in Places
    BY DEF LineInv, LineType
<1>1. CASE \E r \in Requests : Command(r)
    BY <1>1, CommandLine
<1>2. CASE ReadFrame \/ HostTimeout \/ HostStart \/ UNCHANGED vars
    <2>1. UNCHANGED <<asked, count, wire, fifo, got, need, served, pc>>
        BY <1>2 DEF ReadFrame, HostTimeout, HostStart, vars, hostVars, line, frame
    <2> QED BY <1>0, <2>1, LineFrame
<1>3. CASE Arrive
    BY <1>3, ArriveLine
<1>4. CASE Fault
    BY <1>4, FaultLine
<1>5. CASE host_read_byte
    BY <1>5, ReadLine
<1>6. CASE Handlers
    <2>1. UNCHANGED <<asked, count, wire, fifo, got, need, served>>
        BY <1>6, HandlersFrame
    <2>2. pc \in {"serve", "atr"} \cup Exchanging /\ pc' \in Places \ {"ack", "frame"}
        BY <1>6, HandlersFrame
    <2>3. pc \notin {"ack", "frame"}
        BY <2>2 DEF Exchanging
    <2> QED BY <2>1, <2>2, <2>3, LineFrame
<1>7. CASE Card \/ CardStops
    <2>1. UNCHANGED <<asked, count, wire, fifo, got, need, served, pc>>
        BY <1>7, CardFrame
    <2> QED BY <1>0, <2>1, LineFrame
<1> QED BY <1>1, <1>2, <1>3, <1>4, <1>5, <1>6, <1>7 DEF Next, Reader, Handlers

-----------------------------------------------------------------------------
\* The request being served, and the buffers.

\* What a TPDU and a PPS request move.
LEMMA RequestFact ==
    ASSUME NEW r \in Requests
    PROVE  /\ r.type = "TPDU" => r.n = MaxData /\ r.sends \in BOOLEAN
           /\ r.type = "PPS" => r.n \in PpsSizes
BY DEF Requests, Request

\* The card's bytes stay bytes.
LEMMA CardStep == ASSUME CardInv, Card \/ CardStops PROVE CardInv'
<1>p. CardBytes' = CardBytes
    BY DEF CardBytes
<1>q. card \in CardPlaces /\ rxb \in CardBytes /\ said \in Seq(CardBytes)
    BY DEF CardInv
<1>0. card \in CardPlaces /\ rxb \in CardBytes /\ said \in Seq(CardBytes) /\ Len(said) + 1 \in Nat
    BY <1>q
<1>1. \A b \in CardBytes : Append(said, b) \in Seq(CardBytes)
    BY <1>0, AppendFact
<1>2. \A s \in Words, n \in Nat : <<s, n>> \in CardBytes
    BY DEF CardBytes
<1>3. CASE TxDone
    <2>1. UNCHANGED <<rxb, said>> /\ card' \in {"answer", "pps", card}
        BY <1>3 DEF TxDone
    <2> QED BY <1>0, <1>p, <2>1 DEF CardInv, CardPlaces, Words
<1>4. CASE CardData
    <2>1. /\ rxb' = <<card, Len(said) + 1>> /\ said' = Append(said, rxb')
          /\ card' \in {"wait", "answer", card}
        BY <1>4 DEF CardData, CardByte
    <2> QED BY <1>0, <1>p, <1>1, <1>2, <2>1 DEF CardInv, CardPlaces, Words
<1>5. CASE CardExcess
    <2>1. rxb' = <<"excess", 0>> /\ UNCHANGED <<card, said>>
        BY <1>5 DEF CardExcess, CardByte
    <2> QED BY <1>0, <1>p, <1>2, <2>1 DEF CardInv, CardPlaces, Words
<1>6. CASE CardProcedure
    <2>1. /\ rxb' \in {<<"ins", 0>>, <<"~ins", 0>>, <<"sw1", 0>>}
          /\ said' = said \/ said' = Append(said, rxb')
          /\ card' \in {card, "take all", "give all", "take", "give", "sw2"}
        BY <1>6 DEF CardProcedure, CardByte
    <2> QED BY <1>0, <1>p, <1>1, <1>2, <2>1 DEF CardInv, CardPlaces, Words
<1>7. CASE CardStatus
    <2>1. rxb' = <<"sw2", 0>> /\ said' = Append(said, rxb') /\ card' = "wait"
        BY <1>7 DEF CardStatus, CardByte
    <2> QED BY <1>0, <1>p, <1>1, <1>2, <2>1 DEF CardInv, CardPlaces, Words
<1>8. CASE CardStops
    <2>1. UNCHANGED <<rxb, said>> /\ card' = "mute"
        BY <1>8 DEF CardStops, sim
    <2> QED BY <1>0, <1>p, <2>1 DEF CardInv, CardPlaces, Words
<1>9. CASE CardPutsOff
    <2>1. rxb' \in {<<"null", 0>>, <<"ins", 0>>, <<"~ins", 0>>} /\ UNCHANGED <<card, said>>
        BY <1>9 DEF CardPutsOff, CardByte
    <2> QED BY <1>0, <1>p, <1>2, <2>1 DEF CardInv, CardPlaces, Words
<1> QED BY <1>3, <1>4, <1>5, <1>6, <1>7, <1>8, <1>9 DEF Card

\* A reply ends the request: only the sizes matter then.
LEMMA ReplyServe ==
    ASSUME NEW failed, host_reply(failed), icc_active' \in BOOLEAN, BufferBound'
    PROVE  ServeInv' /\ BufferInv'
<1>1. pc' \in {"scan", "off"}
    BY DEF host_reply
<1> QED BY <1>1 DEF ServeInv, BufferInv, Serving, Exchanging

\* Nothing of the request changes.
LEMMA ServeFrame ==
    ASSUME ServeInv, BufferInv, UNCHANGED <<pc, msg, icc_active, response, transferred, left>>
    PROVE  ServeInv' /\ BufferInv'
BY DEF ServeInv, BufferInv, BufferBound, Serving

\* host_read_message hands over a request of the host.
LEMMA ReadServe ==
    ASSUME LineInv, ServeInv, BufferInv, host_read_byte
    PROVE  ServeInv' /\ BufferInv'
<1>1. /\ pc \notin {"off"} /\ ~Serving
      /\ UNCHANGED <<asked, count, icc_active, response, transferred, left>>
    BY DEF host_read_byte, hostVars, slot, exchange
<1>2. pc' \in {"scan", "ack", "frame", "serve"} /\ (pc' = "serve" => msg' = asked)
    <2>1. pc \in {"scan", "ack", "frame"}
        BY <1>1 DEF Serving
    <2>2. CASE pc = "scan"
        BY <2>2 DEF host_read_byte
    <2>3. CASE pc = "ack"
        BY <2>3 DEF host_read_byte, host_write_nak
    <2>4. CASE pc = "frame"
        BY <2>4 DEF host_read_byte, host_write_nak
    <2> QED BY <2>1, <2>2, <2>3, <2>4
<1>3. pc' = "serve" => asked \in Requests
    BY ReadLine DEF LineInv, LineType
<1>4. ServeInv'
    BY <1>1, <1>2, <1>3 DEF ServeInv, Serving, Exchanging
<1>5. BufferBound'
    BY <1>1 DEF BufferInv, BufferBound
<1>6. BufferInv'
    BY <1>2, <1>5 DEF BufferInv
<1> QED BY <1>4, <1>6

\* The handlers switch the card, and clear what it has said.
LEMMA HandlersCard == ASSUME CardInv, Handlers PROVE CardInv'
<1>1. rxb' = rxb /\ said' \in {said, <<>>} /\ card' \in {card, "off", "atr", "mute"}
    <2>1. CASE host_handle_plain \/ host_handle_reset_parameters \/ host_handle_set_parameters
        BY <2>1 DEF host_handle_plain, host_handle_reset_parameters, host_handle_set_parameters,
                    sim, cardVars
    <2>2. CASE host_handle_power_off \/ host_handle_escape \/ host_handle_power_on
        BY <2>2 DEF host_handle_power_off, host_handle_escape, host_handle_power_on, sim_power_off
    <2>3. CASE host_handle_xfr_block \/ sim_wait_fails
        BY <2>3 DEF host_handle_xfr_block, sim_wait_fails, sim, cardVars
    <2>4. CASE atr_byte \/ sim_send_byte \/ send_ok \/ sim_receive_procedure \/ receive_data \/ receive_end
        BY <2>4 DEF atr_byte, sim_send_byte, send_ok, sim_receive_procedure, receive_data, receive_end,
                    sim_receive_byte, cardVars
    <2> QED BY <2>1, <2>2, <2>3, <2>4 DEF Handlers
<1>2. CardBytes' = CardBytes /\ <<>> \in Seq(CardBytes)
    BY DEF CardBytes
<1> QED BY <1>1, <1>2 DEF CardInv, CardPlaces

\* Every handler, and every step of the exchange with the card, keeps to the buffers.
LEMMA HandlersServe ==
    ASSUME ServeInv, BufferInv, CardInv, Handlers
    PROVE  ServeInv' /\ BufferInv'
<1>0. CardBytes' = CardBytes /\ <<>> \in Seq(CardBytes) /\ Len(<<>>) = 0
    BY DEF CardBytes
<1>1. /\ icc_active \in BOOLEAN
      /\ response \in Seq(CardBytes) /\ transferred \in Nat /\ left \in Nat
      /\ transferred <= MaxData /\ left <= MaxData
    BY DEF ServeInv, BufferInv, BufferBound
<1>2. /\ Len(response) \in Nat
      /\ Append(response, rxb) \in Seq(CardBytes) /\ Len(Append(response, rxb)) = Len(response) + 1
    BY <1>1, AppendFact DEF CardInv
<1>3. ASSUME UNCHANGED <<response, transferred, left>> PROVE BufferBound'
    BY <1>0, <1>1, <1>3 DEF BufferBound
<1>4. ASSUME response' = <<>> /\ left' = 0 /\ transferred' = 0 PROVE BufferBound'
    BY <1>0, <1>4, ConstantsFact DEF BufferBound
<1>5. ASSUME response' = Append(response, rxb), UNCHANGED <<left, transferred>>
      PROVE  BufferBound' /\ Len(response') = Len(response) + 1
    BY <1>0, <1>1, <1>2, <1>5, ConstantsFact DEF BufferBound
<1>6. CASE host_handle_plain \/ host_handle_reset_parameters \/ host_handle_set_parameters
             \/ host_handle_power_off \/ host_handle_escape
    <2>1. UNCHANGED <<response, transferred, left>> /\ icc_active' \in {icc_active, FALSE}
        BY <1>6 DEF host_handle_plain, host_handle_reset_parameters, host_handle_set_parameters,
                    host_handle_power_off, host_handle_escape, exchange, slot
    <2>2. \E failed : host_reply(failed)
        BY <1>6 DEF host_handle_plain, host_handle_reset_parameters, host_handle_set_parameters,
                    host_handle_power_off, host_handle_escape
    <2> QED BY <1>1, <1>3, <2>1, <2>2, ReplyServe
<1>7. CASE host_handle_power_on
    <2>1. /\ pc = "serve" /\ msg.type = "POWER_ON"
          /\ response' = <<>> /\ left' = 0 /\ transferred' = 0
          /\ \/ icc_active' = FALSE /\ host_reply(TRUE)
             \/ pc' = "atr" /\ UNCHANGED <<icc_active, msg>>
        BY <1>7 DEF host_handle_power_on, Serve
    <2>2. CASE icc_active' = FALSE /\ host_reply(TRUE)
        BY <1>4, <2>1, <2>2, ReplyServe
    <2>3. CASE pc' = "atr" /\ UNCHANGED <<icc_active, msg>>
        <3>1. ServeInv'
            BY <2>1, <2>3 DEF ServeInv, Serving, Exchanging
        <3>2. BufferInv'
            BY <1>0, <1>4, <2>1, <2>3, ConstantsFact DEF BufferInv
        <3> QED BY <3>1, <3>2
    <2> QED BY <2>1, <2>2, <2>3
<1>8. CASE host_handle_xfr_block
    <2>1. /\ pc = "serve" /\ msg.type \in {"TPDU", "PPS", "SHORT"} /\ UNCHANGED icc_active
          /\ \/ host_reply(TRUE) /\ UNCHANGED <<response, transferred, left>>
             \/ /\ icc_active /\ msg.type # "SHORT"
                /\ response' = <<>> /\ left' = 0 /\ transferred' = 0
                /\ pc' = "send" /\ UNCHANGED msg
        BY <1>8 DEF host_handle_xfr_block, Serve, XfrRefused, slot, exchange
    <2>2. CASE host_reply(TRUE) /\ UNCHANGED <<response, transferred, left>>
        BY <1>1, <1>3, <2>1, <2>2, ReplyServe
    <2>3. CASE /\ icc_active /\ msg.type # "SHORT"
               /\ response' = <<>> /\ left' = 0 /\ transferred' = 0
               /\ pc' = "send" /\ UNCHANGED msg
        <3>1. ServeInv'
            BY <2>1, <2>3 DEF ServeInv, Serving, Exchanging
        <3>2. msg \in Requests
            BY <2>1 DEF ServeInv, Serving
        <3>3. BufferInv'
            BY <1>0, <1>4, <2>3, <3>2, RequestFact, ConstantsFact DEF BufferInv
        <3> QED BY <3>1, <3>3
    <2> QED BY <2>1, <2>2, <2>3
<1>9. CASE atr_byte
    <2>1. /\ pc = "atr" /\ response' = Append(response, rxb) /\ UNCHANGED <<left, transferred>>
          /\ \/ Len(response) + 1 < MaxAtr /\ UNCHANGED <<pc, msg, icc_active>>
             \/ icc_active' = TRUE /\ host_reply(FALSE)
        BY <1>9 DEF atr_byte, slot
    <2>2. Len(response) < MaxAtr
        BY <2>1 DEF BufferInv
    <2>3. BufferBound' /\ Len(response') = Len(response) + 1
        BY <1>2, <1>5, <2>1, <2>2, ConstantsFact
    <2>4. CASE icc_active' = TRUE /\ host_reply(FALSE)
        BY <2>3, <2>4, ReplyServe
    <2>5. CASE Len(response) + 1 < MaxAtr /\ UNCHANGED <<pc, msg, icc_active>>
        <3>1. ServeInv'
            BY <2>1, <2>5 DEF ServeInv, Serving, Exchanging
        <3>2. BufferInv'
            BY <2>1, <2>3, <2>5 DEF BufferInv
        <3> QED BY <3>1, <3>2
    <2> QED BY <2>1, <2>4, <2>5
<1>10. CASE sim_send_byte
    <2>1. /\ pc = "send" /\ pc' = "sent" /\ UNCHANGED <<msg, icc_active, response, transferred, left>>
        BY <1>10 DEF sim_send_byte, slot
    <2>2. ServeInv'
        BY <2>1 DEF ServeInv, Serving, Exchanging
    <2>3. BufferInv'
        BY <1>3, <2>1 DEF BufferInv
    <2> QED BY <2>2, <2>3
<1>11. CASE send_ok
    <2>1. /\ pc = "sent" /\ UNCHANGED <<msg, icc_active, response, transferred, left>>
          /\ pc' = "send" \/ (msg.type = "PPS" /\ pc' = "pps") \/ (msg.type # "PPS" /\ pc' = "procedure")
        BY <1>11 DEF send_ok, slot, exchange
    <2>2. msg.type \in {"TPDU", "PPS"}
        BY <2>1 DEF ServeInv, Exchanging
    <2>3. ServeInv'
        BY <2>1, <2>2 DEF ServeInv, Serving, Exchanging
    <2>4. BufferInv'
        BY <1>3, <2>1, <2>2 DEF BufferInv
    <2> QED BY <2>3, <2>4
<1>12. CASE sim_receive_procedure
    <2>0. pc = "procedure" /\ UNCHANGED <<msg, icc_active>>
        BY <1>12 DEF sim_receive_procedure, slot
    <2>1. msg \in Requests /\ msg.type = "TPDU" /\ msg.n = MaxData /\ icc_active /\ msg.sends \in BOOLEAN
        BY <2>0, RequestFact DEF ServeInv, Serving, Exchanging
    <2>2. Len(response) = IF msg.sends THEN 0 ELSE transferred
        BY <2>0, <2>1 DEF BufferInv
    <2>3. \/ UNCHANGED <<pc, response, transferred, left>>
          \/ \E all \in BOOLEAN :
               \/ /\ msg.sends /\ transferred' = transferred + Chunk(all) /\ pc' = "send"
                  /\ UNCHANGED <<left, response>>
               \/ /\ ~msg.sends /\ Chunk(all) # 0 /\ left' = Chunk(all) /\ pc' = "receive"
                  /\ UNCHANGED <<transferred, response>>
          \/ response' = Append(response, rxb) /\ pc' = "sw2" /\ UNCHANGED <<left, transferred>>
        BY <1>12 DEF sim_receive_procedure, exchange
    <2>4. ASSUME NEW all \in BOOLEAN PROVE Chunk(all) \in Nat /\ transferred + Chunk(all) <= msg.n
        BY <1>1, <2>1, ConstantsFact DEF Chunk
    <2>5. ASSUME pc' \in {"procedure", "send", "receive", "sw2"} PROVE ServeInv'
        BY <2>0, <2>1, <2>5 DEF ServeInv, Serving, Exchanging
    <2>6. CASE UNCHANGED <<pc, response, transferred, left>>
        BY <2>0, <2>6, ServeFrame
    <2>7. ASSUME NEW all \in BOOLEAN,
                 msg.sends /\ transferred' = transferred + Chunk(all) /\ pc' = "send",
                 UNCHANGED <<left, response>>
          PROVE  ServeInv' /\ BufferInv'
        <3>1. BufferBound'
            BY <1>0, <1>1, <2>1, <2>4, <2>7, ConstantsFact DEF BufferBound
        <3>2. BufferInv'
            BY <2>0, <2>1, <2>2, <2>4, <2>7, <3>1 DEF BufferInv
        <3> QED BY <2>5, <2>7, <3>2
    <2>8. ASSUME NEW all \in BOOLEAN,
                 ~msg.sends /\ Chunk(all) # 0 /\ left' = Chunk(all) /\ pc' = "receive",
                 UNCHANGED <<transferred, response>>
          PROVE  ServeInv' /\ BufferInv'
        <3>0. Chunk(all) \in Nat /\ transferred + Chunk(all) <= msg.n
            BY <2>4
        <3>1. BufferBound'
            BY <1>0, <1>1, <2>1, <2>8, <3>0, ConstantsFact DEF BufferBound
        <3>2. BufferInv'
            BY <1>1, <2>0, <2>1, <2>2, <2>8, <3>0, <3>1 DEF BufferInv
        <3> QED BY <2>5, <2>8, <3>2
    <2>9. CASE response' = Append(response, rxb) /\ pc' = "sw2" /\ UNCHANGED <<left, transferred>>
        <3>1. Len(response) <= MaxData
            BY <1>1, <2>2, ConstantsFact
        <3>2. BufferBound' /\ Len(response') = Len(response) + 1
            BY <1>2, <1>5, <2>9, <3>1, ConstantsFact
        <3>3. BufferInv'
            BY <1>2, <2>9, <3>1, <3>2, ConstantsFact DEF BufferInv
        <3> QED BY <2>5, <2>9, <3>3
    <2> QED BY <2>3, <2>6, <2>7, <2>8, <2>9
<1>13. CASE receive_data
    <2>1. /\ pc = "receive" /\ response' = Append(response, rxb)
          /\ transferred' = transferred + 1 /\ left' = left - 1
          /\ pc' = IF left = 1 THEN "procedure" ELSE "receive"
          /\ UNCHANGED <<msg, icc_active>>
        BY <1>13 DEF receive_data, slot
    <2>2. msg \in Requests /\ msg.type = "TPDU" /\ msg.n = MaxData /\ icc_active
        BY <2>1, RequestFact DEF ServeInv, Serving, Exchanging
    <2>3. ~msg.sends /\ left > 0 /\ transferred + left <= msg.n /\ Len(response) = transferred
        BY <2>1, <2>2 DEF BufferInv
    <2>4. ServeInv'
        BY <2>1, <2>2 DEF ServeInv, Serving, Exchanging
    <2>5. BufferBound' /\ Len(response') = transferred'
        BY <1>0, <1>1, <1>2, <2>1, <2>2, <2>3, ConstantsFact DEF BufferBound
    <2>6. BufferInv'
        BY <1>1, <2>1, <2>2, <2>3, <2>5, ConstantsFact DEF BufferInv
    <2> QED BY <2>4, <2>6
<1>14. CASE receive_end
    <2>1. /\ pc \in {"sw2", "pps"} /\ response' = Append(response, rxb)
          /\ UNCHANGED <<icc_active, left, transferred>>
          /\ \/ pc = "pps" /\ Len(response) + 1 < msg.n /\ UNCHANGED <<pc, msg>>
             \/ host_reply(FALSE)
        BY <1>14 DEF receive_end, slot
    <2>3. BufferBound' /\ Len(response') = Len(response) + 1
        BY <1>5, <2>1
    <2>4. CASE host_reply(FALSE)
        BY <1>1, <2>1, <2>3, <2>4, ReplyServe
    <2>5. CASE pc = "pps" /\ Len(response) + 1 < msg.n /\ UNCHANGED <<pc, msg>>
        <3>1. ServeInv'
            BY <2>1, <2>5 DEF ServeInv, Serving, Exchanging
        <3>2. BufferInv'
            BY <2>3, <2>5 DEF BufferInv
        <3> QED BY <3>1, <3>2
    <2> QED BY <2>1, <2>4, <2>5
<1>15. CASE sim_wait_fails
    <2>1. /\ UNCHANGED <<response, transferred, left>> /\ \E failed : host_reply(failed)
          /\ icc_active' = IF pc = "atr" THEN response # <<>> ELSE icc_active
        BY <1>15 DEF sim_wait_fails, exchange
    <2> QED BY <1>1, <1>3, <2>1, ReplyServe
<1> QED BY <1>6, <1>7, <1>8, <1>9, <1>10, <1>11, <1>12, <1>13, <1>14, <1>15 DEF Handlers

-----------------------------------------------------------------------------
\* The reader's invariant, and what follows from it.

ReaderInv == LineInv /\ ServeInv /\ BufferInv /\ CardInv

\* Init has nothing on the line, no request and empty buffers.
LEMMA InitReader == Init => ReaderInv
<1> SUFFICES ASSUME Init PROVE ReaderInv
    OBVIOUS
<1>1. LineInv
    BY ConstantsFact DEF Init, LineInv, LineType, LastInv, ServedInv, FrameInv, Places, Bytes
<1>2. ServeInv
    BY DEF Init, ServeInv, Serving, Exchanging
<1>3. BufferInv
    <2>1. <<>> \in Seq(CardBytes) /\ Len(<<>>) = 0
        BY EmptySeq
    <2> QED BY <2>1, ConstantsFact DEF Init, BufferInv, BufferBound
<1>4. CardInv
    <2>1. <<"none", 0>> \in CardBytes
        BY DEF CardBytes, Words
    <2> QED BY <2>1 DEF Init, CardInv, CardPlaces
<1> QED BY <1>1, <1>2, <1>3, <1>4 DEF ReaderInv

\* Every step keeps the reader's invariant.
LEMMA NextReader == ReaderInv /\ [Next]_vars => ReaderInv'
<1> SUFFICES ASSUME ReaderInv, [Next]_vars PROVE ReaderInv'
    OBVIOUS
<1>0. LineInv /\ ServeInv /\ BufferInv /\ CardInv
    BY DEF ReaderInv
<1>1. LineInv'
    BY <1>0, NextLine
<1>2. ASSUME UNCHANGED <<card, rxb, said>> PROVE CardInv'
    BY <1>0, <1>2 DEF CardInv, CardBytes
<1>3. CASE (\E r \in Requests : Command(r)) \/ ReadFrame \/ HostTimeout \/ HostStart
             \/ Arrive \/ Fault \/ UNCHANGED vars
    <2>1. UNCHANGED <<pc, msg, icc_active, response, transferred, left, card, rxb, said>>
        BY <1>3 DEF Command, ReadFrame, HostTimeout, HostStart, Arrive, Fault, vars, slot, exchange,
                    sim, cardVars
    <2> QED BY <1>0, <1>1, <1>2, <2>1, ServeFrame DEF ReaderInv
<1>4. CASE host_read_byte
    <2>1. UNCHANGED <<card, rxb, said>>
        BY <1>4 DEF host_read_byte, sim, cardVars
    <2> QED BY <1>0, <1>1, <1>2, <1>4, <2>1, ReadServe DEF ReaderInv
<1>5. CASE Handlers
    BY <1>0, <1>1, <1>5, HandlersServe, HandlersCard DEF ReaderInv
<1>6. CASE Card \/ CardStops
    <2>1. UNCHANGED <<pc, msg, icc_active, response, transferred, left>>
        BY <1>6, CardFrame
    <2> QED BY <1>0, <1>1, <1>6, <2>1, ServeFrame, CardStep DEF ReaderInv
<1> QED BY <1>3, <1>4, <1>5, <1>6 DEF Next, Reader, Handlers

\* The invariant holds throughout.
THEOREM ReaderInvariance == Spec => []ReaderInv
<1>1. Init => ReaderInv
    BY InitReader
<1>2. ReaderInv /\ [Next]_vars => ReaderInv'
    BY NextReader
<1> QED BY <1>1, <1>2, PTL DEF Spec

\* What a step writes into response[] or atr[] lies in it, unless it is the answer to a PPS
\* request that is longer than response[].
LEMMA WritesFit ==
    ASSUME ReaderInv, [Next]_vars, response' # response, ~PpsTooLong
    PROVE  Len(response') <= (IF pc = "atr" THEN MaxAtr ELSE ResponseSize)
<1>0. /\ response \in Seq(CardBytes) /\ rxb \in CardBytes /\ transferred \in Nat /\ left \in Nat
      /\ transferred <= MaxData
    BY DEF ReaderInv, BufferInv, BufferBound, CardInv
<1>1. Len(response) \in Nat /\ Len(Append(response, rxb)) = Len(response) + 1
    BY <1>0, AppendFact
<1>2. ResponseSize = MaxData + 2 /\ ResponseSize \in Nat /\ MaxAtr \in Nat /\ MaxData \in Nat
    BY ConstantsFact DEF ResponseSize
<1>3. Handlers
    <2>1. CASE (\E r \in Requests : Command(r)) \/ ReadFrame \/ HostTimeout \/ HostStart
                 \/ Arrive \/ Fault \/ UNCHANGED vars
        BY <2>1 DEF Command, ReadFrame, HostTimeout, HostStart, Arrive, Fault, vars, exchange
    <2>2. CASE host_read_byte
        BY <2>2 DEF host_read_byte, exchange
    <2>3. CASE Card \/ CardStops
        BY <2>3, CardFrame
    <2> QED BY <2>1, <2>2, <2>3 DEF Next, Reader, Handlers
<1>4. CASE response' = <<>>
    <2>1. Len(response') = 0
        BY <1>4
    <2> QED BY <1>2, <2>1
<1>5. CASE atr_byte
    <2>1. pc = "atr" /\ response' = Append(response, rxb)
        BY <1>5 DEF atr_byte
    <2>2. Len(response) < MaxAtr
        BY <2>1 DEF ReaderInv, BufferInv
    <2> QED BY <1>1, <1>2, <2>1, <2>2
<1>6. CASE sim_receive_procedure
    <2>1. pc = "procedure" /\ response' = Append(response, rxb)
        BY <1>6 DEF sim_receive_procedure, exchange
    <2>2. msg.type = "TPDU"
        BY <2>1 DEF ReaderInv, ServeInv
    <2>3. Len(response) = IF msg.sends THEN 0 ELSE transferred
        BY <2>1, <2>2 DEF ReaderInv, BufferInv
    <2>4. Len(response) <= MaxData
        BY <1>0, <1>2, <2>3
    <2> QED BY <1>1, <1>2, <2>1, <2>4
<1>7. CASE receive_data
    <2>1. pc = "receive" /\ response' = Append(response, rxb)
        BY <1>7 DEF receive_data
    <2>2. msg.type = "TPDU"
        BY <2>1 DEF ReaderInv, ServeInv
    <2>3. Len(response) = (IF msg.sends THEN 0 ELSE transferred)
        BY <2>1, <2>2 DEF ReaderInv, BufferInv
    <2>4. Len(response) <= MaxData
        BY <1>0, <1>2, <2>3
    <2> QED BY <1>1, <1>2, <2>1, <2>4
<1>8. CASE receive_end
    <2>1. pc \in {"sw2", "pps"} /\ response' = Append(response, rxb)
        BY <1>8 DEF receive_end
    <2>2. CASE pc = "sw2"
        <3>1. Len(response) <= MaxData + 1
            BY <2>2 DEF ReaderInv, BufferInv
        <3> QED BY <1>1, <1>2, <2>1, <2>2, <3>1
    <2>3. CASE pc = "pps"
        <3>1. msg \in Requests /\ msg.type = "PPS"
            BY <2>3 DEF ReaderInv, ServeInv, Serving
        <3>2. msg.n \in Nat /\ Len(response) < msg.n
            BY <2>3, <3>1, RequestFact, ConstantsFact DEF ReaderInv, BufferInv
        <3>3. msg.n <= ResponseSize
            BY <1>2, <3>1, <3>2 DEF PpsTooLong
        <3> QED BY <1>1, <1>2, <2>1, <2>3, <3>2, <3>3
    <2> QED BY <2>1, <2>2, <2>3
<1>9. CASE host_handle_plain \/ host_handle_reset_parameters \/ host_handle_set_parameters
             \/ host_handle_power_off \/ host_handle_escape \/ sim_wait_fails \/ send_ok \/ sim_send_byte
    BY <1>9 DEF host_handle_plain, host_handle_reset_parameters, host_handle_set_parameters,
                host_handle_power_off, host_handle_escape, sim_wait_fails, send_ok, sim_send_byte, exchange
<1>10. CASE host_handle_power_on \/ host_handle_xfr_block
    <2>1. response' = <<>>
        BY <1>10 DEF host_handle_power_on, host_handle_xfr_block, exchange
    <2> QED BY <1>4, <2>1
<1> QED BY <1>3, <1>5, <1>6, <1>7, <1>8, <1>9, <1>10 DEF Handlers

\* response[] and atr[] are never written beyond their end, whatever the card sends and
\* however late, for every size of data, ATR and request: but for a PPS request that is
\* longer than response[], which the code lets pass.
THEOREM BuffersHold == Spec => ResponseFits
<1>1. ReaderInv /\ [Next]_vars =>
        [/\ response' # response /\ ~PpsTooLong =>
              Len(response') <= (IF pc = "atr" THEN MaxAtr ELSE ResponseSize)
         /\ transferred' \in 0 .. MaxData /\ left' \in 0 .. MaxData]_vars
    <2> SUFFICES ASSUME ReaderInv, [Next]_vars
                 PROVE  /\ response' # response /\ ~PpsTooLong =>
                             Len(response') <= (IF pc = "atr" THEN MaxAtr ELSE ResponseSize)
                        /\ transferred' \in 0 .. MaxData /\ left' \in 0 .. MaxData
        OBVIOUS
    <2>1. transferred' \in Nat /\ left' \in Nat /\ transferred' <= MaxData /\ left' <= MaxData
        BY NextReader DEF ReaderInv, BufferInv, BufferBound
    <2>2. transferred' \in 0 .. MaxData /\ left' \in 0 .. MaxData
        BY <2>1, ConstantsFact
    <2> QED BY <2>2, WritesFit
<1>2. Init => ReaderInv
    BY InitReader
<1>3. ReaderInv /\ [Next]_vars => ReaderInv'
    BY NextReader
<1> QED BY <1>1, <1>2, <1>3, PTL DEF Spec, ResponseFits

-----------------------------------------------------------------------------
\* The reader implements the safety part of CcidSlot.

\* A step that sends nothing and neither takes nor ends a request.
LEMMA SlotStutters ==
    ASSUME UNCHANGED <<icc_active, msg, served, told>>,
           Serving' = Serving, (pc' = "off") = (pc = "off")
    PROVE  UNCHANGED Slot!vars
BY DEF Slot!vars

\* A reply is the answer to the request that was echoed.
LEMMA ReplyAnswers ==
    ASSUME Serving, NEW failed \in BOOLEAN, host_reply(failed), icc_active' \in BOOLEAN,
           UNCHANGED served, Slot!Outcome(msg.type, icc_active', failed)
    PROVE  Slot!Answer
<1>1. /\ told' = Frame("reply", served, icc_active', failed)
      /\ pc' = IF msg.type = "ESCAPE_POWER_OFF" THEN "off" ELSE "scan"
    BY DEF host_reply, Tell
<1>2. ~Serving' /\ pc # "off"
    BY <1>1 DEF Serving
<1>3. [request |-> msg, id |-> served] # Nothing
    BY DEF Nothing, Request
<1>4. Slot!Frame("reply", served, icc_active', failed) = Frame("reply", served, icc_active', failed)
    BY DEF Frame, Slot!Frame
<1> QED BY <1>1, <1>2, <1>3, <1>4 DEF Slot!Answer

\* A byte from the host: a request is taken, refused, or not yet complete.
LEMMA ReadSlot == ASSUME LineInv, host_read_byte PROVE Slot!Next \/ UNCHANGED Slot!vars
<1>1. ~Serving /\ pc # "off" /\ UNCHANGED icc_active
    BY DEF host_read_byte, slot
<1>2. pc \in {"scan", "ack", "frame"}
    BY <1>1 DEF Serving
<1>3. \/ UNCHANGED <<told, msg, served>> /\ pc' \in {"scan", "ack", "frame"}
      \/ host_write_nak /\ UNCHANGED <<msg, served>>
      \/ /\ told' = Frame("echo", count, FALSE, FALSE) /\ msg' = asked /\ served' = count
         /\ pc' = "serve"
    <2>1. CASE pc = "scan"
        BY <2>1 DEF host_read_byte
    <2>2. CASE pc = "ack"
        BY <2>2 DEF host_read_byte
    <2>3. CASE pc = "frame"
        BY <2>3 DEF host_read_byte, Tell
    <2> QED BY <1>2, <2>1, <2>2, <2>3
<1>4. CASE UNCHANGED <<told, msg, served>> /\ pc' \in {"scan", "ack", "frame"}
    <2>1. Serving' = Serving
        BY <1>1, <1>2, <1>4 DEF Serving
    <2>2. (pc' = "off") = (pc = "off")
        BY <1>2, <1>4
    <2> QED BY <1>1, <1>4, <2>1, <2>2, SlotStutters
<1>5. CASE host_write_nak /\ UNCHANGED <<msg, served>>
    <2>1. told' = NakFrame /\ pc' = "scan"
        BY <1>5 DEF host_write_nak, Tell
    <2>2. ~Serving'
        BY <2>1 DEF Serving
    <2>3. Slot!Nak = NakFrame
        BY DEF Slot!Nak, Slot!Frame, NakFrame, Frame
    <2>4. Slot!Refuse
        BY <1>1, <1>5, <2>1, <2>2, <2>3 DEF Slot!Refuse
    <2> QED BY <2>4 DEF Slot!Next
<1>6. CASE /\ told' = Frame("echo", count, FALSE, FALSE) /\ msg' = asked /\ served' = count
           /\ pc' = "serve"
    <2>1. Serving'
        BY <1>6 DEF Serving
    <2>2. served < count /\ count \in 1 .. MaxRequests /\ asked \in Requests
        <3>1. served # count
            BY TakeLine DEF host_read_byte, hostVars
        <3> QED BY <3>1, ConstantsFact DEF LineInv, LineType
    <2>3. Slot!Frame("echo", count, FALSE, FALSE) = Frame("echo", count, FALSE, FALSE)
        BY DEF Slot!Frame, Frame
    <2>4. Slot!Accept(count)
        BY <1>1, <1>6, <2>1, <2>2, <2>3 DEF Slot!Accept
    <2> QED BY <2>2, <2>4 DEF Slot!Next
<1> QED BY <1>3, <1>4, <1>5, <1>6

\* The handlers answer as CcidSlot allows, and say nothing before they do.
LEMMA HandlersSlot == ASSUME ServeInv, Handlers PROVE Slot!Next \/ UNCHANGED Slot!vars
<1>1. UNCHANGED served /\ pc \in {"serve", "atr"} \cup Exchanging
    BY HandlersFrame
<1>2. Serving /\ icc_active \in BOOLEAN
    BY <1>1 DEF Serving, Exchanging, ServeInv
<1>3. ASSUME NEW failed \in BOOLEAN, host_reply(failed), icc_active' \in BOOLEAN,
             Slot!Outcome(msg.type, icc_active', failed)
      PROVE  Slot!Next
    BY <1>1, <1>2, <1>3, ReplyAnswers DEF Slot!Next
<1>4. ASSUME UNCHANGED <<icc_active, msg, told>>, pc' \in {"atr"} \cup Exchanging
      PROVE  UNCHANGED Slot!vars
    <2>1. Serving' = Serving
        BY <1>2, <1>4 DEF Serving, Exchanging
    <2>2. (pc' = "off") = (pc = "off")
        BY <1>1, <1>4 DEF Exchanging
    <2> QED BY <1>1, <1>4, <2>1, <2>2, SlotStutters
<1>5. CASE host_handle_plain
    <2>1. msg.type \in {"GET", "UNKNOWN"} /\ UNCHANGED icc_active /\ host_reply(msg.type = "UNKNOWN")
        BY <1>5 DEF host_handle_plain, Serve, slot
    <2>2. Slot!Outcome(msg.type, icc_active', msg.type = "UNKNOWN")
        BY <2>1 DEF Slot!Outcome
    <2> QED BY <1>2, <1>3, <2>1, <2>2
<1>6. CASE host_handle_reset_parameters
    <2>1. msg.type = "RESET_PARAMETERS" /\ UNCHANGED icc_active /\ host_reply(FALSE)
        BY <1>6 DEF host_handle_reset_parameters, Serve
    <2>2. Slot!Outcome(msg.type, icc_active', FALSE)
        BY <2>1 DEF Slot!Outcome
    <2> QED BY <1>2, <1>3, <2>1, <2>2
<1>7. CASE host_handle_set_parameters
    <2>1. msg.type = "SET_PARAMETERS" /\ UNCHANGED icc_active /\ \E failed \in BOOLEAN : host_reply(failed)
        BY <1>7 DEF host_handle_set_parameters, Serve
    <2>2. \A failed : Slot!Outcome(msg.type, icc_active', failed)
        BY <2>1 DEF Slot!Outcome
    <2> QED BY <1>2, <1>3, <2>1, <2>2
<1>8. CASE host_handle_power_off
    <2>1. msg.type = "POWER_OFF" /\ icc_active' = FALSE /\ host_reply(FALSE)
        BY <1>8 DEF host_handle_power_off, Serve
    <2>2. Slot!Outcome(msg.type, icc_active', FALSE)
        BY <2>1 DEF Slot!Outcome
    <2> QED BY <1>3, <2>1, <2>2
<1>9. CASE host_handle_escape
    <2>1. msg.type = "ESCAPE_POWER_OFF" /\ UNCHANGED icc_active /\ host_reply(FALSE)
        BY <1>9 DEF host_handle_escape, Serve, slot
    <2>2. Slot!Outcome(msg.type, icc_active', FALSE)
        BY <2>1 DEF Slot!Outcome
    <2> QED BY <1>2, <1>3, <2>1, <2>2
<1>10. CASE host_handle_power_on
    <2>1. /\ msg.type = "POWER_ON"
          /\ \/ icc_active' = FALSE /\ host_reply(TRUE)
             \/ pc' = "atr" /\ UNCHANGED <<icc_active, msg, told>>
        BY <1>10 DEF host_handle_power_on, Serve
    <2>2. icc_active' = FALSE => Slot!Outcome(msg.type, icc_active', TRUE)
        BY <2>1 DEF Slot!Outcome
    <2> QED BY <1>3, <1>4, <2>1, <2>2
<1>11. CASE host_handle_xfr_block
    <2>1. /\ msg.type \in {"TPDU", "PPS", "SHORT"} /\ UNCHANGED icc_active
          /\ host_reply(TRUE) \/ (pc' = "send" /\ UNCHANGED <<msg, told>>)
        BY <1>11 DEF host_handle_xfr_block, Serve, slot
    <2>2. Slot!Outcome(msg.type, icc_active', TRUE)
        BY <2>1 DEF Slot!Outcome
    <2> QED BY <1>2, <1>3, <1>4, <2>1, <2>2 DEF Exchanging
<1>12. CASE atr_byte
    <2>1. /\ pc = "atr" /\ \/ UNCHANGED <<pc, told, msg, icc_active>>
                           \/ icc_active' = TRUE /\ host_reply(FALSE)
        BY <1>12 DEF atr_byte, slot
    <2>2. icc_active' = TRUE => Slot!Outcome(msg.type, icc_active', FALSE)
        BY <2>1 DEF Slot!Outcome, ServeInv
    <2> QED BY <1>3, <1>4, <2>1, <2>2
<1>13. CASE sim_send_byte \/ send_ok \/ sim_receive_procedure \/ receive_data
    <2>1. UNCHANGED <<icc_active, msg, told>> /\ pc \in Exchanging
        BY <1>13 DEF sim_send_byte, send_ok, sim_receive_procedure, receive_data, slot, Exchanging
    <2>2. pc' \in Exchanging
        BY <1>13, <2>1 DEF sim_send_byte, send_ok, sim_receive_procedure, receive_data, exchange, Exchanging
    <2> QED BY <1>4, <2>1, <2>2
<1>14. CASE receive_end
    <2>1. /\ pc \in {"sw2", "pps"} /\ UNCHANGED icc_active
          /\ UNCHANGED <<pc, told, msg>> \/ host_reply(FALSE)
        BY <1>14 DEF receive_end, slot
    <2>2. msg.type \in {"TPDU", "PPS"} /\ icc_active
        BY <2>1 DEF ServeInv, Exchanging
    <2>3. Slot!Outcome(msg.type, icc_active', FALSE)
        BY <2>1, <2>2 DEF Slot!Outcome
    <2> QED BY <1>2, <1>3, <1>4, <2>1, <2>3 DEF Exchanging
<1>15. CASE sim_wait_fails
    <2>1. /\ Waiting /\ icc_active' = IF pc = "atr" THEN response # <<>> ELSE icc_active
          /\ host_reply(pc # "atr" \/ response = <<>>)
        BY <1>15 DEF sim_wait_fails
    <2>2. CASE pc = "atr"
        <3>1. msg.type = "POWER_ON"
            BY <2>2 DEF ServeInv
        <3>2. Slot!Outcome(msg.type, icc_active', pc # "atr" \/ response = <<>>)
            BY <2>1, <2>2, <3>1 DEF Slot!Outcome
        <3> QED BY <1>2, <1>3, <2>1, <2>2, <3>2
    <2>3. CASE pc # "atr"
        <3>1. msg.type \in {"TPDU", "PPS"}
            BY <2>1, <2>3 DEF ServeInv, Waiting, Exchanging
        <3>2. Slot!Outcome(msg.type, icc_active', pc # "atr" \/ response = <<>>)
            BY <2>1, <2>3, <3>1 DEF Slot!Outcome
        <3> QED BY <1>2, <1>3, <2>1, <2>3, <3>2
    <2> QED BY <2>2, <2>3
<1> QED BY <1>5, <1>6, <1>7, <1>8, <1>9, <1>10, <1>11, <1>12, <1>13, <1>14, <1>15 DEF Handlers

\* The reader keeps the safety part of what CcidSlot promises, for every number of
\* requests and every size: an echo, then one reply under the same number, with a result
\* and a state of the slot that follow from the request; nothing twice, nothing unasked.
\* (That an echoed request is answered in the end is CcidSlot's fairness and is left to
\* the model checker.)
THEOREM SlotSafety == Spec => Slot!Init /\ [][Slot!Next]_(Slot!vars)
<1>1. Init => Slot!Init
    BY DEF Init, Slot!Init, Slot!NoFrame, Slot!Frame, NoFrame, Frame, Serving
<1>2. ReaderInv /\ [Next]_vars => [Slot!Next]_(Slot!vars)
    <2> SUFFICES ASSUME ReaderInv, [Next]_vars PROVE Slot!Next \/ UNCHANGED Slot!vars
        OBVIOUS
    <2>0. LineInv /\ ServeInv
        BY DEF ReaderInv
    <2>1. ASSUME UNCHANGED <<icc_active, msg, served, told, pc>> PROVE UNCHANGED Slot!vars
        BY <2>1, SlotStutters DEF Serving
    <2>2. CASE (\E r \in Requests : Command(r)) \/ ReadFrame \/ HostTimeout \/ HostStart
                 \/ Arrive \/ Fault \/ UNCHANGED vars
        <3>1. UNCHANGED <<icc_active, msg, served, told, pc>>
            BY <2>2 DEF Command, ReadFrame, HostTimeout, HostStart, Arrive, Fault, vars, slot
        <3> QED BY <2>1, <3>1
    <2>3. CASE host_read_byte
        BY <2>0, <2>3, ReadSlot
    <2>4. CASE Handlers
        BY <2>0, <2>4, HandlersSlot
    <2>5. CASE Card \/ CardStops
        BY <2>1, <2>5, CardFrame
    <2> QED BY <2>2, <2>3, <2>4, <2>5 DEF Next, Reader, Handlers
<1>3. Spec => []ReaderInv
    BY ReaderInvariance
<1> QED BY <1>1, <1>2, <1>3, PTL DEF Spec

-----------------------------------------------------------------------------
\* The host gets the answer to its own request.

\* What a host that reads the first of several frames is left with.
LEMMA NextFrame ==
    ASSUME HostInv, up # <<>>
    PROVE  /\ Len(up) \in Nat /\ Len(up) >= 1 /\ Head(up) = up[1] /\ up[1] \in Frames
           /\ Tail(up) \in Seq(Frames) /\ Len(Tail(up)) = Len(up) - 1
           /\ \A i \in 1 .. Len(up) - 1 : Tail(up)[i] = up[i + 1]
           /\ Len(up) = 1 => Tail(up) = <<>>
BY TailFact DEF HostInv

\* Nothing that the host sees changes.
LEMMA HostFrame ==
    ASSUME HostInv, UNCHANGED <<host, up, returned, overtaken, count, served>>, Serving' <=> Serving,
           host = "ready" /\ ~overtaken => pc' = "off" \/ (wire' = <<>> /\ fifo' = <<>>)
    PROVE  HostInv'
<1>1. EchoInv => EchoInv'
    BY Zenon DEF EchoInv, Naks, IsEcho, IsReply
<1>2. ReplyInv => ReplyInv'
    BY Zenon DEF ReplyInv, IsReply
<1>3. ReturnedInv => ReturnedInv'
    BY DEF ReturnedInv, IsReply, NoFrame, Frame
<1>4. Frames' = Frames
    BY DEF Frames
<1> QED BY <1>1, <1>2, <1>3, <1>4 DEF HostInv

\* A frame is sent: up holds one more.
LEMMA TellFact ==
    ASSUME HostInv, NEW f \in Frames, Tell(f)
    PROVE  /\ up' \in Seq(Frames) /\ Len(up) \in Nat /\ Len(up') = Len(up) + 1
           /\ \A i \in 1 .. Len(up) : up'[i] = up[i]
           /\ up'[Len(up) + 1] = f
BY AppendFact DEF HostInv, Tell

\* A handler goes on serving, or replies and is done.
LEMMA HandlersTell ==
    ASSUME ServeInv, Handlers, icc_active' \in BOOLEAN
    PROVE  /\ Serving
           /\ \/ UNCHANGED up /\ Serving'
              \/ \E failed \in BOOLEAN : Tell(Frame("reply", served, icc_active', failed)) /\ ~Serving'
<1>1. UNCHANGED served /\ pc \in {"serve", "atr"} \cup Exchanging
    BY HandlersFrame
<1>2. Serving
    BY <1>1 DEF Serving, Exchanging
<1>3. ASSUME NEW failed \in BOOLEAN, host_reply(failed)
      PROVE  Tell(Frame("reply", served, icc_active', failed)) /\ ~Serving'
    BY <1>3 DEF host_reply, Serving
<1>4. \/ UNCHANGED up /\ pc' \in {"atr"} \cup Exchanging
      \/ \E failed \in BOOLEAN : host_reply(failed)
    <2>1. CASE host_handle_plain \/ host_handle_reset_parameters \/ host_handle_set_parameters
                 \/ host_handle_power_off \/ host_handle_escape \/ sim_wait_fails
        BY <2>1 DEF host_handle_plain, host_handle_reset_parameters, host_handle_set_parameters,
                    host_handle_power_off, host_handle_escape, sim_wait_fails
    <2>2. CASE host_handle_power_on \/ host_handle_xfr_block \/ atr_byte
        BY <2>2 DEF host_handle_power_on, host_handle_xfr_block, atr_byte, Exchanging
    <2>3. CASE sim_send_byte \/ send_ok \/ sim_receive_procedure \/ receive_data
        BY <2>3 DEF sim_send_byte, send_ok, sim_receive_procedure, receive_data, exchange, Exchanging
    <2>4. CASE receive_end
        BY <2>4 DEF receive_end, Exchanging
    <2> QED BY <2>1, <2>2, <2>3, <2>4 DEF Handlers
<1>5. pc' \in {"atr"} \cup Exchanging => Serving'
    BY DEF Serving, Exchanging
<1> QED BY <1>2, <1>3, <1>4, <1>5

\* The host makes a request: nothing is on its way to it.
LEMMA CommandHost == ASSUME LineInv, HostInv, NEW r \in Requests, Command(r) PROVE HostInv'
<1>1. /\ host = "ready" /\ host' = "echo" /\ count' = count + 1 /\ returned' = NoFrame
      /\ UNCHANGED <<up, served, pc, overtaken>>
    BY DEF Command
<1>2. NoFrame' = NoFrame /\ Frames' = Frames /\ (Serving' <=> Serving)
    BY <1>1 DEF NoFrame, Frame, Frames, Serving
<1>3. ReturnedInv'
    BY <1>1, <1>2 DEF ReturnedInv
<1>4. served' < count' /\ served' # count'
    BY <1>1, ConstantsFact DEF LineInv, LineType
<1>5. ~overtaken => EchoInv'
    <2> SUFFICES ASSUME ~overtaken PROVE EchoInv'
        OBVIOUS
    <2>1. up = <<>> /\ ~Serving
        BY <1>1 DEF HostInv
    <2>2. up' = <<>> /\ ~Serving' /\ Len(up') = 0
        BY <1>1, <1>2, <2>1
    <2> QED BY <1>4, <2>2 DEF EchoInv, Naks
<1> QED BY <1>1, <1>2, <1>3, <1>5 DEF HostInv

\* read_frame: the reply comes behind the echo, and only NAKs come before it.
LEMMA ReadFrameHost == ASSUME LineInv, HostInv, ReadFrame PROVE HostInv'
<1>1. /\ host \in {"echo", "reply"} /\ up # <<>> /\ up' = Tail(up)
      /\ UNCHANGED <<count, served, pc, overtaken, wire, fifo>>
      /\ \/ host' = "exit" /\ UNCHANGED returned
         \/ up[1].kind # "nak" /\ host = "echo" /\ host' = "reply" /\ UNCHANGED returned
         \/ host = "reply" /\ host' = "ready" /\ returned' = up[1]
    <2>1. up # <<>>
        BY DEF ReadFrame
    <2>2. Head(up) = up[1]
        BY <2>1, NextFrame
    <2> QED BY <2>2 DEF ReadFrame, line, Malformed
<1>2. NoFrame' = NoFrame /\ Frames' = Frames /\ (Serving' <=> Serving)
    BY <1>1 DEF NoFrame, Frame, Frames, Serving
<1>3. /\ Len(up) \in Nat /\ Len(up) >= 1 /\ up[1] \in Frames
      /\ up' \in Seq(Frames) /\ Len(up') = Len(up) - 1
      /\ \A i \in 1 .. Len(up) - 1 : up'[i] = up[i + 1]
      /\ Len(up) = 1 => up' = <<>>
    BY <1>1, NextFrame
<1>4. /\ overtaken' \in BOOLEAN /\ up' \in Seq(Frames)'
      /\ host' \in {"ready", "echo", "reply", "exit"}
    BY <1>1, <1>2, <1>3 DEF HostInv
<1> SUFFICES ASSUME ~overtaken'
             PROVE  /\ ReturnedInv'
                    /\ host' = "ready" =>
                           up' = <<>> /\ ~Serving' /\ (pc' = "off" \/ (wire' = <<>> /\ fifo' = <<>>))
                    /\ host' = "echo" => EchoInv'
                    /\ host' = "reply" => ReplyInv'
    BY <1>4 DEF HostInv
<1>5. ReturnedInv /\ (host = "echo" => EchoInv) /\ (host = "reply" => ReplyInv)
    BY <1>1 DEF HostInv
<1>6. UNCHANGED returned => ReturnedInv'
    BY <1>1, <1>2, <1>5 DEF ReturnedInv, IsReply
<1>7. CASE host' = "exit" /\ UNCHANGED returned
    BY <1>6, <1>7
<1>8. CASE up[1].kind # "nak" /\ host = "echo" /\ host' = "reply" /\ UNCHANGED returned
    <2>1. EchoInv /\ served \in Nat /\ count \in Nat /\ served <= count
        BY <1>5, <1>8, ConstantsFact DEF LineInv, LineType
    <2>2. served = count
        <3>1. served < count => up[1].kind = "nak"
            BY <1>3, <2>1 DEF EchoInv, Naks
        <3> QED BY <1>8, <2>1, <3>1
    <2>3. Serving => up' = <<>>
        <3> SUFFICES ASSUME Serving PROVE up' = <<>>
            OBVIOUS
        <3>1. \A i \in 1 .. Len(up) - 1 : up[i].kind = "nak"
            BY <2>1, <2>2 DEF EchoInv, Naks
        <3>2. Len(up) = 1
            BY <1>3, <1>8, <3>1
        <3> QED BY <1>3, <3>2
    <2>4. ~Serving => Len(up') = 1 /\ up'[1].kind = "reply" /\ up'[1].id = count
        <3> SUFFICES ASSUME ~Serving PROVE Len(up') = 1 /\ up'[1].kind = "reply" /\ up'[1].id = count
            OBVIOUS
        <3>1. /\ Len(up) >= 2 /\ \A i \in 1 .. Len(up) - 2 : up[i].kind = "nak"
              /\ up[Len(up)].kind = "reply" /\ up[Len(up)].id = count
            BY <2>1, <2>2 DEF EchoInv, Naks, IsReply
        <3>2. Len(up) = 2
            BY <1>3, <1>8, <3>1
        <3>3. Len(up') = 1 /\ up'[1] = up[2]
            BY <1>3, <3>2
        <3> QED BY <3>1, <3>2, <3>3
    <2>5. ReplyInv'
        BY <1>1, <1>2, <2>2, <2>3, <2>4 DEF ReplyInv, IsReply
    <2> QED BY <1>6, <1>8, <2>5
<1>9. CASE host = "reply" /\ host' = "ready" /\ returned' = up[1]
    <2>1. ReplyInv
        BY <1>5, <1>9
    <2>2. ~Serving /\ served = count /\ Len(up) = 1 /\ up[1].kind = "reply" /\ up[1].id = count
        BY <1>1, <2>1 DEF ReplyInv, IsReply
    <2>3. up' = <<>> /\ wire' = <<>> /\ fifo' = <<>>
        BY <1>1, <1>3, <2>2 DEF LineInv, ServedInv
    <2>4. ReturnedInv'
        BY <1>1, <1>9, <2>2 DEF ReturnedInv, IsReply
    <2> QED BY <1>2, <1>9, <2>2, <2>3, <2>4
<1> QED BY <1>1, <1>7, <1>8, <1>9

\* The script ends, and the next one starts on an idle line.
LEMMA StartHost == ASSUME HostInv, HostTimeout \/ HostStart PROVE HostInv'
<1>1. UNCHANGED <<count, served, pc, returned, wire, fifo>>
    BY DEF HostTimeout, HostStart, line
<1>2. NoFrame' = NoFrame /\ Frames' = Frames /\ (Serving' <=> Serving) /\ (ReturnedInv => ReturnedInv')
    BY <1>1 DEF NoFrame, Frame, Frames, Serving, ReturnedInv, IsReply
<1>3. CASE HostTimeout
    <2>1. host' = "exit" /\ UNCHANGED <<up, overtaken>>
        BY <1>3 DEF HostTimeout
    <2> QED BY <1>2, <2>1 DEF HostInv
<1>4. CASE HostStart
    <2>1. /\ host' = "ready" /\ up' = <<>> /\ overtaken' = (overtaken \/ Serving)
          /\ wire = <<>> /\ (fifo = <<>> \/ Serving \/ pc = "off")
        BY <1>4 DEF HostStart, LineIdle
    <2>2. <<>> \in Seq(Frames)
        BY EmptySeq
    <2>3. overtaken' \in BOOLEAN
        BY <2>1
    <2>4. ~overtaken' => ~overtaken /\ ~Serving
        BY <2>1
    <2>5. ~overtaken => ReturnedInv
        BY DEF HostInv
    <2>6. up' \in Seq(Frames') /\ host' \in {"ready", "echo", "reply", "exit"}
        BY <1>2, <2>1, <2>2
    <2> QED BY <1>1, <1>2, <2>1, <2>3, <2>4, <2>5, <2>6 DEF HostInv
<1> QED BY <1>3, <1>4

\* The reader takes a byte: it refuses, or echoes, a request of a host that waits for that.
LEMMA ReadHost == ASSUME LineInv, HostInv, host_read_byte PROVE HostInv'
<1>1. /\ ~Serving /\ pc # "off" /\ fifo \o wire # <<>>
      /\ UNCHANGED <<host, count, returned, overtaken>>
    BY DEF host_read_byte, hostVars
<1>2. served # count /\ served < count /\ served \in Nat /\ count \in Nat
    <2>1. served # count
        BY TakeLine DEF host_read_byte, hostVars
    <2> QED BY <2>1, ConstantsFact DEF LineInv, LineType
<1>3. ~overtaken => host # "ready" /\ host # "reply"
    <2>1. wire # <<>> \/ fifo # <<>>
        BY <1>1, ConcatEmptySeq, EmptySeq
    <2> QED BY <1>1, <1>2, <2>1 DEF HostInv, ReplyInv
<1>4. NoFrame' = NoFrame /\ Frames' = Frames /\ (ReturnedInv => ReturnedInv')
    BY <1>1 DEF NoFrame, Frame, Frames, ReturnedInv, IsReply
<1>5. \/ UNCHANGED <<up, served>> /\ ~Serving'
      \/ Tell(NakFrame) /\ UNCHANGED served /\ ~Serving'
      \/ Tell(Frame("echo", count, FALSE, FALSE)) /\ served' = count /\ Serving'
    <2>0. pc \in {"scan", "ack", "frame"}
        BY <1>1 DEF Serving
    <2>1. CASE pc = "scan"
        BY <2>1 DEF host_read_byte, Serving
    <2>2. CASE pc = "ack"
        BY <2>2 DEF host_read_byte, host_write_nak, Serving
    <2>3. CASE pc = "frame"
        BY <2>3 DEF host_read_byte, host_write_nak, Serving
    <2> QED BY <2>0, <2>1, <2>2, <2>3
<1>6. ~overtaken /\ host = "echo" => Len(up) \in Nat /\ \A i \in 1 .. Len(up) : up[i].kind = "nak"
    <2>1. up \in Seq(Frames)
        BY DEF HostInv
    <2>2. Len(up) \in Nat
        BY <2>1
    <2> QED BY <1>2, <2>2 DEF HostInv, EchoInv, Naks
<1>7. ASSUME up' \in Seq(Frames), ~overtaken /\ host = "echo" => EchoInv' PROVE HostInv'
    BY <1>1, <1>3, <1>4, <1>7 DEF HostInv
<1>8. CASE UNCHANGED <<up, served>> /\ ~Serving'
    <2>1. ~overtaken /\ host = "echo" => EchoInv'
        BY <1>1, <1>2, <1>6, <1>8 DEF EchoInv, Naks
    <2>2. up' \in Seq(Frames)
        BY <1>8 DEF HostInv
    <2> QED BY <1>7, <2>1, <2>2
<1>9. CASE Tell(NakFrame) /\ UNCHANGED served /\ ~Serving'
    <2>0. NakFrame \in Frames /\ NakFrame.kind = "nak"
        BY DEF NakFrame, Frame, Frames
    <2>1. /\ up' \in Seq(Frames) /\ Len(up) \in Nat /\ Len(up') = Len(up) + 1
          /\ \A i \in 1 .. Len(up) : up'[i] = up[i]
          /\ up'[Len(up) + 1] = NakFrame
        BY <1>9, <2>0, TellFact
    <2>2. ~overtaken /\ host = "echo" => \A i \in 1 .. Len(up') : up'[i].kind = "nak"
        BY <1>6, <2>0, <2>1
    <2>3. ~overtaken /\ host = "echo" => EchoInv'
        BY <1>1, <1>2, <1>9, <2>2 DEF EchoInv, Naks
    <2> QED BY <1>7, <2>1, <2>3
<1>10. CASE Tell(Frame("echo", count, FALSE, FALSE)) /\ served' = count /\ Serving'
    <2> DEFINE echo == Frame("echo", count, FALSE, FALSE)
    <2>0. echo \in Frames /\ echo.kind = "echo"
        BY <1>2 DEF Frame, Frames
    <2> HIDE DEF echo
    <2>1. /\ up' \in Seq(Frames) /\ Len(up) \in Nat /\ Len(up') = Len(up) + 1
          /\ \A i \in 1 .. Len(up) : up'[i] = up[i]
          /\ up'[Len(up) + 1] = echo
        BY <1>10, <2>0, TellFact DEF echo
    <2>2. ~overtaken /\ host = "echo" =>
              /\ Len(up') >= 1 /\ up'[Len(up')].kind = "echo"
              /\ \A i \in 1 .. Len(up') - 1 : up'[i].kind = "nak"
        BY <1>6, <2>0, <2>1
    <2>3. ~overtaken /\ host = "echo" => EchoInv'
        BY <1>1, <1>2, <1>10, <2>2 DEF EchoInv, Naks, IsEcho
    <2> QED BY <1>7, <2>1, <2>3
<1> QED BY <1>5, <1>8, <1>9, <1>10

\* The handlers: the reply goes behind the echo.
LEMMA HandlersHost == ASSUME LineInv, ServeInv, HostInv, Handlers, icc_active' \in BOOLEAN PROVE HostInv'
<1>1. UNCHANGED <<host, count, returned, overtaken, served, wire, fifo>>
    BY HandlersFrame
<1>2. /\ Serving
      /\ \/ UNCHANGED up /\ Serving'
         \/ \E failed \in BOOLEAN : Tell(Frame("reply", served, icc_active', failed)) /\ ~Serving'
    BY HandlersTell
<1>3. CASE UNCHANGED up /\ Serving'
    <2>1. host = "ready" => overtaken
        BY <1>2 DEF HostInv
    <2> QED BY <1>1, <1>2, <1>3, <2>1, HostFrame
<1>4. ASSUME NEW failed \in BOOLEAN, Tell(Frame("reply", served, icc_active', failed)), ~Serving'
      PROVE  HostInv'
    <2> DEFINE f == Frame("reply", served, icc_active', failed)
    <2>0. served \in Nat /\ count \in Nat /\ served <= count
        BY ConstantsFact DEF LineInv, LineType
    <2>1. f \in Frames /\ f.kind = "reply" /\ f.id = served
        BY <2>0 DEF Frame, Frames
    <2> HIDE DEF f
    <2>2. /\ up' \in Seq(Frames) /\ Len(up) \in Nat /\ Len(up') = Len(up) + 1
          /\ \A i \in 1 .. Len(up) : up'[i] = up[i]
          /\ up'[Len(up) + 1] = f
        BY <1>4, <2>1, TellFact DEF f
    <2>3. NoFrame' = NoFrame /\ Frames' = Frames /\ (ReturnedInv => ReturnedInv')
        BY <1>1 DEF NoFrame, Frame, Frames, ReturnedInv, IsReply
    <2>4. ~overtaken /\ host = "echo" => EchoInv'
        <3> SUFFICES ASSUME ~overtaken, host = "echo" PROVE EchoInv'
            OBVIOUS
        <3>1. EchoInv
            BY DEF HostInv
        <3>2. served = count
            BY <1>2, <2>0, <3>1 DEF EchoInv
        <3>3. /\ Len(up) >= 1 /\ up[Len(up)].kind = "echo"
              /\ \A i \in 1 .. Len(up) - 1 : up[i].kind = "nak"
            BY <1>2, <3>1, <3>2 DEF EchoInv, Naks, IsEcho
        <3>4. /\ Len(up') >= 2 /\ up'[Len(up') - 1].kind = "echo"
              /\ \A i \in 1 .. Len(up') - 2 : up'[i].kind = "nak"
              /\ up'[Len(up')].kind = "reply" /\ up'[Len(up')].id = count
            BY <2>1, <2>2, <3>2, <3>3
        <3> QED BY <1>1, <1>4, <2>0, <3>2, <3>4 DEF EchoInv, Naks, IsEcho, IsReply
    <2>5. ~overtaken /\ host = "reply" => ReplyInv'
        <3> SUFFICES ASSUME ~overtaken, host = "reply" PROVE ReplyInv'
            OBVIOUS
        <3>1. served = count /\ up = <<>>
            BY <1>2 DEF HostInv, ReplyInv
        <3>2. Len(up) = 0
            BY <3>1
        <3>3. Len(up') = 1 /\ up'[1].kind = "reply" /\ up'[1].id = count
            BY <2>1, <2>2, <3>1, <3>2
        <3> QED BY <1>1, <1>4, <3>1, <3>3 DEF ReplyInv, IsReply
    <2>6. ~overtaken => host # "ready"
        BY <1>2 DEF HostInv
    <2> QED BY <1>1, <2>2, <2>3, <2>4, <2>5, <2>6 DEF HostInv
<1> QED BY <1>2, <1>3, <1>4

\* Every step keeps the host's invariant.
LEMMA NextHost == ReaderInv /\ ReaderInv' /\ HostInv /\ [Next]_vars => HostInv'
<1> SUFFICES ASSUME ReaderInv, ReaderInv', HostInv, [Next]_vars PROVE HostInv'
    OBVIOUS
<1>0. LineInv /\ ServeInv /\ icc_active' \in BOOLEAN
    BY DEF ReaderInv, ServeInv
<1>1. CASE \E r \in Requests : Command(r)
    BY <1>0, <1>1, CommandHost
<1>2. CASE ReadFrame
    BY <1>0, <1>2, ReadFrameHost
<1>3. CASE HostTimeout \/ HostStart
    BY <1>3, StartHost
<1>4. CASE Arrive \/ Fault
    <2>1. /\ wire # <<>> /\ UNCHANGED <<host, up, returned, overtaken, count, served, pc>>
        BY <1>4 DEF Arrive, Fault, hostVars
    <2>2. Serving' <=> Serving
        BY <2>1 DEF Serving
    <2>3. host = "ready" /\ ~overtaken => pc' = "off"
        BY <2>1 DEF HostInv
    <2> QED BY <2>1, <2>2, <2>3, HostFrame
<1>5. CASE host_read_byte
    BY <1>0, <1>5, ReadHost
<1>6. CASE Handlers
    BY <1>0, <1>6, HandlersHost
<1>7. CASE Card \/ CardStops \/ UNCHANGED vars
    <2>1. UNCHANGED <<host, up, returned, overtaken, count, served, pc, wire, fifo>>
        BY <1>7, CardFrame DEF vars, hostVars, line
    <2>2. Serving' <=> Serving
        BY <2>1 DEF Serving
    <2>3. host = "ready" /\ ~overtaken => pc' = "off" \/ (wire' = <<>> /\ fifo' = <<>>)
        BY <2>1 DEF HostInv
    <2> QED BY <2>1, <2>2, <2>3, HostFrame
<1> QED BY <1>1, <1>2, <1>3, <1>4, <1>5, <1>6, <1>7 DEF Next, Reader, Handlers

\* What command() returns is the answer to this very command, for every loss and damage on
\* the line and any number of restarts of the script; but for a script that is started while
\* the reader still serves a request of an earlier one.
THEOREM HostStaysInStep == Spec => []HostInStep
<1>1. Init => HostInv
    <2>1. <<>> \in Seq(Frames)
        BY EmptySeq
    <2> QED BY <2>1 DEF Init, HostInv, ReturnedInv, Serving
<1>2. Init => ReaderInv
    BY InitReader
<1>3. ReaderInv /\ HostInv /\ [Next]_vars => (ReaderInv /\ HostInv)'
    BY NextReader, NextHost
<1>4. HostInv => HostInStep
    BY DEF HostInv, HostInStep, ReturnedInv, IsReply
<1> QED BY <1>1, <1>2, <1>3, <1>4, PTL DEF Spec

-----------------------------------------------------------------------------
(***************************************************************************)
(* The exchange with a card that keeps the times: reader and card are      *)
(* always at the same byte, and what the host gets is what the card has    *)
(* said.                                                                   *)
(***************************************************************************)

\* The inductive invariant of the exchange.

OutBytes == {"TPDU", "PPS", "data"} \X Nat

\* The card neither sends nor takes.
Idle == card \in {"off", "mute", "wait"}
OnWay == IF ok THEN 1 ELSE 0
InTx == IF txb # <<>> THEN 1 ELSE 0

\* All that the card has said is in the buffer, or is the byte in SIM_RXB.
Heard == said = IF ok THEN Append(response, rxb) ELSE response

TookInv == took \in Seq(OutBytes) /\ \A i \in 1 .. Len(took) : took[i] = <<"data", i>>

QuietInv == ~Serving \/ pc = "serve" => Idle /\ ~ok /\ txb = <<>>

AtrInv ==
    pc = "atr" =>
        /\ txb = <<>> /\ Heard
        /\ Idle \/ (card = "atr" /\ todo \in Nat /\ todo >= 1 /\ Len(said) + todo = MaxAtr)

\* The rest of a field whose bytes are labelled: out, behind the byte in the transmitter.
Rest(label, size) ==
    /\ Len(out) <= size
    /\ \A i \in 1 .. Len(out) : out[i] = <<label, size - Len(out) + i>>
    /\ txb # <<>> => txb = <<label, size - Len(out)>>

HeaderSent == Len(out) = 0 /\ txb = <<>>
Leader == IF msg.type = "PPS" THEN msg.n ELSE TpduHeader
InHeader ==
    /\ Rest(msg.type, Leader)
    /\ transferred = 0 /\ took = <<>>
    /\ \/ Idle
       \/ HeaderSent /\ card = (IF msg.type = "PPS" THEN "pps" ELSE "answer") /\ todo = msg.n

\* A card that takes data is where the reader is.
Taking ==
    /\ todo \in Nat /\ todo + Len(took) = msg.n
    /\ Len(took) + Len(out) + InTx = transferred
    /\ \/ card = "take" /\ Len(out) + InTx = 1
       \/ card = "take all" /\ transferred = msg.n /\ Len(out) + InTx >= 1
       \/ card = "answer" /\ HeaderSent
InData ==
    /\ msg.type = "TPDU" /\ msg.sends
    /\ Rest("data", transferred)
    /\ Idle \/ Taking

SendInv ==
    pc \in {"send", "sent"} =>
        /\ said = <<>> /\ response = <<>> /\ out \in Seq(OutBytes)
        /\ pc = "send" => txb = <<>> /\ ~ok /\ Len(out) >= 1
        /\ pc = "sent" => (txb # <<>>) = ~ok
        /\ InHeader \/ InData

\* The procedure byte on its way, and what the card does behind it.
Answering ==
    /\ todo \in Nat /\ todo + transferred = msg.n
    /\ msg.sends => Len(took) = transferred
    /\ \/ card = "answer" /\ (ok => rxb[1] = "null" \/ (rxb[1] \in {"ins", "~ins"} /\ todo = 0))
       \/ ok /\ rxb[1] = "ins" /\ todo > 0 /\ card = IF msg.sends THEN "take all" ELSE "give all"
       \/ ok /\ rxb[1] = "~ins" /\ todo > 0 /\ card = IF msg.sends THEN "take" ELSE "give"
       \/ ok /\ rxb[1] = "sw1" /\ card = "sw2"
ProcedureInv ==
    pc = "procedure" =>
        /\ txb = <<>> /\ Len(out) = 0
        /\ said = IF ok /\ rxb[1] \notin {"null", "ins", "~ins"} THEN Append(response, rxb) ELSE response
        /\ Idle \/ Answering

Giving ==
    /\ todo \in Nat /\ todo + transferred + OnWay = msg.n
    /\ \/ card = "give" /\ ~ok /\ left = 1 /\ todo >= 1
       \/ card = "give all" /\ todo >= 1 /\ left = todo + OnWay
       \/ card = "answer" /\ ok /\ left = 1
ReceiveInv == pc = "receive" => txb = <<>> /\ Len(out) = 0 /\ Heard /\ (Idle \/ Giving)

StatusInv == pc = "sw2" => txb = <<>> /\ Heard /\ (Idle \/ (card = "sw2" /\ ~ok))

PpsInv ==
    pc = "pps" =>
        /\ txb = <<>> /\ Heard
        /\ Idle \/ (card = "pps" /\ todo \in Nat /\ todo >= 1 /\ Len(said) + todo = msg.n)

InStepInv ==
    /\ TookInv /\ QuietInv /\ AtrInv /\ SendInv /\ ProcedureInv /\ ReceiveInv /\ StatusInv /\ PpsInv

RateInv == brf = sim_fidi_to_brf(t0_fidi)
ExactInv == ok \in BOOLEAN /\ late \in BOOLEAN /\ RateInv /\ (~late => InStepInv)

-----------------------------------------------------------------------------
\* Where the reader goes decides which part of the invariant is left to show.

LEMMA ToQuiet ==
    ASSUME pc' \notin Exchanging \cup {"atr"}, TookInv', Idle', ~ok', txb' = <<>>
    PROVE  InStepInv'
<1>1. AtrInv' /\ SendInv' /\ ProcedureInv' /\ ReceiveInv' /\ StatusInv' /\ PpsInv'
    BY DEF Exchanging, AtrInv, SendInv, ProcedureInv, ReceiveInv, StatusInv, PpsInv
<1>2. QuietInv'
    BY DEF QuietInv
<1> QED BY <1>1, <1>2 DEF InStepInv

\* In an exchange, only the part of the invariant for the place reached says anything.
LEMMA ToPlace ==
    ASSUME TookInv', pc' \in {"atr"} \cup Exchanging,
           pc' = "atr" => AtrInv',
           pc' \in {"send", "sent"} => SendInv',
           pc' = "procedure" => ProcedureInv',
           pc' = "receive" => ReceiveInv',
           pc' = "sw2" => StatusInv',
           pc' = "pps" => PpsInv'
    PROVE  InStepInv'
<1>1. AtrInv' /\ SendInv' /\ ProcedureInv' /\ ReceiveInv' /\ StatusInv' /\ PpsInv'
    BY DEF AtrInv, SendInv, ProcedureInv, ReceiveInv, StatusInv, PpsInv
<1>2. QuietInv'
    BY DEF QuietInv, Serving, Exchanging
<1> QED BY <1>1, <1>2 DEF InStepInv

\* A pair is not the empty transmitter.
LEMMA PairFact == \A a, b : <<a, b>> # <<>>
OBVIOUS

\* The bytes of this exchange that the card took stay what they are.
LEMMA TookFrame == ASSUME TookInv, UNCHANGED took PROVE TookInv'
BY DEF TookInv, OutBytes

\* A call of the exchange with nothing taken yet.
LEMMA TookNothing == ASSUME took' = <<>> PROVE TookInv'
<1>1. <<>> \in Seq(OutBytes') /\ Len(<<>>) = 0
    BY EmptySeq
<1> QED BY <1>1 DEF TookInv

\* Nothing of the exchange changes.
LEMMA ExchangeFrame ==
    ASSUME InStepInv, UNCHANGED <<pc, msg, ok, rxb, txb, card, todo, said, took, response, transferred, left, out>>
    PROVE  InStepInv'
<1>1. TookInv'
    BY TookFrame DEF InStepInv
<1>2. (Idle => Idle') /\ (Heard => Heard')
    BY DEF Idle, Heard
<1>3. QuietInv'
    BY DEF InStepInv, QuietInv, Idle, Serving
<1>4. AtrInv'
    BY <1>2 DEF InStepInv, AtrInv
<1>5. SendInv'
    <2>1. InHeader => InHeader'
        BY <1>2 DEF InHeader, Rest, HeaderSent, Leader
    <2>2. InData => InData'
        BY <1>2 DEF InData, Rest, Taking, InTx, HeaderSent
    <2>3. OutBytes' = OutBytes
        BY DEF OutBytes
    <2> QED BY <2>1, <2>2, <2>3 DEF InStepInv, SendInv
<1>6. ProcedureInv'
    BY <1>2 DEF InStepInv, ProcedureInv, Answering
<1>7. ReceiveInv'
    BY <1>2 DEF InStepInv, ReceiveInv, Giving, OnWay
<1>8. StatusInv'
    BY <1>2 DEF InStepInv, StatusInv
<1>9. PpsInv'
    BY <1>2 DEF InStepInv, PpsInv
<1> QED BY <1>1, <1>3, <1>4, <1>5, <1>6, <1>7, <1>8, <1>9 DEF InStepInv

-----------------------------------------------------------------------------
\* The card's steps.  It speaks only when the reader listens.

LEMMA StopsExact == ASSUME InStepInv, CardStops PROVE InStepInv'
<1>1. /\ card' = "mute"
      /\ UNCHANGED <<pc, msg, ok, rxb, txb, said, took, response, transferred, left, out>>
    BY CardFrame DEF CardStops, sim
<1>2. Idle' /\ (Heard => Heard')
    BY <1>1 DEF Idle, Heard
<1>3. TookInv'
    BY <1>1, TookFrame DEF InStepInv
<1>4. QuietInv'
    BY <1>1, <1>2 DEF InStepInv, QuietInv, Serving
<1>5. AtrInv'
    BY <1>1, <1>2 DEF InStepInv, AtrInv
<1>6. SendInv'
    <2>1. InHeader => InHeader'
        BY <1>1, <1>2 DEF InHeader, Rest, Leader
    <2>2. InData => InData'
        BY <1>1, <1>2 DEF InData, Rest
    <2>3. OutBytes' = OutBytes
        BY DEF OutBytes
    <2> QED BY <1>1, <2>1, <2>2, <2>3 DEF InStepInv, SendInv
<1>7. ProcedureInv' /\ ReceiveInv' /\ StatusInv' /\ PpsInv'
    BY <1>1, <1>2 DEF InStepInv, ProcedureInv, ReceiveInv, StatusInv, PpsInv
<1> QED BY <1>3, <1>4, <1>5, <1>6, <1>7 DEF InStepInv

\* What is known while a byte is in the transmitter.
LEMMA TxPlace ==
    ASSUME LineInv, ServeInv, InStepInv, txb # <<>>
    PROVE  /\ pc = "sent" /\ ~ok /\ SendInv
           /\ msg \in Requests /\ msg.type \in {"TPDU", "PPS"}
<1>1. pc \in Places
    BY DEF LineInv, LineType
<1>2. pc = "sent"
    BY <1>1 DEF InStepInv, QuietInv, AtrInv, SendInv, ProcedureInv, ReceiveInv, StatusInv, PpsInv,
               Places, Exchanging, Serving
<1>3. ~ok
    BY <1>2 DEF InStepInv, SendInv
<1> QED BY <1>2, <1>3 DEF InStepInv, ServeInv, Serving, Exchanging

\* A byte has been sent: the card, if it listens, has it.
LEMMA TxDoneExact == ASSUME ReaderInv, InStepInv, TxDone PROVE InStepInv'
<1>0. /\ txb # <<>> /\ ok' = TRUE /\ txb' = <<>>
      /\ UNCHANGED <<pc, msg, rxb, said, response, transferred, left, out>>
    BY CardFrame DEF TxDone, Card
<1>1. /\ pc = "sent" /\ ~ok /\ SendInv /\ msg \in Requests /\ msg.type \in {"TPDU", "PPS"}
    BY <1>0, TxPlace DEF ReaderInv
<1>2. /\ said = <<>> /\ response = <<>> /\ out \in Seq(OutBytes) /\ Len(out) \in Nat
      /\ InHeader \/ InData
    <2>1. out \in Seq(OutBytes)
        BY <1>1 DEF SendInv
    <2> QED BY <1>1, <2>1 DEF SendInv
<1>3. OutBytes' = OutBytes /\ took \in Seq(OutBytes) /\ Len(took) \in Nat
    <2>1. took \in Seq(OutBytes)
        BY DEF InStepInv, TookInv
    <2> QED BY <2>1 DEF OutBytes
<1>4. /\ msg.type = "TPDU" => msg.n = MaxData /\ msg.sends \in BOOLEAN
      /\ msg.type = "PPS" => msg.n \in PpsSizes /\ msg.n \in Nat
    BY <1>1, RequestFact, ConstantsFact
<1>5. \/ /\ card = "wait" /\ txb = <<"TPDU", TpduHeader>>
         /\ card' = "answer" /\ todo' = msg.n /\ UNCHANGED took
      \/ /\ card = "wait" /\ msg.type = "PPS" /\ txb = <<"PPS", msg.n>>
         /\ card' = "pps" /\ todo' = msg.n /\ UNCHANGED took
      \/ /\ card \in {"take", "take all"}
         /\ took' = Append(took, txb) /\ todo' = todo - 1
         /\ card' = IF card = "take" \/ todo = 1 THEN "answer" ELSE card
      \/ /\ card \notin {"take", "take all"}
         /\ ~(card = "wait" /\ txb = <<"TPDU", TpduHeader>>)
         /\ ~(card = "wait" /\ msg.type = "PPS" /\ txb = <<"PPS", msg.n>>)
         /\ UNCHANGED <<card, todo, took>>
    BY DEF TxDone
<1>6. CASE InHeader
    <2>1. /\ Idle /\ transferred = 0 /\ took = <<>> /\ Len(out) <= Leader
          /\ \A i \in 1 .. Len(out) : out[i] = <<msg.type, Leader - Len(out) + i>>
          /\ txb = <<msg.type, Leader - Len(out)>>
        BY <1>0, <1>6 DEF InHeader, Rest, HeaderSent
    <2>2. /\ UNCHANGED took
          /\ Idle' \/ (Len(out) = 0 /\ card' = (IF msg.type = "PPS" THEN "pps" ELSE "answer") /\ todo' = msg.n)
        <3>1. CASE msg.type = "TPDU"
            <4>1. txb = <<"TPDU", TpduHeader - Len(out)>> /\ txb # <<"PPS", msg.n>>
                BY <2>1, <3>1 DEF Leader
            <4>2. txb = <<"TPDU", TpduHeader>> => Len(out) = 0
                BY <1>2, <4>1, ConstantsFact
            <4> QED BY <1>5, <2>1, <3>1, <4>1, <4>2 DEF Idle
        <3>2. CASE msg.type = "PPS"
            <4>1. txb = <<"PPS", msg.n - Len(out)>> /\ txb # <<"TPDU", TpduHeader>>
                BY <2>1, <3>2 DEF Leader
            <4>2. txb = <<"PPS", msg.n>> => Len(out) = 0
                BY <1>2, <1>4, <3>2, <4>1
            <4> QED BY <1>4, <1>5, <2>1, <3>2, <4>1, <4>2 DEF Idle
        <3> QED BY <1>1, <3>1, <3>2
    <2>3. Leader' = Leader
        BY <1>0 DEF Leader
    <2>4. InHeader'
        BY <1>0, <2>1, <2>2, <2>3 DEF InHeader, Rest, HeaderSent
    <2>5. SendInv'
        BY <1>0, <1>1, <1>2, <1>3, <2>4 DEF SendInv
    <2>6. TookInv'
        BY <2>2, TookFrame DEF InStepInv
    <2> QED BY <1>0, <1>1, <2>5, <2>6, ToPlace DEF Exchanging
<1>7. CASE InData
    <2>1. /\ msg.type = "TPDU" /\ msg.sends /\ transferred \in Nat /\ Len(out) <= transferred
          /\ \A i \in 1 .. Len(out) : out[i] = <<"data", transferred - Len(out) + i>>
          /\ txb = <<"data", transferred - Len(out)>>
          /\ Idle \/ Taking
        BY <1>0, <1>7 DEF InData, Rest, ReaderInv, BufferInv, BufferBound
    <2>2. ASSUME TookInv', Idle' \/ Taking' PROVE InStepInv'
        <3>1. InData'
            BY <1>0, <2>1, <2>2 DEF InData, Rest
        <3>2. SendInv'
            BY <1>0, <1>1, <1>2, <1>3, <3>1 DEF SendInv
        <3> QED BY <1>0, <1>1, <2>2, <3>2, ToPlace DEF Exchanging
    <2>3. CASE Idle
        <3>1. UNCHANGED <<card, took>>
            BY <1>5, <2>1, <2>3 DEF Idle
        <3>2. Idle' /\ TookInv'
            BY <2>3, <3>1, TookFrame DEF InStepInv, Idle
        <3> QED BY <2>2, <3>2
    <2>4. CASE Taking
        <3>a. Len(out) \in Nat /\ Len(took) \in Nat /\ transferred \in Nat /\ msg.n \in Nat /\ transferred <= msg.n
            BY <1>2, <1>3, <1>4, <2>1, ConstantsFact DEF ReaderInv, BufferInv, BufferBound
        <3>0. InTx = 1 /\ ~HeaderSent
            BY <1>0 DEF InTx, HeaderSent
        <3>b. todo \in Nat /\ todo + Len(took) = msg.n /\ Len(took) + Len(out) + 1 = transferred
            BY <2>4, <3>0 DEF Taking
        <3>c. /\ card \in {"take", "take all"}
              /\ card = "take" => Len(out) + 1 = 1
              /\ card = "take all" => transferred = msg.n
            BY <2>4, <3>0 DEF Taking
        <3>1. /\ card \in {"take", "take all"}
              /\ card = "take" => Len(out) = 0
              /\ card = "take all" => transferred = msg.n
            <4>1. Len(out) + 1 = 1 => Len(out) = 0
                BY <3>a
            <4> QED BY <3>c, <4>1
        <3>2. /\ took' = Append(took, txb) /\ todo' = todo - 1
              /\ card' = IF card = "take" \/ todo = 1 THEN "answer" ELSE card
            BY <1>5, <3>1
        <3>3. txb = <<"data", Len(took) + 1>> /\ txb \in OutBytes
            <4>1. transferred - Len(out) = Len(took) + 1 /\ Len(took) + 1 \in Nat
                BY <3>a, <3>b
            <4> QED BY <2>1, <4>1 DEF OutBytes
        <3>4. /\ took' \in Seq(OutBytes) /\ Len(took') = Len(took) + 1
              /\ \A i \in 1 .. Len(took) : took'[i] = took[i]
              /\ took'[Len(took) + 1] = txb
            BY <1>3, <3>2, <3>3, AppendFact
        <3>5. TookInv'
            BY <1>3, <3>3, <3>4 DEF InStepInv, TookInv
        <3>6. todo >= 1 /\ (todo = 1 <=> Len(took) + 1 = msg.n)
            BY <3>a, <3>b
        <3>7. Taking'
            <4>1. InTx' = 0 /\ (HeaderSent' <=> Len(out) = 0)
                BY <1>0 DEF InTx, HeaderSent
            <4>2. todo' = todo - 1 /\ Len(took') = Len(took) + 1
                BY <3>2, <3>4
            <4>3. /\ todo' \in Nat /\ todo' + Len(took') = msg.n
                  /\ Len(took') + Len(out) + 0 = transferred
                BY <3>a, <3>b, <3>6, <4>2
            <4>4. \/ card' = "answer" /\ Len(out) = 0
                  \/ card' = "take all" /\ transferred = msg.n /\ Len(out) + 0 >= 1
                <5>1. CASE card = "take"
                    BY <3>1, <3>2, <5>1
                <5>0. transferred = msg.n => (todo = 1 /\ Len(out) = 0) \/ (todo # 1 /\ Len(out) + 0 >= 1)
                    BY <3>a, <3>b
                <5>2. CASE card = "take all"
                    <6>1. (todo = 1 /\ Len(out) = 0) \/ (todo # 1 /\ Len(out) + 0 >= 1)
                        BY <3>1, <5>0, <5>2
                    <6>2. CASE todo = 1 /\ Len(out) = 0
                        BY <3>2, <6>2
                    <6>3. CASE todo # 1 /\ Len(out) + 0 >= 1
                        BY <3>1, <3>2, <5>2, <6>3
                    <6> QED BY <6>1, <6>2, <6>3
                <5> QED BY <3>1, <5>1, <5>2
            <4> QED BY <1>0, <4>1, <4>3, <4>4 DEF Taking
        <3> QED BY <2>2, <3>5, <3>7
    <2> QED BY <2>1, <2>3, <2>4
<1> QED BY <1>2, <1>6, <1>7

\* A byte from a card in time finds nothing on its way in either direction.
LEMMA ByteFact ==
    ASSUME NEW b, CardByte(b), ~late
    PROVE  ~ok /\ txb = <<>> /\ rxb' = b /\ ok' = TRUE /\ UNCHANGED <<txb, took>>
BY DEF CardByte

\* What is said is a sequence, and one byte longer after the next.
LEMMA SaidFact ==
    ASSUME ReaderInv
    PROVE  /\ said \in Seq(CardBytes) /\ response \in Seq(CardBytes) /\ rxb \in CardBytes
           /\ Len(said) \in Nat /\ Len(response) \in Nat
           /\ \A b \in CardBytes : /\ Len(Append(said, b)) = Len(said) + 1
                                   /\ Len(Append(response, b)) = Len(response) + 1
<1>1. said \in Seq(CardBytes) /\ response \in Seq(CardBytes) /\ rxb \in CardBytes
    BY DEF ReaderInv, CardInv, BufferInv, BufferBound
<1> QED BY <1>1, AppendFact

\* Where the reader is when the card may send.
LEMMA SpeakPlace ==
    ASSUME ReaderInv, InStepInv, ~ok, txb = <<>>, ~Idle
    PROVE  \/ pc = "atr" /\ card = "atr"
           \/ pc = "procedure" /\ card = "answer"
           \/ pc = "receive" /\ card \in {"give", "give all"}
           \/ pc = "sw2" /\ card = "sw2"
           \/ pc = "pps" /\ card = "pps"
           \/ pc = "send" /\ card \in {"take", "take all"}
<1>1. pc \in Places
    BY DEF ReaderInv, LineInv, LineType
<1>2. pc \in {"send", "atr", "procedure", "receive", "sw2", "pps"}
    BY <1>1 DEF InStepInv, QuietInv, SendInv, Serving, Places, Exchanging
<1>3. CASE pc = "send"
    <2>1. Len(out) >= 1 /\ (InHeader \/ InData) /\ out \in Seq(OutBytes)
        BY <1>3 DEF InStepInv, SendInv
    <2>2. ~HeaderSent
        BY <2>1 DEF HeaderSent
    <2> QED BY <1>3, <2>1, <2>2 DEF InHeader, InData, Taking
<1>4. CASE pc = "atr"
    BY <1>4 DEF InStepInv, AtrInv
<1>5. CASE pc = "procedure"
    BY <1>5 DEF InStepInv, ProcedureInv, Answering
<1>6. CASE pc = "receive"
    BY <1>6 DEF InStepInv, ReceiveInv, Giving
<1>7. CASE pc = "sw2"
    BY <1>7 DEF InStepInv, StatusInv
<1>8. CASE pc = "pps"
    BY <1>8 DEF InStepInv, PpsInv
<1> QED BY <1>2, <1>3, <1>4, <1>5, <1>6, <1>7, <1>8

\* The card sends a byte of its ATR, of its PPS answer, or of data.
LEMMA DataExact == ASSUME ReaderInv, InStepInv, ~late, CardData PROVE InStepInv'
<1>0. UNCHANGED <<pc, msg, response, transferred, left, out>>
    BY CardFrame DEF Card
<1>1. /\ card \in {"atr", "pps", "give", "give all"}
      /\ ~ok /\ txb = <<>> /\ ok' = TRUE /\ UNCHANGED <<txb, took>>
      /\ said' = Append(said, rxb') /\ todo' = todo - 1
      /\ card' = CASE card \in {"atr", "pps"} /\ todo = 1 -> "wait"
                   [] card = "give" \/ (card = "give all" /\ todo = 1) -> "answer"
                   [] OTHER -> card
    BY ByteFact DEF CardData
<1>a. todo' = todo - 1
    BY <1>1
<1>2. rxb' \in CardBytes
    BY CardStep DEF Card, ReaderInv, CardInv, CardBytes
<1>3. Len(said) \in Nat /\ Len(said') = Len(said) + 1
    BY <1>1, <1>2, SaidFact
<1>4. TookInv'
    BY <1>1, TookFrame DEF InStepInv
<1>5. Heard => Heard'
    BY <1>0, <1>1 DEF Heard
<1>6. \/ pc = "atr" /\ card = "atr"
      \/ pc = "receive" /\ card \in {"give", "give all"}
      \/ pc = "pps" /\ card = "pps"
    BY <1>1, SpeakPlace DEF Idle
<1>7. CASE pc = "atr" /\ card = "atr"
    <2>1. todo \in Nat /\ todo >= 1 /\ Len(said) + todo = MaxAtr /\ Heard
        BY <1>7 DEF InStepInv, AtrInv, Idle
    <2>2. todo' \in Nat /\ Len(said') + todo' = MaxAtr /\ (todo # 1 => todo' >= 1)
        BY <1>a, <1>3, <2>1, ConstantsFact
    <2>3. Idle' \/ (card' = "atr" /\ todo # 1)
        BY <1>1, <1>7 DEF Idle
    <2>4. AtrInv'
        BY <1>0, <1>1, <1>5, <2>1, <2>2, <2>3 DEF AtrInv
    <2> QED BY <1>0, <1>4, <1>7, <2>4, ToPlace
<1>8. CASE pc = "pps" /\ card = "pps"
    <2>0. msg.n \in Nat /\ msg' = msg
        BY <1>0, <1>8, RequestFact, ConstantsFact DEF ReaderInv, ServeInv, Serving
    <2>1. todo \in Nat /\ todo >= 1 /\ Len(said) + todo = msg.n /\ Heard
        BY <1>8 DEF InStepInv, PpsInv, Idle
    <2>2. todo' \in Nat /\ Len(said') + todo' = msg.n /\ (todo # 1 => todo' >= 1)
        BY <1>a, <1>3, <2>1, <2>0
    <2>3. Idle' \/ (card' = "pps" /\ todo # 1)
        BY <1>1, <1>8 DEF Idle
    <2>4. PpsInv'
        BY <1>0, <1>1, <1>5, <2>0, <2>1, <2>2, <2>3 DEF PpsInv
    <2> QED BY <1>0, <1>4, <1>8, <2>4, ToPlace DEF Exchanging
<1>9. CASE pc = "receive" /\ card \in {"give", "give all"}
    <2>0. OnWay = 0 /\ OnWay' = 1
        BY <1>1 DEF OnWay
    <2>1. Giving /\ Heard /\ Len(out) = 0
        BY <1>9 DEF InStepInv, ReceiveInv, Idle
    <2>2. todo \in Nat /\ todo + transferred + 0 = msg.n /\ todo >= 1
        BY <1>9, <2>0, <2>1 DEF Giving
    <2>a. transferred \in Nat /\ left \in Nat
        BY DEF ReaderInv, BufferInv, BufferBound
    <2>3. todo' \in Nat /\ todo' + transferred + 1 = msg.n /\ (todo # 1 => todo' >= 1)
        BY <1>a, <2>2, <2>a
    <2>4. CASE card = "give"
        <3>1. left = 1 /\ card' = "answer"
            BY <1>1, <2>1, <2>4 DEF Giving
        <3>2. Giving'
            <4>1. todo' \in Nat /\ todo' + transferred' + OnWay' = msg'.n
                BY <1>0, <2>0, <2>3
            <4>2. card' = "answer" /\ ok' /\ left' = 1
                BY <1>0, <1>1, <3>1
            <4> QED BY <4>1, <4>2 DEF Giving
        <3>3. ReceiveInv'
            BY <1>0, <1>1, <1>5, <2>1, <3>2 DEF ReceiveInv
        <3> QED BY <1>0, <1>4, <1>9, <3>3, ToPlace DEF Exchanging
    <2>5. CASE card = "give all"
        <3>1. left = todo + 0
            BY <2>0, <2>1, <2>5 DEF Giving
        <3>2. left = todo' + 1 /\ (todo = 1 => left = 1)
            BY <1>a, <2>2, <2>a, <3>1
        <3>3. CASE todo = 1
            <4>1. card' = "answer" /\ left = 1
                BY <1>1, <2>5, <3>2, <3>3
            <4>2. Giving'
                <5>1. todo' \in Nat /\ todo' + transferred' + OnWay' = msg'.n
                    BY <1>0, <2>0, <2>3
                <5>2. card' = "answer" /\ ok' /\ left' = 1
                    BY <1>0, <1>1, <4>1
                <5> QED BY <5>1, <5>2 DEF Giving
            <4>3. ReceiveInv'
                BY <1>0, <1>1, <1>5, <2>1, <4>2 DEF ReceiveInv
            <4> QED BY <1>0, <1>4, <1>9, <4>3, ToPlace DEF Exchanging
        <3>4. CASE todo # 1
            <4>1. card' = "give all"
                BY <1>1, <2>5, <3>4
            <4>2. Giving'
                <5>1. /\ todo' \in Nat /\ todo' + transferred' + OnWay' = msg'.n
                      /\ todo' >= 1 /\ left' = todo' + OnWay'
                    BY <1>0, <2>0, <2>3, <3>2, <3>4
                <5> QED BY <4>1, <5>1 DEF Giving
            <4>3. ReceiveInv'
                BY <1>0, <1>1, <1>5, <2>1, <4>2 DEF ReceiveInv
            <4> QED BY <1>0, <1>4, <1>9, <4>3, ToPlace DEF Exchanging
        <3> QED BY <3>3, <3>4
    <2> QED BY <1>9, <2>4, <2>5
<1> QED BY <1>6, <1>7, <1>8, <1>9

\* The card sends a procedure byte, whether it moves the exchange on or puts it off.
LEMMA ProcedureExact ==
    ASSUME ReaderInv, InStepInv, ~late, CardProcedure \/ CardPutsOff
    PROVE  InStepInv'
<1>0. UNCHANGED <<pc, msg, response, transferred, left, out>>
    BY CardFrame DEF Card
<1>1. /\ card = "answer" /\ ~ok /\ txb = <<>> /\ ok' = TRUE /\ UNCHANGED <<txb, took>>
      /\ \/ rxb' = <<"null", 0>> /\ UNCHANGED <<card, todo, said>>
         \/ todo = 0 /\ rxb' \in {<<"ins", 0>>, <<"~ins", 0>>} /\ UNCHANGED <<card, todo, said>>
         \/ /\ todo > 0 /\ rxb' = <<"ins", 0>> /\ card' = IF msg.sends THEN "take all" ELSE "give all"
            /\ UNCHANGED <<todo, said>>
         \/ /\ todo > 0 /\ rxb' = <<"~ins", 0>> /\ card' = IF msg.sends THEN "take" ELSE "give"
            /\ UNCHANGED <<todo, said>>
         \/ rxb' = <<"sw1", 0>> /\ said' = Append(said, rxb') /\ card' = "sw2" /\ UNCHANGED todo
    BY DEF CardProcedure, CardPutsOff, CardByte
<1>2. pc = "procedure"
    BY <1>1, SpeakPlace DEF Idle
<1>3. Len(out) = 0 /\ said = response /\ Answering
    BY <1>1, <1>2 DEF InStepInv, ProcedureInv, Idle
<1>4. todo \in Nat /\ todo + transferred = msg.n /\ (msg.sends => Len(took) = transferred)
    BY <1>3 DEF Answering
<1>5. TookInv'
    BY <1>1, TookFrame DEF InStepInv
<1>a. UNCHANGED <<todo, took>>
    BY <1>1
<1>6. todo' \in Nat /\ todo' + transferred' = msg'.n /\ (msg'.sends => Len(took') = transferred')
    BY <1>0, <1>a, <1>4
<1>7. Answering'
    <2>1. \/ card' = "answer" /\ (ok' => rxb'[1] = "null" \/ (rxb'[1] \in {"ins", "~ins"} /\ todo' = 0))
          \/ ok' /\ rxb'[1] = "ins" /\ todo' > 0 /\ card' = IF msg'.sends THEN "take all" ELSE "give all"
          \/ ok' /\ rxb'[1] = "~ins" /\ todo' > 0 /\ card' = IF msg'.sends THEN "take" ELSE "give"
          \/ ok' /\ rxb'[1] = "sw1" /\ card' = "sw2"
        <3>1. \A a : <<a, 0>>[1] = a
            OBVIOUS
        <3> QED BY <1>0, <1>1, <1>a, <3>1
    <2> QED BY <1>6, <2>1 DEF Answering
<1>8. said' = IF rxb'[1] \notin {"null", "ins", "~ins"} THEN Append(response, rxb') ELSE response
    <2>1. \A a : <<a, 0>>[1] = a
        OBVIOUS
    <2>2. \/ rxb'[1] \in {"null", "ins", "~ins"} /\ said' = said
          \/ rxb'[1] = "sw1" /\ said' = Append(said, rxb')
        BY <1>1, <2>1
    <2>3. "sw1" \notin {"null", "ins", "~ins"}
        OBVIOUS
    <2> QED BY <1>3, <2>2, <2>3
<1>9. ProcedureInv'
    BY <1>0, <1>1, <1>3, <1>7, <1>8 DEF ProcedureInv
<1> QED BY <1>0, <1>2, <1>5, <1>9, ToPlace DEF Exchanging

\* The card sends its second status byte.
LEMMA StatusExact == ASSUME ReaderInv, InStepInv, ~late, CardStatus PROVE InStepInv'
<1>0. UNCHANGED <<pc, msg, response, transferred, left, out>>
    BY CardFrame DEF Card
<1>1. /\ card = "sw2" /\ ~ok /\ txb = <<>> /\ ok' = TRUE /\ UNCHANGED <<txb, took>>
      /\ said' = Append(said, rxb') /\ card' = "wait"
    BY DEF CardStatus, CardByte
<1>2. pc = "sw2"
    BY <1>1, SpeakPlace DEF Idle
<1>3. Heard
    BY <1>2 DEF InStepInv, StatusInv
<1>4. Heard' /\ Idle'
    BY <1>0, <1>1, <1>3 DEF Heard, Idle
<1>5. StatusInv'
    BY <1>0, <1>1, <1>4 DEF StatusInv
<1>6. TookInv'
    BY <1>1, TookFrame DEF InStepInv
<1> QED BY <1>0, <1>2, <1>5, <1>6, ToPlace DEF Exchanging

-----------------------------------------------------------------------------
\* The reader's steps.

\* A reply leaves the exchange: the card has to be done with it.
LEMMA ReplyExact ==
    ASSUME NEW failed, host_reply(failed), TookInv', Idle', ~ok', txb' = <<>>
    PROVE  InStepInv'
<1>1. pc' \in {"scan", "off"}
    BY DEF host_reply
<1>2. pc' \notin Exchanging \cup {"atr"}
    BY <1>1 DEF Exchanging
<1> QED BY <1>2, ToQuiet

\* host_read_message works while the card is quiet.
LEMMA ReadExact == ASSUME InStepInv, host_read_byte PROVE InStepInv'
<1>1. /\ pc # "off" /\ ~Serving /\ UNCHANGED <<ok, rxb, txb, card, todo, said, took>>
    BY DEF host_read_byte, sim, cardVars
<1>2. pc' \in {"scan", "ack", "frame", "serve"}
    <2>1. pc \in {"scan", "ack", "frame"}
        BY <1>1 DEF Serving
    <2>2. CASE pc = "scan"
        BY <2>2 DEF host_read_byte
    <2>3. CASE pc = "ack"
        BY <2>3 DEF host_read_byte, host_write_nak
    <2>4. CASE pc = "frame"
        BY <2>4 DEF host_read_byte, host_write_nak
    <2> QED BY <2>1, <2>2, <2>3, <2>4
<1>3. Idle /\ ~ok /\ txb = <<>>
    BY <1>1 DEF InStepInv, QuietInv
<1>4. TookInv'
    BY <1>1, TookFrame DEF InStepInv
<1>5. pc' \notin Exchanging \cup {"atr"} /\ Idle' /\ ~ok' /\ txb' = <<>>
    BY <1>1, <1>2, <1>3 DEF Exchanging, Idle
<1> QED BY <1>4, <1>5, ToQuiet

\* The requests that move nothing between reader and card.
LEMMA PlainExact ==
    ASSUME InStepInv,
           \/ host_handle_plain \/ host_handle_reset_parameters \/ host_handle_set_parameters
           \/ host_handle_power_off \/ host_handle_escape
    PROVE  InStepInv'
<1>1. CASE host_handle_plain \/ host_handle_reset_parameters \/ host_handle_set_parameters
    <2>1. pc = "serve" /\ UNCHANGED <<ok, txb, card, took>>
        BY <1>1 DEF host_handle_plain, host_handle_reset_parameters, host_handle_set_parameters,
                    Serve, sim, cardVars
    <2>2. \E failed : host_reply(failed)
        BY <1>1 DEF host_handle_plain, host_handle_reset_parameters, host_handle_set_parameters
    <2>3. Idle /\ ~ok /\ txb = <<>>
        BY <2>1 DEF InStepInv, QuietInv
    <2>4. Idle' /\ ~ok' /\ txb' = <<>>
        BY <2>1, <2>3 DEF Idle
    <2>5. TookInv'
        BY <2>1, TookFrame DEF InStepInv
    <2> QED BY <2>2, <2>4, <2>5, ReplyExact
<1>2. CASE host_handle_power_off \/ host_handle_escape
    <2>1. card' = "off" /\ ok' = FALSE /\ txb' = <<>> /\ took' = <<>>
        BY <1>2 DEF host_handle_power_off, host_handle_escape, sim_power_off, ClearFlags
    <2>2. host_reply(FALSE)
        BY <1>2 DEF host_handle_power_off, host_handle_escape
    <2>3. Idle'
        BY <2>1 DEF Idle
    <2> QED BY <2>1, <2>2, <2>3, TookNothing, ReplyExact
<1> QED BY <1>1, <1>2

\* POWER_ON begins a new exchange, whatever was before.
LEMMA PowerOnExact == ASSUME host_handle_power_on PROVE InStepInv' /\ late' = FALSE
<1>1. /\ late' = FALSE /\ ok' = FALSE /\ txb' = <<>> /\ said' = <<>> /\ took' = <<>> /\ response' = <<>>
      /\ \/ card' = "off" /\ host_reply(TRUE)
         \/ card' \in {"atr", "mute"} /\ todo' = MaxAtr /\ pc' = "atr"
    BY DEF host_handle_power_on, sim_power_off, ClearFlags
<1>2. TookInv'
    BY <1>1, TookNothing
<1>3. CASE card' = "off" /\ host_reply(TRUE)
    <2>1. Idle'
        BY <1>3 DEF Idle
    <2> QED BY <1>1, <1>2, <1>3, <2>1, ReplyExact
<1>4. CASE card' \in {"atr", "mute"} /\ todo' = MaxAtr /\ pc' = "atr"
    <2>1. Heard'
        BY <1>1 DEF Heard
    <2>2. todo' \in Nat /\ todo' >= 1 /\ Len(said') + todo' = MaxAtr
        <3>1. Len(said') = 0
            BY <1>1
        <3> QED BY <1>4, <3>1, ConstantsFact
    <2>3. Idle' \/ card' = "atr"
        BY <1>4 DEF Idle
    <2>4. AtrInv'
        BY <1>1, <2>1, <2>2, <2>3 DEF AtrInv
    <2> QED BY <1>1, <1>2, <1>4, <2>4, ToPlace
<1> QED BY <1>1, <1>3, <1>4

\* sim_exchange_tpdu and sim_exchange_pps begin with the header, or the whole request.
LEMMA XfrExact == ASSUME ReaderInv, InStepInv, host_handle_xfr_block PROVE InStepInv'
<1>1. /\ pc = "serve" /\ msg.type \in {"TPDU", "PPS", "SHORT"} /\ UNCHANGED <<ok, txb>>
      /\ \/ host_reply(TRUE) /\ UNCHANGED <<card, took>>
         \/ /\ msg.type # "SHORT" /\ pc' = "send"
            /\ out' = [k \in 1 .. IF msg.type = "PPS" THEN msg.n ELSE TpduHeader |-> <<msg.type, k>>]
            /\ response' = <<>> /\ transferred' = 0 /\ said' = <<>> /\ took' = <<>>
            /\ UNCHANGED <<msg, card, todo>>
    BY DEF host_handle_xfr_block, Serve, XfrRefused, sim, cardVars
<1>2. Idle /\ ~ok /\ txb = <<>> /\ msg \in Requests
    BY <1>1 DEF InStepInv, QuietInv, ReaderInv, ServeInv, Serving
<1>3. CASE host_reply(TRUE) /\ UNCHANGED <<card, took>>
    <2>1. Idle' /\ ~ok' /\ txb' = <<>>
        BY <1>1, <1>2, <1>3 DEF Idle
    <2>2. TookInv'
        BY <1>3, TookFrame DEF InStepInv
    <2> QED BY <1>3, <2>1, <2>2, ReplyExact
<1>4. CASE /\ msg.type # "SHORT" /\ pc' = "send"
           /\ out' = [k \in 1 .. IF msg.type = "PPS" THEN msg.n ELSE TpduHeader |-> <<msg.type, k>>]
           /\ response' = <<>> /\ transferred' = 0 /\ said' = <<>> /\ took' = <<>>
           /\ UNCHANGED <<msg, card, todo>>
    <2>1. msg.type = "PPS" => msg.n \in Nat /\ msg.n >= 1
        BY <1>2, RequestFact, ConstantsFact
    <2>2. out' = [k \in 1 .. Leader |-> <<msg.type, k>>] /\ Leader \in Nat /\ Leader >= 1 /\ Leader' = Leader
        BY <1>4, <2>1, ConstantsFact DEF Leader
    <2>3. /\ out' \in Seq(OutBytes) /\ Len(out') = Leader
          /\ \A i \in 1 .. Leader : out'[i] = <<msg.type, i>>
        <3>1. \A k \in 1 .. Leader : <<msg.type, k>> \in OutBytes
            BY <1>1, <1>4, <2>2 DEF OutBytes
        <3> QED BY <2>2, <3>1
    <2>4. Rest(msg.type, Leader)'
        <3>a. Leader \in Nat
            BY <2>2
        <3>b. \A i \in 1 .. Leader : Leader - Leader + i = i
            BY <3>a
        <3>0. msg' = msg /\ Len(out') = Leader /\ \A i \in 1 .. Leader : Leader - Leader + i = i
            BY <1>4, <2>3, <3>b
        <3>1. \A i \in 1 .. Len(out') : out'[i] = <<msg'.type, Leader' - Len(out') + i>>
            BY <2>2, <2>3, <3>0
        <3>2. txb' = <<>>
            BY <1>1, <1>2
        <3> QED BY <2>2, <2>3, <3>1, <3>2 DEF Rest
    <2>5. Idle' /\ OutBytes' = OutBytes
        BY <1>2, <1>4 DEF Idle, OutBytes
    <2>6. InHeader'
        BY <1>4, <2>4, <2>5 DEF InHeader
    <2>7. SendInv'
        BY <1>1, <1>2, <1>4, <2>2, <2>3, <2>5, <2>6 DEF SendInv
    <2> QED BY <1>4, <2>7, TookNothing, ToPlace DEF Exchanging
<1> QED BY <1>1, <1>3, <1>4

\* sim_send_byte: the next byte of out goes into the transmitter.
LEMMA SendByteExact == ASSUME ReaderInv, InStepInv, sim_send_byte PROVE InStepInv'
<1>1. /\ pc = "send" /\ pc' = "sent" /\ out # <<>> /\ ok' = FALSE /\ txb' = Head(out) /\ out' = Tail(out)
      /\ UNCHANGED <<msg, transferred, response, card, todo, said, took>>
    BY DEF sim_send_byte, cardVars
<1>2. /\ said = <<>> /\ response = <<>> /\ out \in Seq(OutBytes) /\ txb = <<>> /\ ~ok
      /\ InHeader \/ InData
    BY <1>1 DEF InStepInv, SendInv
<1>3. /\ Len(out) \in Nat /\ Len(out) >= 1 /\ txb' = out[1] /\ out[1] \in OutBytes
      /\ out' \in Seq(OutBytes) /\ Len(out') = Len(out) - 1
      /\ \A i \in 1 .. Len(out) - 1 : out'[i] = out[i + 1]
    BY <1>1, <1>2, TailFact
<1>4. txb' # <<>>
    <2>1. \A b \in OutBytes : b = <<b[1], b[2]>>
        BY DEF OutBytes
    <2>2. txb' \in OutBytes
        BY <1>3
    <2> QED BY <2>1, <2>2, PairFact
<1>5. ~HeaderSent /\ InTx = 0 /\ InTx' = 1
    BY <1>2, <1>3, <1>4 DEF HeaderSent, InTx
<1>6. ASSUME NEW label, NEW size \in Nat, Rest(label, size)
      PROVE  /\ Len(out') <= size
             /\ \A i \in 1 .. Len(out') : out'[i] = <<label, size - Len(out') + i>>
             /\ txb' = <<label, size - Len(out')>>
    <2>1. Len(out) <= size /\ \A i \in 1 .. Len(out) : out[i] = <<label, size - Len(out) + i>>
        BY <1>6 DEF Rest
    <2>2. Len(out') <= size /\ size - Len(out) + 1 = size - Len(out')
        BY <1>3, <1>6, <2>1
    <2>3. ASSUME NEW i \in 1 .. Len(out') PROVE out'[i] = <<label, size - Len(out') + i>>
        <3>1. i + 1 \in 1 .. Len(out) /\ i \in 1 .. Len(out) - 1
            BY <1>3, <2>3
        <3>2. size - Len(out) + (i + 1) = size - Len(out') + i
            BY <1>3, <1>6, <2>3
        <3>3. out[i + 1] = <<label, size - Len(out) + (i + 1)>>
            BY <2>1, <3>1
        <3> QED BY <1>3, <3>1, <3>2, <3>3
    <2>4. out[1] = <<label, size - Len(out) + 1>>
        <3>1. 1 \in 1 .. Len(out)
            BY <1>3
        <3> QED BY <2>1, <3>1
    <2> QED BY <1>3, <2>2, <2>3, <2>4
<1>7. Idle => Idle'
    BY <1>1 DEF Idle
<1>8. InHeader => InHeader'
    <2> SUFFICES ASSUME InHeader PROVE InHeader'
        OBVIOUS
    <2>1. Rest(msg.type, Leader) /\ Idle /\ transferred = 0 /\ took = <<>>
        BY <1>5 DEF InHeader
    <2>2. Leader \in Nat /\ Leader' = Leader /\ msg' = msg
        <3>1. msg.type = "PPS" => msg.n \in Nat
            BY <1>1, RequestFact, ConstantsFact DEF ReaderInv, ServeInv, Serving
        <3> QED BY <1>1, <3>1, ConstantsFact DEF Leader
    <2>3. /\ Len(out') <= Leader
          /\ \A i \in 1 .. Len(out') : out'[i] = <<msg.type, Leader - Len(out') + i>>
          /\ txb' = <<msg.type, Leader - Len(out')>>
        BY <1>6, <2>1, <2>2
    <2>4. Rest(msg.type, Leader)'
        BY <2>2, <2>3 DEF Rest
    <2> QED BY <1>1, <1>7, <2>1, <2>4 DEF InHeader
<1>9. InData => InData'
    <2> SUFFICES ASSUME InData PROVE InData'
        OBVIOUS
    <2>1. msg.type = "TPDU" /\ msg.sends /\ Rest("data", transferred) /\ (Idle \/ Taking)
        BY DEF InData
    <2>2. transferred \in Nat /\ transferred' = transferred /\ msg' = msg
        BY <1>1 DEF ReaderInv, BufferInv, BufferBound
    <2>3. /\ Len(out') <= transferred
          /\ \A i \in 1 .. Len(out') : out'[i] = <<"data", transferred - Len(out') + i>>
          /\ txb' = <<"data", transferred - Len(out')>>
        BY <1>6, <2>1, <2>2
    <2>4. Rest("data", transferred)'
        BY <2>2, <2>3 DEF Rest
    <2>5. Taking => Taking'
        <3>1. Len(out') + InTx' = Len(out) + InTx
            BY <1>3, <1>5
        <3>2. took \in Seq(OutBytes)
            BY DEF InStepInv, TookInv
        <3>3. Len(took) \in Nat
            BY <3>2
        <3>4. Len(took) + Len(out) + InTx = Len(took') + Len(out') + InTx'
            BY <1>1, <1>3, <1>5, <3>3
        <3> QED BY <1>1, <1>5, <3>1, <3>4 DEF Taking
    <2> QED BY <1>7, <2>1, <2>2, <2>4, <2>5 DEF InData
<1>10. SendInv'
    <2>1. OutBytes' = OutBytes
        BY DEF OutBytes
    <2> QED BY <1>1, <1>2, <1>3, <1>4, <1>8, <1>9, <2>1 DEF SendInv
<1>11. TookInv'
    BY <1>1, TookFrame DEF InStepInv
<1> QED BY <1>1, <1>10, <1>11, ToPlace DEF Exchanging

\* The flag after a byte that has been sent: the next byte, or the card's turn.
LEMMA SendOkExact == ASSUME ReaderInv, InStepInv, send_ok PROVE InStepInv'
<1>1. /\ pc = "sent" /\ ok /\ ok' = FALSE
      /\ pc' = IF out # <<>> THEN "send" ELSE IF msg.type = "PPS" THEN "pps" ELSE "procedure"
      /\ UNCHANGED <<msg, transferred, response, out, left, rxb, txb, card, todo, said, took>>
    BY DEF send_ok, exchange, cardVars
<1>2. /\ said = <<>> /\ response = <<>> /\ out \in Seq(OutBytes) /\ txb = <<>>
      /\ InHeader \/ InData
    BY <1>1 DEF InStepInv, SendInv
<1>3. msg \in Requests /\ msg.type \in {"TPDU", "PPS"}
    BY <1>1 DEF ReaderInv, ServeInv, Serving, Exchanging
<1>4. (Idle => Idle') /\ InTx = 0 /\ InTx' = 0 /\ OutBytes' = OutBytes
    BY <1>1, <1>2 DEF Idle, InTx, OutBytes
<1>5. TookInv'
    BY <1>1, TookFrame DEF InStepInv
<1>6. CASE out # <<>>
    <2>1. Len(out) >= 1
        BY <1>2, <1>6, TailFact
    <2>2. InHeader => InHeader'
        BY <1>1, <1>4 DEF InHeader, Rest, HeaderSent, Leader
    <2>3. InData => InData'
        BY <1>1, <1>4 DEF InData, Rest, Taking, HeaderSent
    <2>4. SendInv'
        BY <1>1, <1>2, <1>4, <1>6, <2>1, <2>2, <2>3 DEF SendInv
    <2> QED BY <1>1, <1>5, <1>6, <2>4, ToPlace DEF Exchanging
<1>7. CASE out = <<>> /\ msg.type = "PPS"
    <2>1. InHeader /\ msg.n \in Nat /\ msg.n >= 1
        BY <1>2, <1>3, <1>7, RequestFact, ConstantsFact DEF InData
    <2>2. Idle \/ (card = "pps" /\ todo = msg.n)
        BY <1>7, <2>1 DEF InHeader
    <2>3. Heard' /\ Len(said') = 0
        BY <1>1, <1>2 DEF Heard
    <2>4. Len(said') + msg.n = msg.n
        BY <2>1, <2>3
    <2>5. PpsInv'
        BY <1>1, <1>2, <1>4, <2>1, <2>2, <2>3, <2>4 DEF PpsInv
    <2> QED BY <1>1, <1>5, <1>7, <2>5, ToPlace DEF Exchanging
<1>8. CASE out = <<>> /\ msg.type = "TPDU"
    <2>0. Len(out) = 0
        BY <1>8
    <2>1. msg.n = MaxData /\ MaxData \in Nat /\ transferred \in Nat
        BY <1>3, <1>8, RequestFact, ConstantsFact DEF ReaderInv, BufferInv, BufferBound
    <2>2. /\ Idle \/ (card = "answer" /\ todo \in Nat /\ todo + transferred = msg.n
                        /\ (msg.sends => Len(took) = transferred))
        <3>1. CASE InHeader
            <4>1. Idle \/ (card = "answer" /\ todo = msg.n)
                BY <1>8, <3>1 DEF InHeader
            <4>2. transferred = 0 /\ Len(took) = 0
                BY <3>1 DEF InHeader
            <4>3. todo = msg.n => todo \in Nat /\ todo + transferred = msg.n
                BY <2>1, <4>2
            <4> QED BY <4>1, <4>2, <4>3
        <3>2. CASE InData /\ ~Idle
            <4>1. Taking
                BY <3>2 DEF InData
            <4>2. todo \in Nat /\ todo + Len(took) = msg.n /\ Len(took) + 0 + 0 = transferred
                BY <1>4, <2>0, <4>1 DEF Taking
            <4>3. Len(out) + InTx = 0
                BY <1>4, <2>0
            <4>4. card = "answer"
                <5>1. Len(out) + InTx # 1 /\ ~(Len(out) + InTx >= 1)
                    BY <4>3
                <5> QED BY <4>1, <5>1 DEF Taking
            <4>5. took \in Seq(OutBytes)
                BY DEF InStepInv, TookInv
            <4>6. Len(took) \in Nat
                BY <4>5
            <4>7. Len(took) = transferred
                BY <4>2, <4>6
            <4> QED BY <4>2, <4>4, <4>7
        <3> QED BY <1>2, <3>1, <3>2
    <2>3. Idle' \/ Answering'
        BY <1>1, <1>4, <2>2 DEF Answering
    <2>4. ProcedureInv'
        BY <1>1, <1>2, <2>0, <2>3 DEF ProcedureInv
    <2> QED BY <1>1, <1>5, <1>8, <2>4, ToPlace DEF Exchanging
<1> QED BY <1>3, <1>6, <1>7, <1>8

\* sim_receive_procedure: a procedure byte, and the data it moves.
LEMMA ProcedureStepExact == ASSUME ReaderInv, InStepInv, sim_receive_procedure PROVE InStepInv'
<1>1. /\ pc = "procedure" /\ ok /\ ok' = FALSE
      /\ UNCHANGED <<msg, rxb, txb, card, todo, said, took>>
    BY DEF sim_receive_procedure, sim_receive_byte, cardVars
<1>2. /\ txb = <<>> /\ Len(out) = 0
      /\ Idle \/ Answering
      /\ said = IF rxb[1] \notin {"null", "ins", "~ins"} THEN Append(response, rxb) ELSE response
    BY <1>1 DEF InStepInv, ProcedureInv
<1>3. /\ msg \in Requests /\ msg.type = "TPDU" /\ msg.n = MaxData /\ msg.sends \in BOOLEAN
    BY <1>1, RequestFact DEF ReaderInv, ServeInv, Serving
<1>4. /\ transferred \in Nat /\ msg.n \in Nat /\ transferred <= msg.n /\ response \in Seq(CardBytes)
      /\ Len(response) = IF msg.sends THEN 0 ELSE transferred
    BY <1>1, <1>3, ConstantsFact DEF ReaderInv, BufferInv, BufferBound
<1>5. (Idle => Idle') /\ OutBytes' = OutBytes /\ InTx' = 0 /\ OnWay' = 0
    BY <1>1, <1>2 DEF Idle, OutBytes, InTx, OnWay
<1>6. TookInv'
    BY <1>1, TookFrame DEF InStepInv
<1>7. Answering => todo \in Nat /\ todo + transferred = msg.n /\ (msg.sends => Len(took) = transferred)
    BY DEF Answering
<1>c. ASSUME NEW all \in BOOLEAN
      PROVE  /\ Chunk(all) \in Nat /\ transferred + Chunk(all) <= msg.n
             /\ all => Chunk(all) = msg.n - transferred
             /\ ~all => Chunk(all) = IF transferred < msg.n THEN 1 ELSE 0
    BY <1>4 DEF Chunk
<1>8. \/ rxb[1] = "null" /\ UNCHANGED <<pc, left, transferred, response, out>>
      \/ \E all \in BOOLEAN :
           /\ rxb[1] = IF all THEN "ins" ELSE "~ins"
           /\ \/ Chunk(all) = 0 /\ UNCHANGED <<pc, left, transferred, response, out>>
              \/ /\ Chunk(all) # 0 /\ msg.sends
                 /\ out' = [k \in 1 .. Chunk(all) |-> <<"data", transferred + k>>]
                 /\ transferred' = transferred + Chunk(all)
                 /\ pc' = "send" /\ UNCHANGED <<left, response>>
              \/ /\ Chunk(all) # 0 /\ ~msg.sends
                 /\ left' = Chunk(all) /\ pc' = "receive" /\ UNCHANGED <<transferred, response, out>>
      \/ /\ rxb[1] \notin {"null", "ins", "~ins"}
         /\ response' = Append(response, rxb) /\ pc' = "sw2" /\ UNCHANGED <<left, transferred, out>>
    BY DEF sim_receive_procedure, exchange
<1>9. CASE rxb[1] = "null" /\ UNCHANGED <<pc, left, transferred, response, out>>
    <2>1. said = response
        BY <1>2, <1>9
    <2>2. Answering => card = "answer"
        BY <1>9 DEF Answering
    <2>3. Answering => Answering'
        BY <1>1, <1>7, <1>9, <2>2 DEF Answering
    <2>4. ProcedureInv'
        BY <1>1, <1>2, <1>5, <1>9, <2>1, <2>3 DEF ProcedureInv
    <2> QED BY <1>1, <1>6, <1>9, <2>4, ToPlace DEF Exchanging
<1>10. ASSUME NEW all \in BOOLEAN, rxb[1] = (IF all THEN "ins" ELSE "~ins"),
              Chunk(all) = 0, UNCHANGED <<pc, left, transferred, response, out>>
       PROVE  InStepInv'
    <2>1. said = response
        BY <1>2, <1>10
    <2>2. ASSUME Answering PROVE Answering'
        <3>1. todo \in Nat /\ todo + transferred = msg.n
            BY <1>7, <2>2
        <3>2. todo = 0
            BY <1>4, <1>c, <1>10, <3>1
        <3>3. ~(todo > 0)
            BY <3>2
        <3>4. card = "answer"
            BY <1>10, <2>2, <3>3 DEF Answering
        <3> QED BY <1>1, <1>7, <1>10, <2>2, <3>4 DEF Answering
    <2>3. ProcedureInv'
        BY <1>1, <1>2, <1>5, <1>10, <2>1, <2>2 DEF ProcedureInv
    <2> QED BY <1>1, <1>6, <1>10, <2>3, ToPlace DEF Exchanging
\* Where the card is when data are to move.
<1>11. ASSUME NEW all \in BOOLEAN, rxb[1] = (IF all THEN "ins" ELSE "~ins"), Chunk(all) # 0, Answering
       PROVE  /\ todo \in Nat /\ todo >= 1 /\ todo + transferred = msg.n
              /\ card = IF all THEN (IF msg.sends THEN "take all" ELSE "give all")
                               ELSE (IF msg.sends THEN "take" ELSE "give")
    <2>1. todo \in Nat /\ todo + transferred = msg.n
        BY <1>7, <1>11
    <2>2. todo # 0 /\ todo >= 1
        BY <1>4, <1>c, <1>11, <2>1
    <2>3. CASE all
        BY <1>1, <1>11, <2>2, <2>3 DEF Answering
    <2>4. CASE ~all
        BY <1>1, <1>11, <2>2, <2>4 DEF Answering
    <2> QED BY <2>1, <2>2, <2>3, <2>4
<1>12. ASSUME NEW all \in BOOLEAN, rxb[1] = (IF all THEN "ins" ELSE "~ins"), Chunk(all) # 0, msg.sends,
              out' = [k \in 1 .. Chunk(all) |-> <<"data", transferred + k>>],
              transferred' = transferred + Chunk(all), pc' = "send", UNCHANGED <<left, response>>
       PROVE  InStepInv'
    <2>0. Chunk(all) \in Nat /\ Chunk(all) >= 1 /\ transferred' \in Nat
        BY <1>4, <1>c, <1>12
    <2>1. said = <<>> /\ response = <<>>
        <3>1. said = response
            BY <1>2, <1>12
        <3>2. Len(response) = 0
            BY <1>4, <1>12
        <3> QED BY <1>4, <3>1, <3>2, EmptySeq
    <2>2. /\ out' \in Seq(OutBytes) /\ Len(out') = Chunk(all)
          /\ \A i \in 1 .. Chunk(all) : out'[i] = <<"data", transferred + i>>
        <3>1. \A k \in 1 .. Chunk(all) : <<"data", transferred + k>> \in OutBytes
            BY <1>4, <2>0 DEF OutBytes
        <3> QED BY <1>12, <2>0, <3>1
    <2>3. Rest("data", transferred)'
        <3>1. Len(out') <= transferred'
            BY <1>4, <1>12, <2>0, <2>2
        <3>2. \A i \in 1 .. Chunk(all) : transferred' - Chunk(all) + i = transferred + i
            BY <1>4, <1>12, <2>0
        <3>3. \A i \in 1 .. Len(out') : out'[i] = <<"data", transferred' - Len(out') + i>>
            BY <2>2, <3>2
        <3>4. txb' = <<>>
            BY <1>1, <1>2
        <3> QED BY <3>1, <3>3, <3>4 DEF Rest
    <2>4. ASSUME Answering PROVE Taking'
        <3>1. /\ todo \in Nat /\ todo + transferred = msg.n /\ Len(took) = transferred
              /\ card = IF all THEN "take all" ELSE "take"
            BY <1>7, <1>11, <1>12, <2>4
        <3>2. todo + Len(took) = msg.n /\ Len(took) + Len(out') + 0 = transferred + Chunk(all)
            <4>1. todo \in Nat /\ todo + transferred = msg.n /\ Len(took) = transferred
                BY <3>1
            <4>2. Len(out') = Chunk(all)
                BY <2>2
            <4> QED BY <1>4, <2>0, <4>1, <4>2
        <3>3. /\ all => transferred + Chunk(all) = msg.n /\ Chunk(all) + 0 >= 1
              /\ ~all => Chunk(all) + 0 = 1
            BY <1>4, <1>c, <1>12, <2>0
        <3>4. \/ card = "take" /\ Len(out') + InTx' = 1
              \/ card = "take all" /\ transferred' = msg.n /\ Len(out') + InTx' >= 1
            BY <1>5, <1>12, <2>2, <3>1, <3>3
        <3>5. /\ todo' \in Nat /\ todo' + Len(took') = msg'.n
              /\ Len(took') + Len(out') + InTx' = transferred'
            BY <1>1, <1>5, <1>12, <3>1, <3>2
        <3> QED BY <1>1, <3>4, <3>5 DEF Taking
    <2>5. InData'
        BY <1>1, <1>2, <1>3, <1>5, <1>12, <2>3, <2>4 DEF InData
    <2>6. SendInv'
        BY <1>1, <1>2, <1>5, <1>12, <2>0, <2>1, <2>2, <2>5 DEF SendInv
    <2> QED BY <1>6, <1>12, <2>6, ToPlace DEF Exchanging
<1>13. ASSUME NEW all \in BOOLEAN, rxb[1] = (IF all THEN "ins" ELSE "~ins"), Chunk(all) # 0, ~msg.sends,
              left' = Chunk(all), pc' = "receive", UNCHANGED <<transferred, response, out>>
       PROVE  InStepInv'
    <2>1. said = response
        BY <1>2, <1>13
    <2>2. Heard'
        BY <1>1, <1>13, <2>1 DEF Heard
    <2>3. ASSUME Answering PROVE Giving'
        <3>1. /\ todo \in Nat /\ todo >= 1 /\ todo + transferred = msg.n
              /\ card = IF all THEN "give all" ELSE "give"
            BY <1>11, <1>13, <2>3
        <3>2. /\ all => left' = todo + 0
              /\ ~all => left' = 1
            <4>1. todo \in Nat /\ todo + transferred = msg.n
                BY <3>1
            <4>2. ~all => Chunk(all) = 1
                BY <1>c, <1>13
            <4>3. all => Chunk(all) = msg.n - transferred
                BY <1>c
            <4>4. msg.n - transferred = todo + 0
                BY <1>4, <4>1
            <4> QED BY <1>13, <4>2, <4>3, <4>4
        <3>3. todo + transferred + 0 = msg.n
            <4>1. todo \in Nat /\ todo + transferred = msg.n
                BY <3>1
            <4> QED BY <1>4, <4>1
        <3> QED BY <1>1, <1>5, <1>13, <3>1, <3>2, <3>3 DEF Giving
    <2>4. ReceiveInv'
        BY <1>1, <1>2, <1>5, <1>13, <2>2, <2>3 DEF ReceiveInv
    <2> QED BY <1>6, <1>13, <2>4, ToPlace DEF Exchanging
<1>14. CASE /\ rxb[1] \notin {"null", "ins", "~ins"}
            /\ response' = Append(response, rxb) /\ pc' = "sw2" /\ UNCHANGED <<left, transferred, out>>
    <2>1. said' = response'
        BY <1>1, <1>2, <1>14
    <2>2. Heard'
        BY <1>1, <2>1 DEF Heard
    <2>3. Answering => card = "sw2"
        BY <1>1, <1>14 DEF Answering
    <2>4. StatusInv'
        BY <1>1, <1>2, <1>5, <2>2, <2>3 DEF StatusInv
    <2> QED BY <1>6, <1>14, <2>4, ToPlace DEF Exchanging
<1> QED BY <1>8, <1>9, <1>10, <1>12, <1>13, <1>14

\* A byte of data has been received: more of them, or the next procedure byte.
LEMMA ReceiveExact == ASSUME ReaderInv, InStepInv, receive_data PROVE InStepInv'
<1>1. /\ pc = "receive" /\ ok /\ ok' = FALSE /\ response' = Append(response, rxb)
      /\ transferred' = transferred + 1 /\ left' = left - 1
      /\ pc' = IF left = 1 THEN "procedure" ELSE "receive"
      /\ UNCHANGED <<msg, out, rxb, txb, card, todo, said, took>>
    BY DEF receive_data, sim_receive_byte, cardVars
<1>2. txb = <<>> /\ Len(out) = 0 /\ Heard /\ (Idle \/ Giving)
    BY <1>1 DEF InStepInv, ReceiveInv
<1>3. /\ transferred \in Nat /\ left \in Nat /\ left >= 1 /\ ~msg.sends
    <2>1. transferred \in Nat /\ left \in Nat /\ left > 0 /\ ~msg.sends
        BY <1>1 DEF ReaderInv, BufferInv, BufferBound
    <2> QED BY <2>1
<1>4. said' = response' /\ Heard' /\ (Idle => Idle') /\ OnWay = 1 /\ OnWay' = 0
    BY <1>1, <1>2 DEF Heard, Idle, OnWay
<1>5. TookInv'
    BY <1>1, TookFrame DEF InStepInv
<1>6. ASSUME Giving
      PROVE  /\ todo \in Nat /\ todo + transferred + 1 = msg.n
             /\ \/ card = "give all" /\ todo >= 1 /\ left = todo + 1
                \/ card = "answer" /\ left = 1
    BY <1>1, <1>4, <1>6 DEF Giving
<1>7. ASSUME Giving PROVE todo \in Nat /\ todo + transferred' = msg.n /\ todo + transferred' + 0 = msg.n
    <2>1. todo \in Nat /\ todo + transferred + 1 = msg.n
        BY <1>6, <1>7
    <2>2. transferred' = transferred + 1
        BY <1>1
    <2> QED BY <1>3, <2>1, <2>2
<1>8. CASE left = 1
    <2>1. Giving => card = "answer"
        <3>1. ASSUME todo \in Nat, todo >= 1, left = todo + 1 PROVE FALSE
            BY <1>8, <3>1
        <3> QED BY <1>6, <3>1
    <2>2. Giving => Answering'
        BY <1>1, <1>3, <1>7, <2>1 DEF Answering
    <2>3. ProcedureInv'
        BY <1>1, <1>2, <1>4, <2>2 DEF ProcedureInv
    <2> QED BY <1>1, <1>5, <1>8, <2>3, ToPlace DEF Exchanging
<1>9. CASE left # 1
    <2>1. ASSUME Giving PROVE card = "give all" /\ todo >= 1 /\ left = todo + 1
        BY <1>6, <1>9, <2>1
    <2>2. ASSUME Giving PROVE left' = todo + 0
        <3>1. left' = left - 1 /\ todo \in Nat /\ left = todo + 1
            BY <1>1, <1>7, <2>1, <2>2
        <3> QED BY <3>1
    <2>3. ASSUME Giving PROVE Giving'
        BY <1>1, <1>4, <1>7, <2>1, <2>2, <2>3 DEF Giving
    <2>4. ReceiveInv'
        BY <1>1, <1>2, <1>4, <2>3 DEF ReceiveInv
    <2> QED BY <1>1, <1>5, <1>9, <2>4, ToPlace DEF Exchanging
<1> QED BY <1>8, <1>9

\* What is received of an ATR or a PPS answer is all that the card has said; when the
\* buffer is full the card has no more to say.
LEMMA FullFact ==
    ASSUME ReaderInv, ok, Heard, NEW size \in Nat, todo \in Nat, todo >= 1, Len(said) + todo = size
    PROVE  Len(response) + 1 < size
<1>1. Len(response) \in Nat /\ Len(Append(response, rxb)) = Len(response) + 1
    BY SaidFact
<1>2. said = Append(response, rxb)
    BY DEF Heard
<1>3. Len(said) = Len(response) + 1
    BY <1>1, <1>2
<1> QED BY <1>1, <1>3

\* A byte of the ATR has been received.
LEMMA AtrExact == ASSUME ReaderInv, InStepInv, atr_byte PROVE InStepInv' /\ response' = said
<1>1. /\ pc = "atr" /\ ok /\ ok' = FALSE /\ response' = Append(response, rxb)
      /\ UNCHANGED <<rxb, txb, card, todo, said, took>>
      /\ \/ UNCHANGED pc
         \/ ~(Len(response) + 1 < MaxAtr) /\ host_reply(FALSE)
    BY DEF atr_byte, sim_receive_byte, cardVars
<1>2. /\ txb = <<>> /\ Heard
      /\ Idle \/ (card = "atr" /\ todo \in Nat /\ todo >= 1 /\ Len(said) + todo = MaxAtr)
    BY <1>1 DEF InStepInv, AtrInv
<1>3. said' = response' /\ Heard' /\ (Idle => Idle')
    BY <1>1, <1>2 DEF Heard, Idle
<1>4. TookInv'
    BY <1>1, TookFrame DEF InStepInv
<1>5. CASE UNCHANGED pc
    <2>1. AtrInv'
        BY <1>1, <1>2, <1>3 DEF AtrInv
    <2> QED BY <1>1, <1>3, <1>4, <1>5, <2>1, ToPlace
<1>6. CASE ~(Len(response) + 1 < MaxAtr) /\ host_reply(FALSE)
    <2>1. Idle
        BY <1>1, <1>2, <1>6, FullFact, ConstantsFact
    <2> QED BY <1>1, <1>2, <1>3, <1>4, <1>6, <2>1, ReplyExact
<1> QED BY <1>1, <1>5, <1>6

\* The second status byte, or a byte of the PPS answer, has been received.
LEMMA EndExact == ASSUME ReaderInv, InStepInv, receive_end PROVE InStepInv' /\ response' = said
<1>1. /\ pc \in {"sw2", "pps"} /\ ok /\ ok' = FALSE /\ response' = Append(response, rxb)
      /\ UNCHANGED <<rxb, txb, card, todo, said, took>>
      /\ \/ pc = "pps" /\ UNCHANGED <<pc, msg>>
         \/ ~(pc = "pps" /\ Len(response) + 1 < msg.n) /\ host_reply(FALSE)
    BY DEF receive_end, sim_receive_byte, cardVars
<1>2. /\ txb = <<>> /\ Heard
      /\ \/ Idle
         \/ pc = "pps" /\ card = "pps" /\ todo \in Nat /\ todo >= 1 /\ Len(said) + todo = msg.n
    BY <1>1 DEF InStepInv, StatusInv, PpsInv
<1>3. said' = response' /\ Heard' /\ (Idle => Idle')
    BY <1>1, <1>2 DEF Heard, Idle
<1>4. TookInv'
    BY <1>1, TookFrame DEF InStepInv
<1>5. CASE pc = "pps" /\ UNCHANGED <<pc, msg>>
    <2>1. PpsInv'
        BY <1>1, <1>2, <1>3, <1>5 DEF PpsInv
    <2> QED BY <1>1, <1>3, <1>4, <1>5, <2>1, ToPlace DEF Exchanging
<1>6. CASE ~(pc = "pps" /\ Len(response) + 1 < msg.n) /\ host_reply(FALSE)
    <2>1. pc = "pps" => msg.n \in Nat
        BY RequestFact, ConstantsFact DEF ReaderInv, ServeInv, Serving
    <2>2. Idle
        BY <1>1, <1>2, <1>6, <2>1, FullFact, ConstantsFact
    <2> QED BY <1>1, <1>2, <1>3, <1>4, <1>6, <2>2, ReplyExact
<1> QED BY <1>1, <1>5, <1>6

\* A wait that ends without a byte: of a card in time it is the card that has stopped.
LEMMA WaitExact ==
    ASSUME ReaderInv, InStepInv, sim_wait_fails, ~late'
    PROVE  InStepInv' /\ (pc = "atr" => response' = said)
<1>1. /\ Waiting /\ ~ok /\ ~CardBusy /\ UNCHANGED <<ok, rxb, txb, card, took, response>>
      /\ \E failed : host_reply(failed)
    BY DEF sim_wait_fails, sim, cardVars, exchange, bounds
<1>2. txb = <<>> /\ card \notin {"atr", "answer", "give", "give all", "sw2", "pps"}
    BY <1>1 DEF CardBusy
<1>3. Idle
    BY <1>1, <1>2, SpeakPlace DEF Waiting
<1>4. Idle' /\ ~ok' /\ txb' = <<>>
    BY <1>1, <1>2, <1>3 DEF Idle
<1>5. TookInv'
    BY <1>1, TookFrame DEF InStepInv
<1>6. pc = "atr" => response' = said
    BY <1>1 DEF InStepInv, AtrInv, Heard
<1> QED BY <1>1, <1>4, <1>5, <1>6, ReplyExact

-----------------------------------------------------------------------------
\* The rate, and the invariant as a whole.

\* The rate after a reset is the one of the parameters after a reset.
LEMMA DefaultRate == sim_fidi_to_brf(SIM_DEFAULT_FIDI) = SIM_DEFAULT_BRF
<1>1. 17 % 16 = 1 /\ 17 \div 16 = 1
    OBVIOUS
<1>2. DI_DIVISORS[2] = 1 /\ FI_CLOCKS_PER_ETU[2] = 372
    BY DEF DI_DIVISORS, FI_CLOCKS_PER_ETU
<1>3. (372 \div 1) \div 4 = 93
    OBVIOUS
<1> QED BY <1>1, <1>2, <1>3 DEF sim_fidi_to_brf, SIM_DEFAULT_FIDI, SIM_DEFAULT_BRF

\* The bit rate changes with the parameters, and only with them.
LEMMA NextRate == ASSUME RateInv, [Next]_vars PROVE RateInv'
<1>1. \/ UNCHANGED <<t0_fidi, brf>>
      \/ t0_fidi' = SIM_DEFAULT_FIDI /\ brf' = SIM_DEFAULT_BRF
      \/ brf' = sim_fidi_to_brf(t0_fidi')
    <2>1. CASE (\E r \in Requests : Command(r)) \/ ReadFrame \/ HostTimeout \/ HostStart
                 \/ Arrive \/ Fault \/ host_read_byte \/ UNCHANGED vars
        BY <2>1 DEF Command, ReadFrame, HostTimeout, HostStart, Arrive, Fault, host_read_byte, vars, slot
    <2>2. CASE Card \/ CardStops
        BY <2>2, CardFrame DEF others, slot
    <2>3. CASE host_handle_plain \/ host_handle_reset_parameters \/ host_handle_power_off
                 \/ host_handle_escape \/ host_handle_power_on \/ host_handle_xfr_block
        BY <2>3 DEF host_handle_plain, host_handle_reset_parameters, host_handle_power_off,
                    host_handle_escape, host_handle_power_on, host_handle_xfr_block,
                    t0_parameters_reset, slot
    <2>4. CASE host_handle_set_parameters
        <3> DEFINE rate == IF msg.fidi = NotT0 THEN 0 ELSE sim_fidi_to_brf(msg.fidi)
        <3>1. /\ t0_fidi' = IF rate # 0 THEN msg.fidi ELSE t0_fidi
              /\ brf' = IF rate # 0 THEN rate ELSE brf
            BY <2>4 DEF host_handle_set_parameters
        <3>2. CASE rate = 0
            BY <3>1, <3>2
        <3>3. CASE rate # 0
            <4>1. rate = sim_fidi_to_brf(msg.fidi)
                BY <3>3
            <4>2. t0_fidi' = msg.fidi /\ brf' = rate
                BY <3>1, <3>3
            <4> HIDE DEF rate
            <4>3. brf' = sim_fidi_to_brf(t0_fidi')
                BY <4>1, <4>2
            <4> QED BY <4>3
        <3> QED BY <3>2, <3>3
    <2>5. CASE atr_byte \/ sim_send_byte \/ send_ok \/ sim_receive_procedure \/ receive_data
                 \/ receive_end \/ sim_wait_fails
        BY <2>5 DEF atr_byte, sim_send_byte, send_ok, sim_receive_procedure, receive_data,
                    receive_end, sim_wait_fails, slot
    <2> QED BY <2>1, <2>2, <2>3, <2>4, <2>5 DEF Next, Reader
<1>2. CASE UNCHANGED <<t0_fidi, brf>>
    BY <1>2 DEF RateInv, sim_fidi_to_brf
<1>3. CASE t0_fidi' = SIM_DEFAULT_FIDI /\ brf' = SIM_DEFAULT_BRF
    <2>1. brf' = sim_fidi_to_brf(t0_fidi')
        BY <1>3, DefaultRate
    <2> QED BY <2>1 DEF RateInv, sim_fidi_to_brf
<1>4. CASE brf' = sim_fidi_to_brf(t0_fidi')
    BY <1>4 DEF RateInv, sim_fidi_to_brf
<1> QED BY <1>1, <1>2, <1>3, <1>4

\* The host and the line leave the exchange alone.
LEMMA OutsideFrame ==
    ASSUME (\E r \in Requests : Command(r)) \/ ReadFrame \/ HostTimeout \/ HostStart
             \/ Arrive \/ Fault \/ UNCHANGED vars
    PROVE  UNCHANGED <<pc, msg, ok, rxb, txb, card, todo, said, took, response, transferred, left, out, late>>
BY DEF Command, ReadFrame, HostTimeout, HostStart, Arrive, Fault, vars, exchange, sim, cardVars, bounds

\* Only POWER_ON forgets that the card was late, and only a wait that fails notes it.
LEMMA LateFact ==
    ASSUME Handlers \/ Card \/ CardStops \/ host_read_byte, late \in BOOLEAN
    PROVE  /\ late' \in BOOLEAN
           /\ ~host_handle_power_on => (late => late')
           /\ ~sim_wait_fails => (late' => late)
<1>1. CASE Card \/ CardStops
    BY <1>1, CardFrame DEF others, bounds
<1>2. CASE host_read_byte
    BY <1>2 DEF host_read_byte, bounds
<1>3. CASE host_handle_plain \/ host_handle_reset_parameters \/ host_handle_set_parameters
             \/ host_handle_power_off \/ host_handle_escape \/ host_handle_xfr_block
    <2>1. UNCHANGED bounds
        BY <1>3 DEF host_handle_plain, host_handle_reset_parameters, host_handle_set_parameters,
                    host_handle_power_off, host_handle_escape, host_handle_xfr_block
    <2> QED BY <2>1 DEF bounds
<1>4. CASE atr_byte \/ sim_send_byte \/ send_ok \/ sim_receive_procedure \/ receive_data \/ receive_end
    <2>1. UNCHANGED bounds
        BY <1>4 DEF atr_byte, sim_send_byte, send_ok, sim_receive_procedure, receive_data, receive_end
    <2> QED BY <2>1 DEF bounds
<1>5. CASE host_handle_power_on
    BY <1>5 DEF host_handle_power_on
<1>6. CASE sim_wait_fails
    BY <1>6 DEF sim_wait_fails, bounds
<1> QED BY <1>1, <1>2, <1>3, <1>4, <1>5, <1>6 DEF Handlers

\* SIM_RIS_OK is a flag.
LEMMA OkFact == ASSUME ok \in BOOLEAN, [Next]_vars PROVE ok' \in BOOLEAN
<1>1. CASE (\E r \in Requests : Command(r)) \/ ReadFrame \/ HostTimeout \/ HostStart
             \/ Arrive \/ Fault \/ UNCHANGED vars
    BY <1>1, OutsideFrame
<1>2. CASE Card
    BY <1>2 DEF Card, TxDone, CardData, CardExcess, CardPutsOff, CardProcedure, CardStatus, CardByte
<1>3. CASE CardStops \/ host_read_byte \/ host_handle_plain \/ host_handle_reset_parameters
             \/ host_handle_set_parameters \/ host_handle_xfr_block \/ sim_wait_fails
    BY <1>3 DEF CardStops, host_read_byte, host_handle_plain, host_handle_reset_parameters,
                host_handle_set_parameters, host_handle_xfr_block, sim_wait_fails, sim
<1>4. CASE host_handle_power_off \/ host_handle_escape \/ host_handle_power_on
    BY <1>4 DEF host_handle_power_off, host_handle_escape, host_handle_power_on, sim_power_off, ClearFlags
<1>5. CASE atr_byte \/ sim_send_byte \/ send_ok \/ sim_receive_procedure \/ receive_data \/ receive_end
    BY <1>5 DEF atr_byte, sim_send_byte, send_ok, sim_receive_procedure, receive_data, receive_end,
                sim_receive_byte
<1> QED BY <1>1, <1>2, <1>3, <1>4, <1>5 DEF Next, Reader

\* At power on of the phone nothing is under way.
LEMMA InitExact == Init => ExactInv
<1> SUFFICES ASSUME Init PROVE ExactInv
    OBVIOUS
<1>1. RateInv /\ ok \in BOOLEAN /\ late \in BOOLEAN
    BY DefaultRate DEF Init, RateInv
<1>2. TookInv
    <2>1. <<>> \in Seq(OutBytes) /\ Len(<<>>) = 0
        BY EmptySeq
    <2> QED BY <2>1 DEF Init, TookInv
<1>3. QuietInv
    BY DEF Init, QuietInv, Idle
<1>4. AtrInv /\ SendInv /\ ProcedureInv /\ ReceiveInv /\ StatusInv /\ PpsInv
    BY DEF Init, AtrInv, SendInv, ProcedureInv, ReceiveInv, StatusInv, PpsInv
<1> QED BY <1>1, <1>2, <1>3, <1>4 DEF ExactInv, InStepInv

\* Every step keeps reader and card in step, unless the card is late.
LEMMA NextExact == ReaderInv /\ ExactInv /\ [Next]_vars => ExactInv'
<1> SUFFICES ASSUME ReaderInv, ExactInv, [Next]_vars PROVE ExactInv'
    OBVIOUS
<1>0. ok \in BOOLEAN /\ late \in BOOLEAN /\ RateInv /\ (~late => InStepInv)
    BY DEF ExactInv
<1>1. ok' \in BOOLEAN /\ RateInv'
    BY <1>0, OkFact, NextRate
<1>2. CASE (\E r \in Requests : Command(r)) \/ ReadFrame \/ HostTimeout \/ HostStart
             \/ Arrive \/ Fault \/ UNCHANGED vars
    BY <1>0, <1>1, <1>2, OutsideFrame, ExchangeFrame DEF ExactInv
<1>3. ASSUME Handlers \/ Card \/ CardStops \/ host_read_byte, ~late' => InStepInv'
      PROVE  ExactInv'
    BY <1>0, <1>1, <1>3, LateFact DEF ExactInv
<1>4. CASE Card \/ CardStops
    <2>1. ASSUME ~late' PROVE InStepInv'
        <3>1. ~late
            BY <1>4, <2>1, CardFrame DEF others, bounds
        <3>2. ~CardExcess
            BY <3>1 DEF CardExcess
        <3> QED BY <1>0, <1>4, <3>1, <3>2, TxDoneExact, DataExact, ProcedureExact, StatusExact, StopsExact
                DEF Card
    <2> QED BY <1>3, <1>4, <2>1
<1>5. CASE host_handle_power_on
    BY <1>3, <1>5, PowerOnExact DEF Handlers
<1>6. CASE (Handlers /\ ~host_handle_power_on) \/ host_read_byte
    <2>1. ASSUME ~late' PROVE InStepInv'
        <3>1. ~late \/ host_handle_power_on
            BY <1>0, <1>6, <2>1, LateFact
        <3>2. CASE host_handle_power_on
            BY <3>2, PowerOnExact
        <3>3. CASE ~late
            <4>1. InStepInv
                BY <1>0, <3>3
            <4> QED BY <1>6, <2>1, <4>1, ReadExact, PlainExact, XfrExact, SendByteExact, SendOkExact,
                       ProcedureStepExact, ReceiveExact, AtrExact, EndExact, WaitExact DEF Handlers
        <3> QED BY <3>1, <3>2, <3>3
    <2> QED BY <1>3, <1>6, <2>1
<1> QED BY <1>2, <1>4, <1>5, <1>6 DEF Next, Reader, Handlers

\* Bytes labelled in order are the labels in order.
LEMMA TookFact == ASSUME TookInv PROVE took = [k \in 1 .. Len(took) |-> <<"data", k>>]
<1>1. took \in [1 .. Len(took) -> OutBytes]
    BY LenProperties DEF TookInv
<1> QED BY <1>1 DEF TookInv

\* The steps that answer POWER_ON or an exchange.
LEMMA StepExact ==
    ASSUME ReaderInv, ExactInv, Next, told' # told, told'.kind = "reply", ~told'.failed, ~late',
           pc \in {"atr", "sw2", "pps"}
    PROVE  /\ brf = sim_fidi_to_brf(t0_fidi)
           /\ response' = said
           /\ took = [k \in 1 .. Len(took) |-> <<"data", k>>]
<1>0. ok \in BOOLEAN /\ late \in BOOLEAN /\ RateInv /\ (~late => InStepInv)
    BY DEF ExactInv
<1>1. atr_byte \/ receive_end \/ sim_wait_fails
    <2>1. ~(Command(asked') \/ ReadFrame \/ HostTimeout \/ HostStart \/ Arrive \/ Fault)
        BY DEF Command, ReadFrame, HostTimeout, HostStart, Arrive, Fault
    <2>2. ~(\E r \in Requests : Command(r))
        BY DEF Command
    <2>3. ~(Card \/ CardStops)
        BY CardFrame
    <2>4. ~host_read_byte
        BY DEF host_read_byte, Serving
    <2>5. ~(host_handle_plain \/ host_handle_reset_parameters \/ host_handle_set_parameters
              \/ host_handle_power_off \/ host_handle_escape \/ host_handle_power_on \/ host_handle_xfr_block)
        BY DEF host_handle_plain, host_handle_reset_parameters, host_handle_set_parameters,
               host_handle_power_off, host_handle_escape, host_handle_power_on, host_handle_xfr_block, Serve
    <2>6. ~(sim_send_byte \/ send_ok \/ sim_receive_procedure \/ receive_data)
        BY DEF sim_send_byte, send_ok, sim_receive_procedure, receive_data
    <2> QED BY <2>1, <2>2, <2>3, <2>4, <2>5, <2>6 DEF Next, Reader
<1>2. ~host_handle_power_on /\ Handlers
    BY <1>1 DEF host_handle_power_on, Serve, Handlers
<1>3. ~late /\ InStepInv
    BY <1>0, <1>2, LateFact
<1>4. sim_wait_fails => pc = "atr"
    <2> SUFFICES ASSUME sim_wait_fails PROVE pc = "atr"
        OBVIOUS
    <2>1. host_reply(pc # "atr" \/ response = <<>>)
        BY DEF sim_wait_fails
    <2>2. told'.failed = (pc # "atr" \/ response = <<>>)
        BY <2>1 DEF host_reply, Tell, Frame
    <2> QED BY <2>2
<1>5. response' = said
    BY <1>1, <1>3, <1>4, AtrExact, EndExact, WaitExact
<1>6. took = [k \in 1 .. Len(took) |-> <<"data", k>>]
    BY <1>3, TookFact DEF InStepInv
<1> QED BY <1>0, <1>5, <1>6 DEF RateInv

\* What a card that keeps the times says is what the host is given, byte for byte and
\* without the procedure bytes; what the card gets is the data of the request, in order;
\* and the rate is the one the host has set: for every size of data, of an ATR and of a
\* PPS request, and every choice of procedure bytes by the card.
THEOREM ExchangesAreExact == Spec => ExchangeExact
<1>1. Init => ReaderInv /\ ExactInv
    BY InitReader, InitExact
<1>2. ReaderInv /\ ExactInv /\ [Next]_vars => ReaderInv' /\ ExactInv'
    BY NextReader, NextExact
<1>3. ReaderInv /\ ExactInv /\ [Next]_vars =>
        [told' # told /\ told'.kind = "reply" /\ ~told'.failed /\ ~late'
           /\ pc \in {"atr", "sw2", "pps"} =>
           /\ brf = sim_fidi_to_brf(t0_fidi)
           /\ response' = said
           /\ took = [k \in 1 .. Len(took) |-> <<"data", k>>]]_vars
    BY StepExact
<1> QED BY <1>1, <1>2, <1>3, PTL DEF Spec, ExchangeExact

=============================================================================
