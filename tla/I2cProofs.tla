----------------------------- MODULE I2cProofs ------------------------------
(***************************************************************************)
(* For every size of a transfer and of a FIFO word, whatever the           *)
(* controller, the slave and the bus do, the I2C drivers never store       *)
(* behind the end of the caller's buffer, and what they report as done is  *)
(* done.                                                                   *)
(***************************************************************************)
EXTENDS I2c, SequenceTheorems, TLAPS

-----------------------------------------------------------------------------
\* The inductive invariant.

\* A sequence of whatever bytes the slave has given.
IsSeq(s) == \E S : s \in Seq(S)

CallInv ==
    /\ DOMAIN call = {"op", "reg", "size", "result"} /\ call.size \in Nat

FlagsInv ==
    /\ flags \in [reading : BOOLEAN, address : BOOLEAN, stop : BOOLEAN, receiving : BOOLEAN]
    /\ pc \in {"write", "read"} => ~flags.reading
    /\ pc \in {"sample", "act"} => flags.reading

\* What the driver asks the controller of the PMB8875 for.
HwInv ==
    /\ chip \in {"v1", "v2"} /\ stuck \in BOOLEAN
    /\ chip = "v1" => {"rx", "ci"} \subseteq DOMAIN hw /\ IsSeq(hw.rx) /\ hw.ci \in Nat

\* Nothing is received before a read has begun.
RoomInv ==
    /\ left \in Nat /\ IsSeq(buffer)
    /\ ~flags.reading => left = 0 /\ buffer = <<>>
    /\ call.op # "write" => Len(buffer) + left <= call.size

\* These places are in i2c-v2.c.
PlaceInv == pc \in {"request", "end", "sample", "act"} => chip = "v2"

DriverInv == CallInv /\ FlagsInv /\ HwInv /\ RoomInv

-----------------------------------------------------------------------------
\* Sequences and minima.

\* The length of what one or more bytes are added to.
LEMMA SeqFact ==
    ASSUME NEW s, IsSeq(s)
    PROVE  /\ Len(s) \in Nat
           /\ \A e : IsSeq(Append(s, e))
           /\ \A t : IsSeq(t) => IsSeq(s \o t) /\ Len(s \o t) = Len(s) + Len(t)
<1>1. PICK S : s \in Seq(S)
    BY DEF IsSeq
<1>2. Len(s) \in Nat
    BY <1>1, LenProperties
<1>3. ASSUME NEW e PROVE IsSeq(Append(s, e))
    <2>1. s \in Seq(S \cup {e})
        BY <1>1, SeqMonotonic
    <2>2. Append(s, e) \in Seq(S \cup {e})
        BY <2>1, AppendProperties
    <2> QED BY <2>2 DEF IsSeq
<1>4. ASSUME NEW t, IsSeq(t) PROVE IsSeq(s \o t) /\ Len(s \o t) = Len(s) + Len(t)
    <2>1. PICK T : t \in Seq(T)
        BY <1>4 DEF IsSeq
    <2>2. s \in Seq(S \cup T) /\ t \in Seq(S \cup T)
        BY <1>1, <2>1, SeqMonotonic
    <2>3. s \o t \in Seq(S \cup T) /\ Len(s \o t) = Len(s) + Len(t)
        BY <2>2, ConcatProperties
    <2> QED BY <2>3 DEF IsSeq
<1> QED BY <1>2, <1>3, <1>4

\* No byte is a sequence.
LEMMA NoneFact == IsSeq(<<>>) /\ Len(<<>>) = 0
<1>1. <<>> \in Seq({}) /\ Len(<<>>) = 0
    BY EmptySeq
<1> QED BY <1>1 DEF IsSeq

\* The smaller of two numbers, and the smallest of three.
LEMMA MinFact ==
    /\ \A a, b \in Nat : Min({a, b}) \in Nat /\ Min({a, b}) <= a /\ Min({a, b}) <= b
    /\ \A a, b, c \in Nat : /\ Min({a, b, c}) \in Nat
                            /\ Min({a, b, c}) <= a /\ Min({a, b, c}) <= b /\ Min({a, b, c}) <= c
<1>1. ASSUME NEW a \in Nat, NEW b \in Nat
      PROVE  Min({a, b}) \in Nat /\ Min({a, b}) <= a /\ Min({a, b}) <= b
    <2>1. \E x \in {a, b} : \A y \in {a, b} : x <= y
        OBVIOUS
    <2>2. Min({a, b}) \in {a, b} /\ \A y \in {a, b} : Min({a, b}) <= y
        BY <2>1 DEF Min
    <2> QED BY <2>2
<1>2. ASSUME NEW a \in Nat, NEW b \in Nat, NEW c \in Nat
      PROVE  /\ Min({a, b, c}) \in Nat
             /\ Min({a, b, c}) <= a /\ Min({a, b, c}) <= b /\ Min({a, b, c}) <= c
    <2>1. \E x \in {a, b, c} : \A y \in {a, b, c} : x <= y
        OBVIOUS
    <2>2. Min({a, b, c}) \in {a, b, c} /\ \A y \in {a, b, c} : Min({a, b, c}) <= y
        BY <2>1 DEF Min
    <2> QED BY <2>2
<1> QED BY <1>1, <1>2

\* The first bytes of a sequence, when it has as many.
LEMMA FirstFact ==
    ASSUME NEW s, IsSeq(s), NEW n \in Nat, n <= Len(s)
    PROVE  IsSeq(First(s, n)) /\ Len(First(s, n)) = n
<1>1. PICK S : s \in Seq(S)
    BY DEF IsSeq
<1>2. Len(s) \in Nat
    BY <1>1, LenProperties
<1>3. Min({n, Len(s)}) = n
    <2>1. n \in {n, Len(s)} /\ \A y \in {n, Len(s)} : n <= y
        BY <1>2
    <2>2. Min({n, Len(s)}) \in {n, Len(s)} /\ \A y \in {n, Len(s)} : Min({n, Len(s)}) <= y
        BY <2>1 DEF Min
    <2>3. Min({n, Len(s)}) <= n
        BY <2>2
    <2> QED BY <1>2, <2>1, <2>2, <2>3
<1>4. SubSeq(s, 1, n) \in Seq(S) /\ Len(SubSeq(s, 1, n)) = n
    BY <1>1, <1>2
<1> QED BY <1>3, <1>4 DEF First, IsSeq

\* The word read from the FIFO of the PMB8876 has as many bytes as were asked for.
LEMMA WordFact == ASSUME NEW n \in Nat PROVE IsSeq(Word2(n)) /\ Len(Word2(n)) = n
<1> DEFINE byte(i) == IF i <= Len(hw.rx) THEN hw.rx[i] ELSE Undefined
<1>1. Word2(n) = [i \in 1 .. n |-> byte(i)]
    BY DEF Word2
<1>2. \A i \in 1 .. n : byte(i) \in {byte(j) : j \in 1 .. n}
    OBVIOUS
<1> HIDE DEF byte
<1>3. Word2(n) \in Seq({byte(j) : j \in 1 .. n}) /\ Len(Word2(n)) = n
    BY <1>1, <1>2
<1> QED BY <1>3 DEF IsSeq

-----------------------------------------------------------------------------
\* Every step keeps the invariant.

\* The end of a call, or of the write that begins i2c_smbus_read.
LEMMA ReturnsFact ==
    ASSUME CallInv, NEW ok, Returns(ok)
    PROVE  /\ CallInv' /\ call'.op = call.op /\ call'.size = call.size
           /\ pc' \in {"read", "idle"}
           /\ pc' = "read" => ~flags.reading
BY DEF Returns, CallInv

\* Nothing of the driver changes but where it is, and what the controller has.
LEMMA RoomFrame ==
    ASSUME RoomInv, UNCHANGED <<left, buffer>>, call'.op = call.op, call'.size = call.size,
           flags'.reading = flags.reading
    PROVE  RoomInv'
BY DEF RoomInv, IsSeq

\* A call begins.
LEMMA BeginsRoom ==
    ASSUME DriverInv, NEW op, NEW reg, NEW n \in Nat, NEW m, NEW where \in {"write", "read"},
           Begins(op, reg, n, m, where)
    PROVE  DriverInv'
<1>1. /\ call' = [op |-> op, reg |-> reg, size |-> n, result |-> FALSE]
      /\ left' = 0 /\ buffer' = <<>> /\ flags' = NoFlags /\ pc' = where
      /\ UNCHANGED <<chip, hw, stuck>>
    BY DEF Begins
<1>2. CallInv' /\ call'.size = n
    BY <1>1 DEF CallInv
<1>3. FlagsInv' /\ ~flags'.reading
    BY <1>1 DEF FlagsInv, NoFlags
<1>4. HwInv'
    BY <1>1 DEF DriverInv, HwInv, IsSeq
<1>5. RoomInv'
    BY <1>1, <1>2, <1>3, NoneFact DEF RoomInv
<1> QED BY <1>2, <1>3, <1>4, <1>5 DEF DriverInv

\* A transfer begins: only a read has room to fill, all of it.
LEMMA StartRoom ==
    ASSUME DriverInv, StartWrite1 \/ StartRead1 \/ StartWrite2 \/ StartRead2
    PROVE  DriverInv'
<1>1. ~flags.reading /\ left = 0 /\ buffer = <<>>
    BY DEF DriverInv, FlagsInv, RoomInv, StartWrite1, StartRead1, StartWrite2, StartRead2
<1>2. /\ UNCHANGED <<chip, call, buffer, stuck>> /\ pc' \in {"poll", "request"}
      /\ \/ left' = left /\ flags' \in {NoFlags, [NoFlags EXCEPT !.address = TRUE]}
         \/ left' = call.size /\ flags' = [NoFlags EXCEPT !.reading = TRUE]
    BY DEF StartWrite1, StartRead1, StartWrite2, StartRead2, Keep
<1>3. CallInv'
    BY <1>2 DEF DriverInv, CallInv
<1>4. FlagsInv' /\ (flags'.reading \/ left' = left)
    <2>1. pc' \notin {"write", "read", "sample", "act"}
        BY <1>2
    <2>2. CASE left' = left /\ flags' \in {NoFlags, [NoFlags EXCEPT !.address = TRUE]}
        <3>1. CASE flags' = NoFlags
            BY <2>1, <2>2, <3>1 DEF FlagsInv, NoFlags
        <3>2. CASE flags' = [NoFlags EXCEPT !.address = TRUE]
            BY <2>1, <2>2, <3>2 DEF FlagsInv, NoFlags
        <3> QED BY <2>2, <3>1, <3>2
    <2>3. CASE flags' = [NoFlags EXCEPT !.reading = TRUE]
        BY <2>1, <2>3 DEF FlagsInv, NoFlags
    <2> QED BY <1>2, <2>2, <2>3
<1>5. RoomInv'
    <2>1. call'.size \in Nat /\ call'.size = call.size
        BY <1>2 DEF DriverInv, CallInv
    <2>2. left' \in {0, call.size} /\ Len(buffer') = 0 /\ IsSeq(buffer') /\ buffer' = <<>>
        BY <1>1, <1>2, NoneFact
    <2>3. left' \in Nat /\ Len(buffer') + left' <= call'.size
        BY <2>1, <2>2
    <2> QED BY <1>1, <1>2, <1>4, <2>2, <2>3 DEF RoomInv
<1>6. HwInv'
    <2>1. CASE StartWrite1
        <3>1. hw' = [hw EXCEPT !.tx = <<AddressW>> \o First(msg, WordSize - 1), !.bum = TRUE]
            BY <2>1 DEF StartWrite1
        <3>2. chip = "v1" /\ {"rx", "ci"} \subseteq DOMAIN hw /\ IsSeq(hw.rx) /\ hw.ci \in Nat
            BY <2>1 DEF DriverInv, HwInv, StartWrite1
        <3>3. DOMAIN hw' = DOMAIN hw /\ hw'.rx = hw.rx /\ hw'.ci = hw.ci
            BY <3>1, <3>2
        <3> QED BY <1>2, <3>2, <3>3 DEF DriverInv, HwInv, IsSeq
    <2>2. CASE StartRead1
        <3>1. hw' = [hw EXCEPT !.tx = <<AddressR>>, !.ci = 1, !.bum = TRUE]
            BY <2>2 DEF StartRead1
        <3>2. chip = "v1" /\ {"rx", "ci"} \subseteq DOMAIN hw /\ IsSeq(hw.rx)
            BY <2>2 DEF DriverInv, HwInv, StartRead1
        <3>3. DOMAIN hw' = DOMAIN hw /\ hw'.rx = hw.rx /\ hw'.ci = 1
            BY <3>1, <3>2
        <3> QED BY <1>2, <3>2, <3>3 DEF DriverInv, HwInv, IsSeq
    <2>3. CASE StartWrite2 \/ StartRead2
        BY <1>2, <2>3 DEF DriverInv, HwInv, StartWrite2, StartRead2
    <2> QED BY <2>1, <2>2, <2>3
<1> QED BY <1>3, <1>4, <1>5, <1>6 DEF DriverInv

\* transfer_stop leaves the controller idle.
LEMMA StopHw ==
    ASSUME HwInv, NEW ok, transfer_stop(ok), UNCHANGED chip, chip = "v1"
    PROVE  HwInv'
<1>1. hw' = [Idle1 EXCEPT !.ci = hw.ci] /\ stuck' = FALSE
    BY DEF transfer_stop
<1>2. {"rx", "ci"} \subseteq DOMAIN hw' /\ hw'.rx = <<>> /\ hw'.ci = hw.ci
    BY <1>1 DEF Idle1
<1>3. IsSeq(hw'.rx)
    BY <1>2, NoneFact
<1> QED BY <1>1, <1>2, <1>3 DEF HwInv, IsSeq

\* What a data interrupt of a read takes.
LEMMA ReadOnRoom ==
    ASSUME DriverInv, chip = "v1", flags.reading
    PROVE  /\ ReadCount \in Nat /\ ReadCount <= left
           /\ IsSeq(First(hw.rx, ReadCount)) /\ Len(First(hw.rx, ReadCount)) = ReadCount
<1>1. Len(hw.rx) \in Nat /\ hw.ci \in Nat /\ left \in Nat /\ IsSeq(hw.rx)
    BY SeqFact DEF DriverInv, HwInv, RoomInv
<1>2. ReadCount \in Nat /\ ReadCount <= left /\ ReadCount <= Len(hw.rx)
    BY <1>1, MinFact DEF ReadCount
<1> QED BY <1>1, <1>2, FirstFact

\* One turn of the loop of i2c-v1.c.
LEMMA Poll1Room == ASSUME DriverInv, Poll1 PROVE DriverInv'
<1> DEFINE t == IF ~hw.irqd THEN Same ELSE IF flags.reading THEN ReadOn ELSE Written
<1>0. /\ chip = "v1" /\ pc = "poll" /\ UNCHANGED chip
      /\ left' = t.left /\ buffer' = t.buffer /\ flags' = t.flags
      /\ IF hw.irqe THEN transfer_stop(Complete(t)) ELSE hw' = t.hw /\ UNCHANGED <<pc, call, stuck>>
    BY DEF Poll1, Keep
<1>1. /\ CallInv /\ FlagsInv /\ HwInv /\ RoomInv
    BY DEF DriverInv
<1>a. /\ {"rx", "ci"} \subseteq DOMAIN hw /\ IsSeq(hw.rx) /\ hw.ci \in Nat
      /\ flags \in [reading : BOOLEAN, address : BOOLEAN, stop : BOOLEAN, receiving : BOOLEAN]
    BY <1>0, <1>1 DEF HwInv, FlagsInv
<1>2. /\ flags' \in [reading : BOOLEAN, address : BOOLEAN, stop : BOOLEAN, receiving : BOOLEAN]
      /\ flags'.reading = flags.reading
      /\ \/ left' = left /\ buffer' = buffer
         \/ flags.reading /\ left' = left - ReadCount /\ buffer' = buffer \o First(hw.rx, ReadCount)
      /\ {"rx", "ci"} \subseteq DOMAIN t.hw /\ IsSeq(t.hw.rx) /\ t.hw.ci \in Nat
    <2>1. CASE ~hw.irqd
        <3>1. t = Same
            BY <2>1
        <3> HIDE DEF t
        <3> QED BY <1>0, <1>a, <3>1 DEF Same
    <2>2. CASE hw.irqd /\ flags.reading
        <3>1. t = ReadOn
            BY <2>2
        <3> HIDE DEF t
        <3> DEFINE more == left - ReadCount
        <3>2. /\ t.left = more /\ t.buffer = buffer \o First(hw.rx, ReadCount)
              /\ t.flags = [flags EXCEPT !.address = TRUE]
              /\ t.hw = [hw EXCEPT !.rx = <<>>, !.receive = TRUE, !.irqd = FALSE,
                           !.ci = IF more # 0 THEN Min({more, WordSize}) ELSE @,
                           !.stp = @ \/ (more # 0 /\ more <= WordSize)]
            BY <3>1 DEF ReadOn
        <3>3. more \in Nat
            <4>1. ReadCount \in Nat /\ ReadCount <= left /\ left \in Nat
                BY <1>0, <1>1, <2>2, ReadOnRoom DEF RoomInv
            <4> QED BY <4>1
        <3> HIDE DEF more
        <3>4. Min({more, WordSize}) \in Nat
            BY <3>3, MinFact, I2cAssumption
        <3>5. {"rx", "ci"} \subseteq DOMAIN t.hw /\ t.hw.rx = <<>> /\ t.hw.ci \in Nat
            BY <1>a, <3>2, <3>4
        <3>6. t.flags.reading = flags.reading
              /\ t.flags \in [reading : BOOLEAN, address : BOOLEAN, stop : BOOLEAN, receiving : BOOLEAN]
            BY <1>a, <3>2
        <3>7. left' = left - ReadCount
            BY <1>0, <3>2 DEF more
        <3> QED BY <1>0, <2>2, <3>2, <3>5, <3>6, <3>7, NoneFact
    <2>3. CASE hw.irqd /\ ~flags.reading
        <3>1. t = Written
            BY <2>3
        <3> HIDE DEF t
        <3>2. CASE msg # <<>>
            <4>1. /\ t.left = left /\ t.buffer = buffer /\ t.flags = flags
                  /\ t.hw = [hw EXCEPT !.tx = First(msg, WordSize), !.irqd = FALSE]
                BY <3>1, <3>2 DEF Written
            <4>2. DOMAIN t.hw = DOMAIN hw /\ t.hw.rx = hw.rx /\ t.hw.ci = hw.ci
                BY <1>a, <4>1
            <4> QED BY <1>0, <1>a, <4>1, <4>2
        <3>3. CASE msg = <<>>
            <4>1. /\ t.left = left /\ t.buffer = buffer /\ t.flags = [flags EXCEPT !.stop = TRUE]
                  /\ t.hw = [hw EXCEPT !.bum = FALSE, !.ending = TRUE]
                BY <3>1, <3>3 DEF Written
            <4>2. DOMAIN t.hw = DOMAIN hw /\ t.hw.rx = hw.rx /\ t.hw.ci = hw.ci
                BY <1>a, <4>1
            <4>3. t.flags.reading = flags.reading
                  /\ t.flags \in [reading : BOOLEAN, address : BOOLEAN, stop : BOOLEAN, receiving : BOOLEAN]
                BY <1>a, <4>1
            <4> QED BY <1>0, <1>a, <4>1, <4>2, <4>3
        <3> QED BY <3>2, <3>3
    <2> QED BY <2>1, <2>2, <2>3
<1> HIDE DEF t
<1>3. /\ call'.op = call.op /\ call'.size = call.size /\ CallInv'
      /\ pc' \in {"read", "idle", "poll"} /\ (pc' = "read" => ~flags.reading)
      /\ HwInv'
    <2>1. CASE hw.irqe
        <3>1. transfer_stop(Complete(t))
            BY <1>0, <2>1
        <3>2. Returns(Complete(t))
            BY <3>1 DEF transfer_stop
        <3>3. HwInv'
            BY <1>0, <1>1, <3>1, StopHw
        <3> QED BY <1>1, <3>2, <3>3, ReturnsFact
    <2>2. CASE ~hw.irqe
        <3>1. hw' = t.hw /\ UNCHANGED <<pc, call, stuck>>
            BY <1>0, <2>2
        <3>2. HwInv'
            BY <1>0, <1>1, <1>2, <3>1 DEF HwInv, IsSeq
        <3> QED BY <1>0, <1>1, <3>1, <3>2 DEF CallInv
    <2> QED BY <2>1, <2>2
<1>4. FlagsInv'
    BY <1>2, <1>3 DEF FlagsInv
<1>5. RoomInv'
    <2>1. CASE left' = left /\ buffer' = buffer
        BY <1>1, <1>2, <1>3, <2>1, RoomFrame
    <2>2. CASE flags.reading /\ left' = left - ReadCount /\ buffer' = buffer \o First(hw.rx, ReadCount)
        <3>1. /\ ReadCount \in Nat /\ ReadCount <= left
              /\ IsSeq(First(hw.rx, ReadCount)) /\ Len(First(hw.rx, ReadCount)) = ReadCount
            BY <1>0, <2>2, ReadOnRoom
        <3>2. IsSeq(buffer') /\ Len(buffer') = Len(buffer) + ReadCount /\ Len(buffer) \in Nat /\ left \in Nat
            BY <1>1, <2>2, <3>1, SeqFact DEF RoomInv
        <3>3. left' \in Nat /\ Len(buffer') + left' = Len(buffer) + left
            BY <2>2, <3>1, <3>2
        <3> QED BY <1>1, <1>2, <1>3, <2>2, <3>2, <3>3 DEF RoomInv
    <2> QED BY <1>2, <2>1, <2>2
<1> QED BY <1>3, <1>4, <1>5 DEF DriverInv

\* The steps that store nothing.
LEMMA OtherRoom ==
    ASSUME DriverInv, ReadNothing \/ Fail1 \/ HandOver2 \/ Ended2 \/ Sample2 \/ Fail2,
           ~Fail1 /\ ~ReadNothing => chip = "v2"
    PROVE  DriverInv'
<1>1. CallInv /\ FlagsInv /\ HwInv /\ RoomInv
    BY DEF DriverInv
<1>2. UNCHANGED <<left, buffer, chip>>
    BY DEF ReadNothing, Fail1, HandOver2, Ended2, Sample2, Fail2, Keep
<1>3. /\ flags'.reading = flags.reading
      /\ flags' \in [reading : BOOLEAN, address : BOOLEAN, stop : BOOLEAN, receiving : BOOLEAN]
    <2>1. flags \in [reading : BOOLEAN, address : BOOLEAN, stop : BOOLEAN, receiving : BOOLEAN]
        BY <1>1 DEF FlagsInv
    <2>2. flags' = flags \/ \E b \in BOOLEAN : flags' = [flags EXCEPT !.receiving = b]
        <3>1. CASE Sample2
            <4>1. flags' = [flags EXCEPT !.receiving = @ \/ hw.rxOn]
                BY <3>1 DEF Sample2
            <4>2. (flags.receiving \/ hw.rxOn) \in BOOLEAN
                OBVIOUS
            <4> QED BY <4>1, <4>2
        <3>2. CASE ReadNothing \/ Fail1 \/ HandOver2 \/ Ended2 \/ Fail2
            BY <3>2 DEF ReadNothing, Fail1, HandOver2, Ended2, Fail2
        <3> QED BY <3>1, <3>2
    <2> QED BY <2>1, <2>2
<1>4. /\ CallInv' /\ call'.op = call.op /\ call'.size = call.size
      /\ pc' \in {"read", "idle", "request", "sample", "end", "act"}
      /\ pc' = "read" => ~flags.reading
      /\ pc' \in {"sample", "act"} => flags.reading
    <2>1. CASE \E ok : Returns(ok)
        BY <1>1, <2>1, ReturnsFact
    <2>2. CASE HandOver2
        BY <1>1, <2>2 DEF HandOver2, CallInv
    <2>3. CASE Sample2
        BY <1>1, <2>3 DEF Sample2, CallInv, FlagsInv
    <2>4. (\E ok : Returns(ok)) \/ HandOver2 \/ Sample2
        BY DEF ReadNothing, Fail1, Ended2, Fail2, transfer_stop
    <2> QED BY <2>1, <2>2, <2>3, <2>4
<1>5. FlagsInv'
    BY <1>3, <1>4 DEF FlagsInv
<1>6. RoomInv'
    BY <1>1, <1>2, <1>3, <1>4, RoomFrame
<1>7. HwInv'
    <2>1. CASE ReadNothing
        BY <1>1, <1>2, <2>1 DEF ReadNothing, HwInv, IsSeq
    <2>2. CASE Fail1
        <3>1. transfer_stop(FALSE) /\ chip = "v1"
            BY <2>2 DEF Fail1
        <3> QED BY <1>1, <1>2, <3>1, StopHw
    <2>3. CASE ~Fail1 /\ ~ReadNothing
        <3>1. chip' = "v2" /\ stuck' \in BOOLEAN
            BY <1>1, <1>2, <2>3 DEF HandOver2, Ended2, Sample2, Fail2, HwInv
        <3> QED BY <3>1 DEF HwInv
    <2> QED BY <2>1, <2>2, <2>3
<1> QED BY <1>4, <1>5, <1>6, <1>7 DEF DriverInv

\* The read loop of i2c-v2.c takes a word, or the rest of it.
LEMMA Act2Room == ASSUME DriverInv, Act2, chip = "v2" PROVE DriverInv'
<1>1. CallInv /\ FlagsInv /\ HwInv /\ RoomInv
    BY DEF DriverInv
<1>2. /\ pc = "act" /\ UNCHANGED <<chip, flags, stuck>>
      /\ buffer' = buffer \o Word2(Taken2) /\ left' = left - Taken2
      /\ \/ pc' = "sample" /\ UNCHANGED call
         \/ \E ok : Returns(ok)
    BY DEF Act2, Keep
<1>3. flags.reading /\ left \in Nat /\ IsSeq(buffer) /\ Len(buffer) \in Nat
    BY <1>1, <1>2, SeqFact DEF FlagsInv, RoomInv
<1>4. Taken2 \in Nat /\ Taken2 <= left
    BY <1>3, MinFact, I2cAssumption DEF Taken2
<1>5. IsSeq(Word2(Taken2)) /\ Len(Word2(Taken2)) = Taken2
    BY <1>4, WordFact
<1>6. IsSeq(buffer') /\ Len(buffer') = Len(buffer) + Taken2
    BY <1>2, <1>3, <1>5, SeqFact
<1>7. left' \in Nat /\ Len(buffer') + left' = Len(buffer) + left
    BY <1>2, <1>3, <1>4, <1>6
<1>8. /\ CallInv' /\ call'.op = call.op /\ call'.size = call.size
      /\ pc' \in {"sample", "idle"}
    <2>1. CASE \E ok : Returns(ok)
        BY <1>1, <1>3, <2>1, ReturnsFact
    <2>2. CASE pc' = "sample" /\ UNCHANGED call
        BY <1>1, <2>2 DEF CallInv
    <2> QED BY <1>2, <2>1, <2>2
<1>9. FlagsInv'
    BY <1>1, <1>2, <1>3, <1>8 DEF FlagsInv
<1>10. RoomInv'
    BY <1>1, <1>2, <1>3, <1>6, <1>7, <1>8 DEF RoomInv
<1>11. HwInv'
    BY <1>1, <1>2 DEF HwInv
<1> QED BY <1>8, <1>9, <1>10, <1>11 DEF DriverInv

\* The controller of the PMB8875 keeps its own counts.
LEMMA ControllerRoom == ASSUME DriverInv, Controller PROVE DriverInv'
<1>1. CallInv /\ FlagsInv /\ HwInv /\ RoomInv
    BY DEF DriverInv
<1>2. UNCHANGED <<chip, call, calls, pc, msg, left, buffer, flags, sample, stuck>>
    BY DEF Controller, driver
<1>3. CallInv' /\ FlagsInv'
    BY <1>1, <1>2 DEF CallInv, FlagsInv
<1>4. RoomInv'
    BY <1>1, <1>2, RoomFrame
<1>5. HwInv'
    <2>1. CASE chip = "v1"
        <3>1. {"rx", "ci"} \subseteq DOMAIN hw /\ IsSeq(hw.rx) /\ hw.ci \in Nat
            BY <1>1, <2>1 DEF HwInv
        <3>2. Hw1Send \/ Hw1Receive \/ Hw1Stop
            BY <2>1 DEF Controller
        <3>3. DOMAIN hw' = DOMAIN hw /\ hw'.ci = hw.ci
              /\ (hw'.rx = hw.rx \/ hw'.rx = Append(hw.rx, SlaveGives(slave)))
            <4>1. CASE Hw1Send
                <5>1. \/ hw' = [hw EXCEPT !.tx = Tail(@), !.irqd = Len(hw.tx) = 1, !.lrb = FALSE]
                      \/ hw' = [hw EXCEPT !.irqd = TRUE, !.lrb = TRUE]
                    BY <4>1 DEF Hw1Send
                <5> QED BY <3>1, <5>1
            <4>2. CASE Hw1Receive
                <5>1. \E full :
                        hw' = [hw EXCEPT !.rx = Append(@, SlaveGives(slave)), !.irqd = full,
                                         !.lrb = full /\ hw.stp, !.ending = full /\ hw.stp]
                    BY <4>2 DEF Hw1Receive
                <5> QED BY <3>1, <5>1
            <4>3. CASE Hw1Stop
                <5>1. hw' = [hw EXCEPT !.irqe = TRUE]
                    BY <4>3 DEF Hw1Stop
                <5> QED BY <3>1, <5>1
            <4> QED BY <3>2, <4>1, <4>2, <4>3
        <3>4. IsSeq(hw'.rx)
            BY <3>1, <3>3, SeqFact
        <3> QED BY <1>1, <1>2, <3>1, <3>3, <3>4 DEF HwInv, IsSeq
    <2>2. CASE chip # "v1"
        BY <1>1, <1>2, <2>2 DEF HwInv
    <2> QED BY <2>1, <2>2
<1> QED BY <1>3, <1>4, <1>5 DEF DriverInv

\* Each driver keeps to its own places.
LEMMA NextPlace == ASSUME PlaceInv, [Next]_vars PROVE PlaceInv'
<1>1. ASSUME NEW ok, Returns(ok) PROVE PlaceInv'
    BY <1>1 DEF Returns, PlaceInv
<1>2. CASE Caller
    BY <1>2 DEF Caller, i2c_smbus_write, i2c_smbus_read, i2c_read, Begins, PlaceInv
<1>3. CASE Controller \/ Hangs \/ UNCHANGED vars
    BY <1>3 DEF Controller, Hangs, vars, driver, PlaceInv
<1>4. CASE ReadNothing \/ Fail1 \/ Ended2 \/ Fail2
    BY <1>1, <1>4 DEF ReadNothing, Fail1, Ended2, Fail2, transfer_stop
<1>5. CASE StartWrite1 \/ StartRead1 \/ StartWrite2 \/ StartRead2
    BY <1>5 DEF StartWrite1, StartRead1, StartWrite2, StartRead2, Keep, PlaceInv
<1>6. CASE Poll1
    <2>1. (\E ok : Returns(ok)) \/ (pc = "poll" /\ pc' = pc)
        BY <1>6 DEF Poll1, transfer_stop
    <2> QED BY <1>1, <2>1 DEF PlaceInv
<1>7. CASE HandOver2 \/ Sample2
    BY <1>7 DEF HandOver2, Sample2, Keep, PlaceInv
<1>8. CASE Act2
    <2>1. (\E ok : Returns(ok)) \/ (pc = "act" /\ pc' = "sample" /\ UNCHANGED chip)
        BY <1>8 DEF Act2, Keep
    <2> QED BY <1>1, <2>1 DEF PlaceInv
<1> QED BY <1>2, <1>3, <1>4, <1>5, <1>6, <1>7, <1>8 DEF Next, Driver

\* A new program has made no call.
LEMMA InitDriver == Init => PlaceInv /\ DriverInv
<1> SUFFICES ASSUME Init PROVE PlaceInv /\ DriverInv
    OBVIOUS
<1>1. PlaceInv
    BY DEF Init, PlaceInv
<1>2. CallInv
    BY DEF Init, NoCall, CallInv
<1>3. FlagsInv
    BY DEF Init, NoFlags, FlagsInv
<1>4. HwInv
    <2>1. chip \in {"v1", "v2"} /\ stuck = FALSE /\ (chip = "v1" => hw = Idle1)
        BY DEF Init
    <2>2. {"rx", "ci"} \subseteq DOMAIN Idle1 /\ Idle1.rx = <<>> /\ Idle1.ci = 1
        BY DEF Idle1
    <2>3. chip = "v1" => {"rx", "ci"} \subseteq DOMAIN hw /\ hw.rx = <<>> /\ hw.ci = 1
        BY <2>1, <2>2
    <2>4. chip = "v1" => IsSeq(hw.rx) /\ hw.ci \in Nat
        BY <2>3, NoneFact
    <2> QED BY <2>1, <2>3, <2>4 DEF HwInv
<1>5. RoomInv
    <2>1. left = 0 /\ buffer = <<>> /\ call.size = 0
        BY DEF Init, NoCall
    <2> QED BY <2>1, NoneFact DEF RoomInv
<1> QED BY <1>1, <1>2, <1>3, <1>4, <1>5 DEF DriverInv

\* Every step keeps the invariant.
LEMMA NextDriver == PlaceInv /\ DriverInv /\ [Next]_vars => PlaceInv' /\ DriverInv'
<1> SUFFICES ASSUME PlaceInv, DriverInv, [Next]_vars PROVE DriverInv'
    BY NextPlace
<1>1. CASE Caller
    BY <1>1, BeginsRoom, I2cAssumption DEF Caller, i2c_smbus_write, i2c_smbus_read, i2c_read
<1>2. CASE Controller
    BY <1>2, ControllerRoom
<1>3. CASE Hangs \/ UNCHANGED vars
    <2>1. UNCHANGED <<chip, call, pc, left, buffer, flags, hw>> /\ stuck' \in {stuck, TRUE}
        BY <1>3 DEF Hangs, vars, driver
    <2>2. RoomInv'
        BY <2>1, RoomFrame DEF DriverInv
    <2> QED BY <2>1, <2>2 DEF DriverInv, CallInv, FlagsInv, HwInv, IsSeq
<1>4. CASE StartWrite1 \/ StartRead1 \/ StartWrite2 \/ StartRead2
    BY <1>4, StartRoom
<1>5. CASE Poll1
    BY <1>5, Poll1Room
<1>6. CASE Act2
    <2>1. chip = "v2"
        BY <1>6 DEF Act2, PlaceInv
    <2> QED BY <1>6, <2>1, Act2Room
<1>7. CASE ReadNothing \/ Fail1 \/ HandOver2 \/ Ended2 \/ Sample2 \/ Fail2
    <2>1. ~Fail1 /\ ~ReadNothing => chip = "v2"
        BY <1>7 DEF HandOver2, Ended2, Sample2, Fail2, PlaceInv
    <2> QED BY <1>7, <2>1, OtherRoom
<1> QED BY <1>1, <1>2, <1>3, <1>4, <1>5, <1>6, <1>7 DEF Next, Driver

\* No byte of a read is stored behind the end of the caller's buffer and `left` never
\* wraps, in either driver: for every size of a transfer and of a word, however the end of
\* a transfer, the data and the errors of the bus interleave with the polling.
THEOREM BufferIsKept == Spec => []InsideBuffer
<1>1. PlaceInv /\ DriverInv => InsideBuffer
    BY DEF DriverInv, RoomInv, InsideBuffer
<1>2. Init => PlaceInv /\ DriverInv
    BY InitDriver
<1>3. PlaceInv /\ DriverInv /\ [Next]_vars => PlaceInv' /\ DriverInv'
    BY NextDriver
<1> QED BY <1>1, <1>2, <1>3, PTL DEF Spec

-----------------------------------------------------------------------------
\* The inductive invariant of a transfer: which byte driver, controller and slave are at.

\* The register that stands for all behind the last one.
Others == Max(Registers) + 1

Fields1 == [tx : Seq(Int), rx : Seq(Int), ci : Nat, bum : BOOLEAN, receive : BOOLEAN,
            stp : BOOLEAN, ending : BOOLEAN, irqd : BOOLEAN, irqe : BOOLEAN, lrb : BOOLEAN]
Fields2 == [tx : Seq(Int), rx : Seq(Int), open : Nat, wait : Nat, rps : Nat, halted : BOOLEAN,
            request : BOOLEAN, nack : BOOLEAN, txEnd : BOOLEAN, rxOn : BOOLEAN]
Slaves == [ptr : 0 .. Others, fresh : BOOLEAN, regs : [0 .. Others -> Int]]

Places == {"idle", "write", "read"} \union
              IF chip = "v1" THEN {"poll"} ELSE {"request", "end", "sample", "act"}

DataInv ==
    /\ hw \in IF chip = "v1" THEN Fields1 ELSE Fields2
    /\ slave \in Slaves
    /\ pc \in Places
    /\ calls \in Nat /\ msg \in Seq(Int) /\ buffer \in Seq(Int)
    /\ call.reg \in 0 .. Others /\ call.size < Others
    /\ call.op # "read" => call.reg \in {0, 1}

\* The controller between two transfers.
Quiet ==
    /\ hw.tx = <<>> /\ hw.rx = <<>>
    /\ IF chip = "v1"
       THEN ~hw.bum /\ ~hw.receive /\ ~hw.stp /\ ~hw.ending /\ ~hw.irqd /\ ~hw.irqe
       ELSE hw.open = 0 /\ hw.wait = 0 /\ ~hw.rxOn
RestInv == pc \in {"idle", "write", "read"} => Quiet

\* The bytes of a write: the address, the register, the data.
Stream(j) == IF j = 1 THEN AddressW ELSE IF j = 2 THEN call.reg ELSE Value(calls, j - 2)
Total == IF call.op = "write" THEN call.size + 2 ELSE 2
Spells(s, n) == \A i \in 1 .. Len(s) : s[i] = Stream(n + i)

\* The slave has taken k bytes of a write.
SlaveAt(k) ==
    /\ k >= 1 => (slave.fresh <=> k = 1)
    /\ k >= 2 => /\ slave.ptr = call.reg + (k - 2)
                 /\ \A i \in 1 .. k - 2 : slave.regs[call.reg + i - 1] = Value(calls, i)

\* The write that is to begin.
WriteInv ==
    pc = "write" => /\ call.op \in {"write", "smread"}
                    /\ Len(msg) = Total - 1 /\ Spells(msg, 1)

\* What the slave has not taken is in the buffer or FIFO, and behind it with the driver.
OnItsWay(k) ==
    /\ k + Len(hw.tx) + Len(msg) = Total
    /\ Spells(hw.tx, k) /\ Spells(msg, k + Len(hw.tx))
    /\ SlaveAt(k)
Sending1 ==
    /\ ~hw.receive /\ hw.rx = <<>>
    /\ hw.irqd /\ hw.tx # <<>> => hw.lrb
    /\ flags.stop \/ hw.irqe => hw.ending
    /\ hw.ending => hw.tx = <<>> /\ msg = <<>>
Sending2 ==
    /\ hw.open = Len(msg) /\ hw.wait = 0 /\ ~hw.rxOn /\ hw.rx = <<>>
    /\ hw.txEnd => hw.tx = <<>> /\ msg = <<>>
    /\ pc = "end" => msg = <<>>
SendInv ==
    /\ pc = "end" => ~flags.reading
    /\ pc \in {"poll", "request", "end"} /\ ~flags.reading =>
           /\ call.op \in {"write", "smread"}
           /\ \E k \in Nat : OnItsWay(k)
           /\ IF chip = "v1" THEN Sending1 ELSE Sending2

\* The read that is to begin.
ReadInv ==
    pc = "read" => call.op \in {"smread", "read"} /\ slave.ptr = call.reg /\ msg = <<>>

\* What the slave has given is in the caller's buffer, and behind it in the controller's.
Got ==
    /\ slave.ptr = Clip(call.reg + Len(buffer) + Len(hw.rx))
    /\ \A i \in 1 .. Len(buffer) : buffer[i] = slave.regs[Clip(call.reg + i - 1)]
    /\ \A i \in 1 .. Len(hw.rx) : hw.rx[i] = slave.regs[Clip(call.reg + Len(buffer) + i - 1)]
Addressing1 ==
    /\ buffer = <<>> /\ hw.rx = <<>> /\ hw.tx \in {<<>>, <<AddressR>>}
    /\ ~hw.receive /\ ~hw.stp /\ ~hw.ending /\ ~hw.irqe
    /\ hw.irqd /\ hw.tx # <<>> => hw.lrb
    /\ ~flags.stop
Receiving1 ==
    /\ hw.tx = <<>>
    /\ left # 0 => /\ hw.ci = Min({left, WordSize}) /\ Len(hw.rx) <= hw.ci
                   /\ hw.irqd <=> Len(hw.rx) = hw.ci
                   /\ hw.stp <=> left <= WordSize
                   /\ hw.ending <=> hw.irqd /\ hw.stp
    /\ left = 0 => hw.ending /\ hw.rx = <<>> /\ ~hw.irqd
    /\ hw.irqe => hw.ending
Receiving2 ==
    /\ hw.open = Len(msg) /\ left = Len(hw.rx) + hw.wait
    /\ hw.rps = Len(buffer) + Len(hw.rx)
    /\ msg = <<>> \/ (pc = "request" /\ msg = <<AddressR>>)
    /\ pc = "request" => msg # <<>> /\ hw.tx = <<>> /\ hw.rx = <<>> /\ ~hw.rxOn /\ left = call.size
    /\ hw.tx # <<>> => hw.tx = <<AddressR>> /\ ~hw.rxOn /\ hw.rx = <<>> /\ left = call.size
    /\ pc # "request" /\ hw.request => Len(hw.rx) >= Min({left, WordSize})
ReceiveInv ==
    flags.reading /\ pc \in {"poll", "request", "sample", "act"} =>
        /\ call.op \in {"smread", "read"} /\ call.size > 0
        /\ Len(buffer) + left = call.size /\ Got
        /\ IF chip = "v1" THEN msg = <<>> /\ IF flags.address THEN Receiving1 ELSE Addressing1
                          ELSE Receiving2

TransferInv ==
    /\ DataInv /\ RestInv /\ TrueMeansDone
    /\ WriteInv /\ SendInv /\ ReadInv /\ ReceiveInv

-----------------------------------------------------------------------------
\* Registers and sequences.

\* The registers one by one.
LEMMA RegistersFact ==
    /\ Others \in Nat /\ Others >= 1
    /\ \A n \in Sizes : n \in Nat /\ n < Others
    /\ Registers \union {Max(Registers) + 1} = 0 .. Others
<1> DEFINE S == Sizes \union {0}
           m == Max(S)
<1>1. \E x \in S : \A y \in S : x >= y
    <2>1. PICK x \in S : \A n \in Sizes : n <= x
        BY I2cAssumption
    <2>2. x \in Nat /\ 0 <= x /\ \A n \in Sizes : n \in Nat
        BY I2cAssumption
    <2>3. \A y \in S : x >= y
        BY <2>1, <2>2
    <2> QED BY <2>3
<1>2. m \in S /\ \A y \in S : m >= y
    BY <1>1 DEF Max
<1>3. m \in Nat /\ \A n \in Sizes : n \in Nat /\ n <= m
    <2>1. S \subseteq Nat /\ Sizes \subseteq S
        BY I2cAssumption
    <2> HIDE DEF m, S
    <2> QED BY <1>2, <2>1
<1>4. Registers = 0 .. m
    BY DEF Registers
<1> HIDE DEF m, S
<1>5. m \in 0 .. m /\ \A y \in 0 .. m : m >= y
    BY <1>3
<1>6. Max(0 .. m) \in 0 .. m /\ \A y \in 0 .. m : Max(0 .. m) >= y
    BY <1>5 DEF Max
<1>7. Max(0 .. m) = m
    BY <1>3, <1>5, <1>6
<1>8. Others = m + 1
    BY <1>4, <1>7 DEF Others
<1>9. Registers \union {Max(Registers) + 1} = 0 .. Others
    BY <1>3, <1>4, <1>7, <1>8
<1> QED BY <1>3, <1>8, <1>9

\* Clip keeps what is a register, and counts on as the slave's pointer does.
LEMMA ClipFact ==
    ASSUME NEW r \in Nat
    PROVE  /\ Clip(r) \in 0 .. Others /\ Clip(r) \in Nat
           /\ r <= Others => Clip(r) = r
           /\ r >= Others => Clip(r) = Others
           /\ Clip(Clip(r) + 1) = Clip(r + 1)
<1>1. Others \in Nat
    BY RegistersFact
<1>2. ASSUME NEW a \in Nat
      PROVE  Clip(a) = IF a <= Others THEN a ELSE Others
    <2>1. \E x \in {a, Others} : \A y \in {a, Others} : x =< y
        BY <1>1
    <2>2. Min({a, Others}) \in {a, Others} /\ \A y \in {a, Others} : Min({a, Others}) =< y
        BY <2>1 DEF Min
    <2>3. Clip(a) = Min({a, Others})
        BY DEF Clip, Others
    <2> QED BY <1>1, <2>2, <2>3
<1>3. Clip(r) \in Nat /\ r + 1 \in Nat /\ Clip(r) + 1 \in Nat
    BY <1>1, <1>2
<1>4. /\ Clip(r) = IF r <= Others THEN r ELSE Others
      /\ Clip(r + 1) = IF r + 1 <= Others THEN r + 1 ELSE Others
      /\ Clip(Clip(r) + 1) = IF Clip(r) + 1 <= Others THEN Clip(r) + 1 ELSE Others
    BY <1>2, <1>3
<1> QED BY <1>1, <1>3, <1>4

\* Sequences of bytes, and the one without any.
LEMMA EmptyFact ==
    /\ <<>> \in Seq(Int) /\ Len(<<>>) = 0
    /\ \A s \in Seq(Int) : Len(s) \in Nat /\ (Len(s) = 0 <=> s = <<>>)
    /\ \A n : Spells(<<>>, n)
<1>1. <<>> \in Seq(Int) /\ Len(<<>>) = 0 /\ \A s \in Seq(Int) : Len(s) \in Nat /\ (Len(s) = 0 <=> s = <<>>)
    BY EmptySeq
<1> QED BY <1>1 DEF Spells

\* The head and the rest of a sequence.
LEMMA TailFact ==
    ASSUME NEW s \in Seq(Int), s # <<>>
    PROVE  /\ Len(s) \in Nat /\ Len(s) >= 1 /\ Head(s) = s[1] /\ s[1] \in Int
           /\ Tail(s) \in Seq(Int) /\ Len(Tail(s)) = Len(s) - 1
           /\ \A i \in 1 .. Len(s) - 1 : Tail(s)[i] = s[i + 1]
<1>1. Len(s) \in Nat /\ Len(s) >= 1
    BY EmptySeq
<1>2. Head(s) = s[1] /\ s[1] \in Int
    BY <1>1, ElementOfSeq
<1>3. Tail(s) \in Seq(Int) /\ Len(Tail(s)) = Len(s) - 1 /\ \A i \in 1 .. Len(s) - 1 : Tail(s)[i] = s[i + 1]
    BY <1>1, HeadTailProperties
<1> QED BY <1>1, <1>2, <1>3

\* A sequence with a byte more.
LEMMA AppendFact ==
    ASSUME NEW s \in Seq(Int), NEW e \in Int
    PROVE  /\ Append(s, e) \in Seq(Int) /\ Len(s) \in Nat /\ Len(Append(s, e)) = Len(s) + 1
           /\ \A i \in 1 .. Len(s) : Append(s, e)[i] = s[i]
           /\ Append(s, e)[Len(s) + 1] = e
OBVIOUS

\* Two sequences, one behind the other.
LEMMA JoinFact ==
    ASSUME NEW s \in Seq(Int), NEW t \in Seq(Int)
    PROVE  /\ s \o t \in Seq(Int) /\ Len(s) \in Nat /\ Len(t) \in Nat /\ Len(s \o t) = Len(s) + Len(t)
           /\ \A i \in 1 .. Len(s) : (s \o t)[i] = s[i]
           /\ \A i \in 1 .. Len(t) : (s \o t)[Len(s) + i] = t[i]
<1>1. /\ s \o t \in Seq(Int) /\ Len(s \o t) = Len(s) + Len(t) /\ Len(s) \in Nat /\ Len(t) \in Nat
      /\ \A i \in 1 .. Len(s) + Len(t) : (s \o t)[i] = IF i <= Len(s) THEN s[i] ELSE t[i - Len(s)]
    BY ConcatProperties, LenProperties
<1>2. ASSUME NEW i \in 1 .. Len(s) PROVE (s \o t)[i] = s[i]
    <2>1. i \in 1 .. Len(s) + Len(t) /\ i <= Len(s)
        BY <1>1
    <2> QED BY <1>1, <2>1
<1>3. ASSUME NEW i \in 1 .. Len(t) PROVE (s \o t)[Len(s) + i] = t[i]
    <2>1. Len(s) + i \in 1 .. Len(s) + Len(t) /\ ~(Len(s) + i <= Len(s)) /\ Len(s) + i - Len(s) = i
        BY <1>1
    <2> QED BY <1>1, <2>1
<1> QED BY <1>1, <1>2, <1>3

\* The first n bytes, or all, and the ones behind them.
LEMMA CutFact ==
    ASSUME NEW s \in Seq(Int), NEW n \in Nat
    PROVE  /\ First(s, n) \in Seq(Int) /\ Rest(s, n) \in Seq(Int) /\ Len(s) \in Nat
           /\ Len(First(s, n)) \in Nat /\ Len(Rest(s, n)) \in Nat
           /\ Len(First(s, n)) + Len(Rest(s, n)) = Len(s)
           /\ Len(First(s, n)) = IF n <= Len(s) THEN n ELSE Len(s)
           /\ \A i \in 1 .. Len(First(s, n)) : First(s, n)[i] = s[i]
           /\ \A i \in 1 .. Len(Rest(s, n)) : Rest(s, n)[i] = s[Len(First(s, n)) + i]
<1>1. Len(s) \in Nat
    BY LenProperties
<1> DEFINE m == IF n <= Len(s) THEN n ELSE Len(s)
<1>2. Min({n, Len(s)}) = m
    <2>1. \E x \in {n, Len(s)} : \A y \in {n, Len(s)} : x =< y
        BY <1>1
    <2>2. Min({n, Len(s)}) \in {n, Len(s)} /\ \A y \in {n, Len(s)} : Min({n, Len(s)}) =< y
        BY <2>1 DEF Min
    <2> QED BY <1>1, <2>2
<1>3. m \in Nat /\ m <= Len(s) /\ m <= n
    BY <1>1
<1>4. First(s, n) = SubSeq(s, 1, m)
    BY <1>2 DEF First
<1>5. /\ SubSeq(s, 1, m) \in Seq(Int) /\ Len(SubSeq(s, 1, m)) = m
      /\ \A i \in 1 .. m : SubSeq(s, 1, m)[i] = s[i]
    <2> HIDE DEF m
    <2> QED BY <1>1, <1>3
<1>6. /\ Rest(s, n) \in Seq(Int) /\ Len(Rest(s, n)) = Len(s) - m
      /\ \A i \in 1 .. Len(s) - m : Rest(s, n)[i] = s[m + i]
    <2>1. CASE n <= Len(s)
        <3>1. /\ SubSeq(s, n + 1, Len(s)) \in Seq(Int) /\ Len(SubSeq(s, n + 1, Len(s))) = Len(s) - n
              /\ \A i \in 1 .. Len(s) - n : SubSeq(s, n + 1, Len(s))[i] = s[n + i]
            BY <1>1, <2>1
        <3>2. m = n
            BY <2>1
        <3> HIDE DEF m
        <3> QED BY <3>1, <3>2 DEF Rest
    <2>2. CASE n > Len(s)
        <3>1. SubSeq(s, n + 1, Len(s)) = <<>>
            BY <1>1, <2>2, SubSeqProperties
        <3>2. m = Len(s)
            BY <1>1, <2>2
        <3>3. Len(Rest(s, n)) = 0 /\ Rest(s, n) \in Seq(Int) /\ Len(s) - m = 0
            BY <1>1, <3>1, <3>2, EmptyFact DEF Rest
        <3> HIDE DEF m
        <3> QED BY <3>3
    <2> QED BY <1>1, <2>1, <2>2
<1>7. Len(First(s, n)) = m
    BY <1>4, <1>5
<1> HIDE DEF m
<1>8. /\ First(s, n) \in Seq(Int) /\ \A i \in 1 .. Len(First(s, n)) : First(s, n)[i] = s[i]
    BY <1>4, <1>5, <1>7
<1>9. \A i \in 1 .. Len(Rest(s, n)) : Rest(s, n)[i] = s[Len(First(s, n)) + i]
    BY <1>6, <1>7
<1>10. Len(First(s, n)) + Len(Rest(s, n)) = Len(s) /\ Len(First(s, n)) \in Nat /\ Len(Rest(s, n)) \in Nat
    BY <1>1, <1>3, <1>6, <1>7
<1>11. Len(First(s, n)) = IF n <= Len(s) THEN n ELSE Len(s)
    BY <1>7 DEF m
<1> QED BY <1>1, <1>6, <1>8, <1>9, <1>10, <1>11

\* A byte goes from the one to the other.
LEMMA SumFact == \A a, b \in Nat : a + 1 \in Nat /\ a + 1 + (b - 1) = a + b
OBVIOUS

-----------------------------------------------------------------------------
\* The bytes of a write, and what the slave makes of them.

\* The address is not taken for data, nor data for an address.
LEMMA StreamFact ==
    ASSUME call.reg \in {0, 1}, calls \in Nat, NEW j \in Nat, j >= 1
    PROVE  Stream(j) \in Int /\ Stream(j) # AddressR /\ (Stream(j) = AddressW <=> j = 1)
BY DEF Stream, Value, AddressR, AddressW

\* The first byte of a stream.
LEMMA SpellsTail ==
    ASSUME NEW s \in Seq(Int), s # <<>>, NEW n \in Nat, Spells(s, n)
    PROVE  Head(s) = Stream(n + 1) /\ Spells(Tail(s), n + 1)
<1>1. /\ Len(s) \in Nat /\ Len(s) >= 1 /\ Head(s) = s[1] /\ Len(Tail(s)) = Len(s) - 1
      /\ \A i \in 1 .. Len(s) - 1 : Tail(s)[i] = s[i + 1]
    BY TailFact
<1>2. Head(s) = Stream(n + 1)
    BY <1>1 DEF Spells
<1>3. ASSUME NEW i \in 1 .. Len(Tail(s)) PROVE Tail(s)[i] = Stream(n + 1 + i)
    <2>1. i \in 1 .. Len(s) - 1 /\ i + 1 \in 1 .. Len(s) /\ n + (i + 1) = n + 1 + i
        BY <1>1
    <2>2. s[i + 1] = Stream(n + (i + 1))
        BY <2>1 DEF Spells
    <2> QED BY <1>1, <2>1, <2>2
<1> QED BY <1>2, <1>3 DEF Spells

\* A stream cut in two.
LEMMA SpellsCut ==
    ASSUME NEW s \in Seq(Int), NEW n \in Nat, NEW m \in Nat, Spells(s, n)
    PROVE  Spells(First(s, m), n) /\ Spells(Rest(s, m), n + Len(First(s, m)))
<1>1. /\ Len(s) \in Nat /\ Len(First(s, m)) \in Nat /\ Len(Rest(s, m)) \in Nat
      /\ Len(First(s, m)) + Len(Rest(s, m)) = Len(s)
      /\ \A i \in 1 .. Len(First(s, m)) : First(s, m)[i] = s[i]
      /\ \A i \in 1 .. Len(Rest(s, m)) : Rest(s, m)[i] = s[Len(First(s, m)) + i]
    BY CutFact
<1>2. ASSUME NEW i \in 1 .. Len(First(s, m)) PROVE First(s, m)[i] = Stream(n + i)
    <2>1. i \in 1 .. Len(s)
        BY <1>1
    <2> QED BY <1>1, <2>1 DEF Spells
<1>3. ASSUME NEW i \in 1 .. Len(Rest(s, m)) PROVE Rest(s, m)[i] = Stream(n + Len(First(s, m)) + i)
    <2>1. Len(First(s, m)) + i \in 1 .. Len(s) /\ n + (Len(First(s, m)) + i) = n + Len(First(s, m)) + i
        BY <1>1
    <2>2. s[Len(First(s, m)) + i] = Stream(n + (Len(First(s, m)) + i))
        BY <2>1 DEF Spells
    <2> QED BY <1>1, <2>1, <2>2
<1> QED BY <1>2, <1>3 DEF Spells

\* A stream put together.
LEMMA SpellsJoin ==
    ASSUME NEW s \in Seq(Int), NEW t \in Seq(Int), NEW n \in Nat, Spells(s, n), Spells(t, n + Len(s))
    PROVE  Spells(s \o t, n)
<1>1. /\ Len(s) \in Nat /\ Len(t) \in Nat /\ Len(s \o t) = Len(s) + Len(t)
      /\ \A i \in 1 .. Len(s) : (s \o t)[i] = s[i]
      /\ \A i \in 1 .. Len(t) : (s \o t)[Len(s) + i] = t[i]
    BY JoinFact
<1>2. ASSUME NEW i \in 1 .. Len(s \o t) PROVE (s \o t)[i] = Stream(n + i)
    <2>1. CASE i <= Len(s)
        <3>1. i \in 1 .. Len(s)
            BY <1>1, <2>1
        <3> QED BY <1>1, <3>1 DEF Spells
    <2>2. CASE i > Len(s)
        <3> DEFINE j == i - Len(s)
        <3>1. j \in 1 .. Len(t) /\ i = Len(s) + j /\ n + Len(s) + j = n + i
            BY <1>1, <2>2
        <3> HIDE DEF j
        <3>2. t[j] = Stream(n + Len(s) + j)
            BY <3>1 DEF Spells
        <3>3. (s \o t)[Len(s) + j] = t[j]
            BY <1>1, <3>1
        <3> QED BY <3>1, <3>2, <3>3
    <2> QED BY <1>1, <2>1, <2>2
<1> QED BY <1>2 DEF Spells

\* What was spelled is, while the call is the same.
LEMMA SpellsFrame ==
    ASSUME call'.reg = call.reg, calls' = calls
    PROVE  \A s, n : Spells(s, n) => Spells(s, n)'
BY DEF Spells, Stream, Value

\* The slave is where it was.
LEMMA SlaveFrame ==
    ASSUME call'.reg = call.reg, calls' = calls, slave' = slave, NEW k, SlaveAt(k)
    PROVE  SlaveAt(k)'
BY DEF SlaveAt, Value

\* The slave takes the next byte of a write.
LEMMA TakeKeeps ==
    ASSUME slave \in Slaves, call.reg \in {0, 1}, calls \in Nat,
           call.size \in Nat, call.size < Others,
           NEW k \in Nat, k < Total, SlaveAt(k),
           slave' = SlaveTakes(slave, Stream(k + 1)), UNCHANGED <<call, calls>>
    PROVE  slave' \in Slaves /\ SlaveAt(k + 1)'
<1>0. Others \in Nat /\ Others >= 1 /\ k + 1 \in Nat /\ k + 1 >= 1
    BY RegistersFact
<1>1. Stream(k + 1) \in Int /\ Stream(k + 1) # AddressR /\ (Stream(k + 1) = AddressW <=> k + 1 = 1)
    BY <1>0, StreamFact
<1>2. CASE k = 0
    <2>1. slave' = [slave EXCEPT !.fresh = TRUE]
        BY <1>1, <1>2 DEF SlaveTakes
    <2>2. slave' \in Slaves /\ slave'.fresh
        BY <2>1 DEF Slaves
    <2> QED BY <1>2, <2>2 DEF SlaveAt
<1>3. CASE k = 1
    <2>1. slave.fresh
        BY <1>3 DEF SlaveAt
    <2>2. Stream(k + 1) = call.reg
        BY <1>3 DEF Stream
    <2>3. slave' = [slave EXCEPT !.fresh = FALSE, !.ptr = call.reg]
        <3>1. Stream(k + 1) # AddressW
            BY <1>1, <1>3
        <3>2. SlaveTakes(slave, Stream(k + 1)) = [slave EXCEPT !.fresh = FALSE, !.ptr = Stream(k + 1)]
            BY <1>1, <2>1, <3>1 DEF SlaveTakes
        <3> QED BY <2>2, <3>2
    <2>4. slave' \in Slaves /\ ~slave'.fresh /\ slave'.ptr = call.reg
        <3>1. call.reg \in 0 .. Others
            BY <1>0
        <3> QED BY <2>3, <3>1 DEF Slaves
    <2>5. k + 1 = 2 /\ call'.reg = call.reg + (2 - 2) /\ call.reg \in Nat
        BY <1>3
    <2>6. SlaveAt(2)'
        BY <2>4, <2>5 DEF SlaveAt
    <2> QED BY <2>4, <2>5, <2>6
<1>4. CASE k >= 2
    <2>1. /\ ~slave.fresh /\ slave.ptr = call.reg + (k - 2)
          /\ \A i \in 1 .. k - 2 : slave.regs[call.reg + i - 1] = Value(calls, i)
        BY <1>4 DEF SlaveAt
    <2>2. Stream(k + 1) = Value(calls, k - 1)
        <3>1. k + 1 # 1 /\ k + 1 # 2 /\ k + 1 - 2 = k - 1
            BY <1>4
        <3> QED BY <3>1 DEF Stream
    <2>3. slave' = [slave EXCEPT !.regs[slave.ptr] = Value(calls, k - 1), !.ptr = Clip(slave.ptr + 1)]
        <3>1. Stream(k + 1) # AddressW
            BY <1>1, <1>4
        <3>2. SlaveTakes(slave, Stream(k + 1)) =
                  [slave EXCEPT !.regs[slave.ptr] = Stream(k + 1), !.ptr = Clip(slave.ptr + 1)]
            BY <1>1, <2>1, <3>1 DEF SlaveTakes
        <3> QED BY <2>2, <3>2
    <2>4. call.op = "write" /\ k - 2 < call.size /\ k - 2 \in Nat /\ call.reg \in Nat
        BY <1>4 DEF Total
    <2>5. slave.ptr \in Nat /\ slave.ptr < Others /\ slave.ptr + 1 = call.reg + (k + 1 - 2)
        BY <1>0, <2>1, <2>4
    <2>6. Clip(slave.ptr + 1) = slave.ptr + 1 /\ slave.ptr + 1 \in 0 .. Others
        <3>1. slave.ptr + 1 \in Nat /\ slave.ptr + 1 <= Others
            BY <1>0, <2>5
        <3> QED BY <1>0, <3>1, ClipFact
    <2>7. Value(calls, k - 1) \in Int /\ slave.ptr \in 0 .. Others
        BY <1>0, <1>4, <2>5 DEF Value
    <2>8. /\ slave' \in Slaves /\ slave'.ptr = slave.ptr + 1 /\ ~slave'.fresh
          /\ slave'.regs = [slave.regs EXCEPT ![slave.ptr] = Value(calls, k - 1)]
          /\ slave.regs \in [0 .. Others -> Int]
        <3> DEFINE v == Value(calls, k - 1)
                   q == slave.ptr + 1
                   r == [slave.regs EXCEPT ![slave.ptr] = v]
        <3>1. slave' = [slave EXCEPT !.regs = r, !.ptr = q]
            BY <2>3, <2>6
        <3>2. v \in Int /\ q \in 0 .. Others
            BY <2>6, <2>7
        <3>3. slave.regs \in [0 .. Others -> Int]
            BY DEF Slaves
        <3> HIDE DEF v, q
        <3>4. r \in [0 .. Others -> Int]
            BY <3>2, <3>3
        <3> HIDE DEF r
        <3>5. slave' \in Slaves /\ slave'.ptr = q /\ slave'.fresh = slave.fresh /\ slave'.regs = r
            BY <3>1, <3>2, <3>4 DEF Slaves
        <3> QED BY <2>1, <3>3, <3>5 DEF v, q, r
    <2>9. ASSUME NEW i \in 1 .. k + 1 - 2 PROVE slave'.regs[call.reg + i - 1] = Value(calls, i)
        <3>1. CASE i = k - 1
            <4>1. call.reg + i - 1 = slave.ptr
                BY <2>1, <2>4, <3>1
            <4> QED BY <2>7, <2>8, <3>1, <4>1
        <3>2. CASE i # k - 1
            <4>1. i \in 1 .. k - 2 /\ call.reg + i - 1 # slave.ptr /\ call.reg + i - 1 \in 0 .. Others
                BY <1>0, <2>1, <2>4, <2>5, <3>2
            <4> QED BY <2>1, <2>8, <4>1
        <3> QED BY <3>1, <3>2
    <2>10. SlaveAt(k + 1)'
        <3>1. /\ ~slave'.fresh /\ k + 1 # 1 /\ slave'.ptr = call'.reg + (k + 1 - 2)
              /\ \A i \in 1 .. k + 1 - 2 : slave'.regs[call'.reg + i - 1] = Value(calls', i)
            BY <1>4, <2>5, <2>8, <2>9
        <3> QED BY <3>1 DEF SlaveAt, Value
    <2> QED BY <2>8, <2>10
<1> QED BY <1>2, <1>3, <1>4

-----------------------------------------------------------------------------
\* The bytes of a read.

\* The slave gives the next byte.
LEMMA GiveKeeps ==
    ASSUME slave \in Slaves, call.reg \in 0 .. Others, buffer \in Seq(Int), hw.rx \in Seq(Int), Got,
           slave' = SlaveGave(slave), hw'.rx = Append(hw.rx, SlaveGives(slave)), UNCHANGED <<call, buffer>>
    PROVE  slave' \in Slaves /\ hw'.rx \in Seq(Int) /\ Len(hw'.rx) = Len(hw.rx) + 1 /\ Got'
<1> DEFINE r == call.reg + Len(buffer) + Len(hw.rx)
<1>1. Others \in Nat /\ Len(buffer) \in Nat /\ Len(hw.rx) \in Nat /\ call.reg \in Nat /\ r \in Nat
    BY RegistersFact, EmptyFact
<1>2. slave.ptr = Clip(r) /\ Clip(r) \in 0 .. Others /\ Clip(Clip(r) + 1) = Clip(r + 1) /\ Clip(r + 1) \in 0 .. Others
    <2>1. r + 1 \in Nat
        BY <1>1
    <2>2. slave.ptr = Clip(r)
        BY DEF Got
    <2> HIDE DEF r
    <2> QED BY <1>1, <2>1, <2>2, ClipFact
<1>3. SlaveGives(slave) = slave.regs[Clip(r)] /\ SlaveGives(slave) \in Int
    BY <1>2 DEF SlaveGives, Slaves
<1>4. slave' \in Slaves /\ slave'.ptr = Clip(r + 1) /\ slave'.regs = slave.regs
    <2>1. slave' = [slave EXCEPT !.ptr = Clip(r + 1)]
        BY <1>2 DEF SlaveGave
    <2> HIDE DEF r
    <2> QED BY <1>2, <2>1 DEF Slaves
<1>5. /\ hw'.rx \in Seq(Int) /\ Len(hw'.rx) = Len(hw.rx) + 1
      /\ \A i \in 1 .. Len(hw.rx) : hw'.rx[i] = hw.rx[i]
      /\ hw'.rx[Len(hw.rx) + 1] = SlaveGives(slave)
    BY <1>3, AppendFact
<1>6. slave'.ptr = Clip(call'.reg + Len(buffer') + Len(hw'.rx))
    <2>1. call'.reg + Len(buffer') + Len(hw'.rx) = call.reg + Len(buffer) + (Len(hw.rx) + 1)
        BY <1>5
    <2>2. call.reg + Len(buffer) + (Len(hw.rx) + 1) = r + 1
        <3>1. \A a, b, c \in Nat : a + b + (c + 1) = a + b + c + 1
            OBVIOUS
        <3> QED BY <1>1, <3>1
    <2> QED BY <1>4, <2>1, <2>2
<1>7. ASSUME NEW i \in 1 .. Len(hw'.rx)
      PROVE  hw'.rx[i] = slave'.regs[Clip(call'.reg + Len(buffer') + i - 1)]
    <2>1. CASE i <= Len(hw.rx)
        <3>1. i \in 1 .. Len(hw.rx)
            BY <1>1, <2>1
        <3> QED BY <1>4, <1>5, <3>1 DEF Got
    <2>2. CASE i > Len(hw.rx)
        <3>1. i \in 1 .. Len(hw.rx) + 1
            BY <1>5
        <3>2. i = Len(hw.rx) + 1
            BY <1>1, <2>2, <3>1
        <3>3. call'.reg + Len(buffer') + i - 1 = call.reg + Len(buffer) + (Len(hw.rx) + 1) - 1
            BY <3>2
        <3>4. call.reg + Len(buffer) + (Len(hw.rx) + 1) - 1 = r
            BY <1>1
        <3> QED BY <1>3, <1>4, <1>5, <3>2, <3>3, <3>4
    <2> QED BY <1>1, <2>1, <2>2
<1>8. \A i \in 1 .. Len(buffer') : buffer'[i] = slave'.regs[Clip(call'.reg + i - 1)]
    BY <1>4 DEF Got
<1>9. Got'
    BY <1>6, <1>7, <1>8 DEF Got, Clip
<1> QED BY <1>4, <1>5, <1>9

\* Nothing is given or taken.
LEMMA GotFrame ==
    ASSUME Got, UNCHANGED <<slave, buffer>>, call'.reg = call.reg, hw'.rx = hw.rx
    PROVE  Got'
BY DEF Got, Clip

\* Bytes go from the controller's buffer to the caller's.
LEMMA MoveKeeps ==
    ASSUME buffer \in Seq(Int), hw.rx \in Seq(Int), call.reg \in 0 .. Others, Got,
           NEW w \in Seq(Int), NEW r \in Seq(Int), Len(w) + Len(r) = Len(hw.rx),
           \A i \in 1 .. Len(w) : w[i] = hw.rx[i],
           \A i \in 1 .. Len(r) : r[i] = hw.rx[Len(w) + i],
           buffer' = buffer \o w, hw'.rx = r, slave' = slave, call'.reg = call.reg
    PROVE  buffer' \in Seq(Int) /\ Len(buffer') = Len(buffer) + Len(w) /\ Got'
<1>1. /\ Len(buffer) \in Nat /\ Len(w) \in Nat /\ Len(r) \in Nat /\ Len(hw.rx) \in Nat
      /\ call.reg \in Nat
    BY EmptyFact, RegistersFact
<1>2. /\ buffer' \in Seq(Int) /\ Len(buffer') = Len(buffer) + Len(w)
      /\ \A i \in 1 .. Len(buffer) : buffer'[i] = buffer[i]
      /\ \A i \in 1 .. Len(w) : buffer'[Len(buffer) + i] = w[i]
    BY JoinFact
<1>3. slave'.ptr = Clip(call'.reg + Len(buffer') + Len(hw'.rx))
    <2>1. call'.reg + Len(buffer') + Len(hw'.rx) = call.reg + Len(buffer) + Len(hw.rx)
        BY <1>1, <1>2
    <2> QED BY <2>1 DEF Got
<1>4. ASSUME NEW i \in 1 .. Len(buffer')
      PROVE  buffer'[i] = slave'.regs[Clip(call'.reg + i - 1)]
    <2>1. CASE i <= Len(buffer)
        <3>1. i \in 1 .. Len(buffer)
            BY <1>1, <2>1
        <3> QED BY <1>2, <3>1 DEF Got
    <2>2. CASE i > Len(buffer)
        <3> DEFINE j == i - Len(buffer)
        <3>0. i \in 1 .. Len(buffer) + Len(w)
            BY <1>2
        <3>1. /\ j \in 1 .. Len(w) /\ j \in 1 .. Len(hw.rx) /\ i = Len(buffer) + j
              /\ call.reg + Len(buffer) + j - 1 = call.reg + i - 1
            <4> DEFINE b == Len(buffer)
                       v == Len(w)
                       x == Len(hw.rx)
                       g == call.reg
            <4>1. /\ b \in Nat /\ v \in Nat /\ x \in Nat /\ g \in Nat /\ v <= x
                  /\ i \in 1 .. b + v /\ i > b /\ j = i - b
                BY <1>1, <2>2, <3>0
            <4> HIDE DEF b, v, x, g, j
            <4>2. j \in 1 .. v /\ j \in 1 .. x /\ i = b + j /\ g + b + j - 1 = g + i - 1
                BY <4>1
            <4> QED BY <4>2 DEF b, v, x, g
        <3> HIDE DEF j
        <3>2. hw.rx[j] = slave.regs[Clip(call.reg + Len(buffer) + j - 1)]
            BY <3>1 DEF Got
        <3>3. buffer'[Len(buffer) + j] = hw.rx[j]
            BY <1>2, <3>1
        <3> QED BY <3>1, <3>2, <3>3
    <2> QED BY <1>1, <2>1, <2>2
<1>5. ASSUME NEW i \in 1 .. Len(hw'.rx)
      PROVE  hw'.rx[i] = slave'.regs[Clip(call'.reg + Len(buffer') + i - 1)]
    <2> DEFINE j == Len(w) + i
    <2>0. i \in 1 .. Len(r) /\ call'.reg + Len(buffer') + i - 1 = call.reg + (Len(buffer) + Len(w)) + i - 1
        BY <1>2
    <2>1. /\ i \in 1 .. Len(r) /\ j \in 1 .. Len(hw.rx)
          /\ call.reg + Len(buffer) + j - 1 = call'.reg + Len(buffer') + i - 1
        <3>1. \A a, b, c \in Nat : a + b + (c + i) - 1 = a + (b + c) + i - 1
            BY <1>1, <2>0
        <3>2. \A a, b \in Nat : i \in 1 .. b => a + i \in 1 .. a + b
            OBVIOUS
        <3> QED BY <1>1, <2>0, <3>1, <3>2
    <2>2. hw'.rx[i] = hw.rx[j]
        BY <2>1
    <2> HIDE DEF j
    <2>3. hw.rx[j] = slave.regs[Clip(call.reg + Len(buffer) + j - 1)]
        BY <2>1 DEF Got
    <2> QED BY <2>1, <2>2, <2>3
<1>6. Got'
    BY <1>3, <1>4, <1>5 DEF Got, Clip
<1> QED BY <1>2, <1>6

-----------------------------------------------------------------------------
\* The ends of a call.

\* A read that has taken what it was asked for.
LEMMA ReadDone ==
    ASSUME Got', hw'.rx = <<>>, Len(buffer') = call'.size, call'.op # "write",
           call'.size \in Nat, call'.reg \in Nat
    PROVE  TrueMeansDone'
<1>1. call'.reg + Len(buffer') + Len(hw'.rx) = call'.reg + call'.size
    BY EmptyFact
<1>2. slave'.ptr = Clip(call'.reg + call'.size)
    BY <1>1 DEF Got, Clip
<1>3. \A i \in 1 .. call'.size : buffer'[i] = slave'.regs[Clip(call'.reg + i - 1)]
    BY DEF Got, Clip
<1> QED BY <1>2, <1>3 DEF TrueMeansDone, Clip

\* A write whose last byte the slave has taken.
LEMMA WriteDone ==
    ASSUME SlaveAt(call.size + 2), call.op = "write", call.size \in Nat, call.size < Others, call.reg \in {0, 1},
           UNCHANGED <<slave, calls>>, call'.reg = call.reg, call'.size = call.size, call'.op = call.op
    PROVE  TrueMeansDone'
<1>0. Others \in Nat
    BY RegistersFact
<1>1. /\ slave.ptr = call.reg + call.size
      /\ \A i \in 1 .. call.size : slave.regs[call.reg + i - 1] = Value(calls, i)
    <2>1. call.size + 2 >= 2 /\ call.size + 2 - 2 = call.size
        OBVIOUS
    <2> QED BY <2>1 DEF SlaveAt
<1>2. Clip(call.reg + call.size) = call.reg + call.size
    <2>1. call.reg + call.size \in Nat /\ call.reg + call.size <= Others
        BY <1>0
    <2> QED BY <2>1, ClipFact
<1>3. ASSUME NEW i \in 1 .. call.size PROVE slave.regs[Clip(call.reg + i - 1)] = Value(calls, i)
    <2>1. call.reg + i - 1 \in Nat /\ call.reg + i - 1 <= Others
        BY <1>0
    <2>2. Clip(call.reg + i - 1) = call.reg + i - 1
        BY <2>1, ClipFact
    <2> QED BY <1>1, <2>2
<1>4. /\ slave'.ptr = Clip(call'.reg + call'.size)
      /\ \A i \in 1 .. call'.size : slave'.regs[Clip(call'.reg + i - 1)] = Value(calls', i)
    BY <1>1, <1>2, <1>3
<1> QED BY <1>4 DEF TrueMeansDone, Clip, Value

\* The registers and the places are as they were.
LEMMA DataFrame ==
    ASSUME DataInv, hw' \in IF chip = "v1" THEN Fields1 ELSE Fields2, slave' \in Slaves,
           UNCHANGED <<chip, calls>>, pc' \in Places,
           msg' \in Seq(Int), buffer' \in Seq(Int),
           call'.reg = call.reg, call'.size = call.size, call'.op = call.op
    PROVE  DataInv'
BY DEF DataInv, Places, Slaves, Fields1, Fields2, Others

\* Idle, with a result that is true or FALSE.
LEMMA AtIdle ==
    ASSUME pc' = "idle", DataInv', Quiet', TrueMeansDone'
    PROVE  TransferInv'
BY DEF TransferInv, RestInv, WriteInv, SendInv, ReadInv, ReceiveInv

\* Before a read.
LEMMA AtRead ==
    ASSUME pc' = "read", DataInv', Quiet', call'.op \in {"smread", "read"}, slave'.ptr = call'.reg, msg' = <<>>
    PROVE  TransferInv'
BY DEF TransferInv, RestInv, WriteInv, SendInv, ReadInv, ReceiveInv, TrueMeansDone

\* In the middle of a write.
LEMMA AtSend ==
    ASSUME pc' \in {"poll", "request", "end"}, ~flags'.reading, DataInv', call'.op \in {"write", "smread"},
           NEW k \in Nat, OnItsWay(k)', IF chip' = "v1" THEN Sending1' ELSE Sending2'
    PROVE  TransferInv'
<1>1. SendInv'
    BY DEF SendInv
<1> QED BY <1>1 DEF TransferInv, RestInv, WriteInv, ReadInv, ReceiveInv, TrueMeansDone

\* In the middle of a read.
LEMMA AtReceive ==
    ASSUME pc' \in {"poll", "request", "sample", "act"}, flags'.reading, DataInv',
           call'.op \in {"smread", "read"}, call'.size > 0, Len(buffer') + left' = call'.size, Got',
           IF chip' = "v1" THEN msg' = <<>> /\ IF flags'.address THEN Receiving1' ELSE Addressing1'
                           ELSE Receiving2'
    PROVE  TransferInv'
<1>1. ReceiveInv'
    BY DEF ReceiveInv
<1> QED BY <1>1 DEF TransferInv, RestInv, WriteInv, ReadInv, SendInv, TrueMeansDone

\* A call that has failed.
LEMMA FailsKeeps ==
    ASSUME DataInv, CallInv, Returns(FALSE), Quiet', hw' \in IF chip = "v1" THEN Fields1 ELSE Fields2,
           UNCHANGED <<chip, calls, slave, msg, buffer>>
    PROVE  TransferInv'
<1>1. pc' = "idle" /\ call' = [call EXCEPT !.result = FALSE]
    BY DEF Returns
<1>2. ~call'.result /\ call'.reg = call.reg /\ call'.size = call.size /\ call'.op = call.op
    BY <1>1 DEF CallInv
<1>3. slave' \in Slaves /\ msg' \in Seq(Int) /\ buffer' \in Seq(Int)
    BY DEF DataInv
<1>4. DataInv'
    BY <1>1, <1>2, <1>3, DataFrame DEF Places
<1>5. TrueMeansDone'
    BY <1>2 DEF TrueMeansDone
<1> QED BY <1>1, <1>4, <1>5, AtIdle

\* What is known of every call.
LEMMA CallFact ==
    ASSUME DataInv, CallInv
    PROVE  /\ Others \in Nat /\ call.size \in Nat /\ call.size < Others
           /\ call.reg \in 0 .. Others /\ call.reg \in Nat
           /\ call.op # "read" => call.reg \in {0, 1}
           /\ Total \in Nat /\ Total >= 2
           /\ slave \in Slaves /\ calls \in Nat /\ msg \in Seq(Int) /\ buffer \in Seq(Int)
           /\ Len(msg) \in Nat /\ Len(buffer) \in Nat
<1>1. Others \in Nat
    BY RegistersFact
<1>2. call.size \in Nat
    BY DEF CallInv
<1>3. /\ call.size < Others /\ call.reg \in 0 .. Others /\ (call.op # "read" => call.reg \in {0, 1})
      /\ slave \in Slaves /\ calls \in Nat /\ msg \in Seq(Int) /\ buffer \in Seq(Int)
    BY DEF DataInv
<1>4. Total \in Nat /\ Total >= 2
    BY <1>2 DEF Total
<1>5. Len(msg) \in Nat /\ Len(buffer) \in Nat /\ call.reg \in Nat
    BY <1>1, <1>3, EmptyFact
<1> QED BY <1>1, <1>2, <1>3, <1>4, <1>5

\* Driver and controller hold the rest of the stream after a step.
LEMMA OnWayIntro ==
    ASSUME NEW k \in Nat, UNCHANGED calls, call'.reg = call.reg, call'.op = call.op, call'.size = call.size,
           k + Len(hw'.tx) + Len(msg') = Total, Spells(hw'.tx, k), Spells(msg', k + Len(hw'.tx)), SlaveAt(k)'
    PROVE  OnItsWay(k)'
<1>1. Total' = Total
    BY DEF Total
<1>2. /\ \A i \in 1 .. Len(hw'.tx) : hw'.tx[i] = Stream(k + i)
      /\ \A i \in 1 .. Len(msg') : msg'[i] = Stream(k + Len(hw'.tx) + i)
    BY DEF Spells
<1>3. Spells(hw.tx, k)' /\ Spells(msg, k + Len(hw.tx))'
    BY <1>2 DEF Spells, Stream, Value
<1> QED BY <1>1, <1>3 DEF OnItsWay

\* The write is over, and all of it with the slave.
LEMMA ReturnsWrite ==
    ASSUME DataInv, CallInv, ~flags.reading, pc \in {"poll", "end"}, call.op \in {"write", "smread"},
           SlaveAt(Total), msg = <<>>, NEW ok, ok, Returns(ok),
           Quiet', hw' \in IF chip = "v1" THEN Fields1 ELSE Fields2,
           UNCHANGED <<chip, calls, slave, msg, buffer>>
    PROVE  TransferInv'
<1>1. /\ call.size \in Nat /\ call.size < Others /\ call.reg \in {0, 1}
      /\ slave \in Slaves /\ msg \in Seq(Int) /\ buffer \in Seq(Int)
    BY CallFact
<1>2. CASE call.op = "write"
    <2>1. pc' = "idle" /\ call' = [call EXCEPT !.result = ok]
        BY <1>2 DEF Returns
    <2>2. call'.reg = call.reg /\ call'.size = call.size /\ call'.op = call.op
        BY <2>1 DEF CallInv
    <2>3. SlaveAt(call.size + 2)
        BY <1>2 DEF Total
    <2>4. TrueMeansDone'
        BY <1>1, <1>2, <2>2, <2>3, WriteDone
    <2>5. DataInv'
        BY <1>1, <2>1, <2>2, DataFrame DEF Places
    <2> QED BY <2>1, <2>4, <2>5, AtIdle
<1>3. CASE call.op = "smread"
    <2>1. pc' = "read" /\ call' = call
        BY <1>3 DEF Returns
    <2>2. Total = 2 /\ slave.ptr = call.reg
        BY <1>1, <1>3 DEF Total, SlaveAt
    <2>3. DataInv'
        BY <1>1, <2>1, DataFrame DEF Places
    <2> QED BY <1>3, <2>1, <2>2, <2>3, AtRead
<1> QED BY <1>2, <1>3

\* The read is over, and all of it in the caller's buffer.
LEMMA ReturnsRead ==
    ASSUME DataInv, CallInv, flags.reading \/ pc = "read", call.op \in {"smread", "read"},
           NEW ok, Returns(ok), Quiet', hw' \in IF chip = "v1" THEN Fields1 ELSE Fields2,
           UNCHANGED <<chip, calls, slave, msg>>, buffer' \in Seq(Int), Len(buffer') = call.size,
           call'.reg = call.reg => Got'
    PROVE  TransferInv'
<1>1. /\ call.size \in Nat /\ call.reg \in Nat /\ slave \in Slaves /\ msg \in Seq(Int)
    BY CallFact
<1>2. pc' = "idle" /\ call' = [call EXCEPT !.result = ok]
    BY DEF Returns
<1>3. call'.reg = call.reg /\ call'.size = call.size /\ call'.op = call.op
    BY <1>2 DEF CallInv
<1>4. hw'.rx = <<>> /\ Got'
    BY <1>3 DEF Quiet
<1>5. call'.op # "write" /\ call'.size \in Nat /\ call'.reg \in Nat /\ Len(buffer') = call'.size
    BY <1>1, <1>3
<1>6. TrueMeansDone'
    BY <1>4, <1>5, ReadDone
<1>7. DataInv'
    BY <1>1, <1>2, <1>3, DataFrame DEF Places
<1> QED BY <1>2, <1>6, <1>7, AtIdle

-----------------------------------------------------------------------------
\* The PMB8875.

\* transfer_stop leaves an idle controller.
LEMMA StopQuiet ==
    ASSUME chip = "v1", UNCHANGED chip, hw \in Fields1, NEW ok, transfer_stop(ok)
    PROVE  hw' \in Fields1 /\ Quiet' /\ hw'.rx = <<>> /\ Returns(ok)
<1>1. hw' = [Idle1 EXCEPT !.ci = hw.ci] /\ Returns(ok)
    BY DEF transfer_stop
<1>2. <<>> \in Seq(Int) /\ hw.ci \in Nat
    BY EmptyFact DEF Fields1
<1>3. /\ hw' \in Fields1 /\ hw'.tx = <<>> /\ hw'.rx = <<>>
      /\ ~hw'.bum /\ ~hw'.receive /\ ~hw'.stp /\ ~hw'.ending /\ ~hw'.irqd /\ ~hw'.irqe
    BY <1>1, <1>2 DEF Idle1, Fields1
<1> QED BY <1>1, <1>3 DEF Quiet

\* A failed transfer.
LEMMA Fail1Keeps == ASSUME DriverInv, TransferInv, Fail1 PROVE TransferInv'
<1>1. chip = "v1" /\ transfer_stop(FALSE) /\ UNCHANGED <<chip, calls, slave, msg, buffer>>
    BY DEF Fail1, Keep
<1>2. DataInv /\ CallInv /\ hw \in Fields1
    BY <1>1 DEF TransferInv, DriverInv, DataInv
<1>3. hw' \in Fields1 /\ Quiet' /\ Returns(FALSE)
    BY <1>1, <1>2, StopQuiet
<1> QED BY <1>1, <1>2, <1>3, FailsKeeps

\* The first word of a write.
LEMMA StartWrite1Keeps == ASSUME DriverInv, TransferInv, StartWrite1 PROVE TransferInv'
<1>1. /\ chip = "v1" /\ pc = "write" /\ pc' = "poll"
      /\ hw' = [hw EXCEPT !.tx = <<AddressW>> \o First(msg, WordSize - 1), !.bum = TRUE]
      /\ msg' = Rest(msg, WordSize - 1) /\ flags' = [NoFlags EXCEPT !.address = TRUE]
      /\ UNCHANGED <<chip, calls, slave, call, buffer>>
    BY DEF StartWrite1, Keep
<1>2. DataInv /\ CallInv /\ hw \in Fields1 /\ Quiet
    BY <1>1 DEF TransferInv, DriverInv, DataInv, RestInv
<1>3. call.op \in {"write", "smread"} /\ Len(msg) = Total - 1 /\ Spells(msg, 1)
    BY <1>1 DEF TransferInv, WriteInv
<1>4. /\ Total \in Nat /\ slave \in Slaves /\ msg \in Seq(Int) /\ buffer \in Seq(Int)
    BY <1>2, CallFact
<1>5. WordSize - 1 \in Nat
    BY I2cAssumption
<1> DEFINE f == First(msg, WordSize - 1)
           a == <<AddressW>>
<1>6. /\ f \in Seq(Int) /\ msg' \in Seq(Int) /\ Len(f) \in Nat /\ Len(msg') \in Nat
      /\ Len(f) + Len(msg') = Len(msg)
    BY <1>1, <1>4, <1>5, CutFact
<1>7. Spells(f, 1) /\ Spells(msg', 1 + Len(f))
    BY <1>1, <1>3, <1>4, <1>5, SpellsCut
<1>8. a \in Seq(Int) /\ Len(a) = 1 /\ Spells(a, 0)
    <2>1. a \in Seq(Int) /\ Len(a) = 1 /\ a[1] = AddressW
        BY DEF AddressW
    <2>2. Stream(0 + 1) = AddressW
        BY DEF Stream
    <2> HIDE DEF a
    <2>3. \A i \in 1 .. Len(a) : a[i] = Stream(0 + i)
        BY <2>1, <2>2
    <2> QED BY <2>1, <2>3 DEF Spells
<1>9. hw'.tx = a \o f /\ hw'.tx \in Seq(Int) /\ Len(hw'.tx) = 1 + Len(f) /\ Spells(hw'.tx, 0)
    <2>1. hw'.tx = a \o f
        BY <1>1, <1>2 DEF Fields1
    <2> HIDE DEF a, f
    <2>2. Spells(f, 0 + Len(a))
        BY <1>7, <1>8
    <2>3. a \o f \in Seq(Int) /\ Len(a \o f) = Len(a) + Len(f)
        BY <1>6, <1>8, JoinFact
    <2>4. Spells(a \o f, 0)
        BY <1>6, <1>8, <2>2, SpellsJoin
    <2> QED BY <1>8, <2>1, <2>3, <2>4
<1> HIDE DEF a, f
<1>10. /\ hw' \in Fields1 /\ hw'.rx = <<>> /\ ~hw'.receive /\ ~hw'.ending /\ ~hw'.irqd /\ ~hw'.irqe
    <2>1. hw.rx = <<>> /\ ~hw.receive /\ ~hw.ending /\ ~hw.irqd /\ ~hw.irqe
        BY <1>1, <1>2 DEF Quiet
    <2>2. hw' = [hw EXCEPT !.tx = hw'.tx, !.bum = TRUE]
        BY <1>1, <1>2 DEF Fields1
    <2> QED BY <1>2, <1>9, <2>1, <2>2 DEF Fields1
<1>11. DataInv'
    BY <1>1, <1>2, <1>4, <1>6, <1>10, DataFrame DEF Places
<1>12. OnItsWay(0)'
    <2>1. 0 + Len(hw'.tx) + Len(msg') = Total
        BY <1>3, <1>4, <1>6, <1>9
    <2>2. Spells(msg', 0 + Len(hw'.tx))
        BY <1>6, <1>7, <1>9
    <2>3. SlaveAt(0)'
        BY DEF SlaveAt
    <2> QED BY <1>1, <1>9, <2>1, <2>2, <2>3, OnWayIntro
<1>13. ~flags'.reading /\ ~flags'.stop
    BY <1>1 DEF NoFlags
<1>14. Sending1'
    BY <1>10, <1>13 DEF Sending1
<1> QED BY <1>1, <1>3, <1>11, <1>12, <1>13, <1>14, AtSend

\* The address of a read.
LEMMA StartRead1Keeps == ASSUME DriverInv, TransferInv, StartRead1 PROVE TransferInv'
<1>1. /\ chip = "v1" /\ pc = "read" /\ pc' = "poll" /\ call.size > 0
      /\ hw' = [hw EXCEPT !.tx = <<AddressR>>, !.ci = 1, !.bum = TRUE]
      /\ left' = call.size /\ flags' = [NoFlags EXCEPT !.reading = TRUE]
      /\ UNCHANGED <<chip, calls, slave, call, msg, buffer>>
    BY DEF StartRead1, Keep
<1>2. DataInv /\ CallInv /\ hw \in Fields1 /\ Quiet
    BY <1>1 DEF TransferInv, DriverInv, DataInv, RestInv
<1>3. call.op \in {"smread", "read"} /\ slave.ptr = call.reg /\ msg = <<>>
    BY <1>1 DEF TransferInv, ReadInv
<1>4. buffer = <<>>
    BY <1>1 DEF DriverInv, RoomInv, FlagsInv
<1>5. hw.rx = <<>> /\ ~hw.receive /\ ~hw.stp /\ ~hw.ending /\ ~hw.irqd /\ ~hw.irqe
    BY <1>1, <1>2 DEF Quiet
<1>6. <<AddressR>> \in Seq(Int)
    BY DEF AddressR
<1>7. /\ hw' \in Fields1 /\ hw'.tx = <<AddressR>> /\ hw'.rx = <<>>
      /\ ~hw'.receive /\ ~hw'.stp /\ ~hw'.ending /\ ~hw'.irqd /\ ~hw'.irqe
    BY <1>1, <1>2, <1>5, <1>6 DEF Fields1
<1>8. /\ call.size \in Nat /\ call.reg \in 0 .. Others /\ slave \in Slaves /\ msg \in Seq(Int)
      /\ buffer \in Seq(Int) /\ call.reg \in Nat /\ Others \in Nat
    BY <1>2, CallFact
<1>9. DataInv'
    BY <1>1, <1>2, <1>7, <1>8, DataFrame DEF Places
<1>10. Len(buffer') + left' = call'.size /\ Len(buffer') = 0
    BY <1>1, <1>4, <1>8, EmptyFact
<1>11. Got'
    <2>1. Clip(call.reg) = call.reg
        <3>1. call.reg <= Others
            BY <1>8
        <3> QED BY <1>8, <3>1, ClipFact
    <2>2. Len(buffer') = 0 /\ Len(hw'.rx) = 0 /\ call'.reg + 0 + 0 = call.reg
        BY <1>1, <1>7, <1>8, <1>10, EmptyFact
    <2>3. slave'.ptr = Clip(call'.reg + Len(buffer') + Len(hw'.rx))
        BY <1>1, <1>3, <2>1, <2>2
    <2> QED BY <2>2, <2>3 DEF Got, Clip
<1>12. ~flags'.address /\ flags'.reading /\ ~flags'.stop
    BY <1>1 DEF NoFlags
<1>13. Addressing1'
    BY <1>1, <1>4, <1>7, <1>12 DEF Addressing1
<1> QED BY <1>1, <1>3, <1>9, <1>10, <1>11, <1>12, <1>13, AtReceive

\* What a turn of the loop finds in the middle of a write.
LEMMA SendFact1 ==
    ASSUME DriverInv, TransferInv, chip = "v1", pc = "poll", ~flags.reading
    PROVE  /\ DataInv /\ CallInv /\ hw \in Fields1 /\ call.op \in {"write", "smread"} /\ Sending1
           /\ left = 0 /\ \E k \in Nat : OnItsWay(k)
BY DEF DriverInv, TransferInv, DataInv, SendInv, RoomInv

\* A turn of the loop in the middle of a write: the next word, or the STOP, or the end.
LEMMA PollWriteKeeps == ASSUME DriverInv, TransferInv, Poll1, ~flags.reading PROVE TransferInv'
<1> DEFINE t == IF ~hw.irqd THEN Same ELSE IF flags.reading THEN ReadOn ELSE Written
<1>1. /\ chip = "v1" /\ pc = "poll" /\ (hw.irqd \/ hw.irqe) /\ ~Nack1
      /\ msg' = t.msg /\ left' = t.left /\ buffer' = t.buffer /\ flags' = t.flags
      /\ IF hw.irqe THEN transfer_stop(Complete(t)) ELSE hw' = t.hw /\ UNCHANGED <<pc, call, stuck>>
      /\ UNCHANGED <<chip, calls, slave>>
    BY DEF Poll1, Keep
<1>2. /\ DataInv /\ CallInv /\ hw \in Fields1 /\ call.op \in {"write", "smread"} /\ Sending1 /\ left = 0
    BY <1>1, SendFact1
<1>3. PICK k \in Nat : OnItsWay(k)
    BY <1>1, SendFact1
<1>4. /\ slave \in Slaves /\ msg \in Seq(Int) /\ buffer \in Seq(Int) /\ Len(msg) \in Nat /\ Total \in Nat
    BY <1>2, CallFact
<1>5. hw.tx = <<>>
    <2>1. CASE hw.irqd
        BY <1>1, <1>2, <2>1 DEF Nack1, Sending1
    <2>2. CASE hw.irqe
        BY <1>2, <2>2 DEF Sending1
    <2> QED BY <1>1, <2>1, <2>2
<1>6. k + Len(msg) = Total /\ Spells(msg, k) /\ SlaveAt(k)
    <2>1. Len(hw.tx) = 0 /\ k + 0 = k
        BY <1>5, EmptyFact
    <2> QED BY <1>3, <2>1 DEF OnItsWay
<1>7. CASE hw.irqe
    <2>1. msg = <<>>
        BY <1>2, <1>7 DEF Sending1
    <2>2. /\ t.msg = <<>> /\ t.left = 0 /\ t.buffer = buffer
        <3>1. CASE ~hw.irqd
            BY <1>2, <2>1, <3>1 DEF Same
        <3>2. CASE hw.irqd
            BY <1>2, <2>1, <3>2 DEF Written
        <3> QED BY <3>1, <3>2
    <2> HIDE DEF t
    <2>3. Complete(t)
        BY <2>2 DEF Complete
    <2>4. transfer_stop(Complete(t))
        BY <1>1, <1>7
    <2>5. hw' \in Fields1 /\ Quiet' /\ Returns(Complete(t))
        BY <1>1, <1>2, <2>4, StopQuiet
    <2>6. SlaveAt(Total)
        BY <1>6, <2>1, EmptyFact
    <2>7. UNCHANGED <<chip, calls, slave, msg, buffer>>
        BY <1>1, <2>1, <2>2
    <2> QED BY <1>1, <1>2, <2>1, <2>3, <2>5, <2>6, <2>7, ReturnsWrite
<1>8. CASE ~hw.irqe
    <2>0. hw.irqd /\ t = Written
        BY <1>1, <1>8
    <2> HIDE DEF t
    <2>1. pc' = "poll" /\ call' = call /\ hw' = t.hw
        BY <1>1, <1>8
    <2>2. CASE msg # <<>>
        <3>1. /\ msg' = Rest(msg, WordSize) /\ buffer' = buffer /\ flags' = flags
              /\ hw' = [hw EXCEPT !.tx = First(msg, WordSize), !.irqd = FALSE]
            BY <1>1, <2>0, <2>1, <2>2 DEF Written
        <3>2. WordSize \in Nat
            BY I2cAssumption
        <3>3. /\ First(msg, WordSize) \in Seq(Int) /\ msg' \in Seq(Int)
              /\ Len(First(msg, WordSize)) \in Nat /\ Len(msg') \in Nat
              /\ Len(First(msg, WordSize)) + Len(msg') = Len(msg)
            BY <1>4, <3>1, <3>2, CutFact
        <3>4. Spells(First(msg, WordSize), k) /\ Spells(msg', k + Len(First(msg, WordSize)))
            BY <1>4, <1>6, <3>1, <3>2, SpellsCut
        <3>5. /\ hw' \in Fields1 /\ hw'.tx = First(msg, WordSize) /\ ~hw'.irqd
              /\ hw'.rx = hw.rx /\ hw'.receive = hw.receive /\ hw'.irqe = hw.irqe /\ hw'.ending = hw.ending
            BY <1>2, <3>1, <3>3 DEF Fields1
        <3>6. DataInv'
            BY <1>1, <1>2, <1>4, <2>1, <3>1, <3>3, <3>5, DataFrame DEF Places
        <3>7. SlaveAt(k)'
            BY <1>1, <1>6, <2>1, SlaveFrame
        <3>8. OnItsWay(k)'
            <4>1. k + Len(hw'.tx) + Len(msg') = Total
                <5>1. \A a, b, c \in Nat : a + b + c = a + (b + c)
                    OBVIOUS
                <5>2. k + Len(First(msg, WordSize)) + Len(msg') = k + Len(msg)
                    BY <1>3, <3>3, <5>1
                <5> QED BY <1>6, <3>5, <5>2
            <4> QED BY <1>1, <2>1, <3>4, <3>5, <3>7, <4>1, OnWayIntro
        <3>9. ~hw.ending
            BY <1>2, <2>2 DEF Sending1
        <3>10. Sending1'
            BY <1>2, <1>8, <3>1, <3>5, <3>9 DEF Sending1
        <3>11. ~flags'.reading
            BY <3>1
        <3> QED BY <1>1, <1>2, <2>1, <3>6, <3>8, <3>10, <3>11, AtSend
    <2>3. CASE msg = <<>>
        <3>1. /\ msg' = msg /\ buffer' = buffer /\ flags' = [flags EXCEPT !.stop = TRUE]
              /\ hw' = [hw EXCEPT !.bum = FALSE, !.ending = TRUE]
            BY <1>1, <2>0, <2>1, <2>3 DEF Written
        <3>2. /\ hw' \in Fields1 /\ hw'.tx = hw.tx /\ hw'.rx = hw.rx /\ hw'.receive = hw.receive
              /\ hw'.irqe = hw.irqe /\ hw'.ending /\ hw'.irqd = hw.irqd /\ hw'.lrb = hw.lrb
            BY <1>2, <3>1 DEF Fields1
        <3>3. DataInv'
            BY <1>1, <1>2, <1>4, <2>1, <3>1, <3>2, DataFrame DEF Places
        <3>4. SlaveAt(k)'
            BY <1>1, <1>6, <2>1, SlaveFrame
        <3>5. OnItsWay(k)'
            <4>1. /\ k + Len(hw'.tx) + Len(msg') = Total /\ Spells(hw'.tx, k)
                  /\ Spells(msg', k + Len(hw'.tx))
                BY <1>3, <3>1, <3>2 DEF OnItsWay
            <4> QED BY <1>1, <2>1, <3>4, <4>1, OnWayIntro
        <3>6. Sending1'
            BY <1>2, <1>5, <2>3, <3>1, <3>2 DEF Sending1
        <3>7. ~flags'.reading
            <4>1. flags \in [reading : BOOLEAN, address : BOOLEAN, stop : BOOLEAN, receiving : BOOLEAN]
                BY DEF DriverInv, FlagsInv
            <4>2. flags'.reading = flags.reading
                BY <3>1, <4>1
            <4> QED BY <4>2
        <3> QED BY <1>1, <1>2, <2>1, <3>3, <3>5, <3>6, <3>7, AtSend
    <2> QED BY <2>2, <2>3
<1> QED BY <1>7, <1>8

\* What a turn of the loop finds in the middle of a read.
LEMMA ReceiveFact1 ==
    ASSUME DriverInv, TransferInv, chip = "v1", pc = "poll", flags.reading
    PROVE  /\ DataInv /\ CallInv /\ hw \in Fields1 /\ call.op \in {"smread", "read"} /\ call.size > 0
           /\ Len(buffer) + left = call.size /\ Got /\ msg = <<>> /\ left \in Nat
           /\ IF flags.address THEN Receiving1 ELSE Addressing1
BY DEF DriverInv, TransferInv, DataInv, ReceiveInv, RoomInv

\* The smaller of two numbers.
LEMMA MinValue == \A a, b \in Nat : Min({a, b}) = IF a <= b THEN a ELSE b
<1> SUFFICES ASSUME NEW a \in Nat, NEW b \in Nat PROVE Min({a, b}) = IF a <= b THEN a ELSE b
    OBVIOUS
<1>1. \E x \in {a, b} : \A y \in {a, b} : x =< y
    OBVIOUS
<1>2. Min({a, b}) \in {a, b} /\ \A y \in {a, b} : Min({a, b}) =< y
    BY <1>1 DEF Min
<1> QED BY <1>2

\* The data interrupt of the last bytes that were asked for takes them all.
LEMMA ReadCountFact ==
    ASSUME DriverInv, TransferInv, chip = "v1", pc = "poll", flags.reading, hw.irqd, ~Nack1
    PROVE  /\ ReadCount \in Nat /\ ReadCount = Len(hw.rx) /\ ReadCount <= left
           /\ First(hw.rx, ReadCount) = hw.rx /\ hw.tx = <<>>
           /\ flags.address => ReadCount = Min({left, WordSize}) /\ left # 0
           /\ ~flags.address => ReadCount = 0
<1>1. /\ hw \in Fields1 /\ left \in Nat /\ IF flags.address THEN Receiving1 ELSE Addressing1
    BY ReceiveFact1
<1>2. hw.rx \in Seq(Int) /\ Len(hw.rx) \in Nat /\ hw.ci \in Nat
    BY <1>1, EmptyFact DEF Fields1
<1>3. First(hw.rx, Len(hw.rx)) = hw.rx
    <2>1. Min({Len(hw.rx), Len(hw.rx)}) = Len(hw.rx)
        BY <1>2, MinValue
    <2>2. SubSeq(hw.rx, 1, Len(hw.rx)) = hw.rx
        BY <1>2, SubSeqFull
    <2> QED BY <2>1, <2>2 DEF First
<1>4. CASE flags.address
    <2>1. left # 0 /\ Len(hw.rx) = hw.ci /\ hw.ci = Min({left, WordSize}) /\ hw.tx = <<>>
        BY <1>1, <1>4 DEF Receiving1
    <2>2. Min({left, WordSize}) <= left
        BY <1>1, MinFact, I2cAssumption
    <2>3. Min({Len(hw.rx), hw.ci, left}) = Len(hw.rx)
        <3> DEFINE n == Len(hw.rx)
        <3>1. n \in Nat /\ n = hw.ci /\ n <= left
            BY <1>2, <2>1, <2>2
        <3>2. \E x \in {n, hw.ci, left} : \A y \in {n, hw.ci, left} : x =< y
            BY <1>1, <3>1
        <3>3. Min({n, hw.ci, left}) \in {n, hw.ci, left} /\ \A y \in {n, hw.ci, left} : Min({n, hw.ci, left}) =< y
            BY <3>2 DEF Min
        <3> HIDE DEF n
        <3>4. Min({n, hw.ci, left}) = n
            BY <1>1, <3>1, <3>3
        <3> QED BY <3>4 DEF n
    <2>4. ReadCount = Len(hw.rx)
        BY <1>4, <2>3 DEF ReadCount
    <2> QED BY <1>2, <1>3, <1>4, <2>1, <2>2, <2>4
<1>5. CASE ~flags.address
    <2>1. hw.rx = <<>> /\ (hw.tx # <<>> => hw.lrb) /\ ~flags.stop
        BY <1>1, <1>5 DEF Addressing1
    <2>2. hw.tx = <<>>
        BY <1>5, <2>1 DEF Nack1
    <2>3. ReadCount = 0 /\ Len(hw.rx) = 0
        BY <1>5, <2>1, EmptyFact DEF ReadCount
    <2> QED BY <1>1, <1>3, <1>5, <2>2, <2>3
<1> QED BY <1>4, <1>5

\* A turn of the loop in the middle of a read: bytes are taken, or it is the end.
LEMMA PollReadKeeps == ASSUME DriverInv, TransferInv, Poll1, flags.reading PROVE TransferInv'
<1> DEFINE t == IF ~hw.irqd THEN Same ELSE IF flags.reading THEN ReadOn ELSE Written
           more == left - ReadCount
<1>1. /\ chip = "v1" /\ pc = "poll" /\ (hw.irqd \/ hw.irqe) /\ ~Nack1
      /\ msg' = t.msg /\ left' = t.left /\ buffer' = t.buffer /\ flags' = t.flags
      /\ IF hw.irqe THEN transfer_stop(Complete(t)) ELSE hw' = t.hw /\ UNCHANGED <<pc, call, stuck>>
      /\ UNCHANGED <<chip, calls, slave>>
    BY DEF Poll1, Keep
<1>2. /\ DataInv /\ CallInv /\ hw \in Fields1 /\ call.op \in {"smread", "read"} /\ call.size > 0
      /\ Len(buffer) + left = call.size /\ Got /\ msg = <<>> /\ left \in Nat
      /\ IF flags.address THEN Receiving1 ELSE Addressing1
    BY <1>1, ReceiveFact1
<1>3. /\ slave \in Slaves /\ msg \in Seq(Int) /\ buffer \in Seq(Int) /\ Len(buffer) \in Nat
      /\ call.size \in Nat /\ call.reg \in 0 .. Others /\ call.reg \in Nat
    BY <1>2, CallFact
<1>4. hw.rx \in Seq(Int) /\ Len(hw.rx) \in Nat
    BY <1>2, EmptyFact DEF Fields1
<1>5. CASE ~hw.irqd
    <2>1. hw.irqe /\ t = Same
        BY <1>1, <1>5
    <2>2. flags.address /\ left = 0 /\ hw.rx = <<>>
        <3>1. flags.address
            BY <1>2, <2>1 DEF Addressing1
        <3>2. hw.ending /\ Receiving1
            BY <1>2, <2>1, <3>1 DEF Receiving1
        <3>3. left = 0
            BY <1>5, <3>2 DEF Receiving1
        <3> QED BY <3>1, <3>2, <3>3 DEF Receiving1
    <2>3. msg' = msg /\ buffer' = buffer
        BY <1>1, <2>1 DEF Same
    <2> HIDE DEF t
    <2>4. hw' \in Fields1 /\ Quiet' /\ hw'.rx = <<>> /\ Returns(Complete(t))
        BY <1>1, <1>2, <2>1, StopQuiet
    <2>5. ASSUME call'.reg = call.reg PROVE Got'
        BY <1>1, <1>2, <2>2, <2>3, <2>4, <2>5, GotFrame
    <2>6. Len(buffer') = call.size /\ buffer' \in Seq(Int)
        BY <1>2, <1>3, <2>2, <2>3
    <2> QED BY <1>1, <1>2, <2>3, <2>4, <2>5, <2>6, ReturnsRead
<1>6. CASE hw.irqd
    <2>1. /\ ReadCount \in Nat /\ ReadCount = Len(hw.rx) /\ ReadCount <= left
          /\ First(hw.rx, ReadCount) = hw.rx /\ hw.tx = <<>>
          /\ flags.address => ReadCount = Min({left, WordSize}) /\ left # 0
          /\ ~flags.address => ReadCount = 0
        BY <1>1, <1>6, ReadCountFact
    <2>2. /\ t.msg = msg /\ t.left = more /\ t.buffer = buffer \o hw.rx
          /\ t.flags = [flags EXCEPT !.address = TRUE]
          /\ t.hw = [hw EXCEPT !.rx = <<>>, !.receive = TRUE, !.irqd = FALSE,
                       !.ci = IF more # 0 THEN Min({more, WordSize}) ELSE @,
                       !.stp = @ \/ (more # 0 /\ more <= WordSize)]
        BY <1>6, <2>1 DEF ReadOn
    <2> HIDE DEF t
    <2>3. more \in Nat /\ Len(buffer) + Len(hw.rx) + more = call.size
        BY <1>2, <1>3, <1>4, <2>1
    <2>4. WordSize \in Nat /\ WordSize >= 2
        BY I2cAssumption
    <2> HIDE DEF more
    <2>5. /\ buffer \o hw.rx \in Seq(Int) /\ Len(buffer \o hw.rx) = Len(buffer) + Len(hw.rx)
        BY <1>3, <1>4, JoinFact
    <2>6. ASSUME hw'.rx = <<>>, call'.reg = call.reg PROVE Got'
        <3>1. <<>> \in Seq(Int) /\ Len(hw.rx) + Len(<<>>) = Len(hw.rx) /\ 1 .. Len(<<>>) = {}
            BY <1>4, EmptyFact
        <3>2. buffer' = buffer \o hw.rx
            BY <1>1, <2>2
        <3> QED BY <1>1, <1>2, <1>3, <1>4, <2>6, <3>1, <3>2, MoveKeeps
    <2>7. CASE hw.irqe
        <3>1. flags.address /\ hw.ending /\ Receiving1
            BY <1>2, <2>7 DEF Addressing1, Receiving1
        <3>2. left <= WordSize /\ left # 0
            BY <2>1, <3>1 DEF Receiving1
        <3>3. ReadCount = left
            BY <1>2, <2>1, <2>4, <3>1, <3>2, MinValue
        <3>4. Len(buffer) + Len(hw.rx) = call.size
            BY <1>2, <2>1, <3>3
        <3>5. hw' \in Fields1 /\ Quiet' /\ hw'.rx = <<>> /\ Returns(Complete(t))
            BY <1>1, <1>2, <2>7, StopQuiet
        <3>6. msg' = msg /\ buffer' = buffer \o hw.rx
            BY <1>1, <2>2
        <3> QED BY <1>1, <1>2, <2>5, <2>6, <3>4, <3>5, <3>6, ReturnsRead
    <2>8. CASE ~hw.irqe
        <3>1. pc' = "poll" /\ call' = call /\ msg' = msg /\ left' = more /\ buffer' = buffer \o hw.rx
            BY <1>1, <2>2, <2>8
        <3>2. flags'.address /\ flags'.reading
            <4>1. flags \in [reading : BOOLEAN, address : BOOLEAN, stop : BOOLEAN, receiving : BOOLEAN]
                BY DEF DriverInv, FlagsInv
            <4> QED BY <1>1, <2>2, <4>1
        <3>3. hw' = [hw EXCEPT !.rx = <<>>, !.receive = TRUE, !.irqd = FALSE,
                       !.ci = IF more # 0 THEN Min({more, WordSize}) ELSE @,
                       !.stp = @ \/ (more # 0 /\ more <= WordSize)]
            BY <1>1, <2>2, <2>8
        <3>4. Min({more, WordSize}) \in Nat /\ <<>> \in Seq(Int)
            BY <2>3, <2>4, MinFact, EmptyFact
        <3>5. /\ hw' \in Fields1 /\ hw'.rx = <<>> /\ ~hw'.irqd /\ hw'.tx = hw.tx
              /\ hw'.ending = hw.ending /\ hw'.irqe = hw.irqe
              /\ more # 0 => hw'.ci = Min({more, WordSize})
              /\ hw'.stp <=> hw.stp \/ (more # 0 /\ more <= WordSize)
            BY <1>2, <3>3, <3>4 DEF Fields1
        <3>6. DataInv'
            BY <1>1, <1>2, <1>3, <2>5, <3>1, <3>5, DataFrame DEF Places
        <3>7. Got'
            BY <2>6, <3>1, <3>5
        <3>8. more # 0 => ~hw.stp /\ ~hw.ending
            <4> SUFFICES ASSUME more # 0 PROVE ~hw.stp /\ ~hw.ending
                OBVIOUS
            <4>1. CASE flags.address
                <5>1. left # 0 /\ Receiving1 /\ ReadCount = Min({left, WordSize})
                    BY <1>2, <2>1, <4>1
                <5>2. left # ReadCount
                    BY <1>2, <2>1 DEF more
                <5>3. ~(left <= WordSize)
                    BY <1>2, <2>4, <5>1, <5>2, MinValue
                <5> QED BY <5>1, <5>3 DEF Receiving1
            <4>2. CASE ~flags.address
                BY <1>2, <4>2 DEF Addressing1
            <4> QED BY <4>1, <4>2
        <3>9. more = 0 => hw.ending
            <4> SUFFICES ASSUME more = 0 PROVE hw.ending
                OBVIOUS
            <4>1. left = ReadCount
                BY <1>2, <2>1 DEF more
            <4>2. flags.address
                <5> SUFFICES ASSUME ~flags.address PROVE FALSE
                    OBVIOUS
                <5>1. buffer = <<>> /\ left = 0
                    BY <1>2, <2>1, <4>1 DEF Addressing1
                <5> QED BY <1>2, <5>1, EmptyFact
            <4>3. left # 0 /\ Receiving1 /\ left = Min({left, WordSize})
                BY <1>2, <2>1, <4>1, <4>2
            <4>4. left <= WordSize
                BY <1>2, <2>4, <4>3, MinValue
            <4> QED BY <1>6, <4>3, <4>4 DEF Receiving1
        <3>10. Receiving1'
            <4>1. Len(hw'.rx) = 0 /\ (more # 0 => Min({more, WordSize}) # 0 /\ 0 <= Min({more, WordSize}))
                BY <2>3, <2>4, <3>5, MinValue, EmptyFact
            <4>2. ASSUME left' # 0
                  PROVE  /\ hw'.ci = Min({left', WordSize}) /\ Len(hw'.rx) <= hw'.ci
                         /\ hw'.irqd <=> Len(hw'.rx) = hw'.ci
                         /\ hw'.stp <=> left' <= WordSize
                         /\ hw'.ending <=> hw'.irqd /\ hw'.stp
                BY <3>1, <3>5, <3>8, <4>1, <4>2
            <4>3. left' = 0 => hw'.ending /\ hw'.rx = <<>> /\ ~hw'.irqd
                BY <3>1, <3>5, <3>9
            <4>4. hw'.tx = <<>> /\ ~hw'.irqe
                BY <2>1, <2>8, <3>5
            <4> QED BY <4>2, <4>3, <4>4 DEF Receiving1
        <3>11. Len(buffer') + left' = call'.size
            BY <2>3, <2>5, <3>1
        <3> QED BY <1>1, <1>2, <3>1, <3>2, <3>6, <3>7, <3>10, <3>11, AtReceive
    <2> QED BY <2>7, <2>8
<1> QED BY <1>5, <1>6

\* A byte on the bus, given by the PMB8875.
LEMMA Hw1SendKeeps ==
    ASSUME DriverInv, TransferInv, chip = "v1", Hw1Send, UNCHANGED <<chip, call, calls, driver, stuck>>
    PROVE  TransferInv'
<1>1. UNCHANGED <<pc, msg, left, buffer, flags>> /\ call' = call /\ calls' = calls /\ chip' = chip
    BY DEF driver
<1>2. /\ hw.bum /\ ~hw.irqd /\ hw.tx # <<>>
      /\ \/ /\ slave' = SlaveTakes(slave, Head(hw.tx))
            /\ hw' = [hw EXCEPT !.tx = Tail(@), !.irqd = Len(hw.tx) = 1, !.lrb = FALSE]
         \/ hw' = [hw EXCEPT !.irqd = TRUE, !.lrb = TRUE] /\ slave' = slave
    BY DEF Hw1Send
<1>3. DataInv /\ CallInv /\ hw \in Fields1
    BY DEF TransferInv, DriverInv, DataInv
<1>4. /\ slave \in Slaves /\ msg \in Seq(Int) /\ buffer \in Seq(Int) /\ Len(buffer) \in Nat /\ Len(msg) \in Nat
      /\ call.size \in Nat /\ call.size < Others /\ Total \in Nat /\ calls \in Nat
      /\ call.op # "read" => call.reg \in {0, 1}
    BY <1>3, CallFact
<1>5. /\ hw.tx \in Seq(Int) /\ Len(hw.tx) \in Nat /\ Len(hw.tx) >= 1 /\ Tail(hw.tx) \in Seq(Int)
      /\ Len(Tail(hw.tx)) = Len(hw.tx) - 1 /\ (Len(hw.tx) = 1 <=> Tail(hw.tx) = <<>>)
    <2>1. hw.tx \in Seq(Int)
        BY <1>3 DEF Fields1
    <2>2. Len(hw.tx) \in Nat /\ Len(hw.tx) >= 1 /\ Tail(hw.tx) \in Seq(Int) /\ Len(Tail(hw.tx)) = Len(hw.tx) - 1
        BY <1>2, <2>1, TailFact
    <2>3. Tail(hw.tx) = <<>> <=> Len(Tail(hw.tx)) = 0
        BY <2>2, EmptyFact
    <2> QED BY <2>1, <2>2, <2>3
<1>6. pc = "poll"
    <2>1. pc \notin {"idle", "write", "read"}
        BY <1>2 DEF TransferInv, RestInv, Quiet
    <2> QED BY <1>3, <2>1 DEF DataInv, Places
<1>7. pc' \in Places
    BY <1>1, <1>3 DEF DataInv
<1>8. CASE flags.reading
    <2>1. /\ call.op \in {"smread", "read"} /\ call.size > 0 /\ Len(buffer) + left = call.size /\ Got /\ msg = <<>>
          /\ IF flags.address THEN Receiving1 ELSE Addressing1
        BY <1>6, <1>8, ReceiveFact1
    <2>2. ~flags.address /\ Addressing1 /\ hw.tx = <<AddressR>>
        BY <1>2, <2>1 DEF Receiving1, Addressing1
    <2>3. /\ slave' = slave /\ hw' \in Fields1 /\ hw'.tx \in {<<>>, <<AddressR>>} /\ hw'.rx = hw.rx
          /\ hw'.receive = hw.receive /\ hw'.stp = hw.stp /\ hw'.ending = hw.ending /\ hw'.irqe = hw.irqe
          /\ hw'.irqd /\ hw'.tx # <<>> => hw'.lrb
        <3>1. CASE /\ slave' = SlaveTakes(slave, Head(hw.tx))
                   /\ hw' = [hw EXCEPT !.tx = Tail(@), !.irqd = Len(hw.tx) = 1, !.lrb = FALSE]
            <4>1. Head(hw.tx) = AddressR /\ Tail(hw.tx) = <<>>
                <5>1. Len(hw.tx) = 1 /\ hw.tx[1] = AddressR
                    BY <2>2
                <5>2. Head(hw.tx) = hw.tx[1]
                    BY <1>2, <1>5, TailFact
                <5> QED BY <1>5, <5>1, <5>2
            <4>2. slave' = slave
                BY <3>1, <4>1 DEF SlaveTakes, AddressR, AddressW
            <4> QED BY <1>3, <1>5, <3>1, <4>1, <4>2 DEF Fields1
        <3>2. CASE hw' = [hw EXCEPT !.irqd = TRUE, !.lrb = TRUE] /\ slave' = slave
            BY <1>3, <2>2, <3>2 DEF Fields1
        <3> QED BY <1>2, <3>1, <3>2
    <2>4. DataInv'
        BY <1>1, <1>3, <1>4, <1>7, <2>3, DataFrame
    <2>5. Got'
        BY <1>1, <2>1, <2>3, GotFrame
    <2>6. Addressing1'
        BY <1>1, <2>2, <2>3 DEF Addressing1
    <2> QED BY <1>1, <1>6, <1>8, <2>1, <2>2, <2>4, <2>5, <2>6, AtReceive
<1>9. CASE ~flags.reading
    <2>1. call.op \in {"write", "smread"} /\ Sending1
        BY <1>6, <1>9, SendFact1
    <2>2. PICK k \in Nat : OnItsWay(k)
        BY <1>6, <1>9, SendFact1
    <2>3. /\ k + Len(hw.tx) + Len(msg) = Total /\ Spells(hw.tx, k) /\ Spells(msg, k + Len(hw.tx)) /\ SlaveAt(k)
        BY <2>2 DEF OnItsWay
    <2>4. ~hw.ending /\ ~hw.irqe /\ ~hw.receive /\ hw.rx = <<>>
        BY <1>2, <2>1 DEF Sending1
    <2>5. CASE /\ slave' = SlaveTakes(slave, Head(hw.tx))
               /\ hw' = [hw EXCEPT !.tx = Tail(@), !.irqd = Len(hw.tx) = 1, !.lrb = FALSE]
        <3>1. Head(hw.tx) = Stream(k + 1) /\ Spells(Tail(hw.tx), k + 1)
            BY <1>2, <1>5, <2>3, SpellsTail
        <3>2. call.reg \in {0, 1} /\ k < Total
            BY <1>4, <1>5, <2>1, <2>3
        <3>3. slave' = SlaveTakes(slave, Stream(k + 1))
            BY <2>5, <3>1
        <3>4. slave' \in Slaves /\ SlaveAt(k + 1)'
            BY <1>1, <1>4, <2>3, <3>2, <3>3, TakeKeeps
        <3>5. /\ hw' \in Fields1 /\ hw'.tx = Tail(hw.tx) /\ (hw'.irqd <=> Len(hw.tx) = 1)
              /\ hw'.rx = hw.rx /\ hw'.receive = hw.receive /\ hw'.ending = hw.ending /\ hw'.irqe = hw.irqe
            BY <1>3, <1>5, <2>5 DEF Fields1
        <3>6. DataInv'
            BY <1>1, <1>3, <1>4, <1>7, <3>4, <3>5, DataFrame
        <3>7. k + 1 \in Nat /\ k + 1 + Len(hw'.tx) = k + Len(hw.tx)
            <4>1. Len(hw'.tx) = Len(hw.tx) - 1
                BY <1>5, <3>5
            <4>2. k \in Nat /\ Len(hw.tx) \in Nat
                BY <1>5, <2>2
            <4>3. k + 1 + (Len(hw.tx) - 1) = k + Len(hw.tx) /\ k + 1 \in Nat
                BY <4>2, SumFact
            <4> QED BY <4>1, <4>3
        <3>8. OnItsWay(k + 1)'
            <4>1. k + 1 + Len(hw'.tx) + Len(msg') = Total
                BY <1>1, <2>3, <3>7
            <4>2. Spells(hw'.tx, k + 1) /\ Spells(msg', k + 1 + Len(hw'.tx))
                BY <1>1, <2>3, <3>1, <3>5, <3>7
            <4> QED BY <1>1, <3>4, <3>7, <4>1, <4>2, OnWayIntro
        <3>9. Sending1'
            BY <1>1, <1>5, <2>1, <2>4, <3>5 DEF Sending1
        <3> QED BY <1>1, <1>6, <1>9, <2>1, <3>6, <3>7, <3>8, <3>9, AtSend
    <2>6. CASE hw' = [hw EXCEPT !.irqd = TRUE, !.lrb = TRUE] /\ slave' = slave
        <3>1. /\ hw' \in Fields1 /\ hw'.tx = hw.tx /\ hw'.lrb
              /\ hw'.rx = hw.rx /\ hw'.receive = hw.receive /\ hw'.ending = hw.ending /\ hw'.irqe = hw.irqe
            BY <1>3, <2>6 DEF Fields1
        <3>2. DataInv'
            BY <1>1, <1>3, <1>4, <1>7, <2>6, <3>1, DataFrame
        <3>3. SlaveAt(k)'
            BY <1>1, <2>3, <2>6, SlaveFrame
        <3>4. OnItsWay(k)'
            BY <1>1, <2>3, <3>1, <3>3, OnWayIntro
        <3>6. Sending1'
            BY <1>1, <2>1, <2>4, <3>1 DEF Sending1
        <3> QED BY <1>1, <1>6, <1>9, <2>1, <3>2, <3>4, <3>6, AtSend
    <2> QED BY <1>2, <2>5, <2>6
<1> QED BY <1>8, <1>9

\* A byte that the PMB8875 receives.
LEMMA Hw1ReceiveKeeps ==
    ASSUME DriverInv, TransferInv, chip = "v1", Hw1Receive, UNCHANGED <<chip, call, calls, driver, stuck>>
    PROVE  TransferInv'
<1> DEFINE full == Len(hw.rx) + 1 = hw.ci
<1>1. UNCHANGED <<pc, msg, left, buffer, flags>> /\ call' = call /\ calls' = calls /\ chip' = chip
    BY DEF driver
<1>2. /\ hw.bum /\ hw.receive /\ ~hw.irqd /\ ~hw.ending /\ slave' = SlaveGave(slave)
      /\ hw' = [hw EXCEPT !.rx = Append(@, SlaveGives(slave)), !.irqd = full,
                          !.lrb = full /\ hw.stp, !.ending = full /\ hw.stp]
    BY DEF Hw1Receive
<1>3. DataInv /\ CallInv /\ hw \in Fields1
    BY DEF TransferInv, DriverInv, DataInv
<1>4. /\ slave \in Slaves /\ msg \in Seq(Int) /\ buffer \in Seq(Int) /\ call.reg \in 0 .. Others
    BY <1>3, CallFact
<1>5. pc = "poll" /\ pc' \in Places
    <2>1. pc \notin {"idle", "write", "read"}
        BY <1>2 DEF TransferInv, RestInv, Quiet
    <2> QED BY <1>1, <1>3, <2>1 DEF DataInv, Places
<1>6. flags.reading
    <2> SUFFICES ASSUME ~flags.reading PROVE FALSE
        OBVIOUS
    <2>1. Sending1
        BY <1>5, SendFact1
    <2> QED BY <1>2, <2>1 DEF Sending1
<1>7. /\ call.op \in {"smread", "read"} /\ call.size > 0 /\ Len(buffer) + left = call.size /\ Got /\ msg = <<>>
      /\ left \in Nat /\ IF flags.address THEN Receiving1 ELSE Addressing1
    BY <1>5, <1>6, ReceiveFact1
<1>8. flags.address /\ Receiving1 /\ left # 0
    BY <1>2, <1>7 DEF Receiving1, Addressing1
<1>9. hw.rx \in Seq(Int) /\ Len(hw.rx) \in Nat /\ hw.ci \in Nat
    BY <1>3, EmptyFact DEF Fields1
<1>10. hw'.rx = Append(hw.rx, SlaveGives(slave))
    BY <1>2, <1>3 DEF Fields1
<1>11. slave' \in Slaves /\ hw'.rx \in Seq(Int) /\ Len(hw'.rx) = Len(hw.rx) + 1 /\ Got'
    BY <1>1, <1>2, <1>4, <1>7, <1>9, <1>10, GiveKeeps
<1>12. /\ hw' \in Fields1 /\ hw'.tx = hw.tx /\ hw'.ci = hw.ci /\ hw'.stp = hw.stp /\ hw'.irqe = hw.irqe
       /\ hw'.irqd <=> full
       /\ hw'.ending <=> full /\ hw.stp
    <2>1. full \in BOOLEAN
        OBVIOUS
    <2>2. hw' = [hw EXCEPT !.rx = hw'.rx, !.irqd = full, !.lrb = full /\ hw.stp, !.ending = full /\ hw.stp]
        BY <1>2, <1>10
    <2> HIDE DEF full
    <2> QED BY <1>3, <1>11, <2>1, <2>2 DEF Fields1
<1>13. DataInv'
    BY <1>1, <1>3, <1>4, <1>5, <1>11, <1>12, DataFrame
<1>14. Receiving1'
    <2>1. /\ hw.tx = <<>> /\ hw.ci = Min({left, WordSize}) /\ Len(hw.rx) <= hw.ci /\ Len(hw.rx) # hw.ci
          /\ (hw.stp <=> left <= WordSize) /\ ~hw.irqe
        BY <1>2, <1>8 DEF Receiving1
    <2>2. Len(hw'.rx) <= hw'.ci /\ (hw'.irqd <=> Len(hw'.rx) = hw'.ci)
        BY <1>9, <1>11, <1>12, <2>1
    <2> QED BY <1>1, <1>8, <1>12, <2>1, <2>2 DEF Receiving1
<1> QED BY <1>1, <1>5, <1>6, <1>7, <1>8, <1>11, <1>13, <1>14, AtReceive

\* The STOP on the bus.
LEMMA Hw1StopKeeps ==
    ASSUME DriverInv, TransferInv, chip = "v1", Hw1Stop, UNCHANGED <<chip, call, calls, driver, stuck>>
    PROVE  TransferInv'
<1>1. UNCHANGED <<pc, msg, left, buffer, flags>> /\ call' = call /\ calls' = calls /\ chip' = chip
    BY DEF driver
<1>2. hw.ending /\ hw' = [hw EXCEPT !.irqe = TRUE] /\ slave' = slave
    BY DEF Hw1Stop
<1>3. DataInv /\ CallInv /\ hw \in Fields1
    BY DEF TransferInv, DriverInv, DataInv
<1>4. /\ slave \in Slaves /\ msg \in Seq(Int) /\ buffer \in Seq(Int)
    BY <1>3, CallFact
<1>5. pc = "poll" /\ pc' \in Places
    <2>1. pc \notin {"idle", "write", "read"}
        BY <1>2 DEF TransferInv, RestInv, Quiet
    <2> QED BY <1>1, <1>3, <2>1 DEF DataInv, Places
<1>6. /\ hw' \in Fields1 /\ hw'.tx = hw.tx /\ hw'.rx = hw.rx /\ hw'.ci = hw.ci /\ hw'.stp = hw.stp
      /\ hw'.irqd = hw.irqd /\ hw'.ending = hw.ending /\ hw'.receive = hw.receive /\ hw'.lrb = hw.lrb
    BY <1>2, <1>3 DEF Fields1
<1>7. DataInv'
    BY <1>1, <1>2, <1>3, <1>4, <1>5, <1>6, DataFrame
<1>8. CASE flags.reading
    <2>1. /\ call.op \in {"smread", "read"} /\ call.size > 0 /\ Len(buffer) + left = call.size /\ Got /\ msg = <<>>
          /\ IF flags.address THEN Receiving1 ELSE Addressing1
        BY <1>5, <1>8, ReceiveFact1
    <2>2. flags.address /\ Receiving1
        BY <1>2, <2>1 DEF Addressing1
    <2>3. Got'
        BY <1>1, <1>2, <1>6, <2>1, GotFrame
    <2>4. Receiving1'
        BY <1>1, <1>2, <1>6, <2>2 DEF Receiving1
    <2> QED BY <1>1, <1>5, <1>7, <1>8, <2>1, <2>2, <2>3, <2>4, AtReceive
<1>9. CASE ~flags.reading
    <2>1. call.op \in {"write", "smread"} /\ Sending1
        BY <1>5, <1>9, SendFact1
    <2>2. PICK k \in Nat : OnItsWay(k)
        BY <1>5, <1>9, SendFact1
    <2>3. SlaveAt(k)'
        BY <1>1, <1>2, <2>2, SlaveFrame DEF OnItsWay
    <2>4. OnItsWay(k)'
        <3>1. /\ k + Len(hw'.tx) + Len(msg') = Total /\ Spells(hw'.tx, k)
              /\ Spells(msg', k + Len(hw'.tx))
            BY <1>1, <1>6, <2>2 DEF OnItsWay
        <3> QED BY <1>1, <2>2, <2>3, <3>1, OnWayIntro
    <2>5. Sending1'
        BY <1>1, <1>2, <1>6, <2>1 DEF Sending1
    <2> QED BY <1>1, <1>5, <1>7, <1>9, <2>1, <2>2, <2>4, <2>5, AtSend
<1> QED BY <1>8, <1>9

-----------------------------------------------------------------------------
\* The PMB8876.

\* What the driver and the controller find in the middle of a write.
LEMMA SendFact2 ==
    ASSUME DriverInv, TransferInv, chip = "v2", pc \in {"request", "end"}, ~flags.reading
    PROVE  /\ DataInv /\ CallInv /\ hw \in Fields2 /\ call.op \in {"write", "smread"} /\ Sending2
           /\ \E k \in Nat : OnItsWay(k)
BY DEF DriverInv, TransferInv, DataInv, SendInv

\* What they find in the middle of a read.
LEMMA ReceiveFact2 ==
    ASSUME DriverInv, TransferInv, chip = "v2", pc \in {"request", "sample", "act"}, flags.reading
    PROVE  /\ DataInv /\ CallInv /\ hw \in Fields2 /\ call.op \in {"smread", "read"} /\ call.size > 0
           /\ Len(buffer) + left = call.size /\ Got /\ left \in Nat /\ Receiving2
BY DEF DriverInv, TransferInv, DataInv, ReceiveInv, RoomInv

\* Clearing the interrupts.
LEMMA ClearedFact ==
    ASSUME NEW h \in Fields2
    PROVE  /\ Cleared(h) \in Fields2 /\ ~Cleared(h).request /\ ~Cleared(h).txEnd /\ ~Cleared(h).rxOn
           /\ Cleared(h).tx = h.tx /\ Cleared(h).rx = h.rx /\ Cleared(h).open = h.open
           /\ Cleared(h).wait = h.wait /\ Cleared(h).rps = h.rps
BY DEF Cleared, Fields2

\* The controller after transfer_abort.
LEMMA Idle2Fact ==
    /\ Idle2 \in Fields2 /\ Idle2.tx = <<>> /\ Idle2.rx = <<>> /\ Idle2.open = 0 /\ Idle2.wait = 0 /\ ~Idle2.rxOn
<1>1. <<>> \in Seq(Int)
    BY EmptyFact
<1> QED BY <1>1 DEF Idle2, Fields2

\* A failed transfer.
LEMMA Fail2Keeps == ASSUME DriverInv, TransferInv, chip = "v2", Fail2 PROVE TransferInv'
<1>1. hw' = Idle2 /\ Returns(FALSE) /\ UNCHANGED <<chip, calls, slave, msg, buffer>>
    BY DEF Fail2, Keep
<1>2. DataInv /\ CallInv
    BY DEF TransferInv, DriverInv
<1>3. Quiet' /\ hw' \in Fields2
    BY <1>1, Idle2Fact DEF Quiet
<1> QED BY <1>1, <1>2, <1>3, FailsKeeps

\* A write is announced.
LEMMA StartWrite2Keeps == ASSUME DriverInv, TransferInv, StartWrite2 PROVE TransferInv'
<1> DEFINE a == <<AddressW>>
           h == Cleared(hw)
<1>1. /\ chip = "v2" /\ pc = "write" /\ pc' = "request"
      /\ hw' = [h EXCEPT !.open = Len(msg) + 1]
      /\ msg' = a \o msg /\ flags' = NoFlags
      /\ UNCHANGED <<chip, calls, slave, call, buffer>>
    BY DEF StartWrite2, Keep
<1>2. DataInv /\ CallInv /\ hw \in Fields2 /\ Quiet
    BY <1>1 DEF TransferInv, DriverInv, DataInv, RestInv
<1>3. call.op \in {"write", "smread"} /\ Len(msg) = Total - 1 /\ Spells(msg, 1)
    BY <1>1 DEF TransferInv, WriteInv
<1>4. /\ Total \in Nat /\ slave \in Slaves /\ msg \in Seq(Int) /\ buffer \in Seq(Int) /\ Len(msg) \in Nat
    BY <1>2, CallFact
<1>5. a \in Seq(Int) /\ Len(a) = 1 /\ Spells(a, 0)
    <2>1. a \in Seq(Int) /\ Len(a) = 1 /\ a[1] = AddressW
        BY DEF AddressW
    <2>2. Stream(0 + 1) = AddressW
        BY DEF Stream
    <2> HIDE DEF a
    <2>3. \A i \in 1 .. Len(a) : a[i] = Stream(0 + i)
        BY <2>1, <2>2
    <2> QED BY <2>1, <2>3 DEF Spells
<1> HIDE DEF a
<1>6. msg' \in Seq(Int) /\ Len(msg') = Len(a) + Len(msg) /\ Spells(msg', 0)
    <2>1. Spells(msg, 0 + Len(a))
        BY <1>3, <1>5
    <2>2. a \o msg \in Seq(Int) /\ Len(a \o msg) = Len(a) + Len(msg)
        BY <1>4, <1>5, JoinFact
    <2>3. Spells(a \o msg, 0)
        BY <1>4, <1>5, <2>1, SpellsJoin
    <2> QED BY <1>1, <2>2, <2>3
<1>7. Len(msg') = Len(msg) + 1 /\ Len(msg') = Total
    BY <1>3, <1>4, <1>5, <1>6
<1>8. /\ h \in Fields2 /\ h.tx = <<>> /\ h.rx = <<>> /\ h.wait = 0 /\ ~h.rxOn /\ ~h.txEnd
    BY <1>1, <1>2, ClearedFact DEF Quiet
<1> HIDE DEF h
<1>9. /\ hw' \in Fields2 /\ hw'.tx = <<>> /\ hw'.rx = <<>> /\ hw'.wait = 0 /\ ~hw'.rxOn /\ ~hw'.txEnd
      /\ hw'.open = Len(msg) + 1
    <2>1. Len(msg) + 1 \in Nat
        BY <1>4
    <2> QED BY <1>1, <1>8, <2>1 DEF Fields2
<1>10. DataInv'
    BY <1>1, <1>2, <1>4, <1>6, <1>9, DataFrame DEF Places
<1>11. OnItsWay(0)'
    <2>1. Len(hw'.tx) = 0 /\ Spells(hw'.tx, 0)
        BY <1>9, EmptyFact
    <2>2. 0 + Len(hw'.tx) + Len(msg') = Total
        BY <1>4, <1>7, <2>1
    <2>3. Spells(msg', 0 + Len(hw'.tx))
        BY <1>6, <2>1
    <2>4. SlaveAt(0)'
        BY DEF SlaveAt
    <2> QED BY <1>1, <2>1, <2>2, <2>3, <2>4, OnWayIntro
<1>12. Sending2'
    BY <1>1, <1>7, <1>9 DEF Sending2
<1>13. ~flags'.reading
    BY <1>1 DEF NoFlags
<1> QED BY <1>1, <1>3, <1>10, <1>11, <1>12, <1>13, AtSend

\* A read is announced.
LEMMA StartRead2Keeps == ASSUME DriverInv, TransferInv, StartRead2 PROVE TransferInv'
<1> DEFINE h == Cleared(hw)
<1>1. /\ chip = "v2" /\ pc = "read" /\ pc' = "request" /\ call.size > 0
      /\ hw' = [h EXCEPT !.open = 1, !.wait = call.size, !.rps = 0]
      /\ left' = call.size /\ msg' = <<AddressR>> /\ flags' = [NoFlags EXCEPT !.reading = TRUE]
      /\ UNCHANGED <<chip, calls, slave, call, buffer>>
    BY DEF StartRead2, Keep
<1>2. DataInv /\ CallInv /\ hw \in Fields2 /\ Quiet
    BY <1>1 DEF TransferInv, DriverInv, DataInv, RestInv
<1>3. call.op \in {"smread", "read"} /\ slave.ptr = call.reg
    BY <1>1 DEF TransferInv, ReadInv
<1>4. buffer = <<>>
    BY <1>1 DEF DriverInv, RoomInv, FlagsInv
<1>5. /\ call.size \in Nat /\ call.reg \in 0 .. Others /\ slave \in Slaves
      /\ buffer \in Seq(Int) /\ call.reg \in Nat /\ Others \in Nat
    BY <1>2, CallFact
<1>6. msg' \in Seq(Int) /\ Len(msg') = 1 /\ msg' # <<>>
    BY <1>1 DEF AddressR
<1>7. /\ h \in Fields2 /\ h.tx = <<>> /\ h.rx = <<>> /\ ~h.rxOn /\ ~h.request
    BY <1>1, <1>2, ClearedFact DEF Quiet
<1> HIDE DEF h
<1>8. /\ hw' \in Fields2 /\ hw'.tx = <<>> /\ hw'.rx = <<>> /\ ~hw'.rxOn
      /\ hw'.open = 1 /\ hw'.wait = call.size /\ hw'.rps = 0
    BY <1>1, <1>5, <1>7 DEF Fields2
<1>9. DataInv'
    BY <1>1, <1>2, <1>5, <1>6, <1>8, DataFrame DEF Places
<1>10. Len(buffer') = 0 /\ Len(hw'.rx) = 0 /\ Len(buffer') + left' = call'.size
    BY <1>1, <1>4, <1>5, <1>8, EmptyFact
<1>11. Got'
    <2>1. Clip(call.reg) = call.reg
        <3>1. call.reg <= Others
            BY <1>5
        <3> QED BY <1>5, <3>1, ClipFact
    <2>2. call'.reg + 0 + 0 = call.reg
        BY <1>1, <1>5
    <2>3. slave'.ptr = Clip(call'.reg + Len(buffer') + Len(hw'.rx))
        BY <1>1, <1>3, <1>10, <2>1, <2>2
    <2> QED BY <1>10, <2>3 DEF Got, Clip
<1>12. Receiving2'
    <2>1. left' = Len(hw'.rx) + hw'.wait /\ hw'.rps = Len(buffer') + Len(hw'.rx)
        BY <1>1, <1>5, <1>8, <1>10
    <2> QED BY <1>1, <1>6, <1>8, <2>1 DEF Receiving2
<1>13. flags'.reading
    BY <1>1 DEF NoFlags
<1> QED BY <1>1, <1>3, <1>9, <1>10, <1>11, <1>12, <1>13, AtReceive

\* The end of a write.
LEMMA Ended2Keeps == ASSUME DriverInv, TransferInv, chip = "v2", Ended2 PROVE TransferInv'
<1>1. /\ pc = "end" /\ hw.txEnd /\ hw' = Cleared(hw) /\ Returns(TRUE)
      /\ UNCHANGED <<chip, calls, slave, msg, buffer>>
    BY DEF Ended2, Keep
<1>2. ~flags.reading
    BY <1>1 DEF TransferInv, SendInv
<1>3. DataInv /\ CallInv /\ hw \in Fields2 /\ call.op \in {"write", "smread"} /\ Sending2
    BY <1>1, <1>2, SendFact2
<1>4. PICK k \in Nat : OnItsWay(k)
    BY <1>1, <1>2, SendFact2
<1>5. hw.tx = <<>> /\ msg = <<>> /\ hw.rx = <<>> /\ hw.wait = 0 /\ hw.open = 0
    BY <1>1, <1>3, EmptyFact DEF Sending2
<1>6. SlaveAt(Total)
    <2>1. Len(hw.tx) = 0 /\ Len(msg) = 0
        BY <1>5, EmptyFact
    <2>2. k = Total
        BY <1>4, <2>1 DEF OnItsWay
    <2> QED BY <1>4, <2>2 DEF OnItsWay
<1>7. hw' \in Fields2 /\ Quiet'
    <2>1. hw' \in Fields2 /\ hw'.tx = <<>> /\ hw'.rx = <<>> /\ hw'.open = 0 /\ hw'.wait = 0 /\ ~hw'.rxOn
        BY <1>1, <1>3, <1>5, ClearedFact
    <2> QED BY <1>1, <2>1 DEF Quiet
<1> QED BY <1>1, <1>2, <1>3, <1>5, <1>6, <1>7, ReturnsWrite

\* A word goes into the FIFO.
LEMMA HandOver2Keeps == ASSUME DriverInv, TransferInv, chip = "v2", HandOver2 PROVE TransferInv'
<1> DEFINE word == First(msg, WordSize)
<1>1. /\ pc = "request" /\ hw' = [hw EXCEPT !.tx = @ \o word, !.open = @ - Len(word), !.request = FALSE]
      /\ msg' = Rest(msg, WordSize)
      /\ pc' = IF msg' # <<>> THEN "request" ELSE IF flags.reading THEN "sample" ELSE "end"
      /\ UNCHANGED <<chip, calls, slave, call, left, buffer, flags>>
    BY DEF HandOver2, Keep
<1>2. DataInv /\ CallInv /\ hw \in Fields2
    BY DEF TransferInv, DriverInv, DataInv
<1>3. slave \in Slaves /\ msg \in Seq(Int) /\ buffer \in Seq(Int) /\ Len(msg) \in Nat
    BY <1>2, CallFact
<1>4. WordSize \in Nat /\ WordSize >= 2 /\ hw.tx \in Seq(Int) /\ Len(hw.tx) \in Nat
    BY <1>2, I2cAssumption, EmptyFact DEF Fields2
<1>5. /\ word \in Seq(Int) /\ msg' \in Seq(Int) /\ Len(word) \in Nat /\ Len(msg') \in Nat
      /\ Len(word) + Len(msg') = Len(msg)
      /\ Len(word) = IF WordSize <= Len(msg) THEN WordSize ELSE Len(msg)
      /\ \A i \in 1 .. Len(word) : word[i] = msg[i]
    BY <1>1, <1>3, <1>4, CutFact
<1>6. /\ hw.tx \o word \in Seq(Int) /\ Len(hw.tx \o word) = Len(hw.tx) + Len(word)
    BY <1>4, <1>5, JoinFact
<1>7. hw.open = Len(msg)
    <2>1. CASE flags.reading
        BY <1>1, <2>1, ReceiveFact2 DEF Receiving2
    <2>2. CASE ~flags.reading
        BY <1>1, <2>2, SendFact2 DEF Sending2
    <2> QED BY <2>1, <2>2
<1>8. /\ hw' \in Fields2 /\ hw'.tx = hw.tx \o word /\ hw'.open = Len(msg') /\ ~hw'.request
      /\ hw'.rx = hw.rx /\ hw'.wait = hw.wait /\ hw'.rps = hw.rps /\ hw'.txEnd = hw.txEnd /\ hw'.rxOn = hw.rxOn
    <2>1. hw.open - Len(word) = Len(msg') /\ Len(msg') \in Nat
        BY <1>3, <1>5, <1>7
    <2>2. hw' = [hw EXCEPT !.tx = hw.tx \o word, !.open = Len(msg'), !.request = FALSE]
        BY <1>1, <1>2, <2>1 DEF Fields2
    <2> HIDE DEF word
    <2> QED BY <1>2, <1>6, <2>1, <2>2 DEF Fields2
<1>9. pc' \in {"request", "sample", "end"}
    BY <1>1
<1>10. DataInv'
    BY <1>1, <1>2, <1>3, <1>5, <1>8, <1>9, DataFrame DEF Places
<1>11. CASE flags.reading
    <2>1. /\ call.op \in {"smread", "read"} /\ call.size > 0
          /\ Len(buffer) + left = call.size /\ Got /\ left \in Nat /\ Receiving2
        BY <1>1, <1>11, ReceiveFact2
    <2>2. /\ msg = <<AddressR>> /\ hw.tx = <<>> /\ hw.rx = <<>> /\ ~hw.rxOn
          /\ left = Len(hw.rx) + hw.wait /\ hw.rps = Len(buffer) + Len(hw.rx)
        BY <1>1, <2>1 DEF Receiving2
    <2>3. Len(msg) = 1 /\ msg[1] = AddressR
        BY <2>2
    <2>4. Len(word) = 1 /\ Len(msg') = 0
        BY <1>4, <1>5, <2>3
    <2>5. msg' = <<>> /\ pc' = "sample"
        BY <1>1, <1>5, <1>11, <2>4, EmptyFact
    <2>6. hw'.tx = <<AddressR>>
        <3>1. word[1] = AddressR
            BY <1>5, <2>3, <2>4
        <3>2. hw.tx \o word = word
            BY <1>5, <2>2, ConcatEmptySeq
        <3>3. word = <<AddressR>>
            <4> HIDE DEF word
            <4>1. <<AddressR>> \in Seq(Int) /\ Len(<<AddressR>>) = 1 /\ <<AddressR>>[1] = AddressR
                BY DEF AddressR
            <4>2. \A i \in 1 .. Len(word) : word[i] = <<AddressR>>[i]
                BY <2>4, <3>1, <4>1
            <4> QED BY <1>5, <2>4, <4>1, <4>2, SeqEqual
        <3> QED BY <1>8, <3>2, <3>3
    <2>7. left = call.size
        BY <1>1, <2>1 DEF Receiving2
    <2>8. Got'
        BY <1>1, <1>8, <2>1, GotFrame
    <2>9. Receiving2'
        BY <1>1, <1>8, <2>2, <2>4, <2>5, <2>6, <2>7 DEF Receiving2
    <2> QED BY <1>1, <1>10, <1>11, <2>1, <2>5, <2>8, <2>9, AtReceive
<1>12. CASE ~flags.reading
    <2>1. call.op \in {"write", "smread"} /\ Sending2
        BY <1>1, <1>12, SendFact2
    <2>2. PICK k \in Nat : OnItsWay(k)
        BY <1>1, <1>12, SendFact2
    <2>3. k + Len(hw.tx) + Len(msg) = Total /\ Spells(hw.tx, k) /\ Spells(msg, k + Len(hw.tx)) /\ SlaveAt(k)
        BY <2>2 DEF OnItsWay
    <2>4. k + Len(hw.tx) \in Nat
        BY <1>4, <2>2
    <2>5. Spells(word, k + Len(hw.tx)) /\ Spells(msg', k + Len(hw.tx) + Len(word))
        BY <1>1, <1>3, <1>4, <2>3, <2>4, SpellsCut
    <2>6. Spells(hw'.tx, k)
        <3> HIDE DEF word
        <3>1. Spells(hw.tx \o word, k)
            BY <1>4, <1>5, <2>2, <2>3, <2>5, SpellsJoin
        <3> QED BY <1>8, <3>1
    <2> HIDE DEF word
    <2>7. k + Len(hw'.tx) = k + Len(hw.tx) + Len(word) /\ k + Len(hw'.tx) + Len(msg') = k + Len(hw.tx) + Len(msg)
        <3>1. Len(hw'.tx) = Len(hw.tx) + Len(word)
            BY <1>6, <1>8
        <3>2. k \in Nat /\ Len(hw.tx) \in Nat /\ Len(word) \in Nat /\ Len(msg') \in Nat
            BY <1>4, <1>5, <2>2
        <3> DEFINE t == Len(hw.tx)
                   u == Len(word)
                   v == Len(msg')
        <3>3. k \in Nat /\ t \in Nat /\ u \in Nat /\ v \in Nat
            BY <3>2
        <3> HIDE DEF t, u, v
        <3>4. k + (t + u) = k + t + u /\ k + (t + u) + v = k + t + (u + v)
            BY <3>3
        <3> QED BY <1>5, <3>1, <3>4 DEF t, u, v
    <2>8. OnItsWay(k)'
        <3>1. SlaveAt(k)'
            BY <1>1, <2>3, SlaveFrame
        <3>2. Spells(msg', k + Len(hw'.tx)) /\ k + Len(hw'.tx) + Len(msg') = Total
            BY <2>3, <2>5, <2>7
        <3> QED BY <1>1, <2>2, <2>6, <3>1, <3>2, OnWayIntro
    <2>9. hw'.txEnd => hw'.tx = <<>> /\ msg' = <<>>
        <3> SUFFICES ASSUME hw.txEnd PROVE hw'.tx = <<>> /\ msg' = <<>>
            BY <1>8
        <3>1. Len(hw.tx) = 0 /\ Len(msg) = 0
            BY <2>1, EmptyFact DEF Sending2
        <3>2. Len(word) = 0 /\ Len(msg') = 0
            BY <1>5, <3>1
        <3>3. Len(hw'.tx) = 0 /\ hw'.tx \in Seq(Int)
            BY <1>6, <1>8, <3>1, <3>2
        <3> QED BY <1>5, <3>2, <3>3, EmptyFact
    <2>10. pc' \in {"request", "end"} /\ (pc' = "end" => msg' = <<>>)
        BY <1>1, <1>12
    <2>11. Sending2'
        BY <1>8, <2>1, <2>9, <2>10 DEF Sending2
    <2> QED BY <1>1, <1>10, <1>12, <2>1, <2>2, <2>8, <2>10, <2>11, AtSend
<1> QED BY <1>11, <1>12

\* The protocol status is read.
LEMMA Sample2Keeps == ASSUME DriverInv, TransferInv, chip = "v2", Sample2 PROVE TransferInv'
<1>1. /\ pc = "sample" /\ flags' = [flags EXCEPT !.receiving = @ \/ hw.rxOn] /\ pc' = "act"
      /\ UNCHANGED <<chip, calls, slave, call, msg, left, buffer, hw>>
    BY DEF Sample2, Keep
<1>2. flags.reading /\ flags'.reading
    <2>1. /\ flags \in [reading : BOOLEAN, address : BOOLEAN, stop : BOOLEAN, receiving : BOOLEAN]
          /\ flags.reading
        BY <1>1 DEF DriverInv, FlagsInv
    <2> QED BY <1>1, <2>1
<1>3. /\ DataInv /\ CallInv /\ hw \in Fields2 /\ call.op \in {"smread", "read"} /\ call.size > 0
      /\ Len(buffer) + left = call.size /\ Got /\ Receiving2
    BY <1>1, <1>2, ReceiveFact2
<1>4. slave \in Slaves /\ msg \in Seq(Int) /\ buffer \in Seq(Int)
    BY <1>3, CallFact
<1>5. DataInv'
    BY <1>1, <1>3, <1>4, DataFrame DEF Places
<1>6. Got'
    BY <1>1, <1>3, GotFrame
<1>7. Receiving2'
    BY <1>1, <1>3 DEF Receiving2
<1> QED BY <1>1, <1>2, <1>3, <1>5, <1>6, <1>7, AtReceive

\* The read loop takes a word, when one is announced, and ends when it was the last.
LEMMA Act2Keeps == ASSUME DriverInv, TransferInv, chip = "v2", Act2 PROVE TransferInv'
<1> DEFINE h == IF TakesWord THEN [hw EXCEPT !.rx = Rest(@, WordSize), !.request = FALSE] ELSE hw
<1>1. /\ pc = "act" /\ buffer' = buffer \o Word2(Taken2) /\ left' = left - Taken2
      /\ IF left' # 0 \/ ~sample.txEnd
         THEN hw' = h /\ pc' = "sample" /\ UNCHANGED call
         ELSE hw' = (IF h.rps = call.size THEN Cleared(h) ELSE Idle2) /\ Returns(h.rps = call.size)
      /\ UNCHANGED <<chip, calls, slave, msg, flags>>
    BY DEF Act2, Keep
<1>2. flags.reading
    BY <1>1 DEF DriverInv, FlagsInv
<1>3. /\ DataInv /\ CallInv /\ hw \in Fields2 /\ call.op \in {"smread", "read"} /\ call.size > 0
      /\ Len(buffer) + left = call.size /\ Got /\ left \in Nat /\ Receiving2
    BY <1>1, <1>2, ReceiveFact2
<1>4. /\ slave \in Slaves /\ msg \in Seq(Int) /\ buffer \in Seq(Int) /\ Len(buffer) \in Nat
      /\ call.size \in Nat /\ call.reg \in 0 .. Others
    BY <1>3, CallFact
<1>5. WordSize \in Nat /\ WordSize >= 2 /\ hw.rx \in Seq(Int) /\ Len(hw.rx) \in Nat /\ hw.wait \in Nat
    BY <1>3, I2cAssumption, EmptyFact DEF Fields2
<1>6. /\ hw.open = Len(msg) /\ left = Len(hw.rx) + hw.wait /\ hw.rps = Len(buffer) + Len(hw.rx) /\ msg = <<>>
      /\ hw.tx # <<>> => hw.tx = <<AddressR>> /\ ~hw.rxOn /\ hw.rx = <<>> /\ left = call.size
      /\ hw.request => Len(hw.rx) >= Min({left, WordSize})
    BY <1>1, <1>3 DEF Receiving2
\* The word, and what stays in the FIFO.
<1> DEFINE w == Word2(Taken2)
           rest == IF TakesWord THEN Rest(hw.rx, WordSize) ELSE hw.rx
<1>7. /\ w \in Seq(Int) /\ rest \in Seq(Int) /\ Len(w) = Taken2 /\ Len(w) \in Nat /\ Len(rest) \in Nat
      /\ Len(w) + Len(rest) = Len(hw.rx)
      /\ \A i \in 1 .. Len(w) : w[i] = hw.rx[i]
      /\ \A i \in 1 .. Len(rest) : rest[i] = hw.rx[Len(w) + i]
    <2>1. CASE TakesWord
        <3> DEFINE n == Min({left, WordSize})
        <3>1. hw.request /\ left # 0 /\ Len(hw.rx) >= n
            BY <1>6, <2>1 DEF TakesWord
        <3>2. n = (IF left <= WordSize THEN left ELSE WordSize) /\ n \in Nat
            BY <1>3, <1>5, MinValue
        <3>3. Taken2 = n
            BY <2>1 DEF Taken2
        <3> HIDE DEF n
        <3>4. n = IF WordSize <= Len(hw.rx) THEN WordSize ELSE Len(hw.rx)
            BY <1>3, <1>5, <1>6, <3>1, <3>2
        <3>5. /\ rest \in Seq(Int) /\ Len(rest) \in Nat /\ n + Len(rest) = Len(hw.rx)
              /\ \A i \in 1 .. Len(rest) : rest[i] = hw.rx[n + i]
            <4>1. rest = Rest(hw.rx, WordSize)
                BY <2>1
            <4> HIDE DEF rest
            <4>2. Len(First(hw.rx, WordSize)) = n
                BY <1>5, <3>4, CutFact
            <4>3. /\ Rest(hw.rx, WordSize) \in Seq(Int) /\ Len(Rest(hw.rx, WordSize)) \in Nat
                  /\ Len(First(hw.rx, WordSize)) + Len(Rest(hw.rx, WordSize)) = Len(hw.rx)
                  /\ \A i \in 1 .. Len(Rest(hw.rx, WordSize)) :
                         Rest(hw.rx, WordSize)[i] = hw.rx[Len(First(hw.rx, WordSize)) + i]
                BY <1>5, CutFact
            <4> QED BY <4>1, <4>2, <4>3
        <3>6. w = [i \in 1 .. n |-> IF i <= Len(hw.rx) THEN hw.rx[i] ELSE Undefined]
            BY <3>3 DEF Word2
        <3> HIDE DEF w
        <3>7. ASSUME NEW i \in 1 .. n PROVE i <= Len(hw.rx) /\ hw.rx[i] \in Int
            <4>1. i \in 1 .. Len(hw.rx)
                BY <1>5, <3>1, <3>2
            <4> QED BY <1>5, <4>1, ElementOfSeq
        <3>8. w = [i \in 1 .. n |-> hw.rx[i]]
            BY <3>6, <3>7
        <3>9. w \in Seq(Int) /\ Len(w) = n /\ \A i \in 1 .. n : w[i] = hw.rx[i]
            <4>1. \A i \in 1 .. n : hw.rx[i] \in Int
                BY <3>7
            <4> QED BY <3>2, <3>8, <4>1
        <3> HIDE DEF rest
        <3> QED BY <3>2, <3>3, <3>5, <3>9
    <2>2. CASE ~TakesWord
        <3>1. Taken2 = 0 /\ rest = hw.rx
            BY <2>2 DEF Taken2
        <3>2. w = <<>>
            <4>1. w = [i \in 1 .. 0 |-> IF i <= Len(hw.rx) THEN hw.rx[i] ELSE Undefined]
                BY <3>1 DEF Word2
            <4> HIDE DEF w
            <4> QED BY <4>1
        <3> HIDE DEF w, rest
        <3>3. w \in Seq(Int) /\ Len(w) = 0 /\ \A i \in 1 .. Len(rest) : Len(w) + i = i
            BY <3>2, EmptyFact
        <3> QED BY <1>5, <3>1, <3>3
    <2> QED BY <2>1, <2>2
<1>8. /\ h \in Fields2 /\ h.rx = rest /\ h.tx = hw.tx /\ h.open = hw.open /\ h.wait = hw.wait /\ h.rps = hw.rps
      /\ h.rxOn = hw.rxOn /\ (TakesWord => ~h.request) /\ (~TakesWord => h.request = hw.request)
    <2>1. CASE TakesWord
        <3>1. h = [hw EXCEPT !.rx = rest, !.request = FALSE] /\ h.rx = rest
            BY <1>3, <2>1 DEF Fields2
        <3> HIDE DEF h, rest, w
        <3> QED BY <1>3, <1>7, <2>1, <3>1 DEF Fields2
    <2>2. CASE ~TakesWord
        BY <1>3, <2>2
    <2> QED BY <2>1, <2>2
<1> HIDE DEF h, rest, w
<1>9. /\ left' \in Nat /\ left' = Len(rest) + hw.wait /\ hw.rps = Len(buffer) + Len(w) + Len(rest)
      /\ Len(buffer) + Len(w) + left' = call.size
    <2>1. left' = left - Len(w)
        BY <1>1, <1>7
    <2>2. /\ left - Len(w) \in Nat /\ left - Len(w) = Len(rest) + hw.wait
          /\ Len(buffer) + Len(hw.rx) = Len(buffer) + Len(w) + Len(rest)
          /\ Len(buffer) + Len(w) + (left - Len(w)) = Len(buffer) + left
        <3>1. /\ Len(buffer) \in Nat /\ Len(w) \in Nat /\ Len(rest) \in Nat /\ Len(hw.rx) \in Nat
              /\ left \in Nat /\ hw.wait \in Nat
              /\ Len(w) + Len(rest) = Len(hw.rx) /\ left = Len(hw.rx) + hw.wait
            BY <1>3, <1>4, <1>5, <1>6, <1>7
        <3> DEFINE b == Len(buffer)
                   n == Len(w)
                   r == Len(rest)
                   x == Len(hw.rx)
                   q == hw.wait
        <3>2. b \in Nat /\ n \in Nat /\ r \in Nat /\ x \in Nat /\ q \in Nat /\ n + r = x /\ left = x + q
            BY <3>1
        <3> HIDE DEF b, n, r, x, q
        <3>3. left - n \in Nat /\ left - n = r + q /\ b + x = b + n + r /\ b + n + (left - n) = b + left
            BY <3>1, <3>2
        <3> QED BY <3>3 DEF b, n, r, x, q
    <2> QED BY <1>3, <1>6, <2>1, <2>2
<1>10. buffer' = buffer \o w
    BY <1>1 DEF w
<1>11. buffer' \in Seq(Int) /\ Len(buffer') = Len(buffer) + Len(w)
    BY <1>4, <1>7, <1>10, JoinFact
<1>12. ASSUME hw'.rx = rest, call'.reg = call.reg PROVE Got'
    BY <1>1, <1>3, <1>4, <1>5, <1>7, <1>10, <1>12, MoveKeeps
<1>13. CASE left' # 0 \/ ~sample.txEnd
    <2>1. hw' = h /\ pc' = "sample" /\ call' = call
        BY <1>1, <1>13
    <2>2. DataInv'
        BY <1>1, <1>3, <1>4, <1>8, <1>11, <2>1, DataFrame DEF Places
    <2>3. Got'
        BY <1>8, <1>12, <2>1
    <2>4. Len(buffer') + left' = call'.size
        BY <1>9, <1>11, <2>1
    <2>5. hw'.tx # <<>> => hw'.tx = <<AddressR>> /\ ~hw'.rxOn /\ hw'.rx = <<>> /\ left' = call'.size
        <3> SUFFICES ASSUME hw'.tx # <<>>
                     PROVE  hw'.tx = <<AddressR>> /\ ~hw'.rxOn /\ hw'.rx = <<>> /\ left' = call'.size
            OBVIOUS
        <3>1. hw.tx = <<AddressR>> /\ ~hw.rxOn /\ hw.rx = <<>> /\ left = call.size
            BY <1>6, <1>8, <2>1
        <3>2. ~TakesWord
            BY <3>1 DEF TakesWord
        <3>3. rest = hw.rx /\ left' = left
            BY <1>1, <1>3, <3>2 DEF rest, Taken2
        <3> QED BY <1>8, <2>1, <3>1, <3>3
    <2>6. hw'.request => Len(hw'.rx) >= Min({left', WordSize})
        <3> SUFFICES ASSUME hw'.request PROVE Len(hw'.rx) >= Min({left', WordSize})
            OBVIOUS
        <3>1. ~TakesWord /\ hw.request
            BY <1>8, <2>1
        <3>2. rest = hw.rx /\ left' = left
            BY <1>1, <1>3, <3>1 DEF rest, Taken2
        <3> QED BY <1>6, <1>8, <2>1, <3>1, <3>2
    <2>7. Receiving2'
        BY <1>1, <1>6, <1>8, <1>9, <1>11, <2>1, <2>5, <2>6 DEF Receiving2
    <2> QED BY <1>1, <1>2, <1>3, <2>1, <2>2, <2>3, <2>4, <2>7, AtReceive
<1>14. CASE ~(left' # 0 \/ ~sample.txEnd)
    <2>1. left' = 0 /\ Returns(h.rps = call.size) /\ hw' = (IF h.rps = call.size THEN Cleared(h) ELSE Idle2)
        BY <1>1, <1>14
    <2>2. Len(rest) = 0 /\ hw.wait = 0 /\ Len(buffer) + Len(w) = call.size
        BY <1>4, <1>5, <1>7, <1>9, <2>1
    <2>3. rest = <<>>
        BY <1>7, <2>2, EmptyFact
    <2>4. hw.rps = call.size
        BY <1>4, <1>7, <1>9, <2>2
    <2>5. hw' = Cleared(h)
        BY <1>8, <2>1, <2>4
    <2>6. hw.tx = <<>>
        <3> SUFFICES ASSUME hw.tx # <<>> PROVE FALSE
            OBVIOUS
        <3>1. hw.rx = <<>> /\ left = call.size
            BY <1>6
        <3>2. Taken2 = 0
            BY <3>1 DEF TakesWord, Taken2
        <3> QED BY <1>1, <1>3, <1>4, <2>1, <3>1, <3>2
    <2>7. hw.open = 0
        BY <1>6, EmptyFact
    <2>8. hw' \in Fields2 /\ hw'.tx = <<>> /\ hw'.rx = <<>> /\ hw'.open = 0 /\ hw'.wait = 0 /\ ~hw'.rxOn
        BY <1>8, <2>2, <2>3, <2>5, <2>6, <2>7, ClearedFact
    <2>9. Quiet'
        BY <1>1, <2>8 DEF Quiet
    <2>10. Len(buffer') = call.size
        BY <1>11, <2>2
    <2>11. call'.reg = call.reg => Got'
        BY <1>12, <2>3, <2>8
    <2> QED BY <1>1, <1>2, <1>3, <1>11, <2>1, <2>8, <2>9, <2>10, <2>11, ReturnsRead
<1> QED BY <1>13, <1>14

\* The controller of the PMB8876 works in the middle of a transfer only.
LEMMA Busy2 ==
    ASSUME DriverInv, TransferInv, chip = "v2", hw.open > 0 \/ hw.rxOn \/ hw.tx # <<>>
    PROVE  \/ pc \in {"request", "end"} /\ ~flags.reading
           \/ pc \in {"request", "sample", "act"} /\ flags.reading
<1>1. ~Quiet
    BY DEF Quiet
<1>2. pc \in {"request", "end", "sample", "act"}
    BY <1>1 DEF TransferInv, DataInv, RestInv, Places
<1>3. pc = "end" => ~flags.reading
    BY DEF TransferInv, SendInv
<1>4. pc \in {"sample", "act"} => flags.reading
    BY DEF DriverInv, FlagsInv
<1> QED BY <1>2, <1>3, <1>4

\* In the middle of a write nothing of it moves.
LEMMA Send2Frame ==
    ASSUME DriverInv, TransferInv, chip = "v2", pc \in {"request", "end"}, ~flags.reading,
           UNCHANGED <<chip, call, calls, pc, msg, left, buffer, flags, slave>>, hw' \in Fields2,
           hw'.tx = hw.tx, hw'.rx = hw.rx, hw'.open = hw.open, hw'.wait = hw.wait,
           hw'.rxOn = hw.rxOn, hw'.txEnd = hw.txEnd
    PROVE  TransferInv'
<1>1. DataInv /\ CallInv /\ call.op \in {"write", "smread"} /\ Sending2
    BY SendFact2
<1>2. PICK k \in Nat : OnItsWay(k)
    BY SendFact2
<1>3. DataInv'
    <2>1. slave \in Slaves /\ msg \in Seq(Int) /\ buffer \in Seq(Int) /\ pc \in Places
        BY <1>1 DEF DataInv
    <2> QED BY <1>1, <2>1, DataFrame
<1>4. OnItsWay(k)'
    <2>1. SlaveAt(k)'
        BY <1>2, SlaveFrame DEF OnItsWay
    <2>2. k + Len(hw'.tx) + Len(msg') = Total /\ Spells(hw'.tx, k) /\ Spells(msg', k + Len(hw'.tx))
        BY <1>2 DEF OnItsWay
    <2> QED BY <1>2, <2>1, <2>2, OnWayIntro
<1>5. Sending2'
    BY <1>1 DEF Sending2
<1> QED BY <1>1, <1>2, <1>3, <1>4, <1>5, AtSend

\* The controller of the PMB8876 asks for the next word, or announces one.
LEMMA Hw2RequestKeeps ==
    ASSUME DriverInv, TransferInv, chip = "v2", Hw2Request, UNCHANGED <<chip, call, calls, driver, stuck>>
    PROVE  TransferInv'
<1>1. UNCHANGED <<pc, msg, left, buffer, flags>> /\ call' = call /\ calls' = calls /\ chip' = chip
    BY DEF driver
<1>2. /\ hw.open > 0 \/ (hw.rxOn /\ (Len(hw.rx) >= WordSize \/ (hw.wait = 0 /\ hw.rx # <<>>)))
      /\ hw' = [hw EXCEPT !.request = TRUE] /\ slave' = slave
    BY DEF Hw2Request
<1>3. DataInv /\ CallInv /\ hw \in Fields2
    BY DEF TransferInv, DriverInv, DataInv
<1>4. /\ hw' \in Fields2 /\ hw'.tx = hw.tx /\ hw'.rx = hw.rx /\ hw'.open = hw.open /\ hw'.wait = hw.wait
      /\ hw'.rps = hw.rps /\ hw'.txEnd = hw.txEnd /\ hw'.rxOn = hw.rxOn
    BY <1>2, <1>3 DEF Fields2
<1>5. CASE pc \in {"request", "end"} /\ ~flags.reading
    BY <1>1, <1>2, <1>4, <1>5, Send2Frame
<1>6. CASE pc \in {"request", "sample", "act"} /\ flags.reading
    <2>1. /\ call.op \in {"smread", "read"} /\ call.size > 0
          /\ Len(buffer) + left = call.size /\ Got /\ left \in Nat /\ Receiving2
        BY <1>6, ReceiveFact2
    <2>2. ASSUME pc # "request" PROVE Len(hw.rx) >= Min({left, WordSize})
        <3>1. msg = <<>> /\ hw.open = 0 /\ left = Len(hw.rx) + hw.wait
            BY <2>1, <2>2, EmptyFact DEF Receiving2
        <3>2. Len(hw.rx) >= WordSize \/ hw.wait = 0
            BY <1>2, <3>1
        <3>3. /\ WordSize \in Nat /\ Len(hw.rx) \in Nat
            BY <1>3, I2cAssumption, EmptyFact DEF Fields2
        <3>4. Min({left, WordSize}) \in Nat /\ Min({left, WordSize}) <= left /\ Min({left, WordSize}) <= WordSize
            BY <2>1, <3>3, MinFact
        <3>5. hw.wait = 0 => Len(hw.rx) = left
            BY <3>1, <3>3
        <3> DEFINE x == Len(hw.rx)
                   m == Min({left, WordSize})
        <3>6. (x >= WordSize \/ x = left) /\ x \in Nat /\ m \in Nat /\ m <= left /\ m <= WordSize
            BY <3>2, <3>3, <3>4, <3>5
        <3> HIDE DEF x, m
        <3>7. x >= m
            BY <2>1, <3>3, <3>6
        <3> QED BY <3>7 DEF x, m
    <2>3. Receiving2'
        BY <1>1, <1>4, <2>1, <2>2 DEF Receiving2
    <2>4. Got'
        BY <1>1, <1>2, <1>4, <2>1, GotFrame
    <2>5. DataInv'
        <3>1. slave \in Slaves /\ msg \in Seq(Int) /\ buffer \in Seq(Int) /\ pc \in Places
            BY <1>3 DEF DataInv
        <3> QED BY <1>1, <1>2, <1>3, <1>4, <3>1, DataFrame
    <2> QED BY <1>1, <1>6, <2>1, <2>3, <2>4, <2>5, AtReceive
<1>7. hw.open > 0 \/ hw.rxOn \/ hw.tx # <<>>
    BY <1>2
<1> QED BY <1>5, <1>6, <1>7, Busy2

\* A byte that the PMB8876 receives.
LEMMA Hw2ReceiveKeeps ==
    ASSUME DriverInv, TransferInv, chip = "v2", Hw2Receive, UNCHANGED <<chip, call, calls, driver, stuck>>
    PROVE  TransferInv'
<1>1. UNCHANGED <<pc, msg, left, buffer, flags>> /\ call' = call /\ calls' = calls /\ chip' = chip
    BY DEF driver
<1>2. /\ hw.rxOn /\ hw.wait > 0 /\ slave' = SlaveGave(slave)
      /\ hw' = [hw EXCEPT !.rx = Append(@, SlaveGives(slave)), !.wait = @ - 1, !.rps = @ + 1,
                          !.txEnd = hw.wait = 1]
    BY DEF Hw2Receive
<1>3. DataInv /\ CallInv /\ hw \in Fields2
    BY DEF TransferInv, DriverInv, DataInv
<1>4. /\ slave \in Slaves /\ msg \in Seq(Int) /\ buffer \in Seq(Int) /\ call.reg \in 0 .. Others
      /\ Len(buffer) \in Nat /\ pc \in Places
    BY <1>3, CallFact DEF DataInv
<1>5. ~(pc \in {"request", "end"} /\ ~flags.reading)
    <2> SUFFICES ASSUME pc \in {"request", "end"}, ~flags.reading PROVE FALSE
        OBVIOUS
    <2>1. Sending2
        BY SendFact2
    <2> QED BY <1>2, <2>1 DEF Sending2
<1>6. pc \in {"request", "sample", "act"} /\ flags.reading
    BY <1>2, <1>5, Busy2
<1>7. /\ call.op \in {"smread", "read"} /\ call.size > 0
      /\ Len(buffer) + left = call.size /\ Got /\ left \in Nat /\ Receiving2
    BY <1>6, ReceiveFact2
<1>8. /\ pc # "request" /\ hw.tx = <<>> /\ hw.open = Len(msg) /\ msg = <<>>
      /\ left = Len(hw.rx) + hw.wait /\ hw.rps = Len(buffer) + Len(hw.rx)
      /\ hw.request => Len(hw.rx) >= Min({left, WordSize})
    BY <1>2, <1>7 DEF Receiving2
<1>9. hw.rx \in Seq(Int) /\ Len(hw.rx) \in Nat /\ hw.wait \in Nat /\ hw.rps \in Nat
    BY <1>3, EmptyFact DEF Fields2
<1>10. hw'.rx = Append(hw.rx, SlaveGives(slave)) /\ hw'.wait = hw.wait - 1 /\ hw'.rps = hw.rps + 1
    BY <1>2, <1>3 DEF Fields2
<1>11. slave' \in Slaves /\ hw'.rx \in Seq(Int) /\ Len(hw'.rx) = Len(hw.rx) + 1 /\ Got'
    BY <1>1, <1>2, <1>4, <1>7, <1>9, <1>10, GiveKeeps
<1>12. hw.wait - 1 \in Nat /\ hw.rps + 1 \in Nat
    BY <1>2, <1>9
<1>13. /\ hw' \in Fields2 /\ hw'.tx = hw.tx /\ hw'.open = hw.open /\ hw'.rxOn = hw.rxOn /\ hw'.request = hw.request
    <2>1. hw' = [hw EXCEPT !.rx = hw'.rx, !.wait = hw.wait - 1, !.rps = hw.rps + 1, !.txEnd = hw.wait = 1]
        BY <1>2, <1>3, <1>10 DEF Fields2
    <2>2. (hw.wait = 1) \in BOOLEAN
        OBVIOUS
    <2> QED BY <1>3, <1>11, <1>12, <2>1, <2>2 DEF Fields2
<1>14. DataInv'
    BY <1>1, <1>3, <1>4, <1>11, <1>13, DataFrame
<1>15. left' = Len(hw'.rx) + hw'.wait /\ hw'.rps = Len(buffer') + Len(hw'.rx)
    <2> DEFINE x == Len(hw.rx)
               q == hw.wait
               b == Len(buffer)
    <2>1. x \in Nat /\ q \in Nat /\ b \in Nat /\ left = x + q
        BY <1>4, <1>8, <1>9
    <2> HIDE DEF x, q, b
    <2>2. x + 1 + (q - 1) = x + q /\ b + x + 1 = b + (x + 1)
        BY <2>1
    <2>3. Len(hw'.rx) = x + 1 /\ hw'.wait = q - 1 /\ hw'.rps = b + x + 1 /\ Len(buffer') = b /\ left' = left
        BY <1>1, <1>8, <1>10, <1>11 DEF x, q, b
    <2> QED BY <2>1, <2>2, <2>3
<1>16. hw'.request => Len(hw'.rx) >= Min({left', WordSize})
    <2> SUFFICES ASSUME hw.request PROVE Len(hw'.rx) >= Min({left, WordSize})
        BY <1>1, <1>13
    <2> DEFINE x == Len(hw.rx)
               m == Min({left, WordSize})
    <2>1. x \in Nat /\ m \in Nat /\ x >= m
        BY <1>7, <1>8, <1>9, MinFact, I2cAssumption
    <2>2. Len(hw'.rx) = x + 1
        BY <1>11
    <2> HIDE DEF x, m
    <2>3. x + 1 >= m
        BY <2>1
    <2> QED BY <2>2, <2>3 DEF m
<1>17. Receiving2'
    BY <1>1, <1>8, <1>13, <1>15, <1>16 DEF Receiving2
<1> QED BY <1>1, <1>6, <1>7, <1>11, <1>14, <1>17, AtReceive

\* A byte on the bus, given by the PMB8876.
LEMMA Hw2SendKeeps ==
    ASSUME DriverInv, TransferInv, chip = "v2", Hw2Send, UNCHANGED <<chip, call, calls, driver, stuck>>
    PROVE  TransferInv'
<1> DEFINE last == Len(hw.tx) = 1 /\ hw.open = 0
           reading == Head(hw.tx) = AddressR
<1>1. UNCHANGED <<pc, msg, left, buffer, flags>> /\ call' = call /\ calls' = calls /\ chip' = chip
    BY DEF driver
<1>2. /\ hw.tx # <<>>
      /\ \/ /\ slave' = SlaveTakes(slave, Head(hw.tx))
            /\ hw' = [hw EXCEPT !.tx = Tail(@), !.txEnd = last /\ ~reading, !.rxOn = reading]
         \/ hw' = [hw EXCEPT !.nack = TRUE, !.halted = TRUE] /\ slave' = slave
    BY DEF Hw2Send
<1>3. DataInv /\ CallInv /\ hw \in Fields2
    BY DEF TransferInv, DriverInv, DataInv
<1>4. /\ slave \in Slaves /\ msg \in Seq(Int) /\ buffer \in Seq(Int) /\ Len(buffer) \in Nat /\ Len(msg) \in Nat
      /\ call.size \in Nat /\ call.size < Others /\ Total \in Nat /\ calls \in Nat
      /\ call.op # "read" => call.reg \in {0, 1}
      /\ pc \in Places
    BY <1>3, CallFact DEF DataInv
<1>5. /\ hw.tx \in Seq(Int) /\ Len(hw.tx) \in Nat /\ Len(hw.tx) >= 1 /\ Tail(hw.tx) \in Seq(Int)
      /\ Len(Tail(hw.tx)) = Len(hw.tx) - 1 /\ (Len(hw.tx) = 1 <=> Tail(hw.tx) = <<>>)
    <2>1. hw.tx \in Seq(Int)
        BY <1>3 DEF Fields2
    <2>2. Len(hw.tx) \in Nat /\ Len(hw.tx) >= 1 /\ Tail(hw.tx) \in Seq(Int) /\ Len(Tail(hw.tx)) = Len(hw.tx) - 1
        BY <1>2, <2>1, TailFact
    <2>3. Tail(hw.tx) = <<>> <=> Len(Tail(hw.tx)) = 0
        BY <2>2, EmptyFact
    <2> QED BY <2>1, <2>2, <2>3
<1>6. \/ pc \in {"request", "end"} /\ ~flags.reading
      \/ pc \in {"request", "sample", "act"} /\ flags.reading
    BY <1>2, Busy2
<1>7. CASE hw' = [hw EXCEPT !.nack = TRUE, !.halted = TRUE] /\ slave' = slave
    <2>1. /\ hw' \in Fields2 /\ hw'.tx = hw.tx /\ hw'.rx = hw.rx /\ hw'.open = hw.open /\ hw'.wait = hw.wait
          /\ hw'.rps = hw.rps /\ hw'.txEnd = hw.txEnd /\ hw'.rxOn = hw.rxOn /\ hw'.request = hw.request
        BY <1>3, <1>7 DEF Fields2
    <2>2. CASE pc \in {"request", "end"} /\ ~flags.reading
        BY <1>1, <1>7, <2>1, <2>2, Send2Frame
    <2>3. CASE pc \in {"request", "sample", "act"} /\ flags.reading
        <3>1. /\ call.op \in {"smread", "read"} /\ call.size > 0
              /\ Len(buffer) + left = call.size /\ Got /\ Receiving2
            BY <2>3, ReceiveFact2
        <3>2. Receiving2'
            BY <1>1, <2>1, <3>1 DEF Receiving2
        <3>3. Got'
            BY <1>1, <1>7, <2>1, <3>1, GotFrame
        <3>4. DataInv'
            BY <1>1, <1>3, <1>4, <1>7, <2>1, DataFrame
        <3> QED BY <1>1, <2>3, <3>1, <3>2, <3>3, <3>4, AtReceive
    <2> QED BY <1>6, <2>2, <2>3
<1>8. CASE /\ slave' = SlaveTakes(slave, Head(hw.tx))
           /\ hw' = [hw EXCEPT !.tx = Tail(@), !.txEnd = last /\ ~reading, !.rxOn = reading]
    <2>1. /\ hw' \in Fields2 /\ hw'.tx = Tail(hw.tx) /\ hw'.rx = hw.rx /\ hw'.open = hw.open
          /\ hw'.wait = hw.wait /\ hw'.rps = hw.rps /\ hw'.request = hw.request
          /\ (hw'.txEnd <=> last /\ ~reading) /\ (hw'.rxOn <=> reading)
        <3>1. reading \in BOOLEAN /\ (last /\ ~reading) \in BOOLEAN
            OBVIOUS
        <3> HIDE DEF last, reading
        <3> QED BY <1>3, <1>5, <1>8, <3>1 DEF Fields2
    <2>2. CASE pc \in {"request", "end"} /\ ~flags.reading
        <3>1. call.op \in {"write", "smread"} /\ Sending2
            BY <2>2, SendFact2
        <3>2. PICK k \in Nat : OnItsWay(k)
            BY <2>2, SendFact2
        <3>3. k + Len(hw.tx) + Len(msg) = Total /\ Spells(hw.tx, k) /\ Spells(msg, k + Len(hw.tx)) /\ SlaveAt(k)
            BY <3>2 DEF OnItsWay
        <3>4. Head(hw.tx) = Stream(k + 1) /\ Spells(Tail(hw.tx), k + 1)
            BY <1>2, <1>5, <3>3, SpellsTail
        <3>5. call.reg \in {0, 1} /\ k < Total
            BY <1>4, <1>5, <3>1, <3>3
        <3>6. slave' \in Slaves /\ SlaveAt(k + 1)'
            BY <1>1, <1>4, <1>8, <3>3, <3>4, <3>5, TakeKeeps
        <3>7. DataInv'
            BY <1>1, <1>3, <1>4, <2>1, <3>6, DataFrame
        <3>8. k + 1 \in Nat /\ k + 1 + Len(hw'.tx) = k + Len(hw.tx)
            <4>1. Len(hw'.tx) = Len(hw.tx) - 1
                BY <1>5, <2>1
            <4>2. k + 1 + (Len(hw.tx) - 1) = k + Len(hw.tx) /\ k + 1 \in Nat
                BY <1>5, <3>2, SumFact
            <4> QED BY <4>1, <4>2
        <3>9. OnItsWay(k + 1)'
            <4>1. k + 1 + Len(hw'.tx) + Len(msg') = Total
                BY <1>1, <3>3, <3>8
            <4>2. Spells(hw'.tx, k + 1) /\ Spells(msg', k + 1 + Len(hw'.tx))
                BY <1>1, <2>1, <3>3, <3>4, <3>8
            <4> QED BY <1>1, <3>6, <3>8, <4>1, <4>2, OnWayIntro
        <3>10. ~reading
            <4>1. k + 1 >= 1
                OBVIOUS
            <4>2. Stream(k + 1) # AddressR
                BY <1>4, <3>5, <3>8, <4>1, StreamFact
            <4> QED BY <3>4, <4>2
        <3>11. hw'.txEnd => hw'.tx = <<>> /\ msg' = <<>>
            <4> SUFFICES ASSUME last PROVE hw'.tx = <<>> /\ msg' = <<>>
                BY <2>1
            <4>1. Len(msg) = 0
                BY <3>1 DEF Sending2
            <4> QED BY <1>1, <1>4, <1>5, <2>1, <4>1, EmptyFact
        <3>12. Sending2'
            BY <1>1, <2>1, <3>1, <3>10, <3>11 DEF Sending2
        <3> QED BY <1>1, <2>2, <3>1, <3>7, <3>8, <3>9, <3>12, AtSend
    <2>3. CASE pc \in {"request", "sample", "act"} /\ flags.reading
        <3>1. /\ call.op \in {"smread", "read"} /\ call.size > 0
              /\ Len(buffer) + left = call.size /\ Got /\ Receiving2
            BY <2>3, ReceiveFact2
        <3>2. hw.tx = <<AddressR>> /\ pc # "request"
            BY <1>2, <3>1 DEF Receiving2
        <3>3. Head(hw.tx) = AddressR /\ Tail(hw.tx) = <<>>
            <4>1. Len(hw.tx) = 1 /\ hw.tx[1] = AddressR
                BY <3>2
            <4>2. Head(hw.tx) = hw.tx[1]
                BY <1>2, <1>5, TailFact
            <4> QED BY <1>5, <4>1, <4>2
        <3>4. slave' = slave
            BY <1>8, <3>3 DEF SlaveTakes, AddressR, AddressW
        <3>5. hw'.tx = <<>>
            BY <2>1, <3>3
        <3>6. DataInv'
            BY <1>1, <1>3, <1>4, <2>1, <3>4, DataFrame
        <3>7. Got'
            BY <1>1, <2>1, <3>1, <3>4, GotFrame
        <3>8. Receiving2'
            BY <1>1, <2>1, <3>1, <3>2, <3>5 DEF Receiving2
        <3> QED BY <1>1, <2>3, <3>1, <3>6, <3>7, <3>8, AtReceive
    <2> QED BY <1>6, <2>2, <2>3
<1> QED BY <1>2, <1>7, <1>8

-----------------------------------------------------------------------------
\* Every step keeps the invariant.

\* A call begins.
LEMMA CallerKeeps == ASSUME DriverInv, TransferInv, Caller PROVE TransferInv'
<1>1. PICK n \in Sizes : \/ \E reg \in {0, 1} : i2c_smbus_write(reg, n) \/ i2c_smbus_read(reg, n)
                         \/ i2c_read(n)
    BY DEF Caller
<1>2. n \in Nat /\ n < Others /\ Others \in Nat /\ Others >= 1
    BY RegistersFact
<1>3. /\ pc = "idle" /\ calls' = calls + 1 /\ buffer' = <<>> /\ flags' = NoFlags
      /\ UNCHANGED <<chip, hw, slave>>
    BY <1>1 DEF i2c_smbus_write, i2c_smbus_read, i2c_read, Begins
<1>4. DataInv /\ Quiet
    BY <1>3 DEF TransferInv, RestInv
<1>5. /\ hw' \in IF chip' = "v1" THEN Fields1 ELSE Fields2
      /\ slave' \in Slaves /\ calls' \in Nat /\ buffer' \in Seq(Int) /\ slave.ptr \in 0 .. Others
    BY <1>3, <1>4, EmptyFact DEF DataInv, Slaves
<1>6. Quiet'
    BY <1>3, <1>4 DEF Quiet
<1>7. ASSUME NEW op, NEW reg \in 0 .. Others, NEW where \in {"write", "read"}, op # "read" => reg \in {0, 1},
             call' = [op |-> op, reg |-> reg, size |-> n, result |-> FALSE],
             msg' \in Seq(Int), pc' = where
      PROVE  DataInv'
    <2>1. call'.op = op /\ call'.reg = reg /\ call'.size = n
        BY <1>7
    <2>2. pc' \in Places'
        BY <1>7 DEF Places
    <2> QED BY <1>2, <1>5, <1>7, <2>1, <2>2 DEF DataInv, Fields1, Fields2, Slaves, Others
<1>8. ASSUME NEW op \in {"write", "smread"}, NEW reg \in {0, 1}, NEW d \in Seq(Int),
             Begins(op, reg, n, <<reg>> \o d, "write"),
             Len(d) = IF op = "write" THEN n ELSE 0,
             \A i \in 1 .. Len(d) : d[i] = Value(calls + 1, i)
      PROVE  TransferInv'
    <2>1. /\ call' = [op |-> op, reg |-> reg, size |-> n, result |-> FALSE]
          /\ msg' = <<reg>> \o d /\ pc' = "write"
        BY <1>8 DEF Begins
    <2>2. call'.op = op /\ call'.reg = reg /\ call'.size = n
        BY <2>1
    <2> DEFINE a == <<reg>>
    <2>3. a \in Seq(Int) /\ Len(a) = 1 /\ a[1] = reg
        OBVIOUS
    <2> HIDE DEF a
    <2>4. /\ msg' \in Seq(Int) /\ Len(msg') = 1 + Len(d) /\ Len(d) \in Nat
          /\ \A i \in 1 .. 1 : msg'[i] = a[i]
          /\ \A i \in 1 .. Len(d) : msg'[1 + i] = d[i]
        <3>1. msg' = a \o d
            BY <2>1 DEF a
        <3>2. /\ a \o d \in Seq(Int) /\ Len(a \o d) = Len(a) + Len(d) /\ Len(d) \in Nat
              /\ \A i \in 1 .. Len(a) : (a \o d)[i] = a[i]
              /\ \A i \in 1 .. Len(d) : (a \o d)[Len(a) + i] = d[i]
            BY <2>3, JoinFact
        <3> QED BY <2>3, <3>1, <3>2
    <2>5. Total' = Len(d) + 2
        BY <1>2, <1>8, <2>2 DEF Total
    <2>6. Len(msg') = Total' - 1
        BY <2>4, <2>5
    <2>7. ASSUME NEW i \in 1 .. Len(msg') PROVE msg'[i] = Stream(1 + i)'
        <3>1. CASE i = 1
            <4>1. msg'[1] = reg
                BY <2>3, <2>4
            <4>2. Stream(1 + 1)' = call'.reg
                BY DEF Stream
            <4> QED BY <2>2, <3>1, <4>1, <4>2
        <3>2. CASE i # 1
            <4> DEFINE j == i - 1
            <4>1. j \in 1 .. Len(d) /\ i = 1 + j /\ 1 + i # 1 /\ 1 + i # 2 /\ 1 + i - 2 = j
                BY <2>4, <3>2
            <4> HIDE DEF j
            <4>2. msg'[i] = Value(calls + 1, j)
                BY <1>8, <2>4, <4>1
            <4>3. Stream(1 + i)' = Value(calls', j)
                BY <4>1 DEF Stream, Value
            <4> QED BY <1>3, <4>2, <4>3
        <3> QED BY <3>1, <3>2
    <2>8. WriteInv'
        BY <2>2, <2>6, <2>7 DEF WriteInv, Spells
    <2>9. reg \in 0 .. Others /\ op # "read"
        BY <1>2
    <2>10. DataInv'
        BY <1>7, <2>1, <2>4, <2>9
    <2> QED BY <1>6, <2>1, <2>8, <2>10 DEF TransferInv, RestInv, SendInv, ReadInv, ReceiveInv, TrueMeansDone
<1>9. ASSUME NEW reg \in {0, 1}, i2c_smbus_write(reg, n) PROVE TransferInv'
    <2> DEFINE d == CallData(calls + 1, n)
    <2>1. calls + 1 \in Nat
        BY <1>3, <1>5
    <2>2. d = [i \in 1 .. n |-> Value(calls + 1, i)]
        BY DEF CallData
    <2>3. \A i \in 1 .. n : Value(calls + 1, i) \in Int
        BY <2>1 DEF Value
    <2>4. d \in Seq(Int) /\ Len(d) = n /\ \A i \in 1 .. n : d[i] = Value(calls + 1, i)
        <3> HIDE DEF d
        <3> QED BY <1>2, <2>2, <2>3
    <2>5. Begins("write", reg, n, <<reg>> \o d, "write")
        BY <1>9 DEF i2c_smbus_write
    <2> HIDE DEF d
    <2> QED BY <1>8, <2>4, <2>5
<1>10. ASSUME NEW reg \in {0, 1}, i2c_smbus_read(reg, n) PROVE TransferInv'
    <2>1. Begins("smread", reg, n, <<reg>>, "write")
        BY <1>10 DEF i2c_smbus_read
    <2>2. <<reg>> \o <<>> = <<reg>>
        <3>1. <<reg>> \in Seq(Int)
            OBVIOUS
        <3> QED BY <3>1, ConcatEmptySeq
    <2> DEFINE d == <<>>
    <2>3. d \in Seq(Int) /\ Len(d) = 0
        BY EmptyFact
    <2>4. Begins("smread", reg, n, <<reg>> \o d, "write")
        BY <2>1, <2>2
    <2> HIDE DEF d
    <2>5. Len(d) = (IF "smread" = "write" THEN n ELSE 0) /\ \A i \in 1 .. Len(d) : d[i] = Value(calls + 1, i)
        BY <2>3
    <2> QED BY <1>8, <2>3, <2>4, <2>5
<1>11. CASE i2c_read(n)
    <2>1. /\ call' = [op |-> "read", reg |-> slave.ptr, size |-> n, result |-> FALSE]
          /\ msg' = <<>> /\ pc' = "read"
        BY <1>11 DEF i2c_read, Begins
    <2>2. DataInv'
        BY <1>5, <1>7, <2>1, EmptyFact
    <2>3. call'.op = "read" /\ slave'.ptr = call'.reg
        BY <1>3, <2>1
    <2> QED BY <1>6, <2>1, <2>2, <2>3, AtRead
<1> QED BY <1>1, <1>9, <1>10, <1>11

\* Nothing is read, and nothing else happens.
LEMMA ReadNothingKeeps == ASSUME DriverInv, TransferInv, ReadNothing PROVE TransferInv'
<1>1. /\ pc = "read" /\ call.size = 0 /\ Returns(TRUE)
      /\ UNCHANGED <<chip, calls, slave, msg, buffer, hw>>
    BY DEF ReadNothing, Keep
<1>2. DataInv /\ CallInv /\ Quiet /\ call.op \in {"smread", "read"} /\ slave.ptr = call.reg
    BY <1>1 DEF TransferInv, DriverInv, RestInv, ReadInv
<1>3. buffer = <<>>
    BY <1>1 DEF DriverInv, RoomInv, FlagsInv
<1>4. Quiet' /\ hw' \in IF chip = "v1" THEN Fields1 ELSE Fields2
    BY <1>1, <1>2 DEF Quiet, DataInv
<1>5. buffer' \in Seq(Int) /\ Len(buffer') = call.size /\ Len(buffer') = 0
    BY <1>1, <1>3, EmptyFact
<1>6. ASSUME call'.reg = call.reg PROVE Got'
    <2>1. call.reg \in Nat /\ Others \in Nat /\ call.reg <= Others
        BY <1>2, CallFact
    <2>2. Clip(call.reg) = call.reg /\ call.reg + 0 + 0 = call.reg
        BY <2>1, ClipFact
    <2>3. Len(hw'.rx) = 0
        BY <1>4, EmptyFact DEF Quiet
    <2>4. slave'.ptr = Clip(call'.reg + Len(buffer') + Len(hw'.rx))
        BY <1>1, <1>2, <1>5, <1>6, <2>2, <2>3
    <2> QED BY <1>5, <2>3, <2>4 DEF Got, Clip
<1> QED BY <1>1, <1>2, <1>4, <1>5, <1>6, ReturnsRead

\* The bus hangs, or nothing happens.
LEMMA TransferFrame ==
    ASSUME TransferInv, UNCHANGED <<chip, call, calls, driver, hw, slave>>
    PROVE  TransferInv'
<1>1. UNCHANGED <<pc, msg, left, buffer, flags>>
    BY DEF driver
<1>2. DataInv'
    BY <1>1 DEF TransferInv, DataInv, Places, Fields1, Fields2, Slaves, Others
<1>3. RestInv' /\ ReadInv'
    BY <1>1 DEF TransferInv, RestInv, ReadInv, Quiet
<1>4. TrueMeansDone'
    BY <1>1 DEF TransferInv, TrueMeansDone, Clip, Value
<1>5. WriteInv'
    BY <1>1 DEF TransferInv, WriteInv, Total, Spells, Stream, Value
<1>6. \A k \in Nat : OnItsWay(k) => OnItsWay(k)'
    BY <1>1 DEF OnItsWay, Total, Spells, Stream, SlaveAt, Value
<1>7. SendInv'
    BY <1>1, <1>6 DEF TransferInv, SendInv, Sending1, Sending2
<1>8. ReceiveInv'
    BY <1>1, GotFrame DEF TransferInv, ReceiveInv, Addressing1, Receiving1, Receiving2
<1> QED BY <1>2, <1>3, <1>4, <1>5, <1>7, <1>8 DEF TransferInv

\* The controller works on.
LEMMA ControllerKeeps == ASSUME DriverInv, TransferInv, Controller PROVE TransferInv'
<1>1. UNCHANGED <<chip, call, calls, driver, stuck>> /\ chip \in {"v1", "v2"}
    BY DEF Controller, DriverInv, HwInv
<1>2. CASE chip = "v1"
    <2>1. Hw1Send \/ Hw1Receive \/ Hw1Stop
        BY <1>2 DEF Controller
    <2> QED BY <1>1, <1>2, <2>1, Hw1SendKeeps, Hw1ReceiveKeeps, Hw1StopKeeps
<1>3. CASE chip = "v2"
    <2>1. Hw2Request \/ Hw2Send \/ Hw2Receive
        BY <1>3 DEF Controller
    <2> QED BY <1>1, <1>3, <2>1, Hw2RequestKeeps, Hw2SendKeeps, Hw2ReceiveKeeps
<1> QED BY <1>1, <1>2, <1>3

\* No call has been made.
LEMMA InitTransfer == Init => TransferInv
<1> SUFFICES ASSUME Init PROVE TransferInv
    OBVIOUS
<1>1. /\ chip \in {"v1", "v2"} /\ call = NoCall /\ calls = 0 /\ pc = "idle" /\ msg = <<>> /\ buffer = <<>>
      /\ hw = IF chip = "v1" THEN Idle1 ELSE Idle2
      /\ slave = [ptr |-> 0, fresh |-> FALSE, regs |-> [r \in 0 .. Others |-> r]]
    BY RegistersFact DEF Init
<1>2. Others \in Nat /\ Others >= 1 /\ <<>> \in Seq(Int)
    BY RegistersFact, EmptyFact
<1>3. call.op = "none" /\ call.reg = 0 /\ call.size = 0 /\ call.result = FALSE
    BY <1>1 DEF NoCall
<1>4. slave \in Slaves
    BY <1>1, <1>2 DEF Slaves
<1>5. hw \in (IF chip = "v1" THEN Fields1 ELSE Fields2) /\ Quiet
    <2>1. CASE chip = "v1"
        BY <1>1, <1>2, <2>1 DEF Idle1, Fields1, Quiet
    <2>2. CASE chip = "v2"
        BY <1>1, <2>2, Idle2Fact DEF Quiet
    <2> QED BY <1>1, <2>1, <2>2
<1>6. DataInv
    BY <1>1, <1>2, <1>3, <1>4, <1>5 DEF DataInv, Places
<1> QED BY <1>1, <1>3, <1>5, <1>6
        DEF TransferInv, RestInv, TrueMeansDone, WriteInv, SendInv, ReadInv, ReceiveInv

\* Every step keeps the invariant.
LEMMA NextTransfer == PlaceInv /\ DriverInv /\ TransferInv /\ [Next]_vars => TransferInv'
<1> SUFFICES ASSUME PlaceInv, DriverInv, TransferInv, [Next]_vars PROVE TransferInv'
    OBVIOUS
<1>1. CASE Caller
    BY <1>1, CallerKeeps
<1>2. CASE Controller
    BY <1>2, ControllerKeeps
<1>3. CASE Hangs \/ UNCHANGED vars
    BY <1>3, TransferFrame DEF Hangs, vars
<1>4. CASE ReadNothing \/ StartWrite1 \/ StartRead1 \/ Fail1
    BY <1>4, ReadNothingKeeps, StartWrite1Keeps, StartRead1Keeps, Fail1Keeps
<1>5. CASE Poll1
    BY <1>5, PollWriteKeeps, PollReadKeeps
<1>6. CASE StartWrite2 \/ StartRead2
    BY <1>6, StartWrite2Keeps, StartRead2Keeps
<1>7. CASE HandOver2 \/ Ended2 \/ Sample2 \/ Act2 \/ Fail2
    <2>1. chip = "v2"
        BY <1>7 DEF HandOver2, Ended2, Sample2, Act2, Fail2, PlaceInv
    <2> QED BY <1>7, <2>1, HandOver2Keeps, Ended2Keeps, Sample2Keeps, Act2Keeps, Fail2Keeps
<1> QED BY <1>1, <1>2, <1>3, <1>4, <1>5, <1>6, <1>7 DEF Next, Driver

\* A call that returns true has done all of what it was asked for and nothing else, in
\* either driver: for every size of a transfer and of a word, however the end of a transfer
\* races the interrupt of its last bytes, wherever a byte is refused or the bus hangs, and
\* wherever the transfer before was cut off.
THEOREM TrueIsDone == Spec => []TrueMeansDone
<1>1. Init => PlaceInv /\ DriverInv /\ TransferInv
    BY InitDriver, InitTransfer
<1>2. PlaceInv /\ DriverInv /\ TransferInv /\ [Next]_vars => PlaceInv' /\ DriverInv' /\ TransferInv'
    BY NextDriver, NextTransfer
<1>3. TransferInv => TrueMeansDone
    BY DEF TransferInv
<1> QED BY <1>1, <1>2, <1>3, PTL DEF Spec

=============================================================================
