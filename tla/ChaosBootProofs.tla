-------------------------- MODULE ChaosBootProofs ---------------------------
(***************************************************************************)
(* Proofs about ChaosBoot, for every program, every size of blocks, every  *)
(* session, everything the RAM held before, every fault and every wait     *)
(* that ends too early: as long as there was at most one of them, and it   *)
(* hit nothing that is protected by nothing (Guarded), the program that is *)
(* started is the file, and it is started where it was asked for.          *)
(*                                                                         *)
(* The inductive invariant is Inv.  Its heart is Good: when the phone has  *)
(* carried out everything that is on its way to it, the RAM is right at    *)
(* every address that the host takes to be written.  A block sent again    *)
(* behind the one that spoilt the RAM, and an OK read for the block after  *)
(* its own, leave that as it is.  The other parts are the detours that one *)
(* fault can lead to.                                                      *)
(***************************************************************************)
EXTENDS ChaosBoot, SequenceTheorems, FiniteSetTheorems, TLAPS

-----------------------------------------------------------------------------
\* What is on its way to the phone.

Codes == Commands

\* The first k bytes of s are no commands.
Skips(s, k) == k \in 0 .. Len(s) /\ \A i \in 1 .. k : s[i] \notin Codes

\* Nothing but such bytes, and nothing but such bytes in front of t
Idle(s) == Skips(s, Len(s))
Behind(s, t) ==
    \E k \in 0 .. Len(s) :
        /\ Skips(s, k)
        /\ Len(s) = k + Len(t)
        /\ \A j \in 1 .. Len(t) : s[k + j] = t[j]

\* Bytes of the command that begins behind the first p bytes
SizeAt(s, p) ==
    IF s[p + 1] \in {CmdRead, CmdGoto} THEN 3
    ELSE IF s[p + 1] = CmdWrite THEN 4 + s[p + 3] ELSE 1

\* The commands of s begin behind p bytes, for the p of P: whole commands, one behind the other,
\* none of them a change of speed or one that the tasks do not use.
Whole(s, P, p) ==
    /\ s[p + 1] # CmdSpeed /\ s[p + 1] \notin OtherCommands
    /\ s[p + 1] = CmdWrite => p + 4 <= Len(s)
    /\ p + SizeAt(s, p) \in P
    /\ \A q \in P : q <= p \/ q >= p + SizeAt(s, p)
Aligned(s, P) ==
    /\ P \subseteq 0 .. Len(s)
    /\ 0 \in P
    /\ Len(s) \in P
    /\ \A p \in P : p < Len(s) => Whole(s, P, p)

WriteAt(s, p) == p < Len(s) /\ s[p + 1] = CmdWrite
GotoAt(s, p) == p < Len(s) /\ s[p + 1] = CmdGoto /\ s[p + 2] = s[p + 3]

\* The write behind p bytes stores at address i.
Covers(s, p, i) == s[p + 2] <= i /\ i < s[p + 2] + s[p + 3]
\* It stores what the file has there.
Right(s, p) == \A i \in DOMAIN Payload : Covers(s, p, i) => s[p + 4 + i - s[p + 2]] = Payload[i]

(***************************************************************************)
(* When the phone has carried out all of s, the memory is right at the     *)
(* addresses D.  At most one write is wrong, the first one (w); what it    *)
(* spoils is written again behind it.  A goto comes behind all writes, and *)
(* when everything is due.                                                 *)
(***************************************************************************)
OnlyFirstWrong(s, P, w) ==
    \A p \in P : WriteAt(s, p) => /\ p = w \/ Right(s, p)
                                  /\ w \in P /\ WriteAt(s, w) => w <= p
BecomesRight(s, P, w, mem, i) ==
    \/ \E p \in P : p # w /\ WriteAt(s, p) /\ Covers(s, p, i)
    \/ mem[i] = Payload[i] /\ ~(w \in P /\ WriteAt(s, w) /\ Covers(s, w, i))
GotosLast(s, P, D) ==
    \A p \in P : GotoAt(s, p) => /\ s[p + 2] = Base
                                 /\ DOMAIN Payload \subseteq D
                                 /\ \A q \in P : WriteAt(s, q) => q < p
Delivers(s, P, w, mem, D) ==
    /\ Aligned(s, P)
    /\ OnlyFirstWrong(s, P, w)
    /\ \A i \in D : BecomesRight(s, P, w, mem, i)
    /\ GotosLast(s, P, D)

\* The same for some division of s into commands, with a goto only where that is allowed.
Good(s, mem, D, gotos) ==
    \E P \in SUBSET (0 .. Len(s)), w \in Int :
        /\ Delivers(s, P, w, mem, D)
        /\ \A p \in P : GotoAt(s, p) => gotos

-----------------------------------------------------------------------------
\* The states of a session.

LeftToDo(task) == \E j \in 1 .. Len(todo) : todo[j] = task

\* The addresses that the host takes to be written, or is waiting for
Promised ==
    IF Task = "write" THEN 1 .. offset + (IF host = "ack" THEN BlockSize ELSE 0)
    ELSE IF LeftToDo("goto") /\ ~LeftToDo("write") THEN DOMAIN Payload ELSE {}

InRam(D) == \A i \in D : ram[i] = Payload[i]

\* What a task waits for
Waiting == {"ack", "data", "pong", "echo"}
TaskOf == [ack |-> "write", data |-> "read", pong |-> "read", echo |-> "goto"]
Wanted == IF host = "data" THEN BlockSize + 4 ELSE IF host = "pong" THEN 1 ELSE 2
Request ==
    IF host = "ack" THEN WriteRequest
    ELSE IF host = "data" THEN ReadRequest
    ELSE IF host = "pong" THEN <<CmdPing>> ELSE GotoRequest

\* As long as there was no fault one side waits for the other.
Calm ==
    \/ host \notin Waiting /\ Idle(up) /\ down = <<>>
    \/ host \in Waiting /\ Behind(up, Request) /\ down = <<>>
    \/ host \in Waiting /\ Idle(up) /\ Len(down) <= Wanted

Safe ==
    /\ phone = "loop"
    /\ \E D \in SUBSET DOMAIN Payload : Promised \subseteq D /\ Good(up, ram, D, ~LeftToDo("write"))
    /\ faults = 0 => Calm

\* A block that was damaged: on its way, refused, or with a byte missing
BlockAt(k) ==
    /\ Skips(up, k)
    /\ up[k + 1] = CmdWrite
    /\ up[k + 2] = Base + offset
    /\ up[k + 3] = BlockSize
Spoilt ==
    /\ phone = "loop" /\ host = "ack" /\ faults = 1
    /\ InRam(1 .. offset)
    /\ \/ /\ down = <<>>
          /\ \E k \in 0 .. Len(up) :
                /\ Len(up) = k + 4 + BlockSize
                /\ BlockAt(k)
                /\ xor_checksum(SubSeq(up, k + 4, k + 3 + BlockSize)) # up[k + 4 + BlockSize]
       \/ /\ down = <<>>
          /\ \E k \in 0 .. Len(up) :
                /\ Len(up) = k + 3 + BlockSize
                /\ BlockAt(k)
       \/ up = <<>> /\ down = ChecksumError

Tasks ==
    /\ \A j \in 1 .. Len(todo) : /\ todo[j] \in {"read", "write", "goto"}
                                 /\ todo[j] = "goto" => j = Len(todo)
    /\ host \in Waiting \cup {"send", "done", "exit"}
    /\ host \in Waiting => Task = TaskOf[host]

Main ==
    /\ Tasks
    /\ fast.host = fast.phone
    /\ Safe \/ Spoilt

\* The host has given up, and nothing on the line starts anything: the phone waits for the rest
\* of a block, or there is nothing like a goto.
GivenUp ==
    /\ host = "exit"
    /\ phone # "jumped"
    /\ \/ phone = "loop" /\ up # <<>> /\ Len(up) < CommandSize(up)
       \/ \A i \in 1 .. Len(up) : up[i] # CmdGoto

\* The tasks before the main ones
Ahead(n) ==
    /\ Len(todo) >= n
    /\ \A j \in 1 .. Len(todo) :
        j > n => todo[j] \in {"read", "write", "goto"} /\ (todo[j] = "goto" => j = Len(todo))
    /\ LeftToDo("goto") => LeftToDo("write")

Pinging ==
    /\ Task = "ping"
    /\ Ahead(1) \/ (Ahead(2) /\ todo[2] = "speed")
    /\ ~fast.host /\ ~fast.phone /\ phone = "loop"
    /\ \/ host = "send" /\ up = <<>> /\ down = <<>> /\ faults = 0
       \/ host = "pong" /\ up = <<CmdPing>> /\ down = <<>> /\ faults = 0
       \/ host = "pong" /\ Idle(up) /\ down # Pong /\ Len(down) <= 1 /\ faults = 1
       \/ host = "pong" /\ up = <<>> /\ down = Pong /\ faults = 0

Speeding ==
    /\ Task = "speed"
    /\ Ahead(1)
    /\ \/ ~fast.host /\ ~fast.phone /\ phone = "loop" /\ host = "send" /\ Idle(up) /\ down = <<>>
       \/ ~fast.host /\ ~fast.phone /\ phone = "loop" /\ host = "speed" /\ Behind(up, <<CmdSpeed, 7>>) /\ down = <<>>
       \/ ~fast.host /\ fast.phone /\ phone = "speed" /\ host = "speed" /\ up = <<>> /\ Len(down) <= 1
       \/ fast.host /\ fast.phone /\ phone = "speed" /\ host = "newspeed" /\ up = <<>> /\ down = <<>>
       \/ fast.host /\ fast.phone /\ phone = "speed" /\ host = "confirm" /\ up = <<CmdPing>> /\ down = <<>>
       \/ fast.host /\ fast.phone /\ phone = "speed" /\ host = "confirm" /\ Idle(up) /\ down = <<>>
       \/ fast.host /\ fast.phone /\ phone = "loop" /\ host = "confirm" /\ up = <<>> /\ Len(down) <= 1

Started == phone = "jumped" /\ target = Base /\ ram = Payload

Types ==
    /\ up \in Seq(Nat)
    /\ down \in Seq(Nat)
    /\ ram \in [DOMAIN Payload -> Nat]
    /\ fast \in [host : BOOLEAN, phone : BOOLEAN]
    /\ todo \in Seq({"ping", "speed", "read", "write", "goto"})
    /\ todo # <<>> \/ host \in {"done", "exit"}
    /\ offset \in 0 .. Len(Payload) - 1
    /\ faults \in 0 .. MaxFaults
    /\ blind \in BOOLEAN

Core == Started \/ GivenUp \/ Pinging \/ Speeding \/ Main
Inv == Types /\ (Guarded => Core)

-----------------------------------------------------------------------------
\* Constants and sequences.

\* A sequence over a set is one over every larger set.
LEMMA SeqMono ==
    ASSUME NEW S, NEW T, S \subseteq T, NEW s \in Seq(S)
    PROVE  s \in Seq(T)
OBVIOUS

\* The program and its blocks
LEMMA ConstantsFact ==
    /\ Payload \in Seq(Nat) /\ Len(Payload) \in Nat /\ Len(Payload) >= 1
    /\ DOMAIN Payload = 1 .. Len(Payload)
    /\ Chunk \in 1 .. 255 /\ MaxFaults \in Nat
    /\ OldRams \subseteq [DOMAIN Payload -> Nat]
    /\ \A i \in 1 .. Len(Payload) : Payload[i] \in 0 .. 255
<1>1. Payload \in Seq(0 .. 255) /\ Payload # <<>>
  BY ChaosAssumption
<1> DEFINE B == 0 .. 255
<1>2. Payload \in Seq(B) /\ B \subseteq Nat /\ OldRams \subseteq [DOMAIN Payload -> B]
  BY <1>1, ChaosAssumption
<1> HIDE DEF B
<1>3. Payload \in Seq(Nat) /\ Len(Payload) \in Nat /\ Len(Payload) >= 1 /\ DOMAIN Payload = 1 .. Len(Payload)
  BY <1>1, <1>2, SeqMono
<1>4. OldRams \subseteq [DOMAIN Payload -> Nat]
  BY <1>2
<1>5. \A i \in 1 .. Len(Payload) : Payload[i] \in B
  BY <1>2
<1>6. \A i \in 1 .. Len(Payload) : Payload[i] \in 0 .. 255
  BY <1>5 DEF B
<1>7. Chunk \in 1 .. 255 /\ MaxFaults \in Nat
  BY ChaosAssumption
<1> QED BY <1>3, <1>4, <1>6, <1>7

\* The size of a block
LEMMA BlockSizeIs ==
    ASSUME Types
    PROVE  BlockSize \in 1 .. 255 /\ offset + BlockSize <= Len(Payload) /\ offset \in Nat
<1> DEFINE r == Len(Payload) - offset
<1>1. r \in Nat /\ r >= 1 /\ offset \in Nat
  BY ConstantsFact DEF Types
<1>2. BlockSize = Min({Chunk, r})
  BY DEF BlockSize
<1> HIDE DEF r
<1>3. Chunk \in 1 .. 255
  BY ConstantsFact
<1>4. \E x \in {Chunk, r} : \A y \in {Chunk, r} : x <= y
  BY <1>1, <1>3
<1>5. BlockSize \in {Chunk, r} /\ \A y \in {Chunk, r} : BlockSize <= y
  BY <1>2, <1>4 DEF Min
<1>6. BlockSize \in 1 .. 255 /\ BlockSize <= r
  BY <1>1, <1>3, <1>5
<1> HIDE DEF BlockSize
<1> QED BY <1>1, <1>6, ConstantsFact DEF r

\* Elements of two sequences put together
LEMMA CatIs ==
    ASSUME NEW s \in Seq(Nat), NEW t \in Seq(Nat)
    PROVE  /\ s \o t \in Seq(Nat)
           /\ Len(s \o t) = Len(s) + Len(t)
           /\ \A i \in 1 .. Len(s) : (s \o t)[i] = s[i]
           /\ \A i \in 1 .. Len(t) : (s \o t)[Len(s) + i] = t[i]
OBVIOUS

\* Elements of a part of a sequence
LEMMA PartIs ==
    ASSUME NEW s \in Seq(Nat), NEW a \in Nat, NEW b \in Int, 1 <= a, b <= Len(s)
    PROVE  /\ SubSeq(s, a, b) \in Seq(Nat)
           /\ Len(SubSeq(s, a, b)) = IF a <= b THEN b - a + 1 ELSE 0
           /\ \A i \in 1 .. Len(SubSeq(s, a, b)) : SubSeq(s, a, b)[i] = s[a + i - 1]
OBVIOUS

\* Two sequences with the same elements are one.
LEMMA SameSeq ==
    ASSUME NEW s \in Seq(Nat), NEW t \in Seq(Nat), Len(s) = Len(t), \A i \in 1 .. Len(s) : s[i] = t[i]
    PROVE  s = t
OBVIOUS

\* An element of a sequence
LEMMA ElementIs ==
    ASSUME NEW s \in Seq(Nat), NEW i \in 1 .. Len(s)
    PROVE  s[i] \in Nat
OBVIOUS

\* Putting together does not depend on the order.
LEMMA CatAssoc ==
    ASSUME NEW s \in Seq(Nat), NEW t \in Seq(Nat), NEW u \in Seq(Nat)
    PROVE  s \o (t \o u) = (s \o t) \o u
BY SMTT(30)

-----------------------------------------------------------------------------
\* Checksums.

\* A set of positions is finite.
LEMMA ParityIs ==
    ASSUME NEW s \in Seq(Nat), NEW b \in Nat
    PROVE  Parity(s, b) \in 0 .. 1
<1> DEFINE S == {i \in 1 .. Len(s) : (s[i] \div b) % 2 = 1}
<1>1. IsFiniteSet(S)
  <2>1. Len(s) \in Nat
    OBVIOUS
  <2>2. IsFiniteSet(1 .. Len(s))
    BY <2>1, FS_Interval
  <2> QED BY <2>2, FS_Subset
<1> HIDE DEF S
<1>2. Cardinality(S) \in Nat
  BY <1>1, FS_CardinalityType
<1> DEFINE c == Cardinality(S)
<1> HIDE DEF c
<1>3. c \in Nat
  BY <1>2 DEF c
<1>4. c % 2 \in 0 .. 1
  BY <1>3
<1> QED BY <1>4 DEF Parity, c, S

\* A checksum is a byte.
LEMMA ChecksumIs ==
    ASSUME NEW s \in Seq(Nat)
    PROVE  xor_checksum(s) \in 0 .. 255
<1>1. /\ Parity(s, 1) \in 0 .. 1 /\ Parity(s, 2) \in 0 .. 1
      /\ Parity(s, 4) \in 0 .. 1 /\ Parity(s, 8) \in 0 .. 1
      /\ Parity(s, 16) \in 0 .. 1 /\ Parity(s, 32) \in 0 .. 1
      /\ Parity(s, 64) \in 0 .. 1 /\ Parity(s, 128) \in 0 .. 1
  BY ParityIs
<1> DEFINE p1 == Parity(s, 1)    p2 == Parity(s, 2)    p3 == Parity(s, 4)    p4 == Parity(s, 8)
           p5 == Parity(s, 16)   p6 == Parity(s, 32)   p7 == Parity(s, 64)   p8 == Parity(s, 128)
<1>2. xor_checksum(s) = p1 + 2 * p2 + 4 * p3 + 8 * p4 + 16 * p5 + 32 * p6 + 64 * p7 + 128 * p8
  BY DEF xor_checksum
<1>3. /\ p1 \in 0 .. 1 /\ p2 \in 0 .. 1 /\ p3 \in 0 .. 1 /\ p4 \in 0 .. 1
      /\ p5 \in 0 .. 1 /\ p6 \in 0 .. 1 /\ p7 \in 0 .. 1 /\ p8 \in 0 .. 1
  BY <1>1
<1> HIDE DEF p1, p2, p3, p4, p5, p6, p7, p8
<1>4. p1 + 2 * p2 + 4 * p3 + 8 * p4 + 16 * p5 + 32 * p6 + 64 * p7 + 128 * p8 \in 0 .. 255
  BY <1>3
<1> QED BY <1>2, <1>4

\* Numbers that differ, differ in the lowest bit or in the rest.
LEMMA LowestOrRest ==
    ASSUME NEW x \in Nat, NEW y \in Nat, x % 2 = y % 2, x \div 2 = y \div 2
    PROVE  x = y
<1>1. x = 2 * (x \div 2) + (x % 2) /\ y = 2 * (y \div 2) + (y % 2)
  OBVIOUS
<1> QED BY <1>1

\* The lowest bit of a number
LEMMA LowestBit ==
    ASSUME NEW z \in Nat
    PROVE  z % 2 \in 0 .. 1
OBVIOUS

\* The lowest bits of a number and the next one differ.
LEMMA NextIsOther ==
    ASSUME NEW z \in Nat
    PROVE  (z + 1) % 2 # z % 2
OBVIOUS

\* The values of the bits of a byte
Bits == {1, 2, 4, 8, 16, 32, 64, 128}

\* Half of what is left when the bits below b are dropped
LEMMA NextBit ==
    ASSUME NEW x \in Nat
    PROVE  /\ (x \div 1) \div 2 = x \div 2 /\ (x \div 2) \div 2 = x \div 4
           /\ (x \div 4) \div 2 = x \div 8 /\ (x \div 8) \div 2 = x \div 16
           /\ (x \div 16) \div 2 = x \div 32 /\ (x \div 32) \div 2 = x \div 64
           /\ (x \div 64) \div 2 = x \div 128
<1>1. (x \div 1) \div 2 = x \div 2
  OBVIOUS
<1>2. (x \div 2) \div 2 = x \div 4
  OBVIOUS
<1>3. (x \div 4) \div 2 = x \div 8
  OBVIOUS
<1>4. (x \div 8) \div 2 = x \div 16
  OBVIOUS
<1>5. (x \div 16) \div 2 = x \div 32
  OBVIOUS
<1>6. (x \div 32) \div 2 = x \div 64
  OBVIOUS
<1>7. (x \div 64) \div 2 = x \div 128
  OBVIOUS
<1> QED BY <1>1, <1>2, <1>3, <1>4, <1>5, <1>6, <1>7

\* Two bytes that differ, differ in one of the eight bits.
LEMMA BitTells ==
    ASSUME NEW x \in 0 .. 255, NEW y \in 0 .. 255, \A b \in Bits : (x \div b) % 2 = (y \div b) % 2
    PROVE  x = y
<1>0. x \in Nat /\ y \in Nat
  OBVIOUS
<1>1. \A b \in Bits : x \div b \in Nat /\ y \div b \in Nat
  BY DEF Bits
<1>2. x \div 128 = y \div 128
  <2>1. x \div 128 \in 0 .. 1 /\ y \div 128 \in 0 .. 1
    OBVIOUS
  <2>2. (x \div 128) % 2 = (y \div 128) % 2
    BY DEF Bits
  <2> QED BY <2>1, <2>2
<1>3. ASSUME NEW b \in Bits, (x \div b) \div 2 = (y \div b) \div 2 PROVE x \div b = y \div b
  <2>1. x \div b \in Nat /\ y \div b \in Nat /\ (x \div b) % 2 = (y \div b) % 2
    BY <1>1
  <2> QED BY <2>1, <1>3, LowestOrRest
<1>4. x \div 64 = y \div 64
  BY <1>0, <1>2, <1>3, NextBit DEF Bits
<1>5. x \div 32 = y \div 32
  BY <1>0, <1>4, <1>3, NextBit DEF Bits
<1>6. x \div 16 = y \div 16
  BY <1>0, <1>5, <1>3, NextBit DEF Bits
<1>7. x \div 8 = y \div 8
  BY <1>0, <1>6, <1>3, NextBit DEF Bits
<1>8. x \div 4 = y \div 4
  BY <1>0, <1>7, <1>3, NextBit DEF Bits
<1>9. x \div 2 = y \div 2
  BY <1>0, <1>8, <1>3, NextBit DEF Bits
<1>10. x \div 1 = y \div 1
  BY <1>0, <1>9, <1>3, NextBit DEF Bits
<1> QED BY <1>0, <1>10

\* The parities of two sequences that differ in a bit of one element
LEMMA ParityTells ==
    ASSUME NEW s \in Seq(Nat), NEW t \in Seq(Nat), Len(s) = Len(t), NEW j \in 1 .. Len(s), NEW bit \in Bits,
           (s[j] \div bit) % 2 # (t[j] \div bit) % 2, \A i \in 1 .. Len(s) : i # j => s[i] = t[i]
    PROVE  Parity(s, bit) # Parity(t, bit)
<1> DEFINE A == {i \in 1 .. Len(s) : (s[i] \div bit) % 2 = 1}
           B == {i \in 1 .. Len(t) : (t[i] \div bit) % 2 = 1}
<1>3. IsFiniteSet(A) /\ IsFiniteSet(B)
  <2>1. Len(s) \in Nat
    OBVIOUS
  <2>2. IsFiniteSet(1 .. Len(s))
    BY <2>1, FS_Interval
  <2>3. A \subseteq 1 .. Len(s) /\ B \subseteq 1 .. Len(s)
    OBVIOUS
  <2> HIDE DEF A, B
  <2> QED BY <2>2, <2>3, FS_Subset
<1>4. \/ j \notin A /\ B = A \cup {j}
      \/ j \notin B /\ A = B \cup {j}
  <2>1. (s[j] \div bit) % 2 \in 0 .. 1 /\ (t[j] \div bit) % 2 \in 0 .. 1
    <3>1. s[j] \in Nat /\ t[j] \in Nat
      OBVIOUS
    <3>3. ASSUME NEW x \in Nat
          PROVE  /\ x \div 1 \in Nat /\ x \div 2 \in Nat /\ x \div 4 \in Nat /\ x \div 8 \in Nat
                 /\ x \div 16 \in Nat /\ x \div 32 \in Nat /\ x \div 64 \in Nat /\ x \div 128 \in Nat
      OBVIOUS
    <3>4. ASSUME NEW x \in Nat PROVE x \div bit \in Nat
      BY <3>3, Zenon DEF Bits
    <3>2. s[j] \div bit \in Nat /\ t[j] \div bit \in Nat
      BY <3>1, <3>4
    <3> QED BY <3>2, LowestBit
  <2>2. \A i \in 1 .. Len(s) : i # j => (i \in A <=> i \in B)
    OBVIOUS
  <2>3. A \subseteq 1 .. Len(s) /\ B \subseteq 1 .. Len(s)
    OBVIOUS
  <2>4. (j \in A /\ j \notin B) \/ (j \notin A /\ j \in B)
    BY <2>1
  <2> HIDE DEF A, B
  <2> QED BY <2>2, <2>3, <2>4
<1> HIDE DEF A, B
<1>5. Cardinality(A) \in Nat /\ Cardinality(B) \in Nat
  BY <1>3, FS_CardinalityType
<1>6. Cardinality(B) = Cardinality(A) + 1 \/ Cardinality(A) = Cardinality(B) + 1
  BY <1>3, <1>4, FS_AddElement
<1> DEFINE a == Cardinality(A)
           b == Cardinality(B)
<1> HIDE DEF a, b
<1>7. a % 2 # b % 2
  <2>1. a \in Nat /\ b \in Nat /\ (b = a + 1 \/ a = b + 1)
    BY <1>5, <1>6 DEF a, b
  <2>2. (a + 1) % 2 # a % 2 /\ (b + 1) % 2 # b % 2
    BY <2>1, NextIsOther
  <2> QED BY <2>1, <2>2, Zenon
<1> QED BY <1>7 DEF Parity, A, B, a, b

\* A sequence of bytes in which one has become another has another checksum.
LEMMA ChecksumTells ==
    ASSUME NEW s \in Seq(Nat), NEW t \in Seq(Nat), Len(s) = Len(t), NEW j \in 1 .. Len(s),
           s[j] \in 0 .. 255, t[j] \in 0 .. 255, s[j] # t[j], \A i \in 1 .. Len(s) : i # j => s[i] = t[i]
    PROVE  xor_checksum(s) # xor_checksum(t)
<1>1. PICK bit \in Bits : (s[j] \div bit) % 2 # (t[j] \div bit) % 2
  BY BitTells
<1>2. Parity(s, bit) # Parity(t, bit)
  BY <1>1, ParityTells
<1>3. SUFFICES ASSUME xor_checksum(s) = xor_checksum(t) PROVE \A b \in Bits : Parity(s, b) = Parity(t, b)
  BY <1>2
<1>4. \A b \in Bits : Parity(s, b) \in 0 .. 1 /\ Parity(t, b) \in 0 .. 1
  <2>1. \A b \in Bits : b \in Nat
    BY DEF Bits
  <2> QED BY <2>1, ParityIs
<1>5. /\ Parity(s, 1) = Parity(t, 1) /\ Parity(s, 2) = Parity(t, 2) /\ Parity(s, 4) = Parity(t, 4)
      /\ Parity(s, 8) = Parity(t, 8) /\ Parity(s, 16) = Parity(t, 16) /\ Parity(s, 32) = Parity(t, 32)
      /\ Parity(s, 64) = Parity(t, 64) /\ Parity(s, 128) = Parity(t, 128)
  <2>1. 1 \in Bits /\ 2 \in Bits /\ 4 \in Bits /\ 8 \in Bits /\ 16 \in Bits /\ 32 \in Bits /\ 64 \in Bits /\ 128 \in Bits
    BY DEF Bits
  <2>2. Parity(s, 1) + 2 * Parity(s, 2) + 4 * Parity(s, 4) + 8 * Parity(s, 8)
           + 16 * Parity(s, 16) + 32 * Parity(s, 32) + 64 * Parity(s, 64) + 128 * Parity(s, 128)
         = Parity(t, 1) + 2 * Parity(t, 2) + 4 * Parity(t, 4) + 8 * Parity(t, 8)
           + 16 * Parity(t, 16) + 32 * Parity(t, 32) + 64 * Parity(t, 64) + 128 * Parity(t, 128)
    BY <1>3 DEF xor_checksum
  <2> DEFINE p1 == Parity(s, 1)    p2 == Parity(s, 2)    p3 == Parity(s, 4)    p4 == Parity(s, 8)
             p5 == Parity(s, 16)   p6 == Parity(s, 32)   p7 == Parity(s, 64)   p8 == Parity(s, 128)
             q1 == Parity(t, 1)    q2 == Parity(t, 2)    q3 == Parity(t, 4)    q4 == Parity(t, 8)
             q5 == Parity(t, 16)   q6 == Parity(t, 32)   q7 == Parity(t, 64)   q8 == Parity(t, 128)
  <2>3. /\ p1 \in 0 .. 1 /\ p2 \in 0 .. 1 /\ p3 \in 0 .. 1 /\ p4 \in 0 .. 1
        /\ p5 \in 0 .. 1 /\ p6 \in 0 .. 1 /\ p7 \in 0 .. 1 /\ p8 \in 0 .. 1
        /\ q1 \in 0 .. 1 /\ q2 \in 0 .. 1 /\ q3 \in 0 .. 1 /\ q4 \in 0 .. 1
        /\ q5 \in 0 .. 1 /\ q6 \in 0 .. 1 /\ q7 \in 0 .. 1 /\ q8 \in 0 .. 1
    BY <2>1, <1>4
  <2>4. p1 + 2 * p2 + 4 * p3 + 8 * p4 + 16 * p5 + 32 * p6 + 64 * p7 + 128 * p8
          = q1 + 2 * q2 + 4 * q3 + 8 * q4 + 16 * q5 + 32 * q6 + 64 * q7 + 128 * q8
    BY <2>2
  <2> HIDE DEF p1, p2, p3, p4, p5, p6, p7, p8, q1, q2, q3, q4, q5, q6, q7, q8
  <2>5. p1 = q1 /\ p2 = q2 /\ p3 = q3 /\ p4 = q4 /\ p5 = q5 /\ p6 = q6 /\ p7 = q7 /\ p8 = q8
    BY <2>3, <2>4, SMTT(60)
  <2> QED BY <2>5 DEF p1, p2, p3, p4, p5, p6, p7, p8, q1, q2, q3, q4, q5, q6, q7, q8
<1> QED BY <1>5 DEF Bits

-----------------------------------------------------------------------------
\* Requests, and what arrives of them.

\* The data of a block is that part of the program.
LEMMA BlockDataIs ==
    ASSUME Types
    PROVE  /\ BlockData \in Seq(Nat)
           /\ Len(BlockData) = BlockSize
           /\ \A j \in 1 .. BlockSize : BlockData[j] = Payload[offset + j]
<1> DEFINE n == BlockSize
<1>1. n \in 1 .. 255 /\ offset + n <= Len(Payload) /\ offset \in Nat
  BY BlockSizeIs
<1>2. BlockData = SubSeq(Payload, offset + 1, offset + n)
  BY DEF BlockData
<1> HIDE DEF n
<1>3. Payload \in Seq(Nat)
  BY ConstantsFact
<1>4. /\ SubSeq(Payload, offset + 1, offset + n) \in Seq(Nat)
      /\ Len(SubSeq(Payload, offset + 1, offset + n)) = n
      /\ \A j \in 1 .. n : SubSeq(Payload, offset + 1, offset + n)[j] = Payload[offset + j]
  BY <1>1, <1>3
<1> QED BY <1>2, <1>4 DEF n

\* The request to write, byte by byte
LEMMA WriteRequestIs ==
    ASSUME Types
    PROVE  /\ WriteRequest \in Seq(Nat)
           /\ Len(WriteRequest) = BlockSize + 4
           /\ WriteRequest[1] = CmdWrite
           /\ WriteRequest[2] = Base + offset
           /\ WriteRequest[3] = BlockSize
           /\ \A j \in 1 .. BlockSize : WriteRequest[3 + j] = Payload[offset + j]
           /\ SubSeq(WriteRequest, 4, 3 + BlockSize) = BlockData
           /\ WriteRequest[4 + BlockSize] = xor_checksum(BlockData)
<1> DEFINE n == BlockSize
           d == BlockData
           x == xor_checksum(d)
           h == <<CmdWrite, Base + offset, BlockSize>>
           c == <<x>>
           hd == h \o d
           r == hd \o c
<1>1. n \in 1 .. 255 /\ offset \in Nat
  BY BlockSizeIs
<1>2. d \in Seq(Nat) /\ Len(d) = n /\ \A j \in 1 .. n : d[j] = Payload[offset + j]
  BY BlockDataIs
<1>3. x \in Nat
  <2> HIDE DEF d, n
  <2>1. x \in 0 .. 255
    BY <1>2, ChecksumIs
  <2> QED BY <2>1
<1>4. h \in Seq(Nat) /\ Len(h) = 3 /\ h[1] = CmdWrite /\ h[2] = Base + offset /\ h[3] = n
  BY <1>1 DEF CmdWrite, Base
<1>5. WriteRequest = r
  BY DEF WriteRequest
<1> HIDE DEF n, d, x, h
<1>6. c \in Seq(Nat) /\ Len(c) = 1 /\ c[1] = x
  BY <1>3
<1> HIDE DEF c
<1>7. /\ hd \in Seq(Nat)
      /\ Len(hd) = 3 + n
      /\ \A i \in 1 .. 3 : hd[i] = h[i]
      /\ \A i \in 1 .. n : hd[3 + i] = d[i]
  <2>1. h \in Seq(Nat) /\ d \in Seq(Nat)
    BY <1>2, <1>4
  <2>2. /\ hd \in Seq(Nat) /\ Len(hd) = Len(h) + Len(d)
        /\ \A i \in 1 .. Len(h) : hd[i] = h[i]
        /\ \A i \in 1 .. Len(d) : hd[Len(h) + i] = d[i]
    BY <2>1, CatIs
  <2> HIDE DEF hd
  <2> QED BY <2>2, <1>1, <1>2, <1>4
<1> HIDE DEF hd
<1>8. /\ r \in Seq(Nat)
      /\ Len(r) = Len(hd) + 1
      /\ \A i \in 1 .. Len(hd) : r[i] = hd[i]
      /\ r[Len(hd) + 1] = c[1]
  <2>1. c \in Seq(Nat) /\ hd \in Seq(Nat)
    BY <1>6, <1>7
  <2>2. /\ r \in Seq(Nat)
        /\ Len(r) = Len(hd) + Len(c)
        /\ \A i \in 1 .. Len(hd) : r[i] = hd[i]
        /\ \A i \in 1 .. Len(c) : r[Len(hd) + i] = c[i]
    BY <2>1, CatIs
  <2> HIDE DEF r
  <2> QED BY <2>2, <1>6
<1> HIDE DEF r
<1>9. Len(hd) = 3 + n
  BY <1>7
<1>10. /\ r \in Seq(Nat)
       /\ Len(r) = 4 + n
       /\ \A i \in 1 .. 3 + n : r[i] = hd[i]
       /\ r[4 + n] = x
  BY <1>1, <1>6, <1>8, <1>9
<1>11. ASSUME NEW i \in 1 .. 3 PROVE r[i] = h[i]
  <2>1. i \in 1 .. 3 + n
    BY <1>1
  <2>2. r[i] = hd[i]
    BY <2>1, <1>10
  <2> QED BY <2>2, <1>7
<1>12. \A j \in 1 .. n : r[3 + j] = d[j]
  BY <1>1, <1>7, <1>10
<1>13. SubSeq(r, 4, 3 + n) = d
  <2>1. /\ SubSeq(r, 4, 3 + n) \in Seq(Nat)
        /\ Len(SubSeq(r, 4, 3 + n)) = n
        /\ \A j \in 1 .. n : SubSeq(r, 4, 3 + n)[j] = r[3 + j]
    <3>1. r \in Seq(Nat) /\ 3 + n \in Int /\ 3 + n <= Len(r) /\ 4 \in Nat
      BY <1>1, <1>10
    <3> QED BY <3>1, <1>1, PartIs
  <2> QED BY <2>1, <1>2, <1>12, SameSeq
<1>14. r[1] = CmdWrite /\ r[2] = Base + offset /\ r[3] = n
  BY <1>4, <1>11
<1>15. r \in Seq(Nat) /\ Len(r) = n + 4 /\ r[4 + n] = x
  <2> DEFINE z == Len(r)
  <2>1. z = 4 + n /\ n \in 1 .. 255
    BY <1>1, <1>10, Zenon
  <2> HIDE DEF z
  <2>2. z = n + 4
    BY <2>1
  <2> QED BY <2>2, <1>10, Zenon DEF z
<1>16. \A j \in 1 .. n : r[3 + j] = Payload[offset + j]
  BY <1>2, <1>12, Zenon
<1> QED BY <1>5, <1>13, <1>14, <1>15, <1>16, Zenon DEF n, d, x

\* The other requests
LEMMA RequestsAre ==
    ASSUME Types
    PROVE  /\ ReadRequest \in Seq(Nat) /\ Len(ReadRequest) = 3
           /\ ReadRequest[1] = CmdRead /\ ReadRequest[2] = Base + offset /\ ReadRequest[3] = BlockSize
           /\ GotoRequest \in Seq(Nat) /\ Len(GotoRequest) = 4
           /\ GotoRequest[1] = CmdGoto /\ \A i \in 2 .. 4 : GotoRequest[i] = Base
           /\ <<CmdPing>> \in Seq(Nat) /\ Len(<<CmdPing>>) = 1 /\ <<CmdPing>>[1] = CmdPing
           /\ <<KeepAlive>> \in Seq(Nat) /\ Len(<<KeepAlive>>) = 1 /\ <<KeepAlive>>[1] = KeepAlive
           /\ Alive \in {<<>>, <<KeepAlive>>} /\ Alive \in Seq(Nat)
<1>1. BlockSize \in Nat /\ offset \in Nat
  <2>1. BlockSize \in 1 .. 255 /\ offset \in Nat
    BY BlockSizeIs
  <2> QED BY <2>1
<1> HIDE DEF BlockSize
<1>2. /\ ReadRequest \in Seq(Nat) /\ Len(ReadRequest) = 3
      /\ ReadRequest[1] = CmdRead /\ ReadRequest[2] = Base + offset /\ ReadRequest[3] = BlockSize
  BY <1>1 DEF ReadRequest, CmdRead, Base
<1>3. /\ GotoRequest \in Seq(Nat) /\ Len(GotoRequest) = 4
      /\ GotoRequest[1] = CmdGoto /\ \A i \in 2 .. 4 : GotoRequest[i] = Base
  BY DEF GotoRequest, CmdGoto, Base
<1>4. /\ <<CmdPing>> \in Seq(Nat) /\ Len(<<CmdPing>>) = 1 /\ <<CmdPing>>[1] = CmdPing
      /\ <<KeepAlive>> \in Seq(Nat) /\ Len(<<KeepAlive>>) = 1 /\ <<KeepAlive>>[1] = KeepAlive
  BY DEF CmdPing, KeepAlive
<1>5. Alive \in {<<>>, <<KeepAlive>>}
  BY DEF Alive
<1>6. Alive \in Seq(Nat)
  <2>1. CASE Alive = <<>>
    BY <2>1
  <2>2. CASE Alive = <<KeepAlive>>
    BY <2>2, <1>4
  <2> QED BY <2>1, <2>2, <1>5
<1> QED BY <1>2, <1>3, <1>4, <1>5, <1>6

\* b is m with byte i damaged, or without it.
DamagedAt(m, b, i) ==
    /\ Len(b) = Len(m)
    /\ b[i] \in 0 .. 255
    /\ b[i] # m[i]
    /\ \A j \in 1 .. Len(m) : j # i => b[j] = m[j]
LostAt(m, b, i) ==
    /\ Len(b) = Len(m) - 1
    /\ \A j \in 1 .. Len(b) : b[j] = IF j < i THEN m[j] ELSE m[j + 1]

\* A damaged message
LEMMA DamagedIs ==
    ASSUME NEW m \in Seq(Nat), NEW i \in 1 .. Len(m), NEW x \in Noise \ {m[i]}
    PROVE  Damaged(m, i, x) \in Seq(Nat) /\ DamagedAt(m, Damaged(m, i, x), i) /\ Damaged(m, i, x)[i] = x
<1> DEFINE b == [m EXCEPT ![i] = x]
<1>1. x \in 0 .. 255 /\ x \in Nat /\ x # m[i]
  BY ChaosAssumption
<1>2. b \in Seq(Nat) /\ Len(b) = Len(m) /\ b[i] = x /\ \A j \in 1 .. Len(m) : j # i => b[j] = m[j]
  BY <1>1
<1>3. Damaged(m, i, x) = b
  BY DEF Damaged
<1> HIDE DEF b
<1> QED BY <1>1, <1>2, <1>3 DEF DamagedAt

\* A message that has lost a byte
LEMMA LostIs ==
    ASSUME NEW m \in Seq(Nat), NEW i \in 1 .. Len(m)
    PROVE  Lost(m, i) \in Seq(Nat) /\ LostAt(m, Lost(m, i), i)
<1> DEFINE p == SubSeq(m, 1, i - 1)
           q == SubSeq(m, i + 1, Len(m))
           b == p \o q
           n == Len(m)
<1>1. Lost(m, i) = b
  BY DEF Lost
<1>2. i \in 1 .. n /\ n \in Nat
  OBVIOUS
<1>3. p \in Seq(Nat) /\ Len(p) = i - 1 /\ \A j \in 1 .. i - 1 : p[j] = m[j]
  BY <1>2
<1>4. q \in Seq(Nat) /\ Len(q) = n - i /\ \A j \in 1 .. n - i : q[j] = m[i + j]
  BY <1>2
<1> HIDE DEF p, q
<1>5. /\ b \in Seq(Nat) /\ Len(b) = Len(p) + Len(q)
      /\ \A j \in 1 .. Len(p) : b[j] = p[j]
      /\ \A j \in 1 .. Len(q) : b[Len(p) + j] = q[j]
  BY <1>3, <1>4, CatIs
<1> HIDE DEF b, n
<1>6. Len(b) = n - 1
  BY <1>2, <1>3, <1>4, <1>5
<1>7. ASSUME NEW j \in 1 .. n - 1 PROVE b[j] = IF j < i THEN m[j] ELSE m[j + 1]
  <2>1. CASE j < i
    BY <2>1, <1>2, <1>3, <1>5
  <2>2. CASE ~(j < i)
    <3>1. j - (i - 1) \in 1 .. n - i /\ (i - 1) + (j - (i - 1)) = j /\ i + (j - (i - 1)) = j + 1
      BY <2>2, <1>2
    <3>2. b[(i - 1) + (j - (i - 1))] = q[j - (i - 1)]
      BY <3>1, <1>3, <1>4, <1>5
    <3>3. q[j - (i - 1)] = m[i + (j - (i - 1))]
      BY <3>1, <1>4
    <3> QED BY <3>1, <3>2, <3>3, <2>2
  <2> QED BY <2>1, <2>2
<1> QED BY <1>1, <1>5, <1>6, <1>7 DEF LostAt, n

-----------------------------------------------------------------------------
\* Commands on the line.

\* The codes are different numbers, and none is a keep-alive, a block size or the base address.
LEMMA CodesAre ==
    /\ CmdPing = 65 /\ CmdSpeed = 72 /\ CmdRead = 82 /\ CmdWrite = 87 /\ CmdGoto = 71
    /\ KeepAlive = 46 /\ Base = 1
    /\ Codes = {65, 72, 82, 87, 71} \cup OtherCommands
    /\ OtherCommands = {73, 81, 84, 70, 69, 80, 79, 67, 88, 86}
BY DEF CmdPing, CmdSpeed, CmdRead, CmdWrite, CmdGoto, KeepAlive, Base, Codes, Commands, OtherCommands

\* The size of a command that is there
LEMMA SizeIs ==
    ASSUME NEW s \in Seq(Nat), NEW p \in Nat, p < Len(s), s[p + 1] = CmdWrite => p + 4 <= Len(s)
    PROVE  /\ SizeAt(s, p) \in Nat /\ SizeAt(s, p) >= 1
           /\ s[p + 1] \in {CmdRead, CmdGoto} => SizeAt(s, p) = 3
           /\ s[p + 1] = CmdWrite => SizeAt(s, p) = 4 + s[p + 3] /\ s[p + 2] \in Nat /\ s[p + 3] \in Nat
           /\ s[p + 1] \notin {CmdRead, CmdGoto, CmdWrite} => SizeAt(s, p) = 1
<1>1. Len(s) \in Nat /\ \A i \in 1 .. Len(s) : s[i] \in Nat
  OBVIOUS
<1>2. s[p + 1] = CmdWrite => s[p + 3] \in Nat /\ s[p + 2] \in Nat
  BY <1>1
<1> DEFINE c == s[p + 1]  b == s[p + 3]
<1>3. SizeAt(s, p) = IF c \in {CmdRead, CmdGoto} THEN 3 ELSE IF c = CmdWrite THEN 4 + b ELSE 1
  BY DEF SizeAt
<1>4. c = CmdWrite => b \in Nat /\ s[p + 2] \in Nat
  BY <1>2
<1> HIDE DEF c, b
<1>5. /\ SizeAt(s, p) \in Nat /\ SizeAt(s, p) >= 1
      /\ c \in {CmdRead, CmdGoto} => SizeAt(s, p) = 3
      /\ c = CmdWrite => SizeAt(s, p) = 4 + b
      /\ c \notin {CmdRead, CmdGoto, CmdWrite} => SizeAt(s, p) = 1
  BY <1>3, <1>4, CodesAre, SMTT(30)
<1> QED BY <1>4, <1>5 DEF c, b

\* The bytes of the command behind p bytes of s are also behind q bytes of u.
CopyOf(u, q, s, p) ==
    /\ p < Len(s)
    /\ s[p + 1] = CmdWrite => p + 4 <= Len(s)
    /\ q + SizeAt(s, p) <= Len(u)
    /\ \A j \in 1 .. SizeAt(s, p) : u[q + j] = s[p + j]

\* It is the same command.
SameAt(u, q, s, p) ==
    /\ q < Len(u) /\ u[q + 1] = s[p + 1]
    /\ s[p + 1] = CmdWrite => q + 4 <= Len(u)
    /\ SizeAt(u, q) = SizeAt(s, p)
    /\ WriteAt(u, q) <=> WriteAt(s, p)
    /\ GotoAt(u, q) <=> GotoAt(s, p)
    /\ GotoAt(s, p) => u[q + 2] = s[p + 2]
    /\ WriteAt(s, p) => \A i \in Int : Covers(u, q, i) <=> Covers(s, p, i)
    /\ WriteAt(s, p) => (Right(u, q) <=> Right(s, p))

\* The same bytes are the same command, wherever they are.
LEMMA SameCommand ==
    ASSUME NEW s \in Seq(Nat), NEW p \in Nat, NEW u \in Seq(Nat), NEW q \in Nat, CopyOf(u, q, s, p)
    PROVE  SameAt(u, q, s, p)
<1>0. p < Len(s) /\ (s[p + 1] = CmdWrite => p + 4 <= Len(s))
  BY DEF CopyOf
<1> DEFINE n == SizeAt(s, p)
<1>1. /\ n \in Nat /\ n >= 1
      /\ s[p + 1] \in {CmdRead, CmdGoto} => n = 3
      /\ s[p + 1] = CmdWrite => n = 4 + s[p + 3] /\ s[p + 2] \in Nat /\ s[p + 3] \in Nat
      /\ s[p + 1] \notin {CmdRead, CmdGoto, CmdWrite} => n = 1
  BY <1>0, SizeIs
<1> HIDE DEF n
<1>2. \A j \in 1 .. n : u[q + j] = s[p + j]
  BY DEF n, CopyOf
<1>3. Len(u) \in Nat /\ q + n <= Len(u)
  BY DEF n, CopyOf
<1>4. q < Len(u) /\ u[q + 1] = s[p + 1]
  BY <1>1, <1>2, <1>3
<1>5. s[p + 1] \in {CmdRead, CmdGoto, CmdWrite} => u[q + 2] = s[p + 2] /\ u[q + 3] = s[p + 3]
  <2>1. s[p + 1] \in {CmdRead, CmdGoto, CmdWrite} => 2 \in 1 .. n /\ 3 \in 1 .. n
    <3>1. s[p + 1] = CmdWrite => n >= 4
      <4> DEFINE b == s[p + 3]
      <4>1. s[p + 1] = CmdWrite => n = 4 + b /\ b \in Nat
        BY <1>1
      <4> HIDE DEF b
      <4> QED BY <4>1
    <3>2. s[p + 1] \in {CmdRead, CmdGoto} => n = 3
      BY <1>1
    <3>3. s[p + 1] \in {CmdRead, CmdGoto, CmdWrite} => n >= 3
      BY <3>1, <3>2, <1>1
    <3> QED BY <3>3, <1>1
  <2> QED BY <2>1, <1>2
<1>6. s[p + 1] = CmdWrite => q + 4 <= Len(u)
  <2> DEFINE b == s[p + 3]  l == Len(u)
  <2>1. s[p + 1] = CmdWrite => n = 4 + b /\ b \in Nat
    BY <1>1
  <2>2. l \in Nat /\ q + n <= l
    BY <1>3
  <2> HIDE DEF b, l
  <2>3. s[p + 1] = CmdWrite => q + 4 <= l
    BY <2>1, <2>2
  <2> QED BY <2>3 DEF l
<1>7. SizeAt(u, q) = n
  BY <1>1, <1>4, <1>5 DEF SizeAt, n
<1>8. WriteAt(u, q) <=> WriteAt(s, p)
  BY <1>0, <1>4 DEF WriteAt
<1>9. GotoAt(u, q) <=> GotoAt(s, p)
  BY <1>0, <1>4, <1>5 DEF GotoAt
<1>10. GotoAt(s, p) => u[q + 2] = s[p + 2]
  BY <1>5 DEF GotoAt
<1>11. WriteAt(s, p) => \A i \in Int : Covers(u, q, i) <=> Covers(s, p, i)
  BY <1>5 DEF WriteAt, Covers
<1>12. WriteAt(s, p) => (Right(u, q) <=> Right(s, p))
  <2>1. SUFFICES ASSUME WriteAt(s, p) PROVE Right(u, q) <=> Right(s, p)
    OBVIOUS
  <2>2. n = 4 + s[p + 3] /\ s[p + 2] \in Nat /\ s[p + 3] \in Nat /\ u[q + 2] = s[p + 2] /\ u[q + 3] = s[p + 3]
    BY <2>1, <1>1, <1>5 DEF WriteAt
  <2>3. ASSUME NEW i \in DOMAIN Payload, Covers(s, p, i)
        PROVE  u[q + 4 + i - u[q + 2]] = s[p + 4 + i - s[p + 2]]
    <3> DEFINE a == s[p + 2]
               b == s[p + 3]
               j == 4 + i - a
    <3>1. i \in Nat
      BY ConstantsFact
    <3>4. a <= i /\ i < a + b
      BY <2>3 DEF Covers
    <3>5. n = 4 + b /\ a \in Nat /\ b \in Nat /\ u[q + 2] = a
      BY <2>2
    <3> HIDE DEF a, b
    <3>2. j \in 1 .. n
      <4>1. i \in Nat /\ a \in Nat /\ b \in Nat /\ a <= i /\ i < a + b
        BY <3>1, <3>4, <3>5
      <4>2. j \in Int /\ j >= 1 /\ j <= 4 + b
        BY <4>1
      <4> HIDE DEF j
      <4> QED BY <4>2, <3>5
    <3>6. q + 4 + i - a = q + j /\ p + 4 + i - a = p + j
      BY <3>1, <3>5
    <3>3. q + 4 + i - u[q + 2] = q + j /\ p + 4 + i - s[p + 2] = p + j
      BY <3>5, <3>6 DEF a
    <3> HIDE DEF j
    <3> QED BY <3>2, <3>3, <1>2
  <2>4. \A i \in DOMAIN Payload : Covers(u, q, i) <=> Covers(s, p, i)
    BY <1>11, <2>1, ConstantsFact
  <2> QED BY <2>3, <2>4 DEF Right
<1> QED BY <1>4, <1>6, <1>7, <1>8, <1>9, <1>10, <1>11, <1>12 DEF n, SameAt

\* The memory at D before and after the first command of s
Stored(s, mem, mem2, D) ==
    \A i \in D : mem2[i] = IF s[1] = CmdWrite /\ Covers(s, 0, i) THEN s[4 + i - s[2]] ELSE mem[i]

\* The phone takes the first command; what is left still delivers.
LEMMA TakeHead ==
    ASSUME NEW s \in Seq(Nat), s # <<>>, NEW P, NEW w \in Int, NEW D, D \subseteq DOMAIN Payload,
           NEW mem, NEW mem2, Delivers(s, P, w, mem, D), NEW k, k = SizeAt(s, 0),
           Stored(s, mem, mem2, D),
           NEW t, t = SubSeq(s, k + 1, Len(s))
    PROVE  /\ k \in 1 .. Len(s)
           /\ t \in Seq(Nat)
           /\ Len(t) = Len(s) - k
           /\ \A j \in 1 .. Len(s) - k : t[j] = s[k + j]
           /\ \E Q \in SUBSET (0 .. Len(t)) :
                /\ Delivers(t, Q, w - k, mem2, D)
                /\ \A q \in Q : GotoAt(t, q) => q + k \in P /\ GotoAt(s, q + k)
<1> DEFINE n == Len(s)
           Q == {q \in 0 .. n - k : q + k \in P}
<1>1. /\ n \in Nat /\ n >= 1
      /\ P \subseteq 0 .. n /\ 0 \in P /\ n \in P
      /\ \A p \in P : p < n => Whole(s, P, p)
  BY DEF Delivers, Aligned
<1>2. s[1] # CmdSpeed /\ s[1] \notin OtherCommands /\ (s[1] = CmdWrite => 4 <= n) /\ k \in P /\ \A q \in P : q <= 0 \/ q >= k
  <2>1. Whole(s, P, 0)
    BY <1>1
  <2>2. /\ s[0 + 1] # CmdSpeed /\ s[0 + 1] \notin OtherCommands /\ (s[0 + 1] = CmdWrite => 0 + 4 <= n)
        /\ 0 + k \in P /\ \A q \in P : q <= 0 \/ q >= 0 + k
    BY <2>1 DEF Whole
  <2>3. 0 + k = k
    <3>1. SizeAt(s, 0) \in Nat
      <4>1. 0 < Len(s) /\ (s[0 + 1] = CmdWrite => 0 + 4 <= Len(s))
        BY <1>1, <2>2
      <4> QED BY <4>1, SizeIs
    <3> QED BY <3>1
  <2> QED BY <2>2, <2>3
<1>3. /\ k \in 1 .. n
      /\ s[1] = CmdWrite => k = 4 + s[3] /\ s[2] \in Nat /\ s[3] \in Nat
  <2>1. 0 < Len(s) /\ (s[0 + 1] = CmdWrite => 0 + 4 <= Len(s))
    BY <1>1, <1>2
  <2>2. /\ SizeAt(s, 0) \in Nat /\ SizeAt(s, 0) >= 1
        /\ s[0 + 1] = CmdWrite => SizeAt(s, 0) = 4 + s[0 + 3] /\ s[0 + 2] \in Nat /\ s[0 + 3] \in Nat
    BY <2>1, SizeIs
  <2> QED BY <2>2, <1>1, <1>2
<1>3a. n \in Nat /\ k \in Nat /\ k >= 1 /\ k <= n
  BY <1>1, <1>3
<1> HIDE DEF n
<1>4. t \in Seq(Nat) /\ Len(t) = n - k /\ \A j \in 1 .. n - k : t[j] = s[k + j]
  <2>1. k + 1 \in Nat /\ 1 <= k + 1 /\ n \in Int /\ n <= Len(s)
    BY <1>1, <1>3 DEF n
  <2>2. /\ t \in Seq(Nat)
        /\ Len(t) = IF k + 1 <= n THEN n - (k + 1) + 1 ELSE 0
        /\ \A i \in 1 .. Len(t) : t[i] = s[(k + 1) + i - 1]
    <3> DEFINE a == k + 1
               e == SubSeq(s, a, n)
    <3>1. a \in Nat /\ 1 <= a /\ n \in Int /\ n <= Len(s) /\ t = e
      BY <2>1 DEF n
    <3> HIDE DEF a
    <3>2. /\ e \in Seq(Nat) /\ Len(e) = IF a <= n THEN n - a + 1 ELSE 0
          /\ \A i \in 1 .. Len(e) : e[i] = s[a + i - 1]
      BY <3>1, PartIs
    <3> HIDE DEF e
    <3> QED BY <3>1, <3>2, Zenon DEF a
  <2>3. Len(t) = n - k
    <3> DEFINE z == Len(t)
    <3>1. z = IF k + 1 <= n THEN n - (k + 1) + 1 ELSE 0
      BY <2>2
    <3> HIDE DEF z
    <3>2. z = n - k
      BY <3>1, <1>3a
    <3> QED BY <3>2 DEF z
  <2>4. \A j \in 1 .. n - k : (k + 1) + j - 1 = k + j
    BY <1>1, <1>3
  <2> QED BY <2>2, <2>3, <2>4
\* A command of t is one of s.
<1>5. ASSUME NEW q \in Q, q < n - k
      PROVE  /\ q + k \in P /\ q + k < n /\ q \in Nat
             /\ Whole(s, P, q + k)
             /\ t[q + 1] = s[q + k + 1]
             /\ t[q + 1] = CmdWrite => q + 4 <= n - k
             /\ SizeAt(t, q) = SizeAt(s, q + k) /\ SizeAt(t, q) \in Nat
             /\ WriteAt(t, q) <=> WriteAt(s, q + k)
             /\ GotoAt(t, q) <=> GotoAt(s, q + k)
             /\ GotoAt(t, q) => t[q + 2] = s[q + k + 2]
             /\ WriteAt(t, q) => \A i \in Int : Covers(t, q, i) <=> Covers(s, q + k, i)
             /\ WriteAt(t, q) => (Right(t, q) <=> Right(s, q + k))
  <2> DEFINE p == q + k
             m == SizeAt(s, p)
  <2>1. p \in P /\ p \in Nat /\ p < n /\ q \in Nat
    BY <1>3, <1>5, <1>1, SMTT(30)
  <2>2. Whole(s, P, p)
    BY <2>1, <1>1
  <2> HIDE DEF p
  <2>3. (s[p + 1] = CmdWrite => p + 4 <= Len(s)) /\ p + m \in P
    BY <2>2 DEF Whole
  <2>4. m \in Nat
    BY <2>1, <2>3, SizeIs DEF n
  <2> HIDE DEF m
  <2>5. p + m <= n
    BY <2>1, <2>3, <2>4, <1>1
  <2>6. q + m <= Len(t)
    BY <2>4, <2>5, <1>3, <1>4, <1>1, <2>1 DEF p
  <2>7. \A j \in 1 .. m : t[q + j] = s[p + j]
    <3>1. SUFFICES ASSUME NEW j \in 1 .. m PROVE t[q + j] = s[p + j]
      OBVIOUS
    <3>2. q + j \in 1 .. n - k /\ k + (q + j) = p + j
      <4>1. q + m <= n - k
        BY <2>6, <1>4
      <4>2. j \in Nat /\ 1 <= j /\ j <= m
        BY <2>4
      <4>3. q + j \in 1 .. n - k
        BY <4>1, <4>2, <2>1, <2>4, <1>3a
      <4>4. k + (q + j) = (q + k) + j
        BY <4>2, <2>1, <1>3a
      <4> QED BY <4>3, <4>4, Zenon DEF p
    <3> QED BY <3>2, <1>4
  <2>8. SameAt(t, q, s, p)
    <3>1. t \in Seq(Nat) /\ q \in Nat /\ p \in Nat
      BY <2>1, <1>4
    <3>2. CopyOf(t, q, s, p)
      BY <2>1, <2>3, <2>6, <2>7 DEF n, m, CopyOf
    <3> QED BY <3>1, <3>2, SameCommand
  <2> QED BY <2>1, <2>2, <2>4, <2>8, <1>4 DEF p, m, SameAt
<1>6. ASSUME NEW p \in P, p >= k PROVE p - k \in Q /\ (p - k) + k = p
  BY <1>1, <1>3, <1>6, SMTT(30)
<1>7. ASSUME NEW q \in 0 .. n - k, ~(q < n - k) PROVE ~WriteAt(t, q) /\ ~GotoAt(t, q)
  BY <1>4, <1>7 DEF WriteAt, GotoAt
<1>7a. \A q \in Q : WriteAt(t, q) \/ GotoAt(t, q) => q < n - k
  BY <1>7
<1>8. Aligned(t, Q)
  <2>1. Q \subseteq 0 .. Len(t)
    BY <1>4
  <2>2. 0 \in Q /\ Len(t) \in Q
    <3>1. k \in P /\ n \in P /\ k >= k /\ n >= k
      BY <1>1, <1>2, <1>3
    <3>2. k - k \in Q /\ n - k \in Q
      BY <3>1, <1>6
    <3>3. k - k = 0
      BY <1>3
    <3> QED BY <3>2, <3>3, <1>4
  <2>3. ASSUME NEW q \in Q, q < Len(t) PROVE Whole(t, Q, q)
    <3> DEFINE p == q + k
               m == SizeAt(t, q)
    <3>1. /\ p \in P /\ p < n /\ q \in Nat /\ Whole(s, P, p)
          /\ t[q + 1] = s[p + 1] /\ (t[q + 1] = CmdWrite => q + 4 <= Len(t))
          /\ m = SizeAt(s, p) /\ m \in Nat
      BY <2>3, <1>4, <1>5
    <3>2. s[p + 1] # CmdSpeed /\ s[p + 1] \notin OtherCommands /\ p + m \in P /\ \A r \in P : r <= p \/ r >= p + m
      BY <3>1 DEF Whole
    <3> HIDE DEF m
    <3>3. q + m \in Q
      <4>0. q \in Nat /\ m \in Nat /\ k \in Nat
        BY <3>1, <1>3, <1>1
      <4>1. p + m >= k /\ (p + m) - k = q + m
        BY <4>0, SMTT(30)
      <4> QED BY <4>1, <3>2, <1>6
    <3>4. ASSUME NEW r \in Q PROVE r <= q \/ r >= q + m
      <4>1. r + k \in P /\ r \in Nat
        BY <1>1, <1>3
      <4>2. r + k <= p \/ r + k >= p + m
        BY <4>1, <3>2
      <4>3. q \in Nat /\ m \in Nat /\ k \in Nat
        BY <3>1, <1>3, <1>1
      <4> QED BY <4>1, <4>2, <4>3
    <3> QED BY <3>1, <3>2, <3>3, <3>4 DEF Whole, m
  <2> QED BY <2>1, <2>2, <2>3 DEF Aligned
<1>9. OnlyFirstWrong(t, Q, w - k)
  <2>1. SUFFICES ASSUME NEW q \in Q, WriteAt(t, q)
                 PROVE  /\ q = w - k \/ Right(t, q)
                        /\ w - k \in Q /\ WriteAt(t, w - k) => w - k <= q
    BY DEF OnlyFirstWrong
  <2>2. q < n - k
    BY <2>1, <1>7a
  <2>3. /\ q + k \in P /\ WriteAt(s, q + k) /\ (Right(t, q) <=> Right(s, q + k)) /\ q \in Nat
    BY <2>1, <2>2, <1>5
  <2>4. /\ q + k = w \/ Right(s, q + k)
        /\ w \in P /\ WriteAt(s, w) => w <= q + k
    BY <2>3 DEF Delivers, OnlyFirstWrong
  <2>5. q = w - k \/ Right(t, q)
    BY <2>3, <2>4, <1>3
  <2>6. ASSUME w - k \in Q, WriteAt(t, w - k) PROVE w - k <= q
    <3>1. w - k < n - k
      BY <2>6, <1>7a
    <3>2. (w - k) + k \in P /\ WriteAt(s, (w - k) + k)
      BY <3>1, <2>6, <1>5
    <3>3. (w - k) + k = w
      BY <1>3
    <3> QED BY <3>2, <3>3, <2>3, <2>4, <1>3
  <2> QED BY <2>5, <2>6
<1>10. ASSUME NEW i \in D PROVE BecomesRight(t, Q, w - k, mem2, i)
  <2>0. i \in DOMAIN Payload /\ i \in Int
    BY ConstantsFact
  <2>1. BecomesRight(s, P, w, mem, i)
    BY DEF Delivers
  <2>2. ASSUME NEW p \in P, p >= k, p # w, WriteAt(s, p), Covers(s, p, i)
        PROVE  BecomesRight(t, Q, w - k, mem2, i)
    <3> DEFINE q == p - k
    <3>1. q \in Q /\ q + k = p
      BY <2>2, <1>6
    <3> HIDE DEF q
    <3>2. q < n - k
      <4>1. p < n
        BY <2>2 DEF WriteAt, n
      <4> QED BY <4>1, <3>1, <1>1, <1>3, <2>2
    <3>3. WriteAt(t, q) /\ Covers(t, q, i)
      BY <3>1, <3>2, <2>2, <2>0, <1>5
    <3>4. q # w - k
      BY <3>1, <2>2, <1>1, <1>3
    <3> QED BY <3>1, <3>3, <3>4 DEF BecomesRight
  <2>3. ASSUME w - k \in Q, WriteAt(t, w - k), Covers(t, w - k, i)
        PROVE  w \in P /\ WriteAt(s, w) /\ Covers(s, w, i) /\ w >= k
    <3>1. w - k < n - k
      BY <2>3, <1>7a
    <3>2. (w - k) + k = w /\ w - k >= 0
      BY <1>3, <2>3
    <3>3. /\ (w - k) + k \in P
          /\ WriteAt(t, w - k) <=> WriteAt(s, (w - k) + k)
          /\ WriteAt(t, w - k) => \A e \in Int : Covers(t, w - k, e) <=> Covers(s, (w - k) + k, e)
      BY <3>1, <2>3, <1>5
    <3>4. w \in P /\ WriteAt(s, w) /\ Covers(s, w, i)
      BY <3>2, <3>3, <2>3, <2>0
    <3>5. w >= k
      BY <3>2, <1>3, <1>1
    <3> QED BY <3>4, <3>5
  <2>4. CASE \E p \in P : p >= k /\ p # w /\ WriteAt(s, p) /\ Covers(s, p, i)
    BY <2>4, <2>2
  <2>5. CASE \E p \in P : ~(p >= k) /\ p # w /\ WriteAt(s, p) /\ Covers(s, p, i)
    <3>1. PICK p \in P : ~(p >= k) /\ p # w /\ WriteAt(s, p) /\ Covers(s, p, i)
      BY <2>5
    <3>2. p = 0
      BY <3>1, <1>1, <1>2
    <3>3. s[1] = CmdWrite /\ Covers(s, 0, i) /\ 0 # w /\ WriteAt(s, 0)
      BY <3>1, <3>2 DEF WriteAt
    <3>4. Right(s, 0) /\ (w \in P /\ WriteAt(s, w) => w <= 0)
      BY <3>3, <1>1 DEF Delivers, OnlyFirstWrong
    <3>5. mem2[i] = s[4 + i - s[2]]
      BY <3>3 DEF Stored
    <3>6. s[0 + 4 + i - s[0 + 2]] = Payload[i]
      BY <3>3, <3>4, <2>0 DEF Right
    <3>7. mem2[i] = Payload[i]
      <4>1. 0 + 4 + i - s[0 + 2] = 4 + i - s[2]
        BY <3>3, <1>3, <2>0
      <4> QED BY <4>1, <3>5, <3>6
    <3>8. ~(w \in P /\ WriteAt(s, w))
      BY <3>3, <3>4, <1>1
    <3> QED BY <3>7, <3>8, <2>3 DEF BecomesRight
  <2>6. CASE mem[i] = Payload[i] /\ ~(w \in P /\ WriteAt(s, w) /\ Covers(s, w, i))
                /\ ~\E p \in P : p # w /\ WriteAt(s, p) /\ Covers(s, p, i)
    <3>1. ~(s[1] = CmdWrite /\ Covers(s, 0, i))
      <4>1. s[1] = CmdWrite => WriteAt(s, 0)
        BY <1>1 DEF WriteAt, n
      <4> QED BY <4>1, <2>6, <1>1
    <3>2. mem2[i] = Payload[i]
      BY <3>1, <2>6 DEF Stored
    <3> QED BY <3>2, <2>3, <2>6 DEF BecomesRight
  <2> QED BY <2>1, <2>4, <2>5, <2>6 DEF BecomesRight
<1>11. GotosLast(t, Q, D)
  <2>1. SUFFICES ASSUME NEW q \in Q, GotoAt(t, q)
                 PROVE  t[q + 2] = Base /\ DOMAIN Payload \subseteq D /\ \A r \in Q : WriteAt(t, r) => r < q
    BY DEF GotosLast
  <2>2. q < n - k
    BY <2>1, <1>7a
  <2>3. q + k \in P /\ GotoAt(s, q + k) /\ t[q + 2] = s[q + k + 2] /\ q \in Nat
    BY <2>1, <2>2, <1>5
  <2>4. s[q + k + 2] = Base /\ DOMAIN Payload \subseteq D /\ \A r \in P : WriteAt(s, r) => r < q + k
    BY <2>3 DEF Delivers, GotosLast
  <2>5. ASSUME NEW r \in Q, WriteAt(t, r) PROVE r < q
    <3>1. r < n - k
      BY <2>5, <1>7a
    <3>2. r + k \in P /\ WriteAt(s, r + k) /\ r \in Nat
      BY <3>1, <2>5, <1>5
    <3> QED BY <3>2, <2>3, <2>4, <1>3
  <2> QED BY <2>3, <2>4, <2>5
<1>12. \A q \in Q : GotoAt(t, q) => q + k \in P /\ GotoAt(s, q + k)
  BY <1>5, <1>7a
<1>13. Q \in SUBSET (0 .. Len(t))
  BY <1>4
<1>14. Delivers(t, Q, w - k, mem2, D)
  BY <1>8, <1>9, <1>10, <1>11 DEF Delivers
<1> HIDE DEF Q
<1> QED BY <1>3, <1>4, <1>12, <1>13, <1>14 DEF n


\* A sequence that is one whole command
OneCommand(c) ==
    /\ c \in Seq(Nat)
    /\ 0 < Len(c)
    /\ c[1] # CmdSpeed /\ c[1] \notin OtherCommands
    /\ c[1] = CmdWrite => 4 <= Len(c)
    /\ SizeAt(c, 0) = Len(c)

\* The commands of u are those of s, at P, and c behind them.
Extends(u, s, P, c) ==
    /\ u \in Seq(Nat)
    /\ Len(u) = Len(s) + Len(c)
    /\ Aligned(u, P \cup {Len(u)})
    /\ \A p \in P : p < Len(s) => SameAt(u, p, s, p)
    /\ SameAt(u, Len(s), c, 0)
    /\ \A p \in P \cup {Len(u)} : (p \in P /\ p < Len(s)) \/ p = Len(s) \/ p = Len(u)
    /\ Len(s) \in P /\ P \subseteq 0 .. Len(s) /\ Len(s) \in Nat /\ Len(s) < Len(u)
    /\ ~WriteAt(u, Len(u)) /\ ~GotoAt(u, Len(u)) /\ ~WriteAt(s, Len(s)) /\ ~GotoAt(s, Len(s))

\* Putting a command behind others
LEMMA AppendAt ==
    ASSUME NEW s \in Seq(Nat), NEW P, Aligned(s, P), NEW c, OneCommand(c), NEW u, u = s \o c
    PROVE  Extends(u, s, P, c)
<1> DEFINE n == Len(s)
           m == Len(c)
           e == Len(u)
           Q == P \cup {e}
<1>1. c \in Seq(Nat) /\ n \in Nat /\ m \in Nat /\ m >= 1
  BY DEF OneCommand
<1>2. /\ u \in Seq(Nat) /\ e = n + m
      /\ \A i \in 1 .. n : u[i] = s[i]
      /\ \A i \in 1 .. m : u[n + i] = c[i]
  BY <1>1, CatIs
<1>3. P \subseteq 0 .. n /\ 0 \in P /\ n \in P /\ \A p \in P : p < n => Whole(s, P, p)
  BY DEF Aligned
<1> HIDE DEF n, m, e
<1>4. n < e /\ e \in Nat
  BY <1>1, <1>2
<1>5. ASSUME NEW p \in P, p < n PROVE SameAt(u, p, s, p) /\ Whole(u, Q, p)
  <2> DEFINE k == SizeAt(s, p)
  <2>1. p \in Nat
    BY <1>3
  <2>2. /\ s[p + 1] # CmdSpeed /\ s[p + 1] \notin OtherCommands /\ (s[p + 1] = CmdWrite => p + 4 <= n)
        /\ p + k \in P /\ \A q \in P : q <= p \/ q >= p + k
    BY <1>3, <1>5 DEF Whole, n
  <2>3. k \in Nat /\ k >= 1
    BY <2>1, <2>2, <1>5, SizeIs DEF n
  <2> HIDE DEF k
  <2>4. p + k <= n
    BY <2>1, <2>2, <2>3, <1>3
  <2>5. CopyOf(u, p, s, p)
    <3>1. p + k <= e
      BY <2>1, <2>3, <2>4, <1>1, <1>4
    <3>2. \A j \in 1 .. k : u[p + j] = s[p + j]
      <4>1. SUFFICES ASSUME NEW j \in 1 .. k PROVE u[p + j] = s[p + j]
        OBVIOUS
      <4>2. p + j \in 1 .. n
        BY <2>1, <2>3, <2>4, <1>1
      <4> QED BY <4>2, <1>2
    <3> QED BY <3>1, <3>2, <2>2, <1>5 DEF CopyOf, k, n, e
  <2>6. SameAt(u, p, s, p)
    BY <2>1, <2>5, <1>2, SameCommand
  <2>7. SizeAt(u, p) = k /\ u[p + 1] = s[p + 1] /\ (u[p + 1] = CmdWrite => p + 4 <= e)
    BY <2>6 DEF SameAt, k, e
  <2>8. \A q \in Q : q <= p \/ q >= p + k
    BY <2>1, <2>2, <2>3, <2>4, <1>1, <1>4
  <2> QED BY <2>2, <2>6, <2>7, <2>8 DEF Whole, e
<1>6. SameAt(u, n, c, 0)
  <2>1. /\ 0 < Len(c) /\ (c[0 + 1] = CmdWrite => 0 + 4 <= Len(c)) /\ SizeAt(c, 0) = m
    BY DEF OneCommand, m
  <2>2. n + m <= e
    BY <1>1, <1>2
  <2>3. \A j \in 1 .. m : u[n + j] = c[0 + j]
    <3>1. \A j \in 1 .. m : 0 + j = j
      BY <1>1
    <3> QED BY <3>1, <1>2
  <2>4. CopyOf(u, n, c, 0)
    BY <2>1, <2>2, <2>3 DEF CopyOf, e
  <2> QED BY <2>4, <1>1, <1>2, SameCommand
<1>7. Whole(u, Q, n)
  <2>1. /\ u[n + 1] = c[0 + 1] /\ SizeAt(u, n) = m /\ (c[0 + 1] = CmdWrite => n + 4 <= e)
    BY <1>6 DEF SameAt, OneCommand, m, e
  <2>2. c[0 + 1] # CmdSpeed /\ c[0 + 1] \notin OtherCommands
    BY DEF OneCommand
  <2>3. n + m = e
    BY <1>2
  <2>4. \A q \in Q : q <= n \/ q >= n + m
    BY <2>3, <1>1, <1>3, <1>4
  <2> QED BY <2>1, <2>2, <2>3, <2>4 DEF Whole, e
<1>8. \A p \in Q : (p \in P /\ p < n) \/ p = n \/ p = e
  BY <1>1, <1>3
<1>9. Aligned(u, Q)
  <2>1. Q \subseteq 0 .. e /\ 0 \in Q /\ e \in Q
    BY <1>1, <1>3, <1>4
  <2>2. \A p \in Q : p < e => Whole(u, Q, p)
    <3>1. ~(e < e)
      BY <1>4
    <3> QED BY <3>1, <1>5, <1>7, <1>8
  <2> QED BY <2>1, <2>2 DEF Aligned, e
<1>10. ~WriteAt(u, e) /\ ~GotoAt(u, e) /\ ~WriteAt(s, n) /\ ~GotoAt(s, n)
  BY <1>1, <1>4 DEF WriteAt, GotoAt, e, n
<1> QED BY <1>1, <1>2, <1>3, <1>4, <1>5, <1>6, <1>8, <1>9, <1>10 DEF Extends, n, m, e

\* A wrong write that is not there may be left out.
LEMMA NoneWrong ==
    ASSUME NEW s \in Seq(Nat), NEW P, NEW w \in Int, NEW mem, NEW D, Delivers(s, P, w, mem, D)
    PROVE  \E v \in Int : v < Len(s) /\ Delivers(s, P, v, mem, D)
<1> DEFINE n == Len(s)
<1>0. n \in Nat
  OBVIOUS
<1>1. CASE w < n
  BY <1>1
<1>2. CASE ~(w < n)
  <2>1. -1 < n /\ -1 \in Int
    BY <1>0
  <2>2. -1 \notin P
    BY <1>0 DEF Delivers, Aligned
  <2>3. ~WriteAt(s, w)
    BY <1>2 DEF WriteAt
  <2>4. OnlyFirstWrong(s, P, -1)
    BY <2>2, <2>3 DEF Delivers, OnlyFirstWrong
  <2>5. \A i \in D : BecomesRight(s, P, -1, mem, i)
    <3>1. SUFFICES ASSUME NEW i \in D PROVE BecomesRight(s, P, -1, mem, i)
      OBVIOUS
    <3>2. BecomesRight(s, P, w, mem, i)
      BY DEF Delivers
    <3> QED BY <3>2, <2>2, <2>3 DEF BecomesRight
  <2>6. Delivers(s, P, -1, mem, D)
    BY <2>4, <2>5 DEF Delivers
  <2> QED BY <2>1, <2>6
<1> QED BY <1>1, <1>2

\* A command behind others.  A write is right and comes before every goto; what it writes may be due
\* from now on.  A goto is for the base address, and all is due.
LEMMA AppendCommand ==
    ASSUME NEW s \in Seq(Nat), NEW P, NEW w \in Int, w < Len(s), NEW mem, NEW D, D \subseteq DOMAIN Payload,
           Delivers(s, P, w, mem, D), NEW c, OneCommand(c), NEW u, u = s \o c,
           NEW E, E \subseteq DOMAIN Payload, D \subseteq E,
           WriteAt(c, 0) => Right(c, 0) /\ \A p \in P : ~GotoAt(s, p),
           \A i \in E : i \in D \/ (WriteAt(c, 0) /\ Covers(c, 0, i)),
           GotoAt(c, 0) => c[2] = Base /\ DOMAIN Payload \subseteq E
    PROVE  Delivers(u, P \cup {Len(u)}, w, mem, E)
<1> DEFINE n == Len(s)
           e == Len(u)
           Q == P \cup {e}
<1>1. Aligned(s, P)
  BY DEF Delivers
<1>2. Extends(u, s, P, c)
  BY <1>1, AppendAt
<1>3. /\ n \in Nat /\ n < e /\ n \in P /\ P \subseteq 0 .. n
      /\ \A p \in Q : (p \in P /\ p < n) \/ p = n \/ p = e
      /\ ~WriteAt(u, e) /\ ~GotoAt(u, e) /\ ~WriteAt(s, n) /\ ~GotoAt(s, n)
      /\ Aligned(u, Q) /\ e \in Nat
  BY <1>2 DEF Extends
<1>4. ASSUME NEW p \in P, p < n
      PROVE  /\ WriteAt(u, p) <=> WriteAt(s, p)
             /\ GotoAt(u, p) <=> GotoAt(s, p)
             /\ GotoAt(s, p) => u[p + 2] = s[p + 2]
             /\ WriteAt(s, p) => \A i \in Int : Covers(u, p, i) <=> Covers(s, p, i)
             /\ WriteAt(s, p) => (Right(u, p) <=> Right(s, p))
  <2>1. SameAt(u, p, s, p)
    BY <1>2, <1>4 DEF Extends
  <2> QED BY <2>1 DEF SameAt
<1>5. /\ WriteAt(u, n) <=> WriteAt(c, 0)
      /\ GotoAt(u, n) <=> GotoAt(c, 0)
      /\ GotoAt(c, 0) => u[n + 2] = c[0 + 2]
      /\ WriteAt(c, 0) => \A i \in Int : Covers(u, n, i) <=> Covers(c, 0, i)
      /\ WriteAt(c, 0) => (Right(u, n) <=> Right(c, 0))
  <2>1. SameAt(u, n, c, 0)
    BY <1>2 DEF Extends
  <2> QED BY <2>1 DEF SameAt
<1> HIDE DEF n, e, Q
<1>6. w < n /\ n # e
  BY <1>3 DEF n
<1>7. P \subseteq Q /\ n \in Q /\ (w \in Q => w \in P)
  BY <1>3, <1>6 DEF Q
<1>8. OnlyFirstWrong(u, Q, w)
  <2>1. SUFFICES ASSUME NEW p \in Q, WriteAt(u, p)
                 PROVE  (p = w \/ Right(u, p)) /\ (w \in Q /\ WriteAt(u, w) => w <= p)
    BY DEF OnlyFirstWrong
  <2>2. CASE p \in P /\ p < n
    BY <2>1, <2>2, <1>4, <1>6, <1>7 DEF Delivers, OnlyFirstWrong
  <2>3. CASE p = n
    BY <2>1, <2>3, <1>3, <1>5, <1>6
  <2> QED BY <2>1, <2>2, <2>3, <1>3
<1>9. ASSUME NEW i \in E PROVE BecomesRight(u, Q, w, mem, i)
  <2>0. i \in Int
    BY ConstantsFact
  <2>1. CASE i \in D
    <3>1. BecomesRight(s, P, w, mem, i)
      BY <2>1 DEF Delivers
    <3>2. ASSUME NEW p \in P, p # w, WriteAt(s, p), Covers(s, p, i) PROVE BecomesRight(u, Q, w, mem, i)
      <4>1. p < n
        BY <3>2 DEF WriteAt, n
      <4>2. WriteAt(u, p) /\ Covers(u, p, i)
        BY <4>1, <3>2, <2>0, <1>4
      <4> QED BY <4>2, <3>2, <1>7 DEF BecomesRight
    <3>3. ASSUME w \in Q, WriteAt(u, w), Covers(u, w, i) PROVE w \in P /\ WriteAt(s, w) /\ Covers(s, w, i)
      BY <3>3, <2>0, <1>4, <1>6, <1>7
    <3> QED BY <3>1, <3>2, <3>3 DEF BecomesRight
  <2>2. CASE WriteAt(c, 0) /\ Covers(c, 0, i)
    <3>1. WriteAt(u, n) /\ Covers(u, n, i)
      BY <2>2, <2>0, <1>5
    <3> QED BY <3>1, <1>6, <1>7 DEF BecomesRight
  <2> QED BY <2>1, <2>2
<1>10. GotosLast(u, Q, E)
  <2>1. SUFFICES ASSUME NEW p \in Q, GotoAt(u, p)
                 PROVE  u[p + 2] = Base /\ DOMAIN Payload \subseteq E /\ \A q \in Q : WriteAt(u, q) => q < p
    BY DEF GotosLast
  <2>2. CASE p \in P /\ p < n
    <3>1. GotoAt(s, p) /\ u[p + 2] = s[p + 2]
      BY <2>1, <2>2, <1>4
    <3>2. s[p + 2] = Base /\ DOMAIN Payload \subseteq D /\ \A q \in P : WriteAt(s, q) => q < p
      BY <3>1, <2>2 DEF Delivers, GotosLast
    <3>3. ~WriteAt(u, n)
      BY <3>1, <2>2, <1>5
    <3>4. ASSUME NEW q \in Q, WriteAt(u, q) PROVE q < p
      <4>1. q \in P /\ q < n
        BY <3>3, <3>4, <1>3
      <4>2. WriteAt(s, q)
        BY <4>1, <3>4, <1>4
      <4> QED BY <4>1, <4>2, <3>2
    <3> QED BY <3>1, <3>2, <3>4
  <2>3. CASE p = n
    <3>1. GotoAt(c, 0) /\ u[n + 2] = Base /\ DOMAIN Payload \subseteq E
      <4>1. 0 + 2 = 2
        OBVIOUS
      <4> QED BY <4>1, <2>1, <2>3, <1>5
    <3>2. ~WriteAt(c, 0)
      BY <3>1, CodesAre DEF GotoAt, WriteAt
    <3>3. \A q \in Q : WriteAt(u, q) => q < n
      BY <3>2, <1>3, <1>5
    <3> QED BY <3>1, <3>3, <2>3
  <2> QED BY <2>1, <2>2, <2>3, <1>3
<1> QED BY <1>3, <1>8, <1>9, <1>10 DEF Delivers, Q, e


\* A single byte that is no command that needs more
LEMMA SingleIs ==
    ASSUME NEW b \in Nat, b \notin {CmdSpeed, CmdRead, CmdWrite, CmdGoto}, b \notin OtherCommands
    PROVE  OneCommand(<<b>>) /\ ~WriteAt(<<b>>, 0) /\ ~GotoAt(<<b>>, 0)
<1> DEFINE c == <<b>>
<1>1. c \in Seq(Nat) /\ Len(c) = 1 /\ c[1] = b
  OBVIOUS
<1> HIDE DEF c
<1>2. c[0 + 1] = b
  BY <1>1
<1>3. SizeAt(c, 0) = 1
  BY <1>2 DEF SizeAt
<1> QED BY <1>1, <1>2, <1>3 DEF OneCommand, WriteAt, GotoAt, c

\* Three bytes that are a command to read, or to go to an address
LEMMA TripleIs ==
    ASSUME NEW b \in {CmdRead, CmdGoto}, NEW x \in Nat, NEW y \in Nat
    PROVE  /\ OneCommand(<<b, x, y>>) /\ ~WriteAt(<<b, x, y>>, 0)
           /\ GotoAt(<<b, x, y>>, 0) <=> b = CmdGoto /\ x = y
<1> DEFINE c == <<b, x, y>>
<1>1. c \in Seq(Nat) /\ Len(c) = 3 /\ c[1] = b /\ c[2] = x /\ c[3] = y
  BY CodesAre
<1> HIDE DEF c
<1>2. c[0 + 1] = b /\ c[0 + 2] = x /\ c[0 + 3] = y
  BY <1>1
<1>3. SizeAt(c, 0) = 3
  BY <1>2 DEF SizeAt
<1>4. b # CmdSpeed /\ b # CmdWrite /\ b \notin OtherCommands
  BY CodesAre
<1> QED BY <1>1, <1>2, <1>3, <1>4 DEF OneCommand, WriteAt, GotoAt, c

\* Any command behind others that is no write, and no goto that is carried out
LEMMA GoodOther ==
    ASSUME NEW s \in Seq(Nat), NEW mem, NEW D, D \subseteq DOMAIN Payload, NEW g, Good(s, mem, D, g),
           NEW c, OneCommand(c), ~WriteAt(c, 0), ~GotoAt(c, 0)
    PROVE  s \o c \in Seq(Nat) /\ Good(s \o c, mem, D, g)
<1>1. PICK P \in SUBSET (0 .. Len(s)), w0 \in Int :
            Delivers(s, P, w0, mem, D) /\ \A p \in P : GotoAt(s, p) => g
  BY DEF Good
<1>2. PICK w \in Int : w < Len(s) /\ Delivers(s, P, w, mem, D)
  BY <1>1, NoneWrong
<1> DEFINE u == s \o c
           Q == P \cup {Len(u)}
<1>3. Aligned(s, P)
  BY <1>1 DEF Delivers
<1>4. Extends(u, s, P, c)
  BY <1>3, AppendAt
<1> HIDE DEF u
<1>5. Delivers(u, Q, w, mem, D)
  BY <1>2, AppendCommand DEF u
<1>6. ASSUME NEW p \in Q, GotoAt(u, p) PROVE g
  <2>1. p \in P /\ p < Len(s)
    <3>1. (p \in P /\ p < Len(s)) \/ p = Len(s) \/ p = Len(u)
      BY <1>4 DEF Extends
    <3>2. ~GotoAt(u, Len(u)) /\ ~GotoAt(u, Len(s))
      BY <1>4 DEF Extends, SameAt
    <3> QED BY <3>1, <3>2, <1>6
  <2>2. GotoAt(s, p)
    BY <2>1, <1>4, <1>6 DEF Extends, SameAt
  <2> QED BY <2>1, <2>2, <1>1
<1>7. Q \in SUBSET (0 .. Len(u)) /\ u \in Seq(Nat)
  BY <1>4 DEF Extends, Aligned
<1> HIDE DEF Q
<1> QED BY <1>5, <1>6, <1>7 DEF Good, u

\* A goto that is carried out, behind others
LEMMA GoodGoto ==
    ASSUME NEW s \in Seq(Nat), NEW mem, NEW D, D = DOMAIN Payload, Good(s, mem, D, TRUE)
    PROVE  /\ s \o <<CmdGoto, Base, Base>> \in Seq(Nat)
           /\ Good(s \o <<CmdGoto, Base, Base>>, mem, D, TRUE)
<1> DEFINE c == <<CmdGoto, Base, Base>>
<1>0. OneCommand(c) /\ ~WriteAt(c, 0) /\ c[2] = Base
  BY TripleIs, CodesAre
<1> HIDE DEF c
<1>1. PICK P \in SUBSET (0 .. Len(s)), w0 \in Int : Delivers(s, P, w0, mem, D)
  BY DEF Good
<1>2. PICK w \in Int : w < Len(s) /\ Delivers(s, P, w, mem, D)
  BY <1>1, NoneWrong
<1> DEFINE u == s \o c
           Q == P \cup {Len(u)}
<1>3. Aligned(s, P)
  BY <1>1 DEF Delivers
<1>4. Extends(u, s, P, c)
  BY <1>0, <1>3, AppendAt
<1> HIDE DEF u
<1>5. Delivers(u, Q, w, mem, D)
  BY <1>0, <1>2, AppendCommand DEF u
<1>7. Q \in SUBSET (0 .. Len(u)) /\ u \in Seq(Nat)
  BY <1>4 DEF Extends, Aligned
<1> HIDE DEF Q
<1> QED BY <1>5, <1>7 DEF Good, u, c

\* A right write behind others, none of which is a goto: what it writes is due from now on.
LEMMA GoodWrite ==
    ASSUME NEW s \in Seq(Nat), NEW mem, NEW D, D \subseteq DOMAIN Payload, Good(s, mem, D, FALSE),
           NEW c, OneCommand(c), WriteAt(c, 0), Right(c, 0),
           NEW E, E \subseteq DOMAIN Payload, D \subseteq E, \A i \in E : i \in D \/ Covers(c, 0, i)
    PROVE  s \o c \in Seq(Nat) /\ Good(s \o c, mem, E, FALSE)
<1>0. ~GotoAt(c, 0)
  BY CodesAre DEF GotoAt, WriteAt
<1>1. PICK P \in SUBSET (0 .. Len(s)), w0 \in Int :
            Delivers(s, P, w0, mem, D) /\ \A p \in P : ~GotoAt(s, p)
  BY DEF Good
<1>2. PICK w \in Int : w < Len(s) /\ Delivers(s, P, w, mem, D)
  BY <1>1, NoneWrong
<1> DEFINE u == s \o c
           Q == P \cup {Len(u)}
<1>3. Aligned(s, P)
  BY <1>1 DEF Delivers
<1>4. Extends(u, s, P, c)
  BY <1>3, AppendAt
<1> HIDE DEF u
<1>5. Delivers(u, Q, w, mem, E)
  BY <1>0, <1>1, <1>2, AppendCommand DEF u
<1>6. ASSUME NEW p \in Q, GotoAt(u, p) PROVE FALSE
  <2>1. p \in P /\ p < Len(s)
    <3>1. (p \in P /\ p < Len(s)) \/ p = Len(s) \/ p = Len(u)
      BY <1>4 DEF Extends
    <3>2. ~GotoAt(u, Len(u)) /\ ~GotoAt(u, Len(s))
      BY <1>0, <1>4 DEF Extends, SameAt
    <3> QED BY <3>1, <3>2, <1>6
  <2>2. GotoAt(s, p)
    BY <2>1, <1>4, <1>6 DEF Extends, SameAt
  <2> QED BY <2>1, <2>2, <1>1
<1>7. Q \in SUBSET (0 .. Len(u)) /\ u \in Seq(Nat)
  BY <1>4 DEF Extends, Aligned
<1> HIDE DEF Q
<1> QED BY <1>5, <1>6, <1>7 DEF Good, u

\* Nothing but bytes that are no commands: every byte is a piece of its own.
LEMMA IdleIs ==
    ASSUME NEW s \in Seq(Nat), Idle(s)
    PROVE  /\ Aligned(s, 0 .. Len(s))
           /\ \A p \in 0 .. Len(s) : ~WriteAt(s, p) /\ ~GotoAt(s, p)
<1>1. Len(s) \in Nat /\ \A i \in 1 .. Len(s) : s[i] \notin Codes
  BY DEF Idle, Skips
<1>2. ASSUME NEW p \in 0 .. Len(s), p < Len(s)
      PROVE  s[p + 1] \notin Codes /\ SizeAt(s, p) = 1 /\ Whole(s, 0 .. Len(s), p)
  <2>1. s[p + 1] \notin Codes
    BY <1>1, <1>2
  <2>2. SizeAt(s, p) = 1
    BY <2>1 DEF SizeAt, Codes, Commands
  <2>3. p + 1 \in 0 .. Len(s) /\ \A q \in 0 .. Len(s) : q <= p \/ q >= p + 1
    BY <1>1, <1>2
  <2> QED BY <2>1, <2>2, <2>3 DEF Whole, Codes, Commands
<1>3. Aligned(s, 0 .. Len(s))
  BY <1>1, <1>2 DEF Aligned
<1>4. \A p \in 0 .. Len(s) : ~WriteAt(s, p) /\ ~GotoAt(s, p)
  BY <1>2 DEF WriteAt, GotoAt, Codes, Commands
<1> QED BY <1>3, <1>4

\* With nothing else on its way, what is due is in memory.
LEMMA GoodIdle ==
    ASSUME NEW s \in Seq(Nat), Idle(s), NEW mem, NEW D, NEW g
    PROVE  Good(s, mem, D, g) <=> \A i \in D : mem[i] = Payload[i]
<1> DEFINE P == 0 .. Len(s)
<1>1. Aligned(s, P) /\ \A p \in P : ~WriteAt(s, p) /\ ~GotoAt(s, p)
  BY IdleIs
<1> HIDE DEF P
<1>2. ASSUME \A i \in D : mem[i] = Payload[i] PROVE Good(s, mem, D, g)
  <2>1. OnlyFirstWrong(s, P, -1) /\ GotosLast(s, P, D)
    BY <1>1 DEF OnlyFirstWrong, GotosLast
  <2>2. \A i \in D : BecomesRight(s, P, -1, mem, i)
    BY <1>1, <1>2 DEF BecomesRight
  <2>3. Delivers(s, P, -1, mem, D)
    BY <2>1, <2>2, <1>1 DEF Delivers
  <2>4. P \in SUBSET (0 .. Len(s)) /\ -1 \in Int
    BY DEF P
  <2> QED BY <2>3, <2>4, <1>1 DEF Good
<1>3. ASSUME Good(s, mem, D, g), NEW i \in D PROVE mem[i] = Payload[i]
  <2>1. PICK R \in SUBSET (0 .. Len(s)), w \in Int : Delivers(s, R, w, mem, D)
    BY <1>3 DEF Good
  <2>2. BecomesRight(s, R, w, mem, i)
    BY <2>1 DEF Delivers
  <2>3. \A p \in R : ~WriteAt(s, p)
    BY <1>1 DEF P
  <2> QED BY <2>2, <2>3 DEF BecomesRight
<1> QED BY <1>2, <1>3

\* A wrong write, with nothing in front of it, spoils nothing that is due.
LEMMA GoodWrong ==
    ASSUME NEW s \in Seq(Nat), Idle(s), NEW mem, NEW D, D \subseteq DOMAIN Payload,
           NEW c, OneCommand(c), WriteAt(c, 0), \A i \in D : mem[i] = Payload[i] /\ ~Covers(c, 0, i)
    PROVE  s \o c \in Seq(Nat) /\ Good(s \o c, mem, D, FALSE)
<1> DEFINE P == 0 .. Len(s)
           u == s \o c
           n == Len(s)
           Q == P \cup {Len(u)}
<1>1. Aligned(s, P) /\ \A p \in P : ~WriteAt(s, p) /\ ~GotoAt(s, p)
  BY IdleIs
<1>2. Extends(u, s, P, c)
  BY <1>1, AppendAt
<1> HIDE DEF u
<1>3. ~GotoAt(c, 0)
  BY CodesAre DEF GotoAt, WriteAt
<1>4. \A p \in Q : (p \in P /\ p < n) \/ p = n \/ p = Len(u)
  BY <1>2 DEF Extends
<1>5. /\ ~GotoAt(u, n) /\ ~GotoAt(u, Len(u)) /\ ~WriteAt(u, Len(u)) /\ n \in Int /\ n \in Q
      /\ \A i \in Int : Covers(u, n, i) <=> Covers(c, 0, i)
  BY <1>2, <1>3 DEF Extends, SameAt
<1>6. \A p \in P : p < n => ~WriteAt(u, p) /\ ~GotoAt(u, p)
  BY <1>1, <1>2 DEF Extends, SameAt
<1>7. Aligned(u, Q) /\ u \in Seq(Nat)
  BY <1>2 DEF Extends
<1>8. Q \in SUBSET (0 .. Len(u))
  BY <1>7 DEF Aligned
<1> HIDE DEF Q, n, P
<1>9. (\A p \in Q : ~GotoAt(u, p)) /\ (\A p \in Q : WriteAt(u, p) => p = n)
  BY <1>4, <1>5, <1>6
<1>10. OnlyFirstWrong(u, Q, n) /\ GotosLast(u, Q, D)
  BY <1>5, <1>9 DEF OnlyFirstWrong, GotosLast
<1>11. ASSUME NEW i \in D PROVE BecomesRight(u, Q, n, mem, i)
  <2>1. i \in Int
    BY ConstantsFact
  <2> QED BY <2>1, <1>5 DEF BecomesRight
<1>12. Delivers(u, Q, n, mem, D)
  BY <1>7, <1>10, <1>11 DEF Delivers
<1> QED BY <1>5, <1>7, <1>8, <1>9, <1>12 DEF Good, u

\* The phone takes the first command.
LEMMA GoodTake ==
    ASSUME NEW s \in Seq(Nat), s # <<>>, NEW mem, NEW mem2, NEW D, D \subseteq DOMAIN Payload, NEW g,
           Good(s, mem, D, g), NEW k, k = SizeAt(s, 0), Stored(s, mem, mem2, D)
    PROVE  /\ SubSeq(s, k + 1, Len(s)) \in Seq(Nat)
           /\ Good(SubSeq(s, k + 1, Len(s)), mem2, D, g)
<1> DEFINE t == SubSeq(s, k + 1, Len(s))
<1>1. PICK P \in SUBSET (0 .. Len(s)), w \in Int :
            Delivers(s, P, w, mem, D) /\ \A p \in P : GotoAt(s, p) => g
  BY DEF Good
<1>2. /\ k \in 1 .. Len(s)
      /\ t \in Seq(Nat)
      /\ \E Q \in SUBSET (0 .. Len(t)) :
            /\ Delivers(t, Q, w - k, mem2, D)
            /\ \A q \in Q : GotoAt(t, q) => q + k \in P /\ GotoAt(s, q + k)
  <2>1. t = SubSeq(s, k + 1, Len(s))
    OBVIOUS
  <2> HIDE DEF t
  <2> QED BY <1>1, <2>1, TakeHead, ZenonT(60)
<1>3. w - k \in Int
  BY <1>2
<1> HIDE DEF t
<1>4. PICK Q \in SUBSET (0 .. Len(t)) :
            /\ Delivers(t, Q, w - k, mem2, D)
            /\ \A q \in Q : GotoAt(t, q) => q + k \in P /\ GotoAt(s, q + k)
  BY <1>2
<1>5. \A q \in Q : GotoAt(t, q) => g
  BY <1>1, <1>4
<1> QED BY <1>2, <1>3, <1>4, <1>5 DEF Good, t

\* The first command is there as a whole, and the size the phone takes is its size.
LEMMA GoodHead ==
    ASSUME NEW s \in Seq(Nat), s # <<>>, NEW mem, NEW D, NEW g, Good(s, mem, D, g)
    PROVE  /\ s[1] # CmdSpeed /\ s[1] \notin OtherCommands
           /\ CommandSize(s) = SizeAt(s, 0)
           /\ SizeAt(s, 0) \in 1 .. Len(s)
           /\ s[1] \in {CmdRead, CmdGoto} => Len(s) >= 3
           /\ s[1] = CmdWrite => 4 + s[3] <= Len(s) /\ s[3] \in Nat /\ s[2] \in Nat
<1>1. PICK P \in SUBSET (0 .. Len(s)), w \in Int : Delivers(s, P, w, mem, D)
  BY DEF Good
<1>2. Whole(s, P, 0)
  BY <1>1 DEF Delivers, Aligned
<1> DEFINE k == SizeAt(s, 0)  b == s[3]  n == Len(s)  c == s[1]
<1>3. s[0 + 1] # CmdSpeed /\ s[0 + 1] \notin OtherCommands /\ (s[0 + 1] = CmdWrite => 0 + 4 <= Len(s)) /\ 0 + k \in P
  BY <1>2 DEF Whole
<1>4. Len(s) \in Nat /\ 0 < Len(s)
  OBVIOUS
<1>5. /\ k \in Nat /\ k >= 1
      /\ s[0 + 1] \in {CmdRead, CmdGoto} => k = 3
      /\ s[0 + 1] = CmdWrite => k = 4 + s[0 + 3] /\ s[0 + 2] \in Nat /\ s[0 + 3] \in Nat
      /\ s[0 + 1] \notin {CmdRead, CmdGoto, CmdWrite} => k = 1
  BY <1>3, <1>4, SizeIs
<1>6. /\ n \in Nat /\ k \in Nat /\ k >= 1 /\ c # CmdSpeed /\ c \notin OtherCommands
      /\ c \in {CmdRead, CmdGoto} => k = 3
      /\ c = CmdWrite => k = 4 + b /\ b \in Nat /\ s[2] \in Nat /\ 4 <= n
      /\ c \notin {CmdRead, CmdGoto, CmdWrite} => k = 1
  BY <1>3, <1>4, <1>5
<1>7. 0 + k \in 0 .. n
  BY <1>1, <1>3
<1>8. CommandSize(s) = IF c \in {CmdRead, CmdGoto} THEN 3
                       ELSE IF c = CmdSpeed THEN 2
                       ELSE IF c = CmdWrite THEN (IF n < 3 THEN 3 ELSE 3 + b + 1) ELSE 1
  BY CodesAre DEF CommandSize
<1> HIDE DEF k, b, n, c
<1>9. k \in 1 .. n
  BY <1>6, <1>7
<1>10. CommandSize(s) = k
  BY <1>6, <1>8, CodesAre, SMTT(30)
<1>11. (c \in {CmdRead, CmdGoto} => n >= 3) /\ (c = CmdWrite => 4 + b <= n)
  BY <1>6, <1>9
<1> QED BY <1>6, <1>9, <1>10, <1>11 DEF k, b, n, c

\* When a goto is the first command, all is in memory, and the address is right.
LEMMA GoodStart ==
    ASSUME NEW s \in Seq(Nat), NEW mem, NEW D, NEW g, Good(s, mem, D, g), GotoAt(s, 0)
    PROVE  s[2] = Base /\ \A i \in DOMAIN Payload : mem[i] = Payload[i]
<1>1. PICK P \in SUBSET (0 .. Len(s)), w \in Int : Delivers(s, P, w, mem, D)
  BY DEF Good
<1>2. 0 \in P
  BY <1>1 DEF Delivers, Aligned
<1>3. s[0 + 2] = Base /\ DOMAIN Payload \subseteq D /\ \A q \in P : WriteAt(s, q) => q < 0
  BY <1>1, <1>2 DEF Delivers, GotosLast
<1>4. \A q \in P : ~WriteAt(s, q)
  BY <1>1, <1>3
<1>5. ASSUME NEW i \in DOMAIN Payload PROVE mem[i] = Payload[i]
  <2>1. BecomesRight(s, P, w, mem, i)
    BY <1>1, <1>3 DEF Delivers
  <2> QED BY <2>1, <1>4 DEF BecomesRight
<1>6. 0 + 2 = 2
  OBVIOUS
<1> QED BY <1>3, <1>5, <1>6

-----------------------------------------------------------------------------
\* Steps: the types.

\* What may have become of m: it is as it was, or has the one fault of the session, and that is one against which
\* the programs are guarded.
Outcome(m, d, l, C, b) ==
    \/ b = m /\ faults' = faults
    \/ faults = 0 /\ faults' = 1 /\ \E i \in d + 1 .. Len(m) : DamagedAt(m, b, i) /\ b[i] \notin C
    \/ faults = 0 /\ faults' = 1 /\ \E i \in l + 1 .. Len(m) : LostAt(m, b, i)

\* A step keeps the count of faults; what is not guarded stays so.
Counted == faults' \in 0 .. MaxFaults /\ blind' \in BOOLEAN /\ (Guarded' => Guarded)

\* A step without a fault
LEMMA NotCounted ==
    ASSUME Types, UNCHANGED <<faults, blind>>
    PROVE  Counted
<1>1. faults' \in 0 .. MaxFaults /\ blind' \in BOOLEAN
  BY DEF Types
<1>2. Guarded' => Guarded
  BY DEF Guarded
<1> QED BY <1>1, <1>2 DEF Counted

\* What is put on a line
LEMMA ArrivesIs ==
    ASSUME Types, NEW s \in Seq(Nat), NEW t, NEW b \in Seq(Nat), Arrives(s, t, b)
    PROVE  t \in Seq(Nat) /\ t = IF fast.host = fast.phone THEN s \o b ELSE s
<1>1. t = IF fast.host = fast.phone THEN s \o b ELSE s
  BY DEF Arrives
<1>2. s \o b \in Seq(Nat)
  BY CatIs
<1> QED BY <1>1, <1>2

\* What is sent
LEMMA SentIs ==
    ASSUME Types, NEW s \in Seq(Nat), NEW t, NEW m \in Seq(Nat), NEW d \in Nat, NEW l \in Nat, NEW C,
           Sent(s, t, m, d, l, C)
    PROVE  /\ t \in Seq(Nat) /\ faults' \in 0 .. MaxFaults /\ blind' \in BOOLEAN
           /\ faults' = faults \/ faults' = faults + 1
           /\ Guarded' => /\ Guarded
                          /\ \E b \in Seq(Nat) : /\ Outcome(m, d, l, C, b)
                                                 /\ t = IF fast.host = fast.phone THEN s \o b ELSE s
<1>0. faults \in 0 .. MaxFaults /\ MaxFaults \in Nat /\ blind \in BOOLEAN
  BY ConstantsFact DEF Types
<1>1. CASE Arrives(s, t, m) /\ UNCHANGED <<faults, blind>>
  <2>1. t \in Seq(Nat) /\ t = IF fast.host = fast.phone THEN s \o m ELSE s
    BY <1>1, ArrivesIs
  <2>2. Outcome(m, d, l, C, m)
    BY <1>1 DEF Outcome
  <2>3. Guarded' => Guarded
    BY <1>1 DEF Guarded
  <2> QED BY <2>1, <2>2, <2>3, <1>0, <1>1
<1>2. ASSUME faults < MaxFaults, faults' = faults + 1, NEW i \in 1 .. Len(m),
             Arrives(s, t, Lost(m, i)), blind' = (blind \/ i <= l)
      PROVE  /\ t \in Seq(Nat) /\ faults' \in 0 .. MaxFaults /\ blind' \in BOOLEAN
             /\ Guarded' => /\ Guarded
                            /\ \E b \in Seq(Nat) : /\ Outcome(m, d, l, C, b)
                                                   /\ t = IF fast.host = fast.phone THEN s \o b ELSE s
  <2> DEFINE b == Lost(m, i)
  <2>1. b \in Seq(Nat) /\ LostAt(m, b, i)
    BY LostIs
  <2> HIDE DEF b
  <2>2. t \in Seq(Nat) /\ t = IF fast.host = fast.phone THEN s \o b ELSE s
    BY <2>1, <1>2, ArrivesIs DEF b
  <2>3. faults' \in 0 .. MaxFaults /\ blind' \in BOOLEAN
    BY <1>0, <1>2
  <2>4. ASSUME Guarded' PROVE faults = 0 /\ faults' = 1 /\ ~blind /\ ~(i <= l)
    <3>1. ~blind' /\ faults' <= 1
      BY <2>4 DEF Guarded
    <3>2. ~blind /\ ~(i <= l)
      BY <3>1, <1>2, Zenon
    <3>3. faults \in Nat /\ faults' = faults + 1
      BY <1>0, <1>2
    <3> QED BY <3>1, <3>2, <3>3
  <2>5. ASSUME Guarded' PROVE Outcome(m, d, l, C, b)
    <3>1. i \in l + 1 .. Len(m)
      BY <2>4, <2>5
    <3> QED BY <3>1, <2>1, <2>4, <2>5 DEF Outcome
  <2>6. ASSUME Guarded' PROVE Guarded
    BY <2>4, <2>6 DEF Guarded
  <2> QED BY <2>1, <2>2, <2>3, <2>5, <2>6
<1>3. ASSUME faults < MaxFaults, faults' = faults + 1, NEW i \in 1 .. Len(m), NEW x \in Noise \ {m[i]},
             Arrives(s, t, Damaged(m, i, x)), blind' = (blind \/ i <= d \/ x \in C)
      PROVE  /\ t \in Seq(Nat) /\ faults' \in 0 .. MaxFaults /\ blind' \in BOOLEAN
             /\ Guarded' => /\ Guarded
                            /\ \E b \in Seq(Nat) : /\ Outcome(m, d, l, C, b)
                                                   /\ t = IF fast.host = fast.phone THEN s \o b ELSE s
  <2> DEFINE b == Damaged(m, i, x)
  <2>1. b \in Seq(Nat) /\ DamagedAt(m, b, i) /\ b[i] = x
    BY DamagedIs
  <2> HIDE DEF b
  <2>2. t \in Seq(Nat) /\ t = IF fast.host = fast.phone THEN s \o b ELSE s
    BY <2>1, <1>3, ArrivesIs DEF b
  <2>3. faults' \in 0 .. MaxFaults /\ blind' \in BOOLEAN
    BY <1>0, <1>3
  <2>4. ASSUME Guarded' PROVE faults = 0 /\ faults' = 1 /\ ~blind /\ ~(i <= d) /\ x \notin C
    <3>1. ~blind' /\ faults' <= 1
      BY <2>4 DEF Guarded
    <3>2. ~blind /\ ~(i <= d) /\ x \notin C
      BY <3>1, <1>3, Zenon
    <3>3. faults \in Nat /\ faults' = faults + 1
      BY <1>0, <1>3
    <3> QED BY <3>1, <3>2, <3>3
  <2>5. ASSUME Guarded' PROVE Outcome(m, d, l, C, b)
    <3>1. i \in d + 1 .. Len(m)
      BY <2>4, <2>5
    <3> QED BY <3>1, <2>1, <2>4, <2>5 DEF Outcome
  <2>6. ASSUME Guarded' PROVE Guarded
    BY <2>4, <2>6 DEF Guarded
  <2> QED BY <2>1, <2>2, <2>3, <2>5, <2>6
<1> QED BY <1>1, <1>2, <1>3 DEF Sent

\* What is sent to the phone
LEMMA UpSent ==
    ASSUME Types, NEW m \in Seq(Nat), NEW d \in Nat, NEW l \in Nat, SentUp(m, d, l)
    PROVE  /\ up' \in Seq(Nat) /\ faults' \in 0 .. MaxFaults /\ Counted
           /\ faults' = faults \/ faults' = faults + 1
           /\ Guarded' => \E b \in Seq(Nat) : /\ Outcome(m, d, l, Codes, b)
                                              /\ up' = IF fast.host = fast.phone THEN up \o b ELSE up
<1>1. up \in Seq(Nat) /\ Sent(up, up', m, d, l, Codes)
  BY DEF Types, SentUp, Codes
<1> QED BY <1>1, SentIs DEF Counted

\* A block is sent to the phone.
LEMMA BlockUp ==
    ASSUME Types, NEW m \in Seq(Nat), NEW d \in Nat, SentBlock(m, d)
    PROVE  /\ up' \in Seq(Nat) /\ faults' \in 0 .. MaxFaults /\ Counted
           /\ faults' = faults \/ faults' = faults + 1
           /\ Guarded' => \E b \in Seq(Nat) : /\ Outcome(m, d, d, {}, b)
                                              /\ up' = IF fast.host = fast.phone THEN up \o b ELSE up
<1>1. up \in Seq(Nat) /\ Sent(up, up', m, d, d, {})
  BY DEF Types, SentBlock
<1> QED BY <1>1, SentIs DEF Counted

\* What the phone answers
LEMMA DownSent ==
    ASSUME Types, NEW m \in Seq(Nat), Answers(m)
    PROVE  /\ down' \in Seq(Nat) /\ faults' \in 0 .. MaxFaults /\ Counted
           /\ faults' = faults \/ faults' = faults + 1
           /\ Guarded' => \E b \in Seq(Nat) : /\ Outcome(m, 0, 0, {}, b)
                                              /\ down' = IF fast.host = fast.phone THEN down \o b ELSE down
<1>1. down \in Seq(Nat) /\ Sent(down, down', m, 0, 0, {})
  BY DEF Types, Answers
<1> QED BY <1>1, SentIs DEF Counted

\* What a command leaves on the line
LEMMA RestIs ==
    ASSUME Types, up # <<>>, Len(up) >= CommandSize(up)
    PROVE  /\ SubSeq(up, CommandSize(up) + 1, Len(up)) \in Seq(Nat)
           /\ CommandSize(up) \in Nat /\ CommandSize(up) >= 1
           /\ up[1] \in {CmdRead, CmdGoto} => CommandSize(up) = 3 /\ up[2] \in Nat /\ up[3] \in Nat
           /\ up[1] = CmdWrite => /\ CommandSize(up) = 4 + up[3] /\ Len(up) >= 4
                                  /\ up[2] \in Nat /\ up[3] \in Nat
<1> DEFINE k == CommandSize(up)  b == up[3]  n == Len(up)  c == up[1]
<1>1. up \in Seq(Nat) /\ n \in Nat /\ n >= 1 /\ \A i \in 1 .. n : up[i] \in Nat
  BY DEF Types
<1>2. k = IF c \in {CmdRead, CmdGoto} THEN 3
          ELSE IF c = CmdSpeed THEN 2
          ELSE IF c = CmdWrite THEN (IF n < 3 THEN 3 ELSE 3 + b + 1) ELSE 1
  BY CodesAre DEF CommandSize
<1>3. n >= k
  OBVIOUS
<1>4. n >= 3 => up[2] \in Nat /\ b \in Nat
  BY <1>1
<1> HIDE DEF k, b, n, c
<1>5. /\ k \in Nat /\ k >= 1
      /\ c \in {CmdRead, CmdGoto} => k = 3 /\ n >= 3
      /\ c = CmdWrite => k = 4 + b /\ n >= 4 /\ b \in Nat
  BY <1>1, <1>2, <1>3, <1>4, CodesAre, SMTT(30)
<1>6. SubSeq(up, k + 1, n) \in Seq(Nat)
  <2>1. k + 1 \in Nat /\ 1 <= k + 1 /\ n \in Int /\ n <= Len(up)
    BY <1>1, <1>5 DEF n
  <2> QED BY <2>1, <1>1, PartIs
<1>7. n >= 4 => up[2] \in Nat
  BY <1>1, <1>4
<1> QED BY <1>4, <1>5, <1>6, <1>7 DEF k, b, n, c

\* The answers of the phone are bytes.
LEMMA AnswersAre ==
    /\ Pong \in Seq(Nat) /\ Len(Pong) = 1 /\ Pong[1] = 82
    /\ SpeedSoon \in Seq(Nat) /\ Len(SpeedSoon) = 1 /\ SpeedSoon[1] = 104
    /\ SpeedDone \in Seq(Nat) /\ Len(SpeedDone) = 1 /\ SpeedDone[1] = 72
    /\ OK \in Seq(Nat) /\ Len(OK) = 2 /\ OK[1] = 79 /\ OK[2] = 75
    /\ ChecksumError \in Seq(Nat) /\ Len(ChecksumError) = 2 /\ ChecksumError[1] = 187
    /\ GotoError \in Seq(Nat) /\ Len(GotoError) = 1 /\ GotoError[1] = 170
    /\ \A x \in Nat : Echo(x) \in Seq(Nat) /\ Len(Echo(x)) = 2
BY DEF Pong, SpeedSoon, SpeedDone, OK, ChecksumError, GotoError, Echo

\* The answer to a command to read
LEMMA DataAnswerIs ==
    ASSUME Types, NEW x \in Nat, NEW y \in Nat
    PROVE  /\ Memory(x, y) \in Seq(Nat)
           /\ Memory(x, y) \o OK \o <<xor_checksum(Memory(x, y)), 0>> \in Seq(Nat)
           /\ Len(Memory(x, y) \o OK \o <<xor_checksum(Memory(x, y)), 0>>) = y + 4
<1> DEFINE d == Memory(x, y)
           e == <<xor_checksum(d), 0>>
           do == d \o OK
<1>1. d \in Seq(Nat) /\ Len(d) = y
  <2> DEFINE v(i) == IF x + i - 1 \in DOMAIN ram THEN ram[x + i - 1] ELSE 0
  <2>1. \A i \in 1 .. y : v(i) \in Nat
    BY DEF Types
  <2>2. d = [i \in 1 .. y |-> v(i)]
    BY DEF Memory
  <2> HIDE DEF v, d
  <2> QED BY <2>1, <2>2
<1> HIDE DEF d
<1>2. xor_checksum(d) \in Nat
  <2>1. xor_checksum(d) \in 0 .. 255
    BY <1>1, ChecksumIs
  <2> QED BY <2>1
<1>3. e \in Seq(Nat) /\ Len(e) = 2
  BY <1>2
<1>4. OK \in Seq(Nat) /\ Len(OK) = 2
  BY AnswersAre
<1> HIDE DEF e
<1>5. do \in Seq(Nat) /\ Len(do) = Len(d) + Len(OK)
  BY <1>1, <1>4, CatIs
<1> HIDE DEF do
<1>6. do \o e \in Seq(Nat) /\ Len(do \o e) = Len(do) + Len(e)
  BY <1>3, <1>5, CatIs
<1>7. Len(do \o e) = y + 4
  BY <1>1, <1>3, <1>4, <1>5, <1>6
<1> QED BY <1>1, <1>6, <1>7 DEF d, e, do


\* The rest of what has arrived
LEMMA DownRest ==
    ASSUME Types, NEW n \in Nat, ReadReturns(n)
    PROVE  down' \in Seq(Nat) /\ (Len(down) <= n => down' = <<>>)
<1>1. down \in Seq(Nat) /\ Len(down) \in Nat
  BY DEF Types
<1>2. down' = SubSeq(down, n + 1, Len(down))
  BY DEF ReadReturns
<1>3. SubSeq(down, n + 1, Len(down)) \in Seq(Nat)
  <2>1. n + 1 \in Nat /\ 1 <= n + 1 /\ Len(down) \in Int /\ Len(down) <= Len(down)
    BY <1>1
  <2> QED BY <2>1, <1>1, PartIs
<1>4. ASSUME Len(down) <= n PROVE SubSeq(down, n + 1, Len(down)) = <<>>
  BY <1>1, <1>4
<1> QED BY <1>2, <1>3, <1>4

\* A task goes on, or is done.
LEMMA AdvanceIs ==
    ASSUME Types, todo # <<>>, NEW n \in Nat, Advance(n)
    PROVE  /\ todo' \in Seq({"ping", "speed", "read", "write", "goto"})
           /\ offset' \in 0 .. Len(Payload) - 1
           /\ todo' # <<>> \/ host' = "done"
           /\ host' \in {"send", "done"}
           /\ offset + n < Len(Payload) => todo' = todo /\ offset' = offset + n /\ host' = "send"
           /\ offset + n >= Len(Payload) => todo' = Tail(todo) /\ offset' = 0
<1> DEFINE L == Len(Payload)
<1>1. L \in Nat /\ L >= 1 /\ offset \in 0 .. L - 1 /\ todo \in Seq({"ping", "speed", "read", "write", "goto"})
  BY ConstantsFact DEF Types
<1>2. /\ host' = IF offset + n >= L /\ Len(todo) = 1 THEN "done" ELSE "send"
      /\ IF offset + n >= L THEN todo' = Tail(todo) /\ offset' = 0 ELSE offset' = offset + n /\ todo' = todo
  BY DEF Advance
<1> HIDE DEF L
<1>3. CASE offset + n >= L
  <2>1. Tail(todo) \in Seq({"ping", "speed", "read", "write", "goto"}) /\ (Len(todo) # 1 => Tail(todo) # <<>>)
    <3> DEFINE S == {"ping", "speed", "read", "write", "goto"}
    <3> HIDE DEF S
    <3>1. todo \in Seq(S)
      BY <1>1 DEF S
    <3>2. Tail(todo) \in Seq(S) /\ Len(Tail(todo)) = Len(todo) - 1 /\ Len(todo) \in Nat /\ Len(todo) > 0
      BY <3>1
    <3>3. Len(todo) # 1 => Len(Tail(todo)) # 0
      BY <3>2
    <3> DEFINE tt == Tail(todo)
    <3> HIDE DEF tt
    <3>4. tt = <<>> => Len(tt) = 0
      OBVIOUS
    <3> QED BY <3>2, <3>3, <3>4 DEF S, tt
  <2> QED BY <2>1, <1>1, <1>2, <1>3, SMTT(30) DEF L
<1>4. CASE ~(offset + n >= L)
  BY <1>1, <1>2, <1>4 DEF L
<1> QED BY <1>3, <1>4

\* A step of the phone, in parts
LEMMA TypesOfPhone ==
    ASSUME Types, up' \in Seq(Nat), down' \in Seq(Nat), ram' \in [DOMAIN Payload -> Nat],
           fast' \in [host : BOOLEAN, phone : BOOLEAN], Counted, HostWaits
    PROVE  Types' /\ (Guarded' => Guarded)
BY DEF Types, HostWaits, Counted

\* A step of the host, in parts
LEMMA TypesOfHost ==
    ASSUME Types, up' \in Seq(Nat), down' \in Seq(Nat), PhoneWaits,
           fast' \in [host : BOOLEAN, phone : BOOLEAN], Counted,
           \/ UNCHANGED <<todo, offset>> /\ (todo # <<>> \/ host' = "exit")
           \/ /\ todo' \in Seq({"ping", "speed", "read", "write", "goto"})
              /\ todo' # <<>> \/ host' = "done"
              /\ offset' \in 0 .. Len(Payload) - 1
    PROVE  Types' /\ (Guarded' => Guarded)
BY DEF Types, PhoneWaits, Counted

\* The phone's steps keep the types.
LEMMA TypesPhone ==
    ASSUME Types, Phone
    PROVE  Types' /\ (Guarded' => Guarded)
<1>0. /\ up \in Seq(Nat) /\ down \in Seq(Nat) /\ ram \in [DOMAIN Payload -> Nat]
      /\ fast \in [host : BOOLEAN, phone : BOOLEAN] 
  BY DEF Types
<1>1. ASSUME NEW c, Takes(c)
      PROVE  up' \in Seq(Nat) /\ up # <<>> /\ Len(up) >= CommandSize(up) /\ up[1] = c
  <2>1. up # <<>> /\ Len(up) >= CommandSize(up) /\ up' = SubSeq(up, CommandSize(up) + 1, Len(up)) /\ up[1] = c
    BY <1>1 DEF Takes
  <2> QED BY <2>1, RestIs
<1>2. CASE cmd_ping
  <2>1. Takes(CmdPing) /\ Answers(Pong) /\ UNCHANGED <<ram, fast>> /\ HostWaits
    BY <1>2 DEF cmd_ping
  <2>2. down' \in Seq(Nat) /\ Counted
    BY <2>1, DownSent, AnswersAre
  <2> QED BY <2>1, <2>2, <1>0, <1>1, TypesOfPhone
<1>3. CASE cmd_speed
  <2>1. Takes(CmdSpeed) /\ Answers(SpeedSoon) /\ UNCHANGED ram /\ HostWaits /\ fast' = [fast EXCEPT !.phone = TRUE]
    BY <1>3 DEF cmd_speed
  <2>2. down' \in Seq(Nat) /\ Counted
    BY <2>1, DownSent, AnswersAre
  <2>3. fast' \in [host : BOOLEAN, phone : BOOLEAN]
    BY <2>1, <1>0
  <2> QED BY <2>1, <2>2, <2>3, <1>0, <1>1, TypesOfPhone
<1>4. CASE SpeedConfirmed
  <2>1. /\ up # <<>> /\ up' = Tail(up) /\ UNCHANGED <<ram, fast>> /\ HostWaits
        /\ Answers(SpeedDone) \/ UNCHANGED <<down, faults, blind>>
    BY <1>4 DEF SpeedConfirmed
  <2>2. down' \in Seq(Nat) /\ Counted
    BY <2>1, <1>0, DownSent, AnswersAre, NotCounted
  <2>3. up' \in Seq(Nat)
    BY <2>1, <1>0
  <2> QED BY <2>1, <2>2, <2>3, <1>0, TypesOfPhone
<1>5. CASE cmd_read
  <2> DEFINE m == Memory(up[2], up[3]) \o OK \o <<xor_checksum(Memory(up[2], up[3])), 0>>
  <2>1. Takes(CmdRead) /\ Answers(m) /\ UNCHANGED <<ram, fast>> /\ HostWaits
    BY <1>5 DEF cmd_read
  <2>2. up[2] \in Nat /\ up[3] \in Nat
    BY <2>1, <1>1, RestIs
  <2>3. m \in Seq(Nat)
    BY <2>2, DataAnswerIs
  <2> HIDE DEF m
  <2>4. down' \in Seq(Nat) /\ Counted
    BY <2>1, <2>3, DownSent
  <2> QED BY <2>1, <2>4, <1>0, <1>1, TypesOfPhone
<1>6. CASE cmd_write
  <2> DEFINE a == up[2]
             b == up[3]
             data == SubSeq(up, 4, 3 + b)
             m == BlockAnswer(data, up[4 + up[3]])
  <2>1. /\ Takes(CmdWrite) /\ Answers(m) /\ UNCHANGED fast /\ HostWaits
        /\ ram' = [i \in DOMAIN ram |-> IF i \in a .. a + b - 1 THEN data[i - a + 1] ELSE ram[i]]
    BY <1>6 DEF cmd_write
  <2>2. a \in Nat /\ b \in Nat /\ Len(up) \in Nat /\ Len(up) >= 4 + b
    BY <2>1, <1>0, <1>1, RestIs
  <2>3. m \in Seq(Nat)
    BY AnswersAre DEF BlockAnswer
  <2> HIDE DEF m, a, b
  <2>4. down' \in Seq(Nat) /\ Counted
    BY <2>1, <2>3, DownSent
  <2>5. \A j \in 1 .. b : data[j] \in Nat
    <3>1. 4 \in Nat /\ 1 <= 4 /\ 3 + b \in Int /\ 3 + b <= Len(up)
      BY <2>2
    <3> DEFINE e == 3 + b
    <3> HIDE DEF e
    <3>4. e \in Int /\ e <= Len(up)
      BY <3>1 DEF e
    <3>5. SubSeq(up, 4, e) \in Seq(Nat) /\ Len(SubSeq(up, 4, e)) = IF 4 <= e THEN e - 4 + 1 ELSE 0
      BY <3>4, <1>0, PartIs
    <3>6. data = SubSeq(up, 4, e)
      BY DEF e
    <3> HIDE DEF data
    <3>7. data \in Seq(Nat) /\ Len(data) = IF 4 <= e THEN e - 4 + 1 ELSE 0
      BY <3>5, <3>6, Zenon
    <3>3. Len(data) = b
      BY <3>7, <2>2 DEF e
    <3> QED BY <3>7, <3>3
  <2> HIDE DEF data
  <2>6. ram' \in [DOMAIN Payload -> Nat]
    <3>1. ASSUME NEW i \in DOMAIN Payload
          PROVE  (IF i \in a .. a + b - 1 THEN data[i - a + 1] ELSE ram[i]) \in Nat
      <4>1. i \in Nat /\ ram[i] \in Nat
        BY <1>0, ConstantsFact
      <4>2. i \in a .. a + b - 1 => i - a + 1 \in 1 .. b
        BY <4>1, <2>2
      <4> QED BY <4>1, <4>2, <2>5
    <3>2. DOMAIN ram = DOMAIN Payload
      BY <1>0
    <3> QED BY <3>1, <3>2, <2>1
  <2> QED BY <2>1, <2>4, <2>6, <1>0, <1>1, TypesOfPhone
<1>7. CASE cmd_goto
  <2>1. /\ Takes(CmdGoto) /\ UNCHANGED <<ram, fast>> /\ HostWaits
        /\ Answers(Echo(up[2])) \/ Answers(GotoError)
    BY <1>7 DEF cmd_goto
  <2>2. up[2] \in Nat
    BY <2>1, <1>1, RestIs
  <2>3. Echo(up[2]) \in Seq(Nat) /\ GotoError \in Seq(Nat)
    BY <2>2, AnswersAre
  <2>4. down' \in Seq(Nat) /\ Counted
    BY <2>1, <2>3, DownSent
  <2> QED BY <2>1, <2>4, <1>0, <1>1, TypesOfPhone
<1>8. CASE OtherByte \/ OtherCommand
  <2>1. /\ up # <<>> /\ up' = Tail(up) /\ UNCHANGED <<ram, fast, down, faults, blind>> /\ HostWaits
    BY <1>8 DEF OtherByte, OtherCommand
  <2>3. up' \in Seq(Nat)
    BY <2>1, <1>0
  <2> QED BY <2>1, <2>3, <1>0, TypesOfPhone, NotCounted
<1> QED BY <1>2, <1>3, <1>4, <1>5, <1>6, <1>7, <1>8 DEF Phone

\* Messages of the host
LEMMA MessagesAre ==
    ASSUME Types
    PROVE  /\ Alive \o WriteRequest \in Seq(Nat) /\ Len(Alive) + 3 \in Nat
           /\ <<KeepAlive>> \o WriteRequest \in Seq(Nat)
           /\ Alive \o ReadRequest \in Seq(Nat)
           /\ <<KeepAlive>> \o GotoRequest \in Seq(Nat)
           /\ <<CmdSpeed, 7>> \in Seq(Nat)
<1>1. WriteRequest \in Seq(Nat)
  BY WriteRequestIs
<1>2. /\ ReadRequest \in Seq(Nat) /\ GotoRequest \in Seq(Nat) /\ <<KeepAlive>> \in Seq(Nat)
      /\ Alive \in Seq(Nat)
  BY RequestsAre
<1>3. <<CmdSpeed, 7>> \in Seq(Nat)
  BY CodesAre
<1>4. Len(Alive) + 3 \in Nat
  BY <1>2
<1> QED BY <1>1, <1>2, <1>3, <1>4, CatIs


\* The host's steps keep the types.
LEMMA TypesHost ==
    ASSUME Types, Host
    PROVE  Types' /\ (Guarded' => Guarded)
<1>0. /\ up \in Seq(Nat) /\ down \in Seq(Nat)
      /\ fast \in [host : BOOLEAN, phone : BOOLEAN]
      /\ todo # <<>> \/ host \in {"done", "exit"}
  BY DEF Types
<1>1. BlockSize \in Nat /\ BlockSize + 4 \in Nat /\ Len(Payload) \in Nat
  <2>1. BlockSize \in 1 .. 255
    BY BlockSizeIs
  <2> QED BY <2>1, ConstantsFact
<1>2. /\ <<CmdPing>> \in Seq(Nat) /\ <<KeepAlive>> \in Seq(Nat) /\ ReadRequest \in Seq(Nat)
      /\ GotoRequest \in Seq(Nat)
  BY RequestsAre
<1>3. ASSUME NEW n \in Nat, Advance(n), todo # <<>>
      PROVE  /\ todo' \in Seq({"ping", "speed", "read", "write", "goto"})
             /\ todo' # <<>> \/ host' = "done"
             /\ offset' \in 0 .. Len(Payload) - 1
  BY <1>3, AdvanceIs
<1>4. CASE SendPing \/ SendSpeed \/ SendBlock \/ SendRead \/ SendGoto \/ SendConfirm
  <2>1. /\ \/ SentUp(<<CmdPing>>, 0, 0)
           \/ SentUp(<<CmdSpeed, 7>>, 2, 2)
           \/ SentBlock(Alive \o WriteRequest, Len(Alive) + 3)
           \/ SentUp(Alive \o ReadRequest, Len(Alive) + 3, Len(Alive) + 3)
           \/ SentUp(GotoRequest, 1, 4)
        /\ PhoneWaits /\ UNCHANGED <<down, fast, todo, offset>> /\ host \notin {"done", "exit"}
    BY <1>4 DEF SendPing, SendSpeed, SendBlock, SendRead, SendGoto, SendConfirm
  <2>2. up' \in Seq(Nat) /\ Counted
    BY <2>1, <1>2, UpSent, BlockUp, NotCounted, MessagesAre
  <2> QED BY <2>1, <2>2, <1>0, TypesOfHost
<1>5. CASE PongRead
  <2>1. /\ PhoneWaits /\ UNCHANGED fast /\ ReadReturns(1) /\ host = "pong"
        /\ \/ SentUp(<<KeepAlive>>, 0, 0) /\ TaskDone
           \/ SentUp(ReadRequest, 3, 3) /\ UNCHANGED <<todo, offset>>
           \/ UNCHANGED <<up, faults, blind, todo, offset>>
    BY <1>5 DEF PongRead, Exit
  <2>2. down' \in Seq(Nat)
    BY <2>1, DownRest
  <2>3. up' \in Seq(Nat) /\ Counted
    BY <2>1, <1>0, <1>2, UpSent, BlockUp, NotCounted
  <2> QED BY <2>1, <2>2, <2>3, <1>0, <1>1, <1>3, TypesOfHost DEF TaskDone
<1>6. CASE SpeedSoonRead
  <2>1. /\ PhoneWaits /\ ReadReturns(1) /\ host = "speed" /\ UNCHANGED <<up, faults, blind, todo, offset>>
        /\ fast' = [fast EXCEPT !.host = TRUE] \/ UNCHANGED fast
    BY <1>6 DEF SpeedSoonRead, Exit
  <2>2. down' \in Seq(Nat)
    BY <2>1, DownRest
  <2>3. fast' \in [host : BOOLEAN, phone : BOOLEAN]
    BY <2>1, <1>0
  <2> QED BY <2>1, <2>2, <2>3, <1>0, TypesOfHost, NotCounted
<1>7. CASE SpeedDoneRead
  <2>1. /\ PhoneWaits /\ ReadReturns(1) /\ host = "confirm" /\ UNCHANGED <<up, faults, blind>>
        /\ TaskDone \/ UNCHANGED <<todo, offset>>
        /\ fast' = [fast EXCEPT !.host = FALSE] \/ UNCHANGED fast
    BY <1>7 DEF SpeedDoneRead, Exit
  <2>2. down' \in Seq(Nat)
    BY <2>1, DownRest
  <2>3. fast' \in [host : BOOLEAN, phone : BOOLEAN]
    BY <2>1, <1>0
  <2> QED BY <2>1, <2>2, <2>3, <1>0, <1>1, <1>3, TypesOfHost, NotCounted DEF TaskDone
<1>8. CASE AckRead
  <2>1. /\ PhoneWaits /\ UNCHANGED fast /\ ReadReturns(2) /\ host = "ack"
        /\ \/ Advance(BlockSize) /\ UNCHANGED <<up, faults, blind>>
           \/ UNCHANGED <<up, faults, blind, todo, offset>> /\ host' = "exit"
           \/ SentBlock(<<KeepAlive>> \o WriteRequest, 4) /\ UNCHANGED <<todo, offset>>
    BY <1>8 DEF AckRead, Exit
  <2>2. down' \in Seq(Nat)
    BY <2>1, DownRest
  <2>3. up' \in Seq(Nat) /\ Counted
    BY <2>1, <1>0, MessagesAre, UpSent, BlockUp, NotCounted
  <2> QED BY <2>1, <2>2, <2>3, <1>0, <1>1, <1>3, TypesOfHost
<1>9. CASE DataRead
  <2>1. /\ PhoneWaits /\ UNCHANGED fast /\ ReadReturns(BlockSize + 4) /\ host = "data"
        /\ \/ Advance(BlockSize) /\ UNCHANGED <<up, faults, blind>>
           \/ UNCHANGED <<up, faults, blind, todo, offset>>
           \/ SentUp(<<CmdPing>>, 0, 0) /\ UNCHANGED <<todo, offset>>
    BY <1>9 DEF DataRead, Exit
  <2>2. down' \in Seq(Nat)
    BY <2>1, <1>1, DownRest
  <2>3. up' \in Seq(Nat) /\ Counted
    BY <2>1, <1>0, <1>2, UpSent, BlockUp, NotCounted
  <2> QED BY <2>1, <2>2, <2>3, <1>0, <1>1, <1>3, TypesOfHost
<1>10. CASE EchoRead
  <2>1. /\ PhoneWaits /\ UNCHANGED fast /\ ReadReturns(2) /\ host = "echo"
        /\ \/ TaskDone /\ UNCHANGED <<up, faults, blind>>
           \/ SentUp(<<KeepAlive>> \o GotoRequest, 2, 5) /\ UNCHANGED <<todo, offset>>
           \/ UNCHANGED <<up, faults, blind, todo, offset>>
    BY <1>10 DEF EchoRead
  <2>2. down' \in Seq(Nat)
    BY <2>1, DownRest
  <2>3. up' \in Seq(Nat) /\ Counted
    BY <2>1, <1>0, MessagesAre, UpSent, BlockUp, NotCounted
  <2> QED BY <2>1, <2>2, <2>3, <1>0, <1>1, <1>3, TypesOfHost DEF TaskDone
<1>11. CASE AckLate
  <2> DEFINE m == <<KeepAlive>> \o WriteRequest
  <2>1. /\ PhoneWaits /\ UNCHANGED <<fast, blind, todo, offset>> /\ host = "ack"
        /\ faults < MaxFaults /\ faults' = faults + 1 /\ down' = <<>>
        /\ UNCHANGED up \/ Arrives(up, up', m)
    BY <1>11 DEF AckLate
  <2>2. m \in Seq(Nat)
    BY MessagesAre
  <2> HIDE DEF m
  <2>3. up' \in Seq(Nat)
    BY <2>1, <2>2, <1>0, ArrivesIs
  <2>4. faults' \in 0 .. MaxFaults /\ blind' \in BOOLEAN /\ faults \in Nat
    BY <2>1, ConstantsFact DEF Types
  <2>5. Counted
    BY <2>1, <2>4 DEF Counted, Guarded
  <2> QED BY <2>1, <2>3, <2>5, <1>0, TypesOfHost
<1> QED BY <1>4, <1>5, <1>6, <1>7, <1>8, <1>9, <1>10, <1>11 DEF Host

-----------------------------------------------------------------------------
\* Steps: bytes that are no commands.

\* One of them less
LEMMA SkipTail ==
    ASSUME NEW s \in Seq(Nat), NEW k \in Nat, 1 <= k, Skips(s, k)
    PROVE  /\ s # <<>> /\ Len(s) \in Nat /\ k <= Len(s) /\ s[1] \notin Codes
           /\ Tail(s) \in Seq(Nat) /\ Len(Tail(s)) = Len(s) - 1
           /\ \A j \in 1 .. Len(s) - 1 : Tail(s)[j] = s[j + 1]
           /\ Skips(Tail(s), k - 1)
<1>1. k <= Len(s) /\ Len(s) \in Nat /\ \A i \in 1 .. k : s[i] \notin Codes
  BY DEF Skips
<1>2. s # <<>>
  BY <1>1
<1> DEFINE t == Tail(s)
<1>3. t \in Seq(Nat) /\ Len(t) = Len(s) - 1 /\ \A j \in 1 .. Len(s) - 1 : t[j] = s[j + 1]
  BY <1>2
<1> HIDE DEF t
<1>4. k - 1 \in 0 .. Len(t)
  BY <1>1, <1>3
<1>5. ASSUME NEW i \in 1 .. k - 1 PROVE t[i] \notin Codes
  <2>1. i \in 1 .. Len(s) - 1 /\ i + 1 \in 1 .. k
    BY <1>1
  <2> QED BY <2>1, <1>1, <1>3
<1>6. s[1] \notin Codes
  BY <1>1
<1> QED BY <1>1, <1>2, <1>3, <1>4, <1>5, <1>6 DEF Skips, t

\* The phone takes a command only when all of it is there.
LEMMA PhoneNeeds ==
    ASSUME Types, Phone
    PROVE  /\ up # <<>> /\ phone # "jumped"
           /\ phone = "loop" => Len(up) >= CommandSize(up)
           /\ HostWaits
<1>1. up \in Seq(Nat)
  BY DEF Types
<1>2. CASE OtherByte \/ OtherCommand
  <2>0. \A b \in OtherCommands : b \notin {CmdPing, CmdSpeed, CmdRead, CmdWrite, CmdGoto}
    BY CodesAre
  <2>1. up # <<>> /\ up[1] \notin {CmdPing, CmdSpeed, CmdRead, CmdWrite, CmdGoto} /\ phone = "loop" /\ HostWaits
    BY <2>0, <1>2 DEF OtherByte, OtherCommand, Commands
  <2>2. CommandSize(up) = 1
    BY <2>1 DEF CommandSize
  <2>3. Len(up) >= 1
    BY <2>1, <1>1
  <2> QED BY <2>1, <2>2, <2>3
<1>3. CASE SpeedConfirmed
  BY <1>3 DEF SpeedConfirmed
<1>4. CASE cmd_ping \/ cmd_speed \/ cmd_read \/ cmd_write \/ cmd_goto
  <2>1. (\E c : Takes(c)) /\ HostWaits
    BY <1>4 DEF cmd_ping, cmd_speed, cmd_read, cmd_write, cmd_goto
  <2> QED BY <2>1 DEF Takes
<1> QED BY <1>2, <1>3, <1>4 DEF Phone

\* A byte that is no command is left out, and nothing else happens.
LEMMA SkipStep ==
    ASSUME Types, Phone, phone = "loop", up[1] \notin Codes
    PROVE  up' = Tail(up) /\ UNCHANGED <<down, faults, ram, phone, target, fast>>
<1>1. ASSUME NEW c \in Codes PROVE ~Takes(c)
  BY <1>1 DEF Takes
<1>2. /\ CmdPing \in Codes /\ CmdSpeed \in Codes /\ CmdRead \in Codes
      /\ CmdWrite \in Codes /\ CmdGoto \in Codes
  BY DEF Codes, Commands
<1>3. ~cmd_ping /\ ~cmd_speed /\ ~cmd_read /\ ~cmd_write /\ ~cmd_goto
  BY <1>1, <1>2 DEF cmd_ping, cmd_speed, cmd_read, cmd_write, cmd_goto
<1>4. ~SpeedConfirmed /\ ~OtherCommand
  BY DEF SpeedConfirmed, OtherCommand, Codes, Commands
<1>5. OtherByte
  BY <1>3, <1>4 DEF Phone
<1> QED BY <1>5 DEF OtherByte

\* What the host holds while the phone works
LEMMA HostSame ==
    ASSUME HostWaits
    PROVE  /\ todo' = todo /\ offset' = offset /\ host' = host /\ Task' = Task /\ BlockSize' = BlockSize
           /\ Promised' = Promised /\ Wanted' = Wanted /\ Request' = Request /\ (Tasks <=> Tasks')
           /\ LeftToDo("write")' <=> LeftToDo("write")
           /\ \A n : Ahead(n)' <=> Ahead(n)
<1>1. todo' = todo /\ offset' = offset /\ host' = host
  BY DEF HostWaits
<1>2. Task' = Task
  BY <1>1 DEF Task
<1>3. BlockSize' = BlockSize
  BY <1>1 DEF BlockSize
<1>4. /\ LeftToDo("write")' <=> LeftToDo("write")
      /\ LeftToDo("goto")' <=> LeftToDo("goto")
  BY <1>1 DEF LeftToDo
<1>5. Promised' = Promised
  BY <1>1, <1>2, <1>3, <1>4 DEF Promised
<1>6. Wanted' = Wanted
  BY <1>1, <1>3 DEF Wanted
<1>7. BlockData' = BlockData
  BY <1>1, <1>3 DEF BlockData
<1>8. WriteRequest' = WriteRequest /\ ReadRequest' = ReadRequest
  BY <1>1, <1>3, <1>7 DEF WriteRequest, ReadRequest
<1>9. Request' = Request
  BY <1>1, <1>8 DEF Request
<1>10. Tasks <=> Tasks'
  BY <1>1, <1>2 DEF Tasks
<1>11. \A n : Ahead(n)' <=> Ahead(n)
  BY <1>1, <1>4 DEF Ahead
<1> QED BY <1>1, <1>2, <1>3, <1>4, <1>5, <1>6, <1>9, <1>10, <1>11

\* The command at the head tells what the phone does.
LEMMA ActionIs ==
    ASSUME Types, Phone, phone = "loop"
    PROVE  /\ up[1] = CmdPing => cmd_ping
           /\ up[1] = CmdSpeed => cmd_speed
           /\ up[1] = CmdRead => cmd_read
           /\ up[1] = CmdWrite => cmd_write
           /\ up[1] = CmdGoto => cmd_goto
           /\ up[1] \notin Codes => OtherByte
           /\ up[1] \in OtherCommands => OtherCommand
<1>1. /\ cmd_ping => up[1] = CmdPing
      /\ cmd_speed => up[1] = CmdSpeed
      /\ cmd_read => up[1] = CmdRead
      /\ cmd_write => up[1] = CmdWrite
      /\ cmd_goto => up[1] = CmdGoto
  BY DEF Takes, cmd_ping, cmd_speed, cmd_read, cmd_write, cmd_goto
<1>2. (OtherByte => up[1] \notin Codes) /\ (OtherCommand => up[1] \in OtherCommands)
  BY DEF OtherByte, OtherCommand, Codes
<1>3. ~SpeedConfirmed
  BY DEF SpeedConfirmed
<1> QED BY <1>1, <1>2, <1>3, CodesAre DEF Phone

\* An answer that arrives as it was sent
LEMMA AnswerArrives ==
    ASSUME Types, Guarded', NEW m \in Seq(Nat), Answers(m), fast.host = fast.phone, down = <<>>
    PROVE  /\ faults = 1 \/ faults' = 0 => faults' = faults /\ down' = m
           /\ faults' \in {0, 1}
<1>0. faults \in 0 .. MaxFaults /\ MaxFaults \in Nat
  BY ConstantsFact DEF Types
<1>1. PICK b \in Seq(Nat) : Outcome(m, 0, 0, {}, b) /\ down' = IF fast.host = fast.phone THEN down \o b ELSE down
  BY DownSent
<1>2. down' = b
  BY <1>1
<1>3. faults = 1 \/ faults' = 0 => b = m /\ faults' = faults
  BY <1>1 DEF Outcome
<1>4. faults' \in {0, 1}
  <2>1. faults \in Nat /\ faults' <= 1 /\ (faults' = faults \/ faults' = 1)
    BY <1>0, <1>1 DEF Outcome, Guarded
  <2> QED BY <2>1
<1> QED BY <1>2, <1>3, <1>4

\* What a write stores
LEMMA WriteStores ==
    ASSUME Types, Phone, phone = "loop", up[1] = CmdWrite, NEW i \in DOMAIN Payload
    PROVE  ram'[i] = IF up[2] <= i /\ i < up[2] + up[3] THEN up[4 + i - up[2]] ELSE ram[i]
<1> DEFINE x == up[2]
           n == up[3]
           e == 3 + n
           data == SubSeq(up, 4, e)
<1>1. cmd_write /\ up # <<>> /\ Len(up) >= CommandSize(up)
  BY ActionIs, PhoneNeeds
<1>2. ram' = [j \in DOMAIN ram |-> IF j \in x .. x + n - 1 THEN data[j - x + 1] ELSE ram[j]]
  BY <1>1 DEF cmd_write
<1>3. x \in Nat /\ n \in Nat /\ 4 + n <= Len(up) /\ Len(up) \in Nat /\ up \in Seq(Nat)
  <2>1. CommandSize(up) = 4 + n /\ x \in Nat /\ n \in Nat
    BY <1>1, RestIs
  <2> QED BY <2>1, <1>1 DEF Types
<1>4. i \in DOMAIN ram /\ i \in Nat
  BY ConstantsFact DEF Types
<1> HIDE DEF x, n
<1>5. e \in Nat /\ e <= Len(up) /\ e - 4 + 1 = n
  BY <1>3
<1> HIDE DEF e
<1>6. /\ Len(data) = IF 4 <= e THEN e - 4 + 1 ELSE 0
      /\ \A j \in 1 .. Len(data) : data[j] = up[4 + j - 1]
  BY <1>3, <1>5, PartIs
<1> HIDE DEF data
<1>7. \A j \in 1 .. n : data[j] = up[4 + j - 1]
  BY <1>3, <1>5, <1>6
<1>8. CASE x <= i /\ i < x + n
  <2>1. i \in x .. x + n - 1 /\ i - x + 1 \in 1 .. n /\ 4 + (i - x + 1) - 1 = 4 + i - x
    BY <1>3, <1>4, <1>8, SMTT(30)
  <2>2. data[i - x + 1] = up[4 + i - x]
    BY <2>1, <1>7
  <2> QED BY <2>1, <2>2, <1>2, <1>4, <1>8 DEF x, n
<1>9. CASE ~(x <= i /\ i < x + n)
  <2>1. i \notin x .. x + n - 1
    BY <1>3, <1>4, <1>9
  <2> QED BY <2>1, <1>2, <1>4, <1>9 DEF x, n
<1> QED BY <1>8, <1>9

\* The phone carries out a command of a line that delivers.
LEMMA GoodPhone ==
    ASSUME Types, Phone, phone = "loop", NEW D, D \subseteq DOMAIN Payload, NEW g, Good(up, ram, D, g)
    PROVE  \/ Started'
           \/ phone' = "loop" /\ fast' = fast /\ Good(up', ram', D, g)
<1> DEFINE k == SizeAt(up, 0)
<1>0. up \in Seq(Nat) /\ ram \in [DOMAIN Payload -> Nat]
  BY DEF Types
<1>1. up # <<>> /\ Len(up) >= CommandSize(up)
  BY PhoneNeeds
<1>2. up[1] # CmdSpeed /\ up[1] \notin OtherCommands /\ CommandSize(up) = k
  BY <1>0, <1>1, GoodHead
<1>3. ASSUME UNCHANGED ram, up[1] # CmdWrite PROVE Stored(up, ram, ram', D)
  BY <1>3 DEF Stored
<1>4. ASSUME up' = SubSeq(up, k + 1, Len(up)), Stored(up, ram, ram', D), phone' = "loop", fast' = fast
      PROVE  phone' = "loop" /\ fast' = fast /\ Good(up', ram', D, g)
  BY <1>0, <1>1, <1>4, GoodTake
<1>5. CASE cmd_goto /\ up[2] = up[3]
  <2>1. phone' = "jumped" /\ target' = up[2] /\ ram' = ram /\ up[1] = CmdGoto
    BY <1>5 DEF cmd_goto, Takes
  <2>2. GotoAt(up, 0)
    <3>1. Len(up) > 0 /\ 0 + 1 = 1 /\ 0 + 2 = 2 /\ 0 + 3 = 3
      BY <1>0, <1>1
    <3> QED BY <3>1, <2>1, <1>5 DEF GotoAt
  <2>3. up[2] = Base /\ \A i \in DOMAIN Payload : ram[i] = Payload[i]
    BY <1>0, <2>2, GoodStart
  <2>4. ram = Payload
    <3>1. DOMAIN ram = DOMAIN Payload /\ ram = [i \in DOMAIN ram |-> ram[i]]
      BY <1>0
    <3>2. Payload = [i \in DOMAIN Payload |-> Payload[i]]
      BY ConstantsFact
    <3> QED BY <3>1, <3>2, <2>3
  <2> QED BY <2>1, <2>3, <2>4 DEF Started
<1>6. CASE cmd_goto /\ up[2] # up[3]
  <2>1. phone' = phone /\ fast' = fast /\ ram' = ram /\ Takes(CmdGoto)
    BY <1>6 DEF cmd_goto
  <2>2. up' = SubSeq(up, k + 1, Len(up)) /\ up[1] # CmdWrite
    BY <2>1, <1>2, CodesAre DEF Takes
  <2> QED BY <2>1, <2>2, <1>3, <1>4
<1>7. CASE cmd_ping \/ cmd_read
  <2>1. phone' = phone /\ fast' = fast /\ ram' = ram /\ (Takes(CmdPing) \/ Takes(CmdRead))
    BY <1>7 DEF cmd_ping, cmd_read
  <2>2. up' = SubSeq(up, k + 1, Len(up)) /\ up[1] # CmdWrite
    BY <2>1, <1>2, CodesAre DEF Takes
  <2> QED BY <2>1, <2>2, <1>3, <1>4
<1>8. CASE cmd_write
  <2>1. phone' = phone /\ fast' = fast /\ Takes(CmdWrite)
    BY <1>8 DEF cmd_write
  <2>2. up' = SubSeq(up, k + 1, Len(up)) /\ up[1] = CmdWrite
    BY <2>1, <1>2 DEF Takes
  <2>3. ASSUME NEW i \in D
        PROVE  ram'[i] = IF up[1] = CmdWrite /\ Covers(up, 0, i) THEN up[4 + i - up[2]] ELSE ram[i]
    <3>1. 0 + 2 = 2 /\ 0 + 3 = 3
      OBVIOUS
    <3>2. Covers(up, 0, i) <=> up[2] <= i /\ i < up[2] + up[3]
      BY <3>1 DEF Covers
    <3>3. i \in DOMAIN Payload
      OBVIOUS
    <3>4. ram'[i] = IF up[2] <= i /\ i < up[2] + up[3] THEN up[4 + i - up[2]] ELSE ram[i]
      BY <3>3, <2>2, WriteStores
    <3> QED BY <3>2, <3>4, <2>2
  <2>4. Stored(up, ram, ram', D)
    BY <2>3 DEF Stored
  <2> QED BY <2>1, <2>2, <2>4, <1>4
<1>9. CASE OtherByte
  <2>1. /\ phone' = phone /\ fast' = fast /\ ram' = ram /\ up' = Tail(up)
        /\ up[1] \notin {CmdPing, CmdSpeed, CmdRead, CmdWrite, CmdGoto}
    BY <1>9 DEF OtherByte, Commands
  <2>2. CommandSize(up) = 1
    BY <2>1 DEF CommandSize
  <2>3. Tail(up) = SubSeq(up, 1 + 1, Len(up))
    BY <1>0, <1>1
  <2> QED BY <2>1, <2>2, <2>3, <1>2, <1>3, <1>4
<1>10. ~SpeedConfirmed /\ ~cmd_speed /\ ~OtherCommand
  BY <1>2 DEF SpeedConfirmed, cmd_speed, OtherCommand, Takes
<1> QED BY <1>5, <1>6, <1>7, <1>8, <1>9, <1>10 DEF Phone


\* The phone leaves out a byte.
LEMMA SkipPhone ==
    ASSUME Types, Phone, phone = "loop", NEW k \in Nat, 1 <= k, Skips(up, k)
    PROVE  /\ UNCHANGED <<down, faults, ram, phone, target, fast>>
           /\ up' \in Seq(Nat) /\ Len(up) \in Nat /\ k <= Len(up)
           /\ Len(up') = Len(up) - 1 /\ Skips(up', k - 1)
           /\ \A j \in 1 .. Len(up) - 1 : up'[j] = up[j + 1]
<1>1. up \in Seq(Nat)
  BY DEF Types
<1>2. /\ Len(up) \in Nat /\ k <= Len(up) /\ up[1] \notin Codes
      /\ Tail(up) \in Seq(Nat) /\ Len(Tail(up)) = Len(up) - 1
      /\ \A j \in 1 .. Len(up) - 1 : Tail(up)[j] = up[j + 1]
      /\ Skips(Tail(up), k - 1)
  BY <1>1, SkipTail
<1>3. up' = Tail(up) /\ UNCHANGED <<down, faults, ram, phone, target, fast>>
  BY <1>2, SkipStep
<1> DEFINE t == Tail(up)
<1>4. up' = t /\ t \in Seq(Nat) /\ Len(t) = Len(up) - 1 /\ Skips(t, k - 1)
      /\ \A j \in 1 .. Len(up) - 1 : t[j] = up[j + 1]
  BY <1>2, <1>3
<1> HIDE DEF t
<1> QED BY <1>2, <1>3, <1>4

\* The phone, with nothing but such bytes on the line
LEMMA IdlePhone ==
    ASSUME Types, Phone, phone = "loop", Idle(up)
    PROVE  Idle(up') /\ UNCHANGED <<down, faults, ram, phone, target, fast>>
<1>1. up # <<>> /\ up \in Seq(Nat)
  BY PhoneNeeds DEF Types
<1>2. Len(up) \in Nat /\ 1 <= Len(up) /\ Skips(up, Len(up))
  BY <1>1 DEF Idle
<1> DEFINE n == Len(up)
<1>3. n \in Nat /\ 1 <= n /\ Skips(up, n)
  BY <1>2
<1> HIDE DEF n
<1>4. Len(up') = Len(up) - 1 /\ Skips(up', n - 1) /\ UNCHANGED <<down, faults, ram, phone, target, fast>>
  BY <1>3, SkipPhone
<1> QED BY <1>4 DEF Idle, n

\* The phone, with a request behind such bytes
LEMMA BehindPhone ==
    ASSUME Types, Phone, phone = "loop", NEW t \in Seq(Nat), Behind(up, t)
    PROVE  up = t \/ (Behind(up', t) /\ UNCHANGED <<down, faults, ram, phone, target, fast>>)
<1>0. up \in Seq(Nat) /\ Len(t) \in Nat
  BY DEF Types
<1>1. PICK k \in 0 .. Len(up) : Skips(up, k) /\ Len(up) = k + Len(t) /\ \A j \in 1 .. Len(t) : up[k + j] = t[j]
  BY DEF Behind
<1>2. CASE k = 0
  <2>1. Len(up) = Len(t) /\ \A j \in 1 .. Len(up) : up[j] = t[j]
    BY <1>0, <1>1, <1>2
  <2> QED BY <2>1, <1>0, SameSeq
<1>3. CASE k # 0
  <2>0. k \in Nat /\ 1 <= k
    BY <1>0, <1>3
  <2>1. /\ UNCHANGED <<down, faults, ram, phone, target, fast>>
        /\ up' \in Seq(Nat) /\ Len(up) \in Nat /\ k <= Len(up)
        /\ Len(up') = Len(up) - 1 /\ Skips(up', k - 1)
        /\ \A j \in 1 .. Len(up) - 1 : up'[j] = up[j + 1]
    BY <2>0, <1>1, SkipPhone
  <2>2. k - 1 \in 0 .. Len(up') /\ Len(up') = (k - 1) + Len(t)
    BY <2>0, <2>1, <1>0, <1>1
  <2>3. ASSUME NEW j \in 1 .. Len(t) PROVE up'[(k - 1) + j] = t[j]
    <3> DEFINE n == Len(up)
               l == Len(t)
    <3>0. n \in Nat /\ l \in Nat /\ n = k + l /\ j \in 1 .. l
      BY <2>1, <1>0, <1>1
    <3>1. (k - 1) + j \in 1 .. n - 1 /\ (k - 1) + j + 1 = k + j
      <4> HIDE DEF n, l
      <4> QED BY <3>0, <2>0
    <3> QED BY <3>1, <2>1, <1>1
  <2> QED BY <2>1, <2>2, <2>3 DEF Behind
<1> QED BY <1>2, <1>3

\* The requests are sequences of bytes.
LEMMA RequestIs ==
    ASSUME Types
    PROVE  Request \in Seq(Nat) /\ (host \in Waiting => Wanted \in Nat /\ Wanted >= 1)
<1>1. BlockSize \in 1 .. 255
  BY BlockSizeIs
<1>2. Request \in Seq(Nat)
  BY RequestsAre, WriteRequestIs DEF Request
<1>3. Wanted \in Nat /\ Wanted >= 1
  BY <1>1 DEF Wanted
<1> QED BY <1>2, <1>3

\* A whole request is carried out, and the answer is not longer than what the host waits for.
LEMMA RequestPhone ==
    ASSUME Types, Guarded', Phone, phone = "loop", host \in Waiting, up = Request, down = <<>>,
           fast.host = fast.phone, faults' = 0, phone' = "loop"
    PROVE  up' = <<>> /\ Len(down') <= Wanted
<1>0. BlockSize \in 1 .. 255 /\ up # <<>> /\ Len(up) >= CommandSize(up) /\ up \in Seq(Nat)
  BY BlockSizeIs, PhoneNeeds DEF Types
<1>1. ASSUME NEW c, Takes(c), CommandSize(up) = Len(up) PROVE up' = <<>>
  <2>1. up' = SubSeq(up, Len(up) + 1, Len(up))
    BY <1>1 DEF Takes
  <2> QED BY <2>1, <1>0
<1>2. ASSUME NEW m \in Seq(Nat), Answers(m), Len(m) <= Wanted PROVE Len(down') <= Wanted
  BY <1>2, AnswerArrives
<1>3. CASE host = "ack"
  <2>1. up = WriteRequest /\ Wanted = 2
    BY <1>3 DEF Request, Wanted
  <2>2. up[1] = CmdWrite /\ up[3] = BlockSize /\ Len(up) = BlockSize + 4
    BY <2>1, WriteRequestIs
  <2>3. CommandSize(up) = Len(up)
    <3>1. CommandSize(up) = 4 + up[3]
      BY <2>2, <1>0, RestIs
    <3> DEFINE n == Len(up)
               x == up[3]
               z == CommandSize(up)
               y == BlockSize
    <3>2. y \in 1 .. 255 /\ z = 4 + x /\ x = y /\ n = y + 4
      BY <3>1, <2>2, <1>0, Zenon
    <3> HIDE DEF n, x, y, z
    <3>4. y \in Nat
      BY <3>2
    <3>3. z = n
      BY <3>2, <3>4
    <3> QED BY <3>3 DEF n, z
  <2>4. cmd_write
    BY <2>2, ActionIs
  <2>5. Takes(CmdWrite) /\ \E m \in {OK, ChecksumError} : Answers(m)
    BY <2>4 DEF cmd_write, BlockAnswer
  <2>6. \A m \in {OK, ChecksumError} : m \in Seq(Nat) /\ Len(m) <= Wanted
    <3>1. OK \in Seq(Nat) /\ Len(OK) <= 2
      BY AnswersAre
    <3>2. ChecksumError \in Seq(Nat) /\ Len(ChecksumError) <= 2
      BY AnswersAre
    <3> QED BY <3>1, <3>2, <2>1, Zenon
  <2>7. Len(down') <= Wanted
    BY <2>5, <2>6, <1>2
  <2> QED BY <2>3, <2>5, <2>7, <1>1
<1>4. CASE host = "data"
  <2>1. up = ReadRequest /\ Wanted = BlockSize + 4
    BY <1>4 DEF Request, Wanted
  <2>2. up[1] = CmdRead /\ up[2] = Base + offset /\ up[3] = BlockSize /\ Len(up) = 3
    BY <2>1, RequestsAre
  <2>3. CommandSize(up) = 3
    BY <2>2, <1>0, RestIs
  <2>4. cmd_read
    BY <2>2, ActionIs
  <2> DEFINE m == Memory(up[2], up[3]) \o OK \o <<xor_checksum(Memory(up[2], up[3])), 0>>
  <2>5. Takes(CmdRead) /\ Answers(m)
    BY <2>4 DEF cmd_read
  <2>6. m \in Seq(Nat) /\ Len(m) = up[3] + 4
    <3>1. up[2] \in Nat /\ up[3] \in Nat
      BY <2>2, <1>0, RestIs
    <3> QED BY <3>1, DataAnswerIs
  <2> HIDE DEF m
  <2>7. Len(m) <= Wanted
    BY <2>1, <2>2, <2>6, <1>0
  <2> QED BY <2>2, <2>3, <2>5, <2>6, <2>7, <1>1, <1>2
<1>5. CASE host = "pong"
  <2>1. up = <<CmdPing>> /\ Wanted = 1
    BY <1>5 DEF Request, Wanted
  <2>2. up[1] = CmdPing /\ Len(up) = 1
    BY <2>1, RequestsAre
  <2>3. CommandSize(up) = 1
    BY <2>2, CodesAre DEF CommandSize
  <2>4. cmd_ping
    BY <2>2, ActionIs
  <2>5. Takes(CmdPing) /\ Answers(Pong)
    BY <2>4 DEF cmd_ping
  <2>6. Pong \in Seq(Nat) /\ Len(Pong) <= Wanted
    BY <2>1, AnswersAre
  <2>7. Len(down') <= Wanted
    BY <2>5, <2>6, <1>2
  <2> QED BY <2>2, <2>3, <2>5, <2>7, <1>1
<1>6. CASE host = "echo"
  <2>1. up = GotoRequest
    BY <1>6 DEF Request
  <2>2. up[1] = CmdGoto /\ up[2] = Base /\ up[3] = Base
    <3>1. 2 \in 2 .. 4 /\ 3 \in 2 .. 4
      OBVIOUS
    <3> QED BY <3>1, <2>1, RequestsAre
  <2>3. cmd_goto
    BY <2>2, ActionIs
  <2>4. phone' = "jumped"
    BY <2>2, <2>3 DEF cmd_goto
  <2> QED BY <2>4
<1> QED BY <1>3, <1>4, <1>5, <1>6 DEF Waiting

\* Without a fault one side still waits for the other.
LEMMA CalmPhone ==
    ASSUME Types, Guarded', Phone, phone = "loop", fast.host = fast.phone, Calm,
           faults' = 0, phone' = "loop"
    PROVE  Calm'
<1>1. host' = host /\ Wanted' = Wanted /\ Request' = Request
  BY PhoneNeeds, HostSame
<1>2. CASE host \notin Waiting /\ Idle(up) /\ down = <<>>
  <2>1. Idle(up') /\ down' = down
    BY <1>2, IdlePhone
  <2>2. Idle(up)'
    BY <2>1 DEF Idle, Skips
  <2> QED BY <2>1, <2>2, <1>1, <1>2 DEF Calm, Waiting
<1>3. CASE host \in Waiting /\ Idle(up) /\ Len(down) <= Wanted
  <2>1. Idle(up') /\ down' = down
    BY <1>3, IdlePhone
  <2>2. Idle(up)'
    BY <2>1 DEF Idle, Skips
  <2> QED BY <2>1, <2>2, <1>1, <1>3 DEF Calm, Waiting
<1>4. CASE host \in Waiting /\ Behind(up, Request) /\ down = <<>>
  <2>1. Request \in Seq(Nat)
    BY RequestIs
  <2>2. up = Request \/ (Behind(up', Request) /\ down' = down)
    BY <1>4, <2>1, BehindPhone
  <2>3. CASE up = Request
    <3>1. up' = <<>> /\ Len(down') <= Wanted
      BY <2>3, <1>4, RequestPhone
    <3>2. Idle(up)'
      BY <3>1 DEF Idle, Skips
    <3> QED BY <3>1, <3>2, <1>1, <1>4 DEF Calm, Waiting
  <2>4. CASE Behind(up', Request) /\ down' = down
    <3>1. Behind(up, Request)'
      BY <2>4, <1>1 DEF Behind, Skips
    <3> QED BY <3>1, <2>4, <1>1, <1>4 DEF Calm, Waiting
  <2> QED BY <2>2, <2>3, <2>4
<1> QED BY <1>2, <1>3, <1>4 DEF Calm

\* There is at most one fault more, and none is forgotten.
LEMMA FaultsPhone ==
    ASSUME Types, Phone, phone = "loop"
    PROVE  faults' = 0 => faults = 0
<1>1. faults \in Nat
  BY ConstantsFact DEF Types
<1>2. ASSUME NEW m \in Seq(Nat), Answers(m) PROVE faults' = faults \/ faults' = faults + 1
  BY <1>2, DownSent
<1>3. faults' = faults \/ \E m \in Seq(Nat) : Answers(m)
  <2>1. ASSUME cmd_read PROVE \E m \in Seq(Nat) : Answers(m)
    <3> DEFINE m == Memory(up[2], up[3]) \o OK \o <<xor_checksum(Memory(up[2], up[3])), 0>>
    <3>1. Answers(m) /\ Takes(CmdRead)
      BY <2>1 DEF cmd_read
    <3>2. up[2] \in Nat /\ up[3] \in Nat
      BY <3>1, RestIs DEF Takes
    <3>3. m \in Seq(Nat)
      BY <3>2, DataAnswerIs
    <3> QED BY <3>1, <3>3
  <2>2. ASSUME cmd_goto PROVE \E m \in Seq(Nat) : Answers(m)
    <3>1. Takes(CmdGoto) /\ (Answers(Echo(up[2])) \/ Answers(GotoError))
      BY <2>2 DEF cmd_goto
    <3>2. up[2] \in Nat
      BY <3>1, RestIs DEF Takes
    <3> QED BY <3>1, <3>2, AnswersAre
  <2>3. cmd_write => \E m \in {OK, ChecksumError} : Answers(m)
    BY DEF cmd_write, BlockAnswer
  <2>4. /\ cmd_ping => Answers(Pong)
        /\ cmd_speed => Answers(SpeedSoon)
        /\ ~SpeedConfirmed
        /\ OtherByte \/ OtherCommand => faults' = faults
    BY DEF cmd_ping, cmd_speed, SpeedConfirmed, OtherByte, OtherCommand
  <2> QED BY <2>1, <2>2, <2>3, <2>4, AnswersAre DEF Phone
<1>4. faults' = faults \/ faults' = faults + 1
  BY <1>2, <1>3
<1> QED BY <1>1, <1>4

\* The phone in a state that is safe
LEMMA SafePhone ==
    ASSUME Types, Guarded', Phone, Tasks, Safe, fast.host = fast.phone
    PROVE  Started' \/ Main'
<1>1. PICK D \in SUBSET DOMAIN Payload : Promised \subseteq D /\ Good(up, ram, D, ~LeftToDo("write"))
  BY DEF Safe
<1>2. phone = "loop" /\ (faults = 0 => Calm)
  BY DEF Safe
<1>3. \/ Started'
      \/ phone' = "loop" /\ fast' = fast /\ Good(up', ram', D, ~LeftToDo("write"))
  BY <1>1, <1>2, GoodPhone
<1>4. Promised' = Promised /\ (LeftToDo("write")' <=> LeftToDo("write")) /\ Tasks'
  BY PhoneNeeds, HostSame
<1>5. ASSUME phone' = "loop", fast' = fast, Good(up', ram', D, ~LeftToDo("write")) PROVE Safe'
  <2>1. Good(up', ram', D, ~LeftToDo("write")')
    <3> DEFINE a == ~LeftToDo("write")
               b == ~LeftToDo("write")'
    <3>1. a <=> b
      BY <1>4
    <3> HIDE DEF a, b
    <3>2. Good(up', ram', D, a)
      BY <1>5 DEF a
    <3>3. Good(up', ram', D, b)
      BY <3>1, <3>2 DEF Good
    <3> QED BY <3>3 DEF b
  <2>2. ASSUME faults' = 0 PROVE Calm'
    <3>1. faults = 0
      BY <2>2, <1>2, FaultsPhone
    <3> QED BY <3>1, <2>2, <1>2, <1>5, CalmPhone
  <2>3. D \in SUBSET DOMAIN Payload /\ Promised' \subseteq D
    BY <1>1, <1>4
  <2>4. (\E E \in SUBSET DOMAIN Payload : Promised \subseteq E /\ Good(up, ram, E, ~LeftToDo("write")))'
    BY <2>1, <2>3
  <2> QED BY <2>2, <2>4, <1>5 DEF Safe
<1>6. ASSUME phone' = "loop", fast' = fast, Good(up', ram', D, ~LeftToDo("write")) PROVE Main'
  BY <1>4, <1>5, <1>6 DEF Main
<1> QED BY <1>3, <1>6

\* A part of a sequence that has lost its first element
LEMMA PartShift ==
    ASSUME NEW s \in Seq(Nat), NEW t \in Seq(Nat), Len(t) = Len(s) - 1,
           \A j \in 1 .. Len(s) - 1 : t[j] = s[j + 1],
           NEW a \in Nat, 2 <= a, NEW b \in Int, a <= b, b <= Len(s)
    PROVE  SubSeq(t, a - 1, b - 1) = SubSeq(s, a, b)
<1> DEFINE x == SubSeq(s, a, b)
           a2 == a - 1
           b2 == b - 1
           y == SubSeq(t, a2, b2)
           n == Len(s)
<1>0. n \in Nat /\ Len(t) = n - 1 /\ b <= n /\ \A j \in 1 .. n - 1 : t[j] = s[j + 1]
  OBVIOUS
<1>1. a2 \in Nat /\ 1 <= a2 /\ b2 \in Int /\ b2 <= Len(t) /\ a2 <= b2 /\ 1 <= a
  <2> HIDE DEF n
  <2> QED BY <1>0
<1>2. x \in Seq(Nat) /\ Len(x) = b - a + 1 /\ \A i \in 1 .. Len(x) : x[i] = s[a + i - 1]
  BY <1>1, PartIs
<1>5. b2 - a2 + 1 = b - a + 1
  OBVIOUS
<1> HIDE DEF a2, b2
<1>3. y \in Seq(Nat) /\ Len(y) = b2 - a2 + 1 /\ \A i \in 1 .. Len(y) : y[i] = t[a2 + i - 1]
  BY <1>1, PartIs
<1> HIDE DEF x, y, n
<1>4. ASSUME NEW i \in 1 .. Len(x) PROVE x[i] = y[i]
  <2>0. i \in 1 .. b - a + 1 /\ i \in 1 .. Len(y)
    BY <1>2, <1>3, <1>5
  <2>1. a2 + i - 1 \in 1 .. n - 1 /\ a2 + i - 1 + 1 = a + i - 1
    BY <2>0, <1>0 DEF a2
  <2>2. t[a2 + i - 1] = s[a + i - 1]
    BY <2>1, <1>0
  <2> QED BY <2>0, <2>2, <1>2, <1>3
<1>6. x = y
  BY <1>2, <1>3, <1>4, <1>5, SameSeq
<1> QED BY <1>6 DEF x, y, a2, b2

\* A block that was damaged is refused, and one with a byte missing is waited for.
LEMMA SpoiltPhone ==
    ASSUME Types, Guarded', Phone, Spoilt, fast.host = fast.phone
    PROVE  Spoilt' /\ fast' = fast
<1> DEFINE B == BlockSize
<1>0. up \in Seq(Nat) /\ Len(up) \in Nat /\ offset \in Nat /\ B \in 1 .. 255 /\ offset + B <= Len(Payload)
  BY BlockSizeIs DEF Types
<1>1. /\ phone = "loop" /\ host = "ack" /\ faults = 1
      /\ \A i \in 1 .. offset : ram[i] = Payload[i]
  BY DEF Spoilt, InRam
<1>2. host' = host /\ offset' = offset /\ BlockSize' = B
  BY PhoneNeeds, HostSame
<1>3. ASSUME UNCHANGED <<faults, ram, phone>> PROVE phone' = "loop" /\ host' = "ack" /\ faults' = 1 /\ InRam(1 .. offset)'
  BY <1>1, <1>2, <1>3 DEF InRam
<1>4. ASSUME NEW k \in 0 .. Len(up), BlockAt(k), k >= 1, Len(up) >= k + 3
      PROVE  /\ UNCHANGED <<down, faults, ram, phone, fast>>
             /\ up' \in Seq(Nat) /\ Len(up') = Len(up) - 1
             /\ \A j \in 1 .. Len(up) - 1 : up'[j] = up[j + 1]
             /\ k - 1 \in 0 .. Len(up') /\ BlockAt(k - 1)'
  <2>1. k \in Nat /\ 1 <= k /\ Skips(up, k)
    BY <1>4 DEF BlockAt
  <2>2. /\ UNCHANGED <<down, faults, ram, phone, fast>>
        /\ up' \in Seq(Nat) /\ Len(up') = Len(up) - 1 /\ Skips(up', k - 1)
        /\ \A j \in 1 .. Len(up) - 1 : up'[j] = up[j + 1]
    BY <2>1, <1>1, SkipPhone
  <2>3. k - 1 \in 0 .. Len(up')
    BY <2>1, <2>2, <1>0
  <2> DEFINE n == Len(up)
  <2>4. n \in Nat /\ n >= k + 3
    BY <1>0, <1>4
  <2>5. /\ k - 1 + 1 \in 1 .. n - 1 /\ k - 1 + 1 + 1 = k + 1
        /\ k - 1 + 2 \in 1 .. n - 1 /\ k - 1 + 2 + 1 = k + 2
        /\ k - 1 + 3 \in 1 .. n - 1 /\ k - 1 + 3 + 1 = k + 3
    <3> HIDE DEF n
    <3> QED BY <2>1, <2>4
  <2>6. up'[k - 1 + 1] = up[k + 1] /\ up'[k - 1 + 2] = up[k + 2] /\ up'[k - 1 + 3] = up[k + 3]
    BY <2>2, <2>5
  <2>7. BlockAt(k - 1)'
    <3>1. up[k + 1] = CmdWrite /\ up[k + 2] = Base + offset /\ up[k + 3] = BlockSize
      BY <1>4 DEF BlockAt
    <3>2. Skips(up, k - 1)'
      BY <2>2 DEF Skips
    <3> QED BY <3>1, <3>2, <2>6, <1>2 DEF BlockAt
  <2> QED BY <2>2, <2>3, <2>7
<1>5. CASE /\ down = <<>>
           /\ \E k \in 0 .. Len(up) :
                /\ Len(up) = k + 4 + BlockSize
                /\ BlockAt(k)
                /\ xor_checksum(SubSeq(up, k + 4, k + 3 + BlockSize)) # up[k + 4 + BlockSize]
  <2>1. PICK k \in 0 .. Len(up) :
                /\ Len(up) = k + 4 + B
                /\ BlockAt(k)
                /\ xor_checksum(SubSeq(up, k + 4, k + 3 + B)) # up[k + 4 + B]
    BY <1>5
  <2>0. k \in Nat /\ B \in Nat /\ B >= 1
    <3>1. k \in Nat
      BY <1>0
    <3>2. B \in Nat /\ B >= 1
      <4> HIDE DEF B
      <4> QED BY <1>0
    <3> QED BY <3>1, <3>2
  <2>2. CASE k >= 1
    <3>1. Len(up) >= k + 3
      BY <2>0, <2>1
    <3>2. /\ UNCHANGED <<down, faults, ram, phone, fast>>
          /\ up' \in Seq(Nat) /\ Len(up') = Len(up) - 1
          /\ \A j \in 1 .. Len(up) - 1 : up'[j] = up[j + 1]
          /\ k - 1 \in 0 .. Len(up') /\ BlockAt(k - 1)'
      BY <3>1, <2>1, <2>2, <1>4
    <3>3. Len(up') = k - 1 + 4 + B
      BY <3>2, <2>0, <2>1
    <3> DEFINE a == k + 4
               b == k + 3 + B
    <3>4. SubSeq(up', k - 1 + 4, k - 1 + 3 + B) = SubSeq(up, k + 4, k + 3 + B)
      <4>1. a \in Nat /\ 2 <= a /\ b \in Int /\ a <= b /\ b <= Len(up) /\ a - 1 = k - 1 + 4 /\ b - 1 = k - 1 + 3 + B
        BY <2>0, <2>1
      <4> HIDE DEF a, b, B
      <4>2. SubSeq(up', a - 1, b - 1) = SubSeq(up, a, b)
        BY <4>1, <3>2, <1>0, PartShift
      <4>3. SubSeq(up', k - 1 + 4, k - 1 + 3 + B) = SubSeq(up, a, b)
        BY <4>1, <4>2, Zenon
      <4> QED BY <4>3 DEF a, b
    <3>5. up'[k - 1 + 4 + B] = up[k + 4 + B]
      <4> DEFINE n == Len(up)
      <4>1. n = k + 4 + B /\ n \in Nat
        BY <1>0, <2>1
      <4>2. k - 1 + 4 + B \in 1 .. n - 1 /\ k - 1 + 4 + B + 1 = k + 4 + B
        <5> HIDE DEF n, B
        <5> QED BY <4>1, <2>0
      <4> QED BY <4>2, <3>2, SMTT(30)
    <3>6. (\E i \in 0 .. Len(up) : /\ Len(up) = i + 4 + BlockSize
                                   /\ BlockAt(i)
                                   /\ xor_checksum(SubSeq(up, i + 4, i + 3 + BlockSize)) # up[i + 4 + BlockSize])'
      <4> DEFINE u == SubSeq(up', k - 1 + 4, k - 1 + 3 + B)
      <4>1. xor_checksum(u) # up'[k - 1 + 4 + B]
        BY <3>4, <3>5, <2>1, Zenon
      <4> DEFINE i == k - 1
      <4>2. /\ Len(up') = i + 4 + BlockSize'
            /\ BlockAt(i)'
            /\ xor_checksum(SubSeq(up', i + 4, i + 3 + BlockSize')) # up'[i + 4 + BlockSize']
            /\ i \in 0 .. Len(up')
        BY <4>1, <3>2, <3>3, <1>2, Zenon
      <4> HIDE DEF i
      <4> QED BY <4>2
    <3> QED BY <3>2, <3>6, <1>3, <1>5 DEF Spoilt
  <2>3. CASE k = 0
    <3>1. /\ up[1] = CmdWrite /\ up[2] = Base + offset /\ up[3] = B /\ Len(up) = 4 + B
      <4>1. 0 + 1 = 1 /\ 0 + 2 = 2 /\ 0 + 3 = 3 /\ 0 + 4 + B = 4 + B
        BY <2>0
      <4> QED BY <4>1, <2>1, <2>3 DEF BlockAt
    <3>2. cmd_write
      BY <3>1, <1>1, ActionIs
    <3> DEFINE data == SubSeq(up, 4, 3 + up[3])
               m == BlockAnswer(data, up[4 + up[3]])
    <3>3. Takes(CmdWrite) /\ Answers(m) /\ phone' = phone /\ fast' = fast
      BY <3>2 DEF cmd_write
    <3>4. up # <<>> /\ Len(up) >= CommandSize(up)
      BY PhoneNeeds, <1>1
    <3>5. CommandSize(up) = 4 + B
      BY <3>1, <3>4, RestIs
    <3>6. up' = <<>>
      <4>1. up' = SubSeq(up, Len(up) + 1, Len(up))
        BY <3>1, <3>3, <3>5 DEF Takes
      <4> QED BY <4>1, <1>0
    <3>7. m = ChecksumError
      <4>1. data = SubSeq(up, k + 4, k + 3 + B) /\ up[4 + up[3]] = up[k + 4 + B]
        <5>1. 0 + 4 = 4 /\ 0 + 3 + B = 3 + B /\ 0 + 4 + B = 4 + B
          BY <2>0
        <5> QED BY <5>1, <3>1, <2>3
      <4> HIDE DEF data
      <4>2. xor_checksum(data) # up[4 + up[3]]
        BY <4>1, <2>1, Zenon
      <4> QED BY <4>2 DEF BlockAnswer
    <3> HIDE DEF m
    <3>8. down' = ChecksumError /\ faults' = 1
      BY <3>3, <3>7, <1>1, <1>5, AnswersAre, AnswerArrives
    <3>9. InRam(1 .. offset)'
      <4>1. ASSUME NEW i \in 1 .. offset PROVE ram'[i] = Payload[i]
        <5>1. i \in DOMAIN Payload /\ i < Base + offset
          BY <1>0, ConstantsFact, CodesAre, SMTT(30)
        <5>2. i \in Nat /\ Base + offset \in Nat
          BY <1>0, CodesAre
        <5>3. ~(Base + offset <= i)
          BY <5>1, <5>2
        <5>4. ram'[i] = ram[i]
          BY <5>1, <5>3, <3>1, <1>1, WriteStores
        <5> QED BY <5>4, <1>1
      <4> QED BY <4>1, <1>2 DEF InRam
    <3> QED BY <3>3, <3>6, <3>8, <3>9, <1>1, <1>2 DEF Spoilt
  <2> QED BY <2>0, <2>2, <2>3
<1>6. CASE /\ down = <<>>
           /\ \E k \in 0 .. Len(up) : Len(up) = k + 3 + BlockSize /\ BlockAt(k)
  <2>1. PICK k \in 0 .. Len(up) : Len(up) = k + 3 + B /\ BlockAt(k)
    BY <1>6
  <2>0. k \in Nat /\ B \in Nat /\ B >= 1
    <3>1. k \in Nat
      BY <1>0
    <3>2. B \in Nat /\ B >= 1
      <4> HIDE DEF B
      <4> QED BY <1>0
    <3> QED BY <3>1, <3>2
  <2>2. CASE k >= 1
    <3>1. Len(up) >= k + 3
      BY <2>0, <2>1
    <3>2. /\ UNCHANGED <<down, faults, ram, phone, fast>>
          /\ up' \in Seq(Nat) /\ Len(up') = Len(up) - 1
          /\ k - 1 \in 0 .. Len(up') /\ BlockAt(k - 1)'
      BY <3>1, <2>1, <2>2, <1>4
    <3>3. Len(up') = k - 1 + 3 + B
      BY <3>2, <2>0, <2>1
    <3>6. (\E i \in 0 .. Len(up) : Len(up) = i + 3 + BlockSize /\ BlockAt(i))'
      BY <3>2, <3>3, <1>2
    <3> QED BY <3>2, <3>6, <1>3, <1>6 DEF Spoilt
  <2>3. CASE k = 0
    <3>1. up[1] = CmdWrite /\ up[3] = B /\ Len(up) = 3 + B
      <4>1. 0 + 1 = 1 /\ 0 + 3 = 3 /\ 0 + 3 + B = 3 + B
        BY <2>0
      <4> QED BY <4>1, <2>1, <2>3 DEF BlockAt
    <3>4. up # <<>> /\ Len(up) >= CommandSize(up)
      BY PhoneNeeds, <1>1
    <3>5. CommandSize(up) = 4 + B
      BY <3>1, <3>4, RestIs
    <3>6. FALSE
      BY <3>1, <3>4, <3>5, <2>0
    <3> QED BY <3>6
  <2> QED BY <2>0, <2>2, <2>3
<1>7. up # <<>>
  BY PhoneNeeds
<1> QED BY <1>5, <1>6, <1>7 DEF Spoilt

\* The phone only takes from the line.
LEMMA RestKeeps ==
    ASSUME Types, Phone
    PROVE  \A i \in 1 .. Len(up') : \E j \in 1 .. Len(up) : up'[i] = up[j]
<1>0. up \in Seq(Nat) /\ up # <<>>
  BY PhoneNeeds DEF Types
<1>1. ASSUME NEW k \in Nat, k >= 1, up' = SubSeq(up, k + 1, Len(up))
      PROVE  \A i \in 1 .. Len(up') : \E j \in 1 .. Len(up) : up'[i] = up[j]
  <2> DEFINE t == SubSeq(up, k + 1, Len(up))
             n == Len(up)
  <2>1. n \in Nat
    BY <1>0
  <2>2. Len(t) = (IF k + 1 <= n THEN n - (k + 1) + 1 ELSE 0) /\ \A i \in 1 .. Len(t) : t[i] = up[k + 1 + i - 1]
    <3>1. k + 1 \in Nat /\ 1 <= k + 1 /\ n \in Int /\ n <= Len(up)
      BY <1>1, <2>1
    <3> QED BY <3>1, <1>0, PartIs
  <2> HIDE DEF t
  <2>3. ASSUME NEW i \in 1 .. Len(t) PROVE \E j \in 1 .. n : t[i] = up[j]
    <3> HIDE DEF n
    <3>1. k + 1 + i - 1 \in 1 .. n
      BY <2>1, <2>2, <1>1
    <3>2. t[i] = up[k + 1 + i - 1]
      BY <2>2
    <3> QED BY <3>1, <3>2
  <2>4. up' = t
    BY <1>1 DEF t
  <2> QED BY <2>3, <2>4
<1>2. ASSUME NEW c, Takes(c) PROVE \A i \in 1 .. Len(up') : \E j \in 1 .. Len(up) : up'[i] = up[j]
  <2> DEFINE k == CommandSize(up)
  <2>1. up' = SubSeq(up, k + 1, Len(up)) /\ Len(up) >= CommandSize(up)
    BY <1>2 DEF Takes
  <2>2. k \in Nat /\ k >= 1
    BY <2>1, <1>0, RestIs
  <2> HIDE DEF k
  <2> QED BY <2>1, <2>2, <1>1
<1>3. CASE OtherByte \/ OtherCommand \/ SpeedConfirmed
  <2>1. up' = Tail(up)
    BY <1>3 DEF OtherByte, OtherCommand, SpeedConfirmed
  <2>2. Tail(up) = SubSeq(up, 1 + 1, Len(up))
    BY <1>0
  <2>3. up' = SubSeq(up, 1 + 1, Len(up))
    BY <2>1, <2>2
  <2> QED BY <2>3, <1>1
<1>4. CASE cmd_ping \/ cmd_speed \/ cmd_read \/ cmd_write \/ cmd_goto
  <2>1. \E c : Takes(c)
    BY <1>4 DEF cmd_ping, cmd_speed, cmd_read, cmd_write, cmd_goto
  <2> QED BY <2>1, <1>2
<1> QED BY <1>3, <1>4 DEF Phone

\* The phone, when the host has given up
LEMMA GivenUpPhone ==
    ASSUME Types, Phone, GivenUp
    PROVE  GivenUp'
<1>0. up \in Seq(Nat) /\ up # <<>>
  BY PhoneNeeds DEF Types
<1>1. host' = "exit" /\ phone # "jumped"
  BY PhoneNeeds, HostSame DEF GivenUp
<1>2. \A i \in 1 .. Len(up) : up[i] # CmdGoto
  <2>1. CommandSize(up) \in Nat \/ phone # "loop"
    BY <1>0, PhoneNeeds, RestIs
  <2>2. ~(phone = "loop" /\ up # <<>> /\ Len(up) < CommandSize(up))
    <3> DEFINE a == Len(up)  b == CommandSize(up)
    <3>1. a \in Nat /\ (phone = "loop" => b \in Nat /\ a >= b)
      BY <1>0, <2>1, PhoneNeeds
    <3> HIDE DEF a, b
    <3>2. phone = "loop" => ~(a < b)
      BY <3>1
    <3> QED BY <3>2 DEF a, b
  <2> QED BY <2>2 DEF GivenUp
<1>3. \A i \in 1 .. Len(up') : up'[i] # CmdGoto
  BY <1>2, RestKeeps
<1>4. ~cmd_goto
  <2>1. 1 \in 1 .. Len(up)
    BY <1>0
  <2>2. up[1] # CmdGoto
    BY <2>1, <1>2
  <2> QED BY <2>2 DEF cmd_goto, Takes
<1>5. phone' # "jumped"
  BY <1>1, <1>4 DEF Phone, cmd_ping, cmd_speed, SpeedConfirmed, cmd_read, cmd_write, OtherByte, OtherCommand
<1> QED BY <1>1, <1>3, <1>5 DEF GivenUp

\* The phone during the first task
LEMMA PingingPhone ==
    ASSUME Types, Guarded', Phone, Pinging
    PROVE  Pinging'
<1>0. up \in Seq(Nat) /\ up # <<>>
  BY PhoneNeeds DEF Types
<1>1. /\ Task = "ping" /\ (Ahead(1) \/ (Ahead(2) /\ todo[2] = "speed"))
      /\ ~fast.host /\ ~fast.phone /\ phone = "loop"
  BY DEF Pinging
<1>2. host' = host /\ todo' = todo /\ Task' = Task /\ (Ahead(1)' <=> Ahead(1)) /\ (Ahead(2)' <=> Ahead(2))
  BY PhoneNeeds, HostSame
<1>3. CASE host = "pong" /\ up = <<CmdPing>> /\ down = <<>> /\ faults = 0
  <2>1. up[1] = CmdPing /\ Len(up) = 1
    BY <1>3, RequestsAre
  <2>2. cmd_ping
    BY <2>1, <1>1, ActionIs
  <2>3. Takes(CmdPing) /\ Answers(Pong) /\ phone' = phone /\ fast' = fast
    BY <2>2 DEF cmd_ping
  <2>4. CommandSize(up) = 1
    BY <2>1, CodesAre DEF CommandSize
  <2>5. up' = <<>>
    <3>1. up' = SubSeq(up, Len(up) + 1, Len(up))
      BY <2>1, <2>3, <2>4 DEF Takes
    <3> QED BY <3>1, <1>0
  <2>6. PICK b \in Seq(Nat) : Outcome(Pong, 0, 0, {}, b) /\ down' = IF fast.host = fast.phone THEN down \o b ELSE down
    BY <2>3, AnswersAre, DownSent
  <2>7. fast.host = fast.phone
    BY <1>1 DEF Types
  <2>8. down' = b
    BY <2>6, <2>7, <1>3
  <2>9. \/ b = Pong /\ faults' = 0
        \/ b # Pong /\ Len(b) <= 1 /\ faults' = 1
    <3>1. Pong[1] = 82 /\ Len(Pong) = 1
      BY AnswersAre
    <3>2. CASE b = Pong /\ faults' = faults
      BY <3>2, <1>3
    <3>3. CASE faults' = 1 /\ \E i \in 0 + 1 .. Len(Pong) : DamagedAt(Pong, b, i) /\ b[i] \notin {}
      <4>1. PICK i \in 1 .. 1 : DamagedAt(Pong, b, i)
        BY <3>1, <3>3
      <4>2. Len(b) = 1 /\ b[1] # Pong[1]
        BY <4>1, <3>1 DEF DamagedAt
      <4> QED BY <4>2, <3>3
    <3>4. CASE faults' = 1 /\ \E i \in 0 + 1 .. Len(Pong) : LostAt(Pong, b, i)
      <4>1. Len(b) = Len(Pong) - 1
        BY <3>4 DEF LostAt
      <4> QED BY <4>1, <3>1, <3>4
    <3> QED BY <2>6, <3>2, <3>3, <3>4 DEF Outcome
  <2>10. Idle(up)'
    BY <2>5 DEF Idle, Skips
  <2> QED BY <2>3, <2>5, <2>8, <2>9, <2>10, <1>1, <1>2, <1>3 DEF Pinging
<1>4. CASE host = "pong" /\ Idle(up) /\ down # Pong /\ Len(down) <= 1 /\ faults = 1
  <2>1. Idle(up') /\ UNCHANGED <<down, faults, ram, phone, target, fast>>
    BY <1>1, <1>4, IdlePhone
  <2>2. Idle(up)'
    BY <2>1 DEF Idle, Skips
  <2> QED BY <2>1, <2>2, <1>1, <1>2, <1>4 DEF Pinging
<1> QED BY <1>0, <1>3, <1>4 DEF Pinging

\* An answer of one byte, damaged or not
LEMMA ShortAnswer ==
    ASSUME Types, Guarded', NEW m \in Seq(Nat), Len(m) = 1, Answers(m), down = <<>>
    PROVE  Len(down') <= 1
<1>1. PICK b \in Seq(Nat) : Outcome(m, 0, 0, {}, b) /\ down' = IF fast.host = fast.phone THEN down \o b ELSE down
  BY DownSent
<1>2. Len(b) <= 1
  <2>1. b = m \/ Len(b) = Len(m) \/ Len(b) = Len(m) - 1
    BY <1>1 DEF Outcome, DamagedAt, LostAt
  <2>2. Len(b) = Len(m) \/ Len(b) = Len(m) - 1
    BY <2>1, Zenon
  <2> DEFINE x == Len(b)
             y == Len(m)
  <2>3. y = 1 /\ (x = y \/ x = y - 1)
    BY <2>2
  <2> HIDE DEF x, y
  <2>4. x <= 1
    BY <2>3
  <2> QED BY <2>4 DEF x
<1>3. down' = b \/ down' = down
  BY <1>1
<1>4. Len(down) <= 1
  OBVIOUS
<1> QED BY <1>2, <1>3, <1>4

\* The phone while it changes the speed
LEMMA SpeedingPhone ==
    ASSUME Types, Guarded', Phone, Speeding
    PROVE  Speeding'
<1>0. up \in Seq(Nat) /\ up # <<>> /\ fast \in [host : BOOLEAN, phone : BOOLEAN] /\ down \in Seq(Nat)
  BY PhoneNeeds DEF Types
<1>1. Task = "speed" /\ Ahead(1)
  BY DEF Speeding
<1>2. host' = host /\ Task' = Task /\ (Ahead(1)' <=> Ahead(1))
  BY PhoneNeeds, HostSame
<1>3. CASE ~fast.host /\ ~fast.phone /\ phone = "loop" /\ host = "send" /\ Idle(up) /\ down = <<>>
  <2>1. Idle(up') /\ UNCHANGED <<down, faults, ram, phone, target, fast>>
    BY <1>3, IdlePhone
  <2>2. Idle(up)'
    BY <2>1 DEF Idle, Skips
  <2> QED BY <2>1, <2>2, <1>1, <1>2, <1>3 DEF Speeding
<1>4. CASE ~fast.host /\ ~fast.phone /\ phone = "loop" /\ host = "speed" /\ Behind(up, <<CmdSpeed, 7>>) /\ down = <<>>
  <2>0. <<CmdSpeed, 7>> \in Seq(Nat) /\ Len(<<CmdSpeed, 7>>) = 2 /\ <<CmdSpeed, 7>>[1] = CmdSpeed
    BY CodesAre
  <2>1. up = <<CmdSpeed, 7>> \/ (Behind(up', <<CmdSpeed, 7>>) /\ UNCHANGED <<down, faults, ram, phone, target, fast>>)
    BY <2>0, <1>4, BehindPhone
  <2>2. CASE up = <<CmdSpeed, 7>>
    <3>1. up[1] = CmdSpeed /\ Len(up) = 2
      BY <2>0, <2>2
    <3>2. cmd_speed
      BY <3>1, <1>4, ActionIs
    <3>3. Takes(CmdSpeed) /\ Answers(SpeedSoon) /\ phone' = "speed" /\ fast' = [fast EXCEPT !.phone = TRUE]
      BY <3>2 DEF cmd_speed
    <3>4. CommandSize(up) = 2
      BY <3>1, CodesAre DEF CommandSize
    <3>5. up' = <<>>
      <4>1. up' = SubSeq(up, Len(up) + 1, Len(up))
        BY <3>1, <3>3, <3>4 DEF Takes
      <4> QED BY <4>1, <1>0
    <3>6. ~fast'.host /\ fast'.phone
      BY <3>3, <1>0, <1>4
    <3>7. Len(down') <= 1
      BY <3>3, <1>4, ShortAnswer, AnswersAre
    <3> QED BY <3>3, <3>5, <3>6, <3>7, <1>1, <1>2, <1>4 DEF Speeding
  <2>3. CASE Behind(up', <<CmdSpeed, 7>>) /\ UNCHANGED <<down, faults, ram, phone, target, fast>>
    <3>1. Behind(up, <<CmdSpeed, 7>>)'
      BY <2>3 DEF Behind, Skips
    <3> QED BY <3>1, <2>3, <1>1, <1>2, <1>4 DEF Speeding
  <2> QED BY <2>1, <2>2, <2>3
<1>5. CASE fast.host /\ fast.phone /\ phone = "speed" /\ host = "confirm" /\ down = <<>> /\ (up = <<CmdPing>> \/ Idle(up))
  <2>1. ~OtherByte /\ ~OtherCommand /\ ~cmd_ping /\ ~cmd_speed /\ ~cmd_read /\ ~cmd_write /\ ~cmd_goto
    BY <1>5 DEF OtherByte, OtherCommand, cmd_ping, cmd_speed, cmd_read, cmd_write, cmd_goto, Takes
  <2>2. SpeedConfirmed
    BY <2>1 DEF Phone
  <2>3. up' = Tail(up) /\ UNCHANGED fast
    BY <2>2 DEF SpeedConfirmed
  <2>4. CASE up = <<CmdPing>>
    <3>1. Head(up) = CmdPing /\ Tail(up) = <<>>
      BY <2>4
    <3>2. up' = <<>> /\ phone' = "loop" /\ Answers(SpeedDone)
      BY <2>2, <3>1 DEF SpeedConfirmed
    <3>3. Len(down') <= 1
      BY <3>2, <1>5, ShortAnswer, AnswersAre
    <3> QED BY <2>3, <3>2, <3>3, <1>1, <1>2, <1>5 DEF Speeding
  <2>5. CASE Idle(up)
    <3>1. Len(up) \in Nat /\ 1 <= Len(up) /\ Skips(up, Len(up))
      BY <2>5, <1>0 DEF Idle
    <3>2. up[1] \notin Codes /\ Len(Tail(up)) = Len(up) - 1 /\ Skips(Tail(up), Len(up) - 1)
      BY <3>1, <1>0, SkipTail
    <3>3. Head(up) # CmdPing
      <4>1. Head(up) = up[1]
        BY <1>0
      <4> QED BY <4>1, <3>2 DEF Codes, Commands
    <3>4. UNCHANGED <<phone, down>>
      BY <2>2, <3>3 DEF SpeedConfirmed
    <3>5. Idle(Tail(up))
      BY <3>2 DEF Idle
    <3>6. Idle(up)'
      BY <3>5, <2>3 DEF Idle, Skips
    <3> QED BY <2>3, <3>4, <3>6, <1>1, <1>2, <1>5 DEF Speeding
  <2> QED BY <1>5, <2>4, <2>5
<1> QED BY <1>0, <1>3, <1>4, <1>5 DEF Speeding

\* Every step of the phone
LEMMA CorePhone ==
    ASSUME Types, Guarded', Core, Phone
    PROVE  Core'
<1>1. CASE Started
  BY <1>1, PhoneNeeds DEF Started
<1>2. CASE Main
  <2>1. Tasks /\ Tasks'
    BY <1>2, PhoneNeeds, HostSame DEF Main
  <2>2. CASE fast.host = fast.phone /\ Safe
    BY <2>1, <2>2, SafePhone DEF Core
  <2>3. CASE fast.host = fast.phone /\ Spoilt
    <3>1. Spoilt' /\ fast' = fast
      BY <2>3, SpoiltPhone
    <3> QED BY <3>1, <2>1, <2>3 DEF Core, Main
  <2> QED BY <2>2, <2>3, <1>2 DEF Main
<1>3. CASE GivenUp
  BY <1>3, GivenUpPhone DEF Core
<1>4. CASE Pinging
  BY <1>4, PingingPhone DEF Core
<1>5. CASE Speeding
  BY <1>5, SpeedingPhone DEF Core
<1> QED BY <1>1, <1>2, <1>3, <1>4, <1>5 DEF Core

-----------------------------------------------------------------------------
\* Steps of the host.

\* Bytes that are no commands, and something behind them
LEMMA IdleCat ==
    ASSUME NEW s \in Seq(Nat), Idle(s), NEW t \in Seq(Nat)
    PROVE  /\ s \o t \in Seq(Nat) /\ Len(s \o t) = Len(s) + Len(t) /\ Len(s) \in Nat /\ Len(t) \in Nat
           /\ Skips(s \o t, Len(s))
           /\ \A j \in 1 .. Len(t) : (s \o t)[Len(s) + j] = t[j]
           /\ Behind(s \o t, t)
           /\ Idle(t) => Idle(s \o t)
<1> DEFINE u == s \o t
           k == Len(s)
           n == Len(t)
<1>1. /\ u \in Seq(Nat) /\ Len(u) = k + n /\ k \in Nat /\ n \in Nat
      /\ \A i \in 1 .. k : u[i] = s[i]
      /\ \A i \in 1 .. n : u[k + i] = t[i]
  BY CatIs
<1>2. \A i \in 1 .. k : s[i] \notin Codes
  BY DEF Idle, Skips
<1>3. Idle(t) => \A i \in 1 .. n : t[i] \notin Codes
  BY DEF Idle, Skips
<1> HIDE DEF u, k, n
<1>5. k \in 0 .. Len(u)
  BY <1>1
<1>8. ASSUME NEW i \in 1 .. k PROVE u[i] \notin Codes
  <2>1. u[i] = s[i]
    BY <1>1
  <2>2. s[i] \notin Codes
    BY <1>2
  <2> QED BY <2>1, <2>2, Zenon
<1>4. Skips(u, k)
  BY <1>5, <1>8 DEF Skips
<1>6. Behind(u, t)
  BY <1>1, <1>4, <1>5 DEF Behind, n
<1>7. ASSUME Idle(t) PROVE Idle(u)
  <2>1. ASSUME NEW i \in 1 .. Len(u) PROVE u[i] \notin Codes
    <3>1. CASE i <= k
      <4>1. i \in 1 .. k
        BY <3>1, <1>1
      <4> QED BY <4>1, <1>8
    <3>2. CASE i > k
      <4>1. i - k \in 1 .. n /\ k + (i - k) = i
        BY <3>2, <1>1
      <4> QED BY <4>1, <1>1, <1>3, <1>7
    <3> QED BY <3>1, <3>2, <1>1
  <2>2. Len(u) \in 0 .. Len(u)
    BY <1>1
  <2> QED BY <2>1, <2>2 DEF Idle, Skips
<1> QED BY <1>1, <1>4, <1>6, <1>7 DEF u, k, n

\* What follows the first part of a message arrives as if it had been sent alone.
LEMMA PrefixOutcome ==
    ASSUME NEW p \in Seq(Nat), NEW m \in Seq(Nat), NEW d \in Nat, NEW l \in Nat, NEW C, NEW b \in Seq(Nat),
           Outcome(p \o m, Len(p) + d, Len(p) + l, C, b)
    PROVE  \E c \in Seq(Nat) : b = p \o c /\ Outcome(m, d, l, C, c)
<1> DEFINE k == Len(p)
           n == Len(m)
           u == p \o m
           c == SubSeq(b, k + 1, Len(b))
<1>1. /\ u \in Seq(Nat) /\ Len(u) = k + n /\ k \in Nat /\ n \in Nat
      /\ \A i \in 1 .. k : u[i] = p[i]
      /\ \A i \in 1 .. n : u[k + i] = m[i]
  BY CatIs
<1>2. \/ b = u /\ faults' = faults
      \/ faults = 0 /\ faults' = 1 /\ \E i \in k + d + 1 .. Len(u) : DamagedAt(u, b, i) /\ b[i] \notin C
      \/ faults = 0 /\ faults' = 1 /\ \E i \in k + l + 1 .. Len(u) : LostAt(u, b, i)
  BY DEF Outcome
<1>3. CASE b = u /\ faults' = faults
  <2>1. Outcome(m, d, l, C, m)
    BY <1>3 DEF Outcome
  <2> QED BY <2>1, <1>3
<1>4. ASSUME Len(b) >= k
      PROVE  /\ c \in Seq(Nat) /\ Len(c) = Len(b) - k
             /\ \A i \in 1 .. Len(c) : c[i] = b[k + i]
             /\ (\A i \in 1 .. k : b[i] = p[i]) => b = p \o c
  <2> DEFINE a == k + 1
             e == Len(b)
             v == p \o c
  <2>0. e \in Nat /\ e >= k
    BY <1>4
  <2>1. a \in Nat /\ 1 <= a /\ e \in Int /\ e <= Len(b)
    BY <2>0, <1>1
  <2>2. c = SubSeq(b, a, e)
    OBVIOUS
  <2> HIDE DEF a
  <2>3. /\ SubSeq(b, a, e) \in Seq(Nat)
        /\ Len(SubSeq(b, a, e)) = IF a <= e THEN e - a + 1 ELSE 0
        /\ \A i \in 1 .. Len(SubSeq(b, a, e)) : SubSeq(b, a, e)[i] = b[a + i - 1]
    BY <2>1, PartIs
  <2> HIDE DEF c
  <2>4. c \in Seq(Nat) /\ Len(c) = (IF a <= e THEN e - a + 1 ELSE 0) /\ \A i \in 1 .. Len(c) : c[i] = b[a + i - 1]
    BY <2>2, <2>3, Zenon
  <2> HIDE DEF e
  <2> HIDE DEF k
  <2>5. Len(c) = e - k
    BY <2>0, <2>4, <1>1 DEF a
  <2>6. ASSUME NEW i \in 1 .. Len(c) PROVE c[i] = b[k + i]
    <3>1. a + i - 1 = k + i
      BY <2>0, <2>5, <1>1 DEF a
    <3> QED BY <3>1, <2>4
  <2>7. ASSUME \A i \in 1 .. k : b[i] = p[i] PROVE b = v
    <3>1. /\ v \in Seq(Nat) /\ Len(v) = k + Len(c)
          /\ \A i \in 1 .. k : v[i] = p[i]
          /\ \A i \in 1 .. Len(c) : v[k + i] = c[i]
      BY <2>4, CatIs DEF k
    <3> HIDE DEF v
    <3>2. Len(v) = Len(b)
      BY <3>1, <2>5, <2>0, <1>1 DEF e
    <3>3. ASSUME NEW i \in 1 .. Len(b) PROVE b[i] = v[i]
      <4>1. CASE i <= k
        BY <4>1, <3>1, <2>7, <1>1
      <4>2. CASE i > k
        <5>1. i - k \in 1 .. Len(c) /\ k + (i - k) = i
          BY <4>2, <2>0, <2>5, <1>1 DEF e
        <5> QED BY <5>1, <3>1, <2>6
      <4> QED BY <4>1, <4>2, <1>1
    <3> QED BY <3>1, <3>2, <3>3, SameSeq
  <2> QED BY <2>4, <2>5, <2>6, <2>7 DEF e, v
<1> HIDE DEF c
<1>5. CASE faults = 0 /\ faults' = 1 /\ \E i \in k + d + 1 .. Len(u) : DamagedAt(u, b, i) /\ b[i] \notin C
  <2>1. PICK i \in k + d + 1 .. Len(u) : DamagedAt(u, b, i) /\ b[i] \notin C
    BY <1>5
  <2>2. Len(b) = k + n /\ b[i] \in 0 .. 255 /\ b[i] # u[i] /\ b[i] \notin C /\ \A j \in 1 .. k + n : j # i => b[j] = u[j]
    BY <2>1, <1>1 DEF DamagedAt
  <2> HIDE DEF u, k, n
  <2>3. Len(b) >= k /\ \A j \in 1 .. k : b[j] = p[j]
    BY <2>2, <1>1
  <2>4. c \in Seq(Nat) /\ Len(c) = n /\ (\A j \in 1 .. n : c[j] = b[k + j]) /\ b = p \o c
    <3>1. c \in Seq(Nat) /\ Len(c) = Len(b) - k /\ (\A j \in 1 .. Len(c) : c[j] = b[k + j]) /\ b = p \o c
      BY <2>3, <1>4
    <3>2. Len(c) = n
      BY <3>1, <2>2, <1>1
    <3> QED BY <3>1, <3>2
  <2>5. i - k \in d + 1 .. n /\ k + (i - k) = i /\ i - k \in 1 .. n
    <3> DEFINE z == Len(u)
    <3>1. i \in k + d + 1 .. z /\ z = k + n /\ k \in Nat /\ n \in Nat /\ d \in Nat
      BY <1>1, Zenon
    <3> HIDE DEF z
    <3> QED BY <3>1
  <2>6. c[i - k] = b[i] /\ m[i - k] = u[i]
    BY <2>2, <2>4, <2>5, <1>1
  <2>7. ASSUME NEW j \in 1 .. n, j # i - k PROVE c[j] = m[j]
    <3>1. k + j \in 1 .. k + n /\ k + j # i
      BY <2>7, <1>1
    <3> QED BY <3>1, <2>2, <2>4, <1>1
  <2>8. DamagedAt(m, c, i - k)
    BY <2>2, <2>4, <2>6, <2>7 DEF DamagedAt, n
  <2>9. Outcome(m, d, l, C, c)
    BY <2>2, <2>5, <2>6, <2>8, <1>5 DEF Outcome, n
  <2> QED BY <2>4, <2>9
<1>6. CASE faults = 0 /\ faults' = 1 /\ \E i \in k + l + 1 .. Len(u) : LostAt(u, b, i)
  <2>1. PICK i \in k + l + 1 .. Len(u) : LostAt(u, b, i)
    BY <1>6
  <2>2. Len(b) = k + n - 1 /\ \A j \in 1 .. k + n - 1 : b[j] = IF j < i THEN u[j] ELSE u[j + 1]
    <3> DEFINE z == Len(b)
    <3>1. z = Len(u) - 1 /\ Len(u) = k + n /\ \A j \in 1 .. z : b[j] = IF j < i THEN u[j] ELSE u[j + 1]
      BY <2>1, <1>1, Zenon DEF LostAt
    <3>2. z = k + n - 1
      <4> DEFINE v == Len(u)
      <4>1. z = v - 1 /\ v = k + n /\ k \in Nat /\ n \in Nat
        BY <3>1, <1>1, Zenon
      <4> HIDE DEF z, v, k, n
      <4> QED BY <4>1
    <3> HIDE DEF z, u, k, n
    <3>3. \A j \in 1 .. k + n - 1 : b[j] = IF j < i THEN u[j] ELSE u[j + 1]
      BY <3>1, <3>2, Zenon
    <3> QED BY <3>2, <3>3 DEF z
  <2> HIDE DEF u, k, n
  <2>3. Len(b) >= k /\ \A j \in 1 .. k : b[j] = p[j]
    BY <2>2, <1>1
  <2>4. c \in Seq(Nat) /\ Len(c) = n - 1 /\ (\A j \in 1 .. n - 1 : c[j] = b[k + j]) /\ b = p \o c
    <3>1. c \in Seq(Nat) /\ Len(c) = Len(b) - k /\ (\A j \in 1 .. Len(c) : c[j] = b[k + j]) /\ b = p \o c
      BY <2>3, <1>4
    <3>2. Len(c) = n - 1
      BY <3>1, <2>2, <1>1
    <3> QED BY <3>1, <3>2
  <2>5. i - k \in l + 1 .. n
    <3> DEFINE z == Len(u)
    <3>1. i \in k + l + 1 .. z /\ z = k + n /\ k \in Nat /\ n \in Nat /\ l \in Nat
      BY <1>1, Zenon
    <3> HIDE DEF z
    <3> QED BY <3>1
  <2>7. ASSUME NEW j \in 1 .. n - 1 PROVE c[j] = IF j < i - k THEN m[j] ELSE m[j + 1]
    <3>1. k + j \in 1 .. k + n - 1 /\ (k + j < i <=> j < i - k) /\ k + j + 1 = k + (j + 1) /\ j \in 1 .. n /\ j + 1 \in 1 .. n
      BY <1>1
    <3>2. b[k + j] = IF k + j < i THEN u[k + j] ELSE u[k + j + 1]
      BY <3>1, <2>2
    <3>3. u[k + j] = m[j]
      BY <3>1, <1>1
    <3>4. u[k + j + 1] = m[j + 1]
      BY <3>1, <1>1
    <3>5. c[j] = b[k + j]
      BY <2>4
    <3> QED BY <3>1, <3>2, <3>3, <3>4, <3>5
  <2>8. LostAt(m, c, i - k)
    BY <2>4, <2>7 DEF LostAt, n
  <2>9. Outcome(m, d, l, C, c)
    BY <2>5, <2>8, <1>6 DEF Outcome, n
  <2> QED BY <2>4, <2>9
<1> QED BY <1>2, <1>3, <1>5, <1>6

\* A keep-alive changes nothing.
LEMMA AliveIs ==
    ASSUME NEW s \in Seq(Nat), NEW p \in {<<>>, <<KeepAlive>>}
    PROVE  /\ p \in Seq(Nat) /\ s \o p \in Seq(Nat)
           /\ Idle(s) => Idle(s \o p)
           /\ \A mem, g : \A D \in SUBSET DOMAIN Payload : Good(s, mem, D, g) => Good(s \o p, mem, D, g)
<1>1. CASE p = <<>>
  <2>1. s \o p = s /\ p \in Seq(Nat)
    BY <1>1
  <2> QED BY <2>1
<1>2. CASE p = <<KeepAlive>>
  <2>1. KeepAlive \in Nat /\ KeepAlive \notin {CmdSpeed, CmdRead, CmdWrite, CmdGoto}
        /\ KeepAlive \notin OtherCommands /\ KeepAlive \notin Codes
    BY CodesAre
  <2>2. OneCommand(p) /\ ~WriteAt(p, 0) /\ ~GotoAt(p, 0)
    BY <1>2, <2>1, SingleIs
  <2>3. p \in Seq(Nat) /\ Len(p) = 1 /\ p[1] = KeepAlive
    BY <1>2, <2>1
  <2>4. Idle(p)
    BY <2>1, <2>3 DEF Idle, Skips
  <2>5. s \o p \in Seq(Nat)
    BY <2>3, CatIs
  <2>6. Idle(s) => Idle(s \o p)
    BY <2>3, <2>4, IdleCat
  <2>7. ASSUME NEW mem, NEW g, NEW D \in SUBSET DOMAIN Payload, Good(s, mem, D, g) PROVE Good(s \o p, mem, D, g)
    BY <2>2, <2>7, GoodOther
  <2> QED BY <2>3, <2>5, <2>6, <2>7
<1> QED BY <1>1, <1>2

\* A message behind a keep-alive
LEMMA SentBehind ==
    ASSUME Types, Guarded', NEW p \in {<<>>, <<KeepAlive>>}, NEW m \in Seq(Nat), NEW d \in Nat, NEW l \in Nat,
           SentUp(p \o m, Len(p) + d, Len(p) + l), fast.host = fast.phone
    PROVE  \E c \in Seq(Nat) : up' = (up \o p) \o c /\ Outcome(m, d, l, Codes, c)
<1>0. up \in Seq(Nat)
  BY DEF Types
<1>1. p \in Seq(Nat)
  BY <1>0, AliveIs
<1>2. p \o m \in Seq(Nat) /\ Len(p) + d \in Nat /\ Len(p) + l \in Nat
  BY <1>1
<1>3. PICK b \in Seq(Nat) : /\ Outcome(p \o m, Len(p) + d, Len(p) + l, Codes, b)
                            /\ up' = IF fast.host = fast.phone THEN up \o b ELSE up
  BY <1>2, UpSent
<1>4. PICK c \in Seq(Nat) : b = p \o c /\ Outcome(m, d, l, Codes, c)
  BY <1>1, <1>3, PrefixOutcome, ZenonT(200)
<1>5. up \o (p \o c) = (up \o p) \o c
  BY <1>0, <1>1, CatAssoc, SMTT(100)
<1> QED BY <1>3, <1>4, <1>5

\* A block behind a keep-alive
LEMMA BlockBehind ==
    ASSUME Types, Guarded', NEW p \in {<<>>, <<KeepAlive>>}, NEW m \in Seq(Nat), NEW d \in Nat,
           SentBlock(p \o m, Len(p) + d), fast.host = fast.phone
    PROVE  \E c \in Seq(Nat) : up' = (up \o p) \o c /\ Outcome(m, d, d, {}, c)
<1>0. up \in Seq(Nat)
  BY DEF Types
<1>1. p \in Seq(Nat)
  BY <1>0, AliveIs
<1>2. p \o m \in Seq(Nat) /\ Len(p) + d \in Nat
  BY <1>1
<1>3. PICK b \in Seq(Nat) : /\ Outcome(p \o m, Len(p) + d, Len(p) + d, {}, b)
                            /\ up' = IF fast.host = fast.phone THEN up \o b ELSE up
  BY <1>2, BlockUp
<1>4. PICK c \in Seq(Nat) : b = p \o c /\ Outcome(m, d, d, {}, c)
  BY <1>1, <1>3, PrefixOutcome, ZenonT(200)
<1>5. up \o (p \o c) = (up \o p) \o c
  BY <1>0, <1>1, CatAssoc, SMTT(100)
<1> QED BY <1>3, <1>4, <1>5

\* A request to write is one command, which stores the block.
LEMMA BlockIs ==
    ASSUME Types
    PROVE  /\ OneCommand(WriteRequest) /\ WriteAt(WriteRequest, 0) /\ Right(WriteRequest, 0)
           /\ \A i \in Int : Covers(WriteRequest, 0, i) <=> offset + 1 <= i /\ i <= offset + BlockSize
<1> DEFINE W == WriteRequest
           B == BlockSize
<1>1. /\ W \in Seq(Nat) /\ Len(W) = B + 4 /\ W[1] = CmdWrite /\ W[2] = Base + offset /\ W[3] = B
      /\ \A j \in 1 .. B : W[3 + j] = Payload[offset + j]
  BY WriteRequestIs
<1>2. B \in Nat /\ B >= 1 /\ offset \in Nat
  <2>1. B \in 1 .. 255 /\ offset \in Nat
    BY BlockSizeIs
  <2> HIDE DEF B
  <2> QED BY <2>1
<1> HIDE DEF W, B
<1>3. 0 + 1 = 1 /\ 0 + 2 = 2 /\ 0 + 3 = 3 /\ 0 + 4 = 4
  OBVIOUS
<1>4. WriteAt(W, 0)
  BY <1>1, <1>2, <1>3 DEF WriteAt
<1>5. SizeAt(W, 0) = 4 + B
  BY <1>1, <1>3, CodesAre DEF SizeAt
<1>6. OneCommand(W)
  <2>1. 0 < Len(W) /\ 4 <= Len(W) /\ 4 + B = Len(W)
    BY <1>1, <1>2
  <2>2. W[1] # CmdSpeed /\ W[1] \notin OtherCommands
    BY <1>1, CodesAre
  <2> QED BY <2>1, <2>2, <1>1, <1>5 DEF OneCommand
<1>7. ASSUME NEW i \in Int PROVE Covers(W, 0, i) <=> offset + 1 <= i /\ i <= offset + B
  <2>1. Covers(W, 0, i) <=> Base + offset <= i /\ i < Base + offset + B
    BY <1>1, <1>3 DEF Covers
  <2> QED BY <2>1, <1>2, CodesAre
<1>8. ASSUME NEW i \in DOMAIN Payload, Covers(W, 0, i) PROVE W[0 + 4 + i - W[0 + 2]] = Payload[i]
  <2>1. i \in Int
    BY ConstantsFact
  <2>2. offset + 1 <= i /\ i <= offset + B
    BY <2>1, <1>7, <1>8
  <2>3. i - offset \in 1 .. B /\ offset + (i - offset) = i /\ 0 + 4 + i - (Base + offset) = 3 + (i - offset)
    BY <2>1, <2>2, <1>2, CodesAre
  <2>4. W[0 + 4 + i - W[0 + 2]] = W[3 + (i - offset)]
    BY <2>3, <1>1, <1>3
  <2>5. W[3 + (i - offset)] = Payload[offset + (i - offset)]
    BY <2>3, <1>1
  <2> QED BY <2>3, <2>4, <2>5
<1>9. Right(W, 0)
  BY <1>8 DEF Right
<1> QED BY <1>4, <1>6, <1>7, <1>9 DEF W, B

\* A block that arrives: what it stores is due from now on.
LEMMA BlockFollows ==
    ASSUME Types, NEW s \in Seq(Nat), NEW mem, NEW D, D \subseteq DOMAIN Payload, 1 .. offset \subseteq D,
           Good(s, mem, D, FALSE)
    PROVE  \E E \in SUBSET DOMAIN Payload : 1 .. offset + BlockSize \subseteq E /\ Good(s \o WriteRequest, mem, E, FALSE)
<1> DEFINE B == BlockSize
           E == D \cup (1 .. offset + B)
<1>1. B \in Nat /\ offset \in Nat /\ offset + B <= Len(Payload)
  <2>1. B \in 1 .. 255 /\ offset \in Nat /\ offset + B <= Len(Payload)
    BY BlockSizeIs
  <2> HIDE DEF B
  <2> QED BY <2>1
<1>2. \A i \in Int : Covers(WriteRequest, 0, i) <=> offset + 1 <= i /\ i <= offset + B
  BY BlockIs
<1> HIDE DEF B
<1>3. E \subseteq DOMAIN Payload /\ D \subseteq E /\ 1 .. offset + B \subseteq E
  BY <1>1, ConstantsFact
<1>4. ASSUME NEW i \in E PROVE i \in D \/ Covers(WriteRequest, 0, i)
  <2>1. CASE i \in 1 .. offset + B
    <3>1. i \in 1 .. offset \/ (i \in Int /\ offset + 1 <= i /\ i <= offset + B)
      BY <2>1, <1>1
    <3> QED BY <3>1, <1>2
  <2> QED BY <2>1
<1> HIDE DEF E
<1>5. Good(s \o WriteRequest, mem, E, FALSE)
  BY <1>3, <1>4, BlockIs, GoodWrite
<1> QED BY <1>3, <1>5 DEF B

\* A block is sent behind s: it arrives, or it is spoilt.
LEMMA BlockSent ==
    ASSUME Types, Task = "write", phone = "loop", PhoneWaits, UNCHANGED <<todo, offset>>,
           host' = "ack", NEW s \in Seq(Nat), NEW c \in Seq(Nat), up' = s \o c, Outcome(WriteRequest, 3, 3, {}, c),
           NEW D, D \subseteq DOMAIN Payload, 1 .. offset \subseteq D, Good(s, ram, D, FALSE),
           faults = 0 => Idle(s) /\ down' = <<>>
    PROVE  Safe' \/ Spoilt'
<1> DEFINE B == BlockSize
           W == WriteRequest
           k == Len(s)
<1>1. B \in Nat /\ B >= 1 /\ offset \in Nat /\ offset + B <= Len(Payload)
  <2>1. B \in 1 .. 255 /\ offset \in Nat /\ offset + B <= Len(Payload)
    BY BlockSizeIs
  <2> HIDE DEF B
  <2> QED BY <2>1
<1>2. Task' = Task /\ B' = B /\ offset' = offset /\ phone' = "loop" /\ ram' = ram
  BY DEF Task, BlockSize, PhoneWaits
<1>3. W' = W
  BY <1>2 DEF WriteRequest, BlockData
<1>4. LeftToDo("write")'
  <2>1. Task' = "write"
    BY <1>2
  <2>2. todo' # <<>> /\ Head(todo') = "write"
    BY <2>1 DEF Task
  <2>3. 1 \in 1 .. Len(todo') /\ todo'[1] = "write"
    <3>1. todo' \in Seq({"ping", "speed", "read", "write", "goto"})
      BY DEF Types
    <3> QED BY <3>1, <2>2
  <2> QED BY <2>3 DEF LeftToDo
<1>5. Promised' = 1 .. offset + B
  BY <1>2 DEF Promised
<1>6. /\ W \in Seq(Nat) /\ Len(W) = B + 4 /\ W[1] = CmdWrite /\ W[2] = Base + offset /\ W[3] = B
      /\ SubSeq(W, 4, 3 + B) = BlockData /\ W[4 + B] = xor_checksum(BlockData)
  BY WriteRequestIs
<1>7. CASE c = W /\ faults' = faults
  <2>1. PICK E \in SUBSET DOMAIN Payload : 1 .. offset + B \subseteq E /\ Good(s \o W, ram, E, FALSE)
    BY BlockFollows
  <2>2. Good(up', ram', E, ~LeftToDo("write")')
    <3> DEFINE a == ~LeftToDo("write")'
    <3>1. a = FALSE
      BY <1>4
    <3> HIDE DEF a
    <3> QED BY <2>1, <3>1, <1>2, <1>7 DEF a
  <2>3. ASSUME faults' = 0 PROVE Calm'
    <3>1. Idle(s) /\ down' = <<>>
      BY <2>3, <1>7
    <3>2. Behind(s \o W, W)
      BY <3>1, <1>6, IdleCat
    <3>3. Request' = W
      BY <1>3 DEF Request
    <3>4. Behind(up, Request)'
      BY <3>2, <3>3, <1>7 DEF Behind, Skips
    <3> QED BY <3>1, <3>4 DEF Calm, Waiting
  <2>4. (\E F \in SUBSET DOMAIN Payload : Promised \subseteq F /\ Good(up, ram, F, ~LeftToDo("write")))'
    BY <2>1, <2>2, <1>5
  <2>5. Safe'
    BY <2>3, <2>4, <1>2 DEF Safe
  <2> QED BY <2>5
<1>8. ASSUME faults = 0, faults' = 1, Len(c) >= 3, c[1] = W[1], c[2] = W[2], c[3] = W[3]
      PROVE  /\ phone' = "loop" /\ host' = "ack" /\ faults' = 1 /\ InRam(1 .. offset)' /\ down' = <<>>
             /\ k \in 0 .. Len(up') /\ Len(up') = k + Len(c) /\ BlockAt(k)'
             /\ \A j \in 1 .. Len(c) : up'[k + j] = c[j]
  <2>1. Idle(s) /\ down' = <<>>
    BY <1>8
  <2>2. /\ Len(up') = k + Len(c) /\ k \in Nat /\ Len(c) \in Nat
        /\ Skips(up', k)
        /\ \A j \in 1 .. Len(c) : up'[k + j] = c[j]
    BY <2>1, IdleCat
  <2>3. InRam(1 .. offset)'
    <3>1. \A i \in D : ram[i] = Payload[i]
      BY <2>1, GoodIdle
    <3> QED BY <3>1, <1>2 DEF InRam
  <2> HIDE DEF k
  <2>4. k \in 0 .. Len(up') /\ 1 \in 1 .. Len(c) /\ 2 \in 1 .. Len(c) /\ 3 \in 1 .. Len(c)
    BY <2>2, <1>8, SMTT(30)
  <2>5. up'[k + 1] = c[1] /\ up'[k + 2] = c[2] /\ up'[k + 3] = c[3]
    BY <2>2, <2>4
  <2>6. Skips(up, k)'
    BY <2>2 DEF Skips
  <2>7. BlockAt(k)'
    BY <2>5, <2>6, <1>2, <1>6, <1>8 DEF BlockAt
  <2> QED BY <2>1, <2>2, <2>3, <2>4, <2>7, <1>2, <1>8
<1> HIDE DEF k
<1>9. CASE faults = 0 /\ faults' = 1 /\ \E i \in 3 + 1 .. Len(W) : LostAt(W, c, i)
  <2>1. PICK i \in 3 + 1 .. Len(W) : LostAt(W, c, i)
    BY <1>9
  <2> HIDE DEF B, W
  <2>2. i \in 4 .. B + 4 /\ Len(c) = B + 3 /\ \A j \in 1 .. B + 3 : c[j] = IF j < i THEN W[j] ELSE W[j + 1]
    <3>1. Len(c) = Len(W) - 1 /\ \A j \in 1 .. Len(c) : c[j] = IF j < i THEN W[j] ELSE W[j + 1]
      BY <2>1 DEF LostAt
    <3>2. Len(c) = B + 3
      BY <3>1, <1>1, <1>6
    <3> QED BY <3>1, <3>2, <1>1, <1>6
  <2>3. Len(c) >= 3 /\ c[1] = W[1] /\ c[2] = W[2] /\ c[3] = W[3]
    BY <2>2, <1>1
  <2>4. /\ phone' = "loop" /\ host' = "ack" /\ faults' = 1 /\ InRam(1 .. offset)' /\ down' = <<>>
        /\ k \in 0 .. Len(up') /\ Len(up') = k + Len(c) /\ BlockAt(k)'
    BY <2>3, <1>8, <1>9
  <2>5. Len(up') = k + 3 + B' /\ k \in Nat
    <3>1. k \in Nat
      BY DEF k
    <3> QED BY <3>1, <2>2, <2>4, <1>1, <1>2
  <2>6. (\E j \in 0 .. Len(up) : Len(up) = j + 3 + BlockSize /\ BlockAt(j))'
    BY <2>4, <2>5 DEF B
  <2> QED BY <2>4, <2>6 DEF Spoilt
<1>10. CASE faults = 0 /\ faults' = 1 /\ \E i \in 3 + 1 .. Len(W) : DamagedAt(W, c, i) /\ c[i] \notin {}
  <2>1. PICK i \in 3 + 1 .. Len(W) : DamagedAt(W, c, i)
    BY <1>10
  <2> DEFINE x == SubSeq(c, 4, 3 + B)
             BD == BlockData
  <2>0. BD \in Seq(Nat) /\ Len(BD) = B /\ xor_checksum(BD) \in Nat
    <3>1. BD \in Seq(Nat) /\ Len(BD) = B
      BY BlockDataIs
    <3> DEFINE y == xor_checksum(BD)
    <3>2. y \in 0 .. 255
      BY <3>1, ChecksumIs
    <3>3. y \in Nat
      <4> HIDE DEF y
      <4> QED BY <3>2
    <3> QED BY <3>1, <3>3
  <2>9. \A j \in 1 .. B : BD[j] = W[3 + j]
    BY BlockDataIs, WriteRequestIs
  <2>11. \A j \in 1 .. B : BD[j] \in 0 .. 255
    <3>1. ASSUME NEW j \in 1 .. B PROVE offset + j \in 1 .. Len(Payload)
      <4> HIDE DEF B
      <4> QED BY <1>1, ConstantsFact
    <3>2. \A j \in 1 .. Len(Payload) : Payload[j] \in 0 .. 255
      BY ConstantsFact
    <3> QED BY <3>1, <3>2, BlockDataIs
  <2> HIDE DEF B, W, BD
  <2>2. i \in 4 .. B + 4 /\ Len(c) = B + 4 /\ c[i] \in 0 .. 255 /\ c[i] # W[i] /\ \A j \in 1 .. B + 4 : j # i => c[j] = W[j]
    BY <2>1, <1>1, <1>6 DEF DamagedAt
  <2>3. Len(c) >= 3 /\ c[1] = W[1] /\ c[2] = W[2] /\ c[3] = W[3]
    <3>1. /\ 1 \in 1 .. B + 4 /\ 2 \in 1 .. B + 4 /\ 3 \in 1 .. B + 4
          /\ 1 # i /\ 2 # i /\ 3 # i /\ B + 4 >= 3
      BY <2>2, <1>1
    <3> QED BY <3>1, <2>2
  <2>4. /\ phone' = "loop" /\ host' = "ack" /\ faults' = 1 /\ InRam(1 .. offset)' /\ down' = <<>>
        /\ k \in 0 .. Len(up') /\ Len(up') = k + Len(c) /\ BlockAt(k)'
        /\ \A j \in 1 .. Len(c) : up'[k + j] = c[j]
    BY <2>3, <1>8, <1>10
  <2>5. x \in Seq(Nat) /\ Len(x) = B /\ \A j \in 1 .. B : x[j] = c[3 + j]
    <3> DEFINE e == 3 + B
    <3>1. e \in Int /\ 4 <= e /\ e <= Len(c) /\ e - 4 + 1 = B
      BY <2>2, <1>1
    <3>2. x = SubSeq(c, 4, e)
      OBVIOUS
    <3> HIDE DEF e
    <3>3. /\ SubSeq(c, 4, e) \in Seq(Nat) /\ Len(SubSeq(c, 4, e)) = e - 4 + 1
          /\ \A j \in 1 .. Len(SubSeq(c, 4, e)) : SubSeq(c, 4, e)[j] = c[4 + j - 1]
      <4>1. c \in Seq(Nat) /\ 4 \in Nat /\ 1 <= 4
        OBVIOUS
      <4>2. /\ SubSeq(c, 4, e) \in Seq(Nat) /\ Len(SubSeq(c, 4, e)) = (IF 4 <= e THEN e - 4 + 1 ELSE 0)
            /\ \A j \in 1 .. Len(SubSeq(c, 4, e)) : SubSeq(c, 4, e)[j] = c[4 + j - 1]
        BY <4>1, <3>1, PartIs, ZenonT(30)
      <4> QED BY <4>2, <3>1, Zenon
    <3> HIDE DEF x
    <3>4. x \in Seq(Nat) /\ Len(x) = B /\ \A j \in 1 .. B : x[j] = c[4 + j - 1]
      BY <3>1, <3>2, <3>3, Zenon
    <3>5. \A j \in 1 .. B : 4 + j - 1 = 3 + j
      BY <1>1
    <3> QED BY <3>4, <3>5
  <2> HIDE DEF x
  <2>6. xor_checksum(x) # c[4 + B]
    <3>1. CASE i = B + 4
      <4>1. 4 + B = B + 4
        BY <1>1
      <4>2. c[4 + B] # xor_checksum(BD)
        BY <4>1, <3>1, <2>2, <1>6 DEF BD
      <4>3. x = BD
        <5>1. ASSUME NEW j \in 1 .. B PROVE x[j] = BD[j]
          <6>1. 3 + j \in 1 .. B + 4 /\ 3 + j # i
            BY <3>1, <1>1
          <6> QED BY <6>1, <2>2, <2>5, <2>9
        <5> QED BY <5>1, <2>0, <2>5, SameSeq
      <4> QED BY <4>2, <4>3
    <3>2. CASE i # B + 4
      <4>1. i - 3 \in 1 .. B /\ 3 + (i - 3) = i /\ 4 + B \in 1 .. B + 4 /\ 4 + B # i
        BY <3>2, <2>2, <1>1
      <4>2. c[4 + B] = xor_checksum(BD)
        BY <4>1, <2>2, <1>6 DEF BD
      <4>4. x[i - 3] \in 0 .. 255 /\ BD[i - 3] \in 0 .. 255 /\ BD[i - 3] # x[i - 3]
        <5>1. x[i - 3] = c[i] /\ BD[i - 3] = W[i]
          BY <4>1, <2>5, <2>9
        <5>2. BD[i - 3] \in 0 .. 255
          BY <4>1, <2>11
        <5> QED BY <5>1, <5>2, <2>2
      <4>5. ASSUME NEW j \in 1 .. B, j # i - 3 PROVE BD[j] = x[j]
        <5>1. 3 + j \in 1 .. B + 4 /\ 3 + j # i
          BY <4>5, <1>1, <2>2
        <5> QED BY <5>1, <2>2, <2>5, <2>9
      <4> DEFINE y == i - 3
      <4>6. y \in 1 .. Len(BD) /\ BD[y] \in 0 .. 255 /\ x[y] \in 0 .. 255 /\ BD[y] # x[y] /\ \A j \in 1 .. Len(BD) : j # y => BD[j] = x[j]
        BY <4>1, <4>4, <4>5, <2>0
      <4> HIDE DEF y
      <4>7. xor_checksum(BD) # xor_checksum(x)
        <5>1. Len(BD) = Len(x)
          BY <2>0, <2>5
        <5> QED BY <5>1, <4>6, <2>0, <2>5, ChecksumTells
      <4> QED BY <4>2, <4>7
    <3> QED BY <3>1, <3>2
  <2>7. k \in Nat /\ Len(up') = k + 4 + B'
    <3>1. k \in Nat
      BY DEF k
    <3> QED BY <3>1, <2>2, <2>4, <1>1, <1>2
  <2>8. xor_checksum(SubSeq(up', k + 4, k + 3 + B')) # up'[k + 4 + B']
    <3> DEFINE a == k + 4
               e == k + 3 + B
               z == SubSeq(up', a, e)
    <3>1. up' \in Seq(Nat)
      BY CatIs
    <3>2. a \in Nat /\ 1 <= a /\ e \in Int /\ a <= e /\ e <= Len(up') /\ e - a + 1 = B
      BY <2>7, <1>1, <1>2
    <3> HIDE DEF a, e
    <3>3. z \in Seq(Nat) /\ Len(z) = e - a + 1 /\ \A j \in 1 .. Len(z) : z[j] = up'[a + j - 1]
      BY <3>1, <3>2, PartIs
    <3> HIDE DEF z
    <3>4. z = x
      <4>1. ASSUME NEW j \in 1 .. B PROVE z[j] = x[j]
        <5>1. a + j - 1 = k + (3 + j) /\ 3 + j \in 1 .. Len(c) /\ j \in 1 .. Len(z)
          BY <3>2, <3>3, <2>2, <2>7, <1>1 DEF a
        <5>2. z[j] = up'[k + (3 + j)]
          BY <5>1, <3>3
        <5>3. up'[k + (3 + j)] = c[3 + j]
          BY <5>1, <2>4
        <5> QED BY <5>2, <5>3, <2>5
      <4>2. Len(z) = B
        BY <3>2, <3>3
      <4> QED BY <4>1, <4>2, <3>3, <2>5, SameSeq
    <3>5. up'[k + 4 + B'] = c[4 + B]
      <4>1. k + 4 + B = k + (4 + B) /\ 4 + B \in 1 .. Len(c)
        <5>1. k + 4 + B = k + (4 + B)
          BY <2>7, <1>1
        <5>2. Len(c) = B + 4
          BY <2>2
        <5>3. 4 + B \in 1 .. B + 4
          BY <1>1
        <5> QED BY <5>1, <5>2, <5>3
      <4> QED BY <4>1, <2>4, <1>2
    <3>6. SubSeq(up', k + 4, k + 3 + B') = z
      BY <1>2 DEF z, a, e
    <3> QED BY <3>4, <3>5, <3>6, <2>6
  <2>10. (\E j \in 0 .. Len(up) : /\ Len(up) = j + 4 + BlockSize
                                  /\ BlockAt(j)
                                  /\ xor_checksum(SubSeq(up, j + 4, j + 3 + BlockSize)) # up[j + 4 + BlockSize])'
    BY <2>4, <2>7, <2>8 DEF B
  <2> QED BY <2>4, <2>10 DEF Spoilt
<1> QED BY <1>7, <1>9, <1>10 DEF Outcome

\* The host reads all that is there.
LEMMA ReadIs ==
    ASSUME Types, NEW n \in Nat, ReadReturns(n), Len(down) <= n
    PROVE  Received(n) = down /\ down' = <<>>
<1>0. down \in Seq(Nat) /\ Len(down) \in Nat
  BY DEF Types
<1>1. down' = <<>>
  BY DownRest
<1> DEFINE l == Len(down)
<1>2. Min({n, l}) = l
  <2>0. l \in Nat /\ l <= n
    BY <1>0
  <2> HIDE DEF l
  <2>1. \E x \in {n, l} : \A y \in {n, l} : x <= y
    BY <2>0
  <2>2. Min({n, l}) \in {n, l} /\ \A y \in {n, l} : Min({n, l}) <= y
    BY <2>1 DEF Min
  <2> QED BY <2>0, <2>2
<1>3. SubSeq(down, 1, l) = down
  BY <1>0
<1> QED BY <1>1, <1>2, <1>3 DEF Received

\* When the host reads nothing, the phone waits for more.
LEMMA QuietIs ==
    ASSUME Types, phone = "loop", down = <<>>, NEW n \in Nat, n >= 1, ReadReturns(n)
    PROVE  up = <<>> \/ Len(up) < CommandSize(up)
<1>1. ~(Len(down) >= n)
  OBVIOUS
<1> QED BY <1>1 DEF ReadReturns, Quiet

\* It does not wait in front of a byte that is no command.
LEMMA QuietSkips ==
    ASSUME Types, phone = "loop", down = <<>>, NEW n \in Nat, n >= 1, ReadReturns(n), NEW k \in Nat, Skips(up, k)
    PROVE  k = 0
<1>1. SUFFICES ASSUME 1 <= k PROVE FALSE
  OBVIOUS
<1>2. up \in Seq(Nat)
  BY DEF Types
<1>3. up # <<>> /\ up[1] \notin Codes /\ k <= Len(up) /\ Len(up) \in Nat
  BY <1>1, <1>2, SkipTail
<1>4. CommandSize(up) = 1
  BY <1>3 DEF CommandSize, Codes, Commands
<1>5. ~(Len(up) < CommandSize(up))
  BY <1>1, <1>3, <1>4
<1> QED BY <1>3, <1>5, QuietIs

\* As long as a request is on its way, the host does not read an answer.
LEMMA CalmRead ==
    ASSUME Types, Calm, phone = "loop", host \in Waiting, ReadReturns(Wanted)
    PROVE  Idle(up) /\ Received(Wanted) = down /\ down' = <<>>
<1>0. up \in Seq(Nat) /\ Wanted \in Nat /\ Wanted >= 1 /\ Request \in Seq(Nat)
  BY RequestIs DEF Types
<1>1. CASE Idle(up) /\ Len(down) <= Wanted
  BY <1>0, <1>1, ReadIs
<1>2. CASE Behind(up, Request) /\ down = <<>>
  <2>1. PICK k \in 0 .. Len(up) : /\ Skips(up, k) /\ Len(up) = k + Len(Request)
                                  /\ \A j \in 1 .. Len(Request) : up[k + j] = Request[j]
    BY <1>2 DEF Behind
  <2>2. k = 0
    <3>1. k \in Nat
      BY <1>0
    <3> QED BY <3>1, <2>1, <1>0, <1>2, QuietSkips
  <2>3. up = Request
    <3>1. Len(up) = Len(Request) /\ \A j \in 1 .. Len(up) : up[j] = Request[j]
      BY <1>0, <2>1, <2>2
    <3> QED BY <3>1, <1>0, SameSeq
  <2>4. up # <<>> /\ ~(Len(up) < CommandSize(up))
    <3> DEFINE B == BlockSize
    <3>0. B \in Nat /\ B >= 1
      <4>1. B \in 1 .. 255
        BY BlockSizeIs
      <4> HIDE DEF B
      <4> QED BY <4>1
    <3>1. CASE host = "ack"
      <4>1. up = WriteRequest
        BY <2>3, <3>1 DEF Request
      <4>2. up[1] = CmdWrite /\ up[3] = B /\ Len(up) = B + 4
        BY <4>1, WriteRequestIs
      <4> HIDE DEF B
      <4>3. ~(Len(up) < 3)
        BY <4>2, <3>0
      <4>4. CommandSize(up) = 3 + B + 1
        BY <4>2, <4>3, CodesAre DEF CommandSize
      <4> QED BY <4>2, <4>3, <4>4, <3>0
    <3>2. CASE host = "data"
      <4>1. up = ReadRequest
        BY <2>3, <3>2 DEF Request
      <4>2. up[1] = CmdRead /\ Len(up) = 3
        BY <4>1, RequestsAre
      <4>3. CommandSize(up) = 3
        BY <4>2, CodesAre DEF CommandSize
      <4> QED BY <4>2, <4>3
    <3>3. CASE host = "pong"
      <4>1. up = <<CmdPing>>
        BY <2>3, <3>3 DEF Request
      <4>2. up[1] = CmdPing /\ Len(up) = 1
        BY <4>1, RequestsAre
      <4>3. CommandSize(up) = 1
        BY <4>2, CodesAre DEF CommandSize
      <4> QED BY <4>2, <4>3
    <3>4. CASE host = "echo"
      <4>1. up = GotoRequest
        BY <2>3, <3>4 DEF Request
      <4>2. up[1] = CmdGoto /\ Len(up) = 4
        BY <4>1, RequestsAre
      <4>3. CommandSize(up) = 3
        BY <4>2, CodesAre DEF CommandSize
      <4> QED BY <4>2, <4>3
    <3> QED BY <3>1, <3>2, <3>3, <3>4 DEF Waiting
  <2>5. FALSE
    BY <2>4, <1>0, <1>2, QuietIs
  <2> QED BY <2>5
<1> QED BY <1>1, <1>2 DEF Calm

\* Safe, when the host has sent a request that is not a block
LEMMA SafeAgain ==
    ASSUME Types, phone = "loop", PhoneWaits,
           NEW D, D \subseteq DOMAIN Payload, Promised' \subseteq D,
           NEW g, g => ~LeftToDo("write")', Good(up', ram, D, g), faults' = 0 => Calm'
    PROVE  Safe'
<1>1. phone' = "loop" /\ ram' = ram
  BY DEF PhoneWaits
<1> DEFINE h == ~LeftToDo("write")'
<1>2. g => h
  OBVIOUS
<1> HIDE DEF h
<1>3. Good(up', ram', D, h)
  BY <1>1, <1>2 DEF Good
<1>4. (\E F \in SUBSET DOMAIN Payload : Promised \subseteq F /\ Good(up, ram, F, ~LeftToDo("write")))'
  BY <1>3 DEF h
<1> QED BY <1>1, <1>4 DEF Safe

\* What the host has to do does not change while it waits.
LEMMA TaskSame ==
    ASSUME UNCHANGED <<todo, offset>>
    PROVE  /\ Task' = Task /\ BlockSize' = BlockSize /\ ReadRequest' = ReadRequest
           /\ LeftToDo("write")' <=> LeftToDo("write")
           /\ Task # "write" => Promised' = Promised
           /\ \A n : Ahead(n)' <=> Ahead(n)
<1>1. Task' = Task /\ BlockSize' = BlockSize
  BY DEF Task, BlockSize
<1>2. ReadRequest' = ReadRequest
  BY <1>1 DEF ReadRequest
<1>3. /\ LeftToDo("write")' <=> LeftToDo("write")
      /\ LeftToDo("goto")' <=> LeftToDo("goto")
  BY DEF LeftToDo
<1>4. Task # "write" => Promised' = Promised
  BY <1>1, <1>3 DEF Promised
<1>5. \A n : Ahead(n)' <=> Ahead(n)
  BY <1>3 DEF Ahead
<1> QED BY <1>1, <1>2, <1>3, <1>4, <1>5

\* A request to read is sent behind s.
LEMMA ReadSent ==
    ASSUME Types, Task = "read", phone = "loop", PhoneWaits, UNCHANGED <<todo, offset, fast>>, fast.host = fast.phone,
           host' = "data", NEW s \in Seq(Nat), NEW c \in Seq(Nat), up' = s \o c,
           c = ReadRequest, faults' = 0 => faults = 0,
           NEW D, D \subseteq DOMAIN Payload, Promised \subseteq D, Good(s, ram, D, ~LeftToDo("write")),
           faults = 0 => Idle(s) /\ down' = <<>>
    PROVE  Safe'
<1> DEFINE x == Base + offset
           y == BlockSize
           g == ~LeftToDo("write")
<1>0. x \in Nat /\ y \in 1 .. 255 /\ y \in Nat
  <2>1. offset \in Nat /\ y \in 1 .. 255
    BY BlockSizeIs
  <2>2. x \in Nat
    BY <2>1, CodesAre
  <2> HIDE DEF y
  <2> QED BY <2>1, <2>2
<1>1. ReadRequest = <<CmdRead, x, y>> /\ ReadRequest \in Seq(Nat)
  BY RequestsAre DEF ReadRequest
<1>2. /\ Task' = Task /\ ReadRequest' = ReadRequest /\ Promised' = Promised
      /\ LeftToDo("write")' <=> LeftToDo("write")
      /\ phone' = "loop" /\ ram' = ram
  BY TaskSame DEF PhoneWaits
<1>3. ASSUME Good(up', ram, D, g), faults' = 0 => Calm' PROVE Safe'
  <2>1. g => ~LeftToDo("write")'
    BY <1>2
  <2>2. Promised' \subseteq D
    BY <1>2
  <2> HIDE DEF g
  <2> QED BY <1>3, <2>1, <2>2, SafeAgain
<1> HIDE DEF x, y
<1>4. OneCommand(c) /\ ~WriteAt(c, 0) /\ ~GotoAt(c, 0)
  <2>1. CmdRead # CmdGoto
    BY CodesAre
  <2> QED BY <2>1, <1>0, <1>1, TripleIs
<1>5. Good(up', ram, D, g)
  <2> HIDE DEF g
  <2> QED BY <1>4, GoodOther DEF g
<1>6. ASSUME faults' = 0 PROVE Calm'
  <2>1. Idle(s) /\ down' = <<>>
    BY <1>6
  <2>2. Behind(s \o c, c)
    BY <2>1, IdleCat
  <2>3. Request' = c
    BY <1>2 DEF Request
  <2>4. Behind(up, Request)'
    BY <2>2, <2>3, ZenonT(60) DEF Behind, Skips
  <2> QED BY <2>1, <2>4 DEF Calm, Waiting
<1> QED BY <1>3, <1>5, <1>6

\* The ping between two attempts
LEMMA PingSent ==
    ASSUME Types, Task = "read", phone = "loop", PhoneWaits, UNCHANGED <<todo, offset>>,
           host' = "pong", NEW c \in Seq(Nat), up' = up \o c, Outcome(<<CmdPing>>, 0, 0, Codes, c),
           NEW D, D \subseteq DOMAIN Payload, Promised \subseteq D, Good(up, ram, D, ~LeftToDo("write")),
           faults = 0 => Idle(up) /\ down' = <<>>
    PROVE  Safe'
<1> DEFINE g == ~LeftToDo("write")
           m == <<CmdPing>>
<1>0. up \in Seq(Nat) /\ m \in Seq(Nat) /\ Len(m) = 1 /\ m[1] = 65
  BY CodesAre DEF Types
<1>2. Promised' = Promised /\ (LeftToDo("write")' <=> LeftToDo("write"))
  BY TaskSame
<1>3. ASSUME Good(up', ram, D, g), faults' = 0 => Calm' PROVE Safe'
  <2>1. g => ~LeftToDo("write")'
    BY <1>2
  <2>2. Promised' \subseteq D
    BY <1>2
  <2> HIDE DEF g
  <2> QED BY <1>3, <2>1, <2>2, SafeAgain
<1>4. ASSUME NEW b \in Nat, b = 65 \/ b \notin Codes, c = <<b>> PROVE Good(up', ram, D, g)
  <2>1. b \notin {CmdSpeed, CmdRead, CmdWrite, CmdGoto} /\ b \notin OtherCommands
    BY <1>4, CodesAre
  <2>2. OneCommand(c) /\ ~WriteAt(c, 0) /\ ~GotoAt(c, 0)
    BY <1>4, <2>1, SingleIs
  <2> HIDE DEF g
  <2> QED BY <2>2, <1>0, GoodOther DEF g
<1>5. CASE c = m /\ faults' = faults
  <2>1. Good(up', ram, D, g)
    BY <1>4, <1>5, CodesAre
  <2>3. ASSUME faults' = 0 PROVE Calm'
    <3>1. Idle(up) /\ down' = <<>>
      BY <2>3, <1>5
    <3>2. Behind(up \o m, m)
      BY <3>1, <1>0, IdleCat
    <3>3. Request' = m
      BY DEF Request
    <3>4. Behind(up, Request)'
      BY <3>2, <3>3, <1>5 DEF Behind, Skips
    <3> QED BY <3>1, <3>4 DEF Calm, Waiting
  <2> QED BY <2>1, <2>3, <1>3
<1>6. CASE faults' = 1 /\ \E i \in 0 + 1 .. Len(m) : DamagedAt(m, c, i) /\ c[i] \notin Codes
  <2>1. PICK i \in 1 .. 1 : DamagedAt(m, c, i) /\ c[i] \notin Codes
    BY <1>0, <1>6
  <2>2. Len(c) = 1 /\ c[1] \in Nat /\ c[1] \notin Codes
    BY <2>1, <1>0 DEF DamagedAt
  <2>4. c = <<c[1]>>
    BY <2>2
  <2>5. Good(up', ram, D, g)
    BY <2>2, <2>4, <1>4
  <2> QED BY <2>5, <1>3, <1>6
<1>7. CASE faults' = 1 /\ \E i \in 0 + 1 .. Len(m) : LostAt(m, c, i)
  <2>1. Len(c) = 0
    BY <1>0, <1>7 DEF LostAt
  <2>2. c = <<>>
    BY <2>1
  <2>3. up' = up
    BY <2>2, <1>0
  <2> QED BY <2>3, <1>3, <1>7
<1> QED BY <1>5, <1>6, <1>7 DEF Outcome

\* A request to start the program is sent behind s.
LEMMA GotoSent ==
    ASSUME Types, Task = "goto", phone = "loop", PhoneWaits, UNCHANGED <<todo, offset>>,
           ~LeftToDo("write"), host' = "echo", NEW s \in Seq(Nat), NEW c \in Seq(Nat), up' = s \o c,
           Outcome(GotoRequest, 1, 4, Codes, c),
           NEW D, D = DOMAIN Payload, Good(s, ram, D, TRUE),
           faults = 0 => Idle(s) /\ down' = <<>>
    PROVE  Safe'
<1> DEFINE m == GotoRequest
           n == 4
<1>0. m \in Seq(Nat) /\ Len(m) = 4 /\ m[1] = CmdGoto /\ m[2] = 1 /\ m[3] = 1 /\ m[4] = 1
  <2>1. m \in Seq(Nat) /\ Len(m) = 4 /\ m[1] = CmdGoto /\ \A i \in 2 .. 4 : m[i] = Base
    BY RequestsAre
  <2>2. 2 \in 2 .. 4 /\ 3 \in 2 .. 4 /\ 4 \in 2 .. 4
    OBVIOUS
  <2> QED BY <2>1, <2>2, CodesAre
<1>1. ~LeftToDo("write")' /\ Promised' \subseteq D
  <2>1. ~LeftToDo("write")' /\ Promised' = Promised
    BY TaskSame
  <2>2. Promised \subseteq DOMAIN Payload
    BY DEF Promised
  <2> QED BY <2>1, <2>2
<1>2. ASSUME Good(up', ram, D, TRUE), faults' = 0 => Calm' PROVE Safe'
  <2> DEFINE g == TRUE
  <2>1. g => ~LeftToDo("write")'
    BY <1>1
  <2>2. Good(up', ram, D, g)
    BY <1>2
  <2> HIDE DEF g
  <2> QED BY <2>1, <2>2, <1>1, <1>2, SafeAgain
<1>3. 1 \notin Codes
  BY CodesAre
<1> HIDE DEF m
<1>4. /\ Len(c) = 4 /\ c[1] = CmdGoto
      /\ c[2] \notin Codes /\ c[3] \notin Codes /\ c[4] \notin Codes
      /\ c[2] = c[3] => c[2] = 1
      /\ faults' = 0 => faults = 0 /\ c = m
  <2>1. CASE c = m /\ faults' = faults
    BY <2>1, <1>0, <1>3
  <2>2. CASE faults' = 1 /\ \E i \in 1 + 1 .. Len(m) : DamagedAt(m, c, i) /\ c[i] \notin Codes
    <3>1. PICK i \in 2 .. 4 : DamagedAt(m, c, i) /\ c[i] \notin Codes
      BY <2>2, <1>0
    <3>2. Len(c) = 4 /\ c[i] # m[i] /\ c[i] \notin Codes /\ \A j \in 1 .. 4 : j # i => c[j] = m[j]
      BY <3>1, <1>0 DEF DamagedAt
    <3>3. c[1] = CmdGoto
      BY <3>2, <1>0
    <3>4. CASE i = 2
      BY <3>2, <3>3, <3>4, <2>2, <1>0, <1>3
    <3>5. CASE i = 3
      BY <3>2, <3>3, <3>5, <2>2, <1>0, <1>3
    <3>6. CASE i = 4
      BY <3>2, <3>3, <3>6, <2>2, <1>0, <1>3
    <3> QED BY <3>4, <3>5, <3>6
  <2>3. ~\E i \in 4 + 1 .. Len(m) : LostAt(m, c, i)
    BY <1>0
  <2> QED BY <2>1, <2>2, <2>3 DEF Outcome, m
<1> DEFINE x == c[2]
           y == c[3]
           z == c[4]
           h == <<CmdGoto, x, y>>
<1>5. x \notin Codes /\ y \notin Codes /\ z \notin Codes /\ (x = y => x = 1) /\ x \in Nat /\ y \in Nat /\ z \in Nat
  <2>1. c[2] \in Nat /\ c[3] \in Nat /\ c[4] \in Nat
    <3>1. Len(c) = 4
      BY <1>4
    <3>2. 2 \in 1 .. 4 /\ 3 \in 1 .. 4 /\ 4 \in 1 .. 4
      OBVIOUS
    <3> QED BY <3>1, <3>2, ElementIs, Zenon
  <2> QED BY <2>1, <1>4, Zenon
<1>6. c = <<CmdGoto, x, y, z>>
  BY <1>4
<1> HIDE DEF x, y, z
<1>7. h \in Seq(Nat) /\ <<z>> \in Seq(Nat) /\ c = h \o <<z>>
  BY <1>5, <1>6, CodesAre
<1>8. s \o h \in Seq(Nat) /\ Good(s \o h, ram, D, TRUE)
  <2>1. CASE x = y
    <3>1. h = <<CmdGoto, Base, Base>>
      BY <2>1, <1>5, CodesAre
    <3> QED BY <3>1, GoodGoto
  <2>2. CASE x # y
    <3>1. OneCommand(h) /\ ~WriteAt(h, 0) /\ ~GotoAt(h, 0)
      BY <2>2, <1>5, TripleIs
    <3> QED BY <3>1, GoodOther
  <2> QED BY <2>1, <2>2
<1>9. OneCommand(<<z>>) /\ ~WriteAt(<<z>>, 0) /\ ~GotoAt(<<z>>, 0)
  <2>1. z \notin {CmdSpeed, CmdRead, CmdWrite, CmdGoto} /\ z \notin OtherCommands
    BY <1>5 DEF Codes, Commands
  <2> QED BY <2>1, <1>5, SingleIs
<1> HIDE DEF h
<1>10. up' = (s \o h) \o <<z>>
  BY <1>7, CatAssoc
<1>11. Good(up', ram, D, TRUE)
  BY <1>8, <1>9, <1>10, GoodOther
<1>12. ASSUME faults' = 0 PROVE Calm'
  <2>1. Idle(s) /\ down' = <<>> /\ c = m
    BY <1>4, <1>12
  <2>2. Behind(s \o m, m)
    BY <2>1, <1>0, IdleCat
  <2>3. Request' = m
    BY DEF Request, m, GotoRequest
  <2>4. Behind(up, Request)'
    BY <2>1, <2>2, <2>3 DEF Behind, Skips
  <2> QED BY <2>1, <2>4 DEF Calm, Waiting
<1> QED BY <1>2, <1>11, <1>12

\* The first task is done.
LEMMA TaskEnds ==
    ASSUME Types, todo # <<>>, todo' = Tail(todo)
    PROVE  /\ Len(todo) \in Nat /\ Len(todo) >= 1 /\ Task = todo[1]
           /\ Len(todo') = Len(todo) - 1
           /\ \A j \in 1 .. Len(todo) - 1 : todo'[j] = todo[j + 1]
           /\ todo' # <<>> => Task' = todo'[1] /\ Len(todo) >= 2
           /\ todo' = <<>> => Task' = "none" /\ Len(todo) = 1
           /\ LeftToDo("write")' => LeftToDo("write")
           /\ LeftToDo("goto")' => LeftToDo("goto")
           /\ LeftToDo("write") /\ Task # "write" => LeftToDo("write")'
           /\ LeftToDo("goto") /\ Task # "goto" => LeftToDo("goto")'
<1> DEFINE S == {"ping", "speed", "read", "write", "goto"}
           t == Tail(todo)
           n == Len(todo)
<1>0. todo \in Seq(S)
  BY DEF Types
<1> HIDE DEF S
<1>1. n \in Nat /\ n >= 1 /\ Head(todo) = todo[1]
  BY <1>0
<1>2. t \in Seq(S) /\ Len(t) = n - 1 /\ \A j \in 1 .. n - 1 : t[j] = todo[j + 1]
  BY <1>0
<1>3. todo' = t
  OBVIOUS
<1> HIDE DEF t, n
<1>4. Task = todo[1]
  BY <1>1 DEF Task
<1>5. todo' # <<>> => Task' = todo'[1] /\ n >= 2
  <2>1. ASSUME t # <<>> PROVE Head(t) = t[1] /\ Len(t) >= 1
    BY <2>1, <1>2
  <2> QED BY <2>1, <1>1, <1>2, <1>3 DEF Task
<1>6. todo' = <<>> => Task' = "none" /\ n = 1
  <2>1. ASSUME t = <<>> PROVE Len(t) = 0
    BY <2>1
  <2> QED BY <2>1, <1>1, <1>2, <1>3 DEF Task
<1>7. ASSUME NEW j \in 1 .. Len(todo') PROVE \E i \in 1 .. n : todo'[j] = todo[i]
  <2>1. j \in 1 .. n - 1 /\ j + 1 \in 1 .. n
    BY <1>1, <1>2, <1>3
  <2> QED BY <2>1, <1>2, <1>3
<1>8. ASSUME NEW i \in 1 .. n, todo[i] # Task PROVE \E j \in 1 .. Len(todo') : todo'[j] = todo[i]
  <2>1. i # 1
    BY <1>4, <1>8
  <2>2. i - 1 \in 1 .. n - 1 /\ i - 1 + 1 = i
    BY <2>1, <1>1
  <2>3. i - 1 \in 1 .. Len(todo')
    BY <2>2, <1>2, <1>3
  <2>4. todo'[i - 1] = todo[i]
    BY <2>2, <1>2, <1>3
  <2> QED BY <2>3, <2>4
<1>9. /\ LeftToDo("write")' => LeftToDo("write")
      /\ LeftToDo("goto")' => LeftToDo("goto")
  BY <1>7 DEF LeftToDo, n
<1>10. /\ LeftToDo("write") /\ Task # "write" => LeftToDo("write")'
       /\ LeftToDo("goto") /\ Task # "goto" => LeftToDo("goto")'
  <2>1. ASSUME LeftToDo("write"), Task # "write" PROVE LeftToDo("write")'
    <3>1. PICK i \in 1 .. n : todo[i] = "write"
      BY <2>1 DEF LeftToDo, n
    <3> QED BY <3>1, <2>1, <1>8 DEF LeftToDo
  <2>2. ASSUME LeftToDo("goto"), Task # "goto" PROVE LeftToDo("goto")'
    <3>1. PICK i \in 1 .. n : todo[i] = "goto"
      BY <2>2 DEF LeftToDo, n
    <3> QED BY <3>1, <2>2, <1>8 DEF LeftToDo
  <2> QED BY <2>1, <2>2
<1>11. Len(todo') = n - 1 /\ \A j \in 1 .. n - 1 : todo'[j] = todo[j + 1]
  BY <1>2, <1>3
<1> QED BY <1>1, <1>4, <1>5, <1>6, <1>9, <1>10, <1>11 DEF n

\* A task that goes on or is done promises nothing new.
LEMMA AdvanceKeeps ==
    ASSUME Types, Tasks, host \in Waiting, NEW n \in Nat, Advance(n), host = "ack" => n = BlockSize
    PROVE  /\ Tasks' /\ host' \in {"send", "done"}
           /\ Promised \subseteq DOMAIN Payload /\ Promised' \subseteq Promised
           /\ LeftToDo("write")' => LeftToDo("write")
<1> DEFINE L == Len(Payload)
           B == BlockSize
<1>0. /\ todo # <<>> /\ L \in Nat /\ DOMAIN Payload = 1 .. L
      /\ B \in Nat /\ offset \in Nat /\ offset + B <= L
  <2>1. B \in 1 .. 255 /\ offset \in Nat /\ offset + B <= L
    BY BlockSizeIs
  <2>2. B \in Nat
    <3> HIDE DEF B
    <3> QED BY <2>1
  <2>3. todo # <<>>
    BY DEF Types, Waiting
  <2> QED BY <2>1, <2>2, <2>3, ConstantsFact
<1>1. /\ host' \in {"send", "done"}
      /\ offset + n < L => todo' = todo /\ offset' = offset + n /\ host' = "send"
      /\ offset + n >= L => todo' = Tail(todo) /\ offset' = 0
  BY <1>0, AdvanceIs
<1>2. Task = TaskOf[host] /\ (Task = "write" <=> host = "ack")
  BY DEF Tasks, TaskOf, Waiting
<1>3. Promised = IF Task = "write" THEN 1 .. offset + B
                 ELSE IF LeftToDo("goto") /\ ~LeftToDo("write") THEN 1 .. L ELSE {}
  BY <1>0, <1>2 DEF Promised
<1>4. Promised' = IF Task' = "write" THEN 1 .. offset' + 0
                  ELSE IF LeftToDo("goto")' /\ ~LeftToDo("write")' THEN 1 .. L ELSE {}
  BY <1>0, <1>1 DEF Promised
<1> HIDE DEF L, B
<1>5. Promised \subseteq 1 .. L
  BY <1>0, <1>3
<1>6. CASE offset + n < L
  <2>1. todo' = todo /\ offset' = offset + n /\ host' = "send" /\ Task' = Task
    BY <1>1, <1>6 DEF Task
  <2>2. /\ LeftToDo("write")' <=> LeftToDo("write")
        /\ LeftToDo("goto")' <=> LeftToDo("goto")
    BY <2>1 DEF LeftToDo
  <2>3. Promised' \subseteq Promised
    <3>1. CASE Task = "write"
      <4>1. n = B /\ offset' + 0 = offset + B
        BY <3>1, <2>1, <1>0, <1>2 DEF B
      <4> QED BY <4>1, <3>1, <2>1, <1>3, <1>4
    <3>2. CASE Task # "write"
      BY <3>2, <2>1, <2>2, <1>3, <1>4
    <3> QED BY <3>1, <3>2
  <2>4. Tasks'
    BY <2>1 DEF Tasks, Waiting
  <2> QED BY <2>2, <2>3, <2>4, <1>0, <1>1, <1>5
<1>7. CASE offset + n >= L
  <2>1. todo' = Tail(todo) /\ offset' = 0
    BY <1>1, <1>7
  <2>2. /\ Len(todo) \in Nat /\ Len(todo) >= 1
        /\ Len(todo') = Len(todo) - 1
        /\ \A j \in 1 .. Len(todo) - 1 : todo'[j] = todo[j + 1]
        /\ LeftToDo("write")' => LeftToDo("write")
        /\ LeftToDo("goto")' => LeftToDo("goto")
        /\ LeftToDo("write") /\ Task # "write" => LeftToDo("write")'
    BY <2>1, <1>0, TaskEnds
  <2>3. Promised' \subseteq Promised
    <3>1. CASE Task' = "write"
      <4>1. 1 .. offset' + 0 = {}
        BY <2>1
      <4> QED BY <4>1, <3>1, <1>4
    <3>2. CASE Task' # "write" /\ LeftToDo("goto")' /\ ~LeftToDo("write")'
      <4>1. CASE Task = "write"
        <5>1. n = B
          BY <4>1, <1>2 DEF B
        <5>2. offset + B = L
          BY <5>1, <1>0, <1>7
        <5> QED BY <5>2, <4>1, <3>2, <1>3, <1>4
      <4>2. CASE Task # "write"
        BY <4>2, <3>2, <2>2, <1>3, <1>4
      <4> QED BY <4>1, <4>2
    <3> QED BY <3>1, <3>2, <1>4
  <2>4. Tasks'
    <3> DEFINE m == Len(todo)
    <3>0. m \in Nat /\ m >= 1 /\ Len(todo') = m - 1 /\ \A j \in 1 .. m - 1 : todo'[j] = todo[j + 1]
      BY <2>2
    <3>1. \A j \in 1 .. m : todo[j] \in {"read", "write", "goto"} /\ (todo[j] = "goto" => j = m)
      BY DEF Tasks
    <3> HIDE DEF m
    <3>2. ASSUME NEW j \in 1 .. Len(todo')
          PROVE  todo'[j] \in {"read", "write", "goto"} /\ (todo'[j] = "goto" => j = Len(todo'))
      <4>1. j \in 1 .. m - 1 /\ j + 1 \in 1 .. m
        BY <3>0
      <4>2. todo'[j] = todo[j + 1]
        BY <4>1, <3>0
      <4>3. todo[j + 1] = "goto" => j = m - 1
        BY <4>1, <3>0, <3>1
      <4>4. todo[j + 1] \in {"read", "write", "goto"}
        BY <4>1, <3>1
      <4> QED BY <4>2, <4>3, <4>4, <3>0
    <3> QED BY <3>2, <1>1 DEF Tasks, Waiting
  <2> QED BY <2>2, <2>3, <2>4, <1>0, <1>1, <1>5
<1>8. n \in Int /\ offset \in Int /\ L \in Int
  BY <1>0
<1> QED BY <1>6, <1>7, <1>8

\* An answer is taken, and the state stays safe.
LEMMA SafeAdvance ==
    ASSUME Types, Tasks, Safe, fast.host = fast.phone, host \in Waiting, ReadReturns(Wanted), PhoneWaits,
           UNCHANGED <<up, faults, fast>>, NEW n \in Nat, Advance(n), host = "ack" => n = BlockSize
    PROVE  Main'
<1>1. PICK D \in SUBSET DOMAIN Payload : Promised \subseteq D /\ Good(up, ram, D, ~LeftToDo("write"))
  BY DEF Safe
<1>2. /\ Tasks' /\ host' \in {"send", "done"} /\ Promised' \subseteq Promised
      /\ LeftToDo("write")' => LeftToDo("write")
  BY AdvanceKeeps
<1>3. phone = "loop" /\ (faults = 0 => Calm)
  BY DEF Safe
<1>4. ASSUME faults' = 0 PROVE Calm'
  <2>1. Calm
    BY <1>3, <1>4
  <2>2. Idle(up) /\ down' = <<>>
    BY <2>1, <1>3, CalmRead
  <2>3. Idle(up)'
    BY <2>2 DEF Idle, Skips
  <2> QED BY <2>2, <2>3, <1>2 DEF Calm, Waiting
<1> DEFINE g == ~LeftToDo("write")
<1>5. g => ~LeftToDo("write")'
  BY <1>2
<1>6. Good(up', ram, D, g) /\ Promised' \subseteq D
  BY <1>1, <1>2
<1> HIDE DEF g
<1>7. Safe'
  BY <1>3, <1>4, <1>5, <1>6, SafeAgain
<1> QED BY <1>2, <1>7 DEF Main

\* When the host waits for nothing any more, no more is promised than before.
LEMMA PromisedLess ==
    ASSUME Types, UNCHANGED <<todo, offset>>, host' = "exit"
    PROVE  Promised' \subseteq Promised
<1> DEFINE B == BlockSize
<1>1. B \in Nat /\ offset \in Nat
  <2>1. B \in 1 .. 255 /\ offset \in Nat
    BY BlockSizeIs
  <2> HIDE DEF B
  <2> QED BY <2>1
<1>2. CASE Task # "write"
  BY <1>2, TaskSame
<1>3. CASE Task = "write"
  <2>1. Promised' = 1 .. offset + 0
    <3>1. Task' = "write"
      BY <1>3, TaskSame
    <3> QED BY <3>1 DEF Promised
  <2>2. Promised = 1 .. offset + (IF host = "ack" THEN B ELSE 0)
    BY <1>3 DEF Promised
  <2> HIDE DEF B
  <2> QED BY <2>1, <2>2, <1>1
<1> QED BY <1>2, <1>3

\* The host gives up, and the state stays safe.
LEMMA SafeExit ==
    ASSUME Types, Tasks, Safe, fast.host = fast.phone, host \in Waiting, ReadReturns(Wanted), PhoneWaits,
           UNCHANGED <<up, faults, fast, todo, offset>>, host' = "exit"
    PROVE  Main'
<1>1. PICK D \in SUBSET DOMAIN Payload : Promised \subseteq D /\ Good(up, ram, D, ~LeftToDo("write"))
  BY DEF Safe
<1>2. Promised' \subseteq Promised
  BY PromisedLess
<1>3. phone = "loop" /\ (faults = 0 => Calm)
  BY DEF Safe
<1>4. ASSUME faults' = 0 PROVE Calm'
  <2>1. Calm
    BY <1>3, <1>4
  <2>2. Idle(up) /\ down' = <<>>
    BY <2>1, <1>3, CalmRead
  <2>3. Idle(up)'
    BY <2>2 DEF Idle, Skips
  <2> QED BY <2>2, <2>3 DEF Calm, Waiting
<1> DEFINE g == ~LeftToDo("write")
<1>5. (g => ~LeftToDo("write")') /\ Promised' \subseteq Promised
  BY <1>2, TaskSame
<1>6. Good(up', ram, D, g) /\ Promised' \subseteq D
  BY <1>1, <1>5
<1>8. Tasks'
  BY DEF Tasks, Waiting
<1> HIDE DEF g
<1>7. Safe'
  BY <1>3, <1>4, <1>5, <1>6, SafeAgain
<1> QED BY <1>7, <1>8 DEF Main

\* Tasks with the host waiting for something else
LEMMA TasksNext ==
    ASSUME Tasks, UNCHANGED <<todo, offset>>, host' \in Waiting, Task = TaskOf[host']
    PROVE  Tasks'
<1>1. Task' = Task
  BY DEF Task
<1> QED BY <1>1 DEF Tasks, Waiting

\* While the host writes
LEMMA WriteLeft ==
    ASSUME Types, Task = "write"
    PROVE  LeftToDo("write")
<1>1. todo \in Seq({"ping", "speed", "read", "write", "goto"}) /\ todo # <<>>
  BY DEF Types, Task
<1>2. 1 \in 1 .. Len(todo) /\ todo[1] = "write"
  BY <1>1 DEF Task
<1> QED BY <1>2 DEF LeftToDo

\* What has been written before is promised.
LEMMA DoneIsPromised ==
    ASSUME Types, Task = "write"
    PROVE  1 .. offset \subseteq Promised
<1>1. offset \in Nat /\ BlockSize \in Nat
  <2>1. BlockSize \in 1 .. 255 /\ offset \in Nat
    BY BlockSizeIs
  <2> QED BY <2>1
<1> QED BY <1>1 DEF Promised

\* The host sends a block, or sends it again.
LEMMA SafeBlock ==
    ASSUME Types, Guarded', Tasks, Safe, fast.host = fast.phone, PhoneWaits, UNCHANGED <<todo, offset, fast>>,
           Task = "write", host' = "ack", NEW p \in {<<>>, <<KeepAlive>>},
           SentBlock(p \o WriteRequest, Len(p) + 3), faults = 0 => Idle(up) /\ down' = <<>>
    PROVE  Main'
<1>0. up \in Seq(Nat) /\ WriteRequest \in Seq(Nat)
  BY WriteRequestIs DEF Types
<1>1. PICK D \in SUBSET DOMAIN Payload : Promised \subseteq D /\ Good(up, ram, D, ~LeftToDo("write"))
  BY DEF Safe
<1>2. phone = "loop"
  BY DEF Safe
<1>3. PICK c \in Seq(Nat) : up' = (up \o p) \o c /\ Outcome(WriteRequest, 3, 3, {}, c)
  BY <1>0, BlockBehind
<1> DEFINE s == up \o p
<1>4. s \in Seq(Nat) /\ (Idle(up) => Idle(s))
  BY <1>0, AliveIs
<1>5. Good(up, ram, D, FALSE)
  <2>1. LeftToDo("write")
    BY WriteLeft
  <2> DEFINE g == ~LeftToDo("write")
  <2>2. g = FALSE
    BY <2>1
  <2>3. Good(up, ram, D, g)
    BY <1>1
  <2> HIDE DEF g
  <2> QED BY <2>2, <2>3
<1>6. Good(s, ram, D, FALSE)
  BY <1>0, <1>5, AliveIs
<1>7. 1 .. offset \subseteq D
  BY <1>1, DoneIsPromised
<1> HIDE DEF s
<1>8. up' = s \o c
  BY <1>3 DEF s
<1>9. Safe' \/ Spoilt'
  BY <1>2, <1>3, <1>4, <1>6, <1>7, <1>8, BlockSent
<1>10. Tasks'
  BY TasksNext DEF Waiting, TaskOf
<1> QED BY <1>9, <1>10 DEF Main

\* The host asks for a block.
LEMMA SafeRead ==
    ASSUME Types, Guarded', Tasks, Safe, fast.host = fast.phone, PhoneWaits, UNCHANGED <<todo, offset, fast>>,
           Task = "read", host' = "data", NEW p \in {<<>>, <<KeepAlive>>},
           SentUp(p \o ReadRequest, Len(p) + 3, Len(p) + 3), faults = 0 => Idle(up) /\ down' = <<>>
    PROVE  Main'
<1>0. up \in Seq(Nat)
  BY DEF Types
<1>1. PICK D \in SUBSET DOMAIN Payload : Promised \subseteq D /\ Good(up, ram, D, ~LeftToDo("write"))
  BY DEF Safe
<1>2. phone = "loop"
  BY DEF Safe
<1>3. PICK c \in Seq(Nat) : up' = (up \o p) \o c /\ c = ReadRequest /\ faults' = faults
  <2> DEFINE m == ReadRequest
             d == 3
  <2>1. m \in Seq(Nat) /\ Len(m) = 3 /\ d \in Nat
    BY RequestsAre
  <2>2. SentUp(p \o m, Len(p) + d, Len(p) + d)
    OBVIOUS
  <2> HIDE DEF m, d
  <2>3. PICK c \in Seq(Nat) : up' = (up \o p) \o c /\ Outcome(m, d, d, Codes, c)
    BY <2>1, <2>2, SentBehind
  <2>4. d + 1 .. Len(m) = {}
    BY <2>1 DEF d
  <2>5. c = m /\ faults' = faults
    BY <2>3, <2>4 DEF Outcome
  <2> QED BY <2>3, <2>5 DEF m
<1> DEFINE s == up \o p
<1>4. s \in Seq(Nat) /\ (Idle(up) => Idle(s))
  BY <1>0, AliveIs
<1>5. Good(s, ram, D, ~LeftToDo("write"))
  <2> DEFINE g == ~LeftToDo("write")
  <2>1. Good(up, ram, D, g)
    BY <1>1
  <2> HIDE DEF g
  <2>2. Good(up \o p, ram, D, g)
    BY <2>1, <1>0, AliveIs
  <2> QED BY <2>2 DEF g
<1> HIDE DEF s
<1>6. up' = s \o c
  BY <1>3 DEF s
<1>7. Safe'
  BY <1>1, <1>2, <1>3, <1>4, <1>5, <1>6, ReadSent
<1>8. Tasks'
  BY TasksNext DEF Waiting, TaskOf
<1> QED BY <1>7, <1>8 DEF Main

\* The host asks for the program to be started.
LEMMA SafeGoto ==
    ASSUME Types, Guarded', Tasks, Safe, fast.host = fast.phone, PhoneWaits, UNCHANGED <<todo, offset, fast>>,
           Task = "goto", host' = "echo", NEW p \in {<<>>, <<KeepAlive>>},
           SentUp(p \o GotoRequest, Len(p) + 1, Len(p) + 4), faults = 0 => Idle(up) /\ down' = <<>>
    PROVE  Main'
<1>0. up \in Seq(Nat) /\ GotoRequest \in Seq(Nat)
  BY RequestsAre DEF Types
<1>1. PICK D \in SUBSET DOMAIN Payload : Promised \subseteq D /\ Good(up, ram, D, ~LeftToDo("write"))
  BY DEF Safe
<1>2. phone = "loop"
  BY DEF Safe
<1>3. PICK c \in Seq(Nat) : up' = (up \o p) \o c /\ Outcome(GotoRequest, 1, 4, Codes, c)
  BY <1>0, SentBehind
<1> DEFINE s == up \o p
<1>4. s \in Seq(Nat) /\ (Idle(up) => Idle(s))
  BY <1>0, AliveIs
<1>5. LeftToDo("goto") /\ ~LeftToDo("write")
  <2>1. todo \in Seq({"ping", "speed", "read", "write", "goto"}) /\ todo # <<>>
    BY DEF Types, Task
  <2>2. Len(todo) \in Nat /\ Len(todo) >= 1 /\ todo[1] = "goto"
    BY <2>1 DEF Task
  <2> DEFINE n == Len(todo)
  <2>3. n \in Nat /\ n >= 1 /\ \A j \in 1 .. n : todo[j] = "goto" => j = n
    BY <2>2 DEF Tasks
  <2>4. n = 1
    <3> HIDE DEF n
    <3>1. 1 \in 1 .. n
      BY <2>3
    <3> QED BY <3>1, <2>2, <2>3
  <2> QED BY <2>2, <2>4 DEF LeftToDo
<1>6. Good(up, ram, D, TRUE) /\ D = DOMAIN Payload
  <2> DEFINE g == ~LeftToDo("write")
  <2>1. Promised = DOMAIN Payload
    BY <1>5 DEF Promised
  <2>2. Good(up, ram, D, g) /\ g
    BY <1>1, <1>5
  <2>3. Good(up, ram, D, TRUE)
    <3> HIDE DEF g
    <3> QED BY <2>2 DEF Good
  <2> QED BY <2>1, <2>3, <1>1
<1>7. Good(s, ram, D, TRUE)
  BY <1>0, <1>6, AliveIs
<1> HIDE DEF s
<1>8. up' = s \o c
  BY <1>3 DEF s
<1>9. Safe'
  BY <1>2, <1>3, <1>4, <1>5, <1>6, <1>7, <1>8, GotoSent
<1>10. Tasks'
  BY TasksNext DEF Waiting, TaskOf
<1> QED BY <1>9, <1>10 DEF Main

\* The tasks the host can be at
LEMMA TasksHead ==
    ASSUME Types, Tasks, host \notin {"done", "exit"}
    PROVE  todo # <<>> /\ Task \in {"read", "write", "goto"}
<1>1. todo \in Seq({"ping", "speed", "read", "write", "goto"}) /\ todo # <<>>
  BY DEF Types
<1>2. 1 \in 1 .. Len(todo) /\ Head(todo) = todo[1]
  BY <1>1
<1>3. todo[1] \in {"read", "write", "goto"}
  BY <1>2 DEF Tasks
<1> QED BY <1>1, <1>2, <1>3 DEF Task

\* The host does not wait until the phone has received the block, and sends it again behind the first one.
LEMMA SafeLate ==
    ASSUME Types, Guarded', AckLate, Tasks, Safe, fast.host = fast.phone
    PROVE  Main'
<1> DEFINE p == <<KeepAlive>>
           m == p \o WriteRequest
<1>0. /\ host = "ack" /\ PhoneWaits /\ UNCHANGED <<fast, todo, offset>> /\ faults' = faults + 1
      /\ \/ host' = "exit" /\ UNCHANGED up
         \/ host' = "ack" /\ Arrives(up, up', m)
  BY DEF AckLate
<1>1. faults' # 0
  <2>1. faults \in Nat
    BY ConstantsFact DEF Types
  <2> QED BY <2>1, <1>0
<1>2. Task = "write" /\ phone = "loop" /\ up \in Seq(Nat) /\ WriteRequest \in Seq(Nat)
  BY <1>0, WriteRequestIs DEF Tasks, TaskOf, Waiting, Safe, Types
<1>3. PICK D \in SUBSET DOMAIN Payload : Promised \subseteq D /\ Good(up, ram, D, ~LeftToDo("write"))
  BY DEF Safe
<1> HIDE DEF m
<1>4. CASE host' = "exit" /\ UNCHANGED up
  <2> DEFINE g == ~LeftToDo("write")
  <2>1. (g => ~LeftToDo("write")') /\ Promised' \subseteq D
    BY <1>0, <1>3, <1>4, TaskSame, PromisedLess
  <2>2. Good(up', ram, D, g)
    BY <1>3, <1>4
  <2> HIDE DEF g
  <2>3. Safe'
    BY <2>1, <2>2, <1>0, <1>1, <1>2, SafeAgain
  <2>4. Tasks'
    BY <1>0, <1>4 DEF Tasks, Waiting
  <2> QED BY <2>3, <2>4, <1>0 DEF Main
<1>5. CASE host' = "ack" /\ Arrives(up, up', m)
  <2>1. up' = (up \o p) \o WriteRequest /\ up \o p \in Seq(Nat)
    <3>1. p \in Seq(Nat) /\ up \o p \in Seq(Nat)
      BY <1>2, AliveIs
    <3> HIDE DEF p
    <3>2. m \in Seq(Nat) /\ up \o m = (up \o p) \o WriteRequest
      BY <3>1, <1>2, CatIs, CatAssoc, SMTT(30) DEF m
    <3>3. up' = up \o m
      BY <3>2, <1>2, <1>5, ArrivesIs
    <3> QED BY <3>1, <3>2, <3>3
  <2>2. Good(up, ram, D, FALSE)
    <3>1. LeftToDo("write")
      BY <1>2, WriteLeft
    <3> DEFINE g == ~LeftToDo("write")
    <3>2. g = FALSE /\ Good(up, ram, D, g)
      BY <3>1, <1>3
    <3> HIDE DEF g
    <3> QED BY <3>2
  <2>3. Good(up \o p, ram, D, FALSE)
    BY <2>2, <1>2, AliveIs
  <2>4. 1 .. offset \subseteq D
    BY <1>2, <1>3, DoneIsPromised
  <2> DEFINE s == up \o p
  <2> HIDE DEF s, p
  <2>5. PICK E \in SUBSET DOMAIN Payload :
            1 .. offset + BlockSize \subseteq E /\ Good(s \o WriteRequest, ram, E, FALSE)
    BY <2>1, <2>3, <2>4, BlockFollows DEF s
  <2>6. Promised' \subseteq E
    <3>1. Task' = "write" /\ BlockSize' = BlockSize /\ offset' = offset
      BY <1>0, <1>2, TaskSame
    <3>2. Promised' = 1 .. offset + BlockSize
      BY <3>1, <1>5 DEF Promised
    <3> QED BY <3>2, <2>5
  <2>7. Safe'
    <3> DEFINE g == FALSE
    <3>1. g => ~LeftToDo("write")'
      OBVIOUS
    <3>2. Good(up', ram, E, g)
      BY <2>1, <2>5 DEF s
    <3> HIDE DEF g
    <3> QED BY <3>1, <3>2, <2>6, <1>0, <1>1, <1>2, SafeAgain
  <2>8. Tasks'
    BY <1>0, <1>2, <1>5, TasksNext DEF Waiting, TaskOf
  <2> QED BY <2>7, <2>8, <1>0 DEF Main
<1> QED BY <1>0, <1>4, <1>5

\* The host in a state that is safe
LEMMA SafeHost ==
    ASSUME Types, Guarded', Host, Tasks, Safe, fast.host = fast.phone
    PROVE  Main'
<1>0. up \in Seq(Nat) /\ phone = "loop" /\ (faults = 0 => Calm)
  BY DEF Types, Safe
<1>1. host \notin {"done", "exit"} => todo # <<>> /\ Task \in {"read", "write", "goto"}
  BY TasksHead
<1>2. host \in Waiting \cup {"send", "done", "exit"} /\ (host \in Waiting => Task = TaskOf[host])
  BY DEF Tasks
<1>3. ASSUME faults = 0, host = "send", down' = down PROVE Idle(up) /\ down' = <<>>
  BY <1>0, <1>3 DEF Calm, Waiting
<1>4. ASSUME faults = 0, host \in Waiting, ReadReturns(Wanted) PROVE Idle(up) /\ down' = <<>>
  BY <1>0, <1>4, CalmRead
<1>5. BlockSize \in Nat /\ Len(Payload) \in Nat
  <2>1. BlockSize \in 1 .. 255
    BY BlockSizeIs
  <2> QED BY <2>1, ConstantsFact
<1>6. Alive \in {<<>>, <<KeepAlive>>}
  BY RequestsAre
<1>7. CASE SendBlock
  <2>1. /\ host = "send" /\ Task = "write" /\ host' = "ack" /\ PhoneWaits /\ UNCHANGED <<down, fast, todo, offset>>
        /\ SentBlock(Alive \o WriteRequest, Len(Alive) + 3)
    BY <1>7 DEF SendBlock
  <2>2. faults = 0 => Idle(up) /\ down' = <<>>
    BY <2>1, <1>3
  <2> QED BY <2>1, <2>2, <1>6, SafeBlock
<1>8. CASE SendRead
  <2>1. /\ host = "send" /\ Task = "read" /\ host' = "data" /\ PhoneWaits /\ UNCHANGED <<down, fast, todo, offset>>
        /\ SentUp(Alive \o ReadRequest, Len(Alive) + 3, Len(Alive) + 3)
    BY <1>8 DEF SendRead
  <2>2. faults = 0 => Idle(up) /\ down' = <<>>
    BY <2>1, <1>3
  <2> QED BY <2>1, <2>2, <1>6, SafeRead
<1>9. CASE SendGoto
  <2>1. /\ host = "send" /\ Task = "goto" /\ host' = "echo" /\ PhoneWaits /\ UNCHANGED <<down, fast, todo, offset>>
        /\ SentUp(GotoRequest, 1, 4)
    BY <1>9 DEF SendGoto
  <2>2. faults = 0 => Idle(up) /\ down' = <<>>
    BY <2>1, <1>3
  <2> DEFINE p == <<>>
  <2>3. p \o GotoRequest = GotoRequest /\ Len(p) + 1 = 1 /\ Len(p) + 4 = 4
    BY RequestsAre
  <2>4. p \in {<<>>, <<KeepAlive>>}
    OBVIOUS
  <2> HIDE DEF p
  <2>5. SentUp(p \o GotoRequest, Len(p) + 1, Len(p) + 4)
    BY <2>1, <2>3
  <2> QED BY <2>1, <2>2, <2>4, <2>5, SafeGoto
<1>10. CASE PongRead
  <2>1. host = "pong" /\ PhoneWaits /\ UNCHANGED fast /\ ReadReturns(1)
    BY <1>10 DEF PongRead
  <2>2. host \in Waiting /\ Wanted = 1 /\ Task = "read"
    BY <2>1, <1>2 DEF Waiting, Wanted, TaskOf
  <2>3. \/ SentUp(ReadRequest, 3, 3) /\ host' = "data" /\ UNCHANGED <<todo, offset>>
        \/ host' = "exit" /\ UNCHANGED <<up, faults, todo, offset>>
    BY <2>2, <1>10 DEF PongRead, Exit
  <2>4. CASE SentUp(ReadRequest, 3, 3) /\ host' = "data" /\ UNCHANGED <<todo, offset>>
    <3>1. faults = 0 => Idle(up) /\ down' = <<>>
      BY <2>1, <2>2, <1>4
    <3> DEFINE p == <<>>
    <3>3. p \o ReadRequest = ReadRequest /\ Len(p) + 3 = 3
      BY RequestsAre
    <3>4. p \in {<<>>, <<KeepAlive>>}
      OBVIOUS
    <3> HIDE DEF p
    <3>5. SentUp(p \o ReadRequest, Len(p) + 3, Len(p) + 3)
      BY <2>4, <3>3
    <3> QED BY <2>1, <2>2, <2>4, <3>1, <3>4, <3>5, SafeRead
  <2>5. CASE host' = "exit" /\ UNCHANGED <<up, faults, todo, offset>>
    BY <2>1, <2>2, <2>5, SafeExit
  <2> QED BY <2>3, <2>4, <2>5
<1>11. CASE AckRead
  <2>1. host = "ack" /\ PhoneWaits /\ UNCHANGED fast /\ ReadReturns(2)
    BY <1>11 DEF AckRead
  <2>2. host \in Waiting /\ Wanted = 2 /\ Task = "write"
    BY <2>1, <1>2 DEF Waiting, Wanted, TaskOf
  <2>3. \/ Advance(BlockSize) /\ UNCHANGED <<up, faults>>
        \/ host' = "exit" /\ UNCHANGED <<up, faults, todo, offset>>
        \/ SentBlock(<<KeepAlive>> \o WriteRequest, 4) /\ UNCHANGED <<todo, offset, host>>
    BY <1>11 DEF AckRead, Exit
  <2>4. CASE Advance(BlockSize) /\ UNCHANGED <<up, faults>>
    BY <2>1, <2>2, <2>4, <1>5, SafeAdvance
  <2>6. CASE host' = "exit" /\ UNCHANGED <<up, faults, todo, offset>>
    BY <2>1, <2>2, <2>6, SafeExit
  <2>5. CASE SentBlock(<<KeepAlive>> \o WriteRequest, 4) /\ UNCHANGED <<todo, offset, host>>
    <3>1. faults = 0 => Idle(up) /\ down' = <<>>
      BY <2>1, <2>2, <1>4
    <3> DEFINE p == <<KeepAlive>>
    <3>3. Len(p) + 3 = 4
      OBVIOUS
    <3>4. p \in {<<>>, <<KeepAlive>>}
      OBVIOUS
    <3>5. SentBlock(p \o WriteRequest, Len(p) + 3)
      BY <2>5, <3>3
    <3> HIDE DEF p
    <3> QED BY <2>1, <2>2, <2>5, <3>1, <3>4, <3>5, SafeBlock
  <2> QED BY <2>3, <2>4, <2>5, <2>6
<1>12. CASE DataRead
  <2>1. host = "data" /\ PhoneWaits /\ UNCHANGED fast /\ ReadReturns(BlockSize + 4)
    BY <1>12 DEF DataRead
  <2>2. host \in Waiting /\ Wanted = BlockSize + 4 /\ Task = "read"
    BY <2>1, <1>2 DEF Waiting, Wanted, TaskOf
  <2>3. \/ Advance(BlockSize) /\ UNCHANGED <<up, faults>>
        \/ host' = "exit" /\ UNCHANGED <<up, faults, todo, offset>>
        \/ SentUp(<<CmdPing>>, 0, 0) /\ host' = "pong" /\ UNCHANGED <<todo, offset>>
    BY <1>12 DEF DataRead, Exit
  <2>4. CASE Advance(BlockSize) /\ UNCHANGED <<up, faults>>
    BY <2>1, <2>2, <2>4, <1>5, SafeAdvance
  <2>5. CASE host' = "exit" /\ UNCHANGED <<up, faults, todo, offset>>
    BY <2>1, <2>2, <2>5, SafeExit
  <2>6. CASE SentUp(<<CmdPing>>, 0, 0) /\ host' = "pong" /\ UNCHANGED <<todo, offset>>
    <3>1. faults = 0 => Idle(up) /\ down' = <<>>
      BY <2>1, <2>2, <1>4
    <3>2. PICK c \in Seq(Nat) : Outcome(<<CmdPing>>, 0, 0, Codes, c) /\ up' = IF fast.host = fast.phone THEN up \o c ELSE up
      BY <2>6, RequestsAre, UpSent
    <3>3. PICK D \in SUBSET DOMAIN Payload : Promised \subseteq D /\ Good(up, ram, D, ~LeftToDo("write"))
      BY DEF Safe
    <3>4. up' = up \o c
      BY <3>2
    <3>5. Safe'
      BY <2>1, <2>2, <2>6, <3>1, <3>2, <3>3, <3>4, <1>0, PingSent
    <3>6. Tasks'
      BY <2>2, <2>6, TasksNext DEF Waiting, TaskOf
    <3> QED BY <3>5, <3>6, <2>1 DEF Main
  <2> QED BY <2>3, <2>4, <2>5, <2>6
<1>13. CASE EchoRead
  <2>1. host = "echo" /\ PhoneWaits /\ UNCHANGED fast /\ ReadReturns(2)
    BY <1>13 DEF EchoRead
  <2>2. host \in Waiting /\ Wanted = 2 /\ Task = "goto"
    BY <2>1, <1>2 DEF Waiting, Wanted, TaskOf
  <2>3. \/ Advance(Len(Payload)) /\ UNCHANGED <<up, faults>>
        \/ SentUp(<<KeepAlive>> \o GotoRequest, 2, 5) /\ UNCHANGED <<todo, offset, host>>
        \/ host' = "exit" /\ UNCHANGED <<up, faults, todo, offset>>
    BY <1>13 DEF EchoRead, TaskDone
  <2>4. CASE Advance(Len(Payload)) /\ UNCHANGED <<up, faults>>
    BY <2>1, <2>2, <2>4, <1>5, SafeAdvance
  <2>5. CASE host' = "exit" /\ UNCHANGED <<up, faults, todo, offset>>
    BY <2>1, <2>2, <2>5, SafeExit
  <2>6. CASE SentUp(<<KeepAlive>> \o GotoRequest, 2, 5) /\ UNCHANGED <<todo, offset, host>>
    <3>1. faults = 0 => Idle(up) /\ down' = <<>>
      BY <2>1, <2>2, <1>4
    <3> DEFINE p == <<KeepAlive>>
    <3>3. Len(p) + 1 = 2 /\ Len(p) + 4 = 5
      OBVIOUS
    <3>4. p \in {<<>>, <<KeepAlive>>}
      OBVIOUS
    <3>5. SentUp(p \o GotoRequest, Len(p) + 1, Len(p) + 4)
      BY <2>6, <3>3
    <3> HIDE DEF p
    <3> QED BY <2>1, <2>2, <2>6, <3>1, <3>4, <3>5, SafeGoto
  <2> QED BY <2>3, <2>4, <2>5, <2>6
<1>15. CASE AckLate
  BY <1>15, SafeLate
<1>14. ~SendPing /\ ~SendSpeed /\ ~SpeedSoonRead /\ ~SendConfirm /\ ~SpeedDoneRead
  BY <1>1, <1>2 DEF SendPing, SendSpeed, SpeedSoonRead, SendConfirm, SpeedDoneRead, Waiting
<1> QED BY <1>7, <1>8, <1>9, <1>10, <1>11, <1>12, <1>13, <1>14, <1>15 DEF Host

\* A block with a byte missing ends with the keep-alive in front of the block that is sent again.
LEMMA ShortBlockEnds ==
    ASSUME Types, BlockAt(0), Len(up) = 3 + BlockSize, InRam(1 .. offset)
    PROVE  /\ up \o <<KeepAlive>> \in Seq(Nat)
           /\ Good(up \o <<KeepAlive>>, ram, 1 .. offset, FALSE)
<1> DEFINE B == BlockSize
           a == <<KeepAlive>>
           c == up \o a
           e == <<>>
<1>1. B \in Nat /\ B >= 1 /\ offset \in Nat /\ offset + B <= Len(Payload)
  <2>1. B \in 1 .. 255 /\ offset \in Nat /\ offset + B <= Len(Payload)
    BY BlockSizeIs
  <2> HIDE DEF B
  <2> QED BY <2>1
<1>2. up \in Seq(Nat) /\ a \in Seq(Nat) /\ Len(a) = 1
  BY RequestsAre DEF Types
<1>3. up[1] = CmdWrite /\ up[2] = Base + offset /\ up[3] = B
  <2>1. 0 + 1 = 1 /\ 0 + 2 = 2 /\ 0 + 3 = 3
    OBVIOUS
  <2> QED BY <2>1, Zenon DEF BlockAt
<1>4. Len(up) = 3 + B
  OBVIOUS
<1> HIDE DEF a, B
<1>5. c \in Seq(Nat) /\ Len(c) = Len(up) + Len(a) /\ \A i \in 1 .. Len(up) : c[i] = up[i]
  BY <1>2, CatIs
<1> HIDE DEF c
<1>6. Len(c) = 4 + B /\ c[1] = CmdWrite /\ c[2] = Base + offset /\ c[3] = B
  <2>1. 1 \in 1 .. Len(up) /\ 2 \in 1 .. Len(up) /\ 3 \in 1 .. Len(up)
    BY <1>1, <1>4
  <2>2. Len(c) = 4 + B
    BY <1>1, <1>2, <1>4, <1>5
  <2> QED BY <2>1, <2>2, <1>3, <1>5
<1>7. 0 + 1 = 1 /\ 0 + 2 = 2 /\ 0 + 3 = 3
  OBVIOUS
<1>8. WriteAt(c, 0)
  BY <1>1, <1>6, <1>7 DEF WriteAt
<1>9. OneCommand(c)
  <2>1. SizeAt(c, 0) = 4 + B
    BY <1>6, <1>7, CodesAre DEF SizeAt
  <2>2. 0 < Len(c) /\ 4 <= Len(c)
    BY <1>1, <1>6
  <2>3. c[1] # CmdSpeed /\ c[1] \notin OtherCommands
    BY <1>6, CodesAre
  <2> QED BY <2>1, <2>2, <2>3, <1>5, <1>6 DEF OneCommand
<1>10. ASSUME NEW i \in 1 .. offset PROVE ram[i] = Payload[i] /\ ~Covers(c, 0, i)
  <2>1. ram[i] = Payload[i]
    BY DEF InRam
  <2>2. Covers(c, 0, i) => Base + offset <= i
    BY <1>6, <1>7 DEF Covers
  <2> QED BY <2>1, <2>2, <1>1, CodesAre
<1>11. e \in Seq(Nat) /\ Idle(e) /\ e \o c = c
  BY <1>5 DEF Idle, Skips
<1>12. 1 .. offset \subseteq DOMAIN Payload
  BY <1>1, ConstantsFact
<1> HIDE DEF e
<1>13. Good(e \o c, ram, 1 .. offset, FALSE)
  BY <1>8, <1>9, <1>10, <1>11, <1>12, GoodWrong
<1> QED BY <1>5, <1>11, <1>13 DEF c, a

\* The block that was damaged is sent again, or the host gives up.
LEMMA SpoiltHost ==
    ASSUME Types, Guarded', Host, Tasks, Spoilt, fast.host = fast.phone
    PROVE  Main' \/ GivenUp'
<1> DEFINE p == <<KeepAlive>>
           B == BlockSize
<1>0. phone = "loop" /\ host = "ack" /\ faults = 1 /\ InRam(1 .. offset) /\ up \in Seq(Nat) /\ down \in Seq(Nat)
  BY DEF Spoilt, Types
<1>1. Task = "write"
  BY <1>0 DEF Tasks, TaskOf, Waiting
<1>2. AckRead
  <2>1. ~AckLate
    BY <1>0 DEF AckLate, Guarded
  <2> QED BY <2>1, <1>0 DEF Host, SendPing, SendSpeed, SendBlock, SendRead, SendGoto, PongRead, SpeedSoonRead,
                            SendConfirm, SpeedDoneRead, DataRead, EchoRead
<1>3. PhoneWaits /\ UNCHANGED fast /\ ReadReturns(2)
  BY <1>2 DEF AckRead
<1>4. B \in Nat /\ offset \in Nat /\ offset + B <= Len(Payload) /\ 1 .. offset \subseteq DOMAIN Payload
  <2>1. B \in 1 .. 255 /\ offset \in Nat /\ offset + B <= Len(Payload)
    BY BlockSizeIs
  <2> HIDE DEF B
  <2> QED BY <2>1, ConstantsFact
<1>5. p \in {<<>>, <<KeepAlive>>} /\ up \o p \in Seq(Nat)
  BY <1>0, AliveIs
<1>6. /\ Len(down) <= 2 /\ down # OK /\ Good(up \o p, ram, 1 .. offset, FALSE)
      /\ up = <<>> \/ Len(up) < CommandSize(up)
  <2>1. CASE \E k \in 0 .. Len(up) :
                /\ down = <<>>
                /\ Len(up) = k + 4 + BlockSize
                /\ BlockAt(k)
    <3>1. PICK k \in 0 .. Len(up) : down = <<>> /\ Len(up) = k + 4 + B /\ BlockAt(k)
      BY <2>1
    <3>2. k = 0
      BY <3>1, <1>0, <1>3, QuietSkips DEF BlockAt
    <3>3. up = <<>> \/ Len(up) < CommandSize(up)
      BY <3>1, <1>0, <1>3, QuietIs
    <3>4. up[1] = CmdWrite /\ up[3] = B
      <4>1. 0 + 1 = 1 /\ 0 + 3 = 3
        OBVIOUS
      <4> QED BY <3>1, <3>2, <4>1, Zenon DEF BlockAt
    <3> HIDE DEF B
    <3>5. Len(up) = 4 + B
      BY <3>1, <3>2, <1>4
    <3>6. CommandSize(up) = 4 + B
      BY <3>4, <3>5, <1>4, CodesAre DEF CommandSize
    <3> QED BY <3>3, <3>5, <3>6, <1>4, <1>0
  <2>2. CASE \E k \in 0 .. Len(up) :
                /\ down = <<>>
                /\ Len(up) = k + 3 + BlockSize
                /\ BlockAt(k)
    <3>1. PICK k \in 0 .. Len(up) : down = <<>> /\ Len(up) = k + 3 + BlockSize /\ BlockAt(k)
      BY <2>2
    <3>2. k = 0
      BY <3>1, <1>0, <1>3, QuietSkips DEF BlockAt
    <3>3. Len(up) = 3 + BlockSize /\ BlockAt(0)
      <4>1. 0 + 3 = 3
        OBVIOUS
      <4> QED BY <3>1, <3>2, <4>1
    <3>4. Good(up \o p, ram, 1 .. offset, FALSE)
      BY <3>3, <1>0, ShortBlockEnds
    <3>5. Len(down) <= 2 /\ down # OK
      BY <3>1, AnswersAre
    <3>6. up = <<>> \/ Len(up) < CommandSize(up)
      BY <3>1, <1>0, <1>3, QuietIs
    <3> QED BY <3>4, <3>5, <3>6
  <2>3. CASE up = <<>> /\ down = ChecksumError
    <3>1. Idle(up)
      BY <2>3 DEF Idle, Skips
    <3>2. Good(up, ram, 1 .. offset, FALSE)
      BY <3>1, <1>0, GoodIdle DEF InRam
    <3>3. Good(up \o p, ram, 1 .. offset, FALSE)
      BY <3>2, <1>0, <1>4, <1>5, AliveIs
    <3>4. Len(down) <= 2 /\ down # OK
      BY <2>3, AnswersAre
    <3> QED BY <3>3, <3>4, <2>3
  <2> QED BY <2>1, <2>2, <2>3 DEF Spoilt
<1>7. Received(2) = down
  BY <1>3, <1>6, ReadIs
<1>8. CASE Exit
  <2>1. host' = "exit" /\ up' = up /\ phone' = "loop"
    BY <1>0, <1>3, <1>8 DEF Exit, PhoneWaits
  <2>2. CASE up = <<>>
    <3>1. \A i \in 1 .. Len(up') : up'[i] # CmdGoto
      BY <2>1, <2>2
    <3> QED BY <3>1, <2>1 DEF GivenUp
  <2>3. CASE up # <<>> /\ Len(up) < CommandSize(up)
    <3>1. up' # <<>> /\ Len(up') < CommandSize(up')
      BY <2>1, <2>3
    <3>2. CommandSize(up)' = CommandSize(up')
      BY DEF CommandSize
    <3> QED BY <3>1, <3>2, <2>1 DEF GivenUp
  <2> QED BY <2>2, <2>3, <1>6
<1>9. CASE SentBlock(p \o WriteRequest, 4) /\ UNCHANGED <<todo, offset, host>>
  <2>1. Len(p) + 3 = 4
    OBVIOUS
  <2>2. SentBlock(p \o WriteRequest, Len(p) + 3)
    BY <2>1, <1>9
  <2> HIDE DEF p
  <2>3. PICK c \in Seq(Nat) : up' = (up \o p) \o c /\ Outcome(WriteRequest, 3, 3, {}, c)
    BY <2>2, <1>5, WriteRequestIs, BlockBehind
  <2> DEFINE s == up \o p
             D == 1 .. offset
  <2>4. s \in Seq(Nat) /\ up' = s \o c /\ Good(s, ram, D, FALSE) /\ D \subseteq DOMAIN Payload /\ 1 .. offset \subseteq D
    BY <1>4, <1>5, <1>6, <2>3
  <2>5. host' = "ack" /\ UNCHANGED <<todo, offset>>
    BY <1>0, <1>9
  <2> HIDE DEF s, D
  <2>6. Safe' \/ Spoilt'
    <3>1. faults = 0 => Idle(s) /\ down' = <<>>
      BY <1>0
    <3>2. Outcome(WriteRequest, 3, 3, {}, c)
      BY <2>3
    <3> QED BY <3>1, <3>2, <1>0, <1>1, <1>3, <2>4, <2>5, BlockSent
  <2>7. Tasks'
    BY <1>1, <2>5, TasksNext DEF Waiting, TaskOf
  <2> QED BY <1>3, <2>6, <2>7 DEF Main
<1>10. Exit \/ (SentBlock(p \o WriteRequest, 4) /\ UNCHANGED <<todo, offset, host>>)
  BY <1>2, <1>6, <1>7 DEF AckRead
<1> QED BY <1>8, <1>9, <1>10

\* The host gives up with nothing on the line, or nothing but bytes that are no commands.
LEMMA GivesUp ==
    ASSUME Types, host' = "exit", PhoneWaits, phone # "jumped", Idle(up), UNCHANGED up
    PROVE  GivenUp'
<1>1. \A i \in 1 .. Len(up) : up[i] # CmdGoto
  BY CodesAre DEF Idle, Skips
<1> QED BY <1>1 DEF GivenUp, PhoneWaits

\* A host that waits for a phone that has nothing to send and still has bytes to take does not go on.
LEMMA SpeedWaits ==
    ASSUME Types, phone = "speed", Len(down) = 0, ReadReturns(1)
    PROVE  up = <<>>
BY DEF ReadReturns, Quiet

\* What arrives of a single byte that is sent alone
LEMMA ByteSent ==
    ASSUME Types, Guarded', NEW x \in Nat, SentUp(<<x>>, 0, 0), fast.host = fast.phone, up = <<>>
    PROVE  /\ up' \in Seq(Nat)
           /\ \/ up' = <<x>> /\ faults' = faults
              \/ Idle(up') /\ faults = 0 /\ faults' = 1
<1> DEFINE m == <<x>>
<1>1. m \in Seq(Nat) /\ Len(m) = 1 /\ m[1] = x
  OBVIOUS
<1> HIDE DEF m
<1>2. PICK c \in Seq(Nat) : Outcome(m, 0, 0, Codes, c) /\ up' = IF fast.host = fast.phone THEN up \o c ELSE up
  BY <1>1, UpSent DEF m
<1>3. up' = c
  <2>1. up' = up \o c /\ <<>> \o c = c
    BY <1>2
  <2> QED BY <2>1
<1>4. CASE c = m /\ faults' = faults
  BY <1>3, <1>4 DEF m
<1>5. CASE faults = 0 /\ faults' = 1 /\ \E i \in 0 + 1 .. Len(m) : DamagedAt(m, c, i) /\ c[i] \notin Codes
  <2>1. Len(c) = 1 /\ c[1] \notin Codes
    <3>1. PICK i \in 0 + 1 .. Len(m) : DamagedAt(m, c, i) /\ c[i] \notin Codes
      BY <1>5
    <3>2. i = 1
      BY <1>1
    <3> QED BY <3>1, <3>2, <1>1 DEF DamagedAt
  <2>2. Idle(c)
    BY <2>1 DEF Idle, Skips
  <2> QED BY <2>2, <1>3, <1>5
<1>6. CASE faults = 0 /\ faults' = 1 /\ \E i \in 0 + 1 .. Len(m) : LostAt(m, c, i)
  <2>1. Len(c) = 0
    BY <1>1, <1>6 DEF LostAt
  <2>2. Idle(c)
    BY <2>1 DEF Idle, Skips
  <2> QED BY <2>2, <1>3, <1>6
<1> QED BY <1>2, <1>4, <1>5, <1>6 DEF Outcome

\* The main tasks begin: nothing is promised yet.
LEMMA MainStarts ==
    ASSUME Types, todo # <<>>, todo' = Tail(todo), offset' = 0, host' \in {"send", "done"}, Ahead(1),
           Task \notin {"write", "goto"}, phone' = "loop", fast'.host = fast'.phone,
           up' \in Seq(Nat), Idle(up'), down' = <<>>
    PROVE  Main'
<1> DEFINE n == Len(todo)
<1>1. /\ n \in Nat /\ n >= 1 /\ Len(todo') = n - 1
      /\ \A j \in 1 .. n - 1 : todo'[j] = todo[j + 1]
      /\ LeftToDo("goto")' => LeftToDo("goto")
      /\ LeftToDo("write") => LeftToDo("write")'
  BY TaskEnds
<1>2. /\ \A j \in 1 .. n : j > 1 => todo[j] \in {"read", "write", "goto"} /\ (todo[j] = "goto" => j = n)
      /\ LeftToDo("goto") => LeftToDo("write")
  BY DEF Ahead
<1> HIDE DEF n
<1>3. Tasks'
  <2>1. ASSUME NEW j \in 1 .. Len(todo')
        PROVE  todo'[j] \in {"read", "write", "goto"} /\ (todo'[j] = "goto" => j = Len(todo'))
    <3>1. j \in 1 .. n - 1 /\ j + 1 \in 1 .. n /\ j + 1 > 1 /\ (j + 1 = n => j = n - 1)
      BY <1>1
    <3>2. todo'[j] = todo[j + 1]
      BY <3>1, <1>1
    <3>3. todo[j + 1] \in {"read", "write", "goto"} /\ (todo[j + 1] = "goto" => j + 1 = n)
      BY <3>1, <1>2
    <3> QED BY <3>1, <3>2, <3>3, <1>1
  <2> QED BY <2>1 DEF Tasks, Waiting
<1>4. Promised' = {}
  <2>1. ~(LeftToDo("goto")' /\ ~LeftToDo("write")')
    BY <1>1, <1>2
  <2>2. host' # "ack" /\ 1 .. offset' + 0 = {}
    OBVIOUS
  <2> QED BY <2>1, <2>2 DEF Promised
<1> DEFINE g == ~LeftToDo("write")'
           D == {}
           mem == ram'
<1>5. D \in SUBSET DOMAIN Payload /\ \A i \in D : mem[i] = Payload[i]
  OBVIOUS
<1> HIDE DEF g, D, mem
<1>6. Good(up', mem, D, g)
  BY <1>5, GoodIdle
<1>7. \E E \in SUBSET DOMAIN Payload : Promised' \subseteq E /\ Good(up', ram', E, ~LeftToDo("write")')
  BY <1>4, <1>5, <1>6 DEF g, mem
<1>8. Calm'
  <2>1. Idle(up)'
    BY DEF Idle, Skips
  <2> QED BY <2>1 DEF Calm, Waiting
<1>9. Safe'
  BY <1>7, <1>8 DEF Safe
<1> QED BY <1>3, <1>9 DEF Main

\* The host asks whether the phone is there.
LEMMA PingingHost ==
    ASSUME Types, Guarded', Host, Pinging
    PROVE  Core'
<1>0. /\ Task = "ping" /\ todo # <<>> /\ phone = "loop" /\ ~fast.host /\ ~fast.phone /\ fast.host = fast.phone
      /\ fast \in [host : BOOLEAN, phone : BOOLEAN] /\ up \in Seq(Nat) /\ down \in Seq(Nat) /\ host \in {"send", "pong"}
  BY DEF Pinging, Types, Task
<1>1. (host = "send" => SendPing) /\ (host = "pong" => PongRead)
  BY <1>0 DEF Host, SendPing, SendSpeed, SendBlock, SendRead, SendGoto, PongRead, SpeedSoonRead, SendConfirm,
              SpeedDoneRead, AckRead, AckLate, DataRead, EchoRead
<1>2. PhoneWaits /\ UNCHANGED fast
  BY <1>0, <1>1 DEF SendPing, PongRead
<1>3. Ahead(1) \/ (Ahead(2) /\ todo[2] = "speed")
  BY DEF Pinging
<1>4. CASE host = "send" /\ up = <<>> /\ down = <<>> /\ faults = 0
  <2>1. SentUp(<<CmdPing>>, 0, 0) /\ host' = "pong" /\ UNCHANGED <<down, todo, offset>>
    BY <1>1, <1>4 DEF SendPing
  <2>2. CmdPing \in Nat
    BY CodesAre
  <2>3. (up' = <<CmdPing>> /\ faults' = 0) \/ (Idle(up') /\ faults' = 1)
    BY <2>1, <2>2, <1>0, <1>4, ByteSent
  <2>4. Task' = "ping" /\ (Ahead(1)' \/ (Ahead(2)' /\ todo'[2] = "speed"))
    BY <2>1, <1>0, <1>3, TaskSame
  <2>5. down' = <<>> /\ <<>> # Pong /\ Len(down') <= 1 /\ phone' = "loop" /\ ~fast'.host /\ ~fast'.phone
    BY <2>1, <1>0, <1>2, <1>4, AnswersAre DEF PhoneWaits
  <2>6. Idle(up)' <=> Idle(up')
    BY DEF Idle, Skips
  <2>7. Pinging'
    BY <2>1, <2>3, <2>4, <2>5, <2>6 DEF Pinging
  <2> QED BY <2>7 DEF Core
<1>5. ~(host = "pong" /\ up = <<CmdPing>> /\ down = <<>>)
  <2>1. SUFFICES ASSUME host = "pong", up = <<CmdPing>>, down = <<>> PROVE FALSE
    OBVIOUS
  <2>2. ReadReturns(1)
    BY <1>1, <2>1 DEF PongRead
  <2>3. up = <<>> \/ Len(up) < CommandSize(up)
    BY <2>1, <2>2, <1>0, QuietIs
  <2>4. Len(up) = 1 /\ up[1] = 65
    BY <2>1, CodesAre
  <2>5. CommandSize(up) = 1
    BY <2>4, CodesAre DEF CommandSize
  <2> QED BY <2>3, <2>4, <2>5
<1>6. CASE host = "pong" /\ Idle(up) /\ down # Pong /\ Len(down) <= 1
  <2>1. ReadReturns(1)
    BY <1>1, <1>6 DEF PongRead
  <2>2. Received(1) = down
    BY <2>1, <1>6, ReadIs
  <2>3. host' = "exit" /\ UNCHANGED up
    BY <2>2, <1>1, <1>6 DEF PongRead, Exit
  <2> QED BY <2>3, <1>0, <1>2, <1>6, GivesUp DEF Core
<1>7. CASE host = "pong" /\ up = <<>> /\ down = Pong
  <2>1. ReadReturns(1) /\ Len(down) <= 1
    BY <1>1, <1>7, AnswersAre DEF PongRead
  <2>2. Received(1) = down /\ down' = <<>>
    BY <2>1, ReadIs
  <2>3. SentUp(<<KeepAlive>>, 0, 0) /\ Advance(Len(Payload))
    BY <2>2, <1>0, <1>1, <1>7 DEF PongRead, TaskDone
  <2>4. Idle(up') /\ up' \in Seq(Nat)
    <3>1. KeepAlive \in Nat /\ KeepAlive \notin Codes
      BY CodesAre
    <3>2. up' \in Seq(Nat) /\ (up' = <<KeepAlive>> \/ Idle(up'))
      BY <3>1, <2>3, <1>0, <1>7, ByteSent
    <3>3. Idle(<<KeepAlive>>)
      BY <3>1 DEF Idle, Skips
    <3> QED BY <3>2, <3>3
  <2>5. todo' = Tail(todo) /\ offset' = 0 /\ host' \in {"send", "done"} /\ (todo' # <<>> => host' = "send")
    <3> DEFINE n == Len(Payload)
    <3>1. n \in Nat /\ offset \in Nat /\ n >= 1
      BY ConstantsFact DEF Types
    <3>2. Advance(n)
      BY <2>3
    <3> HIDE DEF n
    <3>3. /\ host' \in {"send", "done"}
          /\ offset + n >= Len(Payload) => todo' = Tail(todo) /\ offset' = 0
      BY <3>1, <3>2, <1>0, AdvanceIs
    <3>4. offset + n >= Len(Payload)
      BY <3>1 DEF n
    <3>5. Len(todo) = 1 => todo' = <<>>
      <4>1. todo' = Tail(todo)
        BY <3>3, <3>4
      <4>2. Len(todo) \in Nat /\ (todo' # <<>> => Len(todo) >= 2)
        BY <4>1, <1>0, TaskEnds
      <4> QED BY <4>2
    <3>6. todo' # <<>> => host' = "send"
      BY <3>5, <3>2 DEF Advance
    <3> QED BY <3>3, <3>4, <3>6
  <2>6. phone' = "loop" /\ ~fast'.host /\ ~fast'.phone /\ fast'.host = fast'.phone
    BY <1>0, <1>2 DEF PhoneWaits
  <2>7. CASE Ahead(1)
    <3>1. Task \notin {"write", "goto"}
      BY <1>0
    <3>2. Main'
      BY <3>1, <2>2, <2>4, <2>5, <2>6, <2>7, <1>0, MainStarts
    <3> QED BY <3>2 DEF Core
  <2>8. CASE Ahead(2) /\ todo[2] = "speed"
    <3> DEFINE n == Len(todo)
    <3>1. /\ n \in Nat /\ Len(todo') = n - 1
          /\ \A j \in 1 .. n - 1 : todo'[j] = todo[j + 1]
          /\ todo' # <<>> => Task' = todo'[1]
          /\ todo' = <<>> => n = 1
          /\ LeftToDo("goto")' => LeftToDo("goto")
          /\ LeftToDo("write") => LeftToDo("write")'
      BY <2>5, <1>0, TaskEnds
    <3>2. /\ n >= 2
          /\ \A j \in 1 .. n : j > 2 => todo[j] \in {"read", "write", "goto"} /\ (todo[j] = "goto" => j = n)
          /\ LeftToDo("goto") => LeftToDo("write")
      BY <2>8 DEF Ahead
    <3> HIDE DEF n
    <3>3. todo' # <<>> /\ Task' = "speed"
      <4>1. 1 \in 1 .. n - 1 /\ 1 + 1 = 2 /\ n # 1
        BY <3>1, <3>2
      <4>2. todo'[1] = todo[2]
        BY <4>1, <3>1
      <4> QED BY <4>1, <4>2, <3>1, <2>8
    <3>4. ASSUME NEW j \in 1 .. Len(todo'), j > 1
          PROVE  todo'[j] \in {"read", "write", "goto"} /\ (todo'[j] = "goto" => j = Len(todo'))
      <4>1. j \in 1 .. n - 1 /\ j + 1 \in 1 .. n /\ j + 1 > 2 /\ (j + 1 = n => j = n - 1)
        BY <3>1, <3>4
      <4>2. todo'[j] = todo[j + 1]
        BY <4>1, <3>1
      <4>3. todo[j + 1] \in {"read", "write", "goto"} /\ (todo[j + 1] = "goto" => j + 1 = n)
        BY <4>1, <3>2
      <4> QED BY <4>1, <4>2, <4>3, <3>1
    <3>5. Len(todo') >= 1 /\ (LeftToDo("goto")' => LeftToDo("write")')
      BY <3>1, <3>2
    <3>6. Ahead(1)'
      BY <3>4, <3>5 DEF Ahead
    <3>7. Idle(up)'
      BY <2>4 DEF Idle, Skips
    <3>8. Speeding'
      BY <3>3, <3>6, <3>7, <2>2, <2>5, <2>6 DEF Speeding
    <3> QED BY <3>8 DEF Core
  <2> QED BY <2>7, <2>8, <1>3
<1> QED BY <1>4, <1>5, <1>6, <1>7 DEF Pinging


\* The two sides change the speed.
LEMMA SpeedingHost ==
    ASSUME Types, Guarded', Host, Speeding
    PROVE  Core'
<1> DEFINE m == <<CmdSpeed, 7>>
<1>0. /\ Task = "speed" /\ todo # <<>> /\ Ahead(1) /\ host \in {"send", "speed", "newspeed", "confirm"}
      /\ phone # "jumped"
      /\ fast \in [host : BOOLEAN, phone : BOOLEAN] /\ up \in Seq(Nat) /\ Len(up) \in Nat /\ down \in Seq(Nat)
  BY DEF Speeding, Types, Task
<1>1. /\ host = "send" => SendSpeed
      /\ host = "speed" => SpeedSoonRead /\ ReadReturns(1)
      /\ host = "newspeed" => SendConfirm
      /\ host = "confirm" => SpeedDoneRead /\ ReadReturns(1)
  BY <1>0 DEF Host, SendPing, SendSpeed, SendBlock, SendRead, SendGoto, PongRead, SpeedSoonRead, SendConfirm,
              SpeedDoneRead, AckRead, AckLate, DataRead, EchoRead
<1>2. PhoneWaits
  BY <1>0, <1>1 DEF SendSpeed, SpeedSoonRead, SendConfirm, SpeedDoneRead
<1>3. m \in Seq(Nat) /\ Len(m) = 2 /\ m[1] = 72
  BY CodesAre
<1>4. CASE ~fast.host /\ ~fast.phone /\ phone = "loop" /\ host = "send" /\ Idle(up) /\ down = <<>>
  <2>1. SentUp(m, 2, 2) /\ host' = "speed" /\ UNCHANGED <<down, fast, todo, offset>>
    BY <1>1, <1>4 DEF SendSpeed
  <2> HIDE DEF m
  <2>2. PICK c \in Seq(Nat) : Outcome(m, 2, 2, Codes, c) /\ up' = IF fast.host = fast.phone THEN up \o c ELSE up
    <3> DEFINE d == 2
    <3>1. SentUp(m, d, d) /\ d \in Nat
      BY <2>1
    <3> HIDE DEF d
    <3>2. \E c \in Seq(Nat) : Outcome(m, d, d, Codes, c) /\ up' = IF fast.host = fast.phone THEN up \o c ELSE up
      BY <3>1, <1>3, UpSent
    <3> QED BY <3>2 DEF d
  <2>3. c = m
    <3>1. 2 + 1 .. Len(m) = {}
      BY <1>3
    <3> QED BY <3>1, <2>2 DEF Outcome
  <2>4. up' = up \o m
    BY <2>2, <2>3, <1>0, <1>4
  <2>5. Behind(up', m)
    BY <2>4, <1>0, <1>3, <1>4, IdleCat
  <2>6. Behind(up, m)'
    BY <2>5 DEF Behind, Skips, m
  <2>7. Task' = "speed" /\ Ahead(1)'
    BY <2>1, <1>0, TaskSame
  <2>8. phone' = "loop" /\ down' = <<>> /\ ~fast'.host /\ ~fast'.phone
    BY <2>1, <1>2, <1>4 DEF PhoneWaits
  <2>9. Speeding'
    BY <2>1, <2>6, <2>7, <2>8 DEF Speeding, m
  <2> QED BY <2>9 DEF Core
<1>5. ~(phone = "loop" /\ host = "speed" /\ Behind(up, m) /\ down = <<>>)
  <2>1. SUFFICES ASSUME phone = "loop", host = "speed", Behind(up, m), down = <<>> PROVE FALSE
    OBVIOUS
  <2> HIDE DEF m
  <2>2. PICK k \in 0 .. Len(up) : Skips(up, k) /\ Len(up) = k + Len(m) /\ \A j \in 1 .. Len(m) : up[k + j] = m[j]
    BY <2>1 DEF Behind
  <2>3. k = 0 /\ (up = <<>> \/ Len(up) < CommandSize(up))
    <3>1. 1 \in Nat /\ 1 >= 1 /\ k \in Nat
      BY <1>0
    <3> QED BY <3>1, <2>1, <2>2, <1>1, QuietSkips, QuietIs
  <2>4. Len(up) = 2 /\ up[1] = 72
    <3>1. 1 \in 1 .. Len(m) /\ 0 + 1 = 1
      BY <1>3
    <3>2. up[0 + 1] = m[1]
      BY <2>2, <2>3, <3>1
    <3> QED BY <2>2, <2>3, <3>1, <3>2, <1>3
  <2>5. CommandSize(up) = 2
    BY <2>4, CodesAre DEF CommandSize
  <2> QED BY <2>3, <2>4, <2>5
<1>6. ASSUME up = <<>> PROVE Idle(up)
  BY <1>6 DEF Idle, Skips
<1>7. CASE ~fast.host /\ fast.phone /\ phone = "speed" /\ host = "speed" /\ up = <<>> /\ Len(down) <= 1
  <2>1. Received(1) = down /\ down' = <<>>
    BY <1>1, <1>7, ReadIs
  <2>2. \/ /\ fast' = [fast EXCEPT !.host = TRUE]
           /\ host' = "newspeed" /\ UNCHANGED <<up, todo, offset>>
        \/ host' = "exit" /\ UNCHANGED up
    BY <2>1, <1>1, <1>7 DEF SpeedSoonRead, Exit
  <2>3. CASE fast' = [fast EXCEPT !.host = TRUE] /\ host' = "newspeed" /\ UNCHANGED <<up, todo, offset>>
    <3>1. fast'.host /\ fast'.phone
      BY <2>3, <1>0, <1>7
    <3>2. Task' = "speed" /\ Ahead(1)'
      BY <2>3, <1>0, TaskSame
    <3>3. phone' = "speed" /\ up' = <<>>
      BY <2>3, <1>2, <1>7 DEF PhoneWaits
    <3>4. Speeding'
      BY <3>1, <3>2, <3>3, <2>1, <2>3 DEF Speeding
    <3> QED BY <3>4 DEF Core
  <2> QED BY <2>2, <2>3, <1>0, <1>2, <1>6, <1>7, GivesUp DEF Core
<1>8. CASE fast.host /\ fast.phone /\ phone = "speed" /\ host = "newspeed" /\ up = <<>> /\ down = <<>>
  <2>1. SentUp(<<CmdPing>>, 0, 0) /\ host' = "confirm" /\ UNCHANGED <<down, fast, todo, offset>>
    BY <1>1, <1>8 DEF SendConfirm
  <2>2. CmdPing \in Nat
    BY CodesAre
  <2>3. fast.host = fast.phone
    BY <1>0, <1>8
  <2>4. up' = <<CmdPing>> \/ Idle(up')
    BY <2>1, <2>2, <2>3, <1>8, ByteSent
  <2>5. Task' = "speed" /\ Ahead(1)'
    BY <2>1, <1>0, TaskSame
  <2>6. phone' = "speed" /\ down' = <<>> /\ fast'.host /\ fast'.phone
    BY <2>1, <1>2, <1>8 DEF PhoneWaits
  <2>7. Idle(up)' <=> Idle(up')
    BY DEF Idle, Skips
  <2>8. Speeding'
    BY <2>1, <2>4, <2>5, <2>6, <2>7 DEF Speeding
  <2> QED BY <2>8 DEF Core
<1>9. ~(phone = "speed" /\ host = "confirm" /\ up = <<CmdPing>> /\ down = <<>>)
  <2>1. SUFFICES ASSUME phone = "speed", host = "confirm", up = <<CmdPing>>, down = <<>> PROVE FALSE
    OBVIOUS
  <2>2. Len(down) = 0
    BY <2>1
  <2>3. up = <<>>
    BY <2>1, <2>2, <1>1, SpeedWaits
  <2>4. Len(up) = 1
    BY <2>1, RequestsAre
  <2> QED BY <2>3, <2>4
<1>10. CASE phone = "speed" /\ host = "confirm" /\ Idle(up) /\ down = <<>>
  <2>1. Len(down) <= 1
    BY <1>10
  <2>2. Received(1) = <<>>
    BY <2>1, <1>1, <1>10, ReadIs
  <2>3. SpeedDone # <<>>
    BY AnswersAre
  <2>4. host' = "exit" /\ UNCHANGED up
    BY <2>2, <2>3, <1>1, <1>10 DEF SpeedDoneRead, Exit
  <2> QED BY <2>4, <1>0, <1>2, <1>10, GivesUp DEF Core
<1>11. CASE fast.host /\ fast.phone /\ phone = "loop" /\ host = "confirm" /\ up = <<>> /\ Len(down) <= 1
  <2>1. Received(1) = down /\ down' = <<>>
    BY <1>1, <1>11, ReadIs
  <2>2. \/ Advance(Len(Payload)) /\ UNCHANGED <<up, fast>>
        \/ host' = "exit" /\ UNCHANGED up
    BY <2>1, <1>1, <1>11 DEF SpeedDoneRead, TaskDone, Exit
  <2>3. CASE Advance(Len(Payload)) /\ UNCHANGED <<up, fast>>
    <3> DEFINE n == Len(Payload)
    <3>1. n \in Nat /\ offset \in Nat
      BY ConstantsFact DEF Types
    <3>2. Advance(n)
      BY <2>3
    <3> HIDE DEF n
    <3>3. /\ host' \in {"send", "done"}
          /\ offset + n >= Len(Payload) => todo' = Tail(todo) /\ offset' = 0
      BY <3>1, <3>2, <1>0, AdvanceIs
    <3>4. offset + n >= Len(Payload)
      BY <3>1 DEF n
    <3>5. phone' = "loop" /\ fast'.host = fast'.phone /\ up' \in Seq(Nat) /\ Idle(up')
      BY <2>3, <1>0, <1>2, <1>6, <1>11 DEF PhoneWaits
    <3>6. Task \notin {"write", "goto"}
      BY <1>0
    <3>7. Main'
      BY <3>3, <3>4, <3>5, <3>6, <2>1, <1>0, MainStarts
    <3> QED BY <3>7 DEF Core
  <2> QED BY <2>2, <2>3, <1>0, <1>2, <1>6, <1>11, GivesUp DEF Core
<1> QED BY <1>4, <1>5, <1>7, <1>8, <1>9, <1>10, <1>11 DEF Speeding

\* Every step of the host
LEMMA CoreHost ==
    ASSUME Types, Guarded', Core, Host
    PROVE  Core'
<1>1. CASE Started
  <2>1. PhoneWaits
    BY DEF Host, SendPing, SendSpeed, SendBlock, SendRead, SendGoto, PongRead, SpeedSoonRead, SendConfirm,
           SpeedDoneRead, AckRead, AckLate, DataRead, EchoRead
  <2> QED BY <1>1, <2>1 DEF Core, Started, PhoneWaits
<1>2. ~GivenUp
  BY DEF GivenUp, Host, SendPing, SendSpeed, SendBlock, SendRead, SendGoto, PongRead, SpeedSoonRead, SendConfirm,
         SpeedDoneRead, AckRead, AckLate, DataRead, EchoRead
<1>3. CASE Main
  BY <1>3, SafeHost, SpoiltHost DEF Main, Core
<1> QED BY <1>1, <1>2, <1>3, PingingHost, SpeedingHost DEF Core

\* The first state
LEMMA InitInv == Init => Inv
<1>1. SUFFICES ASSUME Init PROVE Inv
  OBVIOUS
<1>2. /\ up = <<>> /\ down = <<>> /\ faults = 0 /\ blind = FALSE /\ ram \in OldRams /\ phone = "loop"
      /\ fast = [host |-> FALSE, phone |-> FALSE] /\ todo \in Sessions /\ offset = 0 /\ host = "send"
  BY <1>1 DEF Init
<1> DEFINE n == Len(todo)
<1>3. /\ todo \in Seq({"ping", "speed", "read", "write", "goto"}) /\ todo # <<>> /\ DOMAIN todo = 1 .. n
      /\ n \in Nat /\ n >= 1
  BY <1>2, SessionsAssumption
<1>4. \A i \in 1 .. n : /\ todo[i] = "ping" <=> i = 1
                        /\ todo[i] = "speed" => i = 2
                        /\ todo[i] = "goto" => i = n /\ \E j \in 1 .. i : todo[j] = "write"
  <2>1. \A i \in DOMAIN todo : /\ todo[i] = "ping" <=> i = 1
                               /\ todo[i] = "speed" => i = 2
                               /\ todo[i] = "goto" => i = Len(todo) /\ \E j \in 1 .. i : todo[j] = "write"
    BY <1>2, SessionsAssumption
  <2> QED BY <2>1, <1>3
<1>5. \A i \in 1 .. n : todo[i] \in {"ping", "speed", "read", "write", "goto"}
  BY <1>3
<1>6. Types
  <2>1. up \in Seq(Nat) /\ down \in Seq(Nat) /\ ram \in [DOMAIN Payload -> Nat] /\ fast \in [host : BOOLEAN, phone : BOOLEAN]
    <3>1. ram \in [DOMAIN Payload -> Nat]
      BY <1>2, ConstantsFact, Zenon
    <3>2. <<>> \in Seq(Nat)
      OBVIOUS
    <3> QED BY <3>1, <3>2, <1>2
  <2>2. offset \in 0 .. Len(Payload) - 1 /\ faults \in 0 .. MaxFaults /\ blind \in BOOLEAN
    <3>1. Len(Payload) \in Nat /\ Len(Payload) >= 1 /\ MaxFaults \in Nat
      BY ConstantsFact
    <3> DEFINE L == Len(Payload)
    <3> HIDE DEF L
    <3>2. 0 \in 0 .. L - 1 /\ 0 \in 0 .. MaxFaults
      BY <3>1 DEF L
    <3>3. blind \in BOOLEAN
      BY <1>2, Zenon
    <3> QED BY <3>2, <3>3, <1>2, Zenon DEF L
  <2> QED BY <2>1, <2>2, <1>3 DEF Types
<1>7. Task = "ping"
  <2>1. 1 \in 1 .. n /\ Head(todo) = todo[1]
    BY <1>3
  <2> QED BY <2>1, <1>3, <1>4 DEF Task
<1> HIDE DEF n
<1>8. LeftToDo("goto") => LeftToDo("write")
  <2>1. ASSUME NEW i \in 1 .. n, todo[i] = "goto" PROVE \E j \in 1 .. n : todo[j] = "write"
    <3>1. PICK j \in 1 .. i : todo[j] = "write"
      BY <2>1, <1>4
    <3>2. j \in 1 .. n
      BY <1>3
    <3> QED BY <3>1, <3>2
  <2> QED BY <2>1 DEF LeftToDo, n
<1>9. Ahead(1) \/ (Ahead(2) /\ todo[2] = "speed")
  <2>1. CASE n >= 2 /\ todo[2] = "speed"
    <3>1. ASSUME NEW j \in 1 .. n, j > 2
          PROVE  todo[j] \in {"read", "write", "goto"} /\ (todo[j] = "goto" => j = n)
      BY <3>1, <1>4, <1>5
    <3> QED BY <2>1, <3>1, <1>8 DEF Ahead, n
  <2>2. CASE ~(n >= 2 /\ todo[2] = "speed")
    <3>1. ASSUME NEW j \in 1 .. n, j > 1
          PROVE  todo[j] \in {"read", "write", "goto"} /\ (todo[j] = "goto" => j = n)
      <4>1. j = 2 => n >= 2
        BY <1>3
      <4> QED BY <4>1, <3>1, <2>2, <1>4, <1>5
    <3> QED BY <3>1, <1>3, <1>8 DEF Ahead, n
  <2> QED BY <2>1, <2>2
<1>10. Pinging
  BY <1>2, <1>7, <1>9 DEF Pinging
<1> QED BY <1>6, <1>10 DEF Inv, Core

\* A step that changes nothing
LEMMA InvStays ==
    ASSUME Inv, UNCHANGED vars
    PROVE  Inv'
<1>1. /\ up' = up /\ down' = down /\ ram' = ram /\ phone' = phone /\ target' = target /\ fast' = fast
      /\ todo' = todo /\ offset' = offset /\ host' = host /\ faults' = faults /\ blind' = blind
  BY DEF vars
<1>2. /\ Task' = Task /\ BlockSize' = BlockSize /\ Promised' = Promised /\ Wanted' = Wanted /\ Request' = Request
      /\ (Tasks <=> Tasks') /\ (LeftToDo("write")' <=> LeftToDo("write")) /\ \A n : Ahead(n)' <=> Ahead(n)
  BY HostSame DEF vars, HostWaits
<1>3. (Idle(up)' <=> Idle(up)) /\ \A k : Skips(up, k)' <=> Skips(up, k)
  BY <1>1 DEF Idle, Skips
<1>4. (Behind(up, Request)' <=> Behind(up, Request)) /\ (Behind(up, <<CmdSpeed, 7>>)' <=> Behind(up, <<CmdSpeed, 7>>))
  BY <1>1, <1>2, <1>3 DEF Behind
<1>5. Types'
  BY <1>1 DEF Inv, Types
<1>6. (Started => Started') /\ (GivenUp => GivenUp')
  BY <1>1 DEF Started, GivenUp
<1>7. (Pinging => Pinging') /\ (Speeding => Speeding')
  BY <1>1, <1>2, <1>3, <1>4 DEF Pinging, Speeding
<1>8. Safe => Safe'
  <2>1. Calm => Calm'
    BY <1>1, <1>2, <1>3, <1>4 DEF Calm
  <2>2. \A D, g : Good(up, ram, D, g) => Good(up', ram', D, g)
    BY <1>1
  <2>3. ASSUME NEW D \in SUBSET DOMAIN Payload, Promised \subseteq D, Good(up, ram, D, ~LeftToDo("write"))
        PROVE  Promised' \subseteq D /\ Good(up', ram', D, ~LeftToDo("write")')
    <3>1. (~LeftToDo("write")') = (~LeftToDo("write"))
      BY <1>2
    <3>2. Good(up', ram', D, ~LeftToDo("write"))
      BY <2>2, <2>3
    <3> QED BY <3>1, <3>2, <2>3, <1>2
  <2> QED BY <2>1, <2>3, <1>1 DEF Safe
<1>9. Spoilt => Spoilt'
  BY <1>1, <1>2, <1>3 DEF Spoilt, InRam, BlockAt
<1>10. Main => Main'
  BY <1>1, <1>2, <1>8, <1>9 DEF Main
<1>11. Guarded' => Guarded
  BY <1>1 DEF Guarded
<1> QED BY <1>5, <1>6, <1>7, <1>10, <1>11 DEF Inv, Core

\* The program that is started is the file, and it is started where it was asked for.
LEMMA InvIntact == Inv => StartedIntact
BY DEF Inv, Core, Started, GivenUp, Pinging, Speeding, Main, Safe, Spoilt, StartedIntact

\* A program is started only where it was asked for and only when all of it is in the RAM as the file has it: for every
\* program, every size of blocks, every session, whatever the RAM held before, every value a damaged byte takes, and as
\* long as there was at most one fault and it was not a blind one.  Blind are the command, the address and the size of a
\* request and the keep-alive in front of them (damaged or lost), any byte lost from a goto, and a byte of a ping, a
\* read or a goto that becomes a command; a wait for an answer that ends too early is a fault.  The formula says so itself (Guarded), and nothing is assumed about MaxFaults.
THEOREM ProgramIsIntact == Spec => []StartedIntact
<1>1. Init => Inv
  BY InitInv
<1>2. Inv /\ [Next]_vars => Inv'
  <2>1. ASSUME Inv, Phone PROVE Inv'
    BY <2>1, TypesPhone, CorePhone DEF Inv
  <2>2. ASSUME Inv, Host PROVE Inv'
    BY <2>2, TypesHost, CoreHost DEF Inv
  <2>3. ASSUME Inv, UNCHANGED vars PROVE Inv'
    BY <2>3, InvStays
  <2> QED BY <2>1, <2>2, <2>3 DEF Next
<1>3. Inv => StartedIntact
  BY InvIntact
<1> QED BY <1>1, <1>2, <1>3, PTL DEF Spec


=============================================================================
