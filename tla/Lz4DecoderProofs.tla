--------------------------- MODULE Lz4DecoderProofs ---------------------------
(***************************************************************************)
(* The memory safety of lz4_decompress, for every block, every output size *)
(* and every width of the bytes and lengths.                               *)
(***************************************************************************)
EXTENDS Lz4Decoder, TLAPS

-----------------------------------------------------------------------------
\* Arithmetic of bytes, nibbles and uint32_t, used by the steps below.

\* A byte has at least four values, and a half byte fewer than a byte.
LEMMA ByteCountFact == ByteCount \in Nat /\ ByteCount >= 4 /\ Nibble < ByteCount /\ ByteCount <= Wrap
<1>1. Nibble * Nibble >= 2 * Nibble
    BY NibbleAssumption
<1>2. ByteCount \in Nat /\ ByteCount >= 4 /\ Nibble < ByteCount
    BY <1>1, NibbleAssumption DEF ByteCount
<1>3. ByteCount * ByteCount >= ByteCount
    BY <1>2
<1> QED BY <1>2, <1>3, WrapAssumption, SizeAssumption

\* Both halves of a token are smaller than Nibble.
LEMMA NibbleFact ==
    ASSUME NEW t \in Byte
    PROVE  /\ LiteralLength(t) \in 0 .. Nibble - 1
           /\ MatchLength(t) \in 0 .. Nibble - 1
<1>1. t \in Nat /\ t < Nibble * Nibble
    BY ByteCountFact DEF Byte, ByteCount
<1>2. t % Nibble \in 0 .. Nibble - 1
    BY <1>1, NibbleAssumption
<1>3. t \div Nibble \in Nat /\ t = Nibble * (t \div Nibble) + (t % Nibble)
    BY <1>1, NibbleAssumption
<1>4. t \div Nibble < Nibble
    <2> DEFINE q == t \div Nibble
    <2>1. q \in Nat /\ Nibble * q <= t
        BY <1>1, <1>2, <1>3, NibbleAssumption
    <2>2. ASSUME q >= Nibble PROVE FALSE
        <3>1. Nibble * q >= Nibble * Nibble
            BY <2>1, <2>2, NibbleAssumption
        <3> QED BY <3>1, <2>1, <1>1, NibbleAssumption
    <2> HIDE DEF q
    <2>3. q < Nibble
        BY <2>1, <2>2, NibbleAssumption
    <2> QED BY <2>3 DEF q
<1> QED BY <1>2, <1>3, <1>4, NibbleAssumption DEF LiteralLength, MatchLength

\* A match offset of two bytes fits a uint32_t.
LEMMA OffsetFact ==
    ASSUME NEW low \in Byte, NEW high \in Byte
    PROVE  low + ByteCount * high \in UInt32
<1>1. low \in Nat /\ high \in Nat /\ low <= ByteCount - 1 /\ high <= ByteCount - 1
    BY ByteCountFact DEF Byte
<1>2. ByteCount * high <= ByteCount * (ByteCount - 1)
    BY <1>1, ByteCountFact
<1>3. ByteCount * (ByteCount - 1) = ByteCount * ByteCount - ByteCount
    BY ByteCountFact
<1>4. ByteCount * high \in Nat
    BY <1>1, ByteCountFact
<1> HIDE DEF ByteCount
<1> QED BY <1>1, <1>2, <1>3, <1>4, WrapAssumption, SizeAssumption, ByteCountFact DEF UInt32

\* Sums and differences of uint32_t values are uint32_t values.
LEMMA UIntFact ==
    ASSUME NEW a \in UInt32, NEW b \in UInt32
    PROVE  /\ Add(a, b) \in UInt32
           /\ Sub(a, b) \in UInt32
           /\ a >= b => Sub(a, b) = a - b
           /\ a + b < Wrap => Add(a, b) = a + b
BY SizeAssumption DEF UInt32, Add, Sub

-----------------------------------------------------------------------------
\* The inductive invariant.

\* The checks before a copy cover what is left of it.
CopyInv ==
    /\ pc = "copy_literals" =>
           /\ i <= length
           /\ length - i <= input_size - input_offset
           /\ length - i <= output_size - output_offset
    /\ pc = "copy_match" =>
           /\ i <= length
           /\ length - i <= output_size - output_offset
    /\ pc \in {"match_length", "match", "copy_match"} => match_offset \in 1 .. output_offset

\* What lies before output_offset is decoded, what lies behind is untouched.
Frontier == output_offset <= output_size /\ NoStaleByteCopied

Inv ==
    /\ TypeOK
    /\ ReadsInsideInput
    /\ Frontier
    /\ SuccessIsComplete
    /\ CopyInv

\* A read of lz4.c inside the input gives a byte.
LEMMA InputByteFact ==
    ASSUME TypeOK, NEW offset \in Nat
    PROVE  InputByte(offset) \in Byte
BY ByteCountFact DEF TypeOK, InputByte, input_size, Byte

\* The two size arguments of lz4_decompress are uint32_t values.
LEMMA InputSizeFact == TypeOK => input_size \in UInt32 /\ input_size \in Nat /\ output_size \in UInt32
BY SizeAssumption, WrapAssumption DEF TypeOK, input_size, UInt32

\* The inductive invariant holds when lz4_decompress is called.
LEMMA InitInv == Init => Inv
<1> SUFFICES ASSUME NEW block \in Blocks, NEW size \in 0 .. MemSize, Start(block, size)
             PROVE  Inv
    BY DEF Init
<1>1. PICK n \in 0 .. MaxInput : block \in [1 .. n -> Byte]
    BY DEF Blocks
<1>2. block \in Seq(Byte) /\ Len(block) <= MaxInput
    BY <1>1, SizeAssumption
<1>3. 0 \in UInt32 /\ 0 \in Byte
    BY ByteCountFact, SizeAssumption, WrapAssumption DEF UInt32, Byte
<1>4. TypeOK
    BY <1>2, <1>3 DEF Start, TypeOK, Locations
<1> QED
    BY <1>2, <1>3, <1>4, SizeAssumption, StaleAssumption
    DEF Start, Inv, ReadsInsideInput, Frontier, NoStaleByteCopied, SuccessIsComplete, CopyInv, input_size

\* A write at the frontier moves it by one.
LEMMA WriteFact ==
    ASSUME TypeOK, Frontier, output_offset < output_size, NEW b \in Byte,
           mem' = [mem EXCEPT ![output_offset] = b],
           output_offset' = output_offset + 1, output_size' = output_size
    PROVE  /\ mem' \in [0 .. MemSize - 1 -> Byte \cup {Stale}]
           /\ output_offset' \in UInt32
           /\ Frontier'
<1>1. output_offset \in 0 .. MemSize - 1 /\ output_offset' \in UInt32
    BY SizeAssumption, WrapAssumption DEF TypeOK, UInt32
<1>2. \A a \in 0 .. MemSize - 1 : mem'[a] = IF a = output_offset THEN b ELSE mem[a]
    BY <1>1 DEF TypeOK
<1>3. mem' \in [0 .. MemSize - 1 -> Byte \cup {Stale}]
    BY <1>1, <1>2 DEF TypeOK
<1> QED
    BY <1>1, <1>2, <1>3, SizeAssumption DEF TypeOK, Frontier, NoStaleByteCopied, UInt32

\* The memory and its bounds are as before.
LEMMA FrontierFrame ==
    ASSUME Frontier, UNCHANGED <<mem, output_offset, output_size>>
    PROVE  Frontier'
BY DEF Frontier, NoStaleByteCopied

\* A return of FALSE needs no more than the types and the input's bounds.
LEMMA ReturnFalse ==
    ASSUME Inv, Return(FALSE), TypeOK', ReadsInsideInput', UNCHANGED <<mem, output_offset, output_size>>
    PROVE  Inv'
BY FrontierFrame DEF Inv, Return, SuccessIsComplete, CopyInv

\* Every step of lz4_decompress preserves the inductive invariant, one case per action.
LEMMA NextInv == Inv /\ [Next]_vars => Inv'
<1> SUFFICES ASSUME Inv, [Next]_vars PROVE Inv'
    OBVIOUS
<1> USE DEF parameters
<1>0. /\ input_size \in UInt32 /\ input_size \in Nat /\ output_size \in UInt32 /\ output_size \in Nat
      /\ input_size <= MaxInput /\ input_offset \in Nat /\ output_offset \in Nat
      /\ length \in Nat /\ i \in Nat /\ match_offset \in Nat
    BY InputSizeFact, SizeAssumption DEF TypeOK, UInt32, input_size, Inv
<1>a. MaxInput < Wrap /\ MaxInput \in Nat /\ Wrap \in Nat /\ 0 \in UInt32
    BY WrapAssumption, SizeAssumption DEF UInt32
<1>b. input_size' = input_size
    <2>1. input' = input
        BY DEF Next, vars, Token, EndOfInput, ReadLiteralLength, ReadMatchLength, ReadLength, CheckLiterals,
               CopyLiteral, LiteralsAreLast, OffsetIsCut, ReadOffset, CheckMatch, CopyMatch, EndOfMatch
    <2> QED BY <2>1 DEF input_size
<1>c. TypeOK /\ input_offset <= input_size /\ Frontier /\ output_offset <= output_size
    BY DEF Inv, ReadsInsideInput, Frontier
<1>1. CASE Token
    <2>1. /\ input_offset < input_size /\ input_offset' = input_offset + 1
          /\ length' = LiteralLength(token') /\ pc' \in {"literal_length", "literals"}
        BY <1>1 DEF Token, PastToken
    <2>2. token' \in Byte
        BY <1>1, <1>0, <1>c, InputByteFact DEF Token
    <2>3. length' \in UInt32
        <3>1. length' \in 0 .. Nibble - 1
            BY <2>1, <2>2, NibbleFact
        <3> QED BY <3>1, ByteCountFact, NibbleAssumption, <1>a DEF UInt32
    <2>4. input_offset' \in UInt32 /\ input_offset' <= input_size'
        BY <2>1, <1>0, <1>a, <1>b DEF UInt32
    <2>5. TypeOK'
        BY <1>1, <1>c, <2>2, <2>3, <2>4 DEF Token, TypeOK, Locations
    <2>6. Frontier'
        BY <1>1, <1>c, FrontierFrame DEF Token
    <2> QED
        BY <2>1, <2>4, <2>5, <2>6 DEF Inv, ReadsInsideInput, SuccessIsComplete, CopyInv
<1>2. ASSUME Return(OutputIsFull), input_offset >= input_size,
             UNCHANGED <<input, output_size, mem, input_offset, output_offset, token, length, match_offset, i>>
      PROVE  Inv'
    <2>1. TypeOK'
        BY <1>2, <1>c DEF TypeOK, Locations, OutputIsFull, Return
    <2>2. Frontier'
        BY <1>2, <1>c, FrontierFrame
    <2>3. input_offset' = input_size' /\ (result' => output_offset' = output_size')
        <3>1. result' = (output_offset = output_size) /\ output_offset' = output_offset /\ output_size' = output_size
            BY <1>2 DEF Return, OutputIsFull
        <3>2. input_offset' = input_size'
            BY <1>2, <1>0, <1>b, <1>c
        <3> QED BY <3>1, <3>2
    <2>4. ReadsInsideInput' /\ SuccessIsComplete'
        BY <2>3, <1>0, <1>b DEF ReadsInsideInput, SuccessIsComplete
    <2> QED
        BY <1>2, <2>1, <2>2, <2>4 DEF Inv, CopyInv, Return
<1>3. ASSUME NEW next \in {"literals", "match"}, ReadLength(next),
             pc = IF next = "literals" THEN "literal_length" ELSE "match_length"
      PROVE  Inv'
    <2>1. CASE input_offset = input_size
        <3>1. Return(FALSE)
            BY <1>3, <2>1 DEF ReadLength
        <3>2. UNCHANGED <<input, output_size, mem, input_offset, output_offset, token, length, match_offset, i>>
            BY <1>3, <2>1 DEF ReadLength
        <3>3. TypeOK'
            BY <3>1, <3>2, <1>c DEF Return, TypeOK, Locations
        <3> QED
            BY <3>1, <3>2, <3>3, <1>b, <1>c, ReturnFalse DEF ReadsInsideInput
    <2>2. CASE input_offset # input_size
        <3>1. /\ input_offset' = input_offset + 1
              /\ length' = Add(length, InputByte(input_offset))
              /\ pc' \in {next, pc}
              /\ UNCHANGED <<input, output_size, mem, output_offset, token, match_offset, i, result>>
            BY <1>3, <2>2 DEF ReadLength
        <3>2. InputByte(input_offset) \in UInt32
            BY <1>0, <1>a, <1>c, InputByteFact, ByteCountFact DEF Byte, UInt32
        <3>3. length' \in UInt32
            BY <3>1, <3>2, <1>c, UIntFact DEF TypeOK
        <3>4. input_offset' \in UInt32 /\ input_offset' <= input_size'
            BY <3>1, <2>2, <1>0, <1>a, <1>b, <1>c DEF UInt32
        <3>5. TypeOK'
            BY <1>3, <1>c, <3>1, <3>3, <3>4 DEF TypeOK, Locations
        <3>6. Frontier'
            BY <3>1, <1>c, FrontierFrame
        <3>7. CopyInv'
            BY <1>3, <3>1 DEF CopyInv, Inv
        <3> QED
            BY <1>3, <3>1, <3>4, <3>5, <3>6, <3>7 DEF Inv, ReadsInsideInput, SuccessIsComplete
    <2> QED BY <2>1, <2>2
<1>4. CASE CheckLiterals
    <2>0. UNCHANGED <<input, output_size, mem, input_offset, output_offset, token, length, match_offset>>
        BY <1>4 DEF CheckLiterals
    <2>1. CASE LiteralsFit
        <3>1. pc' = "copy_literals" /\ i' = 0 /\ result' = result
            BY <1>4, <2>1 DEF CheckLiterals
        <3>2. length <= input_size - input_offset /\ length <= output_size - output_offset
            BY <2>1, <1>0, <1>c, UIntFact DEF LiteralsFit, TypeOK
        <3>3. TypeOK'
            BY <2>0, <3>1, <1>a, <1>c DEF TypeOK, Locations
        <3>4. Frontier'
            BY <2>0, <1>c, FrontierFrame
        <3>5. CopyInv'
            BY <2>0, <3>1, <3>2, <1>0, <1>b DEF CopyInv
        <3> QED
            BY <2>0, <3>1, <3>3, <3>4, <3>5, <1>b, <1>c DEF Inv, ReadsInsideInput, SuccessIsComplete
    <2>2. CASE ~LiteralsFit
        <3>1. Return(FALSE) /\ i' = i
            BY <1>4, <2>2 DEF CheckLiterals
        <3>2. TypeOK'
            BY <2>0, <3>1, <1>c DEF Return, TypeOK, Locations
        <3> QED
            BY <2>0, <3>1, <3>2, <1>b, <1>c, ReturnFalse DEF ReadsInsideInput
    <2> QED BY <2>1, <2>2
<1>5. CASE CopyLiteral
    <2>0. /\ pc = "copy_literals" /\ pc' = pc /\ i < length /\ i' = i + 1
          /\ output_offset' = output_offset + 1 /\ input_offset' = input_offset + 1
          /\ UNCHANGED <<input, output_size, token, length, match_offset, result>>
        BY <1>5 DEF CopyLiteral
    <2>1. /\ i <= length /\ length - i <= input_size - input_offset
          /\ length - i <= output_size - output_offset
        BY <2>0 DEF Inv, CopyInv
    <2>2. input_offset < input_size /\ output_offset < output_size
        BY <2>0, <2>1, <1>0
    <2>3. InputByte(input_offset) \in Byte
        BY <1>0, <1>c, InputByteFact
    <2>4. /\ mem' \in [0 .. MemSize - 1 -> Byte \cup {Stale}]
          /\ output_offset' \in UInt32
          /\ Frontier'
        BY <1>5, <2>0, <2>2, <2>3, <1>c, WriteFact DEF CopyLiteral
    <2>5. input_offset' \in UInt32 /\ input_offset' <= input_size'
        BY <2>0, <2>2, <1>0, <1>a, <1>b DEF UInt32
    <2>6. i' \in UInt32
        BY <2>0, <1>0, <1>a, <1>c DEF UInt32, TypeOK
    <2>7. TypeOK'
        BY <2>0, <2>4, <2>5, <2>6, <1>c DEF TypeOK
    <2>8. CopyInv'
        BY <2>0, <2>1, <1>0, <1>b DEF CopyInv
    <2> QED
        BY <2>0, <2>4, <2>5, <2>7, <2>8 DEF Inv, ReadsInsideInput, SuccessIsComplete
<1>6. CASE OffsetIsCut
    <2>1. Return(FALSE) /\ UNCHANGED <<input, output_size, mem, input_offset, output_offset, token, length, match_offset, i>>
        BY <1>6 DEF OffsetIsCut
    <2>2. TypeOK'
        BY <2>1, <1>c DEF Return, TypeOK, Locations
    <2> QED
        BY <2>1, <2>2, <1>b, <1>c, ReturnFalse DEF ReadsInsideInput
<1>7. CASE ReadOffset
    <2>0. /\ input_offset' = input_offset + 2 /\ Sub(input_size, input_offset) >= 2
          /\ match_offset' = InputByte(input_offset) + ByteCount * InputByte(input_offset + 1)
          /\ UNCHANGED <<input, output_size, mem, output_offset, token, i>>
        BY <1>7 DEF ReadOffset
    <2>1. input_offset + 2 <= input_size
        <3>1. Sub(input_size, input_offset) = input_size - input_offset
            BY <1>0, <1>c, UIntFact DEF TypeOK
        <3> QED BY <2>0, <3>1, <1>0
    <2>2. match_offset' \in UInt32
        <3>1. InputByte(input_offset) \in Byte /\ InputByte(input_offset + 1) \in Byte
            BY <1>0, <1>c, InputByteFact
        <3> QED BY <2>0, <3>1, OffsetFact
    <2>3. MatchLength(token) \in UInt32
        <3>1. MatchLength(token) \in 0 .. Nibble - 1
            BY <1>c, NibbleFact DEF TypeOK
        <3> QED BY <3>1, ByteCountFact, NibbleAssumption, <1>a DEF UInt32
    <2>4. input_offset' \in UInt32 /\ input_offset' <= input_size'
        BY <2>0, <2>1, <1>0, <1>a, <1>b DEF UInt32
    <2>5. CASE BadOffset(match_offset')
        <3>1. Return(FALSE) /\ length' = length
            BY <1>7, <2>5 DEF ReadOffset
        <3>2. TypeOK'
            BY <2>0, <2>2, <2>4, <3>1, <1>c DEF Return, TypeOK, Locations
        <3> QED
            BY <2>0, <2>4, <3>1, <3>2, ReturnFalse DEF ReadsInsideInput
    <2>6. CASE ~BadOffset(match_offset')
        <3>1. length' = MatchLength(token) /\ pc' \in {"match_length", "match"} /\ result' = result
            BY <1>7, <2>6 DEF ReadOffset
        <3>2. match_offset' \in 1 .. output_offset
            BY <2>2, <2>6, <1>0 DEF BadOffset, UInt32
        <3>3. TypeOK'
            BY <2>0, <2>2, <2>3, <2>4, <3>1, <1>c DEF TypeOK, Locations
        <3>4. Frontier'
            BY <2>0, <1>c, FrontierFrame
        <3>5. CopyInv'
            BY <2>0, <3>1, <3>2 DEF CopyInv
        <3> QED
            BY <2>4, <3>1, <3>3, <3>4, <3>5 DEF Inv, ReadsInsideInput, SuccessIsComplete
    <2> QED BY <2>5, <2>6
<1>8. CASE CheckMatch
    <2>0. /\ pc = "match" /\ length' = Add(length, MinMatch)
          /\ UNCHANGED <<input, output_size, mem, input_offset, output_offset, token, match_offset>>
        BY <1>8 DEF CheckMatch, Biased
    <2>1. length' \in UInt32
        <3>1. (MaxInput + 1) * ByteCount \in Nat
            BY <1>a, ByteCountFact
        <3>2. MinMatch \in UInt32
            BY <1>a, <3>1, LengthAssumption, MatchAssumption DEF UInt32
        <3> QED BY <2>0, <3>2, <1>c, UIntFact DEF TypeOK
    <2>2. CASE MatchFits(length')
        <3>1. pc' = "copy_match" /\ i' = 0 /\ result' = result
            BY <1>8, <2>2 DEF CheckMatch
        <3>2. length' <= output_size - output_offset
            BY <2>2, <1>0, <1>c, UIntFact DEF MatchFits, TypeOK
        <3>3. TypeOK'
            BY <2>0, <2>1, <3>1, <1>a, <1>c DEF TypeOK, Locations
        <3>4. Frontier'
            BY <2>0, <1>c, FrontierFrame
        <3>5. CopyInv'
            <4>1. length' \in Nat
                BY <2>1, <1>a DEF UInt32
            <4>2. match_offset \in 1 .. output_offset
                BY <2>0 DEF Inv, CopyInv
            <4> QED BY <2>0, <3>1, <3>2, <4>1, <4>2, <1>0 DEF CopyInv
        <3> QED
            BY <2>0, <3>1, <3>3, <3>4, <3>5, <1>b, <1>c DEF Inv, ReadsInsideInput, SuccessIsComplete
    <2>3. CASE ~MatchFits(length')
        <3>1. Return(FALSE) /\ i' = i
            BY <1>8, <2>3 DEF CheckMatch
        <3>2. TypeOK'
            BY <2>0, <2>1, <3>1, <1>c DEF Return, TypeOK, Locations
        <3> QED
            BY <2>0, <3>1, <3>2, <1>b, <1>c, ReturnFalse DEF ReadsInsideInput
    <2> QED BY <2>2, <2>3
<1>9. CASE CopyMatch
    <2>0. /\ pc = "copy_match" /\ pc' = pc /\ i < length /\ i' = i + 1
          /\ output_offset' = output_offset + 1
          /\ mem' = [mem EXCEPT ![output_offset] = OutputByte(Sub(output_offset, match_offset))]
          /\ UNCHANGED <<input, output_size, input_offset, token, length, match_offset, result>>
        BY <1>9 DEF CopyMatch
    <2>1. i <= length /\ length - i <= output_size - output_offset /\ match_offset \in 1 .. output_offset
        BY <2>0 DEF Inv, CopyInv
    <2>2. output_offset < output_size
        BY <2>0, <2>1, <1>0
    <2>3. Sub(output_offset, match_offset) \in 0 .. output_offset - 1
        <3>1. Sub(output_offset, match_offset) = output_offset - match_offset
            BY <2>1, <1>0, <1>c, UIntFact DEF TypeOK
        <3> QED BY <3>1, <2>1, <1>0
    <2>4. OutputByte(Sub(output_offset, match_offset)) \in Byte
        <3>1. Sub(output_offset, match_offset) < MemSize
            BY <2>2, <2>3, <1>0, <1>c, SizeAssumption DEF TypeOK
        <3> QED BY <2>3, <3>1, <1>c DEF OutputByte, Frontier, NoStaleByteCopied
    <2>5. /\ mem' \in [0 .. MemSize - 1 -> Byte \cup {Stale}]
          /\ output_offset' \in UInt32
          /\ Frontier'
        BY <2>0, <2>2, <2>4, <1>c, WriteFact
    <2>6. i' \in UInt32
        BY <2>0, <1>0, <1>a, <1>c DEF UInt32, TypeOK
    <2>7. TypeOK'
        BY <2>0, <2>5, <2>6, <1>c DEF TypeOK
    <2>8. CopyInv'
        BY <2>0, <2>1, <1>0 DEF CopyInv
    <2> QED
        BY <2>0, <2>5, <2>7, <2>8, <1>b, <1>c DEF Inv, ReadsInsideInput, SuccessIsComplete
<1>10. CASE EndOfMatch
    <2>0. pc' = "token" /\ UNCHANGED <<input, output_size, mem, input_offset, output_offset, token, length, match_offset, i, result>>
        BY <1>10 DEF EndOfMatch
    <2>1. TypeOK'
        BY <2>0, <1>c DEF TypeOK, Locations
    <2>2. Frontier'
        BY <2>0, <1>c, FrontierFrame
    <2> QED
        BY <2>0, <2>1, <2>2, <1>b, <1>c DEF Inv, ReadsInsideInput, SuccessIsComplete, CopyInv
<1>11. CASE UNCHANGED vars
    BY <1>11 DEF vars, Inv, TypeOK, ReadsInsideInput, Frontier, NoStaleByteCopied, SuccessIsComplete, CopyInv, input_size
<1>12. CASE ReadLiteralLength
    BY <1>12, <1>3 DEF ReadLiteralLength
<1>13. CASE ReadMatchLength
    BY <1>13, <1>3 DEF ReadMatchLength
<1>14. CASE EndOfInput
    BY <1>14, <1>2 DEF EndOfInput
<1>15. CASE LiteralsAreLast
    BY <1>15, <1>2, <1>0 DEF LiteralsAreLast
<1> QED
    BY <1>1, <1>4, <1>5, <1>6, <1>7, <1>8, <1>9, <1>10, <1>11, <1>12, <1>13, <1>14, <1>15 DEF Next

\* The inductive invariant holds in every state of the decoder.
THEOREM Invariance == Spec => []Inv
BY InitInv, NextInv, PTL DEF Spec

\* The variables of lz4_decompress keep their types; no offset or counter overflows.
THEOREM TypeCorrect == Spec => []TypeOK
<1>1. Inv => TypeOK
    BY DEF Inv
<1> QED BY <1>1, Invariance, PTL

\* Memory safety of lz4_decompress for every block and every size: it reads inside the
\* input, writes inside the output and copies only bytes it has written itself.
THEOREM MemorySafety == Spec => [](ReadsInsideInput /\ WritesInsideOutput /\ NoStaleByteCopied)
<1>1. Inv => ReadsInsideInput /\ WritesInsideOutput /\ NoStaleByteCopied
    BY SizeAssumption DEF Inv, Frontier, NoStaleByteCopied, WritesInsideOutput, TypeOK, UInt32
<1> QED BY <1>1, Invariance, PTL

\* lz4_decompress reads no byte behind its input, whatever lengths the block spells.
THEOREM ReadsAreInside == Spec => []ReadsInsideInput
BY MemorySafety, PTL

\* A match copies only bytes that this call of lz4_decompress has decoded.
THEOREM CopiesOwnBytes == Spec => []NoStaleByteCopied
BY MemorySafety, PTL

\* A TRUE result of lz4_decompress: the input is used up and the output is full.
THEOREM CompleteOnSuccess == Spec => []SuccessIsComplete
<1>1. Inv => SuccessIsComplete
    BY DEF Inv
<1> QED BY <1>1, Invariance, PTL

-----------------------------------------------------------------------------
\* The lengths of a block.

\* What read_length has added up is at most a full byte for every byte read.
LengthInv ==
    pc \in {"literal_length", "match_length", "literals", "match"} => length <= input_offset * ByteCount

\* One more input byte allows one more full byte of length.
LEMMA OneMoreByte ==
    ASSUME NEW n \in Nat
    PROVE  /\ n * ByteCount \in Nat
           /\ (n + 1) * ByteCount = n * ByteCount + ByteCount
           /\ (n + 2) * ByteCount = n * ByteCount + ByteCount + ByteCount
BY ByteCountFact

\* The largest length, with the bias of a match, is a uint32_t.
LEMMA LongestLength ==
    ASSUME NEW n \in Nat, n <= MaxInput
    PROVE  n * ByteCount + ByteCount + MinMatch < Wrap
<1>1. n * ByteCount <= MaxInput * ByteCount
    BY ByteCountFact, SizeAssumption
<1>2. (MaxInput + 1) * ByteCount = MaxInput * ByteCount + ByteCount
    BY OneMoreByte, SizeAssumption
<1>3. n * ByteCount \in Nat /\ MaxInput * ByteCount \in Nat
    BY OneMoreByte, SizeAssumption
<1> QED BY <1>1, <1>2, <1>3, LengthAssumption, MatchAssumption, SizeAssumption, ByteCountFact

\* Every step preserves the bound of a length by the input bytes read for it.
LEMMA NextLengthInv == Inv /\ LengthInv /\ [Next]_vars => LengthInv'
<1> SUFFICES ASSUME Inv, LengthInv, [Next]_vars PROVE LengthInv'
    OBVIOUS
<1> USE DEF parameters
<1>0. /\ TypeOK /\ input_size \in Nat /\ input_size <= MaxInput
      /\ input_offset \in Nat /\ input_offset <= input_size /\ length \in Nat
    BY InputSizeFact, SizeAssumption DEF Inv, TypeOK, UInt32, input_size, ReadsInsideInput
<1>a. input_offset \in Nat /\ input_offset <= MaxInput
    BY <1>0, SizeAssumption
<1>1. CASE Token
    <2>1. token' \in Byte
        BY <1>1, <1>0, InputByteFact DEF Token
    <2>2. length' \in 0 .. Nibble - 1
        BY <1>1, <2>1, NibbleFact DEF Token
    <2>3. input_offset' = input_offset + 1
        BY <1>1 DEF Token, PastToken
    <2> QED BY <2>2, <2>3, <1>0, ByteCountFact, NibbleAssumption, OneMoreByte DEF LengthInv
<1>2. ASSUME NEW next \in {"literals", "match"}, ReadLength(next), pc \in {"literal_length", "match_length"}
      PROVE  LengthInv'
    <2>1. CASE input_offset = input_size
        BY <1>2, <2>1 DEF ReadLength, Return, LengthInv
    <2>2. CASE input_offset # input_size
        <3>1. InputByte(input_offset) \in Nat /\ InputByte(input_offset) < ByteCount
            BY <1>0, InputByteFact, ByteCountFact DEF Byte
        <3>2. InputByte(input_offset) \in UInt32 /\ length \in UInt32
            BY <1>0, <3>1, ByteCountFact, SizeAssumption DEF UInt32, TypeOK
        <3>3. length <= input_offset * ByteCount
            BY <1>2 DEF LengthInv
        <3>4. length + InputByte(input_offset) < Wrap
            BY <3>1, <3>3, <1>0, <1>a, LongestLength, OneMoreByte, MatchAssumption, SizeAssumption, ByteCountFact
        <3>5. Add(length, InputByte(input_offset)) = length + InputByte(input_offset)
            BY <3>2, <3>4, UIntFact
        <3>6. input_offset' = input_offset + 1 /\ length' = length + InputByte(input_offset)
            BY <1>2, <2>2, <3>5 DEF ReadLength
        <3> QED BY <3>1, <3>3, <3>6, <1>0, OneMoreByte, ByteCountFact DEF LengthInv
    <2> QED BY <2>1, <2>2
<1>3. CASE ReadOffset
    <2>1. MatchLength(token) \in 0 .. Nibble - 1
        BY <1>0, NibbleFact DEF TypeOK
    <2>2. CASE BadOffset(match_offset')
        BY <1>3, <2>2 DEF ReadOffset, Return, LengthInv
    <2>3. CASE ~BadOffset(match_offset')
        <3>1. length' = MatchLength(token) /\ input_offset' = input_offset + 2
            BY <1>3, <2>3 DEF ReadOffset
        <3> QED BY <2>1, <3>1, <1>0, ByteCountFact, NibbleAssumption, OneMoreByte DEF LengthInv
    <2> QED BY <2>2, <2>3
<1>4. CASE ReadLiteralLength
    BY <1>2, <1>4 DEF ReadLiteralLength
<1>5. CASE ReadMatchLength
    BY <1>2, <1>5 DEF ReadMatchLength
<1>6. CASE EndOfInput \/ LiteralsAreLast \/ OffsetIsCut \/ EndOfMatch \/ UNCHANGED vars
    BY <1>6 DEF EndOfInput, LiteralsAreLast, OffsetIsCut, EndOfMatch, Return, vars, LengthInv
<1>7. CASE CheckLiterals \/ CopyLiteral \/ CheckMatch \/ CopyMatch
    <2>1. pc' \in {"returned", "copy_literals", "copy_match"}
        BY <1>7 DEF CheckLiterals, CopyLiteral, CheckMatch, CopyMatch, Return
    <2> QED BY <2>1 DEF LengthInv
<1> QED BY <1>1, <1>3, <1>4, <1>5, <1>6, <1>7 DEF Next

\* No sum of read_length and no match_size wraps around 2^32, for every block that
\* cmd_write_ram_lz4 hands on.
THEOREM LengthsAreExact == Spec => []LengthNeverWraps
<1>1. Init => LengthInv
    BY DEF Init, Start, LengthInv
<1>2. Inv /\ LengthInv => LengthNeverWraps
    <2> SUFFICES ASSUME Inv, LengthInv PROVE LengthNeverWraps
        OBVIOUS
    <2>1. input_offset \in Nat /\ input_offset <= MaxInput /\ length \in Nat
        BY InputSizeFact, SizeAssumption DEF Inv, TypeOK, UInt32, input_size, ReadsInsideInput
    <2>2. input_offset * ByteCount + ByteCount + MinMatch < Wrap /\ input_offset * ByteCount \in Nat
        BY <2>1, LongestLength, OneMoreByte
    <2> QED
        BY <2>1, <2>2, OneMoreByte, ByteCountFact, MatchAssumption, SizeAssumption
        DEF LengthInv, LengthNeverWraps
<1> QED BY <1>1, <1>2, Invariance, NextLengthInv, PTL DEF Spec

\* Every step of lz4_decompress moves it on: with the bounds of the two offsets it
\* returns after finitely many steps, whatever the block.
THEOREM AlwaysProgress == Spec => Progress
<1>1. Inv /\ [Next]_vars =>
        [ \/ input_offset' > input_offset /\ output_offset' >= output_offset
          \/ input_offset' = input_offset /\ output_offset' > output_offset
          \/ input_offset' = input_offset /\ output_offset' = output_offset /\ Rank[pc'] > Rank[pc]
        ]_vars
    <2> SUFFICES ASSUME Inv, Next
                 PROVE  \/ input_offset' > input_offset /\ output_offset' >= output_offset
                        \/ input_offset' = input_offset /\ output_offset' > output_offset
                        \/ input_offset' = input_offset /\ output_offset' = output_offset /\ Rank[pc'] > Rank[pc]
        OBVIOUS
    <2>0. input_offset \in Nat /\ output_offset \in Nat
        BY SizeAssumption DEF Inv, TypeOK, UInt32
    <2>1. /\ Rank["literals"] = 1 /\ Rank["copy_literals"] = 2 /\ Rank["match"] = 4
          /\ Rank["copy_match"] = 5 /\ Rank["token"] = 6 /\ Rank["returned"] = 7
          /\ Rank["literal_length"] = 0 /\ Rank["match_length"] = 3
        BY DEF Rank, Locations
    <2>2. CASE Token \/ ReadOffset
        <3>1. input_offset' \in {input_offset + 1, input_offset + 2} /\ output_offset' = output_offset
            BY <2>2 DEF Token, ReadOffset, PastToken
        <3> QED BY <3>1, <2>0
    <2>3. CASE CopyLiteral \/ CopyMatch
        BY <2>3, <2>0 DEF CopyLiteral, CopyMatch
    <2>4. CASE ReadLiteralLength \/ ReadMatchLength
        BY <2>4, <2>0, <2>1 DEF ReadLiteralLength, ReadMatchLength, ReadLength, Return
    <2>5. CASE EndOfInput \/ LiteralsAreLast \/ OffsetIsCut \/ EndOfMatch
        BY <2>5, <2>0, <2>1 DEF EndOfInput, LiteralsAreLast, OffsetIsCut, EndOfMatch, Return
    <2>6. CASE CheckLiterals \/ CheckMatch
        BY <2>6, <2>0, <2>1 DEF CheckLiterals, CheckMatch, Return
    <2> QED BY <2>2, <2>3, <2>4, <2>5, <2>6 DEF Next
<1> QED BY <1>1, Invariance, PTL DEF Spec, Progress
=============================================================================
