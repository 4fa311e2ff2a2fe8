----------------------------- MODULE Lz4Decoder -----------------------------
(***************************************************************************)
(* The LZ4 block decoder of the preloader: lz4_decompress and its helper   *)
(* read_length (preloader/src/lz4.c).                                      *)
(*                                                                         *)
(* One action is one decision of the code: reading a token, reading one    *)
(* byte of an extended length, the checks before a copy, one byte of a     *)
(* copy.  The memory behind output_data is larger than output_size, so a   *)
(* write past the block is a visible change and not a missing case.        *)
(*                                                                         *)
(* The number of values of half a byte is the parameter Nibble (16 in the  *)
(* code), so that small blocks exercise lengths of several bytes.          *)
(***************************************************************************)
EXTENDS Integers, Sequences

CONSTANTS
    Nibble,     \* values of half a token: 16, for 0x0F the largest one
    MinMatch,   \* the bias of the match length: 4
    Wrap,       \* values of a uint32_t: 2^32
    MemSize,    \* bytes of memory from output_data on
    MaxInput,   \* the largest input_size a caller passes: LZ4_BLOCK_SIZE
    Stale       \* what the memory holds before the call

ByteCount == Nibble * Nibble        \* 256
Byte == 0 .. ByteCount - 1
UInt32 == 0 .. Wrap - 1

ASSUME NibbleAssumption == Nibble \in Nat /\ Nibble >= 2
ASSUME MatchAssumption == MinMatch \in Nat \ {0}
ASSUME SizeAssumption == MemSize \in Nat /\ MaxInput \in Nat /\ Wrap \in Nat
ASSUME StaleAssumption == Stale \notin Byte
\* A size and a match offset fit a uint32_t.
ASSUME WrapAssumption ==
    MemSize < Wrap /\ MaxInput < Wrap /\ ByteCount * ByteCount <= Wrap
\* So does every length that an input of MaxInput bytes can spell
\* (cmd_write_ram_lz4 admits LZ4_BLOCK_SIZE = 4096 bytes).
ASSUME LengthAssumption == (MaxInput + 1) * ByteCount + MinMatch < Wrap

VARIABLES
    input,          \* the compressed bytes
    output_size,
    mem,            \* the bytes from output_data on
    pc,
    input_offset,
    output_offset,
    token,
    length,         \* literal_size, later match_size
    match_offset,
    i,              \* the counter of the copy loops
    result

vars == <<input, output_size, mem, pc, input_offset, output_offset, token,
          length, match_offset, i, result>>
parameters == <<input, output_size>>

input_size == Len(input)

\* A read behind the input finds whatever is left in the tightly coupled memory.
InputByte(offset) == IF offset < input_size THEN input[offset + 1] ELSE 0

\* A read outside the block finds what was in memory before the call.
OutputByte(offset) == IF offset < MemSize THEN mem[offset] ELSE Stale

\* uint32_t arithmetic on two uint32_t values.
Add(a, b) == IF a + b < Wrap THEN a + b ELSE a + b - Wrap
Sub(a, b) == IF a >= b THEN a - b ELSE a - b + Wrap

LiteralLength(t) == t \div Nibble
MatchLength(t) == t % Nibble
Extended(len) == len = Nibble - 1       \* the code's *length != 0x0F, negated

\* while (value == 0xFF), negated
Bug_LengthEndsAtZero(value) == value = 0
LastOfLength(value) == value # ByteCount - 1

\* The two checks before the literals are copied.
Bug_LiteralsFitOutput == length <= Sub(output_size, output_offset)
LiteralsFit ==
    /\ length <= Sub(input_size, input_offset)
    /\ length <= Sub(output_size, output_offset)

\* match_offset == 0 || match_offset > output_offset
Bug_OffsetOffByOne(offset) == offset = 0 \/ offset > output_offset + 1
BadOffset(offset) == offset = 0 \/ offset > output_offset

\* match_size += 4, and the check before the match is copied.
Biased(len) == Add(len, MinMatch)

Bug_CheckedBeforeBias(len) == len <= Add(Sub(output_size, output_offset), MinMatch)
MatchFits(len) == len <= Sub(output_size, output_offset)

\* return output_offset == output_size
Bug_NotOverfull == output_offset <= output_size
OutputIsFull == output_offset = output_size

Bug_TokenReadAgain(offset) == offset
PastToken(offset) == offset + 1

Start(block, size) ==
    /\ input = block
    /\ output_size = size
    /\ mem = [a \in 0 .. MemSize - 1 |-> Stale]
    /\ pc = "token"
    /\ input_offset = 0
    /\ output_offset = 0
    /\ token = 0
    /\ length = 0
    /\ match_offset = 0
    /\ i = 0
    /\ result = FALSE

Blocks == UNION {[1 .. n -> Byte] : n \in 0 .. MaxInput}

Init == \E block \in Blocks, size \in 0 .. MemSize : Start(block, size)

Return(value) ==
    /\ pc' = "returned"
    /\ result' = value

-----------------------------------------------------------------------------

\* The head of the loop: the token and the short form of the literal length.
Token ==
    /\ pc = "token"
    /\ input_offset < input_size
    /\ token' = InputByte(input_offset)
    /\ input_offset' = PastToken(input_offset)
    /\ length' = LiteralLength(token')
    /\ pc' = IF Extended(length') THEN "literal_length" ELSE "literals"
    /\ UNCHANGED <<parameters, mem, output_offset, match_offset, i, result>>

\* The loop ends after a match that used up the input.
EndOfInput ==
    /\ pc = "token"
    /\ input_offset >= input_size
    /\ Return(OutputIsFull)
    /\ UNCHANGED <<parameters, mem, input_offset, output_offset, token, length, match_offset, i>>

\* One turn of the loop of read_length; `next` is where its caller goes on.
ReadLength(next) ==
    \/ /\ input_offset = input_size
       /\ Return(FALSE)
       /\ UNCHANGED <<parameters, mem, input_offset, output_offset, token, length, match_offset, i>>
    \/ /\ input_offset # input_size
       /\ input_offset' = input_offset + 1
       /\ length' = Add(length, InputByte(input_offset))
       /\ pc' = IF LastOfLength(InputByte(input_offset)) THEN next ELSE pc
       /\ UNCHANGED <<parameters, mem, output_offset, token, match_offset, i, result>>

ReadLiteralLength == pc = "literal_length" /\ ReadLength("literals")

ReadMatchLength == pc = "match_length" /\ ReadLength("match")

\* The two bounds checks before the literals are copied.
CheckLiterals ==
    /\ pc = "literals"
    /\ IF LiteralsFit
       THEN pc' = "copy_literals" /\ i' = 0 /\ UNCHANGED result
       ELSE Return(FALSE) /\ UNCHANGED i
    /\ UNCHANGED <<parameters, mem, input_offset, output_offset, token, length, match_offset>>

CopyLiteral ==
    /\ pc = "copy_literals"
    /\ i < length
    /\ mem' = [mem EXCEPT ![output_offset] = InputByte(input_offset)]
    /\ output_offset' = output_offset + 1
    /\ input_offset' = input_offset + 1
    /\ i' = i + 1
    /\ UNCHANGED <<parameters, pc, token, length, match_offset, result>>

\* After the literals the block ends, or the two bytes of a match offset follow.
LiteralsAreLast ==
    /\ pc = "copy_literals"
    /\ i >= length
    /\ input_offset = input_size
    /\ Return(OutputIsFull)
    /\ UNCHANGED <<parameters, mem, input_offset, output_offset, token, length, match_offset, i>>

OffsetIsCut ==
    /\ pc = "copy_literals"
    /\ i >= length
    /\ input_offset # input_size
    /\ Sub(input_size, input_offset) < 2
    /\ Return(FALSE)
    /\ UNCHANGED <<parameters, mem, input_offset, output_offset, token, length, match_offset, i>>

ReadOffset ==
    /\ pc = "copy_literals"
    /\ i >= length
    /\ input_offset # input_size
    /\ Sub(input_size, input_offset) >= 2
    /\ match_offset' = InputByte(input_offset) + ByteCount * InputByte(input_offset + 1)
    /\ input_offset' = input_offset + 2
    /\ IF BadOffset(match_offset')
       THEN Return(FALSE) /\ UNCHANGED length
       ELSE /\ length' = MatchLength(token)
            /\ pc' = IF Extended(length') THEN "match_length" ELSE "match"
            /\ UNCHANGED result
    /\ UNCHANGED <<parameters, mem, output_offset, token, i>>

CheckMatch ==
    /\ pc = "match"
    /\ length' = Biased(length)
    /\ IF MatchFits(length')
       THEN pc' = "copy_match" /\ i' = 0 /\ UNCHANGED result
       ELSE Return(FALSE) /\ UNCHANGED i
    /\ UNCHANGED <<parameters, mem, input_offset, output_offset, token, match_offset>>

\* Byte by byte: a match may overlap the bytes it produces.
CopyMatch ==
    /\ pc = "copy_match"
    /\ i < length
    /\ mem' = [mem EXCEPT ![output_offset] = OutputByte(Sub(output_offset, match_offset))]
    /\ output_offset' = output_offset + 1
    /\ i' = i + 1
    /\ UNCHANGED <<parameters, pc, input_offset, token, length, match_offset, result>>

EndOfMatch ==
    /\ pc = "copy_match"
    /\ i >= length
    /\ pc' = "token"
    /\ UNCHANGED <<parameters, mem, input_offset, output_offset, token, length, match_offset, i, result>>

Next ==
    \/ Token
    \/ EndOfInput
    \/ ReadLiteralLength
    \/ CheckLiterals
    \/ CopyLiteral
    \/ LiteralsAreLast
    \/ OffsetIsCut
    \/ ReadOffset
    \/ ReadMatchLength
    \/ CheckMatch
    \/ CopyMatch
    \/ EndOfMatch

Spec == Init /\ [][Next]_vars

-----------------------------------------------------------------------------

Locations == {"token", "literal_length", "literals", "copy_literals",
              "match_length", "match", "copy_match", "returned"}

\* The type of the decoder's variables: every offset, length and counter of
\* lz4_decompress is a uint32_t, every byte of the block a byte or untouched.
TypeOK ==
    /\ input \in Seq(Byte)
    /\ Len(input) <= MaxInput
    /\ output_size \in 0 .. MemSize
    /\ mem \in [0 .. MemSize - 1 -> Byte \cup {Stale}]
    /\ pc \in Locations
    /\ input_offset \in UInt32
    /\ output_offset \in UInt32
    /\ token \in Byte
    /\ length \in UInt32
    /\ match_offset \in UInt32
    /\ i \in UInt32
    /\ result \in BOOLEAN

\* lz4_decompress never reads behind input_size, whatever the block says
\* (every read is at input_offset and moves it on).
ReadsInsideInput == input_offset <= input_size

\* No length wraps: while read_length adds byte after byte to a uint32_t, and when 4 is
\* added to match_size, the sum stays the one the block spells.
LengthNeverWraps ==
    /\ pc \in {"literal_length", "match_length"} =>
           length + ByteCount <= (input_offset + 1) * ByteCount
    /\ pc \in {"literals", "match"} => length + MinMatch < Wrap

\* lz4_decompress never writes behind output_size, whatever the block says.
WritesInsideOutput ==
    /\ output_offset <= output_size
    /\ \A a \in output_size .. MemSize - 1 : mem[a] = Stale

\* A match never copies a byte that this call has not produced: the memory up to
\* output_offset is all decoded data, the memory from there on is as it was.
NoStaleByteCopied ==
    /\ \A a \in 0 .. output_offset - 1 : mem[a] \in Byte
    /\ \A a \in output_offset .. MemSize - 1 : mem[a] = Stale

\* A TRUE result means that the whole input was used and that the output was filled
\* exactly; this is what lets cmd_write_ram_lz4 compute its CRC over output_size bytes.
SuccessIsComplete ==
    pc = "returned" /\ result => input_offset = input_size /\ output_offset = output_size

\* Where the loop stands while neither offset moves.
Rank == [l \in Locations |->
    CASE l = "literal_length" -> 0 [] l = "literals" -> 1 [] l = "copy_literals" -> 2
      [] l = "match_length" -> 3 [] l = "match" -> 4 [] l = "copy_match" -> 5
      [] l = "token" -> 6 [] l = "returned" -> 7]

\* lz4_decompress and read_length make progress with every step: input_offset grows,
\* or else output_offset grows, or else the loop moves on towards its end.  As both
\* offsets are bounded, no block keeps the preloader busy while the host waits.
Progress ==
    [][ \/ input_offset' > input_offset /\ output_offset' >= output_offset
        \/ input_offset' = input_offset /\ output_offset' > output_offset
        \/ input_offset' = input_offset /\ output_offset' = output_offset /\ Rank[pc'] > Rank[pc]
      ]_vars
=============================================================================
