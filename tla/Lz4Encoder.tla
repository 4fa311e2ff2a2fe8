----------------------------- MODULE Lz4Encoder -----------------------------
(***************************************************************************)
(* The LZ4 block encoder of the host: lz4_compress_block and               *)
(* append_lz4_length (boot.py), as operators.  Positions in `data` count   *)
(* from 0, as in the code; sequences count from 1.                         *)
(***************************************************************************)
EXTENDS Integers, Sequences, TLC

CONSTANTS Nibble, MinMatch

ByteMax == Nibble * Nibble - 1      \* 0xFF
NibbleMax == Nibble - 1             \* 0x0F
SearchMargin == 12                  \* no match starts in the last 12 bytes
LiteralMargin == 5                  \* no match reaches into the last 5

Smaller(a, b) == IF a <= b THEN a ELSE b

\* append_lz4_length, as the bytes it appends.
RECURSIVE LengthBytes(_)
LengthBytes(length) ==
    IF length >= ByteMax
    THEN <<ByteMax>> \o LengthBytes(length - ByteMax)
    ELSE <<length>>

\* The bytes after a length whose half byte is full: also when nothing is left over.
Bug_ExtraAbove(length) == IF length > NibbleMax THEN LengthBytes(length - NibbleMax) ELSE <<>>
ExtraLength(length) == IF length >= NibbleMax THEN LengthBytes(length - NibbleMax) ELSE <<>>

At(data, position) == data[position + 1]
Slice(data, from, to) == SubSeq(data, from + 1, to)       \* data[from:to]
Key(data, position) == Slice(data, position, position + 4)

\* The end of the match of the bytes at `offset` with those at `match`.
RECURSIVE MatchEnd(_, _, _, _)
MatchEnd(data, match, offset, end) ==
    IF end < Len(data) - LiteralMargin /\ At(data, match + end - offset) = At(data, end)
    THEN MatchEnd(data, match, offset, end + 1)
    ELSE end

\* The bytes of one sequence: literals, then a match `back` bytes back.
Sequence(literals, back, match_size) ==
    <<Smaller(Len(literals), NibbleMax) * Nibble + Smaller(match_size, NibbleMax)>>
      \o ExtraLength(Len(literals)) \o literals
      \o <<back % (ByteMax + 1), back \div (ByteMax + 1)>>
      \o ExtraLength(match_size)

LastSequence(literals) ==
    <<Smaller(Len(literals), NibbleMax) * Nibble>> \o ExtraLength(Len(literals)) \o literals

\* The positions inside a match, remembered in order: a later one wins.
RECURSIVE Remember(_, _, _, _)
Remember(data, positions, position, end) ==
    IF position < end
    THEN Remember(data, (Key(data, position) :> position) @@ positions, position + 1, end)
    ELSE positions

\* The loop of lz4_compress_block from `offset` on: the bytes still to be appended.
RECURSIVE Search(_, _, _, _)
Search(data, offset, anchor, positions) ==
    LET limit == Len(data) - SearchMargin
        key == Key(data, offset)
        seen == (key :> offset) @@ positions
    IN  IF offset > limit
        THEN LastSequence(Slice(data, anchor, Len(data)))
        ELSE IF key \notin DOMAIN positions \/ offset - positions[key] >= (ByteMax + 1) * (ByteMax + 1)
        THEN Search(data, offset + 1, anchor, seen)
        ELSE LET match == positions[key]
                 end == MatchEnd(data, match, offset, offset + 4)
             IN  Sequence(Slice(data, anchor, offset), offset - match, end - offset - MinMatch)
                   \o Search(data, end, end,
                             Remember(data, seen, offset + 1, Smaller(end, limit + 1)))

Compress(data) == Search(data, 0, 0, <<>>)
=============================================================================
