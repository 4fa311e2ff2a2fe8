-------------------------------- MODULE MCLz4 -------------------------------
(***************************************************************************)
(* The instance of Lz4Decoder for TLC.  It is given every block of up to   *)
(* ShortInput bytes with every output size up to ShortOutput, well-formed  *)
(* or not, and what the host's encoder makes of blocks of a payload.  A    *)
(* reference definition of the block format is there to compare with.      *)
(***************************************************************************)
EXTENDS Lz4Decoder, FiniteSetsExt

CONSTANTS
    ShortInput, ShortOutput,
    Alphabet,   \* the bytes of the payload
    Sizes,      \* the sizes of the payload's blocks that are tried exhaustively
    LongSizes   \* the sizes of the periodic blocks, for long and distant matches

VARIABLE payload    \* the block of the payload that was compressed, or NoData

NoData == <<-1>>        \* no data: -1 is not a byte

\* An extended length is a run of full bytes and one byte that is not full.
\* The number of its bytes at position p, 0 when the block ends inside it.
LengthWidth(block, p) ==
    LET ends == {k \in p .. Len(block) : block[k] # ByteCount - 1}
    IN  IF ends = {} THEN 0 ELSE Min(ends) - p + 1

\* [value, width] of a length whose nibble is n and whose bytes would be at p.
\* Width -1 stands for a length that is cut off.
LengthAt(block, n, p) ==
    LET width == LengthWidth(block, p)
    IN  CASE n # Nibble - 1 -> [value |-> n, width |-> 0]
          [] n = Nibble - 1 /\ width = 0 -> [value |-> 0, width |-> -1]
          [] OTHER -> [value |-> n + (width - 1) * (ByteCount - 1) + block[p + width - 1],
                       width |-> width]

\* `size` bytes of the periodic continuation of `data` with period `back`.
Continue(data, back, size) ==
    data \o [k \in 1 .. size |-> data[Len(data) - back + 1 + ((k - 1) % back)]]

\* What the sequences of `block` from position p on make of the output so far.
RECURSIVE Expand(_, _, _)
Expand(block, p, data) ==
    LET head == block[p]
        literals == LengthAt(block, head \div Nibble, p + 1)
        first == p + 1 + literals.width
        after == first + literals.value
        offset == block[after] + ByteCount * block[after + 1]
        longer == data \o SubSeq(block, first, after - 1)
        match == LengthAt(block, head % Nibble, after + 2)
    IN  CASE p > Len(block) -> data
          [] p <= Len(block) /\ (literals.width < 0 \/ after > Len(block) + 1) -> NoData
          [] p <= Len(block) /\ literals.width >= 0 /\ after = Len(block) + 1 -> longer
          [] OTHER ->
             IF \/ after = Len(block)
                \/ offset = 0
                \/ offset > Len(longer)
                \/ match.width < 0
             THEN NoData
             ELSE Expand(block, after + 2 + match.width,
                         Continue(longer, offset, match.value + MinMatch))

\* The answer of lz4_decompress is the reference's: TRUE exactly for a well-formed
\* block whose data has output_size bytes, and then the output is that data.  The
\* reference copies whole slices, continues a match periodically and knows no wrap.
AgreesWithFormat ==
    pc = "returned" =>
        LET data == Expand(input, 1, <<>>)
        IN  /\ result <=> data # NoData /\ Len(data) = output_size
            /\ result => \A k \in 1 .. output_size : mem[k - 1] = data[k]

Encoder == INSTANCE Lz4Encoder

Words(n) == [1 .. n -> Alphabet]

\* A word repeated over and over, after a prefix of its own.
Periodic(prefix, word, n) ==
    [k \in 1 .. n |-> IF k <= Len(prefix) THEN prefix[k]
                      ELSE word[((k - Len(prefix) - 1) % Len(word)) + 1]]

Payloads ==
    UNION {Words(n) : n \in Sizes}
      \cup {Periodic(prefix, word, n) : prefix \in Words(5), word \in Words(5), n \in LongSizes}

MCInit ==
    \/ /\ payload = NoData
       /\ \E n \in 0 .. ShortInput : \E block \in [1 .. n -> Byte], size \in 0 .. ShortOutput :
              Start(block, size)
    \/ \E data \in Payloads : payload = data /\ Start(Encoder!Compress(data), Len(data))

MCNext == Next /\ UNCHANGED payload

MCSpec == MCInit /\ [][MCNext]_<<vars, payload>>

\* lz4_decompress restores exactly what lz4_compress_block was given: boot.py and lz4.c
\* agree on every field of the format, on lengths of several bytes and their
\* boundaries, on overlapping matches and on the literals a block ends with.
RoundTrip ==
    pc = "returned" /\ payload # NoData =>
        result /\ \A k \in 1 .. Len(payload) : mem[k - 1] = payload[k]
=============================================================================
