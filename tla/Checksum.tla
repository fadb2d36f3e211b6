------------------------------ MODULE Checksum ------------------------------
(***************************************************************************)
(* The Internet checksum (RFC 1071) as checksum.rs computes it, and the    *)
(* three slower implementations kept beside it for tests and benchmarks.   *)
(*                                                                         *)
(* The widths are parameters, so that a byte can be one bit wide and TLC   *)
(* can try every input up to a length at which every accumulator carries.  *)
(***************************************************************************)
EXTENDS Integers, Sequences, SequencesExt

CONSTANTS
    ByteSize,    \* values of a byte: 256
    ChunkBytes,  \* BYTES_PER_U64: bytes added at once
    AccSize,     \* values of calculate's accumulator: 2^128
    NarrowSize   \* values of the other accumulators: 2^32

ASSUME WidthAssumption ==
    /\ ByteSize \in Nat /\ ByteSize > 1
    /\ ChunkBytes \in Nat \ {0} /\ ChunkBytes % 2 = 0
    /\ AccSize \in Nat \ {0} /\ NarrowSize \in Nat \ {0}

\* Values of a 16-bit word.
WordSize == ByteSize * ByteSize

\* !x as u16
flip(x) == WordSize - 1 - (x % WordSize)

from_be_bytes(bytes) == FoldLeft(LAMBDA n, b : n * ByteSize + b, 0, bytes)

\* Little endian.
to_be_bytes_Little(word) == <<word % ByteSize, word \div ByteSize>>

to_be_bytes(word) == <<word \div ByteSize, word % ByteSize>>

\* as_chunks: the whole groups of n bytes, and what is left over.
Groups(data, n) == [i \in 1 .. (Len(data) \div n) |-> SubSeq(data, (i - 1) * n + 1, i * n)]

Remainder(data, n) == SubSeq(data, Len(data) - (Len(data) % n) + 1, Len(data))

Padded(bytes, n) == bytes \o [i \in 1 .. (n - Len(bytes)) |-> 0]

-----------------------------------------------------------------------------
(* calculate *)

\* Folds the bottom two lanes together.
fold(y) == (y % WordSize) + (y \div WordSize)

fold_and_flip[x \in Nat] == IF x > WordSize - 1 THEN fold_and_flip[fold(x)] ELSE flip(x)

\* An odd byte is put in the low byte of its lane.
FirstAddend_Low(data) == from_be_bytes(Remainder(data, ChunkBytes))

\* The remainder, an odd byte in the high byte of its lane.
FirstAddend(data) == from_be_bytes(Padded(Remainder(data, ChunkBytes), ChunkBytes))

Accumulate(first, groups, size) ==
    FoldLeft(LAMBDA acc, chunk : (acc + from_be_bytes(chunk)) % size, first, groups)

calculate(data) == fold_and_flip[Accumulate(FirstAddend(data), Groups(data, ChunkBytes), AccSize)]

-----------------------------------------------------------------------------
(* The other implementations *)

\* Sizes where largest values are meant.
DEFERRED_CARRIES_MAX_BYTES_Sizes == (NarrowSize \div WordSize) * 2

DEFERRED_CARRIES_MAX_BYTES == ((NarrowSize - 1) \div (WordSize - 1)) * 2

one_carry_fold(x) == (x % WordSize) + (x \div WordSize)

FoldTwice(x) == flip(one_carry_fold(one_carry_fold(x)))

OddByte(data) == from_be_bytes(Padded(Remainder(data, 2), 2)) * (Len(data) % 2)

\* The carry is not added back in.
WithCarry_Lost(sum) == sum % WordSize

\* overflowing_add, then the carry.
WithCarry(sum) == (sum % WordSize) + (IF sum >= WordSize THEN 1 ELSE 0)

always_folded_cksum(data) ==
    flip(FoldLeft(LAMBDA sum, pair : WithCarry(sum + from_be_bytes(pair)),
                  OddByte(data), Groups(data, 2)))

naive_wrapping_cksum(data) == FoldTwice(Accumulate(OddByte(data), Groups(data, 2), NarrowSize))

\* The lowest value that would overflow if the largest word was added to it.
WOULD_OVERFLOW_Late == NarrowSize

WOULD_OVERFLOW == NarrowSize - WordSize + 1

range_checked_cksum(data) ==
    LET Add(sum, pair) == (sum + from_be_bytes(pair)) % NarrowSize
        Checked(sum) == IF sum < WOULD_OVERFLOW THEN sum ELSE one_carry_fold(sum)
    IN  FoldTwice(FoldLeft(LAMBDA sum, pair : Checked(Add(sum, pair)), OddByte(data), Groups(data, 2)))

-----------------------------------------------------------------------------
(* Reference *)

\* RFC 1071: the one's complement of the one's complement sum of the words,
\* the last one padded; that sum is the ordinary one modulo the largest word,
\* where only a sum of zeros gives zero.
Rfc1071(data) ==
    LET words == Groups(Padded(data, Len(data) + (Len(data) % 2)), 2)
        total == FoldLeft(LAMBDA sum, pair : sum + from_be_bytes(pair), 0, words)
    IN  WordSize - 1 - (IF total = 0 THEN 0 ELSE 1 + ((total - 1) % (WordSize - 1)))

=============================================================================
