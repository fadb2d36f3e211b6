------------------------------ MODULE MCBytes ------------------------------
(***************************************************************************)
(* The parts of the server that work on bytes, for TLC: EchoResponder with *)
(* the packets of MCEchoResponder, and the Internet checksum over every    *)
(* input up to MaxBytes, one byte at a time, with bytes of one bit and     *)
(* accumulators of eight and four.  The two are explored one beside the    *)
(* other: each moves only while the other is in its first state.           *)
(***************************************************************************)
EXTENDS MCEchoResponder

CONSTANT MaxBytes  \* bound: longest input of the checksum

VARIABLE data      \* the input

Sums == INSTANCE Checksum WITH ByteSize <- 2, ChunkBytes <- 4, AccSize <- 256, NarrowSize <- 16

NextInput ==
    \/ Len(data) < MaxBytes /\ \E b \in 0 .. 1 : data' = Append(data, b)
    \/ Len(data) = MaxBytes /\ data' = <<>>

BytesInit == ResponderInit /\ data = <<>>

BytesNext ==
    \/ data = <<>> /\ ResponderNext /\ UNCHANGED data
    \/ ResponderInit /\ NextInput /\ UNCHANGED responderVars

BytesSpec == BytesInit /\ [][BytesNext]_<<responderVars, data>>

-----------------------------------------------------------------------------
(* Properties of the checksum *)

\* calculate is the Internet checksum: adding eight bytes at a time into a wide
\* accumulator, where "carries that propagate internally across lane boundaries
\* correctly land in congruent positions", loses nothing, whatever the length.
CalculateIsRfc1071 == Sums!calculate(data) = Sums!Rfc1071(data)

\* always_folded_cksum is "correct", like calculate, for all input.
AlwaysFoldedIsRfc1071 == Sums!always_folded_cksum(data) = Sums!Rfc1071(data)

\* range_checked_cksum is "correct": its accumulator never wraps unnoticed,
\* because it folds before the next word could overflow it.
RangeCheckedIsRfc1071 == Sums!range_checked_cksum(data) = Sums!Rfc1071(data)

\* naive_wrapping_cksum is right exactly as far as DEFERRED_CARRIES_MAX_BYTES
\* says: for every input up to it, and beyond it no longer for all-ones input.
NaiveIsRightUpToLimit ==
    /\ Len(data) <= Sums!DEFERRED_CARRIES_MAX_BYTES => Sums!naive_wrapping_cksum(data) = Sums!Rfc1071(data)
    /\ (Len(data) > Sums!DEFERRED_CARRIES_MAX_BYTES /\ \A i \in DOMAIN data : data[i] = 1)
          => Sums!naive_wrapping_cksum(data) # Sums!Rfc1071(data)

Filled(word) == data \o [i \in 1 .. (Len(data) % 2) |-> 0] \o Sums!to_be_bytes(word)

\* What write_into relies on: a checksum computed over a cleared field and then
\* stored in it makes the whole verify to zero, and no other value does except
\* the other zero of one's complement (which an all-zero input does not take).
StoredChecksumVerifies ==
    \A word \in 0 .. (Sums!WordSize - 1) :
        Sums!calculate(Filled(word)) = 0 <=>
            /\ word % (Sums!WordSize - 1) = Sums!calculate(Filled(0)) % (Sums!WordSize - 1)
            /\ \E i \in DOMAIN Filled(word) : Filled(word)[i] # 0

=============================================================================
