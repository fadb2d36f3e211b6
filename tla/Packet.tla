------------------------------- MODULE Packet -------------------------------
(***************************************************************************)
(* What the codecs share: bytes in a buffer that is written over, pairs of *)
(* addresses and ports, the protocols and the pseudo-header checksum.      *)
(*                                                                         *)
(* A Result is a set: {} is an Err, {x} is Ok(x).  Offsets count from 0 as *)
(* in the code.                                                            *)
(***************************************************************************)
EXTENDS Checksum

CONSTANT ETHERNET_MTU

ASSUME MtuAssumption == ETHERNET_MTU \in Nat

\* The first n bytes, and what follows the first n bytes.
First(bytes, n) == SubSeq(bytes, 1, n)
After(bytes, n) == SubSeq(bytes, n + 1, Len(bytes))

u16(bytes, at) == from_be_bytes(SubSeq(bytes, at + 1, at + 2))

\* try_get_mut(..n): off by one.
try_get_mut_Strict(buf, n) == n < Len(buf)

\* try_get_mut(..n) is in range; the codecs ask for their whole length.
try_get_mut(buf, n) == n <= Len(buf)

\* copy_from_slice at an offset; the rest of the buffer keeps what it held.
CopyInto(buf, at, bytes) ==
    [i \in 1 .. Len(buf) |-> IF i - at \in DOMAIN bytes THEN bytes[i - at] ELSE buf[i]]

\* The checksum field keeps the bytes of the packet sent before.
ClearChecksum_Stale(buf, at) == buf

ClearChecksum(buf, at) == CopyInto(buf, at, <<0, 0>>)

swapped(pair) == [src |-> pair.dst, dst |-> pair.src]

Protocol == [Icmp |-> 1, Tcp |-> 6, Udp |-> 17]

\* Protocol::try_from
ProtocolOf(value) == {p \in DOMAIN Protocol : Protocol[p] = value}

\* Its size errors are out of reach: data is part of a packet of at most the MTU.
pseudo_hdr_cksum(data, ip_pair, protocol) ==
    calculate(ip_pair.src \o ip_pair.dst \o <<0, Protocol[protocol]>> \o to_be_bytes(Len(data)) \o data)

=============================================================================
