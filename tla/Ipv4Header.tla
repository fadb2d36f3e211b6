----------------------------- MODULE Ipv4Header -----------------------------
(***************************************************************************)
(* The IPv4 header.  An address is the tuple of its octets.                *)
(***************************************************************************)
EXTENDS Packet

IPV4_HDR_MIN_LEN == 20

\* inner_parse: the header's fields and the payload.  The checksum is taken
\* over the first 20 bytes, the payload starts where IHL says.
parse(data) ==
    LET hdr == First(data, IPV4_HDR_MIN_LEN)
        ihl_bytes == (data[1] % 16) * 4
    IN  IF /\ Len(data) >= IPV4_HDR_MIN_LEN
           /\ data[1] \div 16 = 4
           /\ calculate(hdr) = 0
           /\ ihl_bytes <= Len(data)
        THEN {[total_len |-> u16(data, 2),
               protocol |-> p,
               ip_pair |-> [src |-> SubSeq(data, 13, 16), dst |-> SubSeq(data, 17, 20)],
               payload |-> After(data, ihl_bytes)] : p \in ProtocolOf(data[10])}
        ELSE {}

\* try_new followed by write_into.  The buffer always has room for a header.
write_into(buf, protocol, ip_pair, proto_len) ==
    LET total_len == IPV4_HDR_MIN_LEN + proto_len
        fields == <<4 * 16 + IPV4_HDR_MIN_LEN \div 4, 0>> \o to_be_bytes(total_len)
                  \o <<0, 0>> \o <<64, 0>> \o <<64, Protocol[protocol]>>
        filled == ClearChecksum(CopyInto(CopyInto(buf, 0, fields), 12, ip_pair.src \o ip_pair.dst), 10)
    IN  IF total_len < WordSize
        THEN {[buf |-> CopyInto(filled, 10, to_be_bytes(calculate(First(filled, IPV4_HDR_MIN_LEN)))),
               total_len |-> total_len]}
        ELSE {}

=============================================================================
