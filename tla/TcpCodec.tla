------------------------------ MODULE TcpCodec ------------------------------
(***************************************************************************)
(* TcpSegment as bytes.  A sequence number is the pair of its 16-bit       *)
(* halves.                                                                 *)
(***************************************************************************)
EXTENDS Packet

TCP_HDR_MIN_LEN == 20
RCV_WND == WordSize - 1

ACK_BIT == 16
RST_BIT == 4
SYN_BIT == 2
FIN_BIT == 1

TcpFlags == [Syn |-> SYN_BIT, SynAck |-> SYN_BIT + ACK_BIT, Ack |-> ACK_BIT,
             FinAck |-> FIN_BIT + ACK_BIT, Rst |-> RST_BIT, RstAck |-> RST_BIT + ACK_BIT]

\* Nothing is masked out.
Masked_Nothing(value) == value

\* value & MASK: bits that are not considered, such as PSH, are dropped.
Masked(value) ==
    LET Has(bit) == (value \div bit) % 2
    IN  Has(ACK_BIT) * ACK_BIT + Has(RST_BIT) * RST_BIT + Has(SYN_BIT) * SYN_BIT + Has(FIN_BIT)

\* TcpFlags::try_from
FlagsOf(value) == {f \in DOMAIN TcpFlags : TcpFlags[f] = Masked(value)}

u32(bytes, at) == <<u16(bytes, at), u16(bytes, at + 2)>>

u32_to_be_bytes(n) == to_be_bytes(n[1]) \o to_be_bytes(n[2])

\* inner_parse.  The payload starts where the data offset says; it is empty if
\* that is past the end.
parse(data, ip_pair) ==
    LET offset_bytes == (data[13] \div 16) * 4
    IN  IF Len(data) >= TCP_HDR_MIN_LEN /\ pseudo_hdr_cksum(data, ip_pair, "Tcp") = 0
        THEN {[protocol |-> "Tcp", ip_pair |-> ip_pair,
               ports |-> [src |-> u16(data, 0), dst |-> u16(data, 2)],
               seq_num |-> u32(data, 4), ack_num |-> u32(data, 8),
               flags |-> f, window |-> u16(data, 14),
               payload |-> After(data, offset_bytes)] : f \in FlagsOf(data[14])}
        ELSE {}

from_pairs_and_info(ip_pair, ports, info) ==
    [protocol |-> "Tcp", ip_pair |-> ip_pair, ports |-> ports,
     seq_num |-> info.seq_num, ack_num |-> info.ack_num, flags |-> info.flags,
     window |-> RCV_WND, payload |-> info.payload]

\* inner_write_into
write_into(buf, seg) ==
    LET tcp_seg_len == TCP_HDR_MIN_LEN + Len(seg.payload)
        fields == to_be_bytes(seg.ports.src) \o to_be_bytes(seg.ports.dst)
                  \o u32_to_be_bytes(seg.seq_num) \o u32_to_be_bytes(seg.ack_num)
                  \o <<(TCP_HDR_MIN_LEN \div 4) * 16, TcpFlags[seg.flags]>> \o to_be_bytes(seg.window)
        filled == ClearChecksum(CopyInto(CopyInto(buf, 0, fields), 18, <<0, 0>> \o seg.payload), 16)
        tcp_cksum == pseudo_hdr_cksum(First(filled, tcp_seg_len), seg.ip_pair, "Tcp")
    IN  IF try_get_mut(buf, tcp_seg_len)
        THEN {[buf |-> CopyInto(filled, 16, to_be_bytes(tcp_cksum)), len |-> tcp_seg_len]}
        ELSE {}

=============================================================================
