---------------------------- MODULE PacketClient ----------------------------
(***************************************************************************)
(* A client's side of the wire, external to the repository: it builds and  *)
(* reads packets as RFC 791, 768, 792 and 9293 say, with the reference     *)
(* checksum.                                                               *)
(*                                                                         *)
(* A packet is a message (the record the server's parser should make of    *)
(* it) and the liberties its sender took: IP or TCP options, a UDP         *)
(* checksum left out, the PSH bit.                                         *)
(***************************************************************************)
EXTENDS Packet

IpHeaderLen(packet) == 20 + Len(packet.ip_options)

WithChecksum(bytes, at, pseudo) == CopyInto(bytes, at, to_be_bytes(Rfc1071(pseudo \o bytes)))

PseudoHeader(bytes, msg) ==
    msg.ip_pair.src \o msg.ip_pair.dst \o <<0, Protocol[msg.protocol]>> \o to_be_bytes(Len(bytes))

IcmpBytes(msg) ==
    WithChecksum(<<msg.icmp_type, 0, 0, 0>> \o to_be_bytes(msg.identifier)
                 \o to_be_bytes(msg.sequence) \o msg.payload, 2, <<>>)

UdpBytes(msg, checked) ==
    LET bytes == to_be_bytes(msg.ports.src) \o to_be_bytes(msg.ports.dst)
                 \o to_be_bytes(8 + Len(msg.payload)) \o <<0, 0>> \o msg.payload
        summed == WithChecksum(bytes, 6, PseudoHeader(bytes, msg))
    IN  IF ~checked THEN bytes ELSE IF u16(summed, 6) = 0 THEN CopyInto(bytes, 6, <<255, 255>>) ELSE summed

FlagByte == [Syn |-> 2, SynAck |-> 18, Ack |-> 16, FinAck |-> 17, Rst |-> 4, RstAck |-> 20]

TcpBytes(msg, options, push) ==
    LET bytes == to_be_bytes(msg.ports.src) \o to_be_bytes(msg.ports.dst)
                 \o to_be_bytes(msg.seq_num[1]) \o to_be_bytes(msg.seq_num[2])
                 \o to_be_bytes(msg.ack_num[1]) \o to_be_bytes(msg.ack_num[2])
                 \o <<(5 + Len(options) \div 4) * 16, FlagByte[msg.flags] + IF push THEN 8 ELSE 0>>
                 \o to_be_bytes(msg.window) \o <<0, 0>> \o <<0, 0>> \o options \o msg.payload
    IN  WithChecksum(bytes, 16, PseudoHeader(bytes, msg))

BodyBytes(packet) ==
    LET msg == packet.msg
    IN  CASE msg.protocol = "Icmp" -> IcmpBytes(msg)
          [] msg.protocol = "Udp" -> UdpBytes(msg, packet.checked)
          [] msg.protocol = "Tcp" -> TcpBytes(msg, packet.tcp_options, packet.push)

\* The packet as the TUN device hands it over.
Encode(packet) ==
    LET body == BodyBytes(packet)
        hdr == <<64 + IpHeaderLen(packet) \div 4, 0>> \o to_be_bytes(IpHeaderLen(packet) + Len(body))
               \o <<28, 70>> \o <<64, 0>> \o <<63, Protocol[packet.msg.protocol]>> \o <<0, 0>>
               \o packet.msg.ip_pair.src \o packet.msg.ip_pair.dst \o packet.ip_options
    IN  WithChecksum(hdr, 10, <<>>) \o body

\* One byte changed on the way, the kind of damage a checksum is there for.
Damaged(bytes, at, by) == [bytes EXCEPT ![at] = (@ + by) % ByteSize]

-----------------------------------------------------------------------------
(* Reading a reply: {} if the client's stack would drop it *)

ReadBody(bytes, protocol, pair) ==
    LET ports == [src |-> u16(bytes, 0), dst |-> u16(bytes, 2)]
        pseudo == PseudoHeader(bytes, [ip_pair |-> pair, protocol |-> protocol])
    IN  CASE protocol = "Icmp" /\ Rfc1071(bytes) = 0 ->
                {[protocol |-> "Icmp", ip_pair |-> pair, icmp_type |-> bytes[1],
                  identifier |-> u16(bytes, 4), sequence |-> u16(bytes, 6), payload |-> After(bytes, 8)]}
          [] /\ protocol = "Udp" /\ u16(bytes, 4) = Len(bytes)
             /\ u16(bytes, 6) # 0 => Rfc1071(pseudo \o bytes) = 0 ->
                {[protocol |-> "Udp", ip_pair |-> pair, ports |-> ports, payload |-> After(bytes, 8)]}
          [] protocol = "Tcp" /\ Rfc1071(pseudo \o bytes) = 0 ->
                {[protocol |-> "Tcp", ip_pair |-> pair, ports |-> ports,
                  seq_num |-> <<u16(bytes, 4), u16(bytes, 6)>>, ack_num |-> <<u16(bytes, 8), u16(bytes, 10)>>,
                  flags |-> f, window |-> u16(bytes, 14),
                  payload |-> After(bytes, (bytes[13] \div 16) * 4)] :
                    f \in {g \in DOMAIN FlagByte : FlagByte[g] = bytes[14]}}
          [] OTHER -> {}

Read(bytes) ==
    IF bytes[1] = 69 /\ u16(bytes, 2) = Len(bytes) /\ Rfc1071(First(bytes, 20)) = 0
    THEN UNION {ReadBody(After(bytes, 20), p, [src |-> SubSeq(bytes, 13, 16), dst |-> SubSeq(bytes, 17, 20)]) :
                   p \in ProtocolOf(bytes[10])}
    ELSE {}

\* What a client expects back from an echo server.
EchoOf(msg) ==
    CASE msg.protocol = "Icmp" -> [msg EXCEPT !.ip_pair = swapped(@), !.icmp_type = 0]
      [] msg.protocol = "Udp" -> [msg EXCEPT !.ip_pair = swapped(@), !.ports = swapped(@)]

=============================================================================
