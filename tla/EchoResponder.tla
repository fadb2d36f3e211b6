--------------------------- MODULE EchoResponder ---------------------------
(***************************************************************************)
(* The path of a packet through the server: parse_incoming routes it to    *)
(* its protocol's parser and reply, send_pkt encodes the reply into the    *)
(* write buffer, which is never cleared between packets.                   *)
(*                                                                         *)
(* What TCP replies is TcpConnection's subject: here it is any segment, or *)
(* none.                                                                   *)
(***************************************************************************)
EXTENDS PacketClient

CONSTANTS
    Packets,    \* what clients send: packets that fit the MTU and whose IPv4 header
                \* has its five words or more, which Ipv4Header's parse does not check
    SendInfos,  \* what decide_reply and the retransmission queue ask to send, up to
                \* the MTU; EveryReplyFits of TcpConnection is about larger ones
    Flows,      \* address and port pairs of connections, for retransmissions
    Noise       \* amounts by which a byte may be changed on the way

VARIABLES
    write_buf,
    running,
    packet,   \* Option: the packet read last, as its sender meant it
    damaged,  \* whether it was damaged on the way
    got,      \* Option: what parse_incoming made of it
    reply,    \* Option: what was handed to send_pkt
    sent      \* the bytes written to the device for it

exchange == <<packet, damaged, got, reply, sent>>
responderVars == <<write_buf, running, exchange>>

Ip == INSTANCE Ipv4Header
Icmp == INSTANCE IcmpEchoMsg
Udp == INSTANCE UdpDatagram
Tcp == INSTANCE TcpCodec

-----------------------------------------------------------------------------
(* ProtocolRouter *)

RouterParse(data, protocol, ip_pair) ==
    CASE protocol = "Icmp" -> Icmp!parse(data, ip_pair)
      [] protocol = "Tcp" -> Tcp!parse(data, ip_pair)
      [] protocol = "Udp" -> Udp!parse(data, ip_pair)

\* The replies create_reply may come to, each an Option.
RouterReplies(msg) ==
    CASE msg.protocol = "Icmp" -> {{Icmp!create_reply(msg)}}
      [] msg.protocol = "Udp" -> {{Udp!create_reply(msg)}}
      [] msg.protocol = "Tcp" ->
            {{}} \cup {{Tcp!from_pairs_and_info(swapped(msg.ip_pair), swapped(msg.ports), info)} :
                          info \in SendInfos}

RouterWriteInto(buf, msg) ==
    CASE msg.protocol = "Icmp" -> Icmp!write_into(buf, msg)
      [] msg.protocol = "Tcp" -> Tcp!write_into(buf, msg)
      [] msg.protocol = "Udp" -> Udp!write_into(buf, msg)

-----------------------------------------------------------------------------
(* The server's side of one exchange *)

parse_incoming(data) ==
    UNION {RouterParse(ip.payload, ip.protocol, ip.ip_pair) : ip \in Ip!parse(data)}

\* The bytes of msg in the write buffer, behind an IPv4 header.
Encoded(msg) ==
    UNION {Ip!write_into(First(write_buf, Ip!IPV4_HDR_MIN_LEN) \o body.buf,
                         msg.protocol, msg.ip_pair, body.len) :
              body \in RouterWriteInto(After(write_buf, Ip!IPV4_HDR_MIN_LEN), msg)}

\* An error of send_pkt ends the run, and the buffer with it.
send_pkt(msg) ==
    \/ /\ Encoded(msg) = {}
       /\ running' = FALSE /\ sent' = <<>>
       /\ UNCHANGED write_buf
    \/ \E encoded \in Encoded(msg) :
          /\ write_buf' = encoded.buf
          /\ sent' = First(encoded.buf, encoded.total_len)
          /\ UNCHANGED running

SendOrNot(option) ==
    /\ reply' = option
    /\ \/ option = {} /\ sent' = <<>> /\ UNCHANGED <<write_buf, running>>
       \/ \E msg \in option : send_pkt(msg)

Idle == packet = {} /\ reply = {}

\* The device is readable.
Receive(p, data) ==
    /\ running /\ Idle
    /\ packet' = {p} /\ damaged' = (data # Encode(p))
    /\ got' = parse_incoming(data)
    /\ \/ got' = {} /\ SendOrNot({})
       \/ \E msg \in got' : \E option \in RouterReplies(msg) : SendOrNot(option)

\* make_retransmissions or close_established has a segment to send.
SendSegment(flow, info) ==
    /\ running /\ Idle
    /\ SendOrNot({Tcp!from_pairs_and_info(flow.ip_pair, flow.ports, info)})
    /\ UNCHANGED <<packet, damaged, got>>

\* The loop comes round to poll; only the buffer keeps traces of the exchange.
Poll ==
    /\ running /\ ~Idle
    /\ packet' = {} /\ damaged' = FALSE /\ got' = {} /\ reply' = {} /\ sent' = <<>>
    /\ UNCHANGED <<write_buf, running>>

ResponderInit ==
    /\ write_buf = [i \in 1 .. ETHERNET_MTU |-> 0]
    /\ running = TRUE
    /\ packet = {} /\ damaged = FALSE /\ got = {} /\ reply = {} /\ sent = <<>>

ResponderNext ==
    \/ \E p \in Packets : Receive(p, Encode(p))
    \/ \E p \in Packets : \E at \in DOMAIN Encode(p), by \in Noise : Receive(p, Damaged(Encode(p), at, by))
    \/ \E flow \in Flows, info \in SendInfos : SendSegment(flow, info)
    \/ Poll

ResponderSpec == ResponderInit /\ [][ResponderNext]_responderVars

-----------------------------------------------------------------------------
(* Properties *)

\* "Dropping packets with invalid checksums": no byte changed on the way, in a
\* header or in the data, reaches the reply logic: what parse_incoming accepts
\* is what the sender meant, unless the sender left the UDP checksum out.
DamageIsNoticed == \A p \in packet : p.checked => got \subseteq {p.msg}

\* An undamaged packet without IP options is understood, options and unknown
\* bits of its TCP header notwithstanding.
IntactIsUnderstood == \A p \in packet : (~damaged /\ p.ip_options = <<>>) => got = {p.msg}

\* Every reply to one of the Packets fits the write buffer and is sent, up to a
\* packet as long as the MTU; the client accepts it and reads in it exactly the
\* reply, whatever longer or shorter packets left behind in the buffer.  For ICMP
\* and UDP an undamaged packet is answered, and nothing but the echo of the
\* client's message is.
EchoReachesClient ==
    /\ reply # {} => sent # <<>> /\ Read(sent) = reply
    /\ \A p \in packet : p.msg.protocol # "Tcp" =>
          /\ ~damaged /\ p.ip_options = <<>> => reply = {EchoOf(p.msg)}
          /\ p.checked => reply \subseteq {EchoOf(p.msg)}

\* A UDP reply always carries a checksum: the one that comes out as zero is
\* not sent as zero, which "means the sender chose not to compute one".
UdpIsChecked == \A msg \in reply : (msg.protocol = "Udp" /\ sent # <<>>) => u16(sent, 26) # 0

=============================================================================
