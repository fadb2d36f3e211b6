---------------------------- MODULE UdpDatagram ----------------------------
(***************************************************************************)
(* UDP datagrams: parsing, the echo reply and encoding.                    *)
(***************************************************************************)
EXTENDS Packet

UDP_HDR_LEN == 8

\* A checksum field of zeros means that the sender computed none.
ChecksumOk(data, ip_pair) == u16(data, 6) # 0 => pseudo_hdr_cksum(data, ip_pair, "Udp") = 0

parse(data, ip_pair) ==
    IF Len(data) >= UDP_HDR_LEN /\ ChecksumOk(data, ip_pair)
    THEN {[protocol |-> "Udp", ip_pair |-> ip_pair,
           ports |-> [src |-> u16(data, 0), dst |-> u16(data, 2)],
           payload |-> After(data, UDP_HDR_LEN)]}
    ELSE {}

create_reply(dgram) == [dgram EXCEPT !.ip_pair = swapped(@), !.ports = swapped(@)]

\* A computed checksum of zero is sent as it is.
Transmitted_Zero(cksum) == cksum

\* A computed checksum of zero is sent as all ones.
Transmitted(cksum) == IF cksum = 0 THEN WordSize - 1 ELSE cksum

write_into(buf, dgram) ==
    LET udp_len == UDP_HDR_LEN + Len(dgram.payload)
        fields == to_be_bytes(dgram.ports.src) \o to_be_bytes(dgram.ports.dst) \o to_be_bytes(udp_len)
        filled == ClearChecksum(CopyInto(CopyInto(buf, 0, fields), UDP_HDR_LEN, dgram.payload), 6)
        udp_cksum == pseudo_hdr_cksum(First(filled, udp_len), dgram.ip_pair, "Udp")
    IN  IF try_get_mut(buf, udp_len)
        THEN {[buf |-> CopyInto(filled, 6, to_be_bytes(Transmitted(udp_cksum))), len |-> udp_len]}
        ELSE {}

=============================================================================
