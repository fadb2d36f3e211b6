---------------------------- MODULE IcmpEchoMsg ----------------------------
(***************************************************************************)
(* ICMP Echo Request and Reply: parsing, the reply and encoding.           *)
(***************************************************************************)
EXTENDS Packet

ICMP_HDR_LEN == 8
ICMP_TYPE_ECHO_REQUEST == 8
ICMP_TYPE_ECHO_REPLY == 0
ICMP_CODE_ECHO == 0

\* The checksum is not verified.
ChecksumOk_Unverified(data) == TRUE

ChecksumOk(data) == calculate(data) = 0

parse(data, ip_pair) ==
    IF /\ Len(data) >= ICMP_HDR_LEN
       /\ ChecksumOk(data)
       /\ data[1] = ICMP_TYPE_ECHO_REQUEST /\ data[2] = ICMP_CODE_ECHO
    THEN {[protocol |-> "Icmp", ip_pair |-> ip_pair, icmp_type |-> data[1],
           identifier |-> u16(data, 4), sequence |-> u16(data, 6),
           payload |-> After(data, ICMP_HDR_LEN)]}
    ELSE {}

create_reply(msg) == [msg EXCEPT !.ip_pair = swapped(@), !.icmp_type = ICMP_TYPE_ECHO_REPLY]

write_into(buf, msg) ==
    LET icmp_len == ICMP_HDR_LEN + Len(msg.payload)
        fields == to_be_bytes(msg.identifier) \o to_be_bytes(msg.sequence) \o msg.payload
        filled == ClearChecksum(CopyInto(CopyInto(buf, 0, <<msg.icmp_type, ICMP_CODE_ECHO>>), 4, fields), 2)
    IN  IF try_get_mut(buf, icmp_len)
        THEN {[buf |-> CopyInto(filled, 2, to_be_bytes(calculate(First(filled, icmp_len)))),
               len |-> icmp_len]}
        ELSE {}

=============================================================================
