-------------------------- MODULE MCEchoResponder --------------------------
(***************************************************************************)
(* A client at 10.0.0.1 and the server at 10.0.0.2, as in the repository's *)
(* examples, with payloads up to what the MTU leaves.  The packets are     *)
(* those of a conforming client, damaged or not on the way.                *)
(***************************************************************************)
EXTENDS EchoResponder

Pair == [src |-> <<10, 0, 0, 1>>, dst |-> <<10, 0, 0, 2>>]

\* With the payload <<230, 181>> these make a UDP checksum of zero.
Ports == [src |-> 1234, dst |-> 80]

Plain(msg) == [msg |-> msg, checked |-> TRUE, ip_options |-> <<>>, tcp_options |-> <<>>, push |-> FALSE]

Fill(n) == [i \in 1 .. n |-> 255 - i]

IcmpMsg(payload) ==
    [protocol |-> "Icmp", ip_pair |-> Pair, icmp_type |-> 8, identifier |-> 4660, sequence |-> 1,
     payload |-> payload]

UdpMsg(payload) == [protocol |-> "Udp", ip_pair |-> Pair, ports |-> Ports, payload |-> payload]

TcpMsg(flags, payload) ==
    [protocol |-> "Tcp", ip_pair |-> Pair, ports |-> Ports, seq_num |-> <<65535, 65535>>,
     ack_num |-> <<256, 0>>, flags |-> flags, window |-> 512, payload |-> payload]

MCPackets ==
    {Plain(IcmpMsg(data)) : data \in {<<>>, <<7>>, Fill(ETHERNET_MTU - 28)}}
    \cup {Plain(UdpMsg(data)) : data \in {<<>>, <<230, 181>>, Fill(ETHERNET_MTU - 28)}}
    \cup {[Plain(UdpMsg(<<0, 9, 0>>)) EXCEPT !.checked = FALSE],
          [Plain(UdpMsg(<<5>>)) EXCEPT !.ip_options = <<1, 1, 1, 0>>],
          [Plain(TcpMsg("Syn", <<>>)) EXCEPT !.tcp_options = <<2, 4, 5, 180>>],
          [Plain(TcpMsg("Ack", <<104, 105>>)) EXCEPT !.push = TRUE]}

MCFlows == {[ip_pair |-> swapped(Pair), ports |-> swapped(Ports)]}

MCSendInfos ==
    {[seq_num |-> <<1, 65535>>, ack_num |-> <<0, 0>>, flags |-> "SynAck", payload |-> <<>>],
     [seq_num |-> <<2, 0>>, ack_num |-> <<0, 2>>, flags |-> "Ack", payload |-> Fill(ETHERNET_MTU - 40)]}

=============================================================================
