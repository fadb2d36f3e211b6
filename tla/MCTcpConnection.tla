--------------------------- MODULE MCTcpConnection ---------------------------
(***************************************************************************)
(* TcpConnection against an open environment, for TLC: segments whose      *)
(* numbers lie at or next to the edges the handlers compare with.          *)
(***************************************************************************)
EXTENDS TcpConnection

CONSTANTS PeerIsn, MaxStream, MaxCopies, MaxResent

MCPayload == {<<>>, <<1>>, <<2, 1>>}

NearSnd == {Add(snd_una, d) : d \in -1 .. (Flight + 1)}

Segments(seqs, flags, windows, payloads) ==
    [seq_num : seqs, ack_num : NearSnd, flags : flags, window : windows, payload : payloads]

\* A SYN opens a connection.  Later segments are in order, one too old or one
\* too early; the in-order ones vary most, and only segments with an ACK have
\* their ACK number and window read.  An ACK number may also be half the space
\* away from SND.UNA.
Incoming ==
    LET expected == IF tcp_state = "None" THEN PeerIsn ELSE rcv_nxt
        old == IF tcp_state = "None" THEN PeerIsn ELSE Add(rcv_nxt, -1)
        early == IF tcp_state = "None" THEN PeerIsn ELSE Add(rcv_nxt, 1)
    IN  Segments({expected}, {"Ack"}, 0 .. WndMax, Payload)
        \cup Segments({expected}, {"FinAck"}, {0, WndMax}, {<<>>, <<1>>})
        \cup Segments({old}, {"Ack"}, {0, WndMax}, {<<>>, <<1>>})
        \cup Segments({early}, {"Ack", "FinAck"}, {WndMax}, {<<>>})
        \cup [seq_num : {expected}, ack_num : {Add(snd_una, Half)}, flags : {"Ack", "FinAck"},
              window : {WndMax}, payload : {<<>>, <<1>>}]
        \cup [seq_num : {old, expected, early}, ack_num : {snd_una},
              flags : {"Syn", "SynAck", "Rst", "RstAck"}, window : {0}, payload : {<<>>}]

\* MaxStream bounds the bytes of a connection, MaxCopies the duplicate SYNs,
\* MaxResent the segments that have been retransmitted and not acknowledged.
\* The peer's SYN and FIN take two sequence numbers more.
Bounded ==
    /\ tcp_state' # "None" => Sub(rcv_nxt', PeerIsn) <= MaxStream + 2
    /\ Len(accepted') <= MaxStream
    /\ \A p \in pending' : p.copy <= MaxCopies
    /\ Cardinality({p \in pending' : p.retries > 0}) <= MaxResent

MCNext ==
    /\ \/ \E seg \in Incoming : Comparable(seg) /\ decide_reply(seg)
       \/ make_retransmissions
       \/ close_established
    /\ Bounded

MCSpec == Init /\ [][MCNext]_vars

\* The same with nothing assumed of the peer's ACK numbers.
MCAnyAckNext ==
    /\ \/ \E seg \in Incoming : decide_reply(seg)
       \/ make_retransmissions
       \/ close_established
    /\ Bounded

MCAnyAckSpec == Init /\ [][MCAnyAckNext]_vars

\* What the last step sent is not read by any step.
MCView == <<connVars, history>>

=============================================================================
