------------------------------ MODULE EchoClient ------------------------------
(***************************************************************************)
(* The peer the server talks to: a TCP client that follows RFC 9293, sends *)
(* a stream, reads the echo and closes.  It is not part of the repository; *)
(* it is modelled from the segments the handlers in send_info.rs expect    *)
(* and answer.  Its numbers are counted from its ISN: c_acked of the       *)
(* sequence numbers after the SYN are acknowledged.                        *)
(***************************************************************************)
EXTENDS SeqSpace, Sequences

CONSTANTS
    Stream,     \* the bytes the client sends
    ClientIsn,
    ClientBuf,  \* its receive buffer, the largest window it offers
    ClientMss   \* the most bytes it puts into one segment

ASSUME ClientAssumption == ClientIsn \in SeqPoint /\ ClientBuf \in Nat /\ ClientMss \in Nat \ {0}

VARIABLES
    c_state,  \* "Closed", "SynSent", "Open", "Reset"
    c_sent,   \* bytes of Stream sent
    c_fin,    \* its FIN is sent
    c_acked,
    c_rcv,    \* RCV.NXT
    c_got,    \* the echo received in order
    c_wnd,    \* the window it offers
    c_eof,    \* the server's FIN is received
    c_out     \* the segments the last step sent

clientVars == <<c_state, c_sent, c_fin, c_acked, c_rcv, c_got, c_wnd, c_eof>>

SeqAt(k) == Add(ClientIsn, 1 + k)

\* Sequence numbers used after the SYN.
c_nxt == c_sent + IF c_fin THEN 1 ELSE 0

\* Both directions are closed and acknowledged.
ClientDone == c_eof /\ c_fin /\ c_acked = c_nxt

\* Every segment carries the acknowledgment and the window of the new state.
ClientSegment(seq, flags, payload) ==
    [seq_num |-> seq, ack_num |-> c_rcv', flags |-> flags, window |-> c_wnd', payload |-> payload]

ClientAck == ClientSegment(SeqAt(c_nxt), "Ack", <<>>)

ClientRst(m) ==
    [seq_num |-> m.ack_num, ack_num |-> 0, flags |-> "Rst", window |-> 0, payload |-> <<>>]

ClientInit ==
    /\ c_state = "Closed"
    /\ c_sent = 0 /\ c_fin = FALSE /\ c_acked = 0
    /\ c_rcv = 0 /\ c_got = <<>> /\ c_wnd = ClientBuf /\ c_eof = FALSE
    /\ c_out = {}

ClientConnects ==
    /\ c_state = "Closed"
    /\ c_state' = "SynSent"
    /\ UNCHANGED <<c_sent, c_fin, c_acked, c_rcv, c_got, c_wnd, c_eof>>
    /\ c_out' = {ClientSegment(ClientIsn, "Syn", <<>>)}

ClientSends ==
    /\ c_state = "Open" /\ ~c_fin
    /\ \E n \in 1 .. ClientMss :
          /\ c_sent + n <= Len(Stream)
          /\ c_sent' = c_sent + n
          /\ UNCHANGED <<c_state, c_fin, c_acked, c_rcv, c_got, c_wnd, c_eof>>
          /\ c_out' = {ClientSegment(SeqAt(c_sent), "Ack", SubSeq(Stream, c_sent + 1, c_sent + n))}

\* The client closes when it has sent its stream, whether or not the echo is back.
ClientCloses ==
    /\ c_state = "Open" /\ ~c_fin /\ c_sent = Len(Stream)
    /\ c_fin' = TRUE
    /\ UNCHANGED <<c_state, c_sent, c_acked, c_rcv, c_got, c_wnd, c_eof>>
    /\ c_out' = {ClientSegment(SeqAt(c_sent), "FinAck", <<>>)}

\* The retransmission timer: the SYN, or what follows the acknowledged part.
ClientRetransmits ==
    /\ UNCHANGED clientVars
    /\ \/ /\ c_state = "SynSent"
          /\ c_out' = {ClientSegment(ClientIsn, "Syn", <<>>)}
       \/ /\ c_state = "Open" /\ c_acked < c_nxt
          /\ LET last == IF c_acked + ClientMss < c_sent THEN c_acked + ClientMss ELSE c_sent
             IN  c_out' = {ClientSegment(SeqAt(c_acked),
                                         IF c_fin /\ last = c_sent THEN "FinAck" ELSE "Ack",
                                         SubSeq(Stream, c_acked + 1, last))}

\* The application reads what has arrived: the window opens and is announced.
ClientReads ==
    /\ c_state = "Open" /\ ~c_eof /\ c_wnd < ClientBuf
    /\ c_wnd' = ClientBuf
    /\ UNCHANGED <<c_state, c_sent, c_fin, c_acked, c_rcv, c_got, c_eof>>
    /\ c_out' = {ClientAck}

-----------------------------------------------------------------------------
(* An incoming segment *)

Ignore == UNCHANGED clientVars /\ c_out' = {}

ClientHandshake(m) ==
    /\ c_state = "SynSent"
    /\ \/ /\ m.flags = "SynAck" /\ m.ack_num = SeqAt(0)
          /\ c_state' = "Open"
          /\ c_rcv' = Add(m.seq_num, 1)
          /\ UNCHANGED <<c_sent, c_fin, c_acked, c_got, c_wnd, c_eof>>
          /\ c_out' = {ClientAck}
       \/ /\ m.flags # "Rst" /\ m.ack_num # SeqAt(0)
          /\ UNCHANGED clientVars
          /\ c_out' = {ClientRst(m)}
       \/ /\ m.flags = "Rst" \/ (m.flags # "SynAck" /\ m.ack_num = SeqAt(0))
          /\ Ignore

\* The bytes of m from RCV.NXT on that fit the window.
NewBytes(m) ==
    LET old == Sub(c_rcv, m.seq_num)
        end == IF old + c_wnd < Len(m.payload) THEN old + c_wnd ELSE Len(m.payload)
    IN  SubSeq(m.payload, old + 1, end)

\* m holds the sequence number RCV.NXT, or is empty and sits there.
Reaches(m) ==
    /\ precedes_or_eq(m.seq_num, c_rcv)
    /\ \/ m.seq_num = c_rcv
       \/ Sub(c_rcv, m.seq_num) < Len(m.payload) + IF m.flags = "FinAck" THEN 1 ELSE 0

\* m starts beyond RCV.NXT and inside the window.
InClientWindow(m) == Sub(m.seq_num, c_rcv) \in 1 .. (c_wnd - 1)

\* The FIN of m follows what has been received.
TakesFin(m) == ~c_eof /\ m.flags = "FinAck"
               /\ Add(c_rcv, Len(NewBytes(m))) = Add(m.seq_num, Len(m.payload))

\* How many sequence numbers m acknowledges, as a count from the client's ISN.
AckCount(m) == Sub(m.ack_num, SeqAt(0))

AckedBy(m) == IF AckCount(m) \in c_acked .. c_nxt THEN AckCount(m) ELSE c_acked

IsPureAck(m) == m.flags = "Ack" /\ m.payload = <<>>

ClientData(m) ==
    /\ c_state = "Open"
    /\ m.flags \in {"Ack", "FinAck"}
    /\ \/ /\ Reaches(m)
          /\ c_got' = c_got \o NewBytes(m)
          /\ c_eof' = (c_eof \/ TakesFin(m))
          /\ c_rcv' = Add(c_rcv, Len(NewBytes(m)) + IF TakesFin(m) THEN 1 ELSE 0)
          /\ c_wnd' = c_wnd - Len(NewBytes(m))
          /\ c_acked' = AckedBy(m)
          /\ UNCHANGED <<c_state, c_sent, c_fin>>
          /\ c_out' = IF IsPureAck(m) THEN {} ELSE {ClientAck}
       \/ /\ InClientWindow(m)
          /\ c_acked' = AckedBy(m)
          /\ UNCHANGED <<c_state, c_sent, c_fin, c_rcv, c_got, c_wnd, c_eof>>
          /\ c_out' = IF IsPureAck(m) THEN {} ELSE {ClientAck}
       \/ /\ ~Reaches(m) /\ ~InClientWindow(m)
          /\ UNCHANGED clientVars
          /\ c_out' = {ClientAck}

ClientControl(m) ==
    /\ c_state = "Open"
    /\ \/ /\ m.flags = "Rst" /\ m.seq_num = c_rcv /\ ~ClientDone
          /\ c_state' = "Reset"
          /\ UNCHANGED <<c_sent, c_fin, c_acked, c_rcv, c_got, c_wnd, c_eof>>
          /\ c_out' = {}
       \/ /\ m.flags = "SynAck" \/ (m.flags = "Rst" /\ InClientWindow(m))
          /\ UNCHANGED clientVars
          /\ c_out' = {ClientAck}
       \/ /\ m.flags = "Rst" /\ ~InClientWindow(m) /\ (m.seq_num # c_rcv \/ ClientDone)
          /\ Ignore

\* No connection: whatever is not a RST is answered with one.
ClientAbsent(m) ==
    /\ c_state \in {"Closed", "Reset"}
    /\ UNCHANGED clientVars
    /\ c_out' = IF m.flags = "Rst" THEN {} ELSE {ClientRst(m)}

ClientReceives(m) == ClientHandshake(m) \/ ClientData(m) \/ ClientControl(m) \/ ClientAbsent(m)

=============================================================================
