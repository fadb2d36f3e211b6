---------------------------- MODULE TcpConnection ----------------------------
(***************************************************************************)
(* One entry of the server's connection table: its ConnState, the handlers *)
(* SendInfo::decide_reply dispatches an incoming segment to, the           *)
(* retransmission of its pending segments, and active close.               *)
(*                                                                         *)
(* The environment is open: any segment may arrive at any time.  Time is   *)
(* abstracted: any non-empty set of pending segments may be due.           *)
(***************************************************************************)
EXTENDS SeqSpace, ConnPhases, Sequences, FiniteSets

CONSTANTS
    Byte,        \* values of a payload byte
    Payload,     \* payloads an incoming segment may carry; <<>> is None
    MaxPayload,  \* payload bytes that fit an MTU next to both headers (1460)
    WndMax,      \* the largest window a header can carry (u16::MAX)
    MaxRetries,  \* TcpConnections::max_retries
    InitialSeq   \* the values sys::random_u32 may return

ASSUME ByteAssumption == Payload \subseteq Seq(Byte)
ASSUME MaxPayloadAssumption == \A data \in Payload : Len(data) <= MaxPayload
ASSUME WndAssumption == WndMax \in Nat /\ WndMax + 1 < Half
ASSUME RetriesAssumption == MaxRetries \in Nat
ASSUME InitialSeqAssumption == InitialSeq \subseteq SeqPoint

VARIABLES
    tcp_state,     \* "None" when the table has no entry
    snd_nxt, rcv_nxt, snd_una,
    window_state,  \* SND.WND, SND.WL1, SND.WL2
    pending,       \* unacknowledged segments, kept for retransmission
    send_buffer,   \* bytes received and not yet echoed
    out,           \* the segments the last step handed to send_pkt
    accepted,      \* history: bytes queued for echoing, in order
    echoed         \* history: bytes sent for the first time, in order

connVars == <<tcp_state, snd_nxt, rcv_nxt, snd_una, window_state, pending, send_buffer>>
history == <<accepted, echoed>>
vars == <<connVars, out, history>>

TcpFlags == {"Syn", "SynAck", "Ack", "FinAck", "Rst", "RstAck"}

\* The window this server advertises is u16::MAX.
RCV_WND == WndMax

TcpSegment == [seq_num : SeqPoint, ack_num : SeqPoint, flags : TcpFlags,
               window : 0 .. WndMax, payload : Payload]

SendInfo == [seq_num : SeqPoint, ack_num : SeqPoint, flags : TcpFlags, payload : Seq(Byte)]

WindowState == [snd_wnd : 0 .. WndMax, snd_wl1 : SeqPoint, snd_wl2 : SeqPoint]

\* `copy` tells apart entries of the Vec that are otherwise equal.
PendingSegment == [send_info : SendInfo, end_seq : SeqPoint, retries : 0 .. MaxRetries, copy : Nat]

NoWindow == [snd_wnd |-> 0, snd_wl1 |-> 0, snd_wl2 |-> 0]

-----------------------------------------------------------------------------
(* Outgoing segments *)

pure_ack(nxt, rcv) == [seq_num |-> nxt, ack_num |-> rcv, flags |-> "Ack", payload |-> <<>>]

rst(seg) == [seq_num |-> seg.ack_num, ack_num |-> 0, flags |-> "Rst", payload |-> <<>>]

SynAck(isn, seg) ==
    [seq_num |-> isn, ack_num |-> Add(seg.seq_num, 1), flags |-> "SynAck", payload |-> <<>>]

\* write_into finds room for the payload in the buffer behind the headers.
write_into_fits(info) == Len(info.payload) <= MaxPayload

-----------------------------------------------------------------------------
(* Retransmission queue *)

\* Sequence numbers a segment consumes: one for a SYN or FIN, one per byte.
SegLen(info) == Len(info.payload) + IF info.flags \in {"Syn", "SynAck", "FinAck"} THEN 1 ELSE 0

NewPending(queue, info) ==
    [send_info |-> info,
     end_seq |-> Add(info.seq_num, SegLen(info)),
     retries |-> 0,
     copy |-> Cardinality({p \in queue : p.send_info.seq_num = info.seq_num})]

push(queue, info) == queue \cup {NewPending(queue, info)}

\* A segment whose first byte is acknowledged counts as covered.
is_covered_by_Start(p, ack_num) == precedes_or_eq(p.send_info.seq_num, ack_num)

\* A segment acknowledged up to its very end does not count as covered.
is_covered_by_Strict(p, ack_num) == precedes(p.end_seq, ack_num)

is_covered_by(p, ack_num) == precedes_or_eq(p.end_seq, ack_num)

exhausted_retries(p) == p.retries >= MaxRetries

Retransmitted(p) == [p EXCEPT !.retries = @ + 1]

-----------------------------------------------------------------------------
(* SyncedState::incoming_ack_update *)

AckAcceptable(seg) ==
    /\ precedes_or_eq(snd_una, seg.ack_num)
    /\ precedes_or_eq(seg.ack_num, snd_nxt)

AckAdvances(seg) == AckAcceptable(seg) /\ precedes(snd_una, seg.ack_num)

\* Guards against an old or reordered segment clobbering the window.
WindowIsFresh(seg) ==
    \/ precedes(window_state.snd_wl1, seg.seq_num)
    \/ /\ window_state.snd_wl1 = seg.seq_num
       /\ precedes_or_eq(window_state.snd_wl2, seg.ack_num)

WindowFrom(seg) == [snd_wnd |-> seg.window, snd_wl1 |-> seg.seq_num, snd_wl2 |-> seg.ack_num]

\* Any advance counts as an acknowledgment of everything sent.
UnaAfter_All(seg) == IF AckAdvances(seg) THEN snd_nxt ELSE snd_una

UnaAfter(seg) == IF AckAdvances(seg) THEN seg.ack_num ELSE snd_una

PendingAfter(seg) ==
    IF AckAdvances(seg) THEN {p \in pending : ~is_covered_by(p, seg.ack_num)} ELSE pending

WindowAfter(seg) ==
    IF AckAcceptable(seg) /\ WindowIsFresh(seg) THEN WindowFrom(seg) ELSE window_state

incoming_ack_update(seg) ==
    /\ snd_una' = UnaAfter(seg)
    /\ window_state' = WindowAfter(seg)

-----------------------------------------------------------------------------
(* Sending from the buffer *)

\* The window is taken as free space, whatever is in flight.
Transmittable_WholeWindow(una, wnd, buffer) == IF wnd < Len(buffer) THEN wnd ELSE Len(buffer)

\* How many bytes of `buffer` drain_transmittable removes, given SND.UNA and SND.WND.
\* Its error, SND.UNA past SND.NXT, cannot happen (DrainNeverErrs in TcpStepProofs).
Transmittable(una, wnd, buffer) ==
    LET space == saturating_sub(wnd, Sub(snd_nxt, una))
    IN  IF space < Len(buffer) THEN space ELSE Len(buffer)

\* The bytes are taken from the wrong end.
Drain_Back(buffer, n) ==
    /\ send_buffer' = SubSeq(buffer, 1, Len(buffer) - n)
    /\ echoed' = echoed \o SubSeq(buffer, Len(buffer) - n + 1, Len(buffer))

\* Removes the first n bytes of `buffer`; they go out for the first time.
Drain(buffer, n) ==
    /\ send_buffer' = SubSeq(buffer, n + 1, Len(buffer))
    /\ echoed' = echoed \o SubSeq(buffer, 1, n)

\* SND.NXT advances before the segment is made.
SendData_AdvanceFirst(una, wnd, buffer, queue, otherwise) ==
    LET n == Transmittable(una, wnd, buffer)
        data == [seq_num |-> Add(snd_nxt, n), ack_num |-> rcv_nxt', flags |-> "Ack",
                 payload |-> SubSeq(buffer, 1, n)]
    IN  /\ Drain(buffer, n)
        /\ snd_nxt' = Add(snd_nxt, n)
        /\ pending' = IF n > 0 THEN push(queue, data) ELSE queue
        /\ out' = IF n > 0 THEN {data} ELSE otherwise

\* drain_transmittable and data_payload: sends what the window allows from
\* `buffer`; `otherwise` goes out if that is nothing.
SendData(una, wnd, buffer, queue, otherwise) ==
    LET n == Transmittable(una, wnd, buffer)
        data == [seq_num |-> snd_nxt, ack_num |-> rcv_nxt', flags |-> "Ack",
                 payload |-> SubSeq(buffer, 1, n)]
    IN  /\ Drain(buffer, n)
        /\ snd_nxt' = Add(snd_nxt, n)
        /\ pending' = IF n > 0 THEN push(queue, data) ELSE queue
        /\ out' = IF n > 0 THEN {data} ELSE otherwise

\* The FIN-ACK leaves the drained bytes out.
SendFin_Bare(una, wnd, buffer, queue) ==
    LET n == Transmittable(una, wnd, buffer)
        fin == [seq_num |-> snd_nxt, ack_num |-> rcv_nxt', flags |-> "FinAck", payload |-> <<>>]
    IN  /\ Drain(buffer, n)
        /\ snd_nxt' = Add(snd_nxt, 1)
        /\ pending' = push(queue, fin)
        /\ out' = {fin}

\* The same for the FIN-ACK of a passive close, which goes out in any case.
SendFin(una, wnd, buffer, queue) ==
    LET n == Transmittable(una, wnd, buffer)
        fin == [seq_num |-> snd_nxt, ack_num |-> rcv_nxt', flags |-> "FinAck",
                payload |-> SubSeq(buffer, 1, n)]
    IN  /\ Drain(buffer, n)
        /\ snd_nxt' = Add(Add(snd_nxt, n), 1)
        /\ pending' = push(queue, fin)
        /\ out' = {fin}

-----------------------------------------------------------------------------
(* Steps that leave the connection as it is, or drop it *)

Reply(segs) == out' = segs /\ UNCHANGED <<connVars, history>>

ResetConn ==
    /\ tcp_state' = "None"
    /\ snd_nxt' = 0 /\ rcv_nxt' = 0 /\ snd_una' = 0
    /\ window_state' = NoWindow
    /\ pending' = {}
    /\ send_buffer' = <<>>
    /\ accepted' = <<>> /\ echoed' = <<>>

remove(segs) == ResetConn /\ out' = segs

-----------------------------------------------------------------------------
(* decide_reply, one action per handler; within one, a disjunct per match arm *)

handle_unknown_conn(seg) ==
    /\ tcp_state = "None"
    /\ \/ /\ seg.flags = "Syn"
          /\ \E isn \in InitialSeq :
                /\ tcp_state' = "SynReceived"
                /\ snd_nxt' = Add(isn, 1)
                /\ rcv_nxt' = Add(seg.seq_num, 1)
                /\ snd_una' = isn
                /\ pending' = push({}, SynAck(isn, seg))
                /\ out' = {SynAck(isn, seg)}
          /\ UNCHANGED <<window_state, send_buffer, history>>
       \/ /\ seg.flags = "Syn" \* random_u32 failed
          /\ Reply({})
       \/ /\ seg.flags \in {"Rst", "RstAck"}
          /\ Reply({})
       \/ /\ seg.flags \in {"SynAck", "Ack", "FinAck"}
          /\ Reply({rst(seg)})

InReceiveWindow(seg) ==
    /\ precedes_or_eq(rcv_nxt, seg.seq_num)
    /\ precedes(seg.seq_num, Add(rcv_nxt, RCV_WND))

\* A RST on a known connection: reset it, challenge it or drop it.
handle_rst(seg) ==
    /\ tcp_state # "None"
    /\ seg.flags \in {"Rst", "RstAck"}
    /\ \/ /\ seg.seq_num = rcv_nxt
          /\ remove({})
       \/ /\ seg.seq_num # rcv_nxt /\ InReceiveWindow(seg)
          /\ Reply({pure_ack(snd_nxt, rcv_nxt)})
       \/ /\ seg.seq_num # rcv_nxt /\ ~InReceiveWindow(seg)
          /\ Reply({})

\* A stray SYN or SYN-ACK on a synchronized connection: challenge ACK.
handle_stray_syn(seg) ==
    /\ tcp_state \notin {"None", "SynReceived"}
    /\ seg.flags \in {"Syn", "SynAck"}
    /\ Reply({pure_ack(snd_nxt, rcv_nxt)})

\* Only a pure ACK completes the handshake.
CompletesHandshake_Pure(seg) ==
    /\ seg.flags \in {"Ack", "FinAck"} /\ seg.payload = <<>>
    /\ seg.seq_num = rcv_nxt
    /\ precedes(snd_una, seg.ack_num)
    /\ precedes_or_eq(seg.ack_num, snd_nxt)

\* The ACK of our SYN-ACK, in order.
CompletesHandshake(seg) ==
    /\ seg.flags \in {"Ack", "FinAck"}
    /\ seg.seq_num = rcv_nxt
    /\ precedes(snd_una, seg.ack_num)
    /\ precedes_or_eq(seg.ack_num, snd_nxt)

\* The SYN-ACKs stay in the queue.
clear_Nothing(queue) == queue

\* conn.pending.clear()
clear(queue) == {}

complete_handshake(seg) ==
    /\ snd_una' = seg.ack_num
    /\ window_state' = WindowFrom(seg)

handle_syn_rcv(seg) ==
    /\ tcp_state = "SynReceived"
    /\ \/ /\ seg.flags = "Syn"
          /\ pending' = push(pending, SynAck(snd_una, seg))
          /\ out' = {SynAck(snd_una, seg)}
          /\ UNCHANGED <<tcp_state, snd_nxt, rcv_nxt, snd_una, window_state, send_buffer, history>>
       \/ /\ seg.flags \in {"Ack", "FinAck"} /\ seg.seq_num # rcv_nxt
          /\ Reply({pure_ack(snd_nxt, rcv_nxt)})
       \/ /\ CompletesHandshake(seg) /\ seg.flags = "Ack"
          /\ tcp_state' = "Established"
          /\ complete_handshake(seg)
          /\ rcv_nxt' = Add(seg.seq_num, Len(seg.payload))
          /\ accepted' = accepted \o seg.payload
          /\ SendData(seg.ack_num, seg.window, send_buffer \o seg.payload, clear(pending),
                      IF seg.payload = <<>> THEN {} ELSE {pure_ack(snd_nxt, rcv_nxt')})
       \/ /\ CompletesHandshake(seg) /\ seg.flags = "FinAck"
          /\ tcp_state' = "LastAck"
          /\ complete_handshake(seg)
          /\ rcv_nxt' = Add(Add(seg.seq_num, Len(seg.payload)), 1)
          /\ accepted' = accepted \o seg.payload
          /\ SendFin(seg.ack_num, seg.window, send_buffer \o seg.payload, clear(pending))
       \/ /\ \/ seg.flags = "SynAck"
             \/ /\ seg.flags \in {"Ack", "FinAck"} /\ seg.seq_num = rcv_nxt
                /\ ~CompletesHandshake(seg)
          /\ Reply({rst(seg)})

handle_established(seg) ==
    /\ tcp_state = "Established"
    /\ \/ /\ seg.flags = "Ack" /\ precedes(snd_nxt, seg.ack_num)
          /\ Reply({pure_ack(snd_nxt, rcv_nxt)})
       \/ /\ seg.flags = "Ack" /\ ~precedes(snd_nxt, seg.ack_num)
          /\ seg.payload = <<>>
          /\ incoming_ack_update(seg)
          /\ UNCHANGED <<tcp_state, rcv_nxt, accepted>>
          /\ SendData(UnaAfter(seg), WindowAfter(seg).snd_wnd, send_buffer, PendingAfter(seg), {})
       \/ /\ seg.flags = "Ack" /\ ~precedes(snd_nxt, seg.ack_num)
          /\ seg.payload # <<>> /\ seg.seq_num = rcv_nxt
          /\ incoming_ack_update(seg)
          /\ rcv_nxt' = Add(rcv_nxt, Len(seg.payload))
          /\ accepted' = accepted \o seg.payload
          /\ UNCHANGED tcp_state
          /\ SendData(UnaAfter(seg), WindowAfter(seg).snd_wnd, send_buffer \o seg.payload,
                      PendingAfter(seg), {pure_ack(snd_nxt, rcv_nxt')})
       \/ /\ \/ seg.flags = "Ack" /\ ~precedes(snd_nxt, seg.ack_num) /\ seg.payload # <<>>
             \/ seg.flags = "FinAck"
          /\ seg.seq_num # rcv_nxt
          /\ incoming_ack_update(seg)
          /\ pending' = PendingAfter(seg)
          /\ out' = {pure_ack(snd_nxt, rcv_nxt)}
          /\ UNCHANGED <<tcp_state, snd_nxt, rcv_nxt, send_buffer, history>>
       \/ /\ seg.flags = "FinAck" /\ seg.seq_num = rcv_nxt
          /\ tcp_state' = "LastAck"
          /\ incoming_ack_update(seg)
          /\ rcv_nxt' = Add(Add(rcv_nxt, Len(seg.payload)), 1)
          /\ accepted' = accepted \o seg.payload
          /\ SendFin(UnaAfter(seg), WindowAfter(seg).snd_wnd, send_buffer \o seg.payload,
                     PendingAfter(seg))

\* In-order data after our FIN is echoed like any other.
DiscardData_Echo(seg) ==
    /\ seg.flags = "Ack" /\ seg.payload # <<>> /\ seg.seq_num = rcv_nxt
    /\ rcv_nxt' = Add(rcv_nxt, Len(seg.payload))
    /\ incoming_ack_update(seg)
    /\ accepted' = accepted \o seg.payload
    /\ UNCHANGED tcp_state
    /\ SendData(UnaAfter(seg), WindowAfter(seg).snd_wnd, send_buffer \o seg.payload,
                PendingAfter(seg), {pure_ack(snd_nxt, rcv_nxt')})

\* In-order data after our FIN: acknowledged, not echoed.
DiscardData(seg) ==
    /\ seg.flags = "Ack" /\ seg.payload # <<>> /\ seg.seq_num = rcv_nxt
    /\ rcv_nxt' = Add(rcv_nxt, Len(seg.payload))
    /\ out' = {pure_ack(snd_nxt, rcv_nxt')}
    /\ incoming_ack_update(seg)
    /\ pending' = PendingAfter(seg)
    /\ UNCHANGED <<tcp_state, snd_nxt, send_buffer, history>>

\* RCV.NXT once trailing data and the peer's FIN are consumed.
RcvAfterFin(seg) == Add(Add(rcv_nxt, Len(seg.payload)), 1)

handle_fin_wait_1(seg) ==
    /\ tcp_state = "FinWait1"
    /\ \/ DiscardData(seg)
       \/ /\ seg.flags = "Ack" /\ seg.payload = <<>> /\ seg.ack_num = snd_nxt
          /\ tcp_state' = "FinWait2"
          /\ incoming_ack_update(seg)
          /\ pending' = PendingAfter(seg)
          /\ out' = {}
          /\ UNCHANGED <<snd_nxt, rcv_nxt, send_buffer, history>>
       \/ /\ seg.flags = "FinAck" /\ seg.seq_num = rcv_nxt /\ seg.ack_num = snd_nxt
          /\ remove({pure_ack(snd_nxt, RcvAfterFin(seg))})
       \/ /\ seg.flags = "FinAck" /\ seg.seq_num = rcv_nxt /\ seg.ack_num # snd_nxt
          /\ tcp_state' = "Closing"
          /\ rcv_nxt' = RcvAfterFin(seg)
          /\ out' = {pure_ack(snd_nxt, rcv_nxt')}
          /\ incoming_ack_update(seg)
          /\ pending' = PendingAfter(seg)
          /\ UNCHANGED <<snd_nxt, send_buffer, history>>
       \/ /\ \/ seg.flags = "Ack" /\ seg.payload # <<>> /\ seg.seq_num # rcv_nxt
             \/ seg.flags = "Ack" /\ seg.payload = <<>> /\ seg.ack_num # snd_nxt
             \/ seg.flags = "FinAck" /\ seg.seq_num # rcv_nxt
          /\ Reply({rst(seg)})

handle_fin_wait_2(seg) ==
    /\ tcp_state = "FinWait2"
    /\ \/ DiscardData(seg)
       \/ /\ seg.flags = "FinAck" /\ seg.seq_num = rcv_nxt
          /\ remove({pure_ack(snd_nxt, RcvAfterFin(seg))})
       \/ /\ \/ seg.flags = "Ack" /\ (seg.payload = <<>> \/ seg.seq_num # rcv_nxt)
             \/ seg.flags = "FinAck" /\ seg.seq_num # rcv_nxt
          /\ Reply({rst(seg)})

\* A pure ACK that covers everything sent, our FIN included.
AcksOurFin(seg) == seg.flags = "Ack" /\ seg.payload = <<>> /\ seg.ack_num = snd_nxt

handle_closing(seg) ==
    /\ tcp_state = "Closing"
    /\ \/ /\ AcksOurFin(seg)
          /\ remove({})
       \/ /\ seg.flags \in {"Ack", "FinAck"} /\ ~AcksOurFin(seg)
          /\ Reply({rst(seg)})

\* The ACK of our FIN empties the queue and the connection stays.
handle_last_ack_Stays(seg) ==
    /\ tcp_state = "LastAck"
    /\ \/ /\ seg.flags = "Ack" /\ seg.payload = <<>>
          /\ incoming_ack_update(seg)
          /\ pending' = PendingAfter(seg)
          /\ out' = {}
          /\ UNCHANGED <<tcp_state, snd_nxt, rcv_nxt, send_buffer, history>>
       \/ /\ \/ seg.flags = "Ack" /\ seg.payload # <<>>
             \/ seg.flags = "FinAck"
          /\ Reply({rst(seg)})

handle_last_ack(seg) ==
    /\ tcp_state = "LastAck"
    /\ \/ /\ seg.flags = "Ack" /\ seg.payload = <<>> /\ seg.ack_num # snd_nxt
          /\ incoming_ack_update(seg)
          /\ pending' = PendingAfter(seg)
          /\ out' = {}
          /\ UNCHANGED <<tcp_state, snd_nxt, rcv_nxt, send_buffer, history>>
       \/ /\ AcksOurFin(seg)
          /\ remove({})
       \/ /\ \/ seg.flags = "Ack" /\ seg.payload # <<>>
             \/ seg.flags = "FinAck"
          /\ Reply({rst(seg)})

decide_reply(seg) ==
    \/ handle_unknown_conn(seg)
    \/ handle_rst(seg)
    \/ handle_stray_syn(seg)
    \/ handle_syn_rcv(seg)
    \/ handle_established(seg)
    \/ handle_fin_wait_1(seg)
    \/ handle_fin_wait_2(seg)
    \/ handle_closing(seg)
    \/ handle_last_ack(seg)

-----------------------------------------------------------------------------
(* TcpConnections: retransmission and active close *)

\* Some pending segments are due and none of them is out of retries: resend them.
Retransmit(due) ==
    /\ due # {}
    /\ \A p \in due : ~exhausted_retries(p)
    /\ pending' = (pending \ due) \cup {Retransmitted(p) : p \in due}
    /\ out' = {p.send_info : p \in due}
    /\ UNCHANGED <<tcp_state, snd_nxt, rcv_nxt, snd_una, window_state, send_buffer, history>>

\* A due segment is out of retries: drop the connection without a word.
GiveUp(due) ==
    /\ \E p \in due : exhausted_retries(p)
    /\ remove({})

make_retransmissions == \E due \in SUBSET pending : Retransmit(due) \/ GiveUp(due)

close_established ==
    /\ tcp_state = "Established"
    /\ LET fin == [seq_num |-> snd_nxt, ack_num |-> rcv_nxt, flags |-> "FinAck", payload |-> <<>>]
       IN  /\ pending' = push(pending, fin)
           /\ out' = {fin}
    /\ tcp_state' = "FinWait1"
    /\ snd_nxt' = Add(snd_nxt, 1)
    /\ UNCHANGED <<rcv_nxt, snd_una, window_state, send_buffer, history>>

-----------------------------------------------------------------------------
Init ==
    /\ tcp_state = "None"
    /\ snd_nxt = 0 /\ rcv_nxt = 0 /\ snd_una = 0
    /\ window_state = NoWindow
    /\ pending = {}
    /\ send_buffer = <<>>
    /\ out = {}
    /\ accepted = <<>> /\ echoed = <<>>

Next ==
    \/ \E seg \in TcpSegment : decide_reply(seg)
    \/ make_retransmissions
    \/ close_established

Spec == Init /\ [][Next]_vars

\* An assumption about the peer, which no code enforces.  RFC 1982 leaves the
\* comparison of antipodes undefined, and segments "should never be this far away
\* from each other" (seq_space.rs): the peer sends no ACK number exactly half the
\* space away from SND.UNA while nothing is in flight.  It is the one number out
\* of range that incoming_ack_update accepts (see UnaOnlyAdvances).
Comparable(seg) == tcp_state # "None" /\ snd_una = snd_nxt => seg.ack_num # Add(snd_una, Half)

\* A connection with a peer that sends comparable ACK numbers.
ComparableNext ==
    \/ \E seg \in TcpSegment : Comparable(seg) /\ decide_reply(seg)
    \/ make_retransmissions
    \/ close_established

ComparableSpec == Init /\ [][ComparableNext]_vars

-----------------------------------------------------------------------------
(* Properties *)

TypeOK ==
    /\ tcp_state \in TcpState
    /\ snd_nxt \in SeqPoint /\ rcv_nxt \in SeqPoint /\ snd_una \in SeqPoint
    /\ window_state \in WindowState
    /\ pending \subseteq PendingSegment /\ IsFiniteSet(pending)
    /\ send_buffer \in Seq(Byte)
    /\ out \subseteq SendInfo
    /\ accepted \in Seq(Byte) /\ echoed \in Seq(Byte)

\* Sequence numbers sent and not acknowledged.
Flight == Sub(snd_nxt, snd_una)

\* The segment occupies sequence number s.
Covers(p, s) == Sub(s, p.send_info.seq_num) < Sub(p.end_seq, p.send_info.seq_num)

\* What is in flight never outgrows a window plus our FIN, so it stays far below
\* half the sequence space, and every comparison of send-side points (those of
\* incoming_ack_update, is_covered_by and drain_transmittable) is meaningful.
FlightBounded ==
    /\ tcp_state \in {"None", "Established"} => Flight <= WndMax
    /\ tcp_state = "SynReceived" => Flight = 1
    /\ tcp_state \in FinSentStates => Flight <= WndMax + 1

CoversFlight(queue, una, nxt) ==
    \A k \in 0 .. WndMax : k < Sub(nxt, una) => \E p \in queue : Covers(p, Add(una, k))

EndsInFlight(queue, una, nxt) == \A p \in queue : Sub(p.end_seq, una) \in 1 .. Sub(nxt, una)

FitsWindow(queue) ==
    \A p \in queue : Sub(p.end_seq, p.send_info.seq_num) \in 1 .. (WndMax + 1)

\* Nothing unacknowledged is ever lost from the retransmission queue: each
\* sequence number in [SND.UNA, SND.NXT) is covered by a pending segment, after
\* any partial or cumulative ACK (the retain in incoming_ack_update) and the
\* clear() in complete_handshake.
NothingUnackedForgotten == CoversFlight(pending, snd_una, snd_nxt)

\* Nothing fully acknowledged stays in the queue to be sent again, and nothing
\* in it was never sent: every pending segment ends in (SND.UNA, SND.NXT].
OnlyUnackedPending == EndsInFlight(pending, snd_una, snd_nxt)

\* The echo keeps the byte stream: what was sent followed by what is buffered
\* is what was received in order, whatever windows, partial ACKs or closes did.
EchoIsFaithful == accepted = echoed \o send_buffer

\* A retransmission repeats the bytes first sent at its sequence numbers: the
\* payload of a pending segment is the part of the stream sent so far that its
\* distance to SND.NXT says it is.
FinOffset == IF tcp_state \in FinSentStates THEN 1 ELSE 0
StartOf(p) == Len(echoed) + FinOffset - Sub(snd_nxt, p.send_info.seq_num)
PendingMatchesStream ==
    \A p \in pending :
        LET data == p.send_info.payload
        IN  data # <<>> =>
               /\ StartOf(p) \in 0 .. (Len(echoed) - Len(data))
               /\ data = SubSeq(echoed, StartOf(p) + 1, StartOf(p) + Len(data))

\* complete_handshake clears the queue because "Only the SYN-ACK just
\* acknowledged could have been pending": in SYN-RECEIVED every pending segment
\* is a SYN-ACK, and no SYN-ACK survives the handshake.
OnlySynAckPending ==
    \A p \in pending : (p.send_info.flags = "SynAck") <=> (tcp_state = "SynReceived")

\* incoming_ack_update "Ignores ACKs that are old (before SND.UNA) or for data not
\* yet sent (past SND.NXT)": while the connection lives, SND.UNA only moves
\* forward and never past SND.NXT.  Spec violates this with the one ACK number
\* that Comparable excludes.
UnaOnlyAdvances ==
    [][tcp_state # "None" /\ tcp_state' # "None" => Sub(snd_una', snd_una) <= Flight]_vars

\* Once our FIN is sent the send side is closed: no sequence number is used and
\* no new byte is sent any more.
SendSideClosesForGood ==
    [][(tcp_state \in FinSentStates /\ tcp_state' # "None") =>
          (tcp_state' \in FinSentStates /\ UNCHANGED <<snd_nxt, echoed, send_buffer>>)]_vars

\* New bytes leave only as far as the peer's window allows at that moment.
RespectsWindow ==
    [][Len(echoed') > Len(echoed) => Sub(snd_nxt', snd_una') - FinOffset' <= window_state'.snd_wnd]_vars

\* Every segment made for sending can be sent: run "logs and continues for errors
\* related to parsing and replying to individual packets", while an error of
\* write_into in send_pkt ends it.
EveryReplyFits == \A info \in out : write_into_fits(info)

\* A connection lives the life the server loop relies on: it moves between TCP
\* states only as ConnPhases says, SYN-RECEIVED and LAST-ACK always have
\* something to retransmit, FIN-WAIT-2 never has.
Lifecycle == INSTANCE ConnLifecycle WITH
                 conn <- [state |-> tcp_state, unacked |-> pending # {}]
ImplementsLifecycle == Lifecycle!Spec

\* The inductive invariant behind the queue properties and the echo: an ACK can
\* only be compared with a segment's end if segments are no longer than what may
\* be in flight.
IndInv ==
    /\ TypeOK
    /\ FlightBounded
    /\ NothingUnackedForgotten
    /\ OnlyUnackedPending
    /\ FitsWindow(pending)
    /\ EchoIsFaithful

=============================================================================
