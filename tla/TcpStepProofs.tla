---------------------------- MODULE TcpStepProofs ----------------------------
(***************************************************************************)
(* What a step of TcpConnection may never do, what its retransmission      *)
(* queue holds in each state, and that it implements ConnLifecycle: proofs *)
(* on top of the invariants of TcpOpenProofs, which hold with any peer,    *)
(* and of TcpConnectionProofs.                                             *)
(***************************************************************************)
EXTENDS TcpOpenProofs

-----------------------------------------------------------------------------
(* SYN-ACKs are pending in SYN-RECEIVED and only there *)

\* The entry that push adds holds the segment just made; the others stay.
LEMMA PushedOnly ==
    ASSUME NEW queue, NEW info, NEW q \in push(queue, info)
    PROVE  q \in queue \/ q.send_info = info
  BY DEF push, NewPending

\* incoming_ack_update adds nothing to the queue.
LEMMA AckShrinksQueue ==
    ASSUME NEW seg
    PROVE  PendingAfter(seg) \subseteq pending
  BY DEF PendingAfter

\* Data segments and FINs are no SYN-ACKs.
LEMMA SendsNoSynAck ==
    ASSUME NEW una, NEW wnd, NEW buffer, NEW queue, NEW otherwise,
           \A q \in queue : q.send_info.flags # "SynAck",
           SendData(una, wnd, buffer, queue, otherwise) \/ SendFin(una, wnd, buffer, queue)
    PROVE  \A q \in pending' : q.send_info.flags # "SynAck"
  <1>1. CASE SendData(una, wnd, buffer, queue, otherwise)
    <2> DEFINE n == Transmittable(una, wnd, buffer)
               data == [seq_num |-> snd_nxt, ack_num |-> rcv_nxt', flags |-> "Ack",
                        payload |-> SubSeq(buffer, 1, n)]
    <2>1. pending' = (IF n > 0 THEN push(queue, data) ELSE queue)
      BY <1>1, Zenon DEF SendData
    <2>2. data.flags = "Ack"
      OBVIOUS
    <2> HIDE DEF n, data
    <2>3. QED
      BY <2>1, <2>2, PushedOnly
  <1>2. CASE SendFin(una, wnd, buffer, queue)
    <2> DEFINE n == Transmittable(una, wnd, buffer)
               fin == [seq_num |-> snd_nxt, ack_num |-> rcv_nxt', flags |-> "FinAck",
                       payload |-> SubSeq(buffer, 1, n)]
    <2>1. pending' = push(queue, fin)
      BY <1>2, Zenon DEF SendFin
    <2>2. fin.flags = "FinAck"
      OBVIOUS
    <2> HIDE DEF n, fin
    <2>3. QED
      BY <2>1, <2>2, PushedOnly
  <1>3. QED
    BY <1>1, <1>2

\* No handler leaves a SYN-ACK behind or adds one out of place.
LEMMA ReceiveSynAck ==
    ASSUME OnlySynAckPending, NEW seg \in TcpSegment, decide_reply(seg)
    PROVE  OnlySynAckPending'
  <1>1. CASE UNCHANGED <<tcp_state, pending>>
    BY <1>1 DEF OnlySynAckPending
  <1>2. CASE ResetConn
    BY <1>2 DEF OnlySynAckPending, ResetConn
  <1>3. CASE handle_unknown_conn(seg)
    <2>1. CASE \E isn \in InitialSeq : tcp_state' = "SynReceived" /\ pending' = push({}, SynAck(isn, seg))
      BY <2>1, PushedOnly DEF OnlySynAckPending, SynAck
    <2>2. QED
      BY <1>1, <1>3, <2>1, Zenon DEF handle_unknown_conn, Reply, connVars
  <1>4. CASE handle_syn_rcv(seg)
    <2>1. CASE tcp_state = "SynReceived" /\ tcp_state' = tcp_state /\ pending' = push(pending, SynAck(snd_una, seg))
      BY <2>1, PushedOnly DEF OnlySynAckPending, SynAck
    <2>2. ASSUME NEW otherwise, tcp_state' # "SynReceived",
                 \/ SendData(seg.ack_num, seg.window, send_buffer \o seg.payload, clear(pending), otherwise)
                 \/ SendFin(seg.ack_num, seg.window, send_buffer \o seg.payload, clear(pending))
          PROVE  OnlySynAckPending'
      <3>1. \A q \in clear(pending) : q.send_info.flags # "SynAck"
        BY DEF clear
      <3>2. \A q \in pending' : q.send_info.flags # "SynAck"
        BY <2>2, <3>1, SendsNoSynAck, Zenon
      <3>3. QED
        BY <2>2, <3>2 DEF OnlySynAckPending
    <2>3. QED
      BY <1>1, <1>4, <2>1, <2>2, Zenon DEF handle_syn_rcv, Reply, connVars
  <1>5. ASSUME tcp_state # "SynReceived"
        PROVE  \A q \in PendingAfter(seg) : q.send_info.flags # "SynAck"
    BY <1>5, AckShrinksQueue DEF OnlySynAckPending
  <1>6. CASE handle_established(seg)
    <2>1. tcp_state # "SynReceived"
      BY <1>6 DEF handle_established
    <2>2. ASSUME NEW una, NEW wnd, NEW buffer, NEW otherwise, tcp_state' # "SynReceived",
                 \/ SendData(una, wnd, buffer, PendingAfter(seg), otherwise)
                 \/ SendFin(una, wnd, buffer, PendingAfter(seg))
          PROVE  OnlySynAckPending'
      BY <1>5, <2>1, <2>2, SendsNoSynAck, Zenon DEF OnlySynAckPending
    <2>3. CASE tcp_state' = tcp_state /\ pending' = PendingAfter(seg)
      BY <1>5, <2>1, <2>3 DEF OnlySynAckPending
    <2>4. QED
      BY <1>1, <1>6, <2>1, <2>2, <2>3, Zenon DEF handle_established, Reply, connVars
  <1>7. CASE \/ handle_fin_wait_1(seg) \/ handle_fin_wait_2(seg)
             \/ handle_closing(seg) \/ handle_last_ack(seg)
    <2>1. tcp_state # "SynReceived"
      BY <1>7 DEF handle_fin_wait_1, handle_fin_wait_2, handle_closing, handle_last_ack
    <2>2. CASE tcp_state' # "SynReceived" /\ pending' = PendingAfter(seg)
      BY <1>5, <2>1, <2>2 DEF OnlySynAckPending
    <2>3. QED
      BY <1>1, <1>2, <1>7, <2>1, <2>2, Zenon
      DEF handle_fin_wait_1, handle_fin_wait_2, handle_closing, handle_last_ack, DiscardData,
          Reply, remove, connVars
  <1>8. CASE handle_rst(seg) \/ handle_stray_syn(seg)
    BY <1>1, <1>2, <1>8, Zenon DEF handle_rst, handle_stray_syn, Reply, remove, connVars
  <1>9. QED
    BY <1>3, <1>4, <1>6, <1>7, <1>8 DEF decide_reply

\* complete_handshake may clear the whole queue: in SYN-RECEIVED "Only the SYN-ACK
\* just acknowledged could have been pending", and nowhere else is one.
THEOREM SynAckOnlyInHandshake == Spec => []OnlySynAckPending
  <1>1. Init => OnlySynAckPending
    BY DEF Init, OnlySynAckPending
  <1>2. OnlySynAckPending /\ TypeOK /\ [Next]_vars => OnlySynAckPending'
    <2> SUFFICES ASSUME OnlySynAckPending, TypeOK, [Next]_vars PROVE OnlySynAckPending'
      OBVIOUS
    <2>1. CASE \E seg \in TcpSegment : decide_reply(seg)
      BY <2>1, ReceiveSynAck
    <2>2. CASE make_retransmissions
      <3> PICK due \in SUBSET pending : Retransmit(due) \/ GiveUp(due)
        BY <2>2 DEF make_retransmissions
      <3>1. CASE Retransmit(due)
        <4>1. \A p \in due : Retransmitted(p).send_info = p.send_info
          BY <3>1, RetransmitTypes
        <4>2. \A q \in pending' : \E p \in pending : q.send_info = p.send_info
          BY <3>1, <4>1 DEF Retransmit
        <4>3. QED
          BY <3>1, <4>2 DEF Retransmit, OnlySynAckPending
      <3>2. CASE GiveUp(due)
        BY <3>2 DEF GiveUp, remove, ResetConn, OnlySynAckPending
      <3>3. QED
        BY <3>1, <3>2
    <2>3. CASE close_established
      <3> DEFINE fin == [seq_num |-> snd_nxt, ack_num |-> rcv_nxt, flags |-> "FinAck", payload |-> <<>>]
      <3>1. tcp_state = "Established" /\ tcp_state' = "FinWait1" /\ pending' = push(pending, fin)
        BY <2>3 DEF close_established
      <3>2. fin.flags = "FinAck"
        OBVIOUS
      <3> HIDE DEF fin
      <3>3. QED
        BY <3>1, <3>2, PushedOnly DEF OnlySynAckPending
    <2>4. CASE UNCHANGED vars
      BY <2>4 DEF vars, connVars, OnlySynAckPending
    <2>5. QED
      BY <2>1, <2>2, <2>3, <2>4 DEF Next
  <1>3. QED
    BY <1>1, <1>2, TypeCorrect, PTL DEF Spec

-----------------------------------------------------------------------------
(* What a step may never do *)

\* A segment that reaches a connection whose FIN is sent is handled by one of
\* these, and none of them sends.
LEMMA FinSentReceive ==
    ASSUME tcp_state \in FinSentStates, NEW seg \in TcpSegment, decide_reply(seg)
    PROVE  \/ ResetConn
           \/ tcp_state' \in FinSentStates /\ UNCHANGED <<snd_nxt, echoed, send_buffer>>
  <1>1. CASE handle_rst(seg) \/ handle_stray_syn(seg)
    BY <1>1, Zenon DEF handle_rst, handle_stray_syn, Reply, remove, connVars, history
  <1>2. CASE handle_fin_wait_1(seg)
    BY <1>2, Zenon DEF handle_fin_wait_1, DiscardData, Reply, remove, connVars, history,
                       FinSentStates
  <1>3. CASE handle_fin_wait_2(seg)
    BY <1>3, Zenon DEF handle_fin_wait_2, DiscardData, Reply, remove, connVars, history
  <1>4. CASE handle_closing(seg) \/ handle_last_ack(seg)
    BY <1>4, Zenon DEF handle_closing, handle_last_ack, Reply, remove, connVars, history
  <1>5. ~handle_unknown_conn(seg) /\ ~handle_syn_rcv(seg) /\ ~handle_established(seg)
    BY DEF handle_unknown_conn, handle_syn_rcv, handle_established, FinSentStates
  <1>6. QED
    BY <1>1, <1>2, <1>3, <1>4, <1>5 DEF decide_reply

\* After our FIN no sequence number is used and no new byte sent, whatever
\* arrives and however often the queue is retransmitted.
THEOREM FinIsLast == Spec => SendSideClosesForGood
  <1> DEFINE Closes == (tcp_state \in FinSentStates /\ tcp_state' # "None") =>
                          (tcp_state' \in FinSentStates /\ UNCHANGED <<snd_nxt, echoed, send_buffer>>)
  <1>1. [Next]_vars => [Closes]_vars
    <2> SUFFICES ASSUME Next, tcp_state \in FinSentStates, tcp_state' # "None"
                 PROVE  tcp_state' \in FinSentStates /\ UNCHANGED <<snd_nxt, echoed, send_buffer>>
      OBVIOUS
    <2>1. CASE \E seg \in TcpSegment : decide_reply(seg)
      BY <2>1, FinSentReceive DEF ResetConn
    <2>2. CASE make_retransmissions
      BY <2>2, Zenon DEF make_retransmissions, Retransmit, GiveUp, remove, ResetConn, history
    <2>3. ~close_established
      BY DEF close_established, FinSentStates
    <2>4. QED
      BY <2>1, <2>2, <2>3 DEF Next
  <1>2. QED
    BY <1>1, PTL DEF Spec, SendSideClosesForGood

\* SND.UNA after a segment: where it was, where incoming_ack_update puts it, or
\* at the handshake's ACK.
LEMMA ReceiveUna ==
    ASSUME tcp_state # "None", NEW seg \in TcpSegment, decide_reply(seg), tcp_state' # "None"
    PROVE  \/ snd_una' = snd_una
           \/ snd_una' = UnaAfter(seg)
           \/ snd_una' = seg.ack_num /\ tcp_state = "SynReceived" /\ CompletesHandshake(seg)
  <1>1. CASE handle_rst(seg) \/ handle_stray_syn(seg)
    BY <1>1, Zenon DEF handle_rst, handle_stray_syn, Reply, remove, ResetConn, connVars
  <1>2. CASE handle_syn_rcv(seg)
    BY <1>2, Zenon DEF handle_syn_rcv, complete_handshake, Reply, connVars
  <1>3. CASE handle_established(seg)
    BY <1>3, Zenon DEF handle_established, incoming_ack_update, Reply, connVars
  <1>4. CASE handle_fin_wait_1(seg) \/ handle_fin_wait_2(seg)
    BY <1>4, Zenon DEF handle_fin_wait_1, handle_fin_wait_2, DiscardData, incoming_ack_update,
                       Reply, remove, ResetConn, connVars
  <1>5. CASE handle_closing(seg) \/ handle_last_ack(seg)
    BY <1>5, Zenon DEF handle_closing, handle_last_ack, incoming_ack_update,
                       Reply, remove, ResetConn, connVars
  <1>6. ~handle_unknown_conn(seg)
    BY DEF handle_unknown_conn
  <1>7. QED
    BY <1>1, <1>2, <1>3, <1>4, <1>5, <1>6 DEF decide_reply

\* Of all ACK numbers, one: from a state whose send side is exact, whatever
\* arrives, incoming_ack_update and complete_handshake move SND.UNA forward and not
\* past SND.NXT, or nothing is in flight and it jumps half the sequence space.
THEOREM OnlyAntipodeLeavesFlight ==
    ASSUME IndInv, [Next]_vars, tcp_state # "None", tcp_state' # "None"
    PROVE  \/ Sub(snd_una', snd_una) <= Flight
           \/ snd_una = snd_nxt /\ snd_una' = Add(snd_una, Half)
  <1>1. snd_una \in SeqPoint /\ snd_nxt \in SeqPoint
    BY DEF IndInv, TypeOK
  <1>2. Flight \in Nat /\ Flight < Half /\ Sub(snd_una, snd_una) = 0
    <2>1. Flight \in 0 .. (Modulus - 1)
      BY <1>1, SubType DEF Flight
    <2>2. Flight <= WndMax \/ Flight = 1 \/ Flight <= WndMax + 1
      BY DEF IndInv, TypeOK, FlightBounded, TcpState, FinSentStates
    <2>3. QED
      BY <1>1, <2>1, <2>2, SubSelf, WndAssumption, HalfAssumption DEF Modulus
  <1>3. CASE snd_una' = snd_una
    BY <1>2, <1>3
  <1>4. ASSUME NEW seg \in TcpSegment, decide_reply(seg)
        PROVE  \/ Sub(snd_una', snd_una) <= Flight
               \/ snd_una = snd_nxt /\ snd_una' = Add(snd_una, Half)
    <2>1. CASE snd_una' = UnaAfter(seg) /\ AckAdvances(seg)
      <3>1. snd_una' = seg.ack_num /\ seg.ack_num \in SeqPoint
        BY <2>1, SegmentTypes DEF UnaAfter
      <3>2. QED
        BY <1>1, <1>2, <2>1, <3>1, AckWindowIsExact DEF AckAdvances, AckAcceptable, Flight
    <2>2. CASE snd_una' = UnaAfter(seg) /\ ~AckAdvances(seg)
      BY <1>3, <2>2 DEF UnaAfter
    <2>3. CASE snd_una' = seg.ack_num /\ tcp_state = "SynReceived" /\ CompletesHandshake(seg)
      <3>1. snd_una' = snd_nxt
        BY <2>3, HandshakeAck
      <3>2. QED
        BY <1>2, <3>1 DEF Flight
    <2>4. QED
      BY <1>3, <1>4, <2>1, <2>2, <2>3, ReceiveUna
  <1>5. CASE make_retransmissions
    BY <1>3, <1>5, Zenon DEF make_retransmissions, Retransmit, GiveUp, remove, ResetConn
  <1>6. CASE close_established
    BY <1>3, <1>6 DEF close_established
  <1>7. CASE UNCHANGED vars
    BY <1>3, <1>7 DEF vars, connVars
  <1>8. QED
    BY <1>4, <1>5, <1>6, <1>7 DEF Next

\* An offset added to a point adds to its distance from a base behind it.
LEMMA AddFarther ==
    ASSUME NEW a \in SeqPoint, NEW base \in SeqPoint, NEW n \in Nat, Sub(a, base) + n < Modulus
    PROVE  /\ Add(a, n) \in SeqPoint
           /\ Sub(a, base) \in Nat
           /\ Sub(Add(a, n), base) = Sub(a, base) + n
  <1> DEFINE d == Sub(a, base)
  <1>1. d \in 0 .. (Modulus - 1)
    BY SubType
  <1>2. d \in Nat /\ d + n \in 0 .. (Modulus - 1)
    BY <1>1, HalfAssumption DEF Modulus
  <1>3. a = Add(base, d)
    BY AddSub
  <1> HIDE DEF d
  <1>4. Add(a, n) = Add(base, d + n)
    <2>1. d + n < Modulus
      BY DEF d
    <2>2. QED
      BY <1>2, <1>3, <2>1, AddAdd
  <1>5. Add(a, n) \in SeqPoint
    BY AddType
  <1>6. Sub(Add(a, n), base) = d + n
    BY <1>2, <1>4, SubAdd
  <1>7. QED
    BY <1>2, <1>5, <1>6 DEF d

\* drain_transmittable, when it takes bytes, fills no more than the window.
LEMMA SendsWithinWindow ==
    ASSUME TypeOK, NEW una \in SeqPoint, NEW wnd \in 0 .. WndMax, NEW buffer \in Seq(Byte),
           NEW n, n = Transmittable(una, wnd, buffer), Drain(buffer, n), Len(echoed') > Len(echoed)
    PROVE  /\ n \in Nat
           /\ Sub(snd_nxt, una) + n <= wnd
           /\ Sub(Add(snd_nxt, n), una) = Sub(snd_nxt, una) + n
           /\ Sub(Add(Add(snd_nxt, n), 1), una) = Sub(snd_nxt, una) + n + 1
  <1>1. n \in 0 .. Len(buffer) /\ (n = 0 \/ Sub(snd_nxt, una) + n <= wnd)
    BY TransmittableBound
  <1>2. n \in Nat
    BY <1>1, LenProperties
  <1>3. n > 0
    <2>1. SubSeq(buffer, 1, n) \in Seq(Byte) /\ Len(SubSeq(buffer, 1, n)) = n
      BY <1>1, DrainSplits
    <2>2. echoed \in Seq(Byte) /\ echoed' = echoed \o SubSeq(buffer, 1, n)
      BY DEF TypeOK, Drain
    <2>3. Len(echoed') = Len(echoed) + n /\ Len(echoed) \in Nat
      BY <2>1, <2>2, ConcatProperties, LenProperties
    <2>4. QED
      BY <1>2, <2>3
  <1>4. snd_nxt \in SeqPoint
    BY DEF TypeOK
  <1>5. Sub(snd_nxt, una) \in 0 .. (Modulus - 1)
    BY <1>4, SubType
  <1>6. Sub(snd_nxt, una) + n <= wnd /\ Sub(snd_nxt, una) + n + 1 < Modulus
    BY <1>1, <1>2, <1>3, <1>5, WndAssumption, HalfAssumption DEF Modulus
  <1>7. Add(snd_nxt, n) \in SeqPoint /\ Sub(Add(snd_nxt, n), una) = Sub(snd_nxt, una) + n
    BY <1>2, <1>4, <1>5, <1>6, AddFarther, HalfAssumption DEF Modulus
  <1>8. Sub(Add(Add(snd_nxt, n), 1), una) = Sub(Add(snd_nxt, n), una) + 1
    BY <1>6, <1>7, AddFarther
  <1>9. QED
    BY <1>2, <1>6, <1>7, <1>8

\* A step that does not send from the buffer sends nothing for the first time.
LEMMA NothingNew ==
    ASSUME TypeOK, echoed' = echoed \/ echoed' = <<>>
    PROVE  ~(Len(echoed') > Len(echoed))
  <1>1. Len(echoed) \in Nat /\ Len(<<>>) = 0
    BY LenProperties, EmptySeq DEF TypeOK
  <1>2. QED
    BY <1>1

\* New bytes never exceed the window the peer last advertised (that of the
\* segment being answered, when it is fresh), for any window: the two callers
\* of drain_transmittable.
THEOREM WindowRespected == Spec => RespectsWindow
  <1> DEFINE Fits == Len(echoed') > Len(echoed) =>
                        Sub(snd_nxt', snd_una') - FinOffset' <= window_state'.snd_wnd
  <1>1. EchoInv /\ [Next]_vars => [Fits]_vars
    <2> SUFFICES ASSUME EchoInv, Next, Len(echoed') > Len(echoed)
                 PROVE  Sub(snd_nxt', snd_una') - FinOffset' <= window_state'.snd_wnd
      OBVIOUS
    <2>1. TypeOK /\ echoed' # echoed /\ echoed' # <<>>
      BY NothingNew DEF EchoInv
    <2>2. ASSUME NEW una \in SeqPoint, NEW wnd \in 0 .. WndMax, NEW buffer \in Seq(Byte),
                 NEW queue, NEW otherwise, tcp_state' = "Established",
                 SendData(una, wnd, buffer, queue, otherwise), snd_una' = una, window_state'.snd_wnd = wnd
          PROVE  Sub(snd_nxt', snd_una') - FinOffset' <= window_state'.snd_wnd
      <3>1. PICK n : n = Transmittable(una, wnd, buffer)
        OBVIOUS
      <3>2. Drain(buffer, n) /\ snd_nxt' = Add(snd_nxt, n)
        BY <2>2, <3>1, Zenon DEF SendData
      <3>3. n \in Nat /\ Sub(snd_nxt, una) + n <= wnd /\ Sub(snd_nxt', una) = Sub(snd_nxt, una) + n
        BY <2>1, <3>1, <3>2, SendsWithinWindow
      <3>4. FinOffset' = 0
        BY <2>2 DEF FinOffset, FinSentStates
      <3>5. Sub(snd_nxt, una) \in 0 .. (Modulus - 1)
        BY <2>1, SubType DEF TypeOK
      <3>6. QED
        BY <2>2, <3>3, <3>4, <3>5, WndAssumption, HalfAssumption DEF Modulus
    <2>3. ASSUME NEW una \in SeqPoint, NEW wnd \in 0 .. WndMax, NEW buffer \in Seq(Byte),
                 NEW queue, tcp_state' = "LastAck",
                 SendFin(una, wnd, buffer, queue), snd_una' = una, window_state'.snd_wnd = wnd
          PROVE  Sub(snd_nxt', snd_una') - FinOffset' <= window_state'.snd_wnd
      <3>1. PICK n : n = Transmittable(una, wnd, buffer)
        OBVIOUS
      <3>2. Drain(buffer, n) /\ snd_nxt' = Add(Add(snd_nxt, n), 1)
        BY <2>3, <3>1, Zenon DEF SendFin
      <3>3. /\ n \in Nat /\ Sub(snd_nxt, una) + n <= wnd
            /\ Sub(snd_nxt', una) = Sub(snd_nxt, una) + n + 1
        BY <2>1, <3>1, <3>2, SendsWithinWindow
      <3>4. FinOffset' = 1
        BY <2>3 DEF FinOffset, FinSentStates
      <3>5. Sub(snd_nxt, una) \in 0 .. (Modulus - 1)
        BY <2>1, SubType DEF TypeOK
      <3>6. QED
        BY <2>3, <3>3, <3>4, <3>5, WndAssumption, HalfAssumption DEF Modulus
    <2>4. ASSUME NEW seg \in TcpSegment, decide_reply(seg)
          PROVE  Sub(snd_nxt', snd_una') - FinOffset' <= window_state'.snd_wnd
      <3>1. UnaAfter(seg) \in SeqPoint /\ WindowAfter(seg).snd_wnd \in 0 .. WndMax
        BY <2>1, AckTypes
      <3>2. /\ seg.ack_num \in SeqPoint /\ seg.window \in 0 .. WndMax
            /\ send_buffer \in Seq(Byte) /\ send_buffer \o seg.payload \in Seq(Byte)
            /\ WindowFrom(seg).snd_wnd = seg.window
        BY SegmentTypes, AcceptKeepsEcho DEF EchoInv, TypeOK, WindowFrom
      <3>3. CASE handle_syn_rcv(seg)
        BY <2>1, <2>2, <2>3, <3>2, <3>3, Zenon DEF handle_syn_rcv, complete_handshake, Reply, history
      <3>4. CASE handle_established(seg)
        <4>1. tcp_state = "Established"
          BY <3>4 DEF handle_established
        <4>2. QED
          BY <2>1, <2>2, <2>3, <3>1, <3>2, <3>4, <4>1, Zenon
          DEF handle_established, incoming_ack_update, Reply, history
      <3>5. CASE handle_unknown_conn(seg) \/ handle_rst(seg) \/ handle_stray_syn(seg)
        BY <2>1, <3>5, Zenon DEF handle_unknown_conn, handle_rst, handle_stray_syn,
                                 Reply, remove, ResetConn, history
      <3>6. CASE \/ handle_fin_wait_1(seg) \/ handle_fin_wait_2(seg)
                 \/ handle_closing(seg) \/ handle_last_ack(seg)
        <4>1. tcp_state \in FinSentStates
          BY <3>6, Zenon
          DEF handle_fin_wait_1, handle_fin_wait_2, handle_closing, handle_last_ack, FinSentStates
        <4>2. QED
          BY <2>1, <2>4, <4>1, FinSentReceive DEF ResetConn
      <3>7. QED
        BY <2>4, <3>3, <3>4, <3>5, <3>6 DEF decide_reply
    <2>5. CASE make_retransmissions
      BY <2>1, <2>5, Zenon DEF make_retransmissions, Retransmit, GiveUp, remove, ResetConn, history
    <2>6. CASE close_established
      BY <2>1, <2>6, Zenon DEF close_established, history
    <2>7. QED
      BY <2>4, <2>5, <2>6 DEF Next
  <1>2. QED
    BY <1>1, OpenInvariance, PTL DEF Spec, RespectsWindow

\* What drain_transmittable asks of SND.UNA and SND.NXT, with any peer.
DrainIsDefined == tcp_state = "Established" => precedes_or_eq(snd_una, snd_nxt)

\* An ACK that is taken precedes SND.NXT or equals it, as SND.UNA did before.
LEMMA AckKeepsOrder ==
    ASSUME precedes_or_eq(snd_una, snd_nxt), NEW seg
    PROVE  precedes_or_eq(UnaAfter(seg), snd_nxt)
  BY DEF UnaAfter, AckAdvances, AckAcceptable

\* A point less than half the space behind another precedes or equals it.
LEMMA BehindPrecedes ==
    ASSUME NEW a \in SeqPoint, NEW b \in SeqPoint, Sub(b, a) < Half
    PROVE  precedes_or_eq(a, b)
  <1>1. a \in Nat /\ b \in Nat /\ Modulus \in Nat /\ Modulus = Half + Half /\ Half \in Nat
    BY HalfAssumption DEF SeqPoint, Modulus
  <1>2. Sub(a, b) = IF a >= b THEN a - b ELSE a - b + Modulus
    BY SubValue
  <1>3. Sub(b, a) = IF b >= a THEN b - a ELSE b - a + Modulus
    BY SubValue
  <1>4. CASE b > a
    BY <1>1, <1>2, <1>3, <1>4 DEF precedes_or_eq, precedes
  <1>5. CASE a > b
    BY <1>1, <1>2, <1>3, <1>5 DEF precedes_or_eq, precedes
  <1>6. QED
    BY <1>1, <1>4, <1>5 DEF precedes_or_eq

\* Sending data leaves SND.NXT after SND.UNA.
LEMMA SendKeepsOrder ==
    ASSUME TypeOK, NEW una \in SeqPoint, NEW wnd \in 0 .. WndMax, NEW buffer \in Seq(Byte),
           NEW queue, NEW otherwise, SendData(una, wnd, buffer, queue, otherwise),
           precedes_or_eq(una, snd_nxt)
    PROVE  precedes_or_eq(una, snd_nxt')
  <1>1. PICK n : n = Transmittable(una, wnd, buffer)
    OBVIOUS
  <1>2. snd_nxt' = Add(snd_nxt, n)
    BY <1>1, Zenon DEF SendData
  <1>3. n \in Nat /\ (n = 0 \/ Sub(snd_nxt, una) + n <= wnd)
    BY <1>1, TransmittableBound, LenProperties
  <1>4. snd_nxt \in SeqPoint /\ Sub(snd_nxt, una) \in 0 .. (Modulus - 1)
    BY SubType DEF TypeOK
  <1>5. CASE n = 0
    BY <1>2, <1>4, <1>5, AddValue, HalfAssumption DEF SeqPoint, Modulus
  <1>6. CASE Sub(snd_nxt, una) + n <= wnd
    <2>1. Sub(snd_nxt, una) + n < Half /\ Sub(snd_nxt, una) + n < Modulus
      BY <1>3, <1>4, <1>6, WndAssumption, HalfAssumption DEF Modulus
    <2>2. snd_nxt' \in SeqPoint /\ Sub(snd_nxt', una) < Half
      BY <1>2, <1>3, <1>4, <2>1, AddFarther
    <2>3. QED
      BY <2>2, BehindPrecedes
  <1>7. QED
    BY <1>3, <1>5, <1>6

\* drain_transmittable never reports "SND.UNA not preceding or equaling SND.NXT",
\* whatever ACK numbers arrive: when handle_established calls it, SND.UNA, once the
\* ACK is taken, precedes SND.NXT or equals it.  (complete_handshake's callers have
\* just compared the two.)
THEOREM DrainNeverErrs ==
    Spec => [](tcp_state = "Established" =>
                  \A seg \in TcpSegment : precedes_or_eq(UnaAfter(seg), snd_nxt))
  <1> DEFINE Drains == tcp_state = "Established" =>
                          \A seg \in TcpSegment : precedes_or_eq(UnaAfter(seg), snd_nxt)
  <1>1. Init => DrainIsDefined
    BY DEF Init, DrainIsDefined
  <1>2. EchoInv /\ DrainIsDefined /\ [Next]_vars => DrainIsDefined'
    <2> SUFFICES ASSUME EchoInv, DrainIsDefined, [Next]_vars, tcp_state' = "Established"
                 PROVE  precedes_or_eq(snd_una, snd_nxt)'
      BY DEF DrainIsDefined
    <2>1. TypeOK
      BY DEF EchoInv
    <2>2. CASE UNCHANGED <<tcp_state, snd_una, snd_nxt>>
      BY <2>2 DEF DrainIsDefined, precedes_or_eq, precedes
    <2>3. ASSUME NEW una \in SeqPoint, NEW wnd \in 0 .. WndMax, NEW buffer \in Seq(Byte),
                 NEW queue, NEW otherwise, precedes_or_eq(una, snd_nxt), snd_una' = una,
                 SendData(una, wnd, buffer, queue, otherwise)
          PROVE  precedes_or_eq(snd_una, snd_nxt)'
      BY <2>1, <2>3, SendKeepsOrder DEF precedes_or_eq, precedes
    <2>4. ASSUME NEW seg \in TcpSegment, decide_reply(seg)
          PROVE  precedes_or_eq(snd_una, snd_nxt)'
      <3>1. UnaAfter(seg) \in SeqPoint /\ WindowAfter(seg).snd_wnd \in 0 .. WndMax
        BY <2>1, AckTypes
      <3>2. /\ seg.ack_num \in SeqPoint /\ seg.window \in 0 .. WndMax
            /\ send_buffer \in Seq(Byte) /\ send_buffer \o seg.payload \in Seq(Byte)
        BY SegmentTypes, AcceptKeepsEcho DEF EchoInv, TypeOK
      <3>3. CASE handle_syn_rcv(seg)
        BY <2>2, <2>3, <3>2, <3>3, Zenon
        DEF handle_syn_rcv, complete_handshake, CompletesHandshake, Reply, connVars
      <3>4. CASE handle_established(seg)
        <4>1. tcp_state = "Established" /\ precedes_or_eq(UnaAfter(seg), snd_nxt)
          BY <3>4, AckKeepsOrder DEF handle_established, DrainIsDefined
        <4>2. CASE snd_una' = UnaAfter(seg) /\ snd_nxt' = snd_nxt
          BY <4>1, <4>2 DEF precedes_or_eq, precedes
        <4>3. QED
          BY <2>2, <2>3, <3>1, <3>2, <3>4, <4>1, <4>2, Zenon
          DEF handle_established, incoming_ack_update, Reply, connVars
      <3>5. CASE handle_unknown_conn(seg) \/ handle_rst(seg) \/ handle_stray_syn(seg)
        BY <2>2, <3>5, Zenon DEF handle_unknown_conn, handle_rst, handle_stray_syn,
                                 Reply, remove, ResetConn, connVars
      <3>6. CASE \/ handle_fin_wait_1(seg) \/ handle_fin_wait_2(seg)
                 \/ handle_closing(seg) \/ handle_last_ack(seg)
        <4>1. tcp_state \in FinSentStates
          BY <3>6, Zenon
          DEF handle_fin_wait_1, handle_fin_wait_2, handle_closing, handle_last_ack, FinSentStates
        <4>2. QED
          BY <2>4, <4>1, FinSentReceive DEF ResetConn, FinSentStates
      <3>7. QED
        BY <2>4, <3>3, <3>4, <3>5, <3>6 DEF decide_reply
    <2>5. CASE make_retransmissions
      BY <2>2, <2>5, Zenon DEF make_retransmissions, Retransmit, GiveUp, remove, ResetConn
    <2>6. CASE close_established
      BY <2>6 DEF close_established
    <2>7. CASE UNCHANGED vars
      BY <2>2, <2>7 DEF vars, connVars
    <2>8. QED
      BY <2>4, <2>5, <2>6, <2>7 DEF Next
  <1>3. DrainIsDefined => Drains
    BY AckKeepsOrder DEF DrainIsDefined
  <1>4. QED
    BY <1>1, <1>2, <1>3, OpenInvariance, PTL DEF Spec

-----------------------------------------------------------------------------
(* A connection implements ConnLifecycle *)

\* What the queue's emptiness says about the state, and the reverse.
QueueFollowsState ==
    /\ tcp_state \in {"None", "FinWait2"} => pending = {}
    /\ tcp_state \in {"SynReceived", "LastAck"} => pending # {}

\* The queue is empty exactly when nothing is in flight.
LEMMA EmptyIffAcked ==
    ASSUME IndInv
    PROVE  pending = {} <=> snd_una = snd_nxt
  <1>1. snd_una \in SeqPoint /\ snd_nxt \in SeqPoint
    BY DEF IndInv, TypeOK
  <1>2. CASE snd_una = snd_nxt
    <2>1. Sub(snd_nxt, snd_una) = 0
      BY <1>1, <1>2, SubSelf
    <2>2. \A p \in pending : Sub(p.end_seq, snd_una) \in 1 .. 0
      BY <2>1 DEF IndInv, OnlyUnackedPending, EndsInFlight
    <2>3. QED
      BY <1>2, <2>2
  <1>3. CASE snd_una # snd_nxt
    <2>1. Sub(snd_nxt, snd_una) > 0
      BY <1>1, <1>3, SubValue, HalfAssumption DEF SeqPoint, Modulus
    <2>2. \E p \in pending : Covers(p, Add(snd_una, 0))
      BY <2>1, WndAssumption DEF IndInv, NothingUnackedForgotten, CoversFlight
    <2>3. QED
      BY <1>3, <2>2
  <1>4. QED
    BY <1>2, <1>3

\* An ACK of SND.NXT acknowledges everything; any other ACK leaves something
\* unacknowledged if something was.
LEMMA AckOfNxt ==
    ASSUME IndInv, NEW seg \in TcpSegment, tcp_state # "None"
    PROVE  /\ seg.ack_num = snd_nxt => UnaAfter(seg) = snd_nxt
           /\ seg.ack_num # snd_nxt /\ snd_una # snd_nxt => UnaAfter(seg) # snd_nxt
  <1>1. snd_una \in SeqPoint /\ snd_nxt \in SeqPoint
    BY DEF IndInv, TypeOK
  <1>2. Flight <= WndMax + 1 /\ Flight \in Nat /\ WndMax + 1 < Half
    <2>1. Flight \in 0 .. (Modulus - 1)
      BY <1>1, SubType DEF Flight
    <2>2. Flight <= WndMax \/ Flight = 1 \/ Flight <= WndMax + 1
      BY DEF IndInv, TypeOK, FlightBounded, TcpState, FinSentStates
    <2>3. QED
      BY <2>1, <2>2, WndAssumption, HalfAssumption DEF Modulus
  <1>3. snd_una # snd_nxt => precedes(snd_una, snd_nxt)
    <2>1. snd_una # snd_nxt => Sub(snd_una, snd_nxt) >= Half
      <3>1. /\ Sub(snd_una, snd_nxt) = IF snd_una >= snd_nxt THEN snd_una - snd_nxt
                                       ELSE snd_una - snd_nxt + Modulus
            /\ Flight = IF snd_nxt >= snd_una THEN snd_nxt - snd_una ELSE snd_nxt - snd_una + Modulus
        BY <1>1, SubValue DEF Flight
      <3>2. QED
        BY <1>1, <1>2, <3>1, WndAssumption, HalfAssumption DEF SeqPoint, Modulus
    <2>2. QED
      BY <2>1 DEF precedes
  <1>4. seg.ack_num = snd_nxt => UnaAfter(seg) = snd_nxt
    BY <1>3 DEF UnaAfter, AckAdvances, AckAcceptable, precedes_or_eq
  <1>5. QED
    BY <1>4 DEF UnaAfter

\* The ways a segment can change what the server loop sees of a connection.
LEMMA ReceiveMoves ==
    ASSUME NEW seg \in TcpSegment, decide_reply(seg)
    PROVE  \/ UNCHANGED <<tcp_state, pending>>
           \/ tcp_state' = "None" /\ pending' = {}
           \/ tcp_state = "None" /\ tcp_state' = "SynReceived" /\ pending' # {}
           \/ tcp_state = "SynReceived" /\ tcp_state' = "SynReceived" /\ pending' # {}
           \/ tcp_state = "SynReceived" /\ tcp_state' = "Established"
           \/ tcp_state \in {"SynReceived", "Established"} /\ tcp_state' = "LastAck" /\ pending' # {}
           \/ tcp_state = "Established" /\ tcp_state' = "Established"
           \/ /\ pending' = PendingAfter(seg) /\ incoming_ack_update(seg) /\ snd_nxt' = snd_nxt
              /\ \/ tcp_state = "FinWait1" /\ tcp_state' \in {"FinWait1", "Closing"}
                 \/ tcp_state = "FinWait1" /\ tcp_state' = "FinWait2" /\ seg.ack_num = snd_nxt
                 \/ tcp_state = "FinWait2" /\ tcp_state' = "FinWait2"
                 \/ tcp_state = "LastAck" /\ tcp_state' = "LastAck" /\ seg.ack_num # snd_nxt
  <1>1. \A queue, info : push(queue, info) # {}
    BY DEF push
  <1>2. CASE handle_unknown_conn(seg)
    BY <1>1, <1>2, Zenon DEF handle_unknown_conn, Reply, connVars
  <1>3. CASE handle_rst(seg) \/ handle_stray_syn(seg)
    BY <1>3, Zenon DEF handle_rst, handle_stray_syn, Reply, remove, ResetConn, connVars
  <1>4. CASE handle_syn_rcv(seg)
    BY <1>1, <1>4, Zenon DEF handle_syn_rcv, SendFin, Reply, connVars
  <1>5. CASE handle_established(seg)
    BY <1>1, <1>5, Zenon DEF handle_established, SendFin, Reply, connVars
  <1>6. CASE handle_fin_wait_1(seg)
    BY <1>6, Zenon DEF handle_fin_wait_1, DiscardData, Reply, remove, ResetConn, connVars
  <1>7. CASE handle_fin_wait_2(seg)
    BY <1>7, Zenon DEF handle_fin_wait_2, DiscardData, Reply, remove, ResetConn, connVars
  <1>8. CASE handle_closing(seg)
    BY <1>8, Zenon DEF handle_closing, Reply, remove, ResetConn, connVars
  <1>9. CASE handle_last_ack(seg)
    BY <1>9, Zenon DEF handle_last_ack, Reply, remove, ResetConn, connVars
  <1>10. QED
    BY <1>2, <1>3, <1>4, <1>5, <1>6, <1>7, <1>8, <1>9 DEF decide_reply

\* A retransmission leaves the queue non-empty, giving up empties it.
LEMMA RetransmitMoves ==
    ASSUME make_retransmissions
    PROVE  /\ pending # {}
           /\ \/ tcp_state' = tcp_state /\ pending' # {}
              \/ tcp_state' = "None" /\ pending' = {}
  <1> PICK due \in SUBSET pending : Retransmit(due) \/ GiveUp(due)
    BY DEF make_retransmissions
  <1>1. CASE Retransmit(due)
    BY <1>1 DEF Retransmit
  <1>2. CASE GiveUp(due)
    BY <1>2 DEF GiveUp, remove, ResetConn
  <1>3. QED
    BY <1>1, <1>2

\* An active close queues its FIN.
LEMMA CloseMoves ==
    ASSUME close_established
    PROVE  tcp_state = "Established" /\ tcp_state' = "FinWait1" /\ pending' # {}
  BY DEF close_established, push

\* The state and the queue's emptiness stay in step.
LEMMA QueueFollowsStep ==
    ASSUME IndInv, IndInv', QueueFollowsState, [ComparableNext]_vars
    PROVE  QueueFollowsState'
  <1>1. CASE UNCHANGED <<tcp_state, pending>>
    BY <1>1 DEF QueueFollowsState
  <1>2. ASSUME NEW seg \in TcpSegment, decide_reply(seg)
        PROVE  QueueFollowsState'
    <2>1. decide_reply(seg)
      BY <1>2
    <2>2. PendingAfter(seg) \subseteq pending
      BY AckShrinksQueue
    <2>3. (pending = {} <=> snd_una = snd_nxt) /\ (pending' = {} <=> snd_una' = snd_nxt')
      <3>1. pending = {} <=> snd_una = snd_nxt
        BY EmptyIffAcked
      <3>2. (IndInv => (pending = {} <=> snd_una = snd_nxt))'
        BY EmptyIffAcked, PTL
      <3>3. QED
        BY <3>1, <3>2
    <2>4. CASE /\ pending' = PendingAfter(seg) /\ incoming_ack_update(seg) /\ snd_nxt' = snd_nxt
               /\ \/ tcp_state = "FinWait1" /\ tcp_state' \in {"FinWait1", "Closing"}
                  \/ tcp_state = "FinWait1" /\ tcp_state' = "FinWait2" /\ seg.ack_num = snd_nxt
                  \/ tcp_state = "FinWait2" /\ tcp_state' = "FinWait2"
                  \/ tcp_state = "LastAck" /\ tcp_state' = "LastAck" /\ seg.ack_num # snd_nxt
      <3>1. snd_una' = UnaAfter(seg) /\ snd_nxt' = snd_nxt
        BY <2>4 DEF incoming_ack_update
      <3>2. /\ seg.ack_num = snd_nxt => UnaAfter(seg) = snd_nxt
            /\ seg.ack_num # snd_nxt /\ snd_una # snd_nxt => UnaAfter(seg) # snd_nxt
        BY <2>4, AckOfNxt
      <3>3. QED
        BY <2>2, <2>3, <2>4, <3>1, <3>2 DEF QueueFollowsState
    <2>5. QED
      BY <1>1, <2>1, <2>4, ReceiveMoves DEF QueueFollowsState
  <1>3. CASE make_retransmissions
    BY <1>3, RetransmitMoves DEF QueueFollowsState
  <1>4. CASE close_established
    BY <1>4, CloseMoves DEF QueueFollowsState
  <1>5. CASE UNCHANGED vars
    BY <1>1, <1>5 DEF vars, connVars
  <1>6. QED
    BY <1>2, <1>3, <1>4, <1>5 DEF ComparableNext

\* Every step of a connection is a step of its life as ConnPhases has it, or
\* invisible to the server loop.
LEMMA LifecycleStep ==
    ASSUME IndInv', QueueFollowsState, QueueFollowsState', [ComparableNext]_vars
    PROVE  [Lifecycle!Next]_([state |-> tcp_state, unacked |-> pending # {}])
  <1> DEFINE c == [state |-> tcp_state, unacked |-> pending # {}]
             d == [state |-> tcp_state', unacked |-> pending' # {}]
  <1>1. tcp_state' \in Lifecycle!TcpState
    BY DEF IndInv, TypeOK, TcpState, Lifecycle!TcpState
  <1>2. d \in Lifecycle!Conn
    BY <1>1, Zenon DEF Lifecycle!Conn
  <1>3. ASSUME NEW seg \in TcpSegment, decide_reply(seg)
        PROVE  UNCHANGED <<tcp_state, pending>> \/ Lifecycle!Received(c, d)
    <2>1. decide_reply(seg)
      BY <1>3
    <2>2. PendingAfter(seg) \subseteq pending
      BY AckShrinksQueue
    <2> HIDE DEF c, d
    <2>3. /\ c.state = tcp_state /\ (c.unacked <=> pending # {})
          /\ d.state = tcp_state' /\ (d.unacked <=> pending' # {})
          /\ c.unacked \in BOOLEAN /\ d.unacked \in BOOLEAN
      BY DEF c, d
    <2>4. d.unacked \in Lifecycle!UnackedIn(d.state)
      BY <2>3 DEF Lifecycle!UnackedIn, QueueFollowsState
    <2>5. \/ UNCHANGED <<tcp_state, pending>>
          \/ tcp_state' \in {tcp_state, "None"}
          \/ <<tcp_state, tcp_state'>> \in Lifecycle!Moves
      BY <2>1, ReceiveMoves DEF Lifecycle!Moves
    <2>6. \/ UNCHANGED <<tcp_state, pending>>
          \/ tcp_state' \in {"FinWait1", "Closing"} /\ pending' # {} => pending # {}
      BY <2>1, <2>2, ReceiveMoves
    <2>7. QED
      BY <2>3, <2>4, <2>5, <2>6 DEF Lifecycle!Received
  <1>4. CASE make_retransmissions
    <2>1. c = d \/ Lifecycle!GaveUp(c, d)
      BY <1>4, RetransmitMoves DEF Lifecycle!GaveUp, Lifecycle!Absent
    <2>2. QED
      BY <1>2, <2>1 DEF Lifecycle!Next
  <1>5. CASE close_established
    <2>1. Lifecycle!Closed(c, d)
      BY <1>5, CloseMoves DEF Lifecycle!Closed, Lifecycle!FinSent
    <2>2. QED
      BY <1>2, <2>1 DEF Lifecycle!Next
  <1>6. CASE UNCHANGED vars
    BY <1>6 DEF vars, connVars
  <1>7. CASE \E seg \in TcpSegment : decide_reply(seg)
    BY <1>2, <1>3, <1>7 DEF Lifecycle!Next
  <1>8. QED
    BY <1>4, <1>5, <1>6, <1>7 DEF ComparableNext

\* The server loop may rely on ConnLifecycle: every behaviour of a connection whose
\* peer sends comparable ACK numbers, in any sequence space and for any window,
\* moves between TCP states only as ConnPhases says, has something to retransmit
\* in SYN-RECEIVED and LAST-ACK, and nothing in FIN-WAIT-2.
THEOREM ConnectionImplementsLifecycle == ComparableSpec => ImplementsLifecycle
  <1>1. Init => QueueFollowsState
    BY DEF Init, QueueFollowsState
  <1>2. Init => Lifecycle!Init
    BY DEF Init, Lifecycle!Init, Lifecycle!Absent
  <1>3. IndInv /\ IndInv' /\ QueueFollowsState /\ [ComparableNext]_vars => QueueFollowsState'
    BY QueueFollowsStep
  <1>4. IndInv' /\ QueueFollowsState /\ QueueFollowsState' /\ [ComparableNext]_vars
        => [Lifecycle!Next]_([state |-> tcp_state, unacked |-> pending # {}])
    BY LifecycleStep
  <1>5. QED
    BY <1>1, <1>2, <1>3, <1>4, Invariance, PTL DEF ComparableSpec, ImplementsLifecycle, Lifecycle!Spec

=============================================================================
