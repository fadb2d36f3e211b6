---------------------------- MODULE TcpOpenProofs ----------------------------
(***************************************************************************)
(* What holds of TcpConnection whatever the peer sends, its ACK numbers    *)
(* included: the state is well-typed and the echo is faithful.             *)
(***************************************************************************)
EXTENDS TcpConnectionProofs

\* The echo needs nothing of the retransmission queue and of SND.UNA but their types.
EchoInv == TypeOK /\ EchoIsFaithful

\* What any ACK makes of SND.UNA, the window and the queue is well-typed.
LEMMA AckTypes ==
    ASSUME TypeOK, NEW seg \in TcpSegment
    PROVE  /\ UnaAfter(seg) \in SeqPoint
           /\ WindowAfter(seg) \in WindowState /\ WindowAfter(seg).snd_wnd \in 0 .. WndMax
           /\ PendingAfter(seg) \in SUBSET PendingSegment /\ IsFiniteSet(PendingAfter(seg))
  <1>1. seg.ack_num \in SeqPoint /\ WindowFrom(seg) \in WindowState
    BY SegmentTypes
  <1>2. UnaAfter(seg) \in SeqPoint
    BY <1>1 DEF TypeOK, UnaAfter
  <1>3. WindowAfter(seg) \in WindowState
    BY <1>1 DEF TypeOK, WindowAfter
  <1>4. PendingAfter(seg) \subseteq pending
    BY DEF PendingAfter
  <1>5. PendingAfter(seg) \in SUBSET PendingSegment /\ IsFiniteSet(PendingAfter(seg))
    BY <1>4, FS_Subset DEF TypeOK
  <1>6. QED
    BY <1>2, <1>3, <1>5 DEF WindowState

\* Sending data keeps the types and moves bytes from the buffer to the wire.
LEMMA SendDataTypes ==
    ASSUME TypeOK, NEW una \in SeqPoint, NEW wnd \in 0 .. WndMax, NEW buffer \in Seq(Byte),
           NEW queue \in SUBSET PendingSegment, IsFiniteSet(queue),
           NEW otherwise \in SUBSET SendInfo, rcv_nxt' \in SeqPoint,
           SendData(una, wnd, buffer, queue, otherwise)
    PROVE  /\ snd_nxt' \in SeqPoint
           /\ pending' \subseteq PendingSegment /\ IsFiniteSet(pending')
           /\ out' \subseteq SendInfo
           /\ send_buffer' \in Seq(Byte) /\ echoed' \in Seq(Byte)
           /\ echoed' \o send_buffer' = echoed \o buffer
  <1> DEFINE n == Transmittable(una, wnd, buffer)
             data == [seq_num |-> snd_nxt, ack_num |-> rcv_nxt', flags |-> "Ack",
                      payload |-> SubSeq(buffer, 1, n)]
  <1>1. n \in 0 .. Len(buffer) /\ n \in Nat
    BY TransmittableBound, LenProperties
  <1>2. Drain(buffer, n) /\ snd_nxt' = Add(snd_nxt, n)
        /\ pending' = (IF n > 0 THEN push(queue, data) ELSE queue)
        /\ out' = (IF n > 0 THEN {data} ELSE otherwise)
    BY Zenon DEF SendData
  <1>3. SubSeq(buffer, 1, n) \in Seq(Byte)
    BY <1>1, DrainSplits
  <1>4. data \in SendInfo
    BY <1>3 DEF TypeOK, SendInfo, TcpFlags
  <1> HIDE DEF n, data
  <1>5. /\ send_buffer' \in Seq(Byte) /\ echoed' \in Seq(Byte)
        /\ echoed' \o send_buffer' = echoed \o buffer
    BY <1>1, <1>2, DrainStep, Zenon
  <1>6. Add(snd_nxt, n) \in SeqPoint
    BY <1>1, AddType DEF TypeOK
  <1>7. push(queue, data) \subseteq PendingSegment /\ IsFiniteSet(push(queue, data))
    BY <1>4, PushType
  <1>8. QED
    BY <1>2, <1>4, <1>5, <1>6, <1>7

\* So does sending the FIN of a passive close.
LEMMA SendFinTypes ==
    ASSUME TypeOK, NEW una \in SeqPoint, NEW wnd \in 0 .. WndMax, NEW buffer \in Seq(Byte),
           NEW queue \in SUBSET PendingSegment, IsFiniteSet(queue), rcv_nxt' \in SeqPoint,
           SendFin(una, wnd, buffer, queue)
    PROVE  /\ snd_nxt' \in SeqPoint
           /\ pending' \subseteq PendingSegment /\ IsFiniteSet(pending')
           /\ out' \subseteq SendInfo
           /\ send_buffer' \in Seq(Byte) /\ echoed' \in Seq(Byte)
           /\ echoed' \o send_buffer' = echoed \o buffer
  <1> DEFINE n == Transmittable(una, wnd, buffer)
             fin == [seq_num |-> snd_nxt, ack_num |-> rcv_nxt', flags |-> "FinAck",
                     payload |-> SubSeq(buffer, 1, n)]
  <1>1. n \in 0 .. Len(buffer) /\ n \in Nat
    BY TransmittableBound, LenProperties
  <1>2. Drain(buffer, n) /\ snd_nxt' = Add(Add(snd_nxt, n), 1)
        /\ pending' = push(queue, fin) /\ out' = {fin}
    BY Zenon DEF SendFin
  <1>3. SubSeq(buffer, 1, n) \in Seq(Byte)
    BY <1>1, DrainSplits
  <1>4. fin \in SendInfo
    BY <1>3 DEF TypeOK, SendInfo, TcpFlags
  <1> HIDE DEF n, fin
  <1>5. /\ send_buffer' \in Seq(Byte) /\ echoed' \in Seq(Byte)
        /\ echoed' \o send_buffer' = echoed \o buffer
    BY <1>1, <1>2, DrainStep, Zenon
  <1>6. Add(snd_nxt, n) \in SeqPoint
    BY <1>1, AddType DEF TypeOK
  <1>7. Add(Add(snd_nxt, n), 1) \in SeqPoint
    BY <1>6, AddType
  <1>8. push(queue, fin) \subseteq PendingSegment /\ IsFiniteSet(push(queue, fin))
    BY <1>4, PushType
  <1>9. QED
    BY <1>2, <1>4, <1>5, <1>7, <1>8

\* Steps that leave the stream alone.
LEMMA QuietStep ==
    ASSUME EchoInv, tcp_state' \in TcpState,
           snd_nxt' \in SeqPoint, rcv_nxt' \in SeqPoint, snd_una' \in SeqPoint,
           window_state' \in WindowState, pending' \subseteq PendingSegment, IsFiniteSet(pending'),
           out' \subseteq SendInfo, UNCHANGED <<send_buffer, history>>
    PROVE  EchoInv'
  BY DEF EchoInv, TypeOK, EchoIsFaithful, history

\* Steps that only answer.
LEMMA AnswerStep ==
    ASSUME EchoInv, UNCHANGED <<connVars, history>>, out' \subseteq SendInfo
    PROVE  EchoInv'
  BY DEF EchoInv, TypeOK, EchoIsFaithful, connVars, history

\* Steps that drop the connection.
LEMMA DropStep ==
    ASSUME ResetConn, out' \subseteq SendInfo
    PROVE  EchoInv'
  BY ResetStep DEF IndInv, EchoInv

\* Steps that take in an ACK and send nothing from the buffer.
LEMMA AckQuietStep ==
    ASSUME EchoInv, NEW seg \in TcpSegment, tcp_state' \in TcpState,
           incoming_ack_update(seg), pending' = PendingAfter(seg),
           rcv_nxt' \in SeqPoint, out' \subseteq SendInfo,
           UNCHANGED <<snd_nxt, send_buffer, history>>
    PROVE  EchoInv'
  <1>1. /\ UnaAfter(seg) \in SeqPoint /\ WindowAfter(seg) \in WindowState
        /\ PendingAfter(seg) \in SUBSET PendingSegment /\ IsFiniteSet(PendingAfter(seg))
    BY AckTypes DEF EchoInv
  <1>2. snd_nxt' \in SeqPoint
    BY DEF EchoInv, TypeOK
  <1>3. QED
    BY <1>1, <1>2, QuietStep DEF incoming_ack_update

\* Steps that accept bytes behind `buffer` and send from it, with a FIN or without.
LEMMA SendStep ==
    ASSUME EchoInv, NEW una \in SeqPoint, NEW wnd \in 0 .. WndMax, NEW buffer \in Seq(Byte),
           NEW queue \in SUBSET PendingSegment, IsFiniteSet(queue),
           NEW otherwise \in SUBSET SendInfo, rcv_nxt' \in SeqPoint,
           SendData(una, wnd, buffer, queue, otherwise) \/ SendFin(una, wnd, buffer, queue),
           tcp_state' \in TcpState, snd_una' = una, window_state' \in WindowState,
           accepted' \in Seq(Byte), accepted' = echoed \o buffer
    PROVE  EchoInv'
  <1>1. /\ snd_nxt' \in SeqPoint
        /\ pending' \subseteq PendingSegment /\ IsFiniteSet(pending')
        /\ out' \subseteq SendInfo
        /\ send_buffer' \in Seq(Byte) /\ echoed' \in Seq(Byte)
        /\ echoed' \o send_buffer' = echoed \o buffer
    BY SendDataTypes, SendFinTypes, Zenon DEF EchoInv
  <1>2. TypeOK'
    BY <1>1 DEF TypeOK
  <1>3. EchoIsFaithful'
    BY <1>1 DEF EchoIsFaithful
  <1>4. QED
    BY <1>2, <1>3 DEF EchoInv

-----------------------------------------------------------------------------
(* The handlers *)

\* The handlers that answer, drop the connection or open one.
LEMMA OpenStep ==
    ASSUME EchoInv, NEW seg \in TcpSegment,
           handle_unknown_conn(seg) \/ handle_rst(seg) \/ handle_stray_syn(seg)
    PROVE  EchoInv'
  <1>1. pure_ack(snd_nxt, rcv_nxt) \in SendInfo /\ rst(seg) \in SendInfo
    BY AnswerTypes DEF EchoInv, TypeOK
  <1>2. CASE Reply({}) \/ Reply({rst(seg)}) \/ Reply({pure_ack(snd_nxt, rcv_nxt)})
    BY <1>1, <1>2, AnswerStep DEF Reply
  <1>3. CASE remove({})
    BY <1>3, DropStep DEF remove
  <1>4. ASSUME NEW isn \in InitialSeq,
               tcp_state' = "SynReceived", snd_nxt' = Add(isn, 1), rcv_nxt' = Add(seg.seq_num, 1),
               snd_una' = isn, pending' = push({}, SynAck(isn, seg)), out' = {SynAck(isn, seg)},
               UNCHANGED <<window_state, send_buffer, history>>
        PROVE  EchoInv'
    <2>1. isn \in SeqPoint
      BY InitialSeqAssumption
    <2>2. SynAck(isn, seg) \in SendInfo
      BY <2>1, AnswerTypes
    <2>3. {} \in SUBSET PendingSegment /\ IsFiniteSet({})
      BY FS_EmptySet
    <2>4. pending' \subseteq PendingSegment /\ IsFiniteSet(pending')
      BY <1>4, <2>2, <2>3, PushType
    <2>5. snd_nxt' \in SeqPoint /\ rcv_nxt' \in SeqPoint
      BY <1>4, <2>1, SegmentTypes, AddType
    <2>6. window_state' \in WindowState /\ tcp_state' \in TcpState /\ out' \subseteq SendInfo
      BY <1>4, <2>2 DEF EchoInv, TypeOK, TcpState
    <2>7. QED
      BY <1>4, <2>1, <2>4, <2>5, <2>6, QuietStep
  <1>5. QED
    BY <1>2, <1>3, <1>4, Zenon DEF handle_unknown_conn, handle_rst, handle_stray_syn

\* handle_syn_rcv: the handshake may complete with data, or with data and a FIN.
LEMMA SynRcvOpen ==
    ASSUME EchoInv, NEW seg \in TcpSegment, handle_syn_rcv(seg)
    PROVE  EchoInv'
  <1>1. /\ snd_una \in SeqPoint /\ snd_nxt \in SeqPoint /\ rcv_nxt \in SeqPoint
        /\ tcp_state \in TcpState /\ window_state \in WindowState
        /\ pending \in SUBSET PendingSegment /\ IsFiniteSet(pending)
    BY DEF EchoInv, TypeOK
  <1>2. CASE /\ pending' = push(pending, SynAck(snd_una, seg))
             /\ out' = {SynAck(snd_una, seg)}
             /\ UNCHANGED <<tcp_state, snd_nxt, rcv_nxt, snd_una, window_state, send_buffer, history>>
    <2>1. SynAck(snd_una, seg) \in SendInfo
      BY <1>1, AnswerTypes
    <2>2. pending' \subseteq PendingSegment /\ IsFiniteSet(pending')
      BY <1>1, <1>2, <2>1, PushType
    <2>3. QED
      BY <1>1, <1>2, <2>1, <2>2, QuietStep
  <1>3. CASE Reply({pure_ack(snd_nxt, rcv_nxt)}) \/ Reply({rst(seg)})
    BY <1>1, <1>3, AnswerTypes, AnswerStep DEF Reply
  <1>4. /\ seg.ack_num \in SeqPoint /\ seg.window \in 0 .. WndMax /\ WindowFrom(seg) \in WindowState
        /\ send_buffer \o seg.payload \in Seq(Byte)
        /\ accepted \o seg.payload \in Seq(Byte)
        /\ accepted \o seg.payload = echoed \o (send_buffer \o seg.payload)
        /\ {} \in SUBSET PendingSegment /\ IsFiniteSet({})
    BY SegmentTypes, AcceptKeepsEcho, FS_EmptySet DEF EchoInv
  <1>5. ASSUME NEW otherwise \in SUBSET SendInfo, rcv_nxt' \in SeqPoint,
               complete_handshake(seg), accepted' = accepted \o seg.payload, tcp_state' \in TcpState,
               \/ SendData(seg.ack_num, seg.window, send_buffer \o seg.payload, clear(pending), otherwise)
               \/ SendFin(seg.ack_num, seg.window, send_buffer \o seg.payload, clear(pending))
        PROVE  EchoInv'
    BY <1>4, <1>5, SendStep, Zenon DEF clear, complete_handshake
  <1>6. CASE /\ tcp_state' = "Established"
             /\ complete_handshake(seg)
             /\ rcv_nxt' = Add(seg.seq_num, Len(seg.payload))
             /\ accepted' = accepted \o seg.payload
             /\ SendData(seg.ack_num, seg.window, send_buffer \o seg.payload, clear(pending),
                         IF seg.payload = <<>> THEN {} ELSE {pure_ack(snd_nxt, rcv_nxt')})
    <2>1. rcv_nxt' \in SeqPoint /\ tcp_state' \in TcpState
      BY <1>6, SegmentTypes DEF TcpState
    <2>2. (IF seg.payload = <<>> THEN {} ELSE {pure_ack(snd_nxt, rcv_nxt')}) \in SUBSET SendInfo
      BY <1>1, <2>1, AnswerTypes
    <2>3. QED
      BY <1>5, <1>6, <2>1, <2>2, Zenon
  <1>7. CASE /\ tcp_state' = "LastAck"
             /\ complete_handshake(seg)
             /\ rcv_nxt' = Add(Add(seg.seq_num, Len(seg.payload)), 1)
             /\ accepted' = accepted \o seg.payload
             /\ SendFin(seg.ack_num, seg.window, send_buffer \o seg.payload, clear(pending))
    <2>1. rcv_nxt' \in SeqPoint /\ tcp_state' \in TcpState /\ {} \in SUBSET SendInfo
      BY <1>7, SegmentTypes DEF TcpState
    <2>2. QED
      BY <1>5, <1>7, <2>1, Zenon
  <1>8. QED
    BY <1>2, <1>3, <1>6, <1>7, Zenon DEF handle_syn_rcv

\* handle_established: whatever the ACK, bytes are accepted and sent in order.
LEMMA EstablishedOpen ==
    ASSUME EchoInv, NEW seg \in TcpSegment, handle_established(seg)
    PROVE  EchoInv'
  <1> DEFINE una == UnaAfter(seg)
             wnd == WindowAfter(seg).snd_wnd
             queue == PendingAfter(seg)
  <1>1. /\ snd_nxt \in SeqPoint /\ rcv_nxt \in SeqPoint /\ tcp_state \in TcpState
        /\ send_buffer \in Seq(Byte) /\ accepted \in Seq(Byte) /\ accepted = echoed \o send_buffer
    BY DEF EchoInv, TypeOK, EchoIsFaithful
  <1>2. /\ una \in SeqPoint /\ WindowAfter(seg) \in WindowState /\ wnd \in 0 .. WndMax
        /\ queue \in SUBSET PendingSegment /\ IsFiniteSet(queue)
    BY AckTypes DEF EchoInv
  <1>3. /\ send_buffer \o seg.payload \in Seq(Byte)
        /\ accepted \o seg.payload \in Seq(Byte)
        /\ accepted \o seg.payload = echoed \o (send_buffer \o seg.payload)
    BY SegmentTypes, AcceptKeepsEcho, Zenon DEF EchoInv
  <1>4. ASSUME NEW buffer \in Seq(Byte), NEW otherwise \in SUBSET SendInfo, rcv_nxt' \in SeqPoint,
               incoming_ack_update(seg), tcp_state' \in TcpState,
               accepted' \in Seq(Byte), accepted' = echoed \o buffer,
               SendData(una, wnd, buffer, queue, otherwise) \/ SendFin(una, wnd, buffer, queue)
        PROVE  EchoInv'
    <2>1. snd_una' = una /\ window_state' \in WindowState
      BY <1>2, <1>4 DEF incoming_ack_update
    <2>2. QED
      BY <1>2, <1>4, <2>1, SendStep, Zenon
  <1>5. CASE Reply({pure_ack(snd_nxt, rcv_nxt)})
    BY <1>1, <1>5, AnswerTypes, AnswerStep DEF Reply
  <1>6. CASE /\ incoming_ack_update(seg)
             /\ UNCHANGED <<tcp_state, rcv_nxt, accepted>>
             /\ SendData(una, wnd, send_buffer, queue, {})
    <2>1. {} \in SUBSET SendInfo
      OBVIOUS
    <2>2. /\ rcv_nxt' \in SeqPoint /\ tcp_state' \in TcpState
          /\ accepted' \in Seq(Byte) /\ accepted' = echoed \o send_buffer
      BY <1>1, <1>6
    <2>3. QED
      BY <1>1, <1>4, <1>6, <2>1, <2>2, Zenon
  <1>7. CASE /\ incoming_ack_update(seg)
             /\ rcv_nxt' = Add(rcv_nxt, Len(seg.payload))
             /\ accepted' = accepted \o seg.payload
             /\ UNCHANGED tcp_state
             /\ SendData(una, wnd, send_buffer \o seg.payload, queue, {pure_ack(snd_nxt, rcv_nxt')})
    <2>1. rcv_nxt' \in SeqPoint /\ tcp_state' \in TcpState
      BY <1>1, <1>7, RcvTypes DEF EchoInv
    <2>2. {pure_ack(snd_nxt, rcv_nxt')} \in SUBSET SendInfo
      BY <1>1, <2>1, AnswerTypes
    <2>3. QED
      BY <1>3, <1>4, <1>7, <2>1, <2>2, Zenon
  <1>8. CASE /\ incoming_ack_update(seg)
             /\ pending' = queue
             /\ out' = {pure_ack(snd_nxt, rcv_nxt)}
             /\ UNCHANGED <<tcp_state, snd_nxt, rcv_nxt, send_buffer, history>>
    <2>1. rcv_nxt' \in SeqPoint /\ tcp_state' \in TcpState /\ out' \subseteq SendInfo
      BY <1>1, <1>8, AnswerTypes
    <2>2. QED
      BY <1>8, <2>1, AckQuietStep
  <1>9. CASE /\ tcp_state' = "LastAck"
             /\ incoming_ack_update(seg)
             /\ rcv_nxt' = Add(Add(rcv_nxt, Len(seg.payload)), 1)
             /\ accepted' = accepted \o seg.payload
             /\ SendFin(una, wnd, send_buffer \o seg.payload, queue)
    <2>1. rcv_nxt' \in SeqPoint /\ tcp_state' \in TcpState /\ {} \in SUBSET SendInfo
      BY <1>9, RcvTypes DEF EchoInv, TcpState
    <2>2. QED
      BY <1>3, <1>4, <1>9, <2>1, Zenon
  <1>10. QED
    BY <1>5, <1>6, <1>7, <1>8, <1>9, Zenon DEF handle_established

\* The closing states accept and send nothing.
LEMMA ClosingOpen ==
    ASSUME EchoInv, NEW seg \in TcpSegment,
           handle_fin_wait_1(seg) \/ handle_fin_wait_2(seg) \/ handle_closing(seg) \/ handle_last_ack(seg)
    PROVE  EchoInv'
  <1>1. /\ snd_nxt \in SeqPoint /\ rcv_nxt \in SeqPoint /\ tcp_state \in TcpState
        /\ RcvAfterFin(seg) \in SeqPoint /\ Add(rcv_nxt, Len(seg.payload)) \in SeqPoint
    BY RcvTypes DEF EchoInv, TypeOK, RcvAfterFin
  <1>2. CASE Reply({rst(seg)})
    BY <1>1, <1>2, AnswerTypes, AnswerStep DEF Reply
  <1>3. CASE remove({}) \/ remove({pure_ack(snd_nxt, RcvAfterFin(seg))})
    BY <1>1, <1>3, AnswerTypes, DropStep DEF remove
  <1>4. ASSUME tcp_state' \in TcpState, incoming_ack_update(seg), pending' = PendingAfter(seg),
               UNCHANGED <<snd_nxt, send_buffer, history>>,
               \/ rcv_nxt' = rcv_nxt /\ out' = {}
               \/ /\ rcv_nxt' \in {Add(rcv_nxt, Len(seg.payload)), RcvAfterFin(seg)}
                  /\ out' = {pure_ack(snd_nxt, rcv_nxt')}
        PROVE  EchoInv'
    <2>1. rcv_nxt' \in SeqPoint
      BY <1>1, <1>4
    <2>2. out' \subseteq SendInfo
      <3>1. pure_ack(snd_nxt, rcv_nxt') \in SendInfo
        BY <1>1, <2>1, AnswerTypes
      <3>2. QED
        BY <1>4, <3>1
    <2>3. QED
      BY <1>4, <2>1, <2>2, AckQuietStep
  <1>5. CASE DiscardData(seg)
    BY <1>1, <1>4, <1>5, Zenon DEF DiscardData
  <1>6. CASE /\ tcp_state' \in {"FinWait2", "LastAck"}
             /\ incoming_ack_update(seg)
             /\ pending' = PendingAfter(seg)
             /\ out' = {}
             /\ UNCHANGED <<snd_nxt, rcv_nxt, send_buffer, history>>
    BY <1>4, <1>6 DEF TcpState
  <1>7. CASE /\ tcp_state' = "Closing"
             /\ rcv_nxt' = RcvAfterFin(seg)
             /\ out' = {pure_ack(snd_nxt, rcv_nxt')}
             /\ incoming_ack_update(seg)
             /\ pending' = PendingAfter(seg)
             /\ UNCHANGED <<snd_nxt, send_buffer, history>>
    BY <1>4, <1>7 DEF TcpState
  <1>8. CASE handle_fin_wait_1(seg)
    BY <1>2, <1>3, <1>5, <1>6, <1>7, <1>8, Zenon DEF handle_fin_wait_1
  <1>9. CASE handle_fin_wait_2(seg)
    BY <1>2, <1>3, <1>5, <1>9, Zenon DEF handle_fin_wait_2
  <1>10. CASE handle_closing(seg)
    BY <1>2, <1>3, <1>10 DEF handle_closing
  <1>11. CASE handle_last_ack(seg)
    BY <1>2, <1>3, <1>6, <1>11, Zenon DEF handle_last_ack
  <1>12. QED
    BY <1>8, <1>9, <1>10, <1>11

\* Retransmissions and the active close move no bytes from or to the buffer.
LEMMA TimerOpen ==
    ASSUME EchoInv, make_retransmissions \/ close_established
    PROVE  EchoInv'
  <1>1. ASSUME NEW due \in SUBSET pending, Retransmit(due)
        PROVE  EchoInv'
    <2>1. /\ pending' \subseteq PendingSegment /\ IsFiniteSet(pending')
          /\ out' \subseteq SendInfo
      BY <1>1, RetransmitTypes DEF EchoInv
    <2>2. QED
      BY <1>1, <2>1, QuietStep DEF Retransmit, EchoInv, TypeOK
  <1>2. ASSUME NEW due \in SUBSET pending, GiveUp(due)
        PROVE  EchoInv'
    BY <1>2, DropStep DEF GiveUp, remove
  <1>3. CASE close_established
    <2> DEFINE fin == [seq_num |-> snd_nxt, ack_num |-> rcv_nxt, flags |-> "FinAck", payload |-> <<>>]
    <2>1. fin \in SendInfo
      BY EmptySeq DEF EchoInv, TypeOK, SendInfo, TcpFlags
    <2>2. /\ tcp_state' = "FinWait1" /\ pending' = push(pending, fin) /\ out' = {fin}
          /\ snd_nxt' = Add(snd_nxt, 1)
          /\ UNCHANGED <<rcv_nxt, snd_una, window_state, send_buffer, history>>
      BY <1>3 DEF close_established
    <2> HIDE DEF fin
    <2>3. push(pending, fin) \subseteq PendingSegment /\ IsFiniteSet(push(pending, fin))
      BY <2>1, PushType DEF EchoInv, TypeOK
    <2>4. Add(snd_nxt, 1) \in SeqPoint
      BY AddType DEF EchoInv, TypeOK
    <2>5. QED
      BY <2>1, <2>2, <2>3, <2>4, QuietStep DEF EchoInv, TypeOK, TcpState
  <1>4. QED
    BY <1>1, <1>2, <1>3 DEF make_retransmissions

-----------------------------------------------------------------------------
(* Theorems *)

\* Types and echo are kept by every step, whatever segment causes it.
LEMMA OpenNext == EchoInv /\ [Next]_vars => EchoInv'
  <1> SUFFICES ASSUME EchoInv, [Next]_vars PROVE EchoInv'
    OBVIOUS
  <1>1. ASSUME NEW seg \in TcpSegment, decide_reply(seg)
        PROVE  EchoInv'
    BY <1>1, OpenStep, SynRcvOpen, EstablishedOpen, ClosingOpen DEF decide_reply
  <1>2. CASE UNCHANGED vars
    <2>1. UNCHANGED <<connVars, history>> /\ out' \subseteq SendInfo
      BY <1>2 DEF vars, EchoInv, TypeOK
    <2>2. QED
      BY <2>1, AnswerStep
  <1>3. QED
    BY <1>1, <1>2, TimerOpen DEF Next

\* They hold in every reachable state of a connection, with any peer.
THEOREM OpenInvariance == Spec => []EchoInv
  <1>1. Init => EchoInv
    BY InitInv DEF IndInv, EchoInv
  <1>2. QED
    BY <1>1, OpenNext, PTL DEF Spec

\* The state of a connection is always well-typed, its retransmission queue
\* finite, whatever segments decide_reply is given.
THEOREM TypeCorrect == Spec => []TypeOK
  <1>1. EchoInv => TypeOK
    BY DEF EchoInv
  <1>2. QED
    BY <1>1, OpenInvariance, PTL

\* Sent bytes followed by buffered bytes are the bytes accepted, in order,
\* whatever the peer's ACK numbers and windows are.
THEOREM EchoFaithful == Spec => []EchoIsFaithful
  <1>1. EchoInv => EchoIsFaithful
    BY DEF EchoInv
  <1>2. QED
    BY <1>1, OpenInvariance, PTL

=============================================================================
