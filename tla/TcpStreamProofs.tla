--------------------------- MODULE TcpStreamProofs ---------------------------
(***************************************************************************)
(* A retransmission repeats the bytes first sent at its sequence numbers:  *)
(* proof that the payloads kept in the retransmission queue stay the parts *)
(* of the stream that their distance to SND.NXT says they are.             *)
(***************************************************************************)
EXTENDS TcpStepProofs

\* The payload is the part of the stream that begins after its first `start` bytes.
Matches(data, stream, start) ==
    /\ start \in 0 .. (Len(stream) - Len(data))
    /\ data = SubSeq(stream, start + 1, start + Len(data))

\* PendingMatchesStream for any queue, stream, SND.NXT and FIN count.
QueueMatches(queue, stream, nxt, fin) ==
    \A p \in queue :
        p.send_info.payload # <<>> =>
            Matches(p.send_info.payload, stream, Len(stream) + fin - Sub(nxt, p.send_info.seq_num))

\* The two agree on the queue of a connection.
LEMMA MatchesStream ==
    PendingMatchesStream <=> QueueMatches(pending, echoed, snd_nxt, FinOffset)
  BY Zenon DEF PendingMatchesStream, QueueMatches, Matches, StartOf

\* Bytes added at the end of the stream leave its earlier parts alone.
LEMMA GrownStreamMatches ==
    ASSUME NEW data \in Seq(Byte), data # <<>>, NEW s \in Seq(Byte), NEW t \in Seq(Byte),
           NEW start, Matches(data, s, start)
    PROVE  Matches(data, s \o t, start)
  <1>1. Len(s) \in Nat /\ Len(t) \in Nat /\ Len(data) \in Nat /\ Len(data) # 0
    BY LenProperties, EmptySeq
  <1>2. Len(s \o t) = Len(s) + Len(t)
    BY ConcatProperties
  <1>3. start \in 0 .. (Len(s) - Len(data)) /\ data = SubSeq(s, start + 1, start + Len(data))
    BY DEF Matches
  <1>4. start + 1 \in 1 .. Len(s) /\ start + Len(data) \in 1 .. Len(s)
    BY <1>1, <1>3
  <1>5. SubSeq(s \o t, start + 1, start + Len(data)) = SubSeq(s, start + 1, start + Len(data))
    BY <1>4, SubSeqOfConcat1
  <1>6. QED
    BY <1>1, <1>2, <1>3, <1>5 DEF Matches

\* Bytes just added are the last part of the stream.
LEMMA NewBytesMatch ==
    ASSUME NEW data \in Seq(Byte), data # <<>>, NEW s \in Seq(Byte)
    PROVE  Matches(data, s \o data, Len(s))
  <1>1. Len(s) \in Nat /\ Len(data) \in Nat /\ Len(data) # 0
    BY LenProperties, EmptySeq
  <1>2. Len(s \o data) = Len(s) + Len(data)
    BY ConcatProperties
  <1>3. /\ Len(s) + 1 \in (Len(s) + 1) .. (Len(s) + Len(data))
        /\ Len(s) + Len(data) \in (Len(s) + 1) .. (Len(s) + Len(data))
    BY <1>1
  <1>4. SubSeq(s \o data, Len(s) + 1, Len(s) + Len(data))
           = SubSeq(data, Len(s) + 1 - Len(s), Len(s) + Len(data) - Len(s))
    BY <1>3, SubSeqOfConcat2
  <1>5. Len(s) + 1 - Len(s) = 1 /\ Len(s) + Len(data) - Len(s) = Len(data)
    BY <1>1
  <1>6. SubSeq(data, 1, Len(data)) = data
    BY SubSeqFull
  <1>7. QED
    BY <1>1, <1>2, <1>4, <1>5, <1>6 DEF Matches

\* SND.NXT stays within one round of every pending segment: what is in flight
\* and the segment itself are each shorter than half the space.
LEMMA NxtKeepsDistance ==
    ASSUME NEW una \in SeqPoint, NEW nxt \in SeqPoint, NEW queue \in SUBSET PendingSegment,
           QueueOK(queue, una, nxt), NEW k \in Nat, Sub(nxt, una) + k <= WndMax + 1, NEW p \in queue
    PROVE  /\ Sub(nxt, p.send_info.seq_num) \in Nat
           /\ Sub(Add(nxt, k), p.send_info.seq_num) = Sub(nxt, p.send_info.seq_num) + k
  <1> DEFINE a == p.send_info.seq_num
             e == p.end_seq
  <1>1. a \in SeqPoint /\ e \in SeqPoint
    BY PendingTypes
  <1>2. Sub(e, a) \in 1 .. (WndMax + 1) /\ Sub(e, una) \in 1 .. Sub(nxt, una)
    BY DEF QueueOK, EndsInFlight, FitsWindow
  <1> HIDE DEF a, e
  <1>3. /\ Sub(nxt, una) = IF nxt >= una THEN nxt - una ELSE nxt - una + Modulus
        /\ Sub(nxt, a) = IF nxt >= a THEN nxt - a ELSE nxt - a + Modulus
        /\ Sub(e, una) = IF e >= una THEN e - una ELSE e - una + Modulus
        /\ Sub(e, a) = IF e >= a THEN e - a ELSE e - a + Modulus
    BY <1>1, SubValue
  <1>4. Sub(nxt, a) + k < Modulus
    BY <1>1, <1>2, <1>3, WndAssumption, HalfAssumption DEF Modulus, SeqPoint
  <1>5. Sub(nxt, a) \in Nat /\ Sub(Add(nxt, k), a) = Sub(nxt, a) + k
    BY <1>1, <1>4, AddFarther
  <1>6. QED
    BY <1>5 DEF a

\* Sending n bytes, and possibly a FIN, keeps the queue in step with the stream.
LEMMA SendKeepsMatch ==
    ASSUME NEW una \in SeqPoint, NEW nxt \in SeqPoint,
           NEW queue \in SUBSET PendingSegment, QueueOK(queue, una, nxt),
           NEW stream \in Seq(Byte), NEW data \in Seq(Byte), NEW fin \in {0, 1},
           QueueMatches(queue, stream, nxt, 0),
           Sub(nxt, una) + Len(data) + fin <= WndMax + 1,
           NEW info, info.seq_num = nxt, info.payload = data,
           NEW added, added \subseteq push(queue, info)
    PROVE  QueueMatches(added, stream \o data, Add(nxt, Len(data) + fin), fin)
  <1> DEFINE k == Len(data) + fin
  <1>1. Len(data) \in Nat /\ Len(stream) \in Nat /\ Len(stream \o data) = Len(stream) + Len(data)
    BY LenProperties, ConcatProperties
  <1>2. Sub(nxt, una) \in 0 .. (Modulus - 1)
    BY SubType
  <1>3. k \in Nat /\ Sub(nxt, una) + k <= WndMax + 1 /\ k \in 0 .. (Modulus - 1)
    BY <1>1, <1>2, WndAssumption, HalfAssumption DEF Modulus
  <1> SUFFICES ASSUME NEW p \in added, p.send_info.payload # <<>>
               PROVE  Matches(p.send_info.payload, stream \o data,
                              Len(stream \o data) + fin - Sub(Add(nxt, k), p.send_info.seq_num))
    BY DEF QueueMatches
  <1>4. CASE p \in queue
    <2>1. p.send_info.payload \in Seq(Byte)
      BY <1>4, PendingTypes DEF SendInfo
    <2>2. Matches(p.send_info.payload, stream, Len(stream) + 0 - Sub(nxt, p.send_info.seq_num))
      BY <1>4 DEF QueueMatches
    <2>3. Sub(nxt, p.send_info.seq_num) \in Nat
          /\ Sub(Add(nxt, k), p.send_info.seq_num) = Sub(nxt, p.send_info.seq_num) + k
      BY <1>3, <1>4, NxtKeepsDistance
    <2>4. Len(stream \o data) + fin - Sub(Add(nxt, k), p.send_info.seq_num)
             = Len(stream) + 0 - Sub(nxt, p.send_info.seq_num)
      BY <1>1, <2>3
    <2>5. QED
      BY <2>1, <2>2, <2>4, GrownStreamMatches
  <1>5. CASE p \notin queue
    <2>1. p.send_info = info
      BY <1>5, PushedOnly
    <2>2. Sub(Add(nxt, k), nxt) = k
      BY <1>3, SubAdd
    <2>3. Len(stream \o data) + fin - Sub(Add(nxt, k), nxt) = Len(stream)
      BY <1>1, <2>2
    <2>4. Matches(data, stream \o data, Len(stream))
      BY <2>1, NewBytesMatch
    <2>5. QED
      BY <2>1, <2>3, <2>4
  <1>6. QED
    BY <1>4, <1>5

\* Steps that send data from the buffer.
LEMMA SendDataMatches ==
    ASSUME TypeOK, NEW una \in SeqPoint, NEW wnd \in 0 .. WndMax, NEW buffer \in Seq(Byte),
           NEW queue \in SUBSET PendingSegment, NEW otherwise,
           Sub(snd_nxt, una) <= WndMax, QueueOK(queue, una, snd_nxt),
           QueueMatches(queue, echoed, snd_nxt, 0),
           SendData(una, wnd, buffer, queue, otherwise), tcp_state' = "Established"
    PROVE  PendingMatchesStream'
  <1> DEFINE n == Transmittable(una, wnd, buffer)
             bytes == SubSeq(buffer, 1, n)
             info == [seq_num |-> snd_nxt, ack_num |-> rcv_nxt', flags |-> "Ack", payload |-> bytes]
  <1>1. n \in 0 .. Len(buffer) /\ (n = 0 \/ Sub(snd_nxt, una) + n <= wnd)
    BY TransmittableBound
  <1>2. bytes \in Seq(Byte) /\ Len(bytes) = n /\ n \in Nat
    BY <1>1, DrainSplits, LenProperties
  <1>3. /\ echoed' = echoed \o bytes /\ snd_nxt' = Add(snd_nxt, n)
        /\ pending' \subseteq push(queue, info)
    BY Zenon DEF SendData, Drain, push
  <1>4. info.seq_num = snd_nxt /\ info.payload = bytes
    OBVIOUS
  <1> HIDE DEF n, bytes, info
  <1>5. snd_nxt \in SeqPoint /\ echoed \in Seq(Byte)
    BY DEF TypeOK
  <1>6. Sub(snd_nxt, una) + Len(bytes) + 0 <= WndMax + 1 /\ Len(bytes) + 0 = n
    <2>1. Sub(snd_nxt, una) \in 0 .. (Modulus - 1)
      BY <1>5, SubType
    <2>2. QED
      BY <1>1, <1>2, <2>1, WndAssumption, HalfAssumption DEF Modulus
  <1>7. QueueMatches(pending', echoed \o bytes, Add(snd_nxt, Len(bytes) + 0), 0)
    BY <1>2, <1>3, <1>4, <1>5, <1>6, SendKeepsMatch
  <1>8. FinOffset' = 0
    BY DEF FinOffset, FinSentStates
  <1>9. QueueMatches(pending, echoed, snd_nxt, FinOffset)'
    BY <1>3, <1>6, <1>7, <1>8
  <1>10. QED
    BY <1>9, MatchesStream, PTL

\* Steps that send the FIN of a passive close.
LEMMA SendFinMatches ==
    ASSUME TypeOK, NEW una \in SeqPoint, NEW wnd \in 0 .. WndMax, NEW buffer \in Seq(Byte),
           NEW queue \in SUBSET PendingSegment,
           Sub(snd_nxt, una) <= WndMax, QueueOK(queue, una, snd_nxt),
           QueueMatches(queue, echoed, snd_nxt, 0),
           SendFin(una, wnd, buffer, queue), tcp_state' = "LastAck"
    PROVE  PendingMatchesStream'
  <1> DEFINE n == Transmittable(una, wnd, buffer)
             bytes == SubSeq(buffer, 1, n)
             info == [seq_num |-> snd_nxt, ack_num |-> rcv_nxt', flags |-> "FinAck", payload |-> bytes]
  <1>1. n \in 0 .. Len(buffer) /\ (n = 0 \/ Sub(snd_nxt, una) + n <= wnd)
    BY TransmittableBound
  <1>2. bytes \in Seq(Byte) /\ Len(bytes) = n /\ n \in Nat
    BY <1>1, DrainSplits, LenProperties
  <1>3. /\ echoed' = echoed \o bytes /\ snd_nxt' = Add(Add(snd_nxt, n), 1)
        /\ pending' \subseteq push(queue, info)
    BY Zenon DEF SendFin, Drain
  <1>4. info.seq_num = snd_nxt /\ info.payload = bytes
    OBVIOUS
  <1> HIDE DEF n, bytes, info
  <1>5. snd_nxt \in SeqPoint /\ echoed \in Seq(Byte)
    BY DEF TypeOK
  <1>6. Sub(snd_nxt, una) + Len(bytes) + 1 <= WndMax + 1 /\ Len(bytes) + 1 = n + 1 /\ n + 1 < Modulus
    <2>1. Sub(snd_nxt, una) \in 0 .. (Modulus - 1)
      BY <1>5, SubType
    <2>2. QED
      BY <1>1, <1>2, <2>1, WndAssumption, HalfAssumption DEF Modulus
  <1>7. snd_nxt' = Add(snd_nxt, n + 1)
    BY <1>2, <1>3, <1>5, <1>6, AddAdd
  <1>8. QueueMatches(pending', echoed \o bytes, Add(snd_nxt, Len(bytes) + 1), 1)
    BY <1>2, <1>3, <1>4, <1>5, <1>6, SendKeepsMatch
  <1>9. FinOffset' = 1
    BY DEF FinOffset, FinSentStates
  <1>10. QueueMatches(pending, echoed, snd_nxt, FinOffset)'
    BY <1>3, <1>6, <1>7, <1>8, <1>9
  <1>11. QED
    BY <1>10, MatchesStream, PTL

\* Steps that send nothing new: the queue keeps its segments, drops some, or
\* gains one without bytes.
LEMMA NothingNewMatches ==
    ASSUME PendingMatchesStream, UNCHANGED <<snd_nxt, echoed, FinOffset>>,
           \A q \in pending' : q.send_info.payload = <<>> \/ \E p \in pending : q.send_info = p.send_info
    PROVE  PendingMatchesStream'
  <1>1. QueueMatches(pending, echoed, snd_nxt, FinOffset)
    BY MatchesStream
  <1>2. QueueMatches(pending, echoed, snd_nxt, FinOffset)'
    BY <1>1 DEF QueueMatches
  <1>3. QED
    BY <1>2, MatchesStream, PTL

\* A queue without bytes matches any stream.
LEMMA NoBytesMatch ==
    ASSUME \A q \in pending' : q.send_info.payload = <<>>
    PROVE  PendingMatchesStream'
  BY DEF PendingMatchesStream

\* The handlers that answer, drop the connection or open one.
LEMMA OpenMatches ==
    ASSUME PendingMatchesStream, NEW seg \in TcpSegment,
           handle_unknown_conn(seg) \/ handle_rst(seg) \/ handle_stray_syn(seg)
    PROVE  PendingMatchesStream'
  <1>1. CASE UNCHANGED <<connVars, history>>
    BY <1>1, NothingNewMatches DEF connVars, history, FinOffset
  <1>2. CASE ResetConn
    BY <1>2, NoBytesMatch DEF ResetConn
  <1>3. CASE \E isn \in InitialSeq : pending' = push({}, SynAck(isn, seg))
    BY <1>3, PushedOnly, NoBytesMatch DEF SynAck
  <1>4. QED
    BY <1>1, <1>2, <1>3, Zenon DEF handle_unknown_conn, handle_rst, handle_stray_syn, Reply, remove

\* handle_syn_rcv: the handshake may complete with data, or with data and a FIN.
LEMMA SynRcvMatches ==
    ASSUME IndInv, PendingMatchesStream, NEW seg \in TcpSegment, handle_syn_rcv(seg)
    PROVE  PendingMatchesStream'
  <1>1. tcp_state = "SynReceived"
    BY Zenon DEF handle_syn_rcv
  <1>2. CASE UNCHANGED <<connVars, history>>
    BY <1>2, NothingNewMatches DEF connVars, history, FinOffset
  <1>3. CASE pending' = push(pending, SynAck(snd_una, seg)) /\ UNCHANGED <<tcp_state, snd_nxt, history>>
    <2>1. \A q \in pending' : q.send_info.payload = <<>> \/ \E p \in pending : q.send_info = p.send_info
      BY <1>3, PushedOnly DEF SynAck
    <2>2. QED
      BY <1>3, <2>1, NothingNewMatches DEF history, FinOffset
  <1>4. ASSUME CompletesHandshake(seg)
        PROVE  /\ TypeOK /\ seg.ack_num \in SeqPoint /\ seg.window \in 0 .. WndMax
               /\ send_buffer \o seg.payload \in Seq(Byte)
               /\ {} \in SUBSET PendingSegment
               /\ Sub(snd_nxt, seg.ack_num) <= WndMax
               /\ QueueOK({}, seg.ack_num, snd_nxt)
               /\ QueueMatches({}, echoed, snd_nxt, 0)
    <2>1. seg.ack_num = snd_nxt /\ snd_nxt \in SeqPoint
      BY <1>1, <1>4, HandshakeAck DEF IndInv, TypeOK
    <2>2. Sub(snd_nxt, seg.ack_num) <= WndMax /\ QueueOK({}, seg.ack_num, snd_nxt)
      BY <2>1, SubSelf, EmptyQueueOK, WndAssumption
    <2>3. send_buffer \o seg.payload \in Seq(Byte)
      BY SegmentTypes, AcceptKeepsEcho, Zenon DEF IndInv
    <2>4. QueueMatches({}, echoed, snd_nxt, 0)
      BY DEF QueueMatches
    <2>5. QED
      BY <2>1, <2>2, <2>3, <2>4, SegmentTypes DEF IndInv
  <1>5. ASSUME NEW otherwise, CompletesHandshake(seg), tcp_state' = "Established",
               SendData(seg.ack_num, seg.window, send_buffer \o seg.payload, clear(pending), otherwise)
        PROVE  PendingMatchesStream'
    BY <1>4, <1>5, SendDataMatches, Zenon DEF clear
  <1>6. CASE /\ CompletesHandshake(seg) /\ tcp_state' = "LastAck"
             /\ SendFin(seg.ack_num, seg.window, send_buffer \o seg.payload, clear(pending))
    BY <1>4, <1>6, SendFinMatches, Zenon DEF clear
  <1>7. QED
    BY <1>2, <1>3, <1>5, <1>6, Zenon DEF handle_syn_rcv, Reply

\* handle_established: the ACK drops segments before new ones are sent.
LEMMA EstablishedMatches ==
    ASSUME IndInv, PendingMatchesStream, NEW seg \in TcpSegment, Comparable(seg),
           handle_established(seg)
    PROVE  PendingMatchesStream'
  <1> DEFINE una == UnaAfter(seg)
             wnd == WindowAfter(seg).snd_wnd
             queue == PendingAfter(seg)
  <1>1. tcp_state = "Established"
    BY Zenon DEF handle_established
  <1>2. /\ una \in SeqPoint /\ wnd \in 0 .. WndMax /\ queue \in SUBSET PendingSegment
        /\ Sub(snd_nxt, una) <= WndMax /\ QueueOK(queue, una, snd_nxt)
    <2>1. /\ una \in SeqPoint /\ WindowAfter(seg) \in WindowState
          /\ queue \in SUBSET PendingSegment
          /\ Sub(snd_nxt, una) <= Flight /\ QueueOK(queue, una, snd_nxt)
      BY <1>1, AckStep
    <2>2. Flight <= WndMax
      BY <1>1 DEF IndInv, FlightBounded
    <2>3. Flight \in 0 .. (Modulus - 1) /\ Sub(snd_nxt, una) \in 0 .. (Modulus - 1)
      BY <2>1, SubType DEF IndInv, TypeOK, Flight
    <2>4. Sub(snd_nxt, una) <= WndMax
      BY <2>1, <2>2, <2>3, WndAssumption, HalfAssumption DEF Modulus
    <2>5. QED
      BY <2>1, <2>4 DEF WindowState
  <1>3. queue \subseteq pending
    BY AckShrinksQueue
  <1>4. QueueMatches(queue, echoed, snd_nxt, 0)
    <2>1. QueueMatches(pending, echoed, snd_nxt, FinOffset) /\ FinOffset = 0
      BY <1>1, MatchesStream DEF FinOffset, FinSentStates
    <2>2. QED
      BY <1>3, <2>1 DEF QueueMatches
  <1>5. TypeOK /\ send_buffer \in Seq(Byte) /\ send_buffer \o seg.payload \in Seq(Byte)
    BY SegmentTypes, AcceptKeepsEcho, Zenon DEF IndInv, TypeOK
  <1> HIDE DEF una, wnd, queue
  <1>6. CASE UNCHANGED <<connVars, history>>
    BY <1>6, NothingNewMatches DEF connVars, history, FinOffset
  <1>7. ASSUME NEW buffer \in Seq(Byte), NEW otherwise, tcp_state' = "Established",
               SendData(una, wnd, buffer, queue, otherwise)
        PROVE  PendingMatchesStream'
    BY <1>2, <1>4, <1>5, <1>7, SendDataMatches, Zenon
  <1>8. CASE tcp_state' = "LastAck" /\ SendFin(una, wnd, send_buffer \o seg.payload, queue)
    BY <1>2, <1>4, <1>5, <1>8, SendFinMatches, Zenon
  <1>9. CASE pending' = queue /\ UNCHANGED <<tcp_state, snd_nxt, history>>
    <2>1. \A q \in pending' : \E p \in pending : q.send_info = p.send_info
      BY <1>3, <1>9
    <2>2. QED
      BY <1>9, <2>1, NothingNewMatches DEF history, FinOffset
  <1>10. QED
    BY <1>1, <1>5, <1>6, <1>7, <1>8, <1>9, Zenon DEF handle_established, Reply, una, wnd, queue

\* The closing states send no byte for the first time.
LEMMA ClosingMatches ==
    ASSUME PendingMatchesStream, NEW seg \in TcpSegment,
           handle_fin_wait_1(seg) \/ handle_fin_wait_2(seg) \/ handle_closing(seg) \/ handle_last_ack(seg)
    PROVE  PendingMatchesStream'
  <1>1. tcp_state \in FinSentStates
    BY Zenon DEF handle_fin_wait_1, handle_fin_wait_2, handle_closing, handle_last_ack, FinSentStates
  <1>2. CASE ResetConn
    BY <1>2, NoBytesMatch DEF ResetConn
  <1>3. CASE tcp_state' \in FinSentStates /\ UNCHANGED <<snd_nxt, echoed>> /\ pending' \subseteq pending
    <2>1. FinOffset' = FinOffset
      BY <1>1, <1>3 DEF FinOffset
    <2>2. \A q \in pending' : \E p \in pending : q.send_info = p.send_info
      BY <1>3
    <2>3. QED
      BY <1>3, <2>1, <2>2, NothingNewMatches
  <1>4. ResetConn \/ UNCHANGED pending \/ pending' = PendingAfter(seg)
    BY Zenon DEF handle_fin_wait_1, handle_fin_wait_2, handle_closing, handle_last_ack, DiscardData,
                 Reply, remove, connVars
  <1>5. ResetConn \/ pending' \subseteq pending
    BY <1>4, AckShrinksQueue
  <1>6. decide_reply(seg)
    BY DEF decide_reply
  <1>7. QED
    BY <1>1, <1>2, <1>3, <1>5, <1>6, FinSentReceive

\* make_retransmissions changes no bytes of a segment.
LEMMA RetransmitMatches ==
    ASSUME IndInv, PendingMatchesStream, make_retransmissions
    PROVE  PendingMatchesStream'
  <1> PICK due \in SUBSET pending : Retransmit(due) \/ GiveUp(due)
    BY DEF make_retransmissions
  <1>1. CASE Retransmit(due)
    <2>1. \A p \in due : Retransmitted(p).send_info = p.send_info
      BY <1>1, RetransmittedType DEF Retransmit, IndInv, TypeOK
    <2>2. \A q \in pending' : \E p \in pending : q.send_info = p.send_info
      BY <1>1, <2>1 DEF Retransmit
    <2>3. UNCHANGED <<snd_nxt, echoed, FinOffset>>
      BY <1>1 DEF Retransmit, history, FinOffset
    <2>4. QED
      BY <2>2, <2>3, NothingNewMatches
  <1>2. CASE GiveUp(due)
    BY <1>2, NoBytesMatch DEF GiveUp, remove, ResetConn
  <1>3. QED
    BY <1>1, <1>2

\* An active close sends a FIN behind what is in flight.
LEMMA CloseMatches ==
    ASSUME IndInv, PendingMatchesStream, close_established
    PROVE  PendingMatchesStream'
  <1> DEFINE fin == [seq_num |-> snd_nxt, ack_num |-> rcv_nxt, flags |-> "FinAck", payload |-> <<>>]
  <1>1. /\ tcp_state = "Established" /\ tcp_state' = "FinWait1" /\ pending' = push(pending, fin)
        /\ snd_nxt' = Add(snd_nxt, 1) /\ echoed' = echoed
    BY DEF close_established, history
  <1>2. fin.seq_num = snd_nxt /\ fin.payload = <<>>
    OBVIOUS
  <1> HIDE DEF fin
  <1>3. /\ snd_una \in SeqPoint /\ snd_nxt \in SeqPoint /\ echoed \in Seq(Byte)
        /\ pending \in SUBSET PendingSegment
    BY DEF IndInv, TypeOK
  <1>4. QueueOK(pending, snd_una, snd_nxt)
    BY DEF IndInv, QueueOK, NothingUnackedForgotten, OnlyUnackedPending
  <1>5. QueueMatches(pending, echoed, snd_nxt, 0)
    BY <1>1, MatchesStream DEF FinOffset, FinSentStates
  <1>6. Len(<<>>) = 0 /\ <<>> \in Seq(Byte) /\ echoed \o <<>> = echoed
    BY <1>3, EmptySeq, ConcatEmptySeq
  <1>7. Sub(snd_nxt, snd_una) + 0 + 1 <= WndMax + 1
    <2>1. Sub(snd_nxt, snd_una) \in 0 .. (Modulus - 1) /\ Sub(snd_nxt, snd_una) <= WndMax
      BY <1>1, <1>3, SubType DEF IndInv, FlightBounded, Flight
    <2>2. QED
      BY <2>1, WndAssumption, HalfAssumption DEF Modulus
  <1>8. Sub(snd_nxt, snd_una) + Len(<<>>) + 1 <= WndMax + 1
    BY <1>6, <1>7
  <1>9. pending' \subseteq push(pending, fin)
    BY <1>1
  <1>10. QueueMatches(pending', echoed \o <<>>, Add(snd_nxt, Len(<<>>) + 1), 1)
    BY <1>2, <1>3, <1>4, <1>5, <1>6, <1>8, <1>9, SendKeepsMatch
  <1>11. FinOffset' = 1 /\ Len(<<>>) + 1 = 1
    BY <1>1, <1>6 DEF FinOffset, FinSentStates
  <1>12. QueueMatches(pending, echoed, snd_nxt, FinOffset)'
    BY <1>1, <1>6, <1>10, <1>11
  <1>13. QED
    BY <1>12, MatchesStream, PTL

\* Whatever is retransmitted, after any mixture of partial (comparable) ACKs, window
\* changes and closes, repeats the bytes first sent at those sequence numbers.
THEOREM RetransmitsSameBytes == ComparableSpec => []PendingMatchesStream
  <1>1. Init => PendingMatchesStream
    BY DEF Init, PendingMatchesStream
  <1>2. IndInv /\ PendingMatchesStream /\ [ComparableNext]_vars => PendingMatchesStream'
    <2> SUFFICES ASSUME IndInv, PendingMatchesStream, [ComparableNext]_vars PROVE PendingMatchesStream'
      OBVIOUS
    <2>1. ASSUME NEW seg \in TcpSegment, Comparable(seg), decide_reply(seg)
          PROVE  PendingMatchesStream'
      BY <2>1, OpenMatches, SynRcvMatches, EstablishedMatches, ClosingMatches DEF decide_reply
    <2>2. CASE make_retransmissions
      BY <2>2, RetransmitMatches
    <2>3. CASE close_established
      BY <2>3, CloseMatches
    <2>4. CASE UNCHANGED vars
      BY <2>4, NothingNewMatches DEF vars, connVars, history, FinOffset
    <2>5. QED
      BY <2>1, <2>2, <2>3, <2>4 DEF ComparableNext
  <1>3. QED
    BY <1>1, <1>2, Invariance, PTL DEF ComparableSpec

=============================================================================
