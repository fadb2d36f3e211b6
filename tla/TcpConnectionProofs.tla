------------------------- MODULE TcpConnectionProofs -------------------------
(***************************************************************************)
(* Proofs about TcpConnection, for every sequence space, window, payload   *)
(* set and number of retries: the retransmission queue and SND.UNA stay    *)
(* exact as long as the peer's ACK numbers are comparable.                 *)
(***************************************************************************)
EXTENDS TcpConnection, SeqSpaceProofs, SequenceTheorems, FiniteSetTheorems

\* The queue predicates, for any queue and any pair SND.UNA, SND.NXT.
QueueOK(queue, una, nxt) ==
    /\ CoversFlight(queue, una, nxt)
    /\ EndsInFlight(queue, una, nxt)
    /\ FitsWindow(queue)

\* A field-by-field reading of the types of queue entries.
LEMMA PendingTypes ==
    ASSUME NEW p \in PendingSegment
    PROVE  p.end_seq \in SeqPoint /\ p.send_info \in SendInfo /\ p.send_info.seq_num \in SeqPoint
  BY DEF PendingSegment, SendInfo

\* A pending segment that covers a point lies wholly before no point past it:
\* seen from SND.UNA, the segment ends after every point it covers.
LEMMA CoveredBeforeEnd ==
    ASSUME NEW p \in PendingSegment, NEW una \in SeqPoint, NEW k \in 0 .. WndMax,
           Sub(p.end_seq, p.send_info.seq_num) \in 1 .. (WndMax + 1),
           Sub(p.end_seq, una) \in 1 .. (WndMax + 1),
           Covers(p, Add(una, k))
    PROVE  k < Sub(p.end_seq, una)
  <1> DEFINE s == Add(una, k)
             a == p.send_info.seq_num
             e == p.end_seq
  <1>1. s \in SeqPoint /\ a \in SeqPoint /\ e \in SeqPoint /\ k \in 0 .. (Modulus - 1)
    BY AddType, PendingTypes, WndAssumption, HalfAssumption DEF Modulus
  <1>2. Sub(s, una) = k
    BY <1>1, SubAdd
  <1>3. Sub(s, a) < Sub(e, a)
    BY DEF Covers
  <1> HIDE DEF s, a, e
  <1>4. Sub(e, a) \in 1 .. (WndMax + 1) /\ Sub(e, una) \in 1 .. (WndMax + 1)
    BY DEF a, e
  <1>5. k < Sub(e, una)
    <2>1. /\ Sub(s, una) = IF s >= una THEN s - una ELSE s - una + Modulus
          /\ Sub(s, a) = IF s >= a THEN s - a ELSE s - a + Modulus
          /\ Sub(e, una) = IF e >= una THEN e - una ELSE e - una + Modulus
          /\ Sub(e, a) = IF e >= a THEN e - a ELSE e - a + Modulus
      BY <1>1, SubValue
    <2>2. QED
      BY <1>1, <1>2, <1>3, <1>4, <2>1, WndAssumption, HalfAssumption DEF Modulus, SeqPoint
  <1>6. QED
    BY <1>5 DEF e

\* Dropping the segments an ACK in flight covers keeps the queue exact.
LEMMA AckKeepsQueue ==
    ASSUME NEW una \in SeqPoint, NEW nxt \in SeqPoint, NEW ack \in SeqPoint,
           NEW queue \in SUBSET PendingSegment,
           Sub(nxt, una) <= WndMax + 1,
           Sub(ack, una) <= Sub(nxt, una),
           QueueOK(queue, una, nxt)
    PROVE  /\ Sub(nxt, ack) = Sub(nxt, una) - Sub(ack, una)
           /\ QueueOK({p \in queue : ~is_covered_by(p, ack)}, ack, nxt)
  <1> DEFINE kept == {p \in queue : ~is_covered_by(p, ack)}
             x == Sub(ack, una)
             flight == Sub(nxt, una)
  <1>1. flight \in 0 .. (WndMax + 1) /\ x \in 0 .. flight
    BY SubType, WndAssumption, HalfAssumption DEF Modulus
  <1>2. Sub(nxt, ack) = flight - x
    BY SubSplit
  <1>3. \A p \in queue : is_covered_by(p, ack) <=> Sub(p.end_seq, una) <= x
    <2> TAKE p \in queue
    <2>1. Sub(p.end_seq, una) \in 1 .. flight /\ p.end_seq \in SeqPoint
      BY PendingTypes DEF QueueOK, EndsInFlight
    <2>2. Sub(p.end_seq, una) - x < Half /\ x - Sub(p.end_seq, una) < Half
      BY <1>1, <2>1, WndAssumption, HalfAssumption
    <2>3. QED
      BY <2>1, <2>2, PrecedesIsOrder DEF is_covered_by
  <1>4. \A p \in kept : Sub(p.end_seq, ack) = Sub(p.end_seq, una) - x
    <2> TAKE p \in kept
    <2>1. Sub(p.end_seq, una) \in 1 .. flight /\ p.end_seq \in SeqPoint
      BY PendingTypes DEF QueueOK, EndsInFlight
    <2>2. x <= Sub(p.end_seq, una)
      BY <1>1, <1>3, <2>1
    <2>3. QED
      BY <2>1, <2>2, SubSplit
  <1>5. EndsInFlight(kept, ack, nxt)
    <2> SUFFICES ASSUME NEW p \in kept
                 PROVE  Sub(p.end_seq, ack) \in 1 .. Sub(nxt, ack)
      BY DEF EndsInFlight
    <2>1. Sub(p.end_seq, una) \in 1 .. flight
      BY DEF QueueOK, EndsInFlight
    <2>2. QED
      BY <1>1, <1>2, <1>3, <1>4, <2>1, WndAssumption
  <1>6. CoversFlight(kept, ack, nxt)
    <2> SUFFICES ASSUME NEW k \in 0 .. WndMax, k < flight - x
                 PROVE  \E p \in kept : Covers(p, Add(ack, k))
      BY <1>2 DEF CoversFlight
    <2>1. x + k \in 0 .. WndMax /\ x + k < flight
      BY <1>1, WndAssumption
    <2>2. Add(ack, k) = Add(una, x + k)
      <3>1. ack = Add(una, x)
        BY AddSub
      <3>2. x \in Nat /\ k \in Nat /\ x + k < Modulus
        BY <1>1, <2>1, WndAssumption, HalfAssumption DEF Modulus
      <3>3. QED
        BY <3>1, <3>2, AddAdd
    <2>3. PICK p \in queue : Covers(p, Add(una, x + k))
      BY <2>1 DEF QueueOK, CoversFlight
    <2>4. x + k < Sub(p.end_seq, una)
      <3>1. Sub(p.end_seq, una) \in 1 .. (WndMax + 1)
        BY <1>1, WndAssumption DEF QueueOK, EndsInFlight
      <3>2. Sub(p.end_seq, p.send_info.seq_num) \in 1 .. (WndMax + 1)
        BY DEF QueueOK, FitsWindow
      <3>3. QED
        BY <2>1, <2>3, <3>1, <3>2, CoveredBeforeEnd
    <2>5. p \in kept
      <3>1. Sub(p.end_seq, una) \in Int
        BY PendingTypes, SubType, HalfAssumption DEF Modulus
      <3>2. QED
        BY <1>1, <1>3, <2>4, <3>1
    <2>6. QED
      BY <2>2, <2>3, <2>5
  <1>7. FitsWindow(kept)
    BY DEF QueueOK, FitsWindow
  <1>8. QED
    BY <1>2, <1>5, <1>6, <1>7 DEF QueueOK

\* Pushing a segment keeps the queue a finite set of entries.
LEMMA PushType ==
    ASSUME NEW queue \in SUBSET PendingSegment, IsFiniteSet(queue), NEW info \in SendInfo
    PROVE  /\ SegLen(info) \in Nat
           /\ NewPending(queue, info).end_seq = Add(info.seq_num, SegLen(info))
           /\ NewPending(queue, info).send_info = info
           /\ push(queue, info) \subseteq PendingSegment
           /\ IsFiniteSet(push(queue, info))
  <1>1. SegLen(info) \in Nat
    <2>1. info.payload \in Seq(Byte)
      BY DEF SendInfo
    <2>2. Len(info.payload) \in Nat
      BY <2>1, LenProperties
    <2>3. CASE info.flags \in {"Syn", "SynAck", "FinAck"}
      <3>1. SegLen(info) = Len(info.payload) + 1
        BY <2>3 DEF SegLen
      <3>2. QED
        BY <2>2, <3>1
    <2>4. CASE info.flags \notin {"Syn", "SynAck", "FinAck"}
      <3>1. SegLen(info) = Len(info.payload) + 0
        BY <2>4 DEF SegLen
      <3>2. QED
        BY <2>2, <3>1
    <2>5. QED
      BY <2>3, <2>4
  <1>2. Add(info.seq_num, SegLen(info)) \in SeqPoint
    BY <1>1, AddType DEF SendInfo
  <1>3. Cardinality({p \in queue : p.send_info.seq_num = info.seq_num}) \in Nat
    BY FS_Subset, FS_CardinalityType
  <1>4. NewPending(queue, info) \in PendingSegment
    BY <1>2, <1>3, RetriesAssumption DEF NewPending, PendingSegment
  <1>5. IsFiniteSet(push(queue, info))
    BY FS_AddElement DEF push
  <1>6. QED
    BY <1>1, <1>4, <1>5 DEF push, NewPending

\* Pushing the segment just sent at SND.NXT keeps the queue exact.
LEMMA PushKeepsQueue ==
    ASSUME NEW una \in SeqPoint, NEW nxt \in SeqPoint,
           NEW queue \in SUBSET PendingSegment, IsFiniteSet(queue),
           NEW info \in SendInfo, info.seq_num = nxt, SegLen(info) >= 1,
           Sub(nxt, una) + SegLen(info) <= WndMax + 1,
           QueueOK(queue, una, nxt)
    PROVE  /\ Sub(Add(nxt, SegLen(info)), una) = Sub(nxt, una) + SegLen(info)
           /\ QueueOK(push(queue, info), una, Add(nxt, SegLen(info)))
  <1> DEFINE n == SegLen(info)
             flight == Sub(nxt, una)
             end == Add(nxt, n)
             new == NewPending(queue, info)
  <1>1. /\ n \in 1 .. (WndMax + 1) /\ flight \in 0 .. WndMax
        /\ flight + n \in 0 .. (Modulus - 1) /\ n \in 0 .. (Modulus - 1)
    BY PushType, SubType, WndAssumption, HalfAssumption DEF Modulus
  <1>2. end \in SeqPoint /\ Sub(end, nxt) = n
    BY <1>1, AddType, SubAdd
  <1>3. Sub(end, una) = flight + n
    <2>1. nxt = Add(una, flight)
      BY AddSub
    <2>2. end = Add(una, flight + n)
      <3>1. flight \in Nat /\ n \in Nat /\ flight + n < Modulus
        BY <1>1, HalfAssumption DEF Modulus
      <3>2. QED
        BY <2>1, <3>1, AddAdd
    <2>3. QED
      BY <1>1, <2>2, SubAdd
  <1>4. new.end_seq = end /\ new.send_info.seq_num = nxt
    BY PushType
  <1>5. push(queue, info) = queue \cup {new}
    BY DEF push
  <1> HIDE DEF n, flight, end, new
  <1>6. EndsInFlight(queue \cup {new}, una, end)
    BY <1>1, <1>3, <1>4 DEF QueueOK, EndsInFlight, flight
  <1>7. FitsWindow(queue \cup {new})
    BY <1>1, <1>2, <1>4 DEF QueueOK, FitsWindow
  <1>8. CoversFlight(queue \cup {new}, una, end)
    <2> SUFFICES ASSUME NEW k \in 0 .. WndMax, k < flight + n
                 PROVE  \E p \in queue \cup {new} : Covers(p, Add(una, k))
      BY <1>3 DEF CoversFlight
    <2>1. CASE k < flight
      BY <2>1 DEF QueueOK, CoversFlight, flight
    <2>2. CASE k >= flight
      <3>1. k \in 0 .. (Modulus - 1)
        BY WndAssumption, HalfAssumption DEF Modulus
      <3>2. Add(una, k) \in SeqPoint /\ Sub(Add(una, k), una) = k
        BY <3>1, AddType, SubAdd
      <3>3. Sub(Add(una, k), nxt) = k - flight
        BY <2>2, <3>2, SubSplit DEF flight
      <3>4. Covers(new, Add(una, k))
        BY <1>1, <1>2, <1>4, <3>3 DEF Covers
      <3>5. QED
        BY <3>4
    <2>3. QED
      BY <1>1, <2>1, <2>2
  <1>9. QED
    BY <1>3, <1>5, <1>6, <1>7, <1>8 DEF QueueOK, n, end, flight

\* A comparable ACK leaves the send side exact: what incoming_ack_update makes of SND.UNA, the queue and the window.
LEMMA AckStep ==
    ASSUME IndInv, NEW seg \in TcpSegment, tcp_state # "None", Comparable(seg)
    PROVE  /\ UnaAfter(seg) \in SeqPoint
           /\ WindowAfter(seg) \in WindowState
           /\ PendingAfter(seg) \subseteq PendingSegment /\ IsFiniteSet(PendingAfter(seg))
           /\ Sub(UnaAfter(seg), snd_una) <= Flight
           /\ Sub(snd_nxt, UnaAfter(seg)) <= Flight
           /\ QueueOK(PendingAfter(seg), UnaAfter(seg), snd_nxt)
  <1> DEFINE ack == seg.ack_num
  <1>1. ack \in SeqPoint /\ WindowFrom(seg) \in WindowState
    BY DEF TcpSegment, WindowFrom, WindowState
  <1>2. Flight \in 0 .. (WndMax + 1) /\ Flight < Half
    <2>1. Flight \in 0 .. (Modulus - 1)
      BY SubType DEF IndInv, TypeOK, Flight
    <2>2. Flight <= WndMax \/ Flight = 1 \/ Flight <= WndMax + 1
      BY DEF IndInv, TypeOK, FlightBounded, TcpState, FinSentStates
    <2>3. QED
      BY <2>1, <2>2, WndAssumption, HalfAssumption DEF Modulus
  <1>3. WindowAfter(seg) \in WindowState
    BY <1>1 DEF IndInv, TypeOK, WindowAfter
  <1>4. QueueOK(pending, snd_una, snd_nxt)
    BY DEF IndInv, NothingUnackedForgotten, OnlyUnackedPending, QueueOK
  <1>5. PendingAfter(seg) \subseteq pending
    BY DEF PendingAfter
  <1>6. PendingAfter(seg) \subseteq PendingSegment /\ IsFiniteSet(PendingAfter(seg))
    BY <1>5, FS_Subset DEF IndInv, TypeOK
  <1>7. CASE AckAdvances(seg)
    <2>1. Sub(ack, snd_una) <= Flight
      BY <1>1, <1>2, <1>7, AckWindowIsExact
      DEF IndInv, TypeOK, AckAdvances, AckAcceptable, Comparable, Flight
    <2>2. /\ Sub(snd_nxt, ack) = Flight - Sub(ack, snd_una)
          /\ QueueOK(PendingAfter(seg), ack, snd_nxt)
      BY <1>1, <1>2, <1>4, <1>7, <2>1, AckKeepsQueue DEF IndInv, TypeOK, Flight, PendingAfter
    <2>3. Sub(ack, snd_una) \in Nat
      <3>1. Sub(ack, snd_una) \in 0 .. (Modulus - 1)
        BY <1>1, SubType, Zenon DEF IndInv, TypeOK
      <3>2. QED
        BY <3>1, HalfAssumption DEF Modulus
    <2>4. UnaAfter(seg) = ack
      BY <1>7 DEF UnaAfter
    <2>5. QED
      BY <1>1, <1>2, <1>3, <1>6, <2>1, <2>2, <2>3, <2>4
  <1>8. CASE ~AckAdvances(seg)
    <2>1. UnaAfter(seg) = snd_una /\ PendingAfter(seg) = pending
      BY <1>8 DEF UnaAfter, PendingAfter
    <2>2. Sub(snd_una, snd_una) = 0
      BY SubValue, HalfAssumption DEF IndInv, TypeOK, SeqPoint, Modulus
    <2>3. QED
      BY <1>2, <1>3, <1>4, <1>6, <2>1, <2>2 DEF IndInv, TypeOK, Flight
  <1>9. QED
    BY <1>7, <1>8

\* drain_transmittable sends nothing, or no more than fits the window next to
\* what is in flight.
LEMMA TransmittableBound ==
    ASSUME TypeOK, NEW una \in SeqPoint, NEW wnd \in 0 .. WndMax, NEW buffer \in Seq(Byte)
    PROVE  /\ Transmittable(una, wnd, buffer) \in 0 .. Len(buffer)
           /\ \/ Transmittable(una, wnd, buffer) = 0
              \/ Sub(snd_nxt, una) + Transmittable(una, wnd, buffer) <= wnd
  <1>1. Sub(snd_nxt, una) \in 0 .. (Modulus - 1)
    BY SubType DEF TypeOK
  <1>2. Len(buffer) \in Nat
    BY LenProperties
  <1>3. QED
    BY <1>1, <1>2, WndAssumption, HalfAssumption DEF Transmittable, saturating_sub, Modulus

\* Draining n bytes splits the buffer in two.
LEMMA DrainSplits ==
    ASSUME NEW buffer \in Seq(Byte), NEW n \in 0 .. Len(buffer)
    PROVE  /\ SubSeq(buffer, 1, n) \in Seq(Byte) /\ Len(SubSeq(buffer, 1, n)) = n
           /\ SubSeq(buffer, n + 1, Len(buffer)) \in Seq(Byte)
           /\ SubSeq(buffer, 1, n) \o SubSeq(buffer, n + 1, Len(buffer)) = buffer
  <1>1. Len(buffer) \in Nat /\ n \in Int /\ n + 1 \in Int
    BY LenProperties
  <1>2. \A i \in 1 .. Len(buffer) : buffer[i] \in Byte
    BY ElementOfSeq
  <1>3. SubSeq(buffer, 1, n) \in Seq(Byte) /\ Len(SubSeq(buffer, 1, n)) = n
    <2>1. \A i \in 1 .. n : buffer[i] \in Byte
      BY <1>1, <1>2
    <2>2. QED
      BY <1>1, <2>1, SubSeqProperties
  <1>4. SubSeq(buffer, n + 1, Len(buffer)) \in Seq(Byte)
    <2>1. \A i \in (n + 1) .. Len(buffer) : buffer[i] \in Byte
      BY <1>1, <1>2
    <2>2. QED
      BY <1>1, <2>1, SubSeqProperties
  <1>5. SubSeq(buffer, 1, n) \o SubSeq(buffer, n + 1, Len(buffer)) = SubSeq(buffer, 1, Len(buffer))
    <2>1. /\ 1 \in 1 .. (Len(buffer) + 1) /\ n \in (1 - 1) .. Len(buffer)
          /\ Len(buffer) \in n .. Len(buffer)
      BY <1>1
    <2>2. QED
      BY <2>1, ConcatAdjacentSubSeq, Zenon
  <1>6. QED
    BY <1>3, <1>4, <1>5, SubSeqFull, Zenon

\* Appending bytes is associative.
LEMMA AppendedInAnyOrder ==
    ASSUME NEW s \in Seq(Byte), NEW t \in Seq(Byte), NEW u \in Seq(Byte)
    PROVE  (s \o t) \o u = s \o (t \o u)
  BY ConcatAssociative, SMT

\* What SendData and SendFin do to the histories and the buffer.
LEMMA DrainStep ==
    ASSUME TypeOK, NEW buffer \in Seq(Byte), NEW n \in 0 .. Len(buffer), Drain(buffer, n)
    PROVE  /\ send_buffer' \in Seq(Byte) /\ echoed' \in Seq(Byte)
           /\ echoed' \o send_buffer' = echoed \o buffer
  <1> DEFINE head == SubSeq(buffer, 1, n)
             tail == SubSeq(buffer, n + 1, Len(buffer))
  <1>1. head \in Seq(Byte) /\ tail \in Seq(Byte) /\ head \o tail = buffer
    BY DrainSplits, Zenon
  <1>2. echoed \in Seq(Byte) /\ echoed' = echoed \o head /\ send_buffer' = tail
    BY DEF TypeOK, Drain
  <1> HIDE DEF head, tail
  <1>3. echoed \o head \in Seq(Byte)
    BY <1>1, <1>2, ConcatProperties
  <1>4. (echoed \o head) \o tail = echoed \o (head \o tail)
    BY <1>1, <1>2, AppendedInAnyOrder, Zenon
  <1>5. QED
    BY <1>1, <1>2, <1>3, <1>4

\* Sending data keeps the send side exact and within the window.
LEMMA SendDataStep ==
    ASSUME TypeOK, NEW una \in SeqPoint, NEW wnd \in 0 .. WndMax, NEW buffer \in Seq(Byte),
           NEW queue \in SUBSET PendingSegment, IsFiniteSet(queue),
           NEW otherwise \in SUBSET SendInfo,
           Sub(snd_nxt, una) <= WndMax, QueueOK(queue, una, snd_nxt), rcv_nxt' \in SeqPoint,
           SendData(una, wnd, buffer, queue, otherwise)
    PROVE  /\ snd_nxt' \in SeqPoint
           /\ Sub(snd_nxt', una) <= WndMax
           /\ pending' \subseteq PendingSegment /\ IsFiniteSet(pending')
           /\ QueueOK(pending', una, snd_nxt')
           /\ out' \subseteq SendInfo
           /\ send_buffer' \in Seq(Byte) /\ echoed' \in Seq(Byte)
           /\ echoed' \o send_buffer' = echoed \o buffer
  <1> DEFINE n == Transmittable(una, wnd, buffer)
             data == [seq_num |-> snd_nxt, ack_num |-> rcv_nxt', flags |-> "Ack",
                      payload |-> SubSeq(buffer, 1, n)]
  <1>1. n \in 0 .. Len(buffer) /\ (n = 0 \/ Sub(snd_nxt, una) + n <= wnd)
    BY TransmittableBound
  <1>2. n \in Nat
    BY <1>1, LenProperties
  <1>3. Drain(buffer, n) /\ snd_nxt' = Add(snd_nxt, n)
        /\ pending' = (IF n > 0 THEN push(queue, data) ELSE queue)
        /\ out' = (IF n > 0 THEN {data} ELSE otherwise)
    BY DEF SendData
  <1>4. SubSeq(buffer, 1, n) \in Seq(Byte) /\ Len(SubSeq(buffer, 1, n)) = n
    BY <1>1, DrainSplits
  <1>5. data \in SendInfo /\ SegLen(data) = n /\ data.seq_num = snd_nxt
    BY <1>2, <1>4 DEF TypeOK, SendInfo, SegLen, TcpFlags
  <1>6. send_buffer' \in Seq(Byte) /\ echoed' \in Seq(Byte)
        /\ echoed' \o send_buffer' = echoed \o buffer
    BY <1>1, <1>3, DrainStep, Zenon
  <1>7. snd_nxt \in SeqPoint /\ Add(snd_nxt, n) \in SeqPoint
    BY <1>2, AddType DEF TypeOK
  <1> HIDE DEF n, data
  <1>8. CASE n = 0
    <2>1. Add(snd_nxt, n) = snd_nxt
      BY <1>7, <1>8, AddValue, HalfAssumption DEF Modulus, SeqPoint
    <2>2. QED
      BY <1>3, <1>6, <1>7, <1>8, <2>1
  <1>9. CASE n > 0
    <2>1. Sub(snd_nxt, una) \in 0 .. (Modulus - 1)
      BY <1>7, SubType
    <2>2. /\ SegLen(data) >= 1 /\ Sub(snd_nxt, una) + SegLen(data) <= WndMax
          /\ Sub(snd_nxt, una) + SegLen(data) <= WndMax + 1
      BY <1>1, <1>2, <1>5, <1>9, <2>1, WndAssumption, HalfAssumption DEF Modulus
    <2>3. /\ Sub(snd_nxt', una) = Sub(snd_nxt, una) + n
          /\ QueueOK(push(queue, data), una, snd_nxt')
      BY <1>3, <1>5, <1>7, <2>2, PushKeepsQueue
    <2>4. push(queue, data) \subseteq PendingSegment /\ IsFiniteSet(push(queue, data))
      BY <1>5, PushType
    <2>5. QED
      BY <1>3, <1>5, <1>6, <1>7, <1>9, <2>2, <2>3, <2>4
  <1>10. QED
    BY <1>2, <1>8, <1>9

\* So does sending the FIN of a passive close, which takes one number more.
LEMMA SendFinStep ==
    ASSUME TypeOK, NEW una \in SeqPoint, NEW wnd \in 0 .. WndMax, NEW buffer \in Seq(Byte),
           NEW queue \in SUBSET PendingSegment, IsFiniteSet(queue),
           Sub(snd_nxt, una) <= WndMax, QueueOK(queue, una, snd_nxt), rcv_nxt' \in SeqPoint,
           SendFin(una, wnd, buffer, queue)
    PROVE  /\ snd_nxt' \in SeqPoint
           /\ Sub(snd_nxt', una) <= WndMax + 1
           /\ pending' \subseteq PendingSegment /\ IsFiniteSet(pending')
           /\ QueueOK(pending', una, snd_nxt')
           /\ out' \subseteq SendInfo
           /\ send_buffer' \in Seq(Byte) /\ echoed' \in Seq(Byte)
           /\ echoed' \o send_buffer' = echoed \o buffer
  <1> DEFINE n == Transmittable(una, wnd, buffer)
             fin == [seq_num |-> snd_nxt, ack_num |-> rcv_nxt', flags |-> "FinAck",
                     payload |-> SubSeq(buffer, 1, n)]
  <1>1. n \in 0 .. Len(buffer) /\ (n = 0 \/ Sub(snd_nxt, una) + n <= wnd)
    BY TransmittableBound
  <1>2. n \in Nat
    BY <1>1, LenProperties
  <1>3. Drain(buffer, n) /\ snd_nxt' = Add(Add(snd_nxt, n), 1)
        /\ pending' = push(queue, fin) /\ out' = {fin}
    BY DEF SendFin
  <1>4. SubSeq(buffer, 1, n) \in Seq(Byte) /\ Len(SubSeq(buffer, 1, n)) = n
    BY <1>1, DrainSplits
  <1>5. fin \in SendInfo /\ SegLen(fin) = n + 1 /\ fin.seq_num = snd_nxt
    BY <1>2, <1>4 DEF TypeOK, SendInfo, SegLen, TcpFlags
  <1>6. send_buffer' \in Seq(Byte) /\ echoed' \in Seq(Byte)
        /\ echoed' \o send_buffer' = echoed \o buffer
    BY <1>1, <1>3, DrainStep, Zenon
  <1> HIDE DEF n, fin
  <1>7. Sub(snd_nxt, una) \in Nat /\ Sub(snd_nxt, una) + (n + 1) <= WndMax + 1
    <2>1. Sub(snd_nxt, una) \in 0 .. (Modulus - 1)
      BY SubType DEF TypeOK
    <2>2. QED
      BY <1>1, <1>2, <2>1, WndAssumption, HalfAssumption DEF Modulus
  <1>8. snd_nxt \in SeqPoint /\ snd_nxt' = Add(snd_nxt, n + 1)
    <2>1. n + 1 < Modulus
      BY <1>2, <1>7, WndAssumption, HalfAssumption DEF Modulus
    <2>2. QED
      BY <1>2, <1>3, <2>1, AddAdd DEF TypeOK
  <1>9. Add(snd_nxt, n + 1) \in SeqPoint
    BY <1>2, <1>8, AddType
  <1>10. SegLen(fin) >= 1 /\ Sub(snd_nxt, una) + SegLen(fin) <= WndMax + 1
    BY <1>2, <1>5, <1>7
  <1>11. /\ Sub(snd_nxt', una) = Sub(snd_nxt, una) + (n + 1)
         /\ QueueOK(push(queue, fin), una, snd_nxt')
    BY <1>5, <1>8, <1>10, PushKeepsQueue
  <1>12. push(queue, fin) \subseteq PendingSegment /\ IsFiniteSet(push(queue, fin))
    BY <1>5, PushType
  <1>13. QED
    BY <1>3, <1>5, <1>6, <1>7, <1>8, <1>9, <1>11, <1>12

-----------------------------------------------------------------------------
(* The inductive step, by the kinds of steps the handlers are made of *)

\* Steps that only answer.
LEMMA ReplyStep ==
    ASSUME IndInv, UNCHANGED <<connVars, history>>, out' \subseteq SendInfo
    PROVE  IndInv'
  BY DEF IndInv, TypeOK, FlightBounded, Flight, NothingUnackedForgotten, OnlyUnackedPending,
         FitsWindow, CoversFlight, EndsInFlight, EchoIsFaithful, connVars, history

\* A point is at no distance from itself.
LEMMA SubSelf ==
    ASSUME NEW a \in SeqPoint
    PROVE  Sub(a, a) = 0
  BY SubValue, HalfAssumption DEF SeqPoint, Modulus

\* With nothing in flight, the empty queue is exact.
LEMMA EmptyQueueOK ==
    ASSUME NEW a \in SeqPoint
    PROVE  QueueOK({}, a, a)
  BY SubSelf DEF QueueOK, CoversFlight, EndsInFlight, FitsWindow

\* Steps that drop the connection.
LEMMA ResetStep ==
    ASSUME ResetConn, out' \subseteq SendInfo
    PROVE  IndInv'
  <1>1. 0 \in SeqPoint /\ NoWindow \in WindowState
    BY HalfAssumption, WndAssumption DEF SeqPoint, Modulus, NoWindow, WindowState
  <1>2. TypeOK'
    BY <1>1, FS_EmptySet, EmptySeq DEF ResetConn, TypeOK, TcpState
  <1>3. FlightBounded'
    BY <1>1, SubSelf, WndAssumption DEF ResetConn, FlightBounded, Flight, FinSentStates
  <1>4. EchoIsFaithful'
    BY ConcatEmptySeq, EmptySeq DEF ResetConn, EchoIsFaithful
  <1>5. QueueOK(pending, snd_una, snd_nxt)'
    BY <1>1, EmptyQueueOK DEF ResetConn
  <1>6. QED
    BY <1>2, <1>3, <1>4, <1>5
    DEF IndInv, QueueOK, NothingUnackedForgotten, OnlyUnackedPending

\* Steps of a synchronized connection that take in an ACK and send no data.
LEMMA AckOnlyStep ==
    ASSUME IndInv, NEW seg \in TcpSegment, Comparable(seg),
           tcp_state \in {"Established"} \cup FinSentStates,
           tcp_state' = tcp_state \/ (tcp_state \in FinSentStates /\ tcp_state' \in FinSentStates),
           incoming_ack_update(seg), pending' = PendingAfter(seg),
           rcv_nxt' \in SeqPoint, out' \subseteq SendInfo,
           UNCHANGED <<snd_nxt, send_buffer, history>>
    PROVE  IndInv'
  <1>1. tcp_state # "None"
    BY DEF FinSentStates
  <1>2. /\ UnaAfter(seg) \in SeqPoint /\ WindowAfter(seg) \in WindowState
        /\ PendingAfter(seg) \subseteq PendingSegment /\ IsFiniteSet(PendingAfter(seg))
        /\ Sub(snd_nxt, UnaAfter(seg)) <= Flight
        /\ QueueOK(PendingAfter(seg), UnaAfter(seg), snd_nxt)
    BY <1>1, AckStep
  <1>3. TypeOK'
    BY <1>2 DEF IndInv, TypeOK, incoming_ack_update, history, TcpState, FinSentStates
  <1>4. FlightBounded'
    <2>1. Flight \in Nat /\ Flight' \in Nat /\ Flight' <= Flight
      <3>1. Flight \in 0 .. (Modulus - 1) /\ Flight' \in 0 .. (Modulus - 1)
        BY <1>3, SubType DEF IndInv, TypeOK, Flight
      <3>2. QED
        BY <1>2, <3>1, HalfAssumption DEF incoming_ack_update, Flight, Modulus
    <2>2. QED
      BY <2>1, WndAssumption DEF IndInv, FlightBounded, FinSentStates
  <1>5. EchoIsFaithful'
    BY DEF IndInv, EchoIsFaithful, history
  <1>6. QueueOK(pending, snd_una, snd_nxt)'
    BY <1>2 DEF incoming_ack_update
  <1>7. QED
    BY <1>3, <1>4, <1>5, <1>6
    DEF IndInv, QueueOK, NothingUnackedForgotten, OnlyUnackedPending

\* Steps that send data from the buffer.
LEMMA SendDataKeeps ==
    ASSUME IndInv, NEW una \in SeqPoint, NEW wnd \in 0 .. WndMax, NEW buffer \in Seq(Byte),
           NEW queue \in SUBSET PendingSegment, IsFiniteSet(queue),
           NEW otherwise \in SUBSET SendInfo,
           Sub(snd_nxt, una) <= WndMax, QueueOK(queue, una, snd_nxt), rcv_nxt' \in SeqPoint,
           SendData(una, wnd, buffer, queue, otherwise),
           tcp_state' = "Established", snd_una' = una, window_state' \in WindowState,
           accepted' \in Seq(Byte), accepted' = echoed \o buffer
    PROVE  IndInv'
  <1>1. /\ snd_nxt' \in SeqPoint
        /\ Sub(snd_nxt', una) <= WndMax
        /\ pending' \subseteq PendingSegment /\ IsFiniteSet(pending')
        /\ QueueOK(pending', una, snd_nxt')
        /\ out' \subseteq SendInfo
        /\ send_buffer' \in Seq(Byte) /\ echoed' \in Seq(Byte)
        /\ echoed' \o send_buffer' = echoed \o buffer
    BY SendDataStep, Zenon DEF IndInv
  <1>2. TypeOK'
    BY <1>1 DEF TypeOK, TcpState
  <1>3. FlightBounded'
    BY <1>1 DEF FlightBounded, Flight, FinSentStates
  <1>4. EchoIsFaithful'
    BY <1>1 DEF EchoIsFaithful
  <1>5. QueueOK(pending, snd_una, snd_nxt)'
    BY <1>1
  <1>6. QED
    BY <1>2, <1>3, <1>4, <1>5
    DEF IndInv, QueueOK, NothingUnackedForgotten, OnlyUnackedPending

\* Steps that send the FIN of a passive close.
LEMMA SendFinKeeps ==
    ASSUME IndInv, NEW una \in SeqPoint, NEW wnd \in 0 .. WndMax, NEW buffer \in Seq(Byte),
           NEW queue \in SUBSET PendingSegment, IsFiniteSet(queue),
           Sub(snd_nxt, una) <= WndMax, QueueOK(queue, una, snd_nxt), rcv_nxt' \in SeqPoint,
           SendFin(una, wnd, buffer, queue),
           tcp_state' = "LastAck", snd_una' = una, window_state' \in WindowState,
           accepted' \in Seq(Byte), accepted' = echoed \o buffer
    PROVE  IndInv'
  <1>1. /\ snd_nxt' \in SeqPoint
        /\ Sub(snd_nxt', una) <= WndMax + 1
        /\ pending' \subseteq PendingSegment /\ IsFiniteSet(pending')
        /\ QueueOK(pending', una, snd_nxt')
        /\ out' \subseteq SendInfo
        /\ send_buffer' \in Seq(Byte) /\ echoed' \in Seq(Byte)
        /\ echoed' \o send_buffer' = echoed \o buffer
    BY SendFinStep, Zenon DEF IndInv
  <1>2. TypeOK'
    BY <1>1 DEF TypeOK, TcpState
  <1>3. FlightBounded'
    BY <1>1 DEF FlightBounded, Flight, FinSentStates
  <1>4. EchoIsFaithful'
    BY <1>1 DEF EchoIsFaithful
  <1>5. QueueOK(pending, snd_una, snd_nxt)'
    BY <1>1
  <1>6. QED
    BY <1>2, <1>3, <1>4, <1>5
    DEF IndInv, QueueOK, NothingUnackedForgotten, OnlyUnackedPending

\* A field-by-field reading of the type of an incoming segment.
LEMMA SegmentTypes ==
    ASSUME NEW seg \in TcpSegment
    PROVE  /\ seg.seq_num \in SeqPoint /\ seg.ack_num \in SeqPoint /\ seg.flags \in TcpFlags
           /\ seg.window \in 0 .. WndMax
           /\ seg.payload \in Seq(Byte) /\ Len(seg.payload) \in Nat
           /\ WindowFrom(seg) \in WindowState
           /\ Add(seg.seq_num, Len(seg.payload)) \in SeqPoint
           /\ Add(Add(seg.seq_num, Len(seg.payload)), 1) \in SeqPoint
  <1>1. /\ seg.seq_num \in SeqPoint /\ seg.ack_num \in SeqPoint /\ seg.flags \in TcpFlags
        /\ seg.window \in 0 .. WndMax /\ seg.payload \in Seq(Byte)
    BY ByteAssumption DEF TcpSegment
  <1>2. Len(seg.payload) \in Nat
    BY <1>1, LenProperties
  <1>3. QED
    BY <1>1, <1>2, AddType DEF WindowFrom, WindowState

\* The segments a handler answers with are well-formed.
LEMMA AnswerTypes ==
    ASSUME NEW a \in SeqPoint, NEW b \in SeqPoint, NEW seg \in TcpSegment
    PROVE  /\ pure_ack(a, b) \in SendInfo
           /\ rst(seg) \in SendInfo
           /\ SynAck(a, seg) \in SendInfo /\ SynAck(a, seg).seq_num = a
           /\ SegLen(SynAck(a, seg)) = 1
  <1>1. 0 \in SeqPoint /\ Add(seg.seq_num, 1) \in SeqPoint
    <2>1. 0 \in SeqPoint
      BY HalfAssumption DEF SeqPoint, Modulus
    <2>2. QED
      BY <2>1, SegmentTypes, AddType
  <1>2. <<>> \in Seq(Byte) /\ Len(<<>>) = 0
    BY EmptySeq
  <1>3. SegLen(SynAck(a, seg)) = 1
    BY <1>2 DEF SynAck, SegLen
  <1>4. QED
    BY <1>1, <1>2, <1>3, SegmentTypes DEF pure_ack, rst, SynAck, SendInfo, TcpFlags

\* Bytes accepted at the end of the buffer keep the echo faithful.
LEMMA AcceptKeepsEcho ==
    ASSUME TypeOK, EchoIsFaithful, NEW data \in Seq(Byte)
    PROVE  /\ send_buffer \o data \in Seq(Byte)
           /\ accepted \o data \in Seq(Byte)
           /\ accepted \o data = echoed \o (send_buffer \o data)
  <1>1. echoed \in Seq(Byte) /\ send_buffer \in Seq(Byte) /\ accepted \in Seq(Byte)
    BY DEF TypeOK
  <1>2. \A s, t, u \in Seq(Byte) : (s \o t) \o u = s \o (t \o u)
    BY AppendedInAnyOrder, Zenon
  <1>3. QED
    BY <1>1, <1>2, ConcatProperties DEF EchoIsFaithful

\* The ACK that completes the handshake acknowledges our SYN and nothing else.
LEMMA HandshakeAck ==
    ASSUME IndInv, tcp_state = "SynReceived", NEW seg \in TcpSegment, CompletesHandshake(seg)
    PROVE  seg.ack_num = snd_nxt
  <1>1. seg.ack_num \in SeqPoint /\ snd_una \in SeqPoint /\ snd_nxt \in SeqPoint
    BY SegmentTypes DEF IndInv, TypeOK
  <1>2. Sub(snd_nxt, snd_una) = 1
    BY DEF IndInv, FlightBounded, Flight
  <1>3. Sub(seg.ack_num, snd_una) <= 1
    <2>1. 1 < Half
      BY WndAssumption, HalfAssumption
    <2>2. precedes_or_eq(snd_una, seg.ack_num) /\ precedes_or_eq(seg.ack_num, snd_nxt)
      BY DEF CompletesHandshake, precedes_or_eq
    <2>3. snd_una # snd_nxt
      BY <1>1, <1>2, SubSelf
    <2>4. QED
      BY <1>1, <1>2, <2>1, <2>2, <2>3, AckWindowIsExact
  <1>4. seg.ack_num # snd_una
    BY <1>1, SubSelf, HalfAssumption DEF CompletesHandshake, precedes
  <1>5. Sub(seg.ack_num, snd_una) # 0 /\ Sub(seg.ack_num, snd_una) \in Nat
    <2>1. Sub(seg.ack_num, snd_una) \in 0 .. (Modulus - 1)
      BY <1>1, SubType
    <2>2. Sub(seg.ack_num, snd_una) = 0 => seg.ack_num = snd_una
      BY <1>1, SubValue, HalfAssumption DEF SeqPoint, Modulus
    <2>3. QED
      BY <1>4, <2>1, <2>2, HalfAssumption DEF Modulus
  <1>6. Sub(seg.ack_num, snd_una) = 1
    BY <1>3, <1>5
  <1>7. Add(snd_una, Sub(seg.ack_num, snd_una)) = seg.ack_num
        /\ Add(snd_una, Sub(snd_nxt, snd_una)) = snd_nxt
    BY <1>1, AddSub
  <1>8. QED
    BY <1>2, <1>6, <1>7

\* handle_unknown_conn preserves the invariant.
LEMMA UnknownConnStep ==
    ASSUME IndInv, NEW seg \in TcpSegment, handle_unknown_conn(seg)
    PROVE  IndInv'
  <1>1. CASE \E isn \in InitialSeq :
                /\ tcp_state' = "SynReceived"
                /\ snd_nxt' = Add(isn, 1)
                /\ rcv_nxt' = Add(seg.seq_num, 1)
                /\ snd_una' = isn
                /\ pending' = push({}, SynAck(isn, seg))
                /\ out' = {SynAck(isn, seg)}
                /\ UNCHANGED <<window_state, send_buffer, history>>
    <2> PICK isn \in InitialSeq :
                /\ tcp_state' = "SynReceived"
                /\ snd_nxt' = Add(isn, 1)
                /\ rcv_nxt' = Add(seg.seq_num, 1)
                /\ snd_una' = isn
                /\ pending' = push({}, SynAck(isn, seg))
                /\ out' = {SynAck(isn, seg)}
                /\ UNCHANGED <<window_state, send_buffer, history>>
      BY <1>1
    <2>1. isn \in SeqPoint
      BY InitialSeqAssumption
    <2>2. /\ SynAck(isn, seg) \in SendInfo /\ SynAck(isn, seg).seq_num = isn
          /\ SegLen(SynAck(isn, seg)) = 1
      BY <2>1, AnswerTypes
    <2>3. IsFiniteSet({})
      BY FS_EmptySet
    <2>4. push({}, SynAck(isn, seg)) \subseteq PendingSegment /\ IsFiniteSet(push({}, SynAck(isn, seg)))
      BY <2>2, <2>3, PushType
    <2>5. Add(isn, 1) \in SeqPoint /\ Add(seg.seq_num, 1) \in SeqPoint
      BY <2>1, SegmentTypes, AddType
    <2>6. TypeOK'
      BY <2>1, <2>2, <2>4, <2>5 DEF IndInv, TypeOK, history, TcpState
    <2>7. /\ Sub(Add(isn, 1), isn) = 1
          /\ QueueOK(push({}, SynAck(isn, seg)), isn, Add(isn, 1))
      <3>1. Sub(isn, isn) = 0 /\ QueueOK({}, isn, isn)
        BY <2>1, SubSelf, EmptyQueueOK
      <3>2. SegLen(SynAck(isn, seg)) >= 1 /\ Sub(isn, isn) + SegLen(SynAck(isn, seg)) <= WndMax + 1
        <4>1. 1 >= 1 /\ 0 + 1 <= WndMax + 1
          BY WndAssumption
        <4>2. QED
          BY <2>2, <3>1, <4>1, Zenon
      <3>3. /\ Sub(Add(isn, SegLen(SynAck(isn, seg))), isn) = Sub(isn, isn) + SegLen(SynAck(isn, seg))
            /\ QueueOK(push({}, SynAck(isn, seg)), isn, Add(isn, SegLen(SynAck(isn, seg))))
        <4>1. {} \in SUBSET PendingSegment
          OBVIOUS
        <4>2. QED
          BY <2>1, <2>2, <2>3, <3>1, <3>2, <4>1, PushKeepsQueue
      <3>4. QED
        BY <2>2, <3>1, <3>3
    <2>8. FlightBounded'
      BY <2>7 DEF FlightBounded, Flight, FinSentStates
    <2>9. EchoIsFaithful'
      BY DEF IndInv, EchoIsFaithful, history
    <2>10. QED
      BY <2>6, <2>7, <2>8, <2>9 DEF IndInv, QueueOK, NothingUnackedForgotten, OnlyUnackedPending
  <1>2. CASE Reply({}) \/ Reply({rst(seg)})
    <2>1. rst(seg) \in SendInfo
      BY AnswerTypes DEF IndInv, TypeOK
    <2>2. QED
      BY <1>2, <2>1, ReplyStep DEF Reply
  <1>3. QED
    BY <1>1, <1>2 DEF handle_unknown_conn

\* RST, stray SYN and the closing states that only answer or drop.
LEMMA RstStep ==
    ASSUME IndInv, NEW seg \in TcpSegment, handle_rst(seg) \/ handle_stray_syn(seg)
    PROVE  IndInv'
  <1>1. pure_ack(snd_nxt, rcv_nxt) \in SendInfo
    BY AnswerTypes DEF IndInv, TypeOK
  <1>2. CASE Reply({}) \/ Reply({pure_ack(snd_nxt, rcv_nxt)})
    BY <1>1, <1>2, ReplyStep DEF Reply
  <1>3. CASE remove({})
    BY <1>3, ResetStep DEF remove
  <1>4. QED
    BY <1>2, <1>3 DEF handle_rst, handle_stray_syn

\* handle_syn_rcv preserves the invariant.
LEMMA SynRcvStep ==
    ASSUME IndInv, NEW seg \in TcpSegment, handle_syn_rcv(seg)
    PROVE  IndInv'
  <1>1. tcp_state = "SynReceived"
    BY Zenon DEF handle_syn_rcv
  <1>2. /\ snd_una \in SeqPoint /\ snd_nxt \in SeqPoint /\ rcv_nxt \in SeqPoint
        /\ pending \in SUBSET PendingSegment /\ IsFiniteSet(pending)
    BY DEF IndInv, TypeOK
  <1>3. Sub(snd_nxt, snd_una) = 1
    BY <1>1 DEF IndInv, FlightBounded, Flight
  <1>4. CASE /\ pending' = push(pending, SynAck(snd_una, seg))
             /\ out' = {SynAck(snd_una, seg)}
             /\ UNCHANGED <<tcp_state, snd_nxt, rcv_nxt, snd_una, window_state, send_buffer, history>>
    <2> DEFINE info == SynAck(snd_una, seg)
               new == NewPending(pending, info)
    <2>1. info \in SendInfo /\ info.seq_num = snd_una /\ SegLen(info) = 1
      BY <1>2, AnswerTypes
    <2>2. new.end_seq = snd_nxt /\ new.send_info = info
      <3>1. Add(snd_una, Sub(snd_nxt, snd_una)) = snd_nxt
        BY <1>2, AddSub
      <3>2. QED
        BY <1>2, <1>3, <2>1, <3>1, PushType
    <2>3. pending' \subseteq PendingSegment /\ IsFiniteSet(pending')
      BY <1>2, <1>4, <2>1, PushType
    <2>4. pending' = pending \cup {new}
      BY <1>4 DEF push
    <2>5. TypeOK' /\ FlightBounded' /\ EchoIsFaithful'
      BY <1>4, <2>1, <2>3
      DEF IndInv, TypeOK, FlightBounded, Flight, EchoIsFaithful, history
    <2> HIDE DEF new, info
    <2>6. QueueOK(pending \cup {new}, snd_una, snd_nxt)
      BY <1>3, <2>1, <2>2, WndAssumption
      DEF IndInv, QueueOK, NothingUnackedForgotten, OnlyUnackedPending,
          CoversFlight, EndsInFlight, FitsWindow
    <2>7. QED
      BY <1>4, <2>4, <2>5, <2>6 DEF IndInv, QueueOK, NothingUnackedForgotten, OnlyUnackedPending
  <1>5. CASE Reply({pure_ack(snd_nxt, rcv_nxt)}) \/ Reply({rst(seg)})
    <2>1. pure_ack(snd_nxt, rcv_nxt) \in SendInfo /\ rst(seg) \in SendInfo
      BY <1>2, AnswerTypes
    <2>2. QED
      BY <1>5, <2>1, ReplyStep DEF Reply
  <1>6. ASSUME CompletesHandshake(seg), complete_handshake(seg)
        PROVE  /\ seg.ack_num \in SeqPoint /\ seg.window \in 0 .. WndMax
               /\ send_buffer \o seg.payload \in Seq(Byte)
               /\ accepted \o seg.payload \in Seq(Byte)
               /\ accepted \o seg.payload = echoed \o (send_buffer \o seg.payload)
               /\ Sub(snd_nxt, seg.ack_num) <= WndMax
               /\ QueueOK({}, seg.ack_num, snd_nxt)
               /\ {} \in SUBSET PendingSegment /\ IsFiniteSet({})
               /\ snd_una' = seg.ack_num /\ window_state' \in WindowState
    <2>1. seg.ack_num = snd_nxt
      BY <1>1, <1>6, HandshakeAck
    <2>2. Sub(snd_nxt, seg.ack_num) <= WndMax /\ QueueOK({}, seg.ack_num, snd_nxt)
      BY <1>2, <2>1, SubSelf, EmptyQueueOK, WndAssumption
    <2>3. /\ send_buffer \o seg.payload \in Seq(Byte)
          /\ accepted \o seg.payload \in Seq(Byte)
          /\ accepted \o seg.payload = echoed \o (send_buffer \o seg.payload)
      BY SegmentTypes, AcceptKeepsEcho, Zenon DEF IndInv
    <2>4. QED
      BY <1>6, <2>2, <2>3, SegmentTypes, FS_EmptySet DEF complete_handshake
  <1>7. CASE /\ CompletesHandshake(seg) /\ seg.flags = "Ack"
             /\ tcp_state' = "Established"
             /\ complete_handshake(seg)
             /\ rcv_nxt' = Add(seg.seq_num, Len(seg.payload))
             /\ accepted' = accepted \o seg.payload
             /\ SendData(seg.ack_num, seg.window, send_buffer \o seg.payload, clear(pending),
                         IF seg.payload = <<>> THEN {} ELSE {pure_ack(snd_nxt, rcv_nxt')})
    <2>1. rcv_nxt' \in SeqPoint
      BY <1>7, SegmentTypes
    <2>2. (IF seg.payload = <<>> THEN {} ELSE {pure_ack(snd_nxt, rcv_nxt')}) \in SUBSET SendInfo
      BY <1>2, <2>1, AnswerTypes
    <2>3. QED
      BY <1>6, <1>7, <2>1, <2>2, SendDataKeeps, Zenon DEF clear
  <1>8. CASE /\ CompletesHandshake(seg) /\ seg.flags = "FinAck"
             /\ tcp_state' = "LastAck"
             /\ complete_handshake(seg)
             /\ rcv_nxt' = Add(Add(seg.seq_num, Len(seg.payload)), 1)
             /\ accepted' = accepted \o seg.payload
             /\ SendFin(seg.ack_num, seg.window, send_buffer \o seg.payload, clear(pending))
    <2>1. rcv_nxt' \in SeqPoint
      BY <1>8, SegmentTypes
    <2>2. QED
      BY <1>6, <1>8, <2>1, SendFinKeeps, Zenon DEF clear
  <1>9. QED
    BY <1>4, <1>5, <1>7, <1>8, Zenon DEF handle_syn_rcv

\* RCV.NXT stays a point of the space when data, or data and a FIN, is consumed.
LEMMA RcvTypes ==
    ASSUME TypeOK, NEW seg \in TcpSegment
    PROVE  /\ Add(rcv_nxt, Len(seg.payload)) \in SeqPoint
           /\ Add(Add(rcv_nxt, Len(seg.payload)), 1) \in SeqPoint
  <1>1. Len(seg.payload) \in Nat /\ rcv_nxt \in SeqPoint
    BY SegmentTypes DEF TypeOK
  <1>2. Add(rcv_nxt, Len(seg.payload)) \in SeqPoint
    BY <1>1, AddType
  <1>3. QED
    BY <1>2, AddType

\* handle_established preserves the invariant.
LEMMA EstablishedStep ==
    ASSUME IndInv, NEW seg \in TcpSegment, Comparable(seg), handle_established(seg)
    PROVE  IndInv'
  <1> DEFINE una == UnaAfter(seg)
             wnd == WindowAfter(seg).snd_wnd
             queue == PendingAfter(seg)
  <1>1. tcp_state = "Established"
    BY Zenon DEF handle_established
  <1>2. /\ snd_nxt \in SeqPoint /\ rcv_nxt \in SeqPoint
        /\ send_buffer \in Seq(Byte) /\ accepted \in Seq(Byte) /\ accepted = echoed \o send_buffer
    BY DEF IndInv, TypeOK, EchoIsFaithful
  <1>3. /\ una \in SeqPoint /\ WindowAfter(seg) \in WindowState /\ wnd \in 0 .. WndMax
        /\ queue \in SUBSET PendingSegment /\ IsFiniteSet(queue)
        /\ Sub(snd_nxt, una) <= WndMax /\ QueueOK(queue, una, snd_nxt)
    <2>1. /\ una \in SeqPoint /\ WindowAfter(seg) \in WindowState
          /\ queue \in SUBSET PendingSegment /\ IsFiniteSet(queue)
          /\ Sub(snd_nxt, una) <= Flight /\ QueueOK(queue, una, snd_nxt)
      BY <1>1, AckStep
    <2>2. Flight <= WndMax
      BY <1>1 DEF IndInv, FlightBounded
    <2>3. Flight \in 0 .. (Modulus - 1) /\ Sub(snd_nxt, una) \in 0 .. (Modulus - 1)
      BY <2>1, SubType DEF IndInv, TypeOK, Flight
    <2>4. Sub(snd_nxt, una) <= WndMax
      BY <2>1, <2>2, <2>3, WndAssumption, HalfAssumption DEF Modulus
    <2>5. QED
      BY <2>1, <2>4 DEF WindowState
  <1>4. CASE Reply({pure_ack(snd_nxt, rcv_nxt)})
    BY <1>2, <1>4, AnswerTypes, ReplyStep DEF Reply
  <1>5. CASE /\ incoming_ack_update(seg)
             /\ UNCHANGED <<tcp_state, rcv_nxt, accepted>>
             /\ SendData(una, wnd, send_buffer, queue, {})
    <2>1. {} \in SUBSET SendInfo
      OBVIOUS
    <2>2. /\ rcv_nxt' \in SeqPoint /\ tcp_state' = "Established"
          /\ snd_una' = una /\ window_state' \in WindowState
          /\ accepted' \in Seq(Byte) /\ accepted' = echoed \o send_buffer
      BY <1>1, <1>2, <1>3, <1>5 DEF incoming_ack_update
    <2>3. QED
      BY <1>2, <1>3, <1>5, <2>1, <2>2, SendDataKeeps, Zenon
  <1>6. ASSUME incoming_ack_update(seg), accepted' = accepted \o seg.payload
        PROVE  /\ send_buffer \o seg.payload \in Seq(Byte)
               /\ snd_una' = una /\ window_state' \in WindowState
               /\ accepted' \in Seq(Byte) /\ accepted' = echoed \o (send_buffer \o seg.payload)
    BY <1>3, <1>6, SegmentTypes, AcceptKeepsEcho, Zenon DEF IndInv, incoming_ack_update
  <1>7. CASE /\ incoming_ack_update(seg)
             /\ rcv_nxt' = Add(rcv_nxt, Len(seg.payload))
             /\ accepted' = accepted \o seg.payload
             /\ UNCHANGED tcp_state
             /\ SendData(una, wnd, send_buffer \o seg.payload, queue,
                         {pure_ack(snd_nxt, rcv_nxt')})
    <2>1. rcv_nxt' \in SeqPoint /\ tcp_state' = "Established"
      BY <1>1, <1>7, RcvTypes DEF IndInv
    <2>2. {pure_ack(snd_nxt, rcv_nxt')} \in SUBSET SendInfo
      BY <1>2, <2>1, AnswerTypes
    <2>3. QED
      BY <1>3, <1>6, <1>7, <2>1, <2>2, SendDataKeeps, Zenon
  <1>8. CASE /\ incoming_ack_update(seg)
             /\ pending' = queue
             /\ out' = {pure_ack(snd_nxt, rcv_nxt)}
             /\ UNCHANGED <<tcp_state, snd_nxt, rcv_nxt, send_buffer, history>>
    <2>1. rcv_nxt' \in SeqPoint /\ out' \subseteq SendInfo
      BY <1>2, <1>8, AnswerTypes
    <2>2. QED
      BY <1>1, <1>8, <2>1, AckOnlyStep
  <1>9. CASE /\ tcp_state' = "LastAck"
             /\ incoming_ack_update(seg)
             /\ rcv_nxt' = Add(Add(rcv_nxt, Len(seg.payload)), 1)
             /\ accepted' = accepted \o seg.payload
             /\ SendFin(una, wnd, send_buffer \o seg.payload, queue)
    <2>1. rcv_nxt' \in SeqPoint
      BY <1>9, RcvTypes DEF IndInv
    <2>2. QED
      BY <1>3, <1>6, <1>9, <2>1, SendFinKeeps, Zenon
  <1>10. QED
    BY <1>4, <1>5, <1>7, <1>8, <1>9, Zenon DEF handle_established

\* The handlers of the closing states preserve the invariant.
LEMMA ClosingStep ==
    ASSUME IndInv, NEW seg \in TcpSegment, Comparable(seg),
           handle_fin_wait_1(seg) \/ handle_fin_wait_2(seg) \/ handle_closing(seg) \/ handle_last_ack(seg)
    PROVE  IndInv'
  <1>1. tcp_state \in FinSentStates
    BY Zenon DEF handle_fin_wait_1, handle_fin_wait_2, handle_closing, handle_last_ack, FinSentStates
  <1>2. snd_nxt \in SeqPoint /\ rcv_nxt \in SeqPoint /\ RcvAfterFin(seg) \in SeqPoint
    BY RcvTypes DEF IndInv, TypeOK, RcvAfterFin
  <1>3. CASE Reply({rst(seg)})
    BY <1>2, <1>3, AnswerTypes, ReplyStep DEF Reply
  <1>4. CASE remove({}) \/ remove({pure_ack(snd_nxt, RcvAfterFin(seg))})
    BY <1>2, <1>4, AnswerTypes, ResetStep DEF remove
  <1>5. CASE DiscardData(seg)
    <2>1. rcv_nxt' \in SeqPoint
      BY <1>5, RcvTypes DEF IndInv, DiscardData
    <2>2. out' \subseteq SendInfo
      <3>1. pure_ack(snd_nxt, rcv_nxt') \in SendInfo
        BY <1>2, <2>1, AnswerTypes
      <3>2. out' = {pure_ack(snd_nxt, rcv_nxt')}
        BY <1>5 DEF DiscardData
      <3>3. QED
        BY <3>1, <3>2
    <2>3. QED
      BY <1>1, <1>5, <2>1, <2>2, AckOnlyStep DEF DiscardData
  <1>6. CASE /\ tcp_state' \in FinSentStates
             /\ incoming_ack_update(seg)
             /\ pending' = PendingAfter(seg)
             /\ out' = {}
             /\ UNCHANGED <<snd_nxt, rcv_nxt, send_buffer, history>>
    <2>1. rcv_nxt' \in SeqPoint /\ out' \subseteq SendInfo
      BY <1>2, <1>6
    <2>2. QED
      BY <1>1, <1>6, <2>1, AckOnlyStep
  <1>7. CASE /\ tcp_state' = "Closing"
             /\ rcv_nxt' = RcvAfterFin(seg)
             /\ out' = {pure_ack(snd_nxt, rcv_nxt')}
             /\ incoming_ack_update(seg)
             /\ pending' = PendingAfter(seg)
             /\ UNCHANGED <<snd_nxt, send_buffer, history>>
    <2>1. rcv_nxt' \in SeqPoint /\ tcp_state' \in FinSentStates
      BY <1>2, <1>7 DEF FinSentStates
    <2>2. out' \subseteq SendInfo
      <3>1. pure_ack(snd_nxt, rcv_nxt') \in SendInfo
        BY <1>2, <2>1, AnswerTypes
      <3>2. QED
        BY <1>7, <3>1
    <2>3. QED
      BY <1>1, <1>7, <2>1, <2>2, AckOnlyStep
  <1>8. QED
    <2>1. CASE handle_fin_wait_1(seg)
      BY <1>3, <1>4, <1>5, <1>6, <1>7, <2>1, Zenon DEF handle_fin_wait_1, FinSentStates
    <2>2. CASE handle_fin_wait_2(seg)
      BY <1>3, <1>4, <1>5, <2>2, Zenon DEF handle_fin_wait_2
    <2>3. CASE handle_closing(seg)
      BY <1>3, <1>4, <2>3 DEF handle_closing
    <2>4. CASE handle_last_ack(seg)
      BY <1>1, <1>3, <1>4, <1>6, <2>4, Zenon DEF handle_last_ack
    <2>5. QED
      BY <2>1, <2>2, <2>3, <2>4

\* A retransmission changes nothing in an entry but its retry count.
LEMMA RetransmittedType ==
    ASSUME NEW p \in PendingSegment, ~exhausted_retries(p)
    PROVE  /\ Retransmitted(p) \in PendingSegment
           /\ Retransmitted(p).send_info = p.send_info
           /\ Retransmitted(p).end_seq = p.end_seq
  BY RetriesAssumption DEF PendingSegment, exhausted_retries, Retransmitted

\* What is resent is well-typed, and as finite as what was pending.
LEMMA RetransmitTypes ==
    ASSUME TypeOK, NEW due \in SUBSET pending, Retransmit(due)
    PROVE  /\ \A p \in due : /\ Retransmitted(p).send_info = p.send_info
                             /\ Retransmitted(p).end_seq = p.end_seq
           /\ pending' \subseteq PendingSegment /\ IsFiniteSet(pending')
           /\ out' \subseteq SendInfo
  <1> DEFINE again == {Retransmitted(p) : p \in due}
  <1>1. \A p \in due : p \in PendingSegment /\ ~exhausted_retries(p)
    BY Zenon DEF TypeOK, Retransmit
  <1>2. \A p \in due : /\ Retransmitted(p) \in PendingSegment
                       /\ Retransmitted(p).send_info = p.send_info
                       /\ Retransmitted(p).end_seq = p.end_seq
    BY <1>1, RetransmittedType
  <1>3. IsFiniteSet(again)
    <2>1. [p \in due |-> Retransmitted(p)] \in Surjection(due, again)
      BY DEF Surjection
    <2>2. IsFiniteSet(due)
      BY FS_Subset DEF TypeOK
    <2>3. QED
      BY <2>1, <2>2, FS_Surjection
  <1>4. pending' = (pending \ due) \cup again
    BY DEF Retransmit
  <1>5. pending' \subseteq PendingSegment /\ IsFiniteSet(pending')
    <2>1. IsFiniteSet(pending \ due)
      BY FS_Difference, Zenon DEF TypeOK
    <2>2. IsFiniteSet(pending')
      BY <1>3, <1>4, <2>1, FS_Union, Zenon
    <2>3. QED
      BY <1>2, <1>4, <2>2 DEF TypeOK
  <1>6. out' \subseteq SendInfo
    BY <1>1, PendingTypes DEF Retransmit
  <1>7. QED
    BY <1>2, <1>5, <1>6

\* make_retransmissions preserves the invariant.
LEMMA RetransmitStep ==
    ASSUME IndInv, make_retransmissions
    PROVE  IndInv'
  <1> PICK due \in SUBSET pending : Retransmit(due) \/ GiveUp(due)
    BY DEF make_retransmissions
  <1>1. CASE GiveUp(due)
    BY <1>1, ResetStep DEF GiveUp, remove
  <1>2. CASE Retransmit(due)
    <2>1. /\ \A p \in due : /\ Retransmitted(p).send_info = p.send_info
                            /\ Retransmitted(p).end_seq = p.end_seq
          /\ pending' \subseteq PendingSegment /\ IsFiniteSet(pending')
          /\ out' \subseteq SendInfo
      BY <1>2, RetransmitTypes DEF IndInv
    <2>2. pending' = (pending \ due) \cup {Retransmitted(p) : p \in due}
      BY <1>2 DEF Retransmit
    <2>3. TypeOK' /\ FlightBounded' /\ EchoIsFaithful'
      BY <1>2, <2>1
      DEF IndInv, TypeOK, FlightBounded, Flight, EchoIsFaithful, Retransmit, history
    <2>4. \A p \in pending : \E q \in pending' :
             q.send_info = p.send_info /\ q.end_seq = p.end_seq
      BY <2>1, <2>2
    <2>5. \A q \in pending' : \E p \in pending :
             q.send_info = p.send_info /\ q.end_seq = p.end_seq
      BY <2>1, <2>2
    <2>6. CoversFlight(pending', snd_una, snd_nxt)
      BY <2>4 DEF IndInv, NothingUnackedForgotten, CoversFlight, Covers
    <2>7. EndsInFlight(pending', snd_una, snd_nxt) /\ FitsWindow(pending')
      BY <2>5 DEF IndInv, OnlyUnackedPending, EndsInFlight, FitsWindow
    <2>8. QED
      BY <1>2, <2>3, <2>6, <2>7
      DEF IndInv, Retransmit, NothingUnackedForgotten, OnlyUnackedPending
  <1>3. QED
    BY <1>1, <1>2

\* close_established preserves the invariant.
LEMMA CloseStep ==
    ASSUME IndInv, close_established
    PROVE  IndInv'
  <1> DEFINE fin == [seq_num |-> snd_nxt, ack_num |-> rcv_nxt, flags |-> "FinAck", payload |-> <<>>]
  <1>1. /\ snd_nxt \in SeqPoint /\ rcv_nxt \in SeqPoint /\ snd_una \in SeqPoint
        /\ pending \in SUBSET PendingSegment /\ IsFiniteSet(pending)
    BY DEF IndInv, TypeOK
  <1>2. fin \in SendInfo /\ fin.seq_num = snd_nxt /\ SegLen(fin) = 1
    <2>1. <<>> \in Seq(Byte) /\ Len(<<>>) = 0
      BY EmptySeq
    <2>2. QED
      BY <1>1, <2>1 DEF SendInfo, TcpFlags, SegLen
  <1>3. /\ tcp_state = "Established" /\ tcp_state' = "FinWait1"
        /\ pending' = push(pending, fin) /\ out' = {fin} /\ snd_nxt' = Add(snd_nxt, 1)
        /\ UNCHANGED <<rcv_nxt, snd_una, window_state, send_buffer, history>>
    BY DEF close_established
  <1> HIDE DEF fin
  <1>4. Add(snd_nxt, 1) \in SeqPoint
    BY <1>1, AddType
  <1>5. push(pending, fin) \subseteq PendingSegment /\ IsFiniteSet(push(pending, fin))
    BY <1>1, <1>2, PushType
  <1>6. TypeOK' /\ EchoIsFaithful'
    BY <1>2, <1>3, <1>4, <1>5 DEF IndInv, TypeOK, EchoIsFaithful, history, TcpState
  <1>7. Flight <= WndMax /\ Flight \in Nat
    <2>1. Flight \in 0 .. (Modulus - 1)
      BY <1>1, SubType DEF Flight
    <2>2. QED
      BY <1>3, <2>1, HalfAssumption DEF IndInv, FlightBounded, Modulus
  <1>8. Sub(snd_nxt, snd_una) + SegLen(fin) <= WndMax + 1 /\ SegLen(fin) >= 1
    BY <1>2, <1>7, WndAssumption DEF Flight
  <1>9. QueueOK(pending, snd_una, snd_nxt)
    BY DEF IndInv, QueueOK, NothingUnackedForgotten, OnlyUnackedPending
  <1>10. /\ Sub(Add(snd_nxt, 1), snd_una) = Flight + 1
         /\ QueueOK(push(pending, fin), snd_una, Add(snd_nxt, 1))
    BY <1>1, <1>2, <1>8, <1>9, PushKeepsQueue DEF Flight
  <1>11. FlightBounded'
    BY <1>3, <1>7, <1>10, WndAssumption DEF FlightBounded, Flight, FinSentStates
  <1>12. QED
    BY <1>3, <1>6, <1>10, <1>11 DEF IndInv, QueueOK, NothingUnackedForgotten, OnlyUnackedPending

-----------------------------------------------------------------------------
(* Theorems *)

\* The invariant holds of the empty table entry.
LEMMA InitInv == Init => IndInv
  <1> SUFFICES ASSUME Init PROVE IndInv
    OBVIOUS
  <1>1. 0 \in SeqPoint /\ NoWindow \in WindowState
    BY HalfAssumption, WndAssumption DEF SeqPoint, Modulus, NoWindow, WindowState
  <1>2. TypeOK
    BY <1>1, FS_EmptySet, EmptySeq DEF Init, TypeOK, TcpState
  <1>3. FlightBounded
    BY <1>1, SubSelf, WndAssumption DEF Init, FlightBounded, Flight, FinSentStates
  <1>4. EchoIsFaithful
    BY ConcatEmptySeq, EmptySeq DEF Init, EchoIsFaithful
  <1>5. QueueOK(pending, snd_una, snd_nxt)
    BY <1>1, EmptyQueueOK DEF Init
  <1>6. QED
    BY <1>2, <1>3, <1>4, <1>5 DEF IndInv, QueueOK, NothingUnackedForgotten, OnlyUnackedPending

\* Every handler, retransmission and active close preserves it.
LEMMA NextInv == IndInv /\ [ComparableNext]_vars => IndInv'
  <1> SUFFICES ASSUME IndInv, [ComparableNext]_vars PROVE IndInv'
    OBVIOUS
  <1>1. ASSUME NEW seg \in TcpSegment, Comparable(seg), decide_reply(seg)
        PROVE  IndInv'
    <2>1. CASE handle_unknown_conn(seg)
      BY <2>1, UnknownConnStep
    <2>2. CASE handle_rst(seg) \/ handle_stray_syn(seg)
      BY <2>2, RstStep
    <2>3. CASE handle_syn_rcv(seg)
      BY <2>3, SynRcvStep
    <2>4. CASE handle_established(seg)
      BY <1>1, <2>4, EstablishedStep
    <2>5. CASE handle_fin_wait_1(seg) \/ handle_fin_wait_2(seg) \/ handle_closing(seg) \/ handle_last_ack(seg)
      BY <1>1, <2>5, ClosingStep
    <2>6. QED
      BY <1>1, <2>1, <2>2, <2>3, <2>4, <2>5 DEF decide_reply
  <1>2. CASE make_retransmissions
    BY <1>2, RetransmitStep
  <1>3. CASE close_established
    BY <1>3, CloseStep
  <1>4. CASE UNCHANGED vars
    <2>1. UNCHANGED <<connVars, history>> /\ out' \subseteq SendInfo
      BY <1>4 DEF vars, connVars, history, IndInv, TypeOK
    <2>2. QED
      BY <2>1, ReplyStep
  <1>5. QED
    BY <1>1, <1>2, <1>3, <1>4 DEF ComparableNext

\* The inductive invariant holds in every reachable state of a connection whose
\* peer sends comparable ACK numbers.
THEOREM Invariance == ComparableSpec => []IndInv
  BY InitInv, NextInv, PTL DEF ComparableSpec

\* With comparable ACK numbers, what is in flight never outgrows a window and a FIN
\* (drain_transmittable, close_established), for every window and sequence space.
THEOREM FlightStaysBounded == ComparableSpec => []FlightBounded
  <1>1. IndInv => FlightBounded
    BY DEF IndInv
  <1>2. QED
    BY <1>1, Invariance, PTL

\* With comparable ACK numbers, incoming_ack_update and complete_handshake never
\* drop a segment from the retransmission queue while part of it is
\* unacknowledged.
THEOREM QueueCoversFlight == ComparableSpec => []NothingUnackedForgotten
  <1>1. IndInv => NothingUnackedForgotten
    BY DEF IndInv
  <1>2. QED
    BY <1>1, Invariance, PTL

\* Nor do they leave a fully acknowledged segment there to be sent again.
THEOREM QueueWithinFlight == ComparableSpec => []OnlyUnackedPending
  <1>1. IndInv => OnlyUnackedPending
    BY DEF IndInv
  <1>2. QED
    BY <1>1, Invariance, PTL

=============================================================================
