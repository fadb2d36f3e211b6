------------------------ MODULE RetransmitTimerProofs ------------------------
(***************************************************************************)
(* Proofs about RetransmitTimer, for any number of connections and         *)
(* segments, any RTO configuration and any clock resolution: the loop      *)
(* never sleeps past a deadline, and never resends around an older segment.*)
(***************************************************************************)
EXTENDS RetransmitTimer, SequenceTheorems, FiniteSetTheorems, WellFoundedInduction, TLAPS

-----------------------------------------------------------------------------
(* Minima *)

\* A non-empty set of integers with a lower bound has a least element, and Min is it.
LEMMA MinOfBounded ==
    ASSUME NEW D \in SUBSET Int, D # {}, NEW low \in Int, \A d \in D : d >= low
    PROVE  Min(D) \in D /\ \A d \in D : Min(D) <= d
  <1> DEFINE N == {n \in Nat : n + low \in D}
  <1>1. N \subseteq Nat /\ N # {}
    <2>1. PICK d \in D : TRUE
      BY Zenon
    <2>2. d - low \in Nat /\ (d - low) + low = d
      OBVIOUS
    <2>3. QED
      BY <2>2, Zenon
  <1>2. IsWellFoundedOn(OpToRel(<, Nat), Nat)
    BY NatLessThanWellFounded, Zenon
  <1>3. PICK m \in N : \A n \in N : ~(<<n, m>> \in OpToRel(<, Nat))
    BY <1>1, <1>2, WFMin, Zenon
  <1>4. \A n \in N : ~(n < m)
    BY <1>3, Zenon DEF OpToRel
  <1>5. m + low \in D /\ \A d \in D : m + low <= d
    <2>1. \A d \in D : d - low \in N
      OBVIOUS
    <2>2. QED
      BY <1>4, <2>1
  <1>6. \E x \in D : \A y \in D : x <= y
    BY <1>5
  <1>7. QED
    BY <1>6, Zenon DEF Min

\* Min is the only least element.
LEMMA MinIs ==
    ASSUME NEW D \in SUBSET Int, NEW m \in D, \A d \in D : m <= d
    PROVE  Min(D) = m
  <1>1. Min(D) \in D /\ \A d \in D : Min(D) <= d
    BY Zenon DEF Min
  <1>2. Min(D) \in Int /\ m \in Int /\ Min(D) <= m /\ m <= Min(D)
    BY <1>1, Zenon
  <1>3. QED
    BY <1>2

\* The larger of an integer and zero.
LEMMA MaxZero ==
    ASSUME NEW d \in Int
    PROVE  /\ Max({d, 0}) = IF d > 0 THEN d ELSE 0
           /\ Max({0, d}) = IF d > 0 THEN d ELSE 0
  BY DEF Max

-----------------------------------------------------------------------------
(* Times *)

\* Every RTO lies between the two bounds, so it is never negative.
LEMMA RtoBounds ==
    ASSUME NEW retries \in Nat
    PROVE  Rto(retries) \in Nat
  <1>1. Backoff(retries) \in Int
    BY TimerAssumption DEF Backoff
  <1>2. InitialRto * Backoff(retries) \in Int
    BY <1>1, TimerAssumption
  <1>3. ASSUME NEW t \in Int
        PROVE  clamp(t) \in Nat
    <2>1. Min({t, TCP_RTO_MAX}) \in Int
      BY TimerAssumption DEF Min
    <2>2. ASSUME NEW u \in Int
          PROVE  Max({TCP_RTO_MIN, u}) \in Nat
      BY TimerAssumption DEF Max
    <2>3. QED
      BY <2>1, <2>2 DEF clamp
  <1>4. QED
    BY <1>2, <1>3 DEF Rto

\* Rounding down to milliseconds loses less than one.
LEMMA MillisClose ==
    ASSUME NEW d \in Nat
    PROVE  as_millis(d) \in Nat /\ d - as_millis(d) \in 0 .. (TicksPerMs - 1)
  <1>1. TicksPerMs \in Nat \ {0}
    BY TimerAssumption
  <1>2. d - (d \div TicksPerMs) * TicksPerMs \in 0 .. (TicksPerMs - 1)
    BY <1>1
  <1>3. d \div TicksPerMs \in Nat
    BY <1>1
  <1>4. (d \div TicksPerMs) * TicksPerMs \in Nat
    BY <1>1, <1>3
  <1>5. QED
    BY <1>2, <1>4 DEF as_millis

-----------------------------------------------------------------------------
(* Deadlines *)

\* Deadlines, for any shutdown deadline and queues.
DeadlinesOf(deadline, q) == deadline \cup {time_due(seg) : seg \in Segments(q)}

\* What the queues hold.
LEMMA SegmentsOf ==
    ASSUME NEW q \in [Conn -> Seq(PendingSegment)]
    PROVE  /\ Segments(q) \subseteq PendingSegment
           /\ \A seg : seg \in Segments(q) <=> \E c \in Conn : \E i \in 1 .. Len(q[c]) : seg = q[c][i]
  <1>1. \A c \in Conn : q[c] \in Seq(PendingSegment)
    OBVIOUS
  <1>2. \A c \in Conn : DOMAIN q[c] = 1 .. Len(q[c]) /\ \A i \in 1 .. Len(q[c]) : q[c][i] \in PendingSegment
    BY <1>1, LenProperties, ElementOfSeq
  <1>3. QED
    BY <1>2 DEF Segments

\* A field-by-field reading of the type of a pending segment.
LEMMA SegmentFields ==
    ASSUME NEW seg \in PendingSegment
    PROVE  seg.id \in Nat /\ seg.age \in Nat /\ seg.retries \in Nat /\ seg.waited \in Nat
  BY DEF PendingSegment

\* A deadline is an integer.
LEMMA DueType ==
    ASSUME NEW seg \in PendingSegment
    PROVE  time_due(seg) \in Int /\ (seg.age = 0 => time_due(seg) >= 0)
  <1>1. seg.retries \in Nat /\ seg.age \in Nat
    BY DEF PendingSegment
  <1>2. QED
    BY <1>1, RtoBounds DEF time_due

\* poll_timeout takes the earliest deadline of all, rounded down: it is none if
\* there is none, and otherwise less than a millisecond before it.
LEMMA TimeoutIsPunctual ==
    ASSUME NEW q \in [Conn -> Seq(PendingSegment)], NEW deadline, IsOption(deadline, Int),
           NEW low \in Int, \A d \in DeadlinesOf(deadline, q) : d >= low
    PROVE  /\ IsOption(poll_timeout(deadline, q), Nat)
           /\ poll_timeout(deadline, q) = {} <=> DeadlinesOf(deadline, q) = {}
           /\ \A t \in poll_timeout(deadline, q) :
                 Max({0, Min(DeadlinesOf(deadline, q))}) - t \in 0 .. (TicksPerMs - 1)
  <1> DEFINE dues == {time_due(seg) : seg \in Segments(q)}
             all == deadline \cup next_retransmit_deadline(q)
             D == DeadlinesOf(deadline, q)
  <1>1. dues \subseteq Int /\ D \subseteq Int /\ D = deadline \cup dues /\ deadline \subseteq Int
    <2>1. dues \subseteq Int
      BY SegmentsOf, DueType
    <2>2. QED
      BY <2>1, Zenon DEF DeadlinesOf, IsOption
  <1>2. next_retransmit_deadline(q) = IF dues = {} THEN {} ELSE {Min(dues)}
    BY DEF next_retransmit_deadline, Earliest
  <1>3. dues # {} => Min(dues) \in dues /\ \A d \in dues : Min(dues) <= d
    BY <1>1, MinOfBounded, Zenon
  <1> HIDE DEF dues, D
  <1>4. all \subseteq D /\ (all = {} <=> D = {})
    BY <1>1, <1>2, <1>3, Zenon
  <1>5. D # {} => Min(all) = Min(D) /\ Min(D) \in Int
    <2> SUFFICES ASSUME D # {} PROVE Min(all) = Min(D) /\ Min(D) \in Int
      OBVIOUS
    <2>1. Min(D) \in D /\ \A d \in D : Min(D) <= d
      BY <1>1, MinOfBounded, Zenon DEF D
    <2>2. Min(D) \in all
      <3>1. CASE Min(D) \in deadline
        BY <3>1
      <3>2. CASE Min(D) \in dues
        <4>1. Min(dues) \in Int /\ Min(D) \in Int /\ Min(dues) <= Min(D) /\ Min(D) <= Min(dues)
          BY <1>1, <1>3, <2>1, <3>2, Zenon
        <4>2. Min(dues) = Min(D)
          BY <4>1
        <4>3. QED
          BY <1>2, <3>2, <4>2
      <3>3. QED
        BY <1>1, <2>1, <3>1, <3>2
    <2>3. Min(all) = Min(D)
      BY <1>1, <1>4, <2>1, <2>2, MinIs, Zenon
    <2>4. QED
      BY <1>1, <2>1, <2>3, Zenon
  <1>6. poll_timeout(deadline, q) =
           IF D = {} THEN {} ELSE {as_millis(saturating_duration_since(Min(D)))}
    BY <1>4, <1>5, Zenon DEF poll_timeout, Earliest
  <1>7. CASE D = {}
    BY <1>6, <1>7 DEF IsOption, D
  <1>8. CASE D # {}
    <2>1. Min(D) \in Int
      BY <1>5, <1>8
    <2>2. /\ saturating_duration_since(Min(D)) \in Nat
          /\ saturating_duration_since(Min(D)) = Max({0, Min(D)})
      BY <2>1, MaxZero DEF saturating_duration_since
    <2>3. /\ as_millis(saturating_duration_since(Min(D))) \in Nat
          /\ saturating_duration_since(Min(D)) - as_millis(saturating_duration_since(Min(D)))
                \in 0 .. (TicksPerMs - 1)
      BY <2>2, MillisClose
    <2>4. QED
      BY <1>6, <1>8, <2>2, <2>3, Zenon DEF IsOption, D
  <1>9. QED
    BY <1>7, <1>8, Zenon

-----------------------------------------------------------------------------
(* The loop *)

\* Nothing is overdue by more than the loop may run behind, and poll's timeout
\* fits the deadlines that stand.
TimerInv ==
    /\ TimerTypeOK
    /\ \A d \in Deadlines : d >= -MaxLate
    /\ PollIsPunctual

\* Every segment of q2 is one of q1 or has just been sent.
OldOrFresh(q1, q2) == \A seg \in Segments(q2) : seg \in Segments(q1) \/ seg.age = 0

\* Then no deadline of q2 is more overdue than those of q1.
LEMMA FreshNotOverdue ==
    ASSUME NEW q1 \in [Conn -> Seq(PendingSegment)], NEW q2 \in [Conn -> Seq(PendingSegment)],
           OldOrFresh(q1, q2),
           NEW before, \A d \in DeadlinesOf(before, q1) : d >= -MaxLate,
           NEW after, \A d \in after : d >= -MaxLate
    PROVE  \A d \in DeadlinesOf(after, q2) : d >= -MaxLate
  <1>1. \A seg \in Segments(q2) : seg \in PendingSegment
    BY SegmentsOf
  <1>2. \A seg \in Segments(q2) : time_due(seg) >= -MaxLate
    <2> TAKE seg \in Segments(q2)
    <2>1. CASE seg \in Segments(q1)
      BY <2>1 DEF DeadlinesOf
    <2>2. CASE seg.age = 0
      <3>1. time_due(seg) \in Int /\ time_due(seg) >= 0
        BY <1>1, <2>2, DueType
      <3>2. QED
        BY <3>1, TimerAssumption
    <2>3. QED
      BY <2>1, <2>2 DEF OldOrFresh
  <1>3. QED
    BY <1>2 DEF DeadlinesOf

\* A step that comes round to poll, or leaves the loop, establishes the invariant.
LEMMA LoopStep ==
    ASSUME queue' \in [Conn -> Seq(PendingSegment)], sent' \in Nat,
           IsOption(shutdown_deadline', Int), running' \in BOOLEAN,
           \A d \in DeadlinesOf(shutdown_deadline', queue') : d >= -MaxLate,
           Poll \/ (~running' /\ timeout' = {})
    PROVE  TimerInv'
  <1>1. Deadlines' = DeadlinesOf(shutdown_deadline', queue')
    BY DEF Deadlines, DeadlinesOf
  <1>2. CASE Poll
    <2>1. timeout' = poll_timeout(shutdown_deadline', queue') /\ -MaxLate \in Int
      BY <1>2, TimerAssumption DEF Poll
    <2>2. /\ IsOption(timeout', Nat)
          /\ timeout' = {} <=> Deadlines' = {}
          /\ \A t \in timeout' : Max({0, Min(Deadlines')}) - t \in 0 .. (TicksPerMs - 1)
      BY <1>1, <2>1, TimeoutIsPunctual
    <2>3. QED
      BY <1>1, <2>2, Zenon DEF TimerInv, TimerTypeOK, PollIsPunctual
  <1>3. CASE ~running' /\ timeout' = {}
    BY <1>1, <1>3 DEF TimerInv, TimerTypeOK, PollIsPunctual, IsOption
  <1>4. QED
    BY <1>2, <1>3

\* Dropping the n oldest segments of a queue.
LEMMA DropTypes ==
    ASSUME NEW segs \in Seq(PendingSegment), NEW n \in 0 .. Len(segs)
    PROVE  /\ SubSeq(segs, n + 1, Len(segs)) \in Seq(PendingSegment)
           /\ Len(SubSeq(segs, n + 1, Len(segs))) = Len(segs) - n
           /\ \A i \in 1 .. (Len(segs) - n) :
                 n + i \in 1 .. Len(segs) /\ SubSeq(segs, n + 1, Len(segs))[i] = segs[n + i]
  <1>1. Len(segs) \in Nat /\ n \in Int /\ n + 1 \in Int /\ \A i \in 1 .. Len(segs) : segs[i] \in PendingSegment
    BY LenProperties, ElementOfSeq
  <1>2. \A i \in (n + 1) .. Len(segs) : segs[i] \in PendingSegment
    BY <1>1
  <1>3. /\ SubSeq(segs, n + 1, Len(segs)) \in Seq(PendingSegment)
        /\ Len(SubSeq(segs, n + 1, Len(segs))) =
              IF n + 1 <= Len(segs) THEN Len(segs) - (n + 1) + 1 ELSE 0
        /\ \A i \in 1 .. (Len(segs) - (n + 1) + 1) :
              SubSeq(segs, n + 1, Len(segs))[i] = segs[(n + 1) + i - 1]
    BY <1>1, <1>2, SubSeqProperties
  <1>4. /\ Len(segs) - (n + 1) + 1 = Len(segs) - n
        /\ \A i \in 1 .. (Len(segs) - n) : n + i \in 1 .. Len(segs) /\ (n + 1) + i - 1 = n + i
    BY <1>1
  <1>5. QED
    BY <1>1, <1>3, <1>4

\* Queueing a new segment behind the others.
LEMMA PushTypes ==
    ASSUME NEW segs \in Seq(PendingSegment), NEW id \in Nat
    PROVE  /\ push(segs, id) \in Seq(PendingSegment)
           /\ Len(push(segs, id)) = Len(segs) + 1
           /\ \A i \in 1 .. Len(segs) : push(segs, id)[i] = segs[i]
           /\ push(segs, id)[Len(segs) + 1].age = 0
           /\ push(segs, id)[Len(segs) + 1].retries = 0
  <1> DEFINE new == [id |-> id, age |-> 0, retries |-> 0, waited |-> 0]
  <1>1. new \in PendingSegment /\ new.age = 0 /\ new.retries = 0
    BY DEF PendingSegment
  <1> HIDE DEF new
  <1>2. push(segs, id) = Append(segs, new)
    BY DEF push, new
  <1>3. QED
    BY <1>1, <1>2, AppendProperties

\* Of two segments of a queue the older one has been resent at least as often,
\* and if no more often, it was sent first.
Ordered(segs) ==
    \A j \in 1 .. Len(segs) : \A i \in 1 .. j :
        /\ segs[i].retries >= segs[j].retries
        /\ segs[i].retries = segs[j].retries => segs[i].age >= segs[j].age

OrderInv == \A c \in Conn : Ordered(queue[c])

\* What an ACK and a reply leave of a queue: its order, and nothing but old
\* segments and perhaps a fresh one.
LEMMA PacketQueue ==
    ASSUME NEW segs \in Seq(PendingSegment), NEW n \in 0 .. Len(segs), NEW id \in Nat, NEW rest,
           LET kept == SubSeq(segs, n + 1, Len(segs)) IN rest = kept \/ rest = push(kept, id)
    PROVE  /\ rest \in Seq(PendingSegment)
           /\ \A i \in 1 .. Len(rest) : (\E k \in 1 .. Len(segs) : rest[i] = segs[k]) \/ rest[i].age = 0
           /\ Ordered(segs) => Ordered(rest)
  <1> DEFINE kept == SubSeq(segs, n + 1, Len(segs))
  <1>1. /\ kept \in Seq(PendingSegment) /\ Len(kept) = Len(segs) - n
        /\ \A i \in 1 .. (Len(segs) - n) : n + i \in 1 .. Len(segs) /\ kept[i] = segs[n + i]
    BY DropTypes
  <1>2. Len(segs) \in Nat /\ Len(kept) \in Nat
    BY <1>1, LenProperties
  <1> HIDE DEF kept
  <1>3. \A i \in 1 .. Len(kept) : kept[i].age \in Nat /\ kept[i].retries \in Nat
    <2>1. \A i \in 1 .. Len(kept) : kept[i] \in PendingSegment
      BY <1>1, ElementOfSeq
    <2>2. QED
      BY <2>1, SegmentFields
  <1>4. ASSUME Ordered(segs) PROVE Ordered(kept)
    <2> SUFFICES ASSUME NEW j \in 1 .. Len(kept), NEW i \in 1 .. j
                 PROVE  /\ kept[i].retries >= kept[j].retries
                        /\ kept[i].retries = kept[j].retries => kept[i].age >= kept[j].age
      BY DEF Ordered
    <2>1. /\ kept[i] = segs[n + i] /\ kept[j] = segs[n + j]
          /\ n + j \in 1 .. Len(segs) /\ n + i \in 1 .. (n + j)
      BY <1>1, <1>2
    <2>2. QED
      BY <1>4, <2>1 DEF Ordered
  <1>5. CASE rest = kept
    BY <1>1, <1>4, <1>5
  <1>6. CASE rest = push(kept, id)
    <2>1. /\ rest \in Seq(PendingSegment) /\ Len(rest) = Len(kept) + 1
          /\ \A i \in 1 .. Len(kept) : rest[i] = kept[i]
          /\ rest[Len(kept) + 1].age = 0 /\ rest[Len(kept) + 1].retries = 0
      BY <1>1, <1>6, PushTypes, Zenon
    <2>2. \A i \in 1 .. Len(rest) : i \in 1 .. Len(kept) \/ i = Len(kept) + 1
      BY <1>2, <2>1
    <2>3. \A i \in 1 .. Len(rest) : (\E k \in 1 .. Len(segs) : rest[i] = segs[k]) \/ rest[i].age = 0
      BY <1>1, <2>1, <2>2, Zenon
    <2>4. ASSUME Ordered(segs) PROVE Ordered(rest)
      <3> SUFFICES ASSUME NEW j \in 1 .. Len(rest), NEW i \in 1 .. j
                   PROVE  /\ rest[i].retries >= rest[j].retries
                          /\ rest[i].retries = rest[j].retries => rest[i].age >= rest[j].age
        BY DEF Ordered
      <3>1. CASE j \in 1 .. Len(kept)
        <4>1. i \in 1 .. Len(kept)
          BY <1>2, <3>1
        <4>2. QED
          BY <1>4, <2>1, <2>4, <3>1, <4>1 DEF Ordered
      <3>2. CASE j = Len(kept) + 1
        <4>1. rest[i].retries \in Nat /\ rest[i].age \in Nat
          <5>1. i \in 1 .. Len(rest)
            BY <1>2, <2>1
          <5>2. rest[i] \in PendingSegment
            BY <2>1, <5>1, ElementOfSeq
          <5>3. QED
            BY <5>2, SegmentFields
        <4>2. QED
          BY <2>1, <3>2, <4>1
      <3>3. QED
        BY <2>2, <3>1, <3>2
    <2>5. QED
      BY <2>1, <2>3, <2>4
  <1>7. QED
    BY <1>5, <1>6 DEF kept

\* A segment that is resent, or has waited one tick more.
LEMMA SegmentSteps ==
    ASSUME NEW seg \in PendingSegment
    PROVE  /\ retransmit_info(seg) \in PendingSegment
           /\ retransmit_info(seg).retries = seg.retries + 1 /\ retransmit_info(seg).age = 0
  <1> DEFINE counted == [seg EXCEPT !.retries = seg.retries + 1]
  <1>1. retransmit_info(seg) = [counted EXCEPT !.age = 0]
    BY DEF PendingSegment, retransmit_info
  <1>2. counted \in PendingSegment
    BY DEF PendingSegment
  <1> HIDE DEF counted
  <1>3. [counted EXCEPT !.age = 0] \in PendingSegment
    BY <1>2 DEF PendingSegment
  <1>4. retransmit_info(seg).retries = seg.retries + 1 /\ retransmit_info(seg).age = 0
    BY DEF PendingSegment, retransmit_info
  <1>5. QED
    BY <1>1, <1>3, <1>4

\* make_retransmissions on one queue: an older segment is due whenever a younger
\* one with as many retries is, so the order stays.
LEMMA ResendQueue ==
    ASSUME NEW segs \in Seq(PendingSegment), NEW resent,
           resent = [i \in DOMAIN segs |-> IF IsDue(segs[i]) THEN retransmit_info(segs[i]) ELSE segs[i]]
    PROVE  /\ resent \in Seq(PendingSegment)
           /\ \A i \in 1 .. Len(resent) : (\E k \in 1 .. Len(segs) : resent[i] = segs[k]) \/ resent[i].age = 0
           /\ Ordered(segs) => Ordered(resent)
  <1>1. /\ DOMAIN segs = 1 .. Len(segs) /\ Len(segs) \in Nat
        /\ \A i \in 1 .. Len(segs) : segs[i] \in PendingSegment
    BY LenProperties, ElementOfSeq
  <1>2. \A i \in 1 .. Len(segs) :
           /\ resent[i] = (IF IsDue(segs[i]) THEN retransmit_info(segs[i]) ELSE segs[i])
           /\ resent[i] \in PendingSegment
    BY <1>1, SegmentSteps
  <1>3. resent \in [1 .. Len(segs) -> PendingSegment]
    BY <1>1, <1>2
  <1>4. resent \in Seq(PendingSegment) /\ Len(resent) = Len(segs)
    BY <1>1, <1>3, IsASeq, LenProperties
  <1>5. \A i \in 1 .. Len(resent) : (\E k \in 1 .. Len(segs) : resent[i] = segs[k]) \/ resent[i].age = 0
    BY <1>1, <1>2, <1>4, SegmentSteps
  <1>6. ASSUME Ordered(segs) PROVE Ordered(resent)
    <2> SUFFICES ASSUME NEW j \in 1 .. Len(segs), NEW i \in 1 .. j
                 PROVE  /\ resent[i].retries >= resent[j].retries
                        /\ resent[i].retries = resent[j].retries => resent[i].age >= resent[j].age
      BY <1>4 DEF Ordered
    <2>1. i \in 1 .. Len(segs)
      BY <1>1
    <2>2. /\ segs[i].retries >= segs[j].retries
          /\ segs[i].retries = segs[j].retries => segs[i].age >= segs[j].age
      BY <1>6 DEF Ordered
    <2>3. /\ segs[i].retries \in Nat /\ segs[i].age \in Nat
          /\ segs[j].retries \in Nat /\ segs[j].age \in Nat
      BY <1>1, <2>1, SegmentFields
    <2>4. segs[i].retries = segs[j].retries /\ IsDue(segs[j]) => IsDue(segs[i])
      <3> SUFFICES ASSUME segs[i].retries = segs[j].retries, IsDue(segs[j]) PROVE IsDue(segs[i])
        OBVIOUS
      <3>1. Rto(segs[j].retries) \in Nat /\ Rto(segs[i].retries) = Rto(segs[j].retries)
        BY <2>3, RtoBounds, Zenon
      <3>2. QED
        BY <2>2, <2>3, <3>1 DEF IsDue, time_due
    <2>5. /\ resent[i].retries = segs[i].retries + (IF IsDue(segs[i]) THEN 1 ELSE 0)
          /\ resent[i].age = (IF IsDue(segs[i]) THEN 0 ELSE segs[i].age)
          /\ resent[j].retries = segs[j].retries + (IF IsDue(segs[j]) THEN 1 ELSE 0)
          /\ resent[j].age = (IF IsDue(segs[j]) THEN 0 ELSE segs[j].age)
      BY <1>1, <1>2, <2>1, <2>3, SegmentSteps
    <2>6. QED
      BY <2>2, <2>3, <2>4, <2>5
  <1>7. QED
    BY <1>4, <1>5, <1>6, Zenon

\* A tick on one queue: every segment is one tick nearer its deadline.
Aged(seg) == [seg EXCEPT !.age = @ + 1,
                         !.waited = IF @ < Schedule(MaxRetries + 1) THEN @ + 1 ELSE @]

LEMMA AgedSegment ==
    ASSUME NEW seg \in PendingSegment
    PROVE  /\ Aged(seg) \in PendingSegment
           /\ Aged(seg).age = seg.age + 1 /\ Aged(seg).retries = seg.retries
           /\ time_due(Aged(seg)) = time_due(seg) - 1
  <1> DEFINE waited == IF seg.waited < Schedule(MaxRetries + 1) THEN seg.waited + 1 ELSE seg.waited
             older == [seg EXCEPT !.age = seg.age + 1]
  <1>1. seg.age \in Nat /\ seg.retries \in Nat /\ waited \in Nat
    BY SegmentFields
  <1>2. Aged(seg) = [older EXCEPT !.waited = waited]
    BY DEF PendingSegment, Aged
  <1>3. older \in PendingSegment /\ older.age = seg.age + 1 /\ older.retries = seg.retries
    BY <1>1 DEF PendingSegment
  <1> HIDE DEF older, waited
  <1>4. [older EXCEPT !.waited = waited] \in PendingSegment
    BY <1>1, <1>3 DEF PendingSegment
  <1>5. Aged(seg).age = seg.age + 1 /\ Aged(seg).retries = seg.retries
    BY <1>2, <1>3 DEF PendingSegment
  <1>6. Rto(seg.retries) \in Nat
    BY <1>1, RtoBounds
  <1>7. QED
    BY <1>1, <1>2, <1>4, <1>5, <1>6 DEF time_due

LEMMA AgedQueue ==
    ASSUME NEW segs \in Seq(PendingSegment), NEW aged, aged = [i \in DOMAIN segs |-> Aged(segs[i])]
    PROVE  /\ aged \in Seq(PendingSegment) /\ Len(aged) = Len(segs)
           /\ \A i \in 1 .. Len(segs) : aged[i] = Aged(segs[i])
           /\ Ordered(segs) => Ordered(aged)
  <1>1. /\ DOMAIN segs = 1 .. Len(segs) /\ Len(segs) \in Nat
        /\ \A i \in 1 .. Len(segs) : segs[i] \in PendingSegment
    BY LenProperties, ElementOfSeq
  <1>2. \A i \in 1 .. Len(segs) : aged[i] = Aged(segs[i]) /\ aged[i] \in PendingSegment
    BY <1>1, AgedSegment
  <1>3. aged \in [1 .. Len(segs) -> PendingSegment]
    BY <1>1, <1>2
  <1>4. aged \in Seq(PendingSegment) /\ Len(aged) = Len(segs)
    BY <1>1, <1>3, IsASeq, LenProperties
  <1>5. ASSUME Ordered(segs) PROVE Ordered(aged)
    <2> SUFFICES ASSUME NEW j \in 1 .. Len(segs), NEW i \in 1 .. j
                 PROVE  /\ aged[i].retries >= aged[j].retries
                        /\ aged[i].retries = aged[j].retries => aged[i].age >= aged[j].age
      BY <1>4 DEF Ordered
    <2>1. i \in 1 .. Len(segs)
      BY <1>1
    <2>2. /\ segs[i].retries >= segs[j].retries
          /\ segs[i].retries = segs[j].retries => segs[i].age >= segs[j].age
      BY <1>5 DEF Ordered
    <2>3. /\ aged[i].age = segs[i].age + 1 /\ aged[i].retries = segs[i].retries
          /\ aged[j].age = segs[j].age + 1 /\ aged[j].retries = segs[j].retries
          /\ segs[i].age \in Nat /\ segs[j].age \in Nat
      BY <1>1, <1>2, <2>1, AgedSegment, SegmentFields
    <2>4. QED
      BY <2>2, <2>3
  <1>6. QED
    BY <1>2, <1>4, <1>5

\* A connection's queue, for the invariants at once.
LEMMA QueueTypes ==
    ASSUME TimerInv
    PROVE  /\ queue \in [Conn -> Seq(PendingSegment)] /\ \A c \in Conn : queue[c] \in Seq(PendingSegment)
           /\ sent \in Nat /\ IsOption(shutdown_deadline, Int) /\ running \in BOOLEAN
           /\ \A d \in DeadlinesOf(shutdown_deadline, queue) : d >= -MaxLate
           /\ \A d \in shutdown_deadline : d >= -MaxLate
  BY DEF TimerInv, TimerTypeOK, Deadlines, DeadlinesOf

\* What a step other than a tick makes of one queue.
QueueStep(segs, next) ==
    /\ next \in Seq(PendingSegment)
    /\ \A i \in 1 .. Len(next) : (\E k \in 1 .. Len(segs) : next[i] = segs[k]) \/ next[i].age = 0
    /\ Ordered(segs) => Ordered(next)

\* A step that comes round to poll, or leaves the loop, with such queues keeps both invariants.
LEMMA LoopKeepsInv ==
    ASSUME TimerInv, OrderInv,
           queue' \in [Conn -> Seq(PendingSegment)], \A c \in Conn : QueueStep(queue[c], queue'[c]),
           sent' \in Nat, running' \in BOOLEAN,
           IsOption(shutdown_deadline', Int), \A d \in shutdown_deadline' : d >= -MaxLate,
           Poll \/ (~running' /\ timeout' = {})
    PROVE  (TimerInv /\ OrderInv)'
  <1>1. /\ queue \in [Conn -> Seq(PendingSegment)]
        /\ \A d \in DeadlinesOf(shutdown_deadline, queue) : d >= -MaxLate
    BY QueueTypes
  <1>2. OldOrFresh(queue, queue')
    <2> SUFFICES ASSUME NEW seg \in Segments(queue')
                 PROVE  seg \in Segments(queue) \/ seg.age = 0
      BY DEF OldOrFresh
    <2>1. PICK c \in Conn : \E i \in 1 .. Len(queue'[c]) : seg = queue'[c][i]
      BY SegmentsOf
    <2>2. (\E k \in 1 .. Len(queue[c]) : seg = queue[c][k]) \/ seg.age = 0
      BY <2>1 DEF QueueStep
    <2>3. QED
      BY <1>1, <2>2, SegmentsOf
  <1>3. \A d \in DeadlinesOf(shutdown_deadline', queue') : d >= -MaxLate
    BY <1>1, <1>2, FreshNotOverdue, Zenon
  <1>4. TimerInv'
    BY <1>3, LoopStep
  <1>5. OrderInv'
    BY DEF OrderInv, QueueStep
  <1>6. QED
    BY <1>4, <1>5

\* A queue that is left alone, or removed with its connection.
LEMMA IdleQueue ==
    ASSUME NEW segs \in Seq(PendingSegment)
    PROVE  QueueStep(segs, segs) /\ QueueStep(segs, <<>>)
  <1>1. Len(segs) \in Nat
    BY LenProperties
  <1>2. QED
    BY <1>1 DEF QueueStep, Ordered

-----------------------------------------------------------------------------
(* The actions *)

LEMMA PacketKeepsInv ==
    ASSUME TimerInv, OrderInv, NEW c \in Conn, NEW n \in 0 .. Len(queue[c]), Packet(c, n)
    PROVE  (TimerInv /\ OrderInv)'
  <1> DEFINE kept == SubSeq(queue[c], n + 1, Len(queue[c]))
  <1>1. /\ queue \in [Conn -> Seq(PendingSegment)] /\ \A d \in Conn : queue[d] \in Seq(PendingSegment)
        /\ sent \in Nat /\ IsOption(shutdown_deadline, Int)
        /\ \A d \in shutdown_deadline : d >= -MaxLate
    BY QueueTypes
  <1>2. /\ shutdown_deadline' = shutdown_deadline /\ running' \in BOOLEAN
        /\ Poll \/ (~running' /\ timeout' = {})
    BY Zenon DEF Packet
  <1>3. sent' \in Nat
    BY <1>1 DEF Packet
  <1>4. PICK rest : queue' = [queue EXCEPT ![c] = rest] /\ (rest = kept \/ rest = push(kept, sent + 1))
    BY DEF Packet
  <1>5. sent + 1 \in Nat
    BY <1>1
  <1>6. QueueStep(queue[c], rest)
    BY <1>1, <1>4, <1>5, PacketQueue DEF QueueStep
  <1>7. queue' \in [Conn -> Seq(PendingSegment)]
    BY <1>1, <1>4, <1>6 DEF QueueStep
  <1>8. \A d \in Conn : QueueStep(queue[d], queue'[d])
    BY <1>1, <1>4, <1>6, IdleQueue
  <1>9. QED
    BY <1>1, <1>2, <1>3, <1>7, <1>8, LoopKeepsInv

LEMMA BeginDrainingKeepsInv ==
    ASSUME TimerInv, OrderInv, NEW established \in SUBSET Conn, BeginDraining(established)
    PROVE  (TimerInv /\ OrderInv)'
  <1>1. /\ \A c \in Conn : queue[c] \in Seq(PendingSegment)
        /\ sent \in Nat /\ running \in BOOLEAN
    BY QueueTypes
  <1>2. Cardinality(established) \in Nat
    BY ConnAssumption, FS_Subset, FS_CardinalityType
  <1>3. sent' \in Nat /\ sent + 1 \in Nat /\ running' \in BOOLEAN /\ Poll
    BY <1>1, <1>2 DEF BeginDraining
  <1>4. IsOption(shutdown_deadline', Int) /\ \A d \in shutdown_deadline' : d >= -MaxLate
    BY TimerAssumption DEF BeginDraining, IsOption
  <1>5. ASSUME NEW c \in Conn
        PROVE  QueueStep(queue[c], push(queue[c], sent + 1))
    <2>1. SubSeq(queue[c], 0 + 1, Len(queue[c])) = queue[c] /\ 0 \in 0 .. Len(queue[c])
      BY <1>1, SubSeqFull, LenProperties
    <2>2. QueueStep(queue[c], push(SubSeq(queue[c], 0 + 1, Len(queue[c])), sent + 1))
      <3> DEFINE rest == push(SubSeq(queue[c], 0 + 1, Len(queue[c])), sent + 1)
      <3>1. /\ rest \in Seq(PendingSegment)
            /\ \A i \in 1 .. Len(rest) :
                  (\E k \in 1 .. Len(queue[c]) : rest[i] = queue[c][k]) \/ rest[i].age = 0
            /\ Ordered(queue[c]) => Ordered(rest)
        BY <1>1, <1>3, <2>1, PacketQueue
      <3> HIDE DEF rest
      <3>2. QueueStep(queue[c], rest)
        BY <3>1 DEF QueueStep
      <3>3. QED
        BY <3>2 DEF rest
    <2>3. QED
      BY <2>1, <2>2, Zenon
  <1>6. \A c \in Conn : queue'[c] = IF c \in established THEN push(queue[c], sent + 1) ELSE queue[c]
    BY DEF BeginDraining
  <1>7. \A c \in Conn : QueueStep(queue[c], queue'[c])
    BY <1>1, <1>5, <1>6, IdleQueue
  <1>8. queue' \in [Conn -> Seq(PendingSegment)]
    BY <1>7 DEF BeginDraining, QueueStep
  <1>9. QED
    BY <1>3, <1>4, <1>7, <1>8, LoopKeepsInv

LEMMA TimesOutKeepsInv ==
    ASSUME TimerInv, OrderInv, TimesOut
    PROVE  (TimerInv /\ OrderInv)'
  <1>1. /\ \A c \in Conn : queue[c] \in Seq(PendingSegment)
        /\ sent \in Nat /\ running \in BOOLEAN /\ IsOption(shutdown_deadline, Int)
        /\ \A d \in shutdown_deadline : d >= -MaxLate
    BY QueueTypes
  <1>2. /\ sent' = sent /\ shutdown_deadline' = shutdown_deadline /\ running' = running /\ Poll
        /\ make_retransmissions
    BY DEF TimesOut
  <1>3. ASSUME NEW c \in Conn
        PROVE  QueueStep(queue[c], queue'[c])
    <2> DEFINE resent == [i \in DOMAIN queue[c] |->
                             IF IsDue(queue[c][i]) THEN retransmit_info(queue[c][i]) ELSE queue[c][i]]
    <2>1. queue'[c] = <<>> \/ queue'[c] = resent
      BY <1>2 DEF make_retransmissions
    <2>2. QueueStep(queue[c], resent)
      BY <1>1, ResendQueue DEF QueueStep
    <2>3. QueueStep(queue[c], <<>>)
      BY <1>1, IdleQueue
    <2> HIDE DEF resent
    <2>4. QED
      BY <2>1, <2>2, <2>3
  <1>4. queue' \in [Conn -> Seq(PendingSegment)]
    <2>1. \A c \in Conn : queue'[c] \in Seq(PendingSegment)
      BY <1>3 DEF QueueStep
    <2>2. queue' = [c \in Conn |-> queue'[c]]
      BY <1>2 DEF make_retransmissions
    <2>3. QED
      BY <2>1, <2>2
  <1>5. QED
    BY <1>1, <1>2, <1>3, <1>4, LoopKeepsInv

\* A tick moves every deadline, and the rest of poll's timeout with them.
LEMMA TickKeepsInv ==
    ASSUME TimerInv, OrderInv, Tick
    PROVE  (TimerInv /\ OrderInv)'
  <1>1. /\ queue \in [Conn -> Seq(PendingSegment)] /\ \A c \in Conn : queue[c] \in Seq(PendingSegment)
        /\ sent \in Nat /\ running \in BOOLEAN /\ IsOption(shutdown_deadline, Int)
    BY QueueTypes
  <1>2. /\ running /\ running' = running /\ sent' = sent
        /\ shutdown_deadline' = {deadline - 1 : deadline \in shutdown_deadline}
        /\ timeout' = {Max({t - 1, 0}) : t \in timeout}
        /\ Deadlines # {} /\ \A deadline \in Deadlines : deadline > -MaxLate
    BY Zenon DEF Tick
  <1>3. queue' = [c \in Conn |-> [i \in DOMAIN queue[c] |-> Aged(queue[c][i])]]
    BY Zenon DEF Tick, Aged
  <1>4. ASSUME NEW c \in Conn
        PROVE  /\ queue'[c] \in Seq(PendingSegment) /\ Len(queue'[c]) = Len(queue[c])
               /\ \A i \in 1 .. Len(queue[c]) : queue'[c][i] = Aged(queue[c][i])
               /\ Ordered(queue[c]) => Ordered(queue'[c])
    <2>1. queue'[c] = [i \in DOMAIN queue[c] |-> Aged(queue[c][i])]
      BY <1>3
    <2>2. QED
      BY <1>1, <2>1, AgedQueue
  <1>5. queue' \in [Conn -> Seq(PendingSegment)]
    <2>1. queue' = [c \in Conn |-> queue'[c]]
      BY <1>3
    <2>2. QED
      BY <1>4, <2>1
  <1>6. /\ Deadlines \subseteq Int /\ Deadlines' \subseteq Int
        /\ \A d \in Deadlines : d - 1 \in Deadlines'
        /\ \A d \in Deadlines' : d + 1 \in Deadlines
    <2>1. /\ \A seg \in Segments(queue) : Aged(seg) \in Segments(queue') /\ seg \in PendingSegment
          /\ \A seg \in Segments(queue') : \E old \in Segments(queue) : seg = Aged(old)
      <3>1. ASSUME NEW seg \in Segments(queue)
            PROVE  Aged(seg) \in Segments(queue') /\ seg \in PendingSegment
        <4>1. PICK c \in Conn : \E i \in 1 .. Len(queue[c]) : seg = queue[c][i]
          BY <1>1, SegmentsOf
        <4>2. \E i \in 1 .. Len(queue'[c]) : Aged(seg) = queue'[c][i]
          BY <1>4, <4>1
        <4>3. QED
          BY <1>1, <1>5, <4>2, SegmentsOf
      <3>2. ASSUME NEW seg \in Segments(queue')
            PROVE  \E old \in Segments(queue) : seg = Aged(old)
        <4>1. PICK c \in Conn : \E i \in 1 .. Len(queue'[c]) : seg = queue'[c][i]
          BY <1>5, SegmentsOf
        <4>2. PICK i \in 1 .. Len(queue[c]) : seg = Aged(queue[c][i])
          BY <1>4, <4>1
        <4>3. queue[c][i] \in Segments(queue)
          BY <1>1, SegmentsOf
        <4>4. QED
          BY <4>2, <4>3
      <3>3. QED
        BY <3>1, <3>2
    <2>2. \A seg \in Segments(queue) : time_due(seg) \in Int /\ time_due(Aged(seg)) = time_due(seg) - 1
      BY <2>1, DueType, AgedSegment
    <2>3. Deadlines' = shutdown_deadline' \cup {time_due(seg) : seg \in Segments(queue')}
      BY DEF Deadlines
    <2>4. \A d \in shutdown_deadline : d \in Int
      BY <1>1 DEF IsOption
    <2>5. Deadlines \subseteq Int
      BY <2>2, <2>4 DEF Deadlines
    <2>6. ASSUME NEW d \in Deadlines PROVE d - 1 \in Deadlines'
      <3>1. CASE d \in shutdown_deadline
        BY <1>2, <2>3, <3>1
      <3>2. CASE \E seg \in Segments(queue) : d = time_due(seg)
        BY <2>1, <2>2, <2>3, <3>2
      <3>3. QED
        BY <3>1, <3>2 DEF Deadlines
    <2>7. ASSUME NEW d \in Deadlines' PROVE d \in Int /\ d + 1 \in Deadlines
      <3>1. CASE d \in shutdown_deadline'
        <4>1. PICK e \in shutdown_deadline : d = e - 1
          BY <1>2, <3>1
        <4>2. e \in Int /\ d + 1 = e
          BY <2>4, <4>1
        <4>3. QED
          BY <4>1, <4>2 DEF Deadlines
      <3>2. CASE \E seg \in Segments(queue') : d = time_due(seg)
        <4>1. PICK old \in Segments(queue) : d = time_due(old) - 1
          BY <2>1, <2>2, <3>2
        <4>2. time_due(old) \in Int /\ d + 1 = time_due(old)
          BY <2>2, <4>1
        <4>3. QED
          BY <4>1, <4>2 DEF Deadlines
      <3>3. QED
        BY <2>3, <3>1, <3>2
    <2>8. QED
      BY <2>5, <2>6, <2>7
  <1>7. \A d \in Deadlines' : d >= -MaxLate
    <2> SUFFICES ASSUME NEW d \in Deadlines' PROVE d >= -MaxLate
      OBVIOUS
    <2>1. d + 1 > -MaxLate /\ d \in Int
      BY <1>2, <1>6
    <2>2. QED
      BY <2>1, TimerAssumption
  <1>8. Min(Deadlines) \in Int /\ Min(Deadlines') = Min(Deadlines) - 1 /\ Deadlines' # {}
    <2>1. -MaxLate \in Int /\ \A d \in Deadlines : d >= -MaxLate
      BY TimerAssumption DEF TimerInv
    <2>2. Min(Deadlines) \in Deadlines /\ \A d \in Deadlines : Min(Deadlines) <= d
      BY <1>2, <1>6, <2>1, MinOfBounded, Zenon
    <2>3. /\ Min(Deadlines) - 1 \in Deadlines'
          /\ \A d \in Deadlines' : Min(Deadlines) - 1 <= d
      <3>1. Min(Deadlines) - 1 \in Deadlines' /\ Min(Deadlines) \in Int
        BY <1>6, <2>2, Zenon
      <3>2. ASSUME NEW d \in Deadlines' PROVE Min(Deadlines) - 1 <= d
        <4>1. d \in Int /\ Min(Deadlines) <= d + 1
          BY <1>6, <2>2
        <4>2. QED
          BY <3>1, <4>1
      <3>3. QED
        BY <3>1, <3>2
    <2>4. QED
      BY <1>6, <2>2, <2>3, MinIs, Zenon
  <1>9. /\ timeout # {} /\ IsOption(timeout, Nat)
        /\ \A t \in timeout : Max({0, Min(Deadlines)}) - t \in 0 .. (TicksPerMs - 1)
    BY <1>2, Zenon DEF TimerInv, PollIsPunctual, TimerTypeOK
  <1>10. PICK t \in timeout : timeout = {t} /\ t \in Nat
    BY <1>9, Zenon DEF IsOption
  <1>11. Max({t - 1, 0}) \in Nat /\ timeout' = {Max({t - 1, 0})}
    <2>1. t - 1 \in Int
      BY <1>10
    <2>2. Max({t - 1, 0}) = IF t - 1 > 0 THEN t - 1 ELSE 0
      BY <2>1, MaxZero
    <2>3. QED
      BY <1>2, <1>10, <2>1, <2>2
  <1>12. Max({0, Min(Deadlines')}) - Max({t - 1, 0}) \in 0 .. (TicksPerMs - 1)
    <2> DEFINE m == Min(Deadlines)
    <2>1. m \in Int /\ m - 1 \in Int /\ t - 1 \in Int /\ t \in Nat /\ TicksPerMs \in Nat \ {0}
      BY <1>8, <1>10, TimerAssumption
    <2>2. /\ Max({0, m}) = IF m > 0 THEN m ELSE 0
          /\ Max({0, m - 1}) = IF m - 1 > 0 THEN m - 1 ELSE 0
          /\ Max({t - 1, 0}) = IF t - 1 > 0 THEN t - 1 ELSE 0
      BY <2>1, MaxZero
    <2>3. Max({0, m}) - t \in 0 .. (TicksPerMs - 1)
      BY <1>9, <1>10
    <2> HIDE DEF m
    <2>4. Max({0, m - 1}) - Max({t - 1, 0}) \in 0 .. (TicksPerMs - 1)
      BY <2>1, <2>2, <2>3
    <2>5. QED
      BY <1>8, <2>4 DEF m
  <1>13. IsOption(timeout', Nat)
    BY <1>11 DEF IsOption
  <1>14. IsOption(shutdown_deadline', Int)
    BY <1>1, <1>2 DEF IsOption
  <1>15. PollIsPunctual'
    BY <1>8, <1>11, <1>12 DEF PollIsPunctual
  <1>16. TimerInv'
    BY <1>1, <1>2, <1>5, <1>7, <1>13, <1>14, <1>15 DEF TimerInv, TimerTypeOK
  <1>17. OrderInv'
    BY <1>4 DEF OrderInv
  <1>18. QED
    BY <1>16, <1>17

-----------------------------------------------------------------------------
(* The invariants *)

LEMMA TimerInitInv ==
    ASSUME TimerInit
    PROVE  TimerInv /\ OrderInv
  <1>1. queue \in [Conn -> Seq(PendingSegment)] /\ \A c \in Conn : Len(queue[c]) = 0
    BY DEF TimerInit
  <1>2. Segments(queue) = {}
    BY <1>1, SegmentsOf
  <1>3. Deadlines = {}
    BY <1>2 DEF Deadlines, TimerInit
  <1>4. TimerInv
    BY <1>1, <1>3 DEF TimerInv, TimerTypeOK, PollIsPunctual, IsOption, TimerInit
  <1>5. OrderInv
    BY <1>1 DEF OrderInv, Ordered
  <1>6. QED
    BY <1>4, <1>5

LEMMA TimerNextInv ==
    ASSUME TimerInv, OrderInv, [TimerNext]_timerVars
    PROVE  (TimerInv /\ OrderInv)'
  <1>1. /\ queue \in [Conn -> Seq(PendingSegment)] /\ \A c \in Conn : QueueStep(queue[c], queue[c])
        /\ sent \in Nat /\ IsOption(shutdown_deadline, Int) /\ running \in BOOLEAN
        /\ \A d \in shutdown_deadline : d >= -MaxLate
    BY QueueTypes, IdleQueue
  <1>2. CASE \E c \in Conn : \E n \in 0 .. Len(queue[c]) : Packet(c, n)
    BY <1>2, PacketKeepsInv
  <1>3. CASE \E established \in SUBSET Conn : BeginDraining(established)
    BY <1>3, BeginDrainingKeepsInv
  <1>4. CASE NoConnections
    BY <1>1, <1>4, LoopKeepsInv, Zenon DEF NoConnections
  <1>5. CASE Interrupted
    BY <1>1, <1>5, LoopKeepsInv DEF Interrupted
  <1>6. CASE GracePeriodElapsed
    BY <1>1, <1>6, LoopKeepsInv, Zenon DEF GracePeriodElapsed
  <1>7. CASE TimesOut
    BY <1>7, TimesOutKeepsInv
  <1>8. CASE Tick
    BY <1>8, TickKeepsInv
  <1>9. CASE UNCHANGED timerVars
    BY <1>9, Zenon DEF timerVars, TimerInv, OrderInv, TimerTypeOK, PollIsPunctual, Deadlines
  <1>10. QED
    BY <1>2, <1>3, <1>4, <1>5, <1>6, <1>7, <1>8, <1>9 DEF TimerNext

LEMMA TimerInvariant == TimerSpec => [](TimerInv /\ OrderInv)
  <1>1. TimerInit => TimerInv /\ OrderInv
    BY TimerInitInv
  <1>2. TimerInv /\ OrderInv /\ [TimerNext]_timerVars => (TimerInv /\ OrderInv)'
    BY TimerNextInv
  <1>3. QED
    BY <1>1, <1>2, PTL DEF TimerSpec

\* The queues hold well-formed segments, and the timeout handed to poll is a
\* duration, never a negative number that poll would read as "block".
THEOREM TimeoutNeverNegative == TimerSpec => []TimerTypeOK
  <1>1. TimerInv => TimerTypeOK
    BY DEF TimerInv
  <1>2. QED
    BY <1>1, TimerInvariant, PTL

\* The loop never sleeps past the retransmission or shutdown deadline, and wakes
\* less than a millisecond before it.
THEOREM NeverOversleeps == TimerSpec => []PollIsPunctual
  <1>1. TimerInv => PollIsPunctual
    BY DEF TimerInv
  <1>2. QED
    BY <1>1, TimerInvariant, PTL

\* make_retransmissions never skips an older segment with as few retries as one
\* it resends.
THEOREM NoneOvertaken == TimerSpec => []OlderDueFirst
  <1>1. TimerInv /\ OrderInv => OlderDueFirst
    <2> SUFFICES ASSUME TimerInv, OrderInv, NEW c \in Conn, NEW j \in DOMAIN queue[c], NEW i \in 1 .. j,
                        queue[c][i].retries <= queue[c][j].retries
                 PROVE  time_due(queue[c][i]) <= time_due(queue[c][j])
      BY DEF OlderDueFirst
    <2>1. queue[c] \in Seq(PendingSegment)
      BY QueueTypes
    <2>2. Len(queue[c]) \in Nat /\ j \in 1 .. Len(queue[c]) /\ i \in 1 .. Len(queue[c])
      BY <2>1, LenProperties
    <2>3. queue[c][i] \in PendingSegment /\ queue[c][j] \in PendingSegment
      BY <2>1, <2>2, ElementOfSeq
    <2>4. /\ queue[c][i].age \in Nat /\ queue[c][i].retries \in Nat
          /\ queue[c][j].age \in Nat /\ queue[c][j].retries \in Nat
      BY <2>3, SegmentFields
    <2>5. /\ queue[c][i].retries >= queue[c][j].retries
          /\ queue[c][i].retries = queue[c][j].retries => queue[c][i].age >= queue[c][j].age
      BY <2>2 DEF OrderInv, Ordered
    <2>6. queue[c][i].retries = queue[c][j].retries /\ queue[c][i].age >= queue[c][j].age
      BY <2>4, <2>5
    <2>7. Rto(queue[c][j].retries) \in Nat
      BY <2>4, RtoBounds
    <2>8. QED
      BY <2>4, <2>6, <2>7 DEF time_due
  <1>2. QED
    BY <1>1, TimerInvariant, PTL

=============================================================================
