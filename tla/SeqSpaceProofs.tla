---------------------------- MODULE SeqSpaceProofs ----------------------------
(***************************************************************************)
(* What the wrapping operations and comparisons of SeqSpace compute, for   *)
(* every size of the sequence space.                                       *)
(***************************************************************************)
EXTENDS SeqSpace, TLAPS

\* Wrapping addition, without the modulus, for an offset below the modulus.
LEMMA AddValue ==
    ASSUME NEW a \in SeqPoint, NEW n \in 0 .. (Modulus - 1)
    PROVE  Add(a, n) = IF a + n < Modulus THEN a + n ELSE a + n - Modulus
  BY HalfAssumption DEF Add, Modulus, SeqPoint

\* Wrapping subtraction, without the modulus.
LEMMA SubValue ==
    ASSUME NEW a \in SeqPoint, NEW b \in SeqPoint
    PROVE  Sub(a, b) = IF a >= b THEN a - b ELSE a - b + Modulus
  BY HalfAssumption DEF Sub, Modulus, SeqPoint

\* Add yields a point of the space for any offset.
LEMMA AddType ==
    ASSUME NEW a \in SeqPoint, NEW n \in Int
    PROVE  Add(a, n) \in SeqPoint
  BY HalfAssumption DEF Add, Modulus, SeqPoint

\* Sub yields an offset below the modulus.
LEMMA SubType ==
    ASSUME NEW a \in SeqPoint, NEW b \in SeqPoint
    PROVE  Sub(a, b) \in 0 .. (Modulus - 1)
  BY SubValue, HalfAssumption DEF Modulus, SeqPoint

\* Sub undoes Add.
LEMMA SubAdd ==
    ASSUME NEW a \in SeqPoint, NEW n \in 0 .. (Modulus - 1)
    PROVE  Sub(Add(a, n), a) = n
  <1>1. Add(a, n) \in SeqPoint
    BY AddType, HalfAssumption DEF Modulus
  <1>2. Sub(Add(a, n), a) = IF Add(a, n) >= a THEN Add(a, n) - a ELSE Add(a, n) - a + Modulus
    BY <1>1, SubValue
  <1>3. QED
    BY <1>1, <1>2, AddValue, HalfAssumption DEF Modulus, SeqPoint

\* Add undoes Sub.
LEMMA AddSub ==
    ASSUME NEW a \in SeqPoint, NEW b \in SeqPoint
    PROVE  Add(b, Sub(a, b)) = a
  <1>1. Sub(a, b) \in 0 .. (Modulus - 1)
    BY SubType
  <1>2. Add(b, Sub(a, b)) = IF b + Sub(a, b) < Modulus THEN b + Sub(a, b)
                            ELSE b + Sub(a, b) - Modulus
    BY <1>1, AddValue
  <1>3. QED
    BY <1>1, <1>2, SubValue, HalfAssumption DEF Modulus, SeqPoint

\* Successive additions add up, as long as they do not go all the way round.
LEMMA AddAdd ==
    ASSUME NEW a \in SeqPoint, NEW m \in Nat, NEW n \in Nat, m + n < Modulus
    PROVE  Add(Add(a, m), n) = Add(a, m + n)
  <1>1. Modulus \in Nat /\ m \in 0 .. (Modulus - 1) /\ n \in 0 .. (Modulus - 1)
        /\ m + n \in 0 .. (Modulus - 1)
    BY HalfAssumption DEF Modulus
  <1>2. Add(a, m) \in SeqPoint
    BY AddType
  <1>3. Add(a, m) = IF a + m < Modulus THEN a + m ELSE a + m - Modulus
    BY <1>1, AddValue
  <1>4. Add(a, m + n) = IF a + (m + n) < Modulus THEN a + (m + n) ELSE a + (m + n) - Modulus
    BY <1>1, AddValue
  <1>5. Add(Add(a, m), n) = IF Add(a, m) + n < Modulus THEN Add(a, m) + n
                            ELSE Add(a, m) + n - Modulus
    BY <1>1, <1>2, AddValue
  <1>6. QED
    BY <1>1, <1>2, <1>3, <1>4, <1>5 DEF SeqPoint

\* The offset between two points seen from a third one that is not after `b`.
LEMMA SubSplit ==
    ASSUME NEW a \in SeqPoint, NEW b \in SeqPoint, NEW base \in SeqPoint,
           Sub(b, base) <= Sub(a, base)
    PROVE  Sub(a, b) = Sub(a, base) - Sub(b, base)
  BY SubValue, HalfAssumption DEF Modulus, SeqPoint

\* Two points less than half the space apart, seen from a common base, compare
\* as their offsets do: SeqPoint::precedes is the intended order there.
THEOREM PrecedesIsOrder ==
    ASSUME NEW a \in SeqPoint, NEW b \in SeqPoint, NEW base \in SeqPoint,
           Sub(a, base) - Sub(b, base) < Half,
           Sub(b, base) - Sub(a, base) < Half
    PROVE  /\ precedes(a, b) <=> Sub(a, base) < Sub(b, base)
           /\ precedes_or_eq(a, b) <=> Sub(a, base) <= Sub(b, base)
  BY SubValue, HalfAssumption DEF precedes, precedes_or_eq, Modulus, SeqPoint

\* The test SND.UNA =< SEG.ACK =< SND.NXT of incoming_ack_update accepts exactly
\* the ACK numbers between the two, and one more: the antipode of SND.UNA when
\* nothing is in flight, which the wrapping comparison puts on both sides.
THEOREM AckWindowIsExact ==
    ASSUME NEW una \in SeqPoint, NEW nxt \in SeqPoint, NEW ack \in SeqPoint,
           Sub(nxt, una) < Half
    PROVE  (precedes_or_eq(una, ack) /\ precedes_or_eq(ack, nxt))
              <=> \/ Sub(ack, una) <= Sub(nxt, una)
                  \/ una = nxt /\ ack = Add(una, Half)
  <1>1. Half \in 0 .. (Modulus - 1)
    BY HalfAssumption DEF Modulus
  <1>2. Add(una, Half) = IF una + Half < Modulus THEN una + Half ELSE una + Half - Modulus
    BY <1>1, AddValue
  <1>3. precedes_or_eq(una, ack) <=> Sub(ack, una) <= Half
    BY SubValue, HalfAssumption DEF precedes_or_eq, precedes, Modulus, SeqPoint
  <1>4. precedes_or_eq(ack, nxt) <=> Sub(nxt, ack) <= Half
    BY SubValue, HalfAssumption DEF precedes_or_eq, precedes, Modulus, SeqPoint
  <1>5. QED
    BY <1>2, <1>3, <1>4, SubValue, HalfAssumption DEF Modulus, SeqPoint

=============================================================================
