------------------------------ MODULE SeqSpace ------------------------------
(***************************************************************************)
(* TCP sequence-number arithmetic (src/src/protocol/tcp/seq_space.rs).     *)
(* SeqPoint wraps a u32, so the space is the integers modulo 2^32; the     *)
(* model writes 2^32 as 2 * Half, with Half a parameter (2^31 in the       *)
(* code), so that wraparound happens within a small instance.              *)
(***************************************************************************)
EXTENDS Integers

CONSTANT Half

ASSUME HalfAssumption == Half \in Nat \ {0}

Modulus == 2 * Half

SeqPoint == 0 .. (Modulus - 1)

\* Addition that does not wrap.
Add_NoWrap(point, n) == point + n

\* Wrapping addition of an offset to a point.
Add(point, n) == (point + n) % Modulus

\* Wrapping subtraction: how far `a` lies past `b`, going upwards.
Sub(a, b) == (a - b) % Modulus

precedes(a, b) == Sub(a, b) >= Half

precedes_or_eq(a, b) == a = b \/ precedes(a, b)

\* u32::saturating_sub
saturating_sub(a, b) == IF a > b THEN a - b ELSE 0

=============================================================================
