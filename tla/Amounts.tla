------------------------------- MODULE Amounts ------------------------------
(***************************************************************************)
(* Arithmetic of amounts. Python's round() goes to the even neighbour of a *)
(* half; the Decimal amounts of the code use ROUND_HALF_UP. A rational is  *)
(* given by its numerator and a positive denominator. The quotients the    *)
(* code takes in floating point meet a half exactly or not at all.         *)
(***************************************************************************)
EXTENDS Integers, Sequences, FiniteSetsExt, TLC

(* None                                                                    *)
NULL == -1

VAT_RATE == 19

(* round(num / den)                                                        *)
RoundHalfEven(num, den) ==
  LET q == num \div den
      r == num % den
  IN  IF 2 * r < den \/ (2 * r = den /\ q % 2 = 0) THEN q ELSE q + 1

(* quantize(..., ROUND_HALF_UP): a half goes away from zero.               *)
RoundHalfUp(num, den) ==
  IF num >= 0 THEN (2 * num + den) \div (2 * den)
              ELSE 0 - ((2 * (0 - num) + den) \div (2 * den))

(* An element that is printed only when it says something, and its value   *)
(* for whoever reads it.                                                   *)
Field(cond, name, value) == [n \in IF cond THEN {name} ELSE {} |-> value]
Printed(r, field) == IF field \in DOMAIN r THEN r[field] ELSE 0

(* What either says; f's word goes first. (A proof cannot expand TLC's @@.) *)
f ++ g == [x \in (DOMAIN f) \cup (DOMAIN g) |-> IF x \in DOMAIN f THEN f[x] ELSE g[x]]
=============================================================================
