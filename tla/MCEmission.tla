----------------------------- MODULE MCEmission -----------------------------
(* Two sales: the first is requested twice, the second once.               *)
EXTENDS Emission, TLC

CONSTANTS a1, a2, b1, first, second

MCSaleOf == [a \in Attempt |-> IF a = b1 THEN second ELSE first]
=============================================================================
