----------------------------- MODULE MCP4Server -----------------------------
(* Instances of P4Server for TLC. *)
EXTENDS P4Server

(* Properties of nine bits, which take two bytes: each is given by the set *)
(* of its bits that are 1.  These two differ in their last bit only.       *)
Bits(S) == [k \in 1 .. 9 |-> IF k \in S THEN 1 ELSE 0]
TwoProperties == {Bits({}), Bits({9})}

TwoNames == 1 .. 2
TwoPlaces == {<<0, 0>>, <<3, -4>>}
=============================================================================
