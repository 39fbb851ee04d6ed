---------------------------- MODULE MCDelivery ----------------------------
(* Delivery with one client, which opens its connections one after the     *)
(* other.                                                                  *)
EXTENDS Delivery

CONSTANT c1

OneClient == [s \in Sessions |-> c1]
Reliable == [k \in Subs |-> {1}]
ThenEither == [k \in Subs |-> IF k = 1 THEN {1} ELSE {0, 1}]
=============================================================================
