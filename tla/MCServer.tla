------------------------------ MODULE MCServer ------------------------------
(* Server with two connections of two clients, and topic names of which    *)
(* all but one share a directory.                                          *)
EXTENDS Server

CONSTANTS c1, c2, i1, i2, a, d1, d2

TwoClients == [c \in Conns |-> IF c = c1 THEN i1 ELSE i2]
Shared == [n \in Names |-> IF n = a THEN d1 ELSE d2]
=============================================================================
