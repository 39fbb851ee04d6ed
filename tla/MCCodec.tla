------------------------------ MODULE MCCodec ------------------------------
(* TLC instance of Codec: lengths of two binary digits for a string (up to 3),  *)
(* of two digits of base 5 for a packet (up to 24).                             *)
EXTENDS Codec

CONSTANT BodyLen

\* One topic fits its field, one is one byte too long.
MCTopics == {<<1>>, <<0, 1, 1, 0>>}

\* Short, and 12 bytes: the longest packet that fits with the topic <<1>> and QoS 1, one
\* byte too long with the other topic and QoS 0.
MCPayloads == {<<>>, [i \in 1..12 |-> i % 2]}

MCNames == {<<>>, <<0>>, <<1>>}
MCBodies == UNION {[1..n -> {0, 1}] : n \in 0..BodyLen}
=============================================================================
