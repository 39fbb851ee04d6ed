----------------------------- MODULE DurableLog -----------------------------
(***************************************************************************)
(* What a topic promises its publishers, without publishers, channels,     *)
(* sequence keys or processes: a store of numbered messages and the log of *)
(* the entries that were acknowledged. An acknowledged entry stays where   *)
(* it is until an operator withdraws every promise at once, a new one goes *)
(* behind all the others, and no restart is visible.                       *)
(***************************************************************************)
EXTENDS Naturals

VARIABLES
    store,      \* the messages by their numbers
    log         \* the acknowledged entries [seq |-> number, msg |-> message]

Held(n) == \E e \in log : e.seq = n

Init ==
    /\ store = [n \in {} |-> 0]
    /\ log = {}

\* A message is written under a number that no acknowledged entry has.
Write(n, m) ==
    /\ ~Held(n)
    /\ store' = [x \in DOMAIN store \cup {n} |-> IF x = n THEN m ELSE store[x]]
    /\ UNCHANGED log

\* A stored message is acknowledged, behind everything acknowledged so far.
Acknowledge(e) ==
    /\ e.seq \in DOMAIN store /\ store[e.seq] = e.msg
    /\ \A f \in log : f.seq < e.seq
    /\ log' = log \cup {e}
    /\ UNCHANGED store

\* An operator gives up what was acknowledged.
Withdraw ==
    /\ log' = {}
    /\ UNCHANGED store

\* Messages that are not promised to anyone go.
Remove(S) ==
    /\ \A n \in S : ~Held(n)
    /\ store' = [x \in DOMAIN store \ S |-> store[x]]
    /\ UNCHANGED log

Next ==
    \/ \E n \in DOMAIN store' : Write(n, store'[n])
    \/ \E e \in log' : Acknowledge(e)
    \/ Withdraw
    \/ \E S \in SUBSET DOMAIN store : Remove(S)

Spec == Init /\ [][Next]_<<store, log>>
=============================================================================
