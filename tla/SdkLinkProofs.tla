--------------------------- MODULE SdkLinkProofs ---------------------------
(***************************************************************************)
(* Theorems about SdkLink, for any number of packet ids, goroutines and    *)
(* messages and any capacity of the network and of SeenCache.              *)
(***************************************************************************)
EXTENDS SdkLink, FiniteSetTheorems, TLAPS

-----------------------------------------------------------------------------
(* The inductive invariants. *)

\* Where a goroutine of the SDK can be, and where a reader has a packet in hand.
Places == Writing \cup Reading \cup {"deliver", "handle", "idle", "close", "done"}
Holding == {"deliver", "handle", "puback"}

\* LinkTypeOK without the count of subscriptions; the packets form queues.
ShapeInv ==
    /\ inflight \in [Ids -> 0..MaxMsgs] /\ nextId \in Ids /\ taken \in 0..MaxMsgs
    /\ sender \in [Senders -> [at : {"idle", "track", "write", "spin"}, id : 0..MaxId,
                               msg : 0..MaxMsgs]]
    /\ again \subseteq Packets({"PUBLISH"})
    /\ reply \in {"none", "SUBACK", "PUBACK", "catchup"}
    /\ feeds \in Nat /\ open \in BOOLEAN
    /\ down \in Seq(Packets({"PUBLISH", "SUBACK", "PUBACK"})) /\ Len(down) <= NetCap
    /\ up \in Seq(Packets({"PUBLISH", "SUBSCRIBE", "PUBACK"})) /\ Len(up) <= NetCap
    /\ mu \in Threads \cup {Free}
    /\ place \in [Threads -> Places]
    /\ hand \in [Readers -> Packets({"none", "PUBLISH"})]
    /\ seen \in Seq(0..MaxMsgs) /\ Len(seen) <= SeenCap
    /\ passed \in Seq(0..MaxMsgs)

Asking == {r \in Readers : place[r] = "subscribe"}
Asked == {n \in DOMAIN up : up[n].type = "SUBSCRIBE"}
Answering == IF reply \in {"SUBACK", "catchup"} THEN 1 ELSE 0

\* Every call of Subscribe is in one place on its way to a subscription.
FeedsInv ==
    feeds + Answering + Cardinality(Asked) + Cardinality(Asking) <= Cardinality(Readers)

TypeInv == ShapeInv /\ FeedsInv

\* SeenCache holds the last messages it let through.
SeenInv ==
    /\ Len(seen) = IF Len(passed) < SeenCap THEN Len(passed) ELSE SeenCap
    /\ \A n \in DOMAIN seen : seen[n] = passed[Len(passed) - Len(seen) + n]
    /\ HandlerOnce

\* Packets other than messages and their PUBACKs have no id; a reader has a message
\* in hand exactly between its read and its PUBACK; a sender at rest has none.
PacketInv ==
    /\ \A n \in DOMAIN down : IF down[n].type = "PUBLISH" THEN down[n].id \in Ids
                              ELSE down[n].id = 0
    /\ \A n \in DOMAIN up : IF up[n].type = "PUBACK" THEN up[n].id \in Ids ELSE up[n].id = 0
    /\ \A a \in again : a.id \in Ids
    /\ \A r \in Readers : IF place[r] \in Holding
                          THEN hand[r].type = "PUBLISH" /\ hand[r].id \in Ids
                          ELSE hand[r].id = 0
    /\ \A s \in Senders : IF sender[s].at \in {"track", "write"}
                          THEN sender[s].id \in Ids /\ sender[s].msg # 0
                          ELSE sender[s].id = 0

\* Some SUBACK was written: its catch-up goes on, or its subscription is live.
Live == feeds > 0 \/ reply = "catchup"

\* Before the first SUBACK is written there is no message on the line, and a reader
\* that waits for its SUBACK finds one before the first message.
LineInv ==
    /\ ~Live =>
        /\ \A s \in Senders : sender[s].at = "idle"
        /\ again = {} /\ \A i \in Ids : ~Used(i)
        /\ \A n \in DOMAIN down : down[n].type # "PUBLISH"
    /\ \A r \in Readers : place[r] \in {"subscribe", "suback"} /\ Live =>
        \E m \in DOMAIN down :
            /\ down[m].type = "SUBACK"
            /\ \A n \in DOMAIN down : down[n].type = "PUBLISH" => m < n
    /\ SubackNotMessage

\* What Seen let through was handled, or some reader is about to hand it over.
PassedInv ==
    \A n \in DOMAIN passed :
        passed[n] \in handled \/ \E r \in Readers : place[r] = "handle" /\ hand[r].msg = passed[n]

\* The entry under id i, if any, is message m.
Belongs(i, m) == inflight[i] \in {0, m}

\* No packet with an id is under way but the one a sender is about to track.
Alone(s) ==
    LET i == sender[s].id IN
    /\ ~Used(i)
    /\ \A n \in DOMAIN down : down[n].id # i
    /\ \A n \in DOMAIN up : up[n].id # i
    /\ \A r \in Readers : hand[r].id # i
    /\ \A a \in again : a.id # i

\* Every packet under way is about the message that has its id now, or none has, and
\* a PUBACK under way is about a message that was handled.
OwnerInv ==
    /\ \A s \in Senders :
        /\ sender[s].at = "track" => Alone(s)
        /\ sender[s].at = "write" => Belongs(sender[s].id, sender[s].msg)
        /\ \A t \in Senders : sender[s].id \in Ids /\ sender[s].id = sender[t].id => s = t
    /\ \A n \in DOMAIN down : down[n].type = "PUBLISH" => Belongs(down[n].id, down[n].msg)
    /\ \A a \in again : Belongs(a.id, a.msg)
    /\ \A r \in Readers :
        /\ place[r] \in Holding => Belongs(hand[r].id, hand[r].msg)
        /\ place[r] = "puback" => hand[r].msg \in handled
    /\ \A n \in DOMAIN up :
        up[n].type = "PUBACK" /\ Used(up[n].id) => inflight[up[n].id] \in handled
    /\ acked \subseteq handled

-----------------------------------------------------------------------------
(* The queues of the network. *)

Downward == Packets({"PUBLISH", "SUBACK", "PUBACK"})
Upward == Packets({"PUBLISH", "SUBSCRIBE", "PUBACK"})

\* A packet goes to the end of a queue.
LEMMA Enqueue ==
    ASSUME NEW P, NEW q \in Seq(P), NEW p \in P
    PROVE  /\ Append(q, p) \in Seq(P) /\ Len(q) \in Nat /\ Len(Append(q, p)) = Len(q) + 1
           /\ DOMAIN Append(q, p) = DOMAIN q \cup {Len(q) + 1}
           /\ \A n \in DOMAIN q : Append(q, p)[n] = q[n] /\ n \in Nat /\ n <= Len(q)
           /\ Append(q, p)[Len(q) + 1] = p
OBVIOUS

\* The first packet leaves a queue, and the others move up.
LEMMA Dequeue ==
    ASSUME NEW P, NEW q \in Seq(P), q # << >>
    PROVE  /\ Tail(q) \in Seq(P) /\ Len(q) \in Nat /\ Len(Tail(q)) = Len(q) - 1
           /\ 1 \in DOMAIN q /\ Head(q) = q[1] /\ q[1] \in P
           /\ \A n \in DOMAIN Tail(q) : n \in Nat /\ n + 1 \in DOMAIN q /\ Tail(q)[n] = q[n + 1]
           /\ \A n \in DOMAIN q : n \in Nat
           /\ \A n \in DOMAIN q : n # 1 => n - 1 \in DOMAIN Tail(q) /\ Tail(q)[n - 1] = q[n]
OBVIOUS

\* The same for the two directions of the connection.
LEMMA SentDown ==
    ASSUME ShapeInv, NEW p \in Downward, SendDown(p)
    PROVE  /\ open /\ down' \in Seq(Downward) /\ Len(down) \in Nat /\ Len(down') <= NetCap
           /\ DOMAIN down' = DOMAIN down \cup {Len(down) + 1}
           /\ \A n \in DOMAIN down : down'[n] = down[n] /\ n \in Nat /\ n <= Len(down)
           /\ down'[Len(down) + 1] = p
<1>1. down \in Seq(Downward) /\ NetCap \in Nat
  BY SizesAssumption DEF ShapeInv, Downward
<1>2. open /\ down' = Append(down, p) /\ Len(down) < NetCap
  BY DEF SendDown
<1> QED BY <1>1, <1>2, Enqueue

\* What a packet sent by the client does to its direction of the connection.
LEMMA SentUp ==
    ASSUME ShapeInv, NEW p \in Upward, SendUp(p)
    PROVE  /\ open /\ up' \in Seq(Upward) /\ Len(up) \in Nat /\ Len(up') <= NetCap
           /\ DOMAIN up' = DOMAIN up \cup {Len(up) + 1}
           /\ \A n \in DOMAIN up : up'[n] = up[n] /\ n \in Nat /\ n <= Len(up)
           /\ up'[Len(up) + 1] = p
<1>1. up \in Seq(Upward) /\ NetCap \in Nat
  BY SizesAssumption DEF ShapeInv, Upward
<1>2. open /\ up' = Append(up, p) /\ Len(up) < NetCap
  BY DEF SendUp
<1> QED BY <1>1, <1>2, Enqueue

\* Reading a packet moves every later one up by one place, on the way to the client
\* and on the way to the broker.
LEMMA TakenDown ==
    ASSUME ShapeInv, down # << >>, down' = Tail(down)
    PROVE  /\ down' \in Seq(Downward) /\ Len(down') <= NetCap
           /\ 1 \in DOMAIN down /\ Head(down) = down[1] /\ down[1] \in Downward
           /\ \A n \in DOMAIN down' : n \in Nat /\ n + 1 \in DOMAIN down /\ down'[n] = down[n + 1]
           /\ \A n \in DOMAIN down : n \in Nat
           /\ \A n \in DOMAIN down : n # 1 => n - 1 \in DOMAIN down' /\ down'[n - 1] = down[n]
<1>1. down \in Seq(Downward) /\ Len(down) <= NetCap /\ NetCap \in Nat
  BY SizesAssumption DEF ShapeInv, Downward
<1> QED BY <1>1, Dequeue

\* The same for the broker's end.
LEMMA TakenUp ==
    ASSUME ShapeInv, up # << >>, up' = Tail(up)
    PROVE  /\ up' \in Seq(Upward) /\ Len(up') <= NetCap
           /\ 1 \in DOMAIN up /\ Head(up) = up[1] /\ up[1] \in Upward
           /\ \A n \in DOMAIN up' : n \in Nat /\ n + 1 \in DOMAIN up /\ up'[n] = up[n + 1]
           /\ \A n \in DOMAIN up : n \in Nat
           /\ \A n \in DOMAIN up : n # 1 => n - 1 \in DOMAIN up' /\ up'[n - 1] = up[n]
<1>1. up \in Seq(Upward) /\ Len(up) <= NetCap /\ NetCap \in Nat
  BY SizesAssumption DEF ShapeInv, Upward
<1> QED BY <1>1, Dequeue

-----------------------------------------------------------------------------
(* Types. *)

\* Every step keeps the shapes.
LEMMA ShapeStep ==
    ASSUME ShapeInv, [Next]_vars
    PROVE  ShapeInv'
<1>0. /\ MaxId \in Nat \ {0} /\ SeenCap \in Nat \ {0} /\ NetCap \in Nat \ {0} /\ MaxMsgs \in Nat
      /\ Free \notin Threads
  BY SizesAssumption, BoundsAssumption, ThreadsAssumption DEF Threads
<1>01. down \in Seq(Downward) /\ up \in Seq(Upward)
  BY DEF ShapeInv, Downward, Upward
<1> DEFINE Session == /\ inflight \in [Ids -> 0..MaxMsgs] /\ nextId \in Ids
                      /\ taken \in 0..MaxMsgs
                      /\ sender \in [Senders -> [at : {"idle", "track", "write", "spin"},
                                                 id : 0..MaxId, msg : 0..MaxMsgs]]
                      /\ again \subseteq Packets({"PUBLISH"})
                      /\ reply \in {"none", "SUBACK", "PUBACK", "catchup"} /\ feeds \in Nat
           Network == /\ open \in BOOLEAN
                      /\ down \in Seq(Downward) /\ Len(down) <= NetCap
                      /\ up \in Seq(Upward) /\ Len(up) <= NetCap
           Program == /\ mu \in Threads \cup {Free}
                      /\ place \in [Threads -> Places]
                      /\ hand \in [Readers -> Packets({"none", "PUBLISH"})]
                      /\ seen \in Seq(0..MaxMsgs) /\ Len(seen) <= SeenCap
                      /\ passed \in Seq(0..MaxMsgs)
<1>02. Session /\ Network /\ Program
  BY DEF ShapeInv, Downward, Upward
<1> SUFFICES Session' /\ Network' /\ Program'
  BY DEF ShapeInv, Downward, Upward
<1>03. UNCHANGED sessVars => Session'
  BY <1>02 DEF sessVars
<1>04. UNCHANGED <<open, down, up>> => Network'
  BY <1>02
<1>05. UNCHANGED progVars => Program'
  BY <1>02 DEF progVars
<1> USE <1>0 DEF Places
<1>1. ASSUME NEW s \in Senders, AllocPacketID(s) PROVE Session' /\ Network' /\ Program'
  <2>1. Session'
    <3>1. PICK i \in Ids :
            /\ sender' = [sender EXCEPT ![s] = [at |-> "track", id |-> i, msg |-> taken + 1]]
            /\ nextId' = Succ(i)
      BY <1>1 DEF AllocPacketID
    <3>2. /\ i \in 0..MaxId /\ taken + 1 \in 0..MaxMsgs /\ taken' = taken + 1
          /\ UNCHANGED <<inflight, again, reply, feeds>>
      BY <1>02, <1>1 DEF AllocPacketID, Ids
    <3>3. nextId' \in Ids
      BY <3>1 DEF Ids, Succ
    <3>4. sender' \in [Senders -> [at : {"idle", "track", "write", "spin"},
                                   id : 0..MaxId, msg : 0..MaxMsgs]]
      BY <1>02, <3>1, <3>2
    <3> QED BY <1>02, <3>2, <3>3, <3>4
  <2>2. Network'
    BY <1>1, <1>04 DEF AllocPacketID
  <2>3. Program'
    BY <1>1, <1>05 DEF AllocPacketID
  <2> QED BY <2>1, <2>2, <2>3
<1>2. ASSUME NEW s \in Senders, AllocSpins(s) PROVE Session' /\ Network' /\ Program'
  <2>1. Session'
    BY <1>02, <1>2 DEF AllocSpins
  <2>2. Network'
    BY <1>2, <1>04 DEF AllocSpins
  <2>3. Program'
    BY <1>2, <1>05 DEF AllocSpins
  <2> QED BY <2>1, <2>2, <2>3
<1>3. ASSUME NEW s \in Senders, Track(s) PROVE Session' /\ Network' /\ Program'
  <2>1. Session'
    BY <1>02, <1>3 DEF Track, Ids
  <2>2. Network'
    BY <1>3, <1>04 DEF Track
  <2>3. Program'
    BY <1>3, <1>05 DEF Track
  <2> QED BY <2>1, <2>2, <2>3
<1>4. ASSUME NEW s \in Senders, WriteMessage(s) PROVE Session' /\ Network' /\ Program'
  <2>1. Session'
    BY <1>02, <1>4 DEF WriteMessage, Resting
  <2>2. Network'
    <3>1. Packet("PUBLISH", sender[s].id, sender[s].msg) \in Downward
      BY <1>02 DEF Downward, Packets, Packet
    <3> QED BY <1>02, <1>4, <3>1, SentDown DEF WriteMessage
  <2>3. Program'
    BY <1>4, <1>05 DEF WriteMessage
  <2> QED BY <2>1, <2>2, <2>3
<1>5. ASSUME RetransmitPick PROVE Session' /\ Network' /\ Program'
  <2>1. Session'
    BY <1>02, <1>5 DEF RetransmitPick, Packets, Packet, Used, Ids
  <2>2. Network'
    BY <1>5, <1>04 DEF RetransmitPick
  <2>3. Program'
    BY <1>5, <1>05 DEF RetransmitPick
  <2> QED BY <2>1, <2>2, <2>3
<1>6. ASSUME RetransmitWrite PROVE Session' /\ Network' /\ Program'
  <2>1. Session'
    BY <1>02, <1>6 DEF RetransmitWrite
  <2>2. Network'
    <3>1. PICK a \in again : SendDown(a)
      BY <1>6 DEF RetransmitWrite
    <3>2. a \in Downward
      BY <1>02 DEF Downward, Packets
    <3> QED BY <1>02, <1>6, <3>1, <3>2, SentDown DEF RetransmitWrite
  <2>3. Program'
    BY <1>6, <1>05 DEF RetransmitWrite
  <2> QED BY <2>1, <2>2, <2>3
<1>7. ASSUME HandlePubAck PROVE Session' /\ Network' /\ Program'
  <2>1. Session'
    <3>1. inflight \in [Ids -> 0..MaxMsgs] /\ inflight' = [inflight EXCEPT ![Head(up).id] = 0]
      BY <1>02, <1>7 DEF HandlePubAck
    <3>2. inflight' \in [Ids -> 0..MaxMsgs]
      <4>1. inflight' = [i \in Ids |-> IF i = Head(up).id THEN 0 ELSE inflight[i]]
        BY <3>1
      <4>2. \A i \in Ids : (IF i = Head(up).id THEN 0 ELSE inflight[i]) \in 0..MaxMsgs
        BY <3>1
      <4> QED BY <4>1, <4>2
    <3> QED BY <1>02, <1>7, <3>2 DEF HandlePubAck
  <2>2. Network'
    BY <1>02, <1>7, TakenUp DEF HandlePubAck
  <2>3. Program'
    BY <1>7, <1>05 DEF HandlePubAck
  <2> QED BY <2>1, <2>2, <2>3
<1>8. ASSUME HandleRequest PROVE Session' /\ Network' /\ Program'
  <2>1. Session'
    BY <1>02, <1>8 DEF HandleRequest
  <2>2. Network'
    BY <1>02, <1>8, TakenUp DEF HandleRequest
  <2>3. Program'
    BY <1>8, <1>05 DEF HandleRequest
  <2> QED BY <2>1, <2>2, <2>3
<1>24. ASSUME CatchUpEnds PROVE Session' /\ Network' /\ Program'
  <2>1. Session'
    BY <1>02, <1>24 DEF CatchUpEnds
  <2>2. Network'
    BY <1>24, <1>04 DEF CatchUpEnds
  <2>3. Program'
    BY <1>24, <1>05 DEF CatchUpEnds
  <2> QED BY <2>1, <2>2, <2>3
<1>9. ASSUME Reply PROVE Session' /\ Network' /\ Program'
  <2>1. Session'
    BY <1>02, <1>9 DEF Reply
  <2>2. Network'
    <3>1. Packet(reply, 0, 0) \in Downward
      BY <1>02, <1>9 DEF Reply, Downward, Packets, Packet
    <3> QED BY <1>02, <1>9, <3>1, SentDown DEF Reply
  <2>3. Program'
    BY <1>9, <1>05 DEF Reply
  <2> QED BY <2>1, <2>2, <2>3
<1>10. ASSUME NEW t \in Threads, Lock(t) PROVE Session' /\ Network' /\ Program'
  <2>1. Session'
    BY <1>10, <1>03 DEF Lock
  <2>2. Network'
    BY <1>10, <1>04 DEF Lock
  <2>3. Program'
    BY <1>02, <1>10 DEF Lock, Threads
  <2> QED BY <2>1, <2>2, <2>3
<1>11. ASSUME NEW r \in Readers, SendSubscribe(r) PROVE Session' /\ Network' /\ Program'
  <2>1. Session'
    BY <1>11, <1>03 DEF SendSubscribe
  <2>2. Network'
    <3>1. Packet("SUBSCRIBE", 0, 0) \in Upward
      BY <1>02 DEF Upward, Packets, Packet
    <3> QED BY <1>02, <1>11, <3>1, SentUp DEF SendSubscribe
  <2>3. Program'
    BY <1>02, <1>11 DEF SendSubscribe, Unlock, Writing, Reading, Threads
  <2> QED BY <2>1, <2>2, <2>3
<1>12. ASSUME NEW r \in Readers, SendPubAck(r) PROVE Session' /\ Network' /\ Program'
  <2>1. Session'
    BY <1>12, <1>03 DEF SendPubAck
  <2>2. Network'
    <3>1. Packet("PUBACK", hand[r].id, 0) \in Upward
      BY <1>02 DEF Upward, Packets, Packet
    <3> QED BY <1>02, <1>12, <3>1, SentUp DEF SendPubAck
  <2>3. Program'
    BY <1>02, <1>12 DEF SendPubAck, Unlock, Packets, Nothing, Reading, Threads
  <2> QED BY <2>1, <2>2, <2>3
<1>13. ASSUME NEW r \in Readers, ReadSuback(r) PROVE Session' /\ Network' /\ Program'
  <2>1. Session'
    BY <1>13, <1>03 DEF ReadSuback
  <2>2. Network'
    BY <1>02, <1>13, TakenDown DEF ReadSuback
  <2>3. Program'
    BY <1>02, <1>13 DEF ReadSuback, Unlock, Writing, Reading, Threads
  <2> QED BY <2>1, <2>2, <2>3
<1>14. ASSUME NEW r \in Readers, ReadLoop(r) PROVE Session' /\ Network' /\ Program'
  <2>1. Session'
    BY <1>14, <1>03 DEF ReadLoop
  <2>2. Network'
    BY <1>02, <1>14, TakenDown DEF ReadLoop
  <2>3. Program'
    <3>1. CASE Head(down).type = "PUBLISH"
      <4>1. Head(down) \in Packets({"none", "PUBLISH"})
        BY <1>14, <3>1, TakenDown DEF ReadLoop, Downward, Packets
      <4>2. place' \in [Threads -> Places] /\ mu' \in Threads \cup {Free}
        BY <1>02, <1>14, <3>1 DEF ReadLoop, Unlock
      <4>3. hand' \in [Readers -> Packets({"none", "PUBLISH"})]
        BY <1>02, <1>14, <3>1, <4>1 DEF ReadLoop
      <4>4. UNCHANGED <<seen, passed>>
        BY <1>14 DEF ReadLoop
      <4> QED BY <1>02, <4>2, <4>3, <4>4
    <3>2. CASE Head(down).type # "PUBLISH"
      BY <1>02, <1>14, <3>2 DEF ReadLoop, Unlock, Reading
    <3> QED BY <3>1, <3>2
  <2> QED BY <2>1, <2>2, <2>3
<1>15. ASSUME NEW r \in Readers, Cancel(r) PROVE Session' /\ Network' /\ Program'
  <2>1. Session'
    BY <1>15, <1>03 DEF Cancel
  <2>2. Network'
    BY <1>15, <1>04 DEF Cancel
  <2>3. Program'
    BY <1>02, <1>15 DEF Cancel, Threads
  <2> QED BY <2>1, <2>2, <2>3
<1>16. ASSUME NEW r \in Readers, CheckSeen(r) PROVE Session' /\ Network' /\ Program'
  <2>1. Session'
    BY <1>16, <1>03 DEF CheckSeen
  <2>2. Network'
    BY <1>16, <1>04 DEF CheckSeen
  <2>3. Program'
    <3>1. hand[r].msg \in 0..MaxMsgs
      BY <1>02 DEF Packets
    <3>2. seen' \in Seq(0..MaxMsgs) /\ Len(seen') <= SeenCap
      <4> DEFINE keys == Append(seen, hand[r].msg)
      <4>1. keys \in Seq(0..MaxMsgs) /\ Len(keys) = Len(seen) + 1 /\ Len(seen) \in Nat
        BY <1>02, <3>1
      <4>2. Len(keys) > SeenCap => Tail(keys) \in Seq(0..MaxMsgs) /\ Len(Tail(keys)) = Len(seen)
        <5> HIDE DEF keys
        <5> QED BY <4>1
      <4>3. \/ seen' = seen
            \/ seen' = keys /\ ~(Len(keys) > SeenCap)
            \/ seen' = Tail(keys) /\ Len(keys) > SeenCap
        BY <1>16 DEF CheckSeen, Remember
      <4>4. seen \in Seq(0..MaxMsgs) /\ Len(seen) <= SeenCap
        BY <1>02
      <4>5. CASE seen' = keys /\ ~(Len(keys) > SeenCap)
        BY <4>1, <4>5
      <4>6. CASE seen' = Tail(keys) /\ Len(keys) > SeenCap
        BY <4>2, <4>4, <4>6
      <4> QED BY <4>3, <4>4, <4>5, <4>6
    <3>3. passed' \in Seq(0..MaxMsgs)
      <4>1. passed \in Seq(0..MaxMsgs) /\ passed' \in {passed, Append(passed, hand[r].msg)}
        BY <1>02, <1>16 DEF CheckSeen
      <4>2. passed \in Seq(0..MaxMsgs) => Append(passed, hand[r].msg) \in Seq(0..MaxMsgs)
        BY <3>1
      <4> QED BY <4>1, <4>2, Zenon
    <3>4. place' \in [Threads -> Places] /\ UNCHANGED <<mu, hand>>
      BY <1>02, <1>16 DEF CheckSeen, Writing
    <3> QED BY <1>02, <3>2, <3>3, <3>4
  <2> QED BY <2>1, <2>2, <2>3
<1>25. ASSUME NEW r \in Readers, CallHandler(r) PROVE Session' /\ Network' /\ Program'
  <2>1. Session'
    BY <1>25, <1>03 DEF CallHandler
  <2>2. Network'
    BY <1>25, <1>04 DEF CallHandler
  <2>3. Program'
    BY <1>02, <1>25 DEF CallHandler, Places, Writing, Threads
  <2> QED BY <2>1, <2>2, <2>3
<1>17. ASSUME NEW c \in Callers, BeginPublish(c) PROVE Session' /\ Network' /\ Program'
  <2>1. Session'
    BY <1>17, <1>03 DEF BeginPublish
  <2>2. Network'
    BY <1>17, <1>04 DEF BeginPublish
  <2>3. Program'
    BY <1>02, <1>17 DEF BeginPublish, Unlock, Writing, Reading, Threads
  <2> QED BY <2>1, <2>2, <2>3
<1>18. ASSUME NEW c \in Callers, WritePublish(c) PROVE Session' /\ Network' /\ Program'
  <2>1. Session'
    BY <1>18, <1>03 DEF WritePublish
  <2>2. Network'
    <3>1. Packet("PUBLISH", 0, 0) \in Upward
      BY <1>02 DEF Upward, Packets, Packet
    <3> QED BY <1>02, <1>18, <3>1, SentUp DEF WritePublish
  <2>3. Program'
    BY <1>02, <1>18 DEF WritePublish, Unlock, Writing, Reading, Threads
  <2> QED BY <2>1, <2>2, <2>3
<1>19. ASSUME NEW c \in Callers, BeginClose(c) PROVE Session' /\ Network' /\ Program'
  <2>1. Session'
    BY <1>19, <1>03 DEF BeginClose
  <2>2. Network'
    BY <1>19, <1>04 DEF BeginClose
  <2>3. Program'
    BY <1>02, <1>19 DEF BeginClose, Unlock, Writing, Reading, Threads
  <2> QED BY <2>1, <2>2, <2>3
<1>20. ASSUME NEW c \in Callers, CloseConn(c) PROVE Session' /\ Network' /\ Program'
  <2>1. Session'
    BY <1>20, <1>03 DEF CloseConn
  <2>2. Network'
    BY <1>02, <1>20 DEF CloseConn
  <2>3. Program'
    BY <1>02, <1>20 DEF CloseConn, Unlock, Threads
  <2> QED BY <2>1, <2>2, <2>3
<1>21. ASSUME NEW t \in Threads, Fail(t) PROVE Session' /\ Network' /\ Program'
  <2>1. Session'
    BY <1>21, <1>03 DEF Fail
  <2>2. Network'
    BY <1>21, <1>04 DEF Fail
  <2>3. Program'
    <3>1. \E p \in {"done", "loop", "idle"} : place' = [place EXCEPT ![t] = p]
      BY <1>21 DEF Fail, Unlock
    <3>2. place' \in [Threads -> Places]
      BY <1>02, <3>1 DEF Reading
    <3>3. hand' \in [Readers -> Packets({"none", "PUBLISH"})]
      <4>1. Nothing \in Packets({"none", "PUBLISH"})
        BY DEF Nothing, Packets
      <4>2. hand' = [hand EXCEPT ![t] = Nothing] \/ hand' = hand
        BY <1>21 DEF Fail
      <4> QED BY <1>02, <4>1, <4>2
    <3> QED BY <1>02, <1>21, <3>2, <3>3 DEF Fail, Unlock
  <2> QED BY <2>1, <2>2, <2>3
<1>22. ASSUME Cut PROVE Session' /\ Network' /\ Program'
  <2>1. Session'
    BY <1>22, <1>03 DEF Cut
  <2>2. Network'
    BY <1>02, <1>22 DEF Cut
  <2>3. Program'
    BY <1>22, <1>05 DEF Cut
  <2> QED BY <2>1, <2>2, <2>3
<1>23. ASSUME UNCHANGED vars PROVE Session' /\ Network' /\ Program'
  BY <1>23, <1>03, <1>04, <1>05 DEF vars
<1> QED
  BY <1>1, <1>2, <1>3, <1>4, <1>5, <1>6, <1>7, <1>8, <1>9, <1>10, <1>11, <1>12,
     <1>13, <1>14, <1>15, <1>16, <1>17, <1>18, <1>19, <1>20, <1>21, <1>22, <1>23,
     <1>24, <1>25
     DEF Next

\* What Asked is when a packet comes or goes.
LEMMA AskedSent ==
    ASSUME ShapeInv, NEW p \in Upward, SendUp(p)
    PROVE  /\ IsFiniteSet(Asked) /\ IsFiniteSet(Asked')
           /\ Cardinality(Asked) \in Nat
           /\ Cardinality(Asked') = IF p.type = "SUBSCRIBE" THEN Cardinality(Asked) + 1
                                    ELSE Cardinality(Asked)
<1>1. up \in Seq(Upward) /\ DOMAIN up = 1 .. Len(up) /\ Len(up) \in Nat
  BY DEF ShapeInv, Upward
<1>2. IsFiniteSet(Asked)
  <2>1. IsFiniteSet(DOMAIN up)
    BY <1>1, FS_Interval
  <2> QED BY <2>1, FS_Subset DEF Asked
<1>3. Asked' = (IF p.type = "SUBSCRIBE" THEN Asked \cup {Len(up) + 1} ELSE Asked)
  BY SentUp DEF Asked
<1>4. Len(up) + 1 \notin Asked
  BY <1>1 DEF Asked
<1>5. /\ IsFiniteSet(Asked \cup {Len(up) + 1})
      /\ Cardinality(Asked \cup {Len(up) + 1}) = Cardinality(Asked) + 1
  BY <1>2, <1>4, FS_AddElement
<1>6. Cardinality(Asked) \in Nat
  BY <1>2, FS_CardinalityType
<1> QED BY <1>2, <1>3, <1>5, <1>6

\* A packet read by the broker leaves one SUBSCRIBE fewer under way, or as many.
LEMMA AskedTaken ==
    ASSUME ShapeInv, up # << >>, up' = Tail(up)
    PROVE  /\ IsFiniteSet(Asked) /\ IsFiniteSet(Asked')
           /\ Cardinality(Asked) \in Nat /\ Cardinality(Asked') \in Nat
           /\ Cardinality(Asked') = IF Head(up).type = "SUBSCRIBE" THEN Cardinality(Asked) - 1
                                    ELSE Cardinality(Asked)
<1>1. up \in Seq(Upward) /\ DOMAIN up = 1 .. Len(up) /\ Len(up) \in Nat
  BY DEF ShapeInv, Upward
<1>2. IsFiniteSet(Asked)
  <2>1. IsFiniteSet(DOMAIN up)
    BY <1>1, FS_Interval
  <2> QED BY <2>1, FS_Subset DEF Asked
<1> DEFINE Rest == Asked \ {1}
           move == [n \in Rest |-> n - 1]
<1>3. move \in Bijection(Rest, Asked')
  <2>1. \A n \in Rest : n \in Nat /\ n - 1 \in Asked'
    BY TakenUp DEF Asked
  <2>2. \A m \in Asked' : m \in Nat /\ m + 1 \in Rest /\ (m + 1) - 1 = m
    <3>1. \A m \in Asked' : m \in Nat /\ m + 1 \in Asked
      BY TakenUp DEF Asked
    <3>2. \A m \in Asked' : m # 0
      <4>1. DOMAIN up' = 1 .. Len(up')
        BY TakenUp
      <4> QED BY <4>1 DEF Asked
    <3> QED BY <3>1, <3>2
  <2>3. move \in [Rest -> Asked']
    BY <2>1
  <2>4. \A m, n \in Rest : move[m] = move[n] => m = n
    BY <2>1
  <2>5. \A m \in Asked' : \E n \in Rest : move[n] = m
    BY <2>2
  <2> HIDE DEF move, Rest
  <2> QED BY <2>3, <2>4, <2>5 DEF Bijection, Injection, Surjection, IsInjective
<1>4. /\ IsFiniteSet(Rest)
      /\ Cardinality(Rest) = IF 1 \in Asked THEN Cardinality(Asked) - 1 ELSE Cardinality(Asked)
  BY <1>2, FS_RemoveElement
<1>5. IsFiniteSet(Asked') /\ Cardinality(Asked') = Cardinality(Rest)
  <2>1. ExistsBijection(Rest, Asked')
    BY <1>3 DEF ExistsBijection
  <2> QED BY <1>4, <2>1, FS_Bijection
<1>6. 1 \in Asked <=> Head(up).type = "SUBSCRIBE"
  BY TakenUp DEF Asked
<1>7. Cardinality(Asked) \in Nat /\ Cardinality(Asked') \in Nat
  BY <1>2, <1>5, FS_CardinalityType
<1> QED BY <1>2, <1>4, <1>5, <1>6, <1>7

\* A call of Subscribe moves from its start to the network, to the answer and to the
\* subscription, or is lost.
LEMMA FeedsStep ==
    ASSUME TypeInv, [Next]_vars
    PROVE  FeedsInv'
<1>0. /\ ShapeInv /\ IsFiniteSet(Asking) /\ Cardinality(Asking) \in Nat
      /\ Cardinality(Readers) \in Nat /\ feeds \in Nat /\ Answering \in {0, 1}
  <2>1. IsFiniteSet(Asking) /\ IsFiniteSet(Readers)
    BY ThreadsAssumption, FS_Subset DEF Asking
  <2> QED BY <2>1, FS_CardinalityType DEF TypeInv, ShapeInv, Answering
<1>01. IsFiniteSet(Asked) /\ Cardinality(Asked) \in Nat
  <2>1. DOMAIN up = 1 .. Len(up) /\ Len(up) \in Nat
    BY DEF TypeInv, ShapeInv
  <2>2. IsFiniteSet(DOMAIN up)
    BY <2>1, FS_Interval
  <2> QED BY <2>2, FS_Subset, FS_CardinalityType DEF Asked
<1>02. ASSUME Asking' \subseteq Asking
       PROVE  Cardinality(Asking') \in Nat /\ Cardinality(Asking') <= Cardinality(Asking)
  BY <1>0, <1>02, FS_Subset, FS_CardinalityType
\* Most steps touch neither the queue to the broker nor its answers.
<1>03. ASSUME UNCHANGED <<up, reply, feeds>>, Asking' \subseteq Asking PROVE FeedsInv'
  <2>1. Asked' = Asked /\ Answering' = Answering
    BY <1>03 DEF Asked, Answering
  <2> QED BY <1>0, <1>01, <1>02, <1>03, <2>1 DEF TypeInv, FeedsInv
<1>04. ASSUME NEW t \in Threads, NEW p, place' = [place EXCEPT ![t] = p], p # "subscribe"
       PROVE  Asking' \subseteq Asking
  BY <1>0, <1>04 DEF Asking, ShapeInv, Threads
<1>05. UNCHANGED place => Asking' = Asking
  BY DEF Asking
<1>06. ASSUME UNCHANGED <<up, reply, feeds, place>> PROVE FeedsInv'
  BY <1>03, <1>05, <1>06
<1>1. ASSUME NEW r \in Readers, SendSubscribe(r) PROVE FeedsInv'
  <2>1. Packet("SUBSCRIBE", 0, 0) \in Upward /\ Packet("SUBSCRIBE", 0, 0).type = "SUBSCRIBE"
    BY BoundsAssumption, SizesAssumption DEF Upward, Packets, Packet
  <2>2. SendUp(Packet("SUBSCRIBE", 0, 0)) /\ UNCHANGED <<reply, feeds>>
    BY <1>1 DEF SendSubscribe, sessVars
  <2>3. Cardinality(Asked') = Cardinality(Asked) + 1
    BY <1>0, <2>1, <2>2, AskedSent
  <2>4. r \in Asking /\ Asking' = Asking \ {r}
    <3>1. place \in [Threads -> Places]
      BY <1>0 DEF ShapeInv
    <3>2. place[r] = "subscribe" /\ place' = [place EXCEPT ![r] = "suback"]
      BY <1>1 DEF SendSubscribe, Unlock
    <3> QED BY <3>1, <3>2 DEF Asking, Threads
  <2>5. Cardinality(Asking') = Cardinality(Asking) - 1
    BY <1>0, <2>4, FS_RemoveElement
  <2>6. Answering' = Answering
    BY <2>2 DEF Answering
  <2> QED BY <1>0, <1>01, <2>2, <2>3, <2>5, <2>6 DEF TypeInv, FeedsInv
<1>2. ASSUME NEW p \in Upward, SendUp(p), p.type # "SUBSCRIBE", UNCHANGED <<reply, feeds>>,
             Asking' \subseteq Asking
      PROVE  FeedsInv'
  <2>1. Cardinality(Asked') = Cardinality(Asked)
    BY <1>0, <1>2, AskedSent
  <2>2. Answering' = Answering
    BY <1>2 DEF Answering
  <2> QED BY <1>0, <1>01, <1>02, <1>2, <2>1, <2>2 DEF TypeInv, FeedsInv
<1>3. ASSUME NEW r \in Readers, SendPubAck(r) PROVE FeedsInv'
  <2> DEFINE p == Packet("PUBACK", hand[r].id, 0)
  <2>1. p \in Upward /\ p.type # "SUBSCRIBE"
    BY <1>0, BoundsAssumption DEF Upward, Packets, Packet, ShapeInv
  <2>2. SendUp(p) /\ UNCHANGED <<reply, feeds>> /\ place' = [place EXCEPT ![r] = "loop"]
    BY <1>3 DEF SendPubAck, Unlock, sessVars
  <2>3. Asking' \subseteq Asking
    BY <1>04, <2>2 DEF Threads
  <2> HIDE DEF p
  <2> QED BY <1>2, <2>1, <2>2, <2>3
<1>4. ASSUME NEW c \in Callers, WritePublish(c) PROVE FeedsInv'
  <2> DEFINE p == Packet("PUBLISH", 0, 0)
  <2>1. p \in Upward /\ p.type # "SUBSCRIBE"
    BY BoundsAssumption, SizesAssumption DEF Upward, Packets, Packet
  <2>2. SendUp(p) /\ UNCHANGED <<reply, feeds>> /\ place' = [place EXCEPT ![c] = "idle"]
    BY <1>4 DEF WritePublish, Unlock, sessVars
  <2>3. Asking' \subseteq Asking
    BY <1>04, <2>2 DEF Threads
  <2> HIDE DEF p
  <2> QED BY <1>2, <2>1, <2>2, <2>3
<1>5. CASE HandlePubAck
  <2>1. /\ up # << >> /\ up' = Tail(up) /\ Head(up).type # "SUBSCRIBE"
        /\ UNCHANGED <<reply, feeds, place>>
    BY <1>5 DEF HandlePubAck, progVars
  <2>2. Cardinality(Asked') = Cardinality(Asked) /\ Answering' = Answering
    BY <1>0, <2>1, AskedTaken DEF Answering
  <2> QED BY <1>05, <2>1, <2>2 DEF TypeInv, FeedsInv
<1>6. CASE HandleRequest
  <2>1. /\ up # << >> /\ up' = Tail(up) /\ UNCHANGED <<feeds, place>> /\ reply = "none"
        /\ reply' = IF Head(up).type = "SUBSCRIBE" THEN "SUBACK" ELSE "PUBACK"
    BY <1>6 DEF HandleRequest, progVars
  <2>2. Cardinality(Asked') = IF Head(up).type = "SUBSCRIBE" THEN Cardinality(Asked) - 1
                              ELSE Cardinality(Asked)
    BY <1>0, <2>1, AskedTaken
  <2>3. Answering = 0 /\ Answering' = IF Head(up).type = "SUBSCRIBE" THEN 1 ELSE 0
    BY <2>1 DEF Answering
  <2> QED BY <1>0, <1>01, <1>05, <2>1, <2>2, <2>3 DEF TypeInv, FeedsInv
<1>7. CASE Reply
  <2>1. UNCHANGED <<up, place, feeds>> /\ Answering' = Answering
    BY <1>0, <1>7 DEF Reply, progVars, Answering
  <2>2. Asked' = Asked
    BY <2>1 DEF Asked
  <2> QED BY <1>0, <1>01, <1>05, <2>1, <2>2 DEF TypeInv, FeedsInv
<1>14. CASE CatchUpEnds
  <2>1. UNCHANGED <<up, place>> /\ feeds' = feeds + 1 /\ Answering = 1 /\ Answering' = 0
    BY <1>14 DEF CatchUpEnds, progVars, Answering
  <2>2. Asked' = Asked
    BY <2>1 DEF Asked
  <2> QED BY <1>0, <1>01, <1>05, <2>1, <2>2 DEF TypeInv, FeedsInv
<1>8. ASSUME NEW s \in Senders, AllocPacketID(s) \/ AllocSpins(s) \/ Track(s) \/ WriteMessage(s)
      PROVE  FeedsInv'
  BY <1>06, <1>8 DEF AllocPacketID, AllocSpins, Track, WriteMessage, progVars
<1>9. ASSUME RetransmitPick \/ RetransmitWrite \/ Cut \/ (\E t \in Threads : Lock(t))
      PROVE  FeedsInv'
  BY <1>06, <1>9 DEF RetransmitPick, RetransmitWrite, Cut, Lock, progVars, sessVars
<1>10. ASSUME NEW r \in Readers, \/ ReadSuback(r) \/ ReadLoop(r) \/ Cancel(r)
                                \/ CheckSeen(r) \/ CallHandler(r)
       PROVE  FeedsInv'
  <2>1. UNCHANGED <<up, reply, feeds>>
    BY <1>10 DEF ReadSuback, ReadLoop, Cancel, CheckSeen, CallHandler, sessVars
  <2>2. \E p \in {"loop", "deliver", "handle", "done", "puback"} : place' = [place EXCEPT ![r] = p]
    BY <1>10 DEF ReadSuback, ReadLoop, Cancel, CheckSeen, CallHandler, Unlock
  <2> QED BY <1>03, <1>04, <2>1, <2>2 DEF Threads
<1>11. ASSUME NEW c \in Callers, BeginPublish(c) \/ BeginClose(c) \/ CloseConn(c) PROVE FeedsInv'
  <2>1. UNCHANGED <<up, reply, feeds>>
    BY <1>11 DEF BeginPublish, BeginClose, CloseConn, sessVars
  <2>2. \E p \in {"publish", "close", "idle"} : place' = [place EXCEPT ![c] = p]
    BY <1>11 DEF BeginPublish, BeginClose, CloseConn, Unlock
  <2> QED BY <1>03, <1>04, <2>1, <2>2 DEF Threads
<1>12. ASSUME NEW t \in Threads, Fail(t) PROVE FeedsInv'
  <2>1. UNCHANGED <<up, reply, feeds>>
    BY <1>12 DEF Fail, sessVars
  <2>2. \E p \in {"done", "loop", "idle"} : place' = [place EXCEPT ![t] = p]
    BY <1>12 DEF Fail, Unlock
  <2> QED BY <1>03, <1>04, <2>1, <2>2
<1>13. CASE UNCHANGED vars
  BY <1>06, <1>13 DEF vars, sessVars, progVars
<1> QED
  BY <1>1, <1>3, <1>4, <1>5, <1>6, <1>7, <1>8, <1>9, <1>10, <1>11, <1>12, <1>13,
     <1>14 DEF Next

\* An open connection with nothing on it starts there.
LEMMA InitTypes == Init => TypeInv
<1> SUFFICES ASSUME Init PROVE TypeInv
  OBVIOUS
<1> USE SizesAssumption, BoundsAssumption DEF Init
<1>1. ShapeInv
  BY DEF ShapeInv, Ids, Resting, Threads, Places, Writing, Reading, Nothing, Packets
<1>2. Asked = {} /\ Answering = 0 /\ Asking = Readers
  BY DEF Asked, Answering, Asking, Threads
<1>3. Cardinality(Asked) = 0 /\ Cardinality(Readers) \in Nat
  BY <1>2, FS_EmptySet, FS_CardinalityType, ThreadsAssumption
<1> QED BY <1>1, <1>2, <1>3 DEF TypeInv, FeedsInv

\* Every step keeps the types.
LEMMA TypeStep == TypeInv /\ [Next]_vars => TypeInv'
BY ShapeStep, FeedsStep DEF TypeInv

\* Packet ids stay in their range when they overflow, the queues and SeenCache in
\* their capacity, connMu belongs to a goroutine of the program or to nobody, and
\* there are never more live subscriptions than calls of Subscribe.
THEOREM LinkTypes == Spec => []LinkTypeOK
<1>1. TypeInv => LinkTypeOK
  <2> SUFFICES ASSUME TypeInv PROVE LinkTypeOK
    OBVIOUS
  <2>1. feeds \in 0..Cardinality(Readers)
    <3>1. IsFiniteSet(Asking) /\ IsFiniteSet(Readers)
      BY ThreadsAssumption, FS_Subset DEF Asking
    <3>2. IsFiniteSet(Asked)
      <4>1. DOMAIN up = 1 .. Len(up) /\ Len(up) \in Nat
        BY DEF TypeInv, ShapeInv
      <4>2. IsFiniteSet(DOMAIN up)
        BY <4>1, FS_Interval
      <4> QED BY <4>2, FS_Subset DEF Asked
    <3>3. /\ Cardinality(Asking) \in Nat /\ Cardinality(Asked) \in Nat
          /\ Cardinality(Readers) \in Nat /\ feeds \in Nat /\ Answering \in {0, 1}
      BY <3>1, <3>2, FS_CardinalityType DEF TypeInv, ShapeInv, Answering
    <3> QED BY <3>3 DEF TypeInv, FeedsInv
  <2>2. down \in Seq(Downward) /\ up \in Seq(Upward)
    BY DEF TypeInv, ShapeInv, Downward, Upward
  <2>3. (\A n \in DOMAIN down : down[n] \in Downward) /\ (\A n \in DOMAIN up : up[n] \in Upward)
    BY <2>2
  <2> QED BY <2>1, <2>3 DEF TypeInv, ShapeInv, LinkTypeOK, Places, Downward, Upward
<1> QED BY <1>1, InitTypes, TypeStep, PTL DEF Spec

-----------------------------------------------------------------------------
(* SeenCache. *)

\* Only CheckSeen touches SeenCache or lets a message through.
LEMMA CheckSeenOnly ==
    ASSUME [Next]_vars
    PROVE  (\E r \in Readers : CheckSeen(r)) \/ UNCHANGED <<seen, passed>>
BY DEF Next, vars, progVars, AllocPacketID, AllocSpins, Track, WriteMessage, RetransmitPick,
       RetransmitWrite, HandlePubAck, HandleRequest, Reply, CatchUpEnds, Lock, SendSubscribe,
       SendPubAck, ReadSuback, ReadLoop, Cancel, CallHandler, BeginPublish,
       WritePublish, BeginClose, CloseConn, Fail, Cut

\* A message that the cache does not have was not among the last SeenCap it let through.
LEMMA SeenStep ==
    ASSUME ShapeInv, SeenInv, [Next]_vars
    PROVE  SeenInv'
<1>1. CASE UNCHANGED <<seen, passed>>
  BY <1>1 DEF SeenInv, HandlerOnce
<1>2. ASSUME NEW r \in Readers, CheckSeen(r), ~IsSeen(hand[r].msg), hand[r].msg \notin Nameless
      PROVE  SeenInv'
  <2> DEFINE m == hand[r].msg
             keys == Append(seen, m)
             L == Len(seen)
             C == Len(passed)
  <2>1. /\ m \in 0..MaxMsgs /\ seen \in Seq(0..MaxMsgs) /\ passed \in Seq(0..MaxMsgs)
        /\ L \in Nat /\ C \in Nat /\ L <= SeenCap /\ SeenCap \in Nat \ {0}
        /\ DOMAIN seen = 1 .. L /\ DOMAIN passed = 1 .. C
    BY SizesAssumption DEF ShapeInv, Packets
  <2>2. passed' = Append(passed, m) /\ seen' = Remember(m)
    BY <1>2 DEF CheckSeen
  <2> HIDE DEF m
  <2>3. /\ Len(passed') = C + 1 /\ DOMAIN passed' = 1 .. C + 1
        /\ \A n \in 1 .. C : passed'[n] = passed[n]
        /\ passed'[C + 1] = m
    BY <2>1, <2>2
  <2>4. /\ keys \in Seq(0..MaxMsgs) /\ Len(keys) = L + 1 /\ keys[L + 1] = m
        /\ \A n \in 1 .. L : keys[n] = seen[n]
    BY <2>1
  <2>5. L \in Nat /\ C \in Nat /\ L <= SeenCap /\ SeenCap \in Nat
    BY <2>1
  <2>6. /\ L = IF C < SeenCap THEN C ELSE SeenCap
        /\ \A n \in 1 .. L : seen[n] = passed[C - L + n]
    BY <2>1 DEF SeenInv
  <2>7. /\ Len(seen') = IF C + 1 < SeenCap THEN C + 1 ELSE SeenCap
        /\ \A n \in DOMAIN seen' : seen'[n] = passed'[C + 1 - Len(seen') + n]
    <3>1. CASE L + 1 > SeenCap
      <4>1. L = SeenCap /\ C >= SeenCap
        BY <2>6, <2>5, <3>1
      <4>2. seen' = Tail(keys)
        BY <2>2, <2>4, <3>1 DEF Remember
      <4>3. Len(seen') = L /\ DOMAIN seen' = 1 .. L /\ \A n \in 1 .. L : seen'[n] = keys[n + 1]
        BY <2>1, <2>4, <4>2
      <4>4. ASSUME NEW n \in 1 .. L PROVE seen'[n] = passed'[C + 1 - L + n]
        <5>1. CASE n = L
          BY <2>1, <2>3, <2>4, <4>1, <4>3, <5>1
        <5>2. CASE n # L
          <6>1. n + 1 \in 1 .. L /\ C - L + (n + 1) \in 1 .. C /\ C + 1 - L + n = C - L + (n + 1)
            BY <2>1, <4>1, <4>4, <5>2
          <6>2. seen'[n] = seen[n + 1]
            BY <2>4, <4>3, <6>1
          <6>3. seen[n + 1] = passed[C - L + (n + 1)]
            BY <2>6, <6>1
          <6>4. passed'[C + 1 - L + n] = passed[C - L + (n + 1)]
            BY <2>3, <6>1
          <6> QED BY <6>2, <6>3, <6>4
        <5> QED BY <5>1, <5>2
      <4> QED BY <2>1, <4>1, <4>3, <4>4
    <3>2. CASE ~(L + 1 > SeenCap)
      <4>1. L = C /\ C < SeenCap
        BY <2>6, <2>5, <3>2
      <4>2. seen' = keys
        BY <2>2, <2>4, <3>2 DEF Remember
      <4>3. ASSUME NEW n \in 1 .. L + 1 PROVE keys[n] = passed'[n]
        <5>1. CASE n = L + 1
          BY <2>3, <2>4, <4>1, <5>1
        <5>2. CASE n # L + 1
          <6>1. n \in 1 .. L /\ C - L + n = n
            BY <2>1, <4>1, <4>3, <5>2
          <6> QED BY <2>3, <2>4, <2>6, <4>1, <6>1
        <5> QED BY <5>1, <5>2
      <4>4. Len(seen') = C + 1 /\ DOMAIN seen' = 1 .. L + 1
        BY <2>4, <4>1, <4>2
      <4> QED BY <2>1, <4>1, <4>2, <4>3, <4>4
    <3> QED BY <3>1, <3>2
  <2>8. HandlerOnce'
    <3>1. SUFFICES ASSUME NEW i \in 1 .. C + 1, NEW j \in 1 .. C + 1, i < j,
                          passed'[i] = passed'[j]
                   PROVE  j - i > SeenCap
      BY <2>3 DEF HandlerOnce
    <3>2. i \in 1 .. C /\ passed'[i] = passed[i]
      BY <2>1, <2>3, <3>1
    <3>3. CASE j # C + 1
      <4>1. j \in 1 .. C /\ passed'[j] = passed[j]
        BY <2>1, <2>3, <3>3
      <4> QED BY <2>1, <3>1, <3>2, <4>1 DEF SeenInv, HandlerOnce
    <3>4. CASE j = C + 1
      <4>1. passed[i] = m
        BY <2>3, <3>1, <3>2, <3>4
      <4>2. ~(i > C - L)
        <5>1. SUFFICES ASSUME i > C - L PROVE FALSE
          OBVIOUS
        <5>2. i - (C - L) \in 1 .. L /\ C - L + (i - (C - L)) = i
          BY <2>1, <3>2, <5>1
        <5>3. seen[i - (C - L)] = m
          BY <2>6, <4>1, <5>2
        <5> QED BY <1>2, <2>1, <5>2, <5>3 DEF IsSeen, m
      <4> QED BY <2>1, <2>6, <3>2, <3>4, <4>2
    <3> QED BY <3>3, <3>4
  <2> QED BY <2>3, <2>7, <2>8 DEF SeenInv
<1>3. ASSUME NEW r \in Readers, CheckSeen(r), IsSeen(hand[r].msg) \/ hand[r].msg \in Nameless
      PROVE  SeenInv'
  BY <1>1, <1>3 DEF CheckSeen
<1> QED BY <1>1, <1>2, <1>3, CheckSeenOnly

\* CallHandler follows CheckSeen in the same reader, and nothing comes between.
LEMMA PassedStep ==
    ASSUME ShapeInv, PassedInv, [Next]_vars
    PROVE  PassedInv'
<1>0. /\ place \in [Threads -> Places] /\ hand \in [Readers -> Packets({"none", "PUBLISH"})]
      /\ passed \in Seq(0..MaxMsgs) /\ Readers \subseteq Threads
      /\ \A t \in Readers : t \notin Callers
  BY ThreadsAssumption DEF ShapeInv, Threads
<1> DEFINE Carries(r, m) == place[r] = "handle" /\ hand[r].msg = m
<1>1. ASSUME UNCHANGED <<passed, handled>>,
             \A r \in Readers : place[r] = "handle" => place'[r] = "handle" /\ hand'[r] = hand[r]
      PROVE  PassedInv'
  BY <1>1 DEF PassedInv
<1>2. ASSUME NEW t \in Threads, NEW p, place' = [place EXCEPT ![t] = p], place[t] # "handle",
             UNCHANGED <<passed, handled, hand>>
      PROVE  PassedInv'
  BY <1>0, <1>1, <1>2
<1>3. ASSUME NEW r \in Readers, CheckSeen(r) PROVE PassedInv'
  <2>1. CASE IsSeen(hand[r].msg) \/ hand[r].msg \in Nameless
    BY <1>0, <1>2, <1>3, <2>1 DEF CheckSeen
  <2>2. CASE ~(IsSeen(hand[r].msg) \/ hand[r].msg \in Nameless)
    <3> DEFINE m == hand[r].msg
    <3>1. passed' = Append(passed, m) /\ m \in 0..MaxMsgs
      BY <1>0, <1>3, <2>2 DEF CheckSeen, Packets
    <3>2. /\ place'[r] = "handle" /\ hand' = hand /\ handled' = handled
          /\ \A q \in Readers : place[q] = "handle" => place'[q] = "handle"
      BY <1>0, <1>3, <2>2 DEF CheckSeen
    <3> HIDE DEF m
    <3>3. /\ DOMAIN passed' = DOMAIN passed \cup {Len(passed) + 1}
          /\ passed'[Len(passed) + 1] = m
          /\ \A n \in DOMAIN passed : passed'[n] = passed[n]
      BY <1>0, <3>1, Enqueue
    <3>4. ASSUME NEW n \in DOMAIN passed PROVE
              passed'[n] \in handled' \/ \E q \in Readers : Carries(q, passed[n])'
      BY <3>2, <3>3 DEF PassedInv
    <3> QED BY <3>2, <3>3, <3>4 DEF PassedInv, m
  <2> QED BY <2>1, <2>2
<1>4. ASSUME NEW r \in Readers, CallHandler(r) PROVE PassedInv'
  <2>1. /\ UNCHANGED <<passed, hand>> /\ handled' = handled \cup {hand[r].msg}
        /\ \A q \in Readers : q # r => place'[q] = place[q]
    BY <1>0, <1>4 DEF CallHandler
  <2> QED BY <2>1 DEF PassedInv
<1> USE DEF progVars
<1>5. ASSUME NEW s \in Senders, AllocPacketID(s) \/ AllocSpins(s) \/ Track(s) \/ WriteMessage(s)
      PROVE  PassedInv'
  BY <1>1, <1>5 DEF AllocPacketID, AllocSpins, Track, WriteMessage
<1>6. CASE \/ RetransmitPick \/ RetransmitWrite \/ HandlePubAck \/ HandleRequest \/ Reply
           \/ CatchUpEnds \/ Cut \/ UNCHANGED vars \/ \E t \in Threads : Lock(t)
  BY <1>1, <1>6 DEF RetransmitPick, RetransmitWrite, HandlePubAck, HandleRequest, Reply,
                    CatchUpEnds, Cut, Lock, vars
<1>7. ASSUME NEW r \in Readers, SendSubscribe(r) \/ ReadSuback(r) \/ Cancel(r) PROVE PassedInv'
  BY <1>0, <1>2, <1>7 DEF SendSubscribe, ReadSuback, Cancel, Unlock
<1>8. ASSUME NEW r \in Readers, SendPubAck(r) \/ ReadLoop(r) PROVE PassedInv'
  <2>1. /\ UNCHANGED <<passed, handled>> /\ place[r] # "handle"
        /\ \A q \in Readers : q # r => place'[q] = place[q] /\ hand'[q] = hand[q]
    BY <1>0, <1>8 DEF SendPubAck, ReadLoop, Unlock
  <2> QED BY <1>1, <2>1
<1>9. ASSUME NEW c \in Callers,
             BeginPublish(c) \/ WritePublish(c) \/ BeginClose(c) \/ CloseConn(c)
      PROVE  PassedInv'
  BY <1>0, <1>2, <1>9 DEF BeginPublish, WritePublish, BeginClose, CloseConn, Unlock, Threads
<1>10. ASSUME NEW t \in Threads, Fail(t) PROVE PassedInv'
  <2>1. /\ UNCHANGED <<passed, handled>> /\ place[t] # "handle"
        /\ \E p : place' = [place EXCEPT ![t] = p]
        /\ hand' = hand \/ hand' = [hand EXCEPT ![t] = Nothing]
    BY <1>10 DEF Fail, Unlock, Writing, Reading
  <2>2. \A q \in Readers : q # t => place'[q] = place[q] /\ hand'[q] = hand[q]
    BY <1>0, <2>1
  <2> QED BY <1>1, <2>1, <2>2
<1> QED
  BY <1>3, <1>4, <1>5, <1>6, <1>7, <1>8, <1>9, <1>10 DEF Next

\* Seen lets a message with a server id through a second time only after SeenCap others,
\* however the broker retransmits and however many subscriptions read: it looks and
\* inserts under one lock, and the cache is the last SeenCap messages it let through.
THEOREM LinkHandlerOnce == Spec => []HandlerOnce
<1>1. Init => SeenInv
  BY SizesAssumption DEF Init, SeenInv, HandlerOnce
<1>2. SeenInv => HandlerOnce
  BY DEF SeenInv
<1>3. TypeInv => ShapeInv
  BY DEF TypeInv
<1> QED BY <1>1, <1>2, <1>3, InitTypes, TypeStep, SeenStep, PTL DEF Spec

-----------------------------------------------------------------------------
(* Packets and their ids. *)

\* Every step keeps ids with messages and their PUBACKs.
LEMMA PacketStep ==
    ASSUME ShapeInv, PacketInv, [Next]_vars
    PROVE  PacketInv'
<1>0. /\ MaxId \in Nat \ {0} /\ MaxMsgs \in Nat /\ 0 \notin Ids /\ Readers \subseteq Threads
      /\ \A t \in Readers : t \notin Callers
  BY SizesAssumption, BoundsAssumption, ThreadsAssumption DEF Ids, Threads
<1> DEFINE Down == \A n \in DOMAIN down : IF down[n].type = "PUBLISH" THEN down[n].id \in Ids
                                          ELSE down[n].id = 0
           Up == \A n \in DOMAIN up : IF up[n].type = "PUBACK" THEN up[n].id \in Ids
                                      ELSE up[n].id = 0
           Again == \A a \in again : a.id \in Ids
           Hand == \A r \in Readers : IF place[r] \in Holding
                                      THEN hand[r].type = "PUBLISH" /\ hand[r].id \in Ids
                                      ELSE hand[r].id = 0
           Sender == \A s \in Senders : IF sender[s].at \in {"track", "write"}
                                        THEN sender[s].id \in Ids /\ sender[s].msg # 0
                                        ELSE sender[s].id = 0
<1>00. Down /\ Up /\ Again /\ Hand /\ Sender
  BY DEF PacketInv
<1> SUFFICES Down' /\ Up' /\ Again' /\ Hand' /\ Sender'
  BY DEF PacketInv
<1>01. /\ UNCHANGED down => Down'
       /\ UNCHANGED up => Up'
       /\ UNCHANGED again => Again'
       /\ UNCHANGED <<place, hand>> => Hand'
       /\ UNCHANGED sender => Sender'
  BY <1>00
<1>02. /\ sender \in [Senders -> [at : {"idle", "track", "write", "spin"}, id : 0..MaxId,
                                  msg : 0..MaxMsgs]]
       /\ place \in [Threads -> Places]
       /\ hand \in [Readers -> Packets({"none", "PUBLISH"})]
       /\ taken \in Nat
  BY <1>0 DEF ShapeInv
<1>03. ASSUME NEW p \in Downward, SendDown(p),
              IF p.type = "PUBLISH" THEN p.id \in Ids ELSE p.id = 0
       PROVE  Down'
  BY <1>00, <1>03, SentDown
<1>04. ASSUME NEW p \in Upward, SendUp(p),
              IF p.type = "PUBACK" THEN p.id \in Ids ELSE p.id = 0
       PROVE  Up'
  BY <1>00, <1>04, SentUp
<1>05. ASSUME down # << >>, down' = Tail(down) PROVE Down'
  BY <1>00, <1>05, TakenDown
<1>06. ASSUME up # << >>, up' = Tail(up) PROVE Up'
  BY <1>00, <1>06, TakenUp
<1>07. ASSUME NEW t \in Threads, NEW p, place' = [place EXCEPT ![t] = p], UNCHANGED hand,
              place[t] \in Holding <=> p \in Holding
       PROVE  Hand'
  BY <1>0, <1>00, <1>02, <1>07
<1> USE DEF sessVars, progVars, Holding
<1> DEFINE Kept == Down /\ Up /\ Again /\ Hand /\ Sender
<1> HIDE DEF Down, Up, Again, Hand, Sender
<1>1. ASSUME NEW s \in Senders, AllocPacketID(s) PROVE Kept'
  <2>1. Sender'
    BY <1>0, <1>00, <1>02, <1>1 DEF AllocPacketID, Sender
  <2> QED BY <1>00, <1>01, <1>1, <2>1 DEF AllocPacketID
<1>2. ASSUME NEW s \in Senders, AllocSpins(s) PROVE Kept'
  <2>1. Sender'
    BY <1>00, <1>02, <1>2 DEF AllocSpins, Sender
  <2> QED BY <1>00, <1>01, <1>2, <2>1 DEF AllocSpins
<1>3. ASSUME NEW s \in Senders, Track(s) PROVE Kept'
  <2>1. Sender'
    BY <1>00, <1>02, <1>3 DEF Track, Sender
  <2> QED BY <1>00, <1>01, <1>3, <2>1 DEF Track
<1>4. ASSUME NEW s \in Senders, WriteMessage(s) PROVE Kept'
  <2> DEFINE p == Packet("PUBLISH", sender[s].id, sender[s].msg)
  <2>1. p \in Downward /\ p.type = "PUBLISH" /\ p.id \in Ids
    BY <1>00, <1>02, <1>4 DEF WriteMessage, Packet, Downward, Packets, Sender
  <2>2. SendDown(p)
    BY <1>4 DEF WriteMessage
  <2>3. Down'
    <3> HIDE DEF p
    <3> QED BY <1>03, <2>1, <2>2
  <2>4. Sender'
    BY <1>00, <1>02, <1>4 DEF WriteMessage, Resting, Sender
  <2> QED BY <1>01, <1>4, <2>3, <2>4 DEF WriteMessage
<1>5. ASSUME RetransmitPick PROVE Kept'
  <2>1. \A a \in again' : a.id \in Ids
    BY <1>5 DEF RetransmitPick, Packet
  <2> QED BY <1>01, <1>5, <2>1 DEF RetransmitPick, Again
<1>6. ASSUME RetransmitWrite PROVE Kept'
  <2>1. PICK a \in again : SendDown(a) /\ again' = again \ {a}
    BY <1>6 DEF RetransmitWrite
  <2>2. a \in Downward /\ a.type = "PUBLISH" /\ a.id \in Ids
    BY <1>00 DEF ShapeInv, Downward, Packets, Again
  <2>3. Down' /\ Again'
    BY <1>00, <1>03, <2>1, <2>2 DEF Again
  <2> QED BY <1>01, <1>6, <2>3 DEF RetransmitWrite
<1>7. ASSUME HandlePubAck PROVE Kept'
  BY <1>01, <1>06, <1>7 DEF HandlePubAck
<1>8. ASSUME HandleRequest PROVE Kept'
  BY <1>01, <1>06, <1>8 DEF HandleRequest
<1>9. ASSUME Reply PROVE Kept'
  <2> DEFINE p == Packet(reply, 0, 0)
  <2>1. p \in Downward /\ p.type # "PUBLISH" /\ p.id = 0
    BY <1>0, <1>9 DEF Reply, ShapeInv, Packet, Downward, Packets
  <2>2. SendDown(p)
    BY <1>9 DEF Reply
  <2>3. Down'
    <3> HIDE DEF p
    <3> QED BY <1>03, <2>1, <2>2
  <2> QED BY <1>01, <1>9, <2>3 DEF Reply
<1>24. ASSUME CatchUpEnds PROVE Kept'
  BY <1>01, <1>24 DEF CatchUpEnds
<1>10. ASSUME NEW t \in Threads, Lock(t) PROVE Kept'
  BY <1>01, <1>10 DEF Lock
<1>11. ASSUME NEW r \in Readers, SendSubscribe(r) PROVE Kept'
  <2> DEFINE p == Packet("SUBSCRIBE", 0, 0)
  <2>1. p \in Upward /\ p.type # "PUBACK" /\ p.id = 0
    BY <1>0, <1>00, <1>02, <1>11 DEF SendSubscribe, Packet, Upward, Packets, Hand
  <2>2. SendUp(p)
    BY <1>11 DEF SendSubscribe
  <2>3. Up'
    <3> HIDE DEF p
    <3> QED BY <1>04, <2>1, <2>2
  <2>4. Hand'
    BY <1>0, <1>07, <1>11 DEF SendSubscribe, Unlock
  <2> QED BY <1>01, <1>11, <2>3, <2>4 DEF SendSubscribe
<1>12. ASSUME NEW r \in Readers, SendPubAck(r) PROVE Kept'
  <2> DEFINE p == Packet("PUBACK", hand[r].id, 0)
  <2>1. p \in Upward /\ p.type = "PUBACK" /\ p.id \in Ids
    BY <1>0, <1>00, <1>02, <1>12 DEF SendPubAck, Packet, Upward, Packets, Hand
  <2>2. SendUp(p)
    BY <1>12 DEF SendPubAck
  <2>3. Up'
    <3> HIDE DEF p
    <3> QED BY <1>04, <2>1, <2>2
  <2>4. Hand'
    BY <1>0, <1>00, <1>02, <1>12 DEF SendPubAck, Unlock, Nothing, Hand
  <2> QED BY <1>01, <1>12, <2>3, <2>4 DEF SendPubAck
<1>13. ASSUME NEW r \in Readers, ReadSuback(r) PROVE Kept'
  <2>1. Down' /\ Hand'
    BY <1>0, <1>05, <1>07, <1>13 DEF ReadSuback, Unlock
  <2> QED BY <1>01, <1>13, <2>1 DEF ReadSuback
<1>14. ASSUME NEW r \in Readers, ReadLoop(r) PROVE Kept'
  <2>1. Down'
    BY <1>05, <1>14 DEF ReadLoop
  <2>2. CASE Head(down).type = "PUBLISH"
    <3>1. Head(down).id \in Ids
      BY <1>00, <1>14, <2>2, TakenDown DEF ReadLoop, Down
    <3>2. Hand'
      BY <1>0, <1>00, <1>02, <1>14, <2>2, <3>1 DEF ReadLoop, Unlock, Hand
    <3> QED BY <1>01, <1>14, <2>1, <3>2 DEF ReadLoop
  <2>3. CASE Head(down).type # "PUBLISH"
    <3>1. Hand'
      BY <1>0, <1>07, <1>14, <2>3 DEF ReadLoop, Unlock
    <3> QED BY <1>01, <1>14, <2>1, <3>1 DEF ReadLoop
  <2> QED BY <2>2, <2>3
<1>15. ASSUME NEW r \in Readers, Cancel(r) PROVE Kept'
  <2>1. Hand'
    BY <1>0, <1>07, <1>15 DEF Cancel, Unlock, Threads
  <2> QED BY <1>01, <1>15, <2>1 DEF Cancel
<1>16. ASSUME NEW r \in Readers, CheckSeen(r) PROVE Kept'
  <2>1. Hand'
    BY <1>0, <1>07, <1>16 DEF CheckSeen, Unlock, Threads
  <2> QED BY <1>01, <1>16, <2>1 DEF CheckSeen
<1>25. ASSUME NEW r \in Readers, CallHandler(r) PROVE Kept'
  <2>1. Hand'
    BY <1>0, <1>07, <1>25 DEF CallHandler, Threads
  <2> QED BY <1>01, <1>25, <2>1 DEF CallHandler
<1>17. ASSUME NEW c \in Callers, BeginPublish(c) PROVE Kept'
  <2>1. Hand'
    BY <1>0, <1>07, <1>17 DEF BeginPublish, Unlock, Threads
  <2> QED BY <1>01, <1>17, <2>1 DEF BeginPublish
<1>18. ASSUME NEW c \in Callers, WritePublish(c) PROVE Kept'
  <2> DEFINE p == Packet("PUBLISH", 0, 0)
  <2>1. p \in Upward /\ p.type # "PUBACK" /\ p.id = 0
    BY <1>0, <1>00, <1>02, <1>18 DEF WritePublish, Packet, Upward, Packets, Hand
  <2>2. SendUp(p)
    BY <1>18 DEF WritePublish
  <2>3. Up'
    <3> HIDE DEF p
    <3> QED BY <1>04, <2>1, <2>2
  <2>4. Hand'
    BY <1>07, <1>18 DEF WritePublish, Unlock, Threads
  <2> QED BY <1>01, <1>18, <2>3, <2>4 DEF WritePublish
<1>19. ASSUME NEW c \in Callers, BeginClose(c) PROVE Kept'
  <2>1. Hand'
    BY <1>0, <1>07, <1>19 DEF BeginClose, Unlock, Threads
  <2> QED BY <1>01, <1>19, <2>1 DEF BeginClose
<1>20. ASSUME NEW c \in Callers, CloseConn(c) PROVE Kept'
  <2>1. Hand'
    BY <1>0, <1>07, <1>20 DEF CloseConn, Unlock, Threads
  <2> QED BY <1>01, <1>20, <2>1 DEF CloseConn
<1>21. ASSUME NEW t \in Threads, Fail(t) PROVE Kept'
  <2>1. CASE place[t] = "puback"
    <3>1. Hand'
      BY <1>0, <1>00, <1>02, <1>21, <2>1 DEF Fail, Unlock, Nothing, Hand
    <3> QED BY <1>01, <1>21, <3>1 DEF Fail
  <2>2. CASE place[t] # "puback"
    <3>1. \E p \in {"done", "idle"} : place' = [place EXCEPT ![t] = p]
      BY <1>21, <2>2 DEF Fail, Unlock
    <3>2. Hand'
      BY <1>07, <1>21, <2>2, <3>1 DEF Fail, Writing, Reading
    <3> QED BY <1>01, <1>21, <3>2 DEF Fail
  <2> QED BY <2>1, <2>2
<1>22. ASSUME Cut PROVE Kept'
  BY <1>01, <1>22 DEF Cut
<1>23. ASSUME UNCHANGED vars PROVE Kept'
  BY <1>01, <1>23 DEF vars
<1> QED
  BY <1>1, <1>2, <1>3, <1>4, <1>5, <1>6, <1>7, <1>8, <1>9, <1>10, <1>11, <1>12,
     <1>13, <1>14, <1>15, <1>16, <1>17, <1>18, <1>19, <1>20, <1>21, <1>22, <1>23,
     <1>24, <1>25
     DEF Next, Kept

\* A line without packets starts there.
LEMMA InitPackets == Init => PacketInv
BY SizesAssumption DEF Init, PacketInv, Holding, Threads, Nothing, Resting, Ids

-----------------------------------------------------------------------------
(* What Subscribe reads as its SUBACK. *)

\* With one call of Subscribe, no message is written before its SUBACK, and it reads
\* the line alone until then.
LEMMA LineStep ==
    ASSUME ShapeInv, PacketInv, LineInv, [Next]_vars, \A r1, r2 \in Readers : r1 = r2
    PROVE  LineInv'
<1>0. Readers \subseteq Threads /\ (\A t \in Readers : t \notin Callers) /\ feeds \in Nat
  BY ThreadsAssumption DEF Threads, ShapeInv
<1> DEFINE Quiet == /\ \A s \in Senders : sender[s].at = "idle"
                    /\ again = {} /\ \A i \in Ids : ~Used(i)
                    /\ \A n \in DOMAIN down : down[n].type # "PUBLISH"
           Early == ~Live => Quiet
           First == \E m \in DOMAIN down :
                        /\ down[m].type = "SUBACK"
                        /\ \A n \in DOMAIN down : down[n].type = "PUBLISH" => m < n
           Ahead == \A r \in Readers : place[r] \in {"subscribe", "suback"} /\ Live => First
<1>00. Early /\ Ahead /\ SubackNotMessage
  BY DEF LineInv
<1> SUFFICES Early' /\ Ahead' /\ SubackNotMessage'
  BY DEF LineInv
<1>01. /\ UNCHANGED <<feeds, reply, sender, again, inflight, down>> => Early'
       /\ UNCHANGED <<place, feeds, reply, down>> => Ahead'
       /\ UNCHANGED skipped => SubackNotMessage'
  BY <1>00 DEF SubackNotMessage, Used, Live
<1>02. /\ sender \in [Senders -> [at : {"idle", "track", "write", "spin"}, id : 0..MaxId,
                                  msg : 0..MaxMsgs]]
       /\ place \in [Threads -> Places]
       /\ inflight \in [Ids -> 0..MaxMsgs]
  BY DEF ShapeInv
<1>03. Live /\ UNCHANGED <<feeds, reply>> => Early'
  BY DEF Live
<1>04. ASSUME NEW p \in Downward, SendDown(p), First PROVE First'
  <2>1. PICK m \in DOMAIN down : /\ down[m].type = "SUBACK"
                                 /\ \A n \in DOMAIN down : down[n].type = "PUBLISH" => m < n
    BY <1>04
  <2>2. m \in DOMAIN down' /\ down'[m].type = "SUBACK"
    BY <1>04, <2>1, SentDown
  <2>3. \A n \in DOMAIN down' : down'[n].type = "PUBLISH" => m < n
    BY <1>04, <2>1, SentDown
  <2> QED BY <2>2, <2>3
<1>05. ASSUME NEW p \in Downward, SendDown(p), UNCHANGED place, Live' => Live PROVE Ahead'
  <2> HIDE DEF First
  <2> QED BY <1>00, <1>04, <1>05
<1>06. ASSUME NEW t \in Threads, NEW p, place' = [place EXCEPT ![t] = p],
              UNCHANGED <<feeds, reply, down>>,
              p \in {"subscribe", "suback"} => place[t] \in {"subscribe", "suback"}
       PROVE  Ahead'
  <2>1. First => First'
    BY <1>06
  <2> HIDE DEF First
  <2> QED BY <1>0, <1>00, <1>02, <1>06, <2>1 DEF Live
<1>07. ASSUME NEW r \in Readers, place'[r] \notin {"subscribe", "suback"} PROVE Ahead'
  BY <1>07
<1>08. ASSUME down # << >>, down' = Tail(down), UNCHANGED <<feeds, reply, sender, again, inflight>>
       PROVE  Early'
  BY <1>00, <1>08, TakenDown DEF Used, Live
<1> USE DEF sessVars, progVars
<1> DEFINE Kept == Early /\ Ahead /\ SubackNotMessage
<1> HIDE DEF Early, Ahead, SubackNotMessage, Quiet, First
<1>1. ASSUME NEW s \in Senders, AllocPacketID(s) PROVE Kept'
  <2>1. Early'
    BY <1>0, <1>03, <1>1 DEF AllocPacketID, MayDeliver, Live
  <2> QED BY <1>01, <1>1, <2>1 DEF AllocPacketID
<1>2. ASSUME NEW s \in Senders, AllocSpins(s) PROVE Kept'
  <2>1. Early'
    BY <1>0, <1>03, <1>2 DEF AllocSpins, MayDeliver, Live
  <2> QED BY <1>01, <1>2, <2>1 DEF AllocSpins
<1>3. ASSUME NEW s \in Senders, Track(s) PROVE Kept'
  <2>1. Live
    BY <1>00, <1>3 DEF Track, Early, Quiet
  <2> QED BY <1>01, <1>03, <1>3, <2>1 DEF Track
<1>4. ASSUME NEW s \in Senders, WriteMessage(s) PROVE Kept'
  <2> DEFINE p == Packet("PUBLISH", sender[s].id, sender[s].msg)
  <2>1. Live
    BY <1>00, <1>4 DEF WriteMessage, Early, Quiet
  <2>2. p \in Downward
    BY <1>02 DEF Packet, Downward, Packets
  <2>3. SendDown(p) /\ UNCHANGED place /\ (Live' => Live)
    BY <1>4 DEF WriteMessage, Live
  <2>4. Ahead'
    <3> HIDE DEF p
    <3> QED BY <1>05, <2>2, <2>3
  <2> QED BY <1>01, <1>03, <1>4, <2>1, <2>4 DEF WriteMessage
<1>5. ASSUME RetransmitPick PROVE Kept'
  <2>1. Live
    BY <1>00, <1>5 DEF RetransmitPick, Early, Quiet
  <2> QED BY <1>01, <1>03, <1>5, <2>1 DEF RetransmitPick
<1>6. ASSUME RetransmitWrite PROVE Kept'
  <2>1. PICK a \in again : SendDown(a) /\ again' = again \ {a}
    BY <1>6 DEF RetransmitWrite
  <2>2. a \in Downward
    BY DEF ShapeInv, Downward, Packets
  <2>3. Live
    BY <1>00 DEF Early, Quiet
  <2>4. Ahead'
    BY <1>05, <1>6, <2>1, <2>2 DEF RetransmitWrite, Live
  <2> QED BY <1>01, <1>03, <1>6, <2>3, <2>4 DEF RetransmitWrite
<1>7. ASSUME HandlePubAck PROVE Kept'
  <2>1. \A i \in Ids : ~Used(i) => ~Used(i)'
    BY <1>02, <1>7 DEF HandlePubAck, Used
  <2>2. Early'
    BY <1>00, <1>7, <2>1 DEF HandlePubAck, Early, Quiet, Live
  <2> QED BY <1>01, <1>7, <2>2 DEF HandlePubAck
<1>8. ASSUME HandleRequest PROVE Kept'
  <2>1. Live' <=> Live
    BY <1>8 DEF HandleRequest, Live
  <2>2. Early' /\ Ahead'
    BY <1>00, <1>8, <2>1 DEF HandleRequest, Early, Quiet, Ahead, First, Used
  <2> QED BY <1>01, <1>8, <2>2 DEF HandleRequest
<1>9. ASSUME Reply PROVE Kept'
  <2> DEFINE p == Packet(reply, 0, 0)
  <2>1. p \in Downward /\ p.type = reply /\ reply # "PUBLISH" /\ reply \in {"SUBACK", "PUBACK"}
    BY <1>9, BoundsAssumption, SizesAssumption DEF Reply, ShapeInv, Packet, Downward, Packets
  <2>2. SendDown(p)
    BY <1>9 DEF Reply
  <2> HIDE DEF p
  <2>3. Early'
    <3>1. SUFFICES ASSUME ~Live' PROVE Quiet'
      BY DEF Early
    <3>2. ~Live /\ Quiet
      BY <1>00, <1>9, <3>1 DEF Reply, Early, Live
    <3>3. \A n \in DOMAIN down' : down'[n].type # "PUBLISH"
      BY <2>1, <2>2, <3>2, SentDown DEF Quiet
    <3> QED BY <1>9, <3>2, <3>3 DEF Reply, Quiet, Used
  <2>4. Ahead'
    <3>1. CASE Live' => Live
      BY <1>05, <1>9, <2>1, <2>2, <3>1 DEF Reply
    <3>2. CASE Live' /\ ~Live
      <4>0. reply = "SUBACK"
        BY <1>9, <3>2 DEF Reply, Live
      <4>1. \A n \in DOMAIN down' : down'[n].type # "PUBLISH"
        BY <1>00, <2>1, <2>2, <3>2, SentDown DEF Early, Quiet
      <4>2. Len(down) + 1 \in DOMAIN down' /\ down'[Len(down) + 1].type = "SUBACK"
        BY <2>1, <2>2, <4>0, SentDown
      <4> QED BY <4>1, <4>2 DEF Ahead, First
    <3> QED BY <3>1, <3>2
  <2> QED BY <1>01, <1>9, <2>3, <2>4 DEF Reply
<1>24. ASSUME CatchUpEnds PROVE Kept'
  <2>1. Live /\ Live'
    BY <1>0, <1>24 DEF CatchUpEnds, Live
  <2>2. Early' /\ Ahead'
    BY <1>00, <1>24, <2>1 DEF CatchUpEnds, Early, Ahead, First
  <2> QED BY <1>01, <1>24, <2>2 DEF CatchUpEnds
<1>10. ASSUME NEW t \in Threads, Lock(t) PROVE Kept'
  BY <1>01, <1>10 DEF Lock
<1>11. ASSUME NEW r \in Readers, SendSubscribe(r) PROVE Kept'
  <2>1. Ahead'
    BY <1>0, <1>06, <1>11 DEF SendSubscribe, Unlock, Threads
  <2> QED BY <1>01, <1>11, <2>1 DEF SendSubscribe
<1>12. ASSUME NEW r \in Readers, SendPubAck(r) PROVE Kept'
  <2>1. Ahead'
    BY <1>0, <1>06, <1>12 DEF SendPubAck, Unlock, Threads
  <2> QED BY <1>01, <1>12, <2>1 DEF SendPubAck
<1>13. ASSUME NEW r \in Readers, ReadSuback(r) PROVE Kept'
  <2>1. Early'
    BY <1>08, <1>13 DEF ReadSuback
  <2>2. place'[r] = "loop"
    BY <1>0, <1>02, <1>13 DEF ReadSuback, Unlock
  <2>3. Ahead'
    BY <1>07, <2>2
  <2>4. Head(down).type # "PUBLISH"
    <3>1. SUFFICES ASSUME down[1].type = "PUBLISH" PROVE FALSE
      BY <1>13, TakenDown DEF ReadSuback
    <3>2. 1 \in DOMAIN down /\ \A n \in DOMAIN down : n \in Nat /\ n >= 1
      BY <1>13, TakenDown DEF ReadSuback, ShapeInv
    <3>3. Live
      BY <1>0, <1>00, <3>1, <3>2 DEF Early, Quiet
    <3>4. First
      BY <1>00, <1>13, <3>3 DEF Ahead, ReadSuback
    <3> QED BY <3>1, <3>2, <3>4 DEF First
  <2> QED BY <1>01, <1>13, <2>1, <2>3, <2>4 DEF ReadSuback
<1>14. ASSUME NEW r \in Readers, ReadLoop(r) PROVE Kept'
  <2>1. Early'
    BY <1>08, <1>14 DEF ReadLoop
  <2>2. place'[r] \in {"loop", "deliver"}
    BY <1>0, <1>02, <1>14 DEF ReadLoop, Unlock
  <2>3. Ahead'
    BY <1>07, <2>2
  <2> QED BY <1>01, <1>14, <2>1, <2>3 DEF ReadLoop
<1>15. ASSUME NEW r \in Readers, Cancel(r) PROVE Kept'
  <2>1. Ahead'
    BY <1>0, <1>06, <1>15 DEF Cancel, Unlock, Threads
  <2> QED BY <1>01, <1>15, <2>1 DEF Cancel
<1>16. ASSUME NEW r \in Readers, CheckSeen(r) PROVE Kept'
  <2>1. Ahead'
    BY <1>0, <1>06, <1>16 DEF CheckSeen, Unlock, Threads
  <2> QED BY <1>01, <1>16, <2>1 DEF CheckSeen
<1>25. ASSUME NEW r \in Readers, CallHandler(r) PROVE Kept'
  <2>1. Ahead'
    BY <1>0, <1>06, <1>25 DEF CallHandler, Threads
  <2> QED BY <1>01, <1>25, <2>1 DEF CallHandler
<1>17. ASSUME NEW c \in Callers, BeginPublish(c) PROVE Kept'
  <2>1. Ahead'
    BY <1>0, <1>06, <1>17 DEF BeginPublish, Unlock, Threads
  <2> QED BY <1>01, <1>17, <2>1 DEF BeginPublish
<1>18. ASSUME NEW c \in Callers, WritePublish(c) PROVE Kept'
  <2>1. Ahead'
    BY <1>0, <1>06, <1>18 DEF WritePublish, Unlock, Threads
  <2> QED BY <1>01, <1>18, <2>1 DEF WritePublish
<1>19. ASSUME NEW c \in Callers, BeginClose(c) PROVE Kept'
  <2>1. Ahead'
    BY <1>0, <1>06, <1>19 DEF BeginClose, Unlock, Threads
  <2> QED BY <1>01, <1>19, <2>1 DEF BeginClose
<1>20. ASSUME NEW c \in Callers, CloseConn(c) PROVE Kept'
  <2>1. Ahead'
    BY <1>0, <1>06, <1>20 DEF CloseConn, Unlock, Threads
  <2> QED BY <1>01, <1>20, <2>1 DEF CloseConn
<1>21. ASSUME NEW t \in Threads, Fail(t) PROVE Kept'
  <2>1. \E p \in {"done", "loop", "idle"} : place' = [place EXCEPT ![t] = p]
    BY <1>21 DEF Fail, Unlock
  <2>2. Ahead'
    BY <1>06, <1>21, <2>1 DEF Fail
  <2> QED BY <1>01, <1>21, <2>2 DEF Fail
<1>22. ASSUME Cut PROVE Kept'
  BY <1>01, <1>22 DEF Cut
<1>23. ASSUME UNCHANGED vars PROVE Kept'
  BY <1>01, <1>23 DEF vars
<1> QED
  BY <1>1, <1>2, <1>3, <1>4, <1>5, <1>6, <1>7, <1>8, <1>9, <1>10, <1>11, <1>12,
     <1>13, <1>14, <1>15, <1>16, <1>17, <1>18, <1>19, <1>20, <1>21, <1>22, <1>23,
     <1>24, <1>25
     DEF Next, Kept

\* What Subscribe takes for its SUBACK is never a message, for a program with one
\* subscription: handleSubscribe starts the delivery after the SUBACK is written, and
\* the connection keeps the order. With a second subscription it is false.
THEOREM LinkSubackNotMessage ==
    ASSUME \A r1, r2 \in Readers : r1 = r2
    PROVE  Spec => []SubackNotMessage
<1>1. Init => LineInv
  BY DEF Init, LineInv, SubackNotMessage, Resting, Used, Live
<1>2. LineInv => SubackNotMessage
  BY DEF LineInv
<1>3. TypeInv => ShapeInv
  BY DEF TypeInv
<1>4. TypeInv /\ PacketInv /\ LineInv /\ [Next]_vars => LineInv'
  BY <1>3, LineStep
<1> QED BY <1>1, <1>2, <1>3, <1>4, InitTypes, TypeStep, InitPackets, PacketStep, PTL DEF Spec

-----------------------------------------------------------------------------
(* Entries of session.inflight and the packets under way. *)

\* The packet of an entry goes from the sender to the line, to the program's hand and
\* back as a PUBACK, and is lost only with the connection.
LEMMA UnderWayStep ==
    ASSUME ShapeInv, PacketInv, LineInv, EntryUnderWay, [Next]_vars,
           \A r1, r2 \in Readers : r1 = r2
    PROVE  EntryUnderWay'
<1> SUFFICES ASSUME NEW i \in Ids, open', inflight'[i] # 0 PROVE Trace(i)'
  BY DEF EntryUnderWay, Used
<1>0. i # 0 /\ Readers \subseteq Threads /\ \A t \in Readers : t \notin Callers
  BY SizesAssumption, ThreadsAssumption DEF Ids, Threads
<1> DEFINE OnDown == \E n \in DOMAIN down : down[n].id = i
           OnUp == \E n \in DOMAIN up : up[n].id = i
           InHand == \E r \in Readers : hand[r].id = i
           Again == \E a \in again : a.id = i
           Sent == \E s \in Senders : sender[s].id = i
           Somewhere == OnDown \/ OnUp \/ InHand \/ Again \/ Sent
<1>00. open /\ inflight[i] # 0 => Somewhere
  BY DEF EntryUnderWay, Trace, Used
<1> SUFFICES Somewhere'
  BY DEF Trace
<1>01. /\ UNCHANGED down /\ OnDown => OnDown'
       /\ UNCHANGED up /\ OnUp => OnUp'
       /\ UNCHANGED hand /\ InHand => InHand'
       /\ UNCHANGED again /\ Again => Again'
       /\ UNCHANGED sender /\ Sent => Sent'
  OBVIOUS
<1>02. /\ sender \in [Senders -> [at : {"idle", "track", "write", "spin"}, id : 0..MaxId,
                                  msg : 0..MaxMsgs]]
       /\ hand \in [Readers -> Packets({"none", "PUBLISH"})]
       /\ inflight \in [Ids -> 0..MaxMsgs]
  BY DEF ShapeInv
<1>03. ASSUME NEW p \in Downward, SendDown(p) PROVE (OnDown \/ p.id = i) => OnDown'
  BY <1>03, SentDown
<1>04. ASSUME NEW p \in Upward, SendUp(p) PROVE (OnUp \/ p.id = i) => OnUp'
  BY <1>04, SentUp
<1>05. ASSUME down # << >>, down' = Tail(down), Head(down).id # i PROVE OnDown => OnDown'
  BY <1>05, TakenDown
<1>06. ASSUME up # << >>, up' = Tail(up), Head(up).id # i PROVE OnUp => OnUp'
  BY <1>06, TakenUp
<1>07. ASSUME UNCHANGED <<open, inflight, down, up, hand, again, sender>> PROVE Somewhere'
  BY <1>00, <1>01, <1>07
<1> USE DEF sessVars, progVars
<1> HIDE DEF OnDown, OnUp, InHand, Again, Sent
<1>1. ASSUME NEW s \in Senders, AllocPacketID(s) PROVE Somewhere'
  <2>1. sender[s].id # i
    BY <1>0, <1>1 DEF AllocPacketID, PacketInv
  <2>2. Sent => Sent'
    BY <1>02, <1>1, <2>1 DEF AllocPacketID, Sent
  <2> QED BY <1>00, <1>01, <1>1, <2>2 DEF AllocPacketID
<1>2. ASSUME NEW s \in Senders, AllocSpins(s) PROVE Somewhere'
  <2>1. sender[s].id # i
    BY <1>0, <1>2 DEF AllocSpins, PacketInv
  <2>2. Sent => Sent'
    BY <1>02, <1>2, <2>1 DEF AllocSpins, Sent
  <2> QED BY <1>00, <1>01, <1>2, <2>2 DEF AllocSpins
<1>3. ASSUME NEW s \in Senders, Track(s) PROVE Somewhere'
  <2>1. sender'[s].id = sender[s].id /\ \A t \in Senders : sender'[t].id = sender[t].id
    BY <1>02, <1>3 DEF Track
  <2>2. Sent => Sent'
    BY <2>1 DEF Sent
  <2>3. CASE i = sender[s].id
    BY <2>1, <2>3 DEF Sent
  <2>4. CASE i # sender[s].id
    <3>1. inflight[i] # 0
      BY <1>02, <1>3, <2>4 DEF Track
    <3> QED BY <1>00, <1>01, <1>3, <2>2, <3>1 DEF Track
  <2> QED BY <2>3, <2>4
<1>4. ASSUME NEW s \in Senders, WriteMessage(s) PROVE Somewhere'
  <2> DEFINE p == Packet("PUBLISH", sender[s].id, sender[s].msg)
  <2>1. p \in Downward /\ p.id = sender[s].id
    BY <1>02 DEF Packet, Downward, Packets
  <2>2. SendDown(p)
    BY <1>4 DEF WriteMessage
  <2>3. (OnDown \/ sender[s].id = i) => OnDown'
    <3> HIDE DEF p
    <3> QED BY <1>03, <2>1, <2>2
  <2>4. Sent => Sent' \/ sender[s].id = i
    BY <1>02, <1>4 DEF WriteMessage, Sent
  <2> QED BY <1>00, <1>01, <1>4, <2>3, <2>4 DEF WriteMessage
<1>5. ASSUME RetransmitPick PROVE Somewhere'
  <2>1. ~Again
    BY <1>5 DEF RetransmitPick, Again
  <2> QED BY <1>00, <1>01, <1>5, <2>1 DEF RetransmitPick
<1>6. ASSUME RetransmitWrite PROVE Somewhere'
  <2>1. PICK a \in again : SendDown(a) /\ again' = again \ {a}
    BY <1>6 DEF RetransmitWrite
  <2>2. a \in Downward
    BY DEF ShapeInv, Downward, Packets
  <2>3. (OnDown \/ a.id = i) => OnDown'
    BY <1>03, <2>1, <2>2
  <2>4. Again => Again' \/ a.id = i
    BY <2>1 DEF Again
  <2> QED BY <1>00, <1>01, <1>6, <2>3, <2>4 DEF RetransmitWrite
<1>7. ASSUME HandlePubAck PROVE Somewhere'
  <2>1. Head(up).id # i /\ inflight[i] # 0
    BY <1>02, <1>7 DEF HandlePubAck
  <2>2. OnUp => OnUp'
    BY <1>06, <1>7, <2>1 DEF HandlePubAck
  <2> QED BY <1>00, <1>01, <1>7, <2>1, <2>2 DEF HandlePubAck
<1>8. ASSUME HandleRequest PROVE Somewhere'
  <2>1. Head(up).id # i
    BY <1>0, <1>8, TakenUp DEF HandleRequest, PacketInv
  <2>2. OnUp => OnUp'
    BY <1>06, <1>8, <2>1 DEF HandleRequest
  <2> QED BY <1>00, <1>01, <1>8, <2>2 DEF HandleRequest
<1>9. ASSUME Reply PROVE Somewhere'
  <2> DEFINE p == Packet(reply, 0, 0)
  <2>1. p \in Downward
    BY <1>9, BoundsAssumption, SizesAssumption DEF Reply, ShapeInv, Packet, Downward, Packets
  <2>2. SendDown(p)
    BY <1>9 DEF Reply
  <2>3. OnDown => OnDown'
    <3> HIDE DEF p
    <3> QED BY <1>03, <2>1, <2>2
  <2> QED BY <1>00, <1>01, <1>9, <2>3 DEF Reply
<1>24. ASSUME CatchUpEnds PROVE Somewhere'
  BY <1>07, <1>24 DEF CatchUpEnds
<1>10. ASSUME NEW t \in Threads, Lock(t) PROVE Somewhere'
  BY <1>07, <1>10 DEF Lock
<1>11. ASSUME NEW r \in Readers, SendSubscribe(r) PROVE Somewhere'
  <2> DEFINE p == Packet("SUBSCRIBE", 0, 0)
  <2>1. p \in Upward
    BY BoundsAssumption, SizesAssumption DEF Packet, Upward, Packets
  <2>2. SendUp(p)
    BY <1>11 DEF SendSubscribe
  <2>3. OnUp => OnUp'
    <3> HIDE DEF p
    <3> QED BY <1>04, <2>1, <2>2
  <2> QED BY <1>00, <1>01, <1>11, <2>3 DEF SendSubscribe
<1>12. ASSUME NEW r \in Readers, SendPubAck(r) PROVE Somewhere'
  <2> DEFINE p == Packet("PUBACK", hand[r].id, 0)
  <2>1. p \in Upward /\ p.id = hand[r].id
    BY <1>02, BoundsAssumption DEF Packet, Upward, Packets
  <2>2. SendUp(p)
    BY <1>12 DEF SendPubAck
  <2>3. (OnUp \/ hand[r].id = i) => OnUp'
    <3> HIDE DEF p
    <3> QED BY <1>04, <2>1, <2>2
  <2>4. InHand => InHand' \/ hand[r].id = i
    BY <1>02, <1>12 DEF SendPubAck, InHand
  <2> QED BY <1>00, <1>01, <1>12, <2>3, <2>4 DEF SendPubAck
<1>13. ASSUME NEW r \in Readers, ReadSuback(r) PROVE Somewhere'
  <2>1. Head(down).type # "PUBLISH"
    <3>1. SUFFICES ASSUME down[1].type = "PUBLISH" PROVE FALSE
      BY <1>13, TakenDown DEF ReadSuback
    <3>2. 1 \in DOMAIN down /\ \A n \in DOMAIN down : n \in Nat /\ n >= 1
      BY <1>13, TakenDown DEF ReadSuback, ShapeInv
    <3>3. Live
      BY <3>1, <3>2 DEF LineInv
    <3>4. \E m \in DOMAIN down : \A n \in DOMAIN down : down[n].type = "PUBLISH" => m < n
      BY <1>13, <3>3 DEF LineInv, ReadSuback
    <3> QED BY <3>1, <3>2, <3>4
  <2>2. Head(down).id # i
    BY <1>0, <1>13, <2>1, TakenDown DEF ReadSuback, PacketInv
  <2>3. OnDown => OnDown'
    BY <1>05, <1>13, <2>2 DEF ReadSuback
  <2> QED BY <1>00, <1>01, <1>13, <2>3 DEF ReadSuback
<1>14. ASSUME NEW r \in Readers, ReadLoop(r) PROVE Somewhere'
  <2>1. CASE Head(down).id = i
    <3>1. Head(down).type = "PUBLISH"
      BY <1>0, <1>14, <2>1, TakenDown DEF ReadLoop, PacketInv
    <3>2. InHand'
      BY <1>02, <1>14, <2>1, <3>1 DEF ReadLoop, InHand
    <3> QED BY <3>2
  <2>2. CASE Head(down).id # i
    <3>1. OnDown => OnDown'
      BY <1>05, <1>14, <2>2 DEF ReadLoop
    <3>2. hand[r].id # i
      BY <1>0, <1>14 DEF ReadLoop, PacketInv, Holding
    <3>3. InHand => InHand'
      BY <1>02, <1>14, <3>2 DEF ReadLoop, InHand
    <3> QED BY <1>00, <1>01, <1>14, <3>1, <3>3 DEF ReadLoop
  <2> QED BY <2>1, <2>2
<1>15. ASSUME NEW r \in Readers, Cancel(r) PROVE Somewhere'
  BY <1>07, <1>15 DEF Cancel
<1>16. ASSUME NEW r \in Readers, CheckSeen(r) PROVE Somewhere'
  BY <1>07, <1>16 DEF CheckSeen
<1>25. ASSUME NEW r \in Readers, CallHandler(r) PROVE Somewhere'
  BY <1>07, <1>25 DEF CallHandler
<1>17. ASSUME NEW c \in Callers, BeginPublish(c) PROVE Somewhere'
  BY <1>07, <1>17 DEF BeginPublish
<1>18. ASSUME NEW c \in Callers, WritePublish(c) PROVE Somewhere'
  <2> DEFINE p == Packet("PUBLISH", 0, 0)
  <2>1. p \in Upward
    BY BoundsAssumption, SizesAssumption DEF Packet, Upward, Packets
  <2>2. SendUp(p)
    BY <1>18 DEF WritePublish
  <2>3. OnUp => OnUp'
    <3> HIDE DEF p
    <3> QED BY <1>04, <2>1, <2>2
  <2> QED BY <1>00, <1>01, <1>18, <2>3 DEF WritePublish
<1>19. ASSUME NEW c \in Callers, BeginClose(c) PROVE Somewhere'
  BY <1>07, <1>19 DEF BeginClose
<1>20. ASSUME NEW c \in Callers, CloseConn(c) PROVE Somewhere'
  BY <1>20 DEF CloseConn
<1>21. ASSUME NEW t \in Threads, Fail(t) PROVE Somewhere'
  BY <1>21 DEF Fail
<1>22. ASSUME Cut PROVE Somewhere'
  BY <1>22 DEF Cut
<1>23. ASSUME UNCHANGED vars PROVE Somewhere'
  BY <1>07, <1>23 DEF vars
<1> QED
  BY <1>1, <1>2, <1>3, <1>4, <1>5, <1>6, <1>7, <1>8, <1>9, <1>10, <1>11, <1>12,
     <1>13, <1>14, <1>15, <1>16, <1>17, <1>18, <1>19, <1>20, <1>21, <1>22, <1>23,
     <1>24, <1>25
     DEF Next

\* On an open connection with one subscription, every entry of session.inflight has a
\* packet under way: the table holds no more than the line, the program's hand, the
\* senders and retransmitLoop do.
THEOREM LinkEntryUnderWay ==
    ASSUME \A r1, r2 \in Readers : r1 = r2
    PROVE  Spec => []EntryUnderWay
<1>1. Init => LineInv /\ EntryUnderWay
  BY DEF Init, LineInv, SubackNotMessage, EntryUnderWay, Resting, Used, Live
<1>2. TypeInv => ShapeInv
  BY DEF TypeInv
<1>3. TypeInv /\ PacketInv /\ LineInv /\ [Next]_vars => LineInv'
  BY <1>2, LineStep
<1>4. TypeInv /\ PacketInv /\ LineInv /\ EntryUnderWay /\ [Next]_vars => EntryUnderWay'
  BY <1>2, UnderWayStep
<1> QED
  BY <1>1, <1>2, <1>3, <1>4, InitTypes, TypeStep, InitPackets, PacketStep, PTL DEF Spec

-----------------------------------------------------------------------------
(* What a PUBACK acknowledges. *)

\* While ids come round only after their packets are gone, the packets with an id are
\* all about one message, and a PUBACK follows its handler.
LEMMA OwnerStep ==
    ASSUME ShapeInv, PacketInv, SeenInv, PassedInv, OwnerInv, [Next]_vars, ~reused',
           \A r1, r2 \in Readers : r1 = r2
    PROVE  OwnerInv'
<1>0. 0 \notin Ids /\ Readers \subseteq Threads /\ \A t \in Readers : t \notin Callers
  BY SizesAssumption, ThreadsAssumption DEF Ids, Threads
<1> DEFINE New == \A s \in Senders : sender[s].at = "track" => Alone(s)
           Sent == \A s \in Senders : sender[s].at = "write" => Belongs(sender[s].id, sender[s].msg)
           Own == \A s, t \in Senders : sender[s].id \in Ids /\ sender[s].id = sender[t].id => s = t
           Down == \A n \in DOMAIN down :
                       down[n].type = "PUBLISH" => Belongs(down[n].id, down[n].msg)
           Again == \A a \in again : Belongs(a.id, a.msg)
           Hand == \A r \in Readers :
                       /\ place[r] \in Holding => Belongs(hand[r].id, hand[r].msg)
                       /\ place[r] = "puback" => hand[r].msg \in handled
           Up == \A n \in DOMAIN up :
                     up[n].type = "PUBACK" /\ Used(up[n].id) => inflight[up[n].id] \in handled
           Safe == acked \subseteq handled
<1>00. New /\ Sent /\ Own /\ Down /\ Again /\ Hand /\ Up /\ Safe
  BY DEF OwnerInv
<1> SUFFICES New' /\ Sent' /\ Own' /\ Down' /\ Again' /\ Hand' /\ Up' /\ Safe'
  BY DEF OwnerInv
<1>01. /\ UNCHANGED <<sender, inflight, down, up, hand, again>> => New'
       /\ UNCHANGED <<sender, inflight>> => Sent'
       /\ UNCHANGED sender => Own'
       /\ UNCHANGED <<inflight, down>> => Down'
       /\ UNCHANGED <<inflight, again>> => Again'
       /\ UNCHANGED <<inflight, place, hand, handled>> => Hand'
       /\ UNCHANGED <<inflight, up, handled>> => Up'
       /\ UNCHANGED <<acked, handled>> => Safe'
  BY <1>00 DEF Alone, Belongs, Used
<1>02. /\ sender \in [Senders -> [at : {"idle", "track", "write", "spin"}, id : 0..MaxId,
                                  msg : 0..MaxMsgs]]
       /\ place \in [Threads -> Places]
       /\ hand \in [Readers -> Packets({"none", "PUBLISH"})]
       /\ inflight \in [Ids -> 0..MaxMsgs]
  BY DEF ShapeInv
<1>03. \A s \in Senders : sender[s].at \in {"track", "write"} => sender[s].id \in Ids
  BY DEF PacketInv
<1>04. ASSUME NEW p \in Downward, SendDown(p), UNCHANGED inflight,
              p.type = "PUBLISH" => Belongs(p.id, p.msg)
       PROVE  Down'
  BY <1>00, <1>04, SentDown DEF Belongs
<1>05. ASSUME down # << >>, down' = Tail(down), UNCHANGED inflight PROVE Down'
  BY <1>00, <1>05, TakenDown DEF Belongs
<1>06. ASSUME NEW p \in Upward, SendUp(p), UNCHANGED <<inflight, handled>>,
              p.type = "PUBACK" /\ Used(p.id) => inflight[p.id] \in handled
       PROVE  Up'
  BY <1>00, <1>06, SentUp DEF Used
<1>07. ASSUME up # << >>, up' = Tail(up), UNCHANGED <<inflight, handled>> PROVE Up'
  BY <1>00, <1>07, TakenUp DEF Used
<1>08. ASSUME NEW t \in Threads, NEW p, place' = [place EXCEPT ![t] = p],
              UNCHANGED <<inflight, hand, handled>>, p \notin Holding
       PROVE  Hand'
  BY <1>0, <1>00, <1>02, <1>08 DEF Belongs, Holding
<1>09. ASSUME NEW p \in Downward, SendDown(p), UNCHANGED <<inflight, up, hand>>,
              again' \subseteq again,
              \A s \in Senders : sender'[s].at = "track" =>
                  sender'[s] = sender[s] /\ p.id # sender[s].id
       PROVE  New'
  <2>1. SUFFICES ASSUME NEW s \in Senders, sender'[s].at = "track" PROVE Alone(s)'
    OBVIOUS
  <2>2. sender'[s] = sender[s] /\ p.id # sender[s].id /\ Alone(s)
    BY <1>00, <1>09, <2>1
  <2>3. \A n \in DOMAIN down' : down'[n].id # sender[s].id
    BY <1>09, <2>2, SentDown DEF Alone
  <2> QED BY <1>09, <2>2, <2>3 DEF Alone, Used
<1>010. ASSUME NEW p \in Upward, SendUp(p), UNCHANGED <<inflight, down, again, sender>>,
              \A s \in Senders : sender[s].at = "track" => p.id # sender[s].id,
              \A r \in Readers : hand'[r].id \in {0, hand[r].id}
       PROVE  New'
  <2>1. SUFFICES ASSUME NEW s \in Senders, sender[s].at = "track" PROVE Alone(s)'
    BY <1>010
  <2>2. p.id # sender[s].id /\ Alone(s) /\ sender[s].id # 0
    BY <1>0, <1>00, <1>03, <1>010, <2>1
  <2>3. \A n \in DOMAIN up' : up'[n].id # sender[s].id
    BY <1>010, <2>2, SentUp DEF Alone
  <2>4. \A r \in Readers : hand'[r].id # sender[s].id
    BY <1>010, <2>2 DEF Alone
  <2> QED BY <1>010, <2>2, <2>3, <2>4 DEF Alone, Used
<1>011. ASSUME up # << >>, up' = Tail(up), UNCHANGED <<sender, down, hand, again>>,
               \A i \in Ids : Used(i)' => Used(i)
        PROVE  New'
  <2>1. SUFFICES ASSUME NEW s \in Senders, sender[s].at = "track" PROVE Alone(s)'
    BY <1>011
  <2>2. Alone(s) /\ sender[s].id \in Ids
    BY <1>00, <1>03, <2>1
  <2>3. \A n \in DOMAIN up' : up'[n].id # sender[s].id
    BY <1>011, <2>2, TakenUp DEF Alone
  <2>4. ~(inflight'[sender[s].id] # 0)
    BY <1>011, <2>2 DEF Alone, Used
  <2> QED BY <1>011, <2>2, <2>3, <2>4 DEF Alone, Used
<1>012. ASSUME down # << >>, down' = Tail(down), UNCHANGED <<inflight, sender, up, again>>,
               \A r \in Readers : hand'[r].id \in {hand[r].id, Head(down).id}
        PROVE  New'
  <2>1. SUFFICES ASSUME NEW s \in Senders, sender[s].at = "track" PROVE Alone(s)'
    BY <1>012
  <2>2. Alone(s)
    BY <1>00, <2>1
  <2>3. \A n \in DOMAIN down' : down'[n].id # sender[s].id
    BY <1>012, <2>2, TakenDown DEF Alone
  <2>4. \A r \in Readers : hand'[r].id # sender[s].id
    BY <1>012, <2>2, TakenDown DEF Alone
  <2> QED BY <1>012, <2>2, <2>3, <2>4 DEF Alone, Used
<1> USE DEF sessVars, progVars, Holding
<1> DEFINE Kept == New /\ Sent /\ Own /\ Down /\ Again /\ Hand /\ Up /\ Safe
<1> HIDE DEF New, Sent, Own, Down, Again, Hand, Up, Safe
<1>1. ASSUME NEW s \in Senders, AllocPacketID(s) PROVE Kept'
  <2>1. PICK i \in Ids : /\ ~Used(i) /\ ~Trace(i)
                        /\ sender' = [sender EXCEPT ![s] = [at |-> "track", id |-> i,
                                                          msg |-> taken + 1]]
    BY <1>1 DEF AllocPacketID
  <2>2. /\ sender'[s].id = i /\ sender'[s].at = "track"
        /\ \A t \in Senders : t # s => sender'[t] = sender[t]
    BY <1>02, <2>1
  <2>3. \A t \in Senders : sender[t].id # i
    BY <2>1 DEF Trace
  <2>4. New'
    <3>1. SUFFICES ASSUME NEW t \in Senders, sender'[t].at = "track" PROVE Alone(t)'
      BY DEF New
    <3>2. CASE t = s
      BY <1>1, <2>1, <2>2, <3>2 DEF AllocPacketID, Alone, Trace, Used
    <3>3. CASE t # s
      <4>1. sender'[t] = sender[t] /\ Alone(t)
        BY <1>00, <2>2, <3>1, <3>3 DEF New
      <4> QED BY <1>1, <4>1 DEF AllocPacketID, Alone, Used
    <3> QED BY <3>2, <3>3
  <2>5. Own'
    BY <1>00, <2>2, <2>3 DEF Own
  <2>6. Sent'
    BY <1>00, <1>1, <2>2 DEF AllocPacketID, Sent, Belongs
  <2> QED BY <1>01, <1>1, <2>4, <2>5, <2>6 DEF AllocPacketID
<1>2. ASSUME NEW s \in Senders, AllocSpins(s) PROVE Kept'
  <2>1. /\ sender'[s].id = sender[s].id /\ sender'[s].at = "spin"
        /\ \A t \in Senders : t # s => sender'[t] = sender[t]
    BY <1>02, <1>2 DEF AllocSpins
  <2>2. New'
    BY <1>00, <1>2, <2>1 DEF AllocSpins, New, Alone, Used
  <2>3. Own' /\ Sent'
    BY <1>00, <1>2, <2>1 DEF AllocSpins, Own, Sent, Belongs
  <2> QED BY <1>01, <1>2, <2>2, <2>3 DEF AllocSpins
<1>3. ASSUME NEW s \in Senders, Track(s) PROVE Kept'
  <2> DEFINE i == sender[s].id
  <2>1. /\ sender'[s].id = i /\ sender'[s].msg = sender[s].msg /\ sender'[s].at = "write"
        /\ \A t \in Senders : t # s => sender'[t] = sender[t]
    BY <1>02, <1>3 DEF Track
  <2>2. i \in Ids /\ Alone(s)
    BY <1>00, <1>03, <1>3 DEF Track, New
  <2>3. inflight'[i] = sender[s].msg /\ \A j \in Ids : j # i => inflight'[j] = inflight[j]
    BY <1>02, <1>3, <2>2 DEF Track
  <2>4. \A t \in Senders : t # s => sender[t].id # i
    BY <1>00, <2>2 DEF Own
  <2>5. New'
    <3>1. SUFFICES ASSUME NEW t \in Senders, sender'[t].at = "track" PROVE Alone(t)'
      BY DEF New
    <3>2. t # s /\ sender'[t] = sender[t]
      BY <2>1, <3>1
    <3>3. Alone(t) /\ sender[t].id # i /\ sender[t].id \in Ids
      BY <1>00, <1>03, <2>4, <3>1, <3>2 DEF New
    <3>4. inflight'[sender[t].id] = inflight[sender[t].id]
      BY <2>3, <3>3
    <3> QED BY <1>3, <3>2, <3>3, <3>4 DEF Track, Alone, Used
  <2>6. Sent'
    BY <1>00, <1>03, <2>1, <2>3, <2>4 DEF Sent, Belongs
  <2>7. Own'
    BY <1>00, <2>1 DEF Own
  <2>8. Down'
    BY <1>00, <1>3, <2>2, <2>3 DEF Track, Down, Alone, Belongs, PacketInv
  <2>9. Again'
    BY <1>00, <1>3, <2>2, <2>3 DEF Track, Again, Alone, Belongs, PacketInv
  <2>10. Hand'
    BY <1>00, <1>3, <2>2, <2>3 DEF Track, Hand, Alone, Belongs, PacketInv
  <2>11. Up'
    BY <1>00, <1>3, <2>2, <2>3 DEF Track, Up, Alone, Used, PacketInv
  <2> QED BY <1>01, <1>3, <2>5, <2>6, <2>7, <2>8, <2>9, <2>10, <2>11 DEF Track
<1>4. ASSUME NEW s \in Senders, WriteMessage(s) PROVE Kept'
  <2> DEFINE p == Packet("PUBLISH", sender[s].id, sender[s].msg)
  <2>1. p \in Downward /\ p.id = sender[s].id /\ p.msg = sender[s].msg
    BY <1>02 DEF Packet, Downward, Packets
  <2>2. SendDown(p)
    BY <1>4 DEF WriteMessage
  <2>3. sender'[s] = Resting /\ \A t \in Senders : t # s => sender'[t] = sender[t]
    BY <1>02, <1>4 DEF WriteMessage
  <2>4. Belongs(p.id, p.msg)
    BY <1>00, <1>4, <2>1 DEF WriteMessage, Sent
  <2>5. \A t \in Senders : sender'[t].at = "track" => sender'[t] = sender[t] /\ p.id # sender[t].id
    BY <1>00, <1>03, <1>4, <2>1, <2>3 DEF WriteMessage, Resting, Own
  <2>6. Down' /\ New'
    <3> HIDE DEF p
    <3>1. Down'
      BY <1>04, <1>4, <2>1, <2>2, <2>4 DEF WriteMessage
    <3>2. New'
      BY <1>09, <1>4, <2>1, <2>2, <2>5 DEF WriteMessage
    <3> QED BY <3>1, <3>2
  <2>7. Own' /\ Sent'
    BY <1>0, <1>00, <1>4, <2>3 DEF WriteMessage, Resting, Own, Sent, Belongs
  <2> QED BY <1>01, <1>4, <2>6, <2>7 DEF WriteMessage
<1>5. ASSUME RetransmitPick PROVE Kept'
  <2>1. \A a \in again' : a.id \in Ids /\ Used(a.id) /\ a.msg = inflight[a.id]
    BY <1>5 DEF RetransmitPick, Packet
  <2>2. Again'
    BY <1>5, <2>1 DEF RetransmitPick, Again, Belongs
  <2>3. New'
    BY <1>00, <1>5, <2>1 DEF RetransmitPick, New, Alone, Used
  <2> QED BY <1>01, <1>5, <2>2, <2>3 DEF RetransmitPick
<1>6. ASSUME RetransmitWrite PROVE Kept'
  <2>1. PICK a \in again : SendDown(a) /\ again' = again \ {a}
    BY <1>6 DEF RetransmitWrite
  <2>2. a \in Downward
    BY DEF ShapeInv, Downward, Packets
  <2>3. Down' /\ Again'
    BY <1>00, <1>04, <1>6, <2>1, <2>2 DEF RetransmitWrite, Again, Belongs
  <2>4. \A s \in Senders : sender[s].at = "track" => a.id # sender[s].id
    BY <1>00 DEF New, Alone
  <2>5. New'
    BY <1>09, <1>6, <2>1, <2>2, <2>4 DEF RetransmitWrite
  <2> QED BY <1>01, <1>6, <2>3, <2>5 DEF RetransmitWrite
<1>7. ASSUME HandlePubAck PROVE Kept'
  <2>1. \A i \in Ids : inflight'[i] \in {0, inflight[i]}
    BY <1>02, <1>7 DEF HandlePubAck
  <2>2. New'
    BY <1>011, <1>7, <2>1 DEF HandlePubAck, Used
  <2>3. Sent'
    BY <1>00, <1>03, <1>7, <2>1 DEF HandlePubAck, Sent, Belongs
  <2>4. Down'
    BY <1>00, <1>7, <2>1 DEF HandlePubAck, Down, Belongs, PacketInv
  <2>5. Again'
    BY <1>00, <1>7, <2>1 DEF HandlePubAck, Again, Belongs, PacketInv
  <2>6. Hand'
    BY <1>00, <1>7, <2>1 DEF HandlePubAck, Hand, Belongs, PacketInv
  <2>7. Up'
    <3>1. SUFFICES ASSUME NEW n \in DOMAIN up', up'[n].type = "PUBACK", inflight'[up'[n].id] # 0
                   PROVE  inflight'[up'[n].id] \in handled
      BY <1>7 DEF HandlePubAck, Up, Used
    <3>2. n + 1 \in DOMAIN up /\ up'[n] = up[n + 1]
      BY <1>7, TakenUp DEF HandlePubAck
    <3>3. up[n + 1].id \in Ids
      BY <3>1, <3>2 DEF PacketInv
    <3> QED BY <1>00, <2>1, <3>1, <3>2, <3>3 DEF Up, Used
  <2>8. Safe'
    <3>1. Used(Head(up).id) => inflight[Head(up).id] \in handled
      BY <1>00, <1>7, TakenUp DEF HandlePubAck, Up
    <3>2. acked' \subseteq handled
      BY <1>00, <1>7, <3>1 DEF HandlePubAck, Safe
    <3> QED BY <1>7, <3>2 DEF HandlePubAck, Safe
  <2> QED BY <1>01, <1>7, <2>2, <2>3, <2>4, <2>5, <2>6, <2>7, <2>8 DEF HandlePubAck
<1>8. ASSUME HandleRequest PROVE Kept'
  <2>1. Up'
    BY <1>07, <1>8 DEF HandleRequest
  <2>2. New'
    BY <1>011, <1>8 DEF HandleRequest, Used
  <2> QED BY <1>01, <1>8, <2>1, <2>2 DEF HandleRequest
<1>9. ASSUME Reply PROVE Kept'
  <2> DEFINE p == Packet(reply, 0, 0)
  <2>1. p \in Downward /\ p.type # "PUBLISH" /\ p.id = 0
    BY <1>9, BoundsAssumption, SizesAssumption DEF Reply, ShapeInv, Packet, Downward, Packets
  <2>2. SendDown(p)
    BY <1>9 DEF Reply
  <2>3. Down' /\ New'
    <3> HIDE DEF p
    <3>1. Down'
      BY <1>04, <1>9, <2>1, <2>2 DEF Reply
    <3>2. New'
      BY <1>0, <1>03, <1>09, <1>9, <2>1, <2>2 DEF Reply
    <3> QED BY <3>1, <3>2
  <2> QED BY <1>01, <1>9, <2>3 DEF Reply
<1>24. ASSUME CatchUpEnds PROVE Kept'
  BY <1>01, <1>24 DEF CatchUpEnds
<1>10. ASSUME NEW t \in Threads, Lock(t) PROVE Kept'
  BY <1>01, <1>10 DEF Lock
<1>11. ASSUME NEW r \in Readers, SendSubscribe(r) PROVE Kept'
  <2> DEFINE p == Packet("SUBSCRIBE", 0, 0)
  <2>1. p \in Upward /\ p.type # "PUBACK" /\ p.id = 0
    BY BoundsAssumption, SizesAssumption DEF Packet, Upward, Packets
  <2>2. SendUp(p)
    BY <1>11 DEF SendSubscribe
  <2>3. Up' /\ New'
    <3> HIDE DEF p
    <3>1. Up'
      BY <1>06, <1>11, <2>1, <2>2 DEF SendSubscribe
    <3>2. New'
      BY <1>0, <1>03, <1>010, <1>11, <2>1, <2>2 DEF SendSubscribe
    <3> QED BY <3>1, <3>2
  <2>4. Hand'
    BY <1>0, <1>08, <1>11 DEF SendSubscribe, Unlock, Threads
  <2> QED BY <1>01, <1>11, <2>3, <2>4 DEF SendSubscribe
<1>12. ASSUME NEW r \in Readers, SendPubAck(r) PROVE Kept'
  <2> DEFINE p == Packet("PUBACK", hand[r].id, 0)
  <2>1. p \in Upward /\ p.id = hand[r].id
    BY <1>02, BoundsAssumption DEF Packet, Upward, Packets
  <2>2. SendUp(p)
    BY <1>12 DEF SendPubAck
  <2>3. Used(hand[r].id) => inflight[hand[r].id] \in handled
    BY <1>00, <1>12 DEF SendPubAck, Hand, Belongs, Used
  <2>4. /\ hand'[r] = Nothing /\ place'[r] = "loop"
        /\ \A q \in Readers : q # r => hand'[q] = hand[q] /\ place'[q] = place[q]
    BY <1>0, <1>02, <1>12 DEF SendPubAck, Unlock
  <2>5. Up' /\ New'
    <3> HIDE DEF p
    <3>1. Up'
      BY <1>06, <1>12, <2>1, <2>2, <2>3 DEF SendPubAck
    <3>2. \A q \in Readers : hand'[q].id \in {0, hand[q].id}
      BY <2>4 DEF Nothing
    <3>3. \A s \in Senders : sender[s].at = "track" => p.id # sender[s].id
      BY <1>00, <2>1 DEF New, Alone
    <3>4. New'
      BY <1>010, <1>12, <2>1, <2>2, <3>2, <3>3 DEF SendPubAck
    <3> QED BY <3>1, <3>4
  <2>6. Hand'
    BY <1>00, <1>12, <2>4 DEF SendPubAck, Hand, Belongs
  <2> QED BY <1>01, <1>12, <2>5, <2>6 DEF SendPubAck
<1>13. ASSUME NEW r \in Readers, ReadSuback(r) PROVE Kept'
  <2>1. Down'
    BY <1>05, <1>13 DEF ReadSuback
  <2>2. New'
    BY <1>012, <1>13 DEF ReadSuback
  <2>3. Hand'
    BY <1>0, <1>08, <1>13 DEF ReadSuback, Unlock
  <2> QED BY <1>01, <1>13, <2>1, <2>2, <2>3 DEF ReadSuback
<1>14. ASSUME NEW r \in Readers, ReadLoop(r) PROVE Kept'
  <2>1. Down'
    BY <1>05, <1>14 DEF ReadLoop
  <2>2. \A q \in Readers : hand'[q].id \in {hand[q].id, Head(down).id}
    BY <1>02, <1>14 DEF ReadLoop
  <2>3. New'
    BY <1>012, <1>14, <2>2 DEF ReadLoop
  <2>4. CASE Head(down).type = "PUBLISH"
    <3>1. Belongs(Head(down).id, Head(down).msg)
      BY <1>00, <1>14, <2>4, TakenDown DEF ReadLoop, Down
    <3>2. /\ hand'[r] = Head(down) /\ place'[r] = "deliver"
          /\ \A q \in Readers : q # r => hand'[q] = hand[q] /\ place'[q] = place[q]
      BY <1>0, <1>02, <1>14, <2>4 DEF ReadLoop, Unlock
    <3>3. Hand'
      BY <1>00, <1>14, <3>1, <3>2 DEF ReadLoop, Hand, Belongs
    <3> QED BY <1>01, <1>14, <2>1, <2>3, <3>3 DEF ReadLoop
  <2>5. CASE Head(down).type # "PUBLISH"
    <3>1. Hand'
      BY <1>0, <1>08, <1>14, <2>5 DEF ReadLoop, Unlock
    <3> QED BY <1>01, <1>14, <2>1, <2>3, <3>1 DEF ReadLoop
  <2> QED BY <2>4, <2>5
<1>15. ASSUME NEW r \in Readers, Cancel(r) PROVE Kept'
  <2>1. Hand'
    BY <1>0, <1>08, <1>15 DEF Cancel, Unlock, Threads
  <2> QED BY <1>01, <1>15, <2>1 DEF Cancel
<1>16. ASSUME NEW r \in Readers, CheckSeen(r) PROVE Kept'
  <2>1. IsSeen(hand[r].msg) => hand[r].msg \in handled
    <3>1. SUFFICES ASSUME IsSeen(hand[r].msg) PROVE hand[r].msg \in handled
      OBVIOUS
    <3>2. PICK n \in DOMAIN seen : seen[n] = hand[r].msg
      BY <3>1 DEF IsSeen
    <3>3. Len(passed) - Len(seen) + n \in DOMAIN passed
      BY SizesAssumption DEF SeenInv, ShapeInv
    <3>4. passed[Len(passed) - Len(seen) + n] = hand[r].msg
      BY <3>2 DEF SeenInv
    <3>5. \A q \in Readers : place[q] # "handle"
      BY <1>16 DEF CheckSeen
    <3> QED BY <3>3, <3>4, <3>5 DEF PassedInv
  <2>2. /\ place'[r] = IF IsSeen(hand[r].msg) THEN "puback" ELSE "handle"
        /\ \A q \in Readers : q # r => place'[q] = place[q]
    BY <1>0, <1>02, <1>16 DEF CheckSeen
  <2>3. Hand'
    BY <1>00, <1>16, <2>1, <2>2 DEF CheckSeen, Hand, Belongs
  <2> QED BY <1>01, <1>16, <2>3 DEF CheckSeen
<1>25. ASSUME NEW r \in Readers, CallHandler(r) PROVE Kept'
  <2>1. handled \subseteq handled' /\ hand[r].msg \in handled'
    BY <1>25 DEF CallHandler
  <2>2. place'[r] = "puback" /\ \A q \in Readers : q # r => place'[q] = place[q]
    BY <1>0, <1>02, <1>25 DEF CallHandler
  <2>3. Hand'
    BY <1>00, <1>25, <2>1, <2>2 DEF CallHandler, Hand, Belongs
  <2>4. Up'
    BY <1>00, <1>25, <2>1 DEF CallHandler, Up, Used
  <2>5. Safe'
    BY <1>00, <1>25, <2>1 DEF CallHandler, Safe
  <2> QED BY <1>01, <1>25, <2>3, <2>4, <2>5 DEF CallHandler
<1>17. ASSUME NEW c \in Callers, BeginPublish(c) PROVE Kept'
  <2>1. Hand'
    BY <1>0, <1>08, <1>17 DEF BeginPublish, Unlock, Threads
  <2> QED BY <1>01, <1>17, <2>1 DEF BeginPublish
<1>18. ASSUME NEW c \in Callers, WritePublish(c) PROVE Kept'
  <2> DEFINE p == Packet("PUBLISH", 0, 0)
  <2>1. p \in Upward /\ p.type # "PUBACK" /\ p.id = 0
    BY BoundsAssumption, SizesAssumption DEF Packet, Upward, Packets
  <2>2. SendUp(p)
    BY <1>18 DEF WritePublish
  <2>3. Up' /\ New'
    <3> HIDE DEF p
    <3>1. Up'
      BY <1>06, <1>18, <2>1, <2>2 DEF WritePublish
    <3>2. New'
      BY <1>0, <1>03, <1>010, <1>18, <2>1, <2>2 DEF WritePublish
    <3> QED BY <3>1, <3>2
  <2>4. Hand'
    BY <1>0, <1>08, <1>18 DEF WritePublish, Unlock, Threads
  <2> QED BY <1>01, <1>18, <2>3, <2>4 DEF WritePublish
<1>19. ASSUME NEW c \in Callers, BeginClose(c) PROVE Kept'
  <2>1. Hand'
    BY <1>0, <1>08, <1>19 DEF BeginClose, Unlock, Threads
  <2> QED BY <1>01, <1>19, <2>1 DEF BeginClose
<1>20. ASSUME NEW c \in Callers, CloseConn(c) PROVE Kept'
  <2>1. Hand'
    BY <1>0, <1>08, <1>20 DEF CloseConn, Unlock, Threads
  <2> QED BY <1>01, <1>20, <2>1 DEF CloseConn
<1>21. ASSUME NEW t \in Threads, Fail(t) PROVE Kept'
  <2>1. CASE place[t] = "puback"
    <3>1. Hand' /\ \A q \in Readers : hand'[q].id \in {0, hand[q].id}
      BY <1>0, <1>00, <1>02, <1>21, <2>1 DEF Fail, Unlock, Nothing, Hand, Belongs
    <3>2. New'
      BY <1>0, <1>00, <1>03, <1>21, <3>1 DEF Fail, New, Alone, Used
    <3> QED BY <1>01, <1>21, <3>1, <3>2 DEF Fail
  <2>2. CASE place[t] # "puback"
    <3>1. \E p \in {"done", "idle"} : place' = [place EXCEPT ![t] = p]
      BY <1>21, <2>2 DEF Fail, Unlock
    <3>2. Hand'
      BY <1>08, <1>21, <2>2, <3>1 DEF Fail
    <3> QED BY <1>01, <1>21, <2>2, <3>2 DEF Fail
  <2> QED BY <2>1, <2>2
<1>22. ASSUME Cut PROVE Kept'
  BY <1>01, <1>22 DEF Cut
<1>23. ASSUME UNCHANGED vars PROVE Kept'
  BY <1>01, <1>23 DEF vars
<1> QED
  BY <1>1, <1>2, <1>3, <1>4, <1>5, <1>6, <1>7, <1>8, <1>9, <1>10, <1>11, <1>12,
     <1>13, <1>14, <1>15, <1>16, <1>17, <1>18, <1>19, <1>20, <1>21, <1>22, <1>23,
     <1>24, <1>25
     DEF Next, Kept

\* Once an id was given out under a packet, that stays so.
LEMMA ReusedStays ==
    ASSUME [Next]_vars, reused
    PROVE  reused'
BY DEF Next, vars, sessVars, AllocPacketID, AllocSpins, Track, WriteMessage, RetransmitPick,
       RetransmitWrite, HandlePubAck, HandleRequest, Reply, CatchUpEnds, Lock, SendSubscribe,
       SendPubAck, ReadSuback, ReadLoop, Cancel, CheckSeen, CallHandler, BeginPublish,
       WritePublish, BeginClose, CloseConn, Fail, Cut

\* For a program with one subscription, a PUBACK removes only messages whose handler was
\* called, for any number of senders and retransmissions, until allocPacketID gives out
\* an id while a packet with it is under way. (A second subscription may acknowledge a
\* retransmission while the handler of the first is still at work on the message.)
THEOREM LinkAckedWasHandled ==
    ASSUME \A r1, r2 \in Readers : r1 = r2
    PROVE  Spec => []AckedWasHandled
<1> DEFINE FirstUse == ~reused => OwnerInv
<1>1. Init => SeenInv /\ PassedInv /\ FirstUse
  BY SizesAssumption
     DEF Init, SeenInv, HandlerOnce, PassedInv, OwnerInv, Holding, Resting, Ids, Threads
<1>2. FirstUse => AckedWasHandled
  BY DEF OwnerInv, AckedWasHandled
<1>3. TypeInv => ShapeInv
  BY DEF TypeInv
<1>4. TypeInv /\ PacketInv /\ SeenInv /\ PassedInv /\ FirstUse /\ [Next]_vars => FirstUse'
  BY <1>3, OwnerStep, ReusedStays
<1>5. TypeInv /\ PassedInv /\ [Next]_vars => PassedInv'
  BY <1>3, PassedStep
<1> HIDE DEF FirstUse
<1> QED
  BY <1>1, <1>2, <1>3, <1>4, <1>5, InitTypes, TypeStep, InitPackets, PacketStep, SeenStep, PTL
     DEF Spec
=============================================================================
