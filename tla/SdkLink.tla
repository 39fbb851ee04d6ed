------------------------------ MODULE SdkLink ------------------------------
(***************************************************************************)
(* One connection with a program on the Go SDK at one end                  *)
(* (sdk/go/brokermq/client.go, dedup.go) and a broker session at the other *)
(* (core/transport/mqtt/session.go): QoS 1 messages with their packet ids  *)
(* and retransmissions one way, SUBSCRIBE, PUBLISH and PUBACK the other.   *)
(*                                                                         *)
(* The SDK has one mutex, connMu, around every read and every write, and   *)
(* keeps it while it waits for the network. The session holds inflightMu   *)
(* only for an instant, except in allocPacketID, which searches for a free *)
(* id under it. The network holds NetCap packets in each direction; a      *)
(* write waits for room.                                                   *)
(*                                                                         *)
(* A message is its number. What the program publishes is taken from it    *)
(* and answered; what happens to it in the broker is in Topic and Dedup.   *)
(***************************************************************************)
EXTENDS Naturals, Sequences, FiniteSets

CONSTANTS
    Readers,        \* the program's calls of Subscribe
    Callers,        \* its goroutines that call Publish and Close
    Senders,        \* the session's goroutines inside deliverMessage
    Loop,           \* the one of them that is its reading loop
    MaxId,          \* packet ids are 1..MaxId (65535)
    SeenCap,        \* capacity of SeenCache
    NetCap,         \* packets that the network holds in each direction
    Nameless,       \* messages that were stored without a server id (uuid.Nil)
    MaxMsgs,        \* bound: messages for this client
    MaxPubs,        \* bound: calls of Publish
    MaxDups,        \* bound: packets sent again
    Free            \* nobody holds connMu

ASSUME SizesAssumption == MaxId \in Nat \ {0} /\ SeenCap \in Nat \ {0} /\ NetCap \in Nat \ {0}
ASSUME LoopAssumption == Loop \in Senders
ASSUME BoundsAssumption == MaxMsgs \in Nat /\ MaxPubs \in Nat /\ MaxDups \in Nat
ASSUME ThreadsAssumption ==
    Readers \cap Callers = {} /\ Free \notin Readers \cup Callers /\ IsFiniteSet(Readers)

VARIABLES
    \* the session
    inflight,   \* session.inflight: the message under each packet id, 0 for none
    nextId,     \* session.nextPktID
    sender,     \* each sender's place, id and message
    again,      \* what retransmitLoop has picked and not yet written
    reply,      \* what the reading loop has to write before it reads on
    feeds,      \* subscriptions whose delivery goroutine runs
    \* the network
    open, down, up,
    \* the program
    mu,         \* who holds Client.connMu
    place,      \* what each goroutine of the SDK is about to do
    hand,       \* the packet each reader has read
    seen,       \* SeenCache.keys, oldest first
    \* history
    taken,      \* messages that reached a sender
    passed,     \* the messages with an id that Seen let through, in order
    handled,    \* the messages the handler was called with
    reused,     \* an id was given out while a packet with it was still under way
    acked,      \* the messages whose entry a PUBACK removed
    skipped,    \* the messages that Subscribe read in place of its SUBACK
    pubs, dups

sessVars == <<inflight, nextId, sender, again, reply, feeds, taken, reused, acked, dups>>
progVars == <<mu, place, hand, seen, passed, handled, skipped, pubs>>
vars == <<sessVars, open, down, up, progVars>>

Ids == 1..MaxId
Threads == Readers \cup Callers
Nothing == [type |-> "none", id |-> 0, msg |-> 0]
Packet(type, id, msg) == [type |-> type, id |-> id, msg |-> msg]
Resting == [at |-> "idle", id |-> 0, msg |-> 0]

Init ==
    /\ inflight = [i \in Ids |-> 0] /\ nextId = 1
    /\ sender = [s \in Senders |-> Resting]
    /\ again = {} /\ reply = "none" /\ feeds = 0
    /\ open = TRUE /\ down = <<>> /\ up = <<>>
    /\ mu = Free
    /\ place = [t \in Threads |-> IF t \in Readers THEN "subscribe" ELSE "idle"]
    /\ hand = [r \in Readers |-> Nothing]
    /\ seen = <<>>
    /\ taken = 0 /\ passed = <<>> /\ handled = {} /\ reused = FALSE
    /\ acked = {} /\ skipped = {}
    /\ pubs = 0 /\ dups = 0

SendDown(p) == open /\ Len(down) < NetCap /\ down' = Append(down, p)
SendUp(p) == open /\ Len(up) < NetCap /\ up' = Append(up, p)

-----------------------------------------------------------------------------
(* The session: packet ids. *)

Used(i) == inflight[i] # 0

\* Mutant: the id that overflows is not brought back to 1.
Succ_Zero(i) == IF i = MaxId THEN 0 ELSE i + 1

Succ(i) == IF i = MaxId THEN 1 ELSE i + 1

\* How many ids allocPacketID looks at before it comes to i.
Distance(i) == IF i >= nextId THEN i - nextId ELSE i + MaxId - nextId

\* Some packet with this id is under way, or about to be.
Trace(i) ==
    \/ \E n \in DOMAIN down : down[n].id = i
    \/ \E n \in DOMAIN up : up[n].id = i
    \/ \E r \in Readers : hand[r].id = i
    \/ \E a \in again : a.id = i
    \/ \E s \in Senders : sender[s].id = i

Spinning == \E s \in Senders : sender[s].at = "spin"

\* Who may have a message to deliver: the reading loop while it works through the
\* catch-up of a SUBSCRIBE, the delivery goroutines of the subscriptions after it.
MayDeliver(s) == IF s = Loop THEN reply = "catchup" ELSE feeds > 0

\* A sender has a message: the first free id from nextPktID on.
AllocPacketID(s) ==
    /\ sender[s].at = "idle" /\ MayDeliver(s) /\ taken < MaxMsgs /\ open /\ ~Spinning
    /\ \E i \in Ids :
        /\ ~Used(i) /\ \A j \in Ids : ~Used(j) => Distance(i) <= Distance(j)
        /\ sender' = [sender EXCEPT ![s] = [at |-> "track", id |-> i, msg |-> taken + 1]]
        /\ nextId' = Succ(i)
        /\ reused' = (reused \/ Trace(i))
    /\ taken' = taken + 1
    /\ UNCHANGED <<inflight, again, reply, feeds, acked, dups, open, down, up, progVars>>

\* No id is free: the search goes round with inflightMu held, and never ends.
AllocSpins(s) ==
    /\ sender[s].at = "idle" /\ MayDeliver(s) /\ taken < MaxMsgs /\ open /\ ~Spinning
    /\ \A i \in Ids : Used(i)
    /\ sender' = [sender EXCEPT ![s].at = "spin"]
    /\ UNCHANGED <<inflight, nextId, again, reply, feeds, taken, reused, acked, dups, open,
                   down, up, progVars>>

\* Mutant: the entry is filed under the id that is handed out next.
Track_Next(s) ==
    /\ sender[s].at = "track" /\ ~Spinning
    /\ inflight' = [inflight EXCEPT ![nextId] = sender[s].msg]
    /\ sender' = [sender EXCEPT ![s].at = "write"]
    /\ UNCHANGED <<nextId, again, reply, feeds, taken, reused, acked, dups, open, down, up,
                   progVars>>

\* s.inflight[pid] = ...
Track(s) ==
    /\ sender[s].at = "track" /\ ~Spinning
    /\ inflight' = [inflight EXCEPT ![sender[s].id] = sender[s].msg]
    /\ sender' = [sender EXCEPT ![s].at = "write"]
    /\ UNCHANGED <<nextId, again, reply, feeds, taken, reused, acked, dups, open, down, up,
                   progVars>>

WriteMessage(s) ==
    /\ sender[s].at = "write"
    /\ SendDown(Packet("PUBLISH", sender[s].id, sender[s].msg))
    /\ sender' = [sender EXCEPT ![s] = Resting]
    /\ UNCHANGED <<inflight, nextId, again, reply, feeds, taken, reused, acked, dups, open,
                   up, progVars>>

\* retransmitLoop: the entries whose timeout has passed.
RetransmitPick ==
    /\ again = {} /\ open /\ ~Spinning
    /\ \E S \in SUBSET {i \in Ids : Used(i)} :
        /\ S # {} /\ dups + Cardinality(S) <= MaxDups
        /\ again' = {Packet("PUBLISH", i, inflight[i]) : i \in S}
        /\ dups' = dups + Cardinality(S)
    /\ UNCHANGED <<inflight, nextId, sender, reply, feeds, taken, reused, acked, open, down,
                   up, progVars>>

\* They are written one by one, whatever has become of them since.
RetransmitWrite ==
    /\ \E a \in again : SendDown(a) /\ again' = again \ {a}
    /\ UNCHANGED <<inflight, nextId, sender, reply, feeds, taken, reused, acked, dups, open,
                   up, progVars>>

-----------------------------------------------------------------------------
(* The session: what it reads. *)

\* Mutant: the entry stays in the table.
HandlePubAck_Kept ==
    /\ open /\ reply = "none" /\ ~Spinning
    /\ up # <<>> /\ Head(up).type = "PUBACK"
    /\ up' = Tail(up)
    /\ acked' = IF Used(Head(up).id) THEN acked \cup {inflight[Head(up).id]} ELSE acked
    /\ UNCHANGED <<inflight, nextId, sender, again, reply, feeds, taken, reused, dups, open,
                   down, progVars>>

\* handlePubAck.
HandlePubAck ==
    /\ open /\ reply = "none" /\ ~Spinning
    /\ up # <<>> /\ Head(up).type = "PUBACK"
    /\ up' = Tail(up)
    /\ LET i == Head(up).id IN
        /\ acked' = IF Used(i) THEN acked \cup {inflight[i]} ELSE acked
        /\ inflight' = [inflight EXCEPT ![i] = 0]
    /\ UNCHANGED <<nextId, sender, again, reply, feeds, taken, reused, dups, open, down,
                   progVars>>

\* Mutant: the subscription is live before its SUBACK is written.
HandleRequest_Early ==
    /\ open /\ reply = "none"
    /\ up # <<>> /\ Head(up).type \in {"SUBSCRIBE", "PUBLISH"}
    /\ up' = Tail(up)
    /\ reply' = IF Head(up).type = "SUBSCRIBE" THEN "SUBACK" ELSE "PUBACK"
    /\ feeds' = IF Head(up).type = "SUBSCRIBE" THEN feeds + 1 ELSE feeds
    /\ UNCHANGED <<inflight, nextId, sender, again, taken, reused, acked, dups, open, down,
                   progVars>>

\* SUBSCRIBE and PUBLISH have an answer, which the loop writes before it goes on.
HandleRequest ==
    /\ open /\ reply = "none"
    /\ up # <<>> /\ Head(up).type \in {"SUBSCRIBE", "PUBLISH"}
    /\ up' = Tail(up)
    /\ reply' = IF Head(up).type = "SUBSCRIBE" THEN "SUBACK" ELSE "PUBACK"
    /\ UNCHANGED <<inflight, nextId, sender, again, feeds, taken, reused, acked, dups, open,
                   down,
                   progVars>>

\* The answer is written; after a SUBACK the loop has the catch-up before it.
Reply ==
    /\ reply \in {"SUBACK", "PUBACK"}
    /\ SendDown(Packet(reply, 0, 0))
    /\ reply' = IF reply = "SUBACK" THEN "catchup" ELSE "none"
    /\ UNCHANGED <<inflight, nextId, sender, again, feeds, taken, reused, acked, dups, open, up,
                   progVars>>

\* The last message of the catch-up is written, or there was none: the delivery
\* goroutine of the subscription starts, and the loop reads on.
CatchUpEnds ==
    /\ reply = "catchup" /\ sender[Loop].at = "idle" /\ open
    /\ reply' = "none" /\ feeds' = feeds + 1
    /\ UNCHANGED <<inflight, nextId, sender, again, taken, reused, acked, dups, open, down, up,
                   progVars>>

-----------------------------------------------------------------------------
(* The program: every exchange with the network under connMu. *)

\* The network operations a goroutine of the SDK may have before it.
Writing == {"subscribe", "puback", "publish"}
Reading == {"suback", "loop"}

Lock(t) ==
    /\ mu = Free /\ place[t] \in Writing \cup Reading \cup {"close"}
    /\ mu' = t
    /\ UNCHANGED <<sessVars, open, down, up, place, hand, seen, passed, handled, skipped, pubs>>

\* The operation of t is over: connMu is free, t goes on to p.
Unlock(t, p) == mu = t /\ mu' = Free /\ place' = [place EXCEPT ![t] = p]

\* sendSubscribe, sendPubAck, writePublish.
SendSubscribe(r) ==
    /\ place[r] = "subscribe" /\ Unlock(r, "suback")
    /\ SendUp(Packet("SUBSCRIBE", 0, 0))
    /\ UNCHANGED <<sessVars, open, down, hand, seen, passed, handled, skipped, pubs>>

SendPubAck(r) ==
    /\ place[r] = "puback" /\ Unlock(r, "loop")
    /\ SendUp(Packet("PUBACK", hand[r].id, 0))
    /\ hand' = [hand EXCEPT ![r] = Nothing]
    /\ UNCHANGED <<sessVars, open, down, seen, passed, handled, skipped, pubs>>

WritePublish(c) ==
    /\ place[c] = "publish" /\ Unlock(c, "idle")
    /\ SendUp(Packet("PUBLISH", 0, 0))
    /\ UNCHANGED <<sessVars, open, down, hand, seen, passed, handled, skipped, pubs>>

\* Subscribe takes the next packet for its SUBACK, whatever it is.
ReadSuback(r) ==
    /\ place[r] = "suback" /\ down # <<>> /\ Unlock(r, "loop")
    /\ skipped' = IF Head(down).type = "PUBLISH" THEN skipped \cup {Head(down).msg} ELSE skipped
    /\ down' = Tail(down)
    /\ UNCHANGED <<sessVars, open, up, hand, seen, passed, handled, pubs>>

\* One turn of the reading loop; what is not a PUBLISH is passed over.
ReadLoop(r) ==
    /\ place[r] = "loop" /\ down # <<>>
    /\ IF Head(down).type = "PUBLISH"
        THEN Unlock(r, "deliver") /\ hand' = [hand EXCEPT ![r] = Head(down)]
        ELSE Unlock(r, "loop") /\ UNCHANGED hand
    /\ down' = Tail(down)
    /\ UNCHANGED <<sessVars, open, up, seen, passed, handled, skipped, pubs>>

\* ctx.Done() is looked at between two packets only.
Cancel(r) ==
    /\ place[r] = "loop" /\ mu # r
    /\ place' = [place EXCEPT ![r] = "done"]
    /\ UNCHANGED <<sessVars, open, down, up, mu, hand, seen, passed, handled, skipped, pubs>>

\* Mutant: the cache drops an id one insertion too early.
Remember_Early(id) ==
    LET keys == Append(seen, id) IN IF Len(keys) >= SeenCap THEN Tail(keys) ELSE keys

\* Seen: a new id goes to the end, the oldest one falls out beyond the capacity.
Remember(id) ==
    LET keys == Append(seen, id) IN IF Len(keys) > SeenCap THEN Tail(keys) ELSE keys

\* A message without an id has never been seen.
IsSeen(id) == id \notin Nameless /\ \E n \in DOMAIN seen : seen[n] = id

\* Seen lets a message through to the handler, and remembers its id if it has one;
\* one seen before is acknowledged without calling the handler.
CheckSeen(r) ==
    /\ place[r] = "deliver"
    /\ IF IsSeen(hand[r].msg) \/ hand[r].msg \in Nameless
        THEN UNCHANGED <<seen, passed>>
        ELSE seen' = Remember(hand[r].msg) /\ passed' = Append(passed, hand[r].msg)
    /\ place' = [place EXCEPT ![r] = IF IsSeen(hand[r].msg) THEN "puback" ELSE "handle"]
    /\ UNCHANGED <<sessVars, open, down, up, mu, hand, handled, skipped, pubs>>

\* handler(Message{...}) returns.
CallHandler(r) ==
    /\ place[r] = "handle"
    /\ handled' = handled \cup {hand[r].msg}
    /\ place' = [place EXCEPT ![r] = "puback"]
    /\ UNCHANGED <<sessVars, open, down, up, mu, hand, seen, passed, skipped, pubs>>

\* Publish and Close are called.
BeginPublish(c) ==
    /\ place[c] = "idle" /\ pubs < MaxPubs
    /\ place' = [place EXCEPT ![c] = "publish"]
    /\ pubs' = pubs + 1
    /\ UNCHANGED <<sessVars, open, down, up, mu, hand, seen, passed, handled, skipped>>

BeginClose(c) ==
    /\ place[c] = "idle" /\ open
    /\ place' = [place EXCEPT ![c] = "close"]
    /\ UNCHANGED <<sessVars, open, down, up, mu, hand, seen, passed, handled, skipped, pubs>>

CloseConn(c) ==
    /\ place[c] = "close" /\ Unlock(c, "idle")
    /\ open' = FALSE
    /\ UNCHANGED <<sessVars, down, up, hand, seen, passed, handled, skipped, pubs>>

\* External: the connection breaks, or the broker closes it.
Cut ==
    /\ open /\ open' = FALSE
    /\ UNCHANGED <<sessVars, down, up, progVars>>

\* Mutant: the return on an error leaves connMu locked.
Fail_KeepsLock(t) ==
    /\ ~open /\ place[t] \in Writing \cup Reading /\ mu = t
    /\ place' = [place EXCEPT ![t] = IF t \in Readers THEN "done" ELSE "idle"]
    /\ UNCHANGED <<sessVars, open, down, up, mu, hand, seen, passed, handled, skipped, pubs>>

\* An error ends Subscribe, its loop and Publish; the one of a PUBACK is ignored.
Fail(t) ==
    /\ ~open /\ place[t] \in Writing \cup Reading
    /\ Unlock(t, CASE place[t] \in {"subscribe", "suback", "loop"} -> "done"
                   [] place[t] = "puback" -> "loop"
                   [] OTHER -> "idle")
    /\ hand' = IF place[t] = "puback" THEN [hand EXCEPT ![t] = Nothing] ELSE hand
    /\ UNCHANGED <<sessVars, open, down, up, seen, passed, handled, skipped, pubs>>

-----------------------------------------------------------------------------
Next ==
    \/ \E s \in Senders : AllocPacketID(s)
    \/ \E s \in Senders : AllocSpins(s)
    \/ \E s \in Senders : Track(s)
    \/ \E s \in Senders : WriteMessage(s)
    \/ RetransmitPick
    \/ RetransmitWrite
    \/ HandlePubAck
    \/ HandleRequest
    \/ Reply
    \/ CatchUpEnds
    \/ \E t \in Threads : Lock(t)
    \/ \E r \in Readers : SendSubscribe(r)
    \/ \E r \in Readers : SendPubAck(r)
    \/ \E r \in Readers : ReadSuback(r)
    \/ \E r \in Readers : ReadLoop(r)
    \/ \E r \in Readers : Cancel(r)
    \/ \E r \in Readers : CheckSeen(r)
    \/ \E r \in Readers : CallHandler(r)
    \/ \E c \in Callers : BeginPublish(c)
    \/ \E c \in Callers : WritePublish(c)
    \/ \E c \in Callers : BeginClose(c)
    \/ \E c \in Callers : CloseConn(c)
    \/ \E t \in Threads : Fail(t)
    \/ Cut

\* Goroutines run, packets in the network arrive, handlers return, and a mutex
\* of Go is handed to whoever has waited for a millisecond. Messages, calls,
\* timeouts, cancellations and breaks need not happen.
Fairness ==
    /\ \A s \in Senders : WF_vars(Track(s)) /\ WF_vars(WriteMessage(s))
    /\ WF_vars(RetransmitWrite) /\ WF_vars(HandlePubAck)
    /\ WF_vars(HandleRequest) /\ WF_vars(Reply) /\ WF_vars(CatchUpEnds)
    /\ \A t \in Threads : SF_vars(Lock(t)) /\ WF_vars(Fail(t))
    /\ \A r \in Readers : /\ WF_vars(SendSubscribe(r)) /\ WF_vars(SendPubAck(r))
                          /\ WF_vars(ReadSuback(r)) /\ WF_vars(ReadLoop(r))
                          /\ WF_vars(CheckSeen(r)) /\ WF_vars(CallHandler(r))
    /\ \A c \in Callers : WF_vars(WritePublish(c)) /\ WF_vars(CloseConn(c))

Spec == Init /\ [][Next]_vars /\ Fairness

-----------------------------------------------------------------------------
(* Properties. *)

Packets(types) == [type : types, id : 0..MaxId, msg : 0..MaxMsgs]

\* Type invariant of the connection: session.inflight and its ids, Client.connMu
\* and the goroutines around it, and the packets between them.
LinkTypeOK ==
    /\ inflight \in [Ids -> 0..MaxMsgs] /\ nextId \in Ids
    /\ sender \in [Senders -> [at : {"idle", "track", "write", "spin"}, id : 0..MaxId,
                               msg : 0..MaxMsgs]]
    /\ again \subseteq Packets({"PUBLISH"}) /\ reply \in {"none", "SUBACK", "PUBACK", "catchup"}
    /\ feeds \in 0..Cardinality(Readers) /\ open \in BOOLEAN
    /\ Len(down) <= NetCap /\ Len(up) <= NetCap
    /\ \A n \in DOMAIN down : down[n] \in Packets({"PUBLISH", "SUBACK", "PUBACK"})
    /\ \A n \in DOMAIN up : up[n] \in Packets({"PUBLISH", "SUBSCRIBE", "PUBACK"})
    /\ mu \in Threads \cup {Free}
    /\ place \in [Threads -> Writing \cup Reading
                            \cup {"deliver", "handle", "idle", "close", "done"}]
    /\ hand \in [Readers -> Packets({"none", "PUBLISH"})]
    /\ Len(seen) <= SeenCap

\* A PUBACK takes from session.inflight, and into the offset, only a message whose
\* handler the SDK has called, as long as no id was given out while a packet with
\* it was under way. allocPacketID does not see to that: it looks at the table
\* only, and what keeps a late packet from meeting the next message with its id is
\* that 65535 others come before.
AckedWasHandled == ~reused => acked \subseteq handled

\* SeenCache against retransmitLoop: a message that has a server id is let through
\* to the handler again only after SeenCap others were in between.
HandlerOnce ==
    \A i, j \in DOMAIN passed : i < j /\ passed[i] = passed[j] => j - i > SeenCap

\* What Subscribe reads as its SUBACK is never a message: handleSubscribe writes
\* the SUBACK before the first delivery, and one Subscribe has the line alone.
SubackNotMessage == skipped = {}

\* On an open connection no entry is left in session.inflight without a packet
\* under way that will free it. With what the network holds, this is what bounds
\* the table: the SDK cannot take the last id by answering slowly unless that
\* many packets fit.
EntryUnderWay == open => \A i \in Ids : Used(i) => Trace(i)

\* A reader waits with connMu locked for a packet that is not there.
Silent == \E r \in Readers : mu = r /\ place[r] \in Reading /\ down = <<>> /\ open

\* Both directions are full and the reading loop has something to write before it
\* reads on: an answer, or the rest of a catch-up.
Jammed == reply # "none" /\ Len(down) = NetCap /\ Len(up) = NetCap

\* Publish and Close return, unless one of three things lasts for ever: the
\* program's reading loop holds connMu and the broker has nothing to say; the
\* connection is full both ways, by answers that nobody reads or by a catch-up that
\* is written while Publish holds connMu; or allocPacketID goes round a full table.
CallsReturn ==
    \A c \in Callers : []<>(place[c] = "idle") \/ <>[](Silent \/ Jammed \/ Spinning)
=============================================================================
