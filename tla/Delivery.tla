------------------------------ MODULE Delivery ------------------------------
(***************************************************************************)
(* core/transport/mqtt/session.go and core/offsets/offsets.go: how the     *)
(* messages of one topic reach the clients that subscribe to it.           *)
(*                                                                         *)
(* A session has a reader goroutine (Handle, which runs every packet       *)
(* handler), one delivery goroutine per subscription it started, and a     *)
(* retransmission loop. All of them write to one connection and share the  *)
(* inflight table and the topic's offset for the client.                   *)
(*                                                                         *)
(* The client is the other end of the connection: it reads packets in      *)
(* order and answers each QoS 1 PUBLISH with a PUBACK. It keeps one        *)
(* connection at a time and opens a new one after it lost the last.        *)
(***************************************************************************)
EXTENDS Topic

CONSTANTS
    Clients,        \* client ids
    Sessions,       \* connections, numbered in the order they are accepted
    ClientOf,       \* the client id each connection presents in CONNECT
    QoSs,           \* the QoS levels the client may ask for with each subscription
    CatchUpLimit,   \* catchUpLimit: stored messages sent on SUBSCRIBE
    CleanStop,      \* TRUE: the process stops only between publishes
    PurgeUnread,    \* TRUE: the operator purges only while no client has connected
    MaxEvents,      \* bound: retransmissions, kicks, purges and restarts together
    NoSub,          \* no subscriber channel
    NoSession       \* no session

ASSUME SessionAssumption ==
    /\ ClientOf \in [Sessions -> Clients]
    /\ QoSs \in [Subs -> SUBSET {0, 1}]
    /\ Sessions \subseteq Nat /\ Subs \subseteq Nat
    /\ NoSub \notin Subs /\ NoSession \notin Sessions
ASSUME DeliveryBounds ==
    /\ CatchUpLimit \in Nat /\ MaxEvents \in Nat
    /\ CleanStop \in BOOLEAN /\ PurgeUnread \in BOOLEAN

VARIABLES
    st,         \* where the reader goroutine of each session is
    link,       \* the connection: "up", "cut" (lost), "closed" (by the broker)
    sub,        \* session.subs: the channel subscribed now
    cur,        \* the channel the running handleSubscribe opened
    backlog,    \* catchUp: fetched messages it has yet to deliver
    owner,      \* the session that opened each channel
    qos,        \* session.subQoS, per channel
    live,       \* where the delivery goroutine of each channel is
    hold,       \* the message that goroutine took from the channel
    inflight,   \* session.inflight: packet id to message
    nextPid,    \* session.nextPktID
    resend,     \* what retransmitLoop has picked and not yet written
    out, acks,  \* packets on the wire, to and from the client
    off,        \* Offsets.offsets, per client
    dbOff,      \* Badger: the offset keys
    rcvd,       \* history: per client, the messages in order of first arrival
    sent0,      \* history: per client, the messages written at QoS 0
    dups, kicks \* bounded counters

readVars == <<st, sub, cur, backlog>>
chanVars == <<owner, qos>>
liveVars == <<live, hold>>
flyVars  == <<inflight, nextPid>>
loopVars == <<resend, dups, kicks>>
wireVars == <<link, out, acks>>
offVars  == <<off, dbOff>>
seenVars == <<rcvd, sent0>>
sessVars == <<readVars, liveVars, flyVars, wireVars, offVars, seenVars, chanVars, loopVars>>
topicVars == vars
allVars == <<topicVars, sessVars>>

NoEntry == [seq |-> 0, msg |-> 0]
NoPacket == [pid |-> 0, entry |-> NoEntry]
Elems(q) == {q[i] : i \in DOMAIN q}
Quiet == dups + kicks + crashes + purges < MaxEvents
Prefixes(q) == {SubSeq(q, 1, n) : n \in 0 .. Len(q)}

-----------------------------------------------------------------------------

DInit ==
    /\ Init
    /\ st = [s \in Sessions |-> "new"]
    /\ link = [s \in Sessions |-> "closed"]
    /\ sub = [s \in Sessions |-> NoSub]
    /\ cur = [s \in Sessions |-> NoSub]
    /\ backlog = [s \in Sessions |-> <<>>]
    /\ owner = [k \in Subs |-> NoSession]
    /\ qos = [k \in Subs |-> 0]
    /\ live = [k \in Subs |-> "none"]
    /\ hold = [k \in Subs |-> NoEntry]
    /\ inflight = [s \in Sessions |-> [i \in {} |-> 0]]
    /\ nextPid = [s \in Sessions |-> 1]
    /\ out = [s \in Sessions |-> <<>>]
    /\ acks = [s \in Sessions |-> <<>>]
    /\ off = [c \in Clients |-> 0]
    /\ dbOff = [c \in Clients |-> 0]
    /\ rcvd = [c \in Clients |-> <<>>]
    /\ sent0 = [c \in Clients |-> {}]
    /\ resend = [s \in Sessions |-> NoPacket]
    /\ dups = 0 /\ kicks = 0

-----------------------------------------------------------------------------
(* offsets.go *)

\* Offsets.Set: the map and the key; a failed write is only logged.
SetOffset(c, n) ==
    /\ off' = [off EXCEPT ![c] = n]
    /\ \/ dbOff' = [dbOff EXCEPT ![c] = n]
       \/ "offWrite" \in Faults /\ dbOff' = dbOff

-----------------------------------------------------------------------------
(* Writes to the connection. *)

CanWrite(s) == link[s] \in {"up", "cut"}
MayFail(s)  == link[s] \in {"cut", "closed"}

\* What the client will read: nothing once the connection is cut.
Send(s, pkt) ==
    out' = IF link[s] = "up" THEN [out EXCEPT ![s] = Append(@, pkt)] ELSE out

\* Mutant: the packet id is handed out without moving the counter on.
Track_SameId(s, e) ==
    /\ inflight' = [inflight EXCEPT ![s] = Put(@, nextPid[s], e)]
    /\ UNCHANGED nextPid

\* allocPacketID and the inflight entry. The counter wraps at 2^16 in the code;
\* no instance here comes near it.
Track(s, e) ==
    /\ inflight' = [inflight EXCEPT ![s] = Put(@, nextPid[s], e)]
    /\ nextPid' = [nextPid EXCEPT ![s] = @ + 1]

\* deliverMessage up to and including its write. At QoS 1 the message gets a
\* packet id and an inflight entry first, and keeps them if the write fails
\* (the table of a closed session is garbage).
DeliverWrite(s, e, q) ==
    /\ CanWrite(s)
    /\ \/ q = 1 /\ Track(s, e) /\ Send(s, [pid |-> nextPid[s], entry |-> e])
                /\ UNCHANGED sent0
       \/ q = 0 /\ Send(s, [pid |-> 0, entry |-> e])
                /\ sent0' = [sent0 EXCEPT ![ClientOf[s]] = @ \cup {e.msg}]
                /\ UNCHANGED flyVars

DeliverError(s, e, q) ==
    /\ MayFail(s)
    /\ IF q = 1 /\ st[s] # "closed" THEN Track(s, e) ELSE UNCHANGED flyVars

-----------------------------------------------------------------------------
(* The reader goroutine: Handle and the packet handlers. *)

\* The connection is accepted and CONNECT handled. The client has read its
\* previous connection to the end and opens no second one beside it.
Connect(s) ==
    /\ st[s] = "new"
    /\ \A t \in Sessions : t < s => st[t] # "new"
    /\ PurgeUnread => purge = "idle"
    /\ \A t \in Sessions : ClientOf[t] = ClientOf[s] => link[t] # "up" /\ out[t] = <<>>
    /\ st' = [st EXCEPT ![s] = "ready"]
    /\ link' = [link EXCEPT ![s] = "up"]
    /\ UNCHANGED <<topicVars, sub, cur, backlog, liveVars, flyVars, out, acks,
                   offVars, seenVars, chanVars, loopVars>>

\* handleSubscribe, first part: t.Subscribe() registers a new channel.
HandleSubscribe(s, k, q) ==
    /\ st[s] = "ready"
    /\ link[s] = "up"
    /\ owner[k] = NoSession
    /\ \A j \in Subs : j < k => owner[j] # NoSession
    /\ Subscribe(k)
    /\ owner' = [owner EXCEPT ![k] = s]
    /\ qos' = [qos EXCEPT ![k] = q]
    /\ cur' = [cur EXCEPT ![s] = k]
    /\ st' = [st EXCEPT ![s] = "swap"]
    /\ UNCHANGED <<sub, backlog, liveVars, flyVars, wireVars, offVars, seenVars, loopVars>>

\* Mutant: the subscription this one replaces is not cancelled.
SwapSub_KeepOld(s) ==
    /\ st[s] = "swap"
    /\ UNCHANGED topicVars
    /\ sub' = [sub EXCEPT ![s] = cur[s]]
    /\ st' = [st EXCEPT ![s] = "fetch"]
    /\ UNCHANGED <<cur, backlog, liveVars, flyVars, wireVars, offVars, seenVars,
                   chanVars, loopVars>>

\* Under subsMu: cancel the subscription this one replaces, record the new one.
SwapSub(s) ==
    /\ st[s] = "swap"
    /\ IF sub[s] = NoSub THEN UNCHANGED topicVars ELSE Unsubscribe(sub[s])
    /\ sub' = [sub EXCEPT ![s] = cur[s]]
    /\ st' = [st EXCEPT ![s] = "fetch"]
    /\ UNCHANGED <<cur, backlog, liveVars, flyVars, wireVars, offVars, seenVars,
                   chanVars, loopVars>>

\* GetMessages(from, limit): the stored messages from a number on, in key order.
GetMessages(from, limit) ==
    LET keys == {k \in DOMAIN msgs : k >= from}
        nth(i) == CHOOSE k \in keys : Cardinality({j \in keys : j < k}) = i - 1
        n == IF Cardinality(keys) < limit THEN Cardinality(keys) ELSE limit
    IN  [i \in 1 .. n |-> [seq |-> nth(i), msg |-> msgs[nth(i)]]]

\* Mutant: the scan starts one key too late.
CatchUp_SkipsFirst(s) ==
    IF off[ClientOf[s]] < seq
    THEN GetMessages(off[ClientOf[s]] + 2, CatchUpLimit)
    ELSE <<>>

\* What handleSubscribe fetches behind the client's offset.
CatchUp(s) ==
    IF off[ClientOf[s]] < seq
    THEN GetMessages(off[ClientOf[s]] + 1, CatchUpLimit)
    ELSE <<>>

\* The offset, the catch-up messages (none if the scan fails, which is only
\* logged) and the SUBACK.
FetchCatchUp(s) ==
    /\ st[s] = "fetch"
    /\ CanWrite(s)
    /\ \E b \in {CatchUp(s)} \cup (IF "fetch" \in Faults THEN {<<>>} ELSE {}) :
            backlog' = [backlog EXCEPT ![s] = b]
    /\ st' = [st EXCEPT ![s] = "catchup"]
    /\ UNCHANGED <<topicVars, sub, cur, liveVars, flyVars, wireVars, offVars,
                   seenVars, chanVars, loopVars>>

\* One catch-up message goes out; at QoS 0 the offset follows it.
DeliverCatchUp(s) ==
    /\ st[s] = "catchup"
    /\ backlog[s] # <<>>
    /\ DeliverWrite(s, Head(backlog[s]), qos[cur[s]])
    /\ IF qos[cur[s]] = 0
       THEN st' = [st EXCEPT ![s] = "catchset"] /\ UNCHANGED backlog
       ELSE backlog' = [backlog EXCEPT ![s] = Tail(@)] /\ UNCHANGED st
    /\ UNCHANGED <<topicVars, sub, cur, liveVars, link, acks, offVars, rcvd,
                   chanVars, loopVars>>

\* offs.Set after a QoS 0 catch-up write.
CatchUpSetOffset(s) ==
    /\ st[s] = "catchset"
    /\ SetOffset(ClientOf[s], Head(backlog[s]).seq)
    /\ backlog' = [backlog EXCEPT ![s] = Tail(@)]
    /\ st' = [st EXCEPT ![s] = "catchup"]
    /\ UNCHANGED <<topicVars, sub, cur, liveVars, flyVars, wireVars, seenVars,
                   chanVars, loopVars>>

\* The SUBACK or a catch-up write fails: the handler's error ends the session.
SubscribeFails(s) ==
    /\ \/ st[s] = "fetch" /\ MayFail(s) /\ UNCHANGED flyVars
       \/ st[s] = "catchup" /\ backlog[s] # <<>>
            /\ DeliverError(s, Head(backlog[s]), qos[cur[s]])
    /\ st' = [st EXCEPT ![s] = "closing"]
    /\ backlog' = [backlog EXCEPT ![s] = <<>>]
    /\ UNCHANGED <<topicVars, sub, cur, liveVars, wireVars, offVars, seenVars,
                   chanVars, loopVars>>

\* Mutant: the delivery goroutine starts while catch-up messages are left.
StartLive_Early(s) ==
    /\ st[s] = "catchup"
    /\ live' = [live EXCEPT ![cur[s]] = "recv"]
    /\ backlog' = [backlog EXCEPT ![s] = <<>>]
    /\ st' = [st EXCEPT ![s] = "ready"]
    /\ cur' = [cur EXCEPT ![s] = NoSub]
    /\ UNCHANGED <<topicVars, sub, hold, flyVars, wireVars, offVars, seenVars,
                   chanVars, loopVars>>

\* The catch-up is done: go func() delivers from the channel, the handler returns.
StartLive(s) ==
    /\ st[s] = "catchup"
    /\ backlog[s] = <<>>
    /\ live' = [live EXCEPT ![cur[s]] = "recv"]
    /\ st' = [st EXCEPT ![s] = "ready"]
    /\ cur' = [cur EXCEPT ![s] = NoSub]
    /\ UNCHANGED <<topicVars, sub, backlog, hold, flyVars, wireVars, offVars,
                   seenVars, chanVars, loopVars>>

\* handleUnsubscribe
HandleUnsubscribe(s) ==
    /\ st[s] = "ready"
    /\ link[s] = "up"
    /\ sub[s] # NoSub
    /\ Unsubscribe(sub[s])
    /\ sub' = [sub EXCEPT ![s] = NoSub]
    /\ UNCHANGED <<st, cur, backlog, liveVars, flyVars, wireVars, offVars,
                   seenVars, chanVars, loopVars>>

\* handlePubAck: the entry leaves the table and its number becomes the offset,
\* also when the offset was larger; an unknown packet id changes nothing.
HandlePubAck(s) ==
    /\ st[s] = "ready"
    /\ link[s] # "closed"
    /\ acks[s] # <<>>
    /\ acks' = [acks EXCEPT ![s] = Tail(@)]
    /\ LET pid == Head(acks[s]) IN
       IF pid \in DOMAIN inflight[s]
       THEN /\ inflight' = [inflight EXCEPT ![s] = Drop(@, pid)]
            /\ SetOffset(ClientOf[s], inflight[s][pid].seq)
       ELSE UNCHANGED <<inflight, offVars>>
    /\ UNCHANGED <<topicVars, readVars, liveVars, nextPid, link, out, seenVars,
                   chanVars, loopVars>>

\* ReadPacket fails: the connection is lost and read empty, or was closed.
ReadError(s) ==
    /\ st[s] = "ready"
    /\ link[s] = "closed" \/ (link[s] = "cut" /\ acks[s] = <<>>)
    /\ st' = [st EXCEPT ![s] = "closing"]
    /\ UNCHANGED <<topicVars, sub, cur, backlog, liveVars, flyVars, wireVars,
                   offVars, seenVars, chanVars, loopVars>>

\* Handle's deferred function: cancel(), cleanupSubs(), Close(). Nothing reads the
\* packet counter of a session that has ended; the model sets it back.
Cleanup(s) ==
    /\ st[s] = "closing"
    /\ IF sub[s] = NoSub THEN UNCHANGED topicVars ELSE Unsubscribe(sub[s])
    /\ sub' = [sub EXCEPT ![s] = NoSub]
    /\ inflight' = [inflight EXCEPT ![s] = [i \in {} |-> 0]]
    /\ link' = [link EXCEPT ![s] = "closed"]
    /\ acks' = [acks EXCEPT ![s] = <<>>]
    /\ st' = [st EXCEPT ![s] = "closed"]
    /\ cur' = [cur EXCEPT ![s] = NoSub]
    /\ nextPid' = [nextPid EXCEPT ![s] = 1]
    /\ UNCHANGED <<backlog, liveVars, out, offVars, seenVars, chanVars, loopVars>>

-----------------------------------------------------------------------------
(* The delivery goroutine of a subscription. *)

\* Mutant: a message one past the offset counts as delivered already.
LiveRecv_OffByOne(k) ==
    LET s == owner[k] IN
    /\ live[k] = "recv"
    /\ ch[k] # <<>>
    /\ Recv(k)
    /\ IF Head(ch[k]).seq <= off[ClientOf[s]] + 1
       THEN UNCHANGED liveVars
       ELSE /\ hold' = [hold EXCEPT ![k] = Head(ch[k])]
            /\ live' = [live EXCEPT ![k] = "deliver"]
    /\ UNCHANGED <<readVars, flyVars, wireVars, offVars, seenVars, chanVars, loopVars>>

\* case msg, ok := <-p.msgCh: messages at or below the offset are skipped.
LiveRecv(k) ==
    LET s == owner[k] IN
    /\ live[k] = "recv"
    /\ ch[k] # <<>>
    /\ Recv(k)
    /\ IF Head(ch[k]).seq <= off[ClientOf[s]]
       THEN UNCHANGED liveVars
       ELSE /\ hold' = [hold EXCEPT ![k] = Head(ch[k])]
            /\ live' = [live EXCEPT ![k] = "deliver"]
    /\ UNCHANGED <<readVars, flyVars, wireVars, offVars, seenVars, chanVars, loopVars>>

LiveDeliver(k) ==
    LET s == owner[k] IN
    /\ live[k] = "deliver"
    /\ DeliverWrite(s, hold[k], qos[k])
    /\ IF qos[k] = 0
       THEN live' = [live EXCEPT ![k] = "setoff"] /\ UNCHANGED hold
       ELSE live' = [live EXCEPT ![k] = "recv"] /\ hold' = [hold EXCEPT ![k] = NoEntry]
    /\ UNCHANGED <<topicVars, readVars, link, acks, offVars, rcvd, chanVars, loopVars>>

LiveSetOffset(k) ==
    /\ live[k] = "setoff"
    /\ SetOffset(ClientOf[owner[k]], hold[k].seq)
    /\ live' = [live EXCEPT ![k] = "recv"]
    /\ hold' = [hold EXCEPT ![k] = NoEntry]
    /\ UNCHANGED <<topicVars, readVars, flyVars, wireVars, seenVars, chanVars, loopVars>>

\* The write fails: the goroutine returns.
LiveDeliverFails(k) ==
    /\ live[k] = "deliver"
    /\ DeliverError(owner[k], hold[k], qos[k])
    /\ live' = [live EXCEPT ![k] = "done"]
    /\ hold' = [hold EXCEPT ![k] = NoEntry]
    /\ UNCHANGED <<topicVars, readVars, wireVars, offVars, seenVars, chanVars, loopVars>>

\* Mutant: a closed channel is not looked for, only the end of the session.
LiveExit_Ctx(k) ==
    /\ live[k] = "recv"
    /\ st[owner[k]] = "closed"
    /\ live' = [live EXCEPT ![k] = "done"]
    /\ UNCHANGED <<topicVars, readVars, hold, flyVars, wireVars, offVars, seenVars,
                   chanVars, loopVars>>

\* The channel is closed and empty, or ctx is done: the goroutine returns.
LiveExit(k) ==
    /\ live[k] = "recv"
    /\ \/ k \notin subs /\ ch[k] = <<>>
       \/ st[owner[k]] = "closed"
    /\ live' = [live EXCEPT ![k] = "done"]
    /\ UNCHANGED <<topicVars, readVars, hold, flyVars, wireVars, offVars, seenVars,
                   chanVars, loopVars>>

\* retransmitLoop: under inflightMu it picks a message that has waited too long.
RetransmitPick(s, pid) ==
    /\ Quiet
    /\ st[s] \notin {"new", "closed"}
    /\ resend[s] = NoPacket
    /\ pid \in DOMAIN inflight[s]
    /\ resend' = [resend EXCEPT ![s] = [pid |-> pid, entry |-> inflight[s][pid]]]
    /\ dups' = dups + 1
    /\ UNCHANGED <<topicVars, readVars, liveVars, flyVars, wireVars, offVars,
                   seenVars, chanVars, kicks>>

\* Later, without the lock, it writes it again under its packet id, which may have
\* been acknowledged by then; a write error is skipped.
RetransmitWrite(s) ==
    /\ resend[s] # NoPacket
    /\ \/ CanWrite(s) /\ Send(s, resend[s])
       \/ MayFail(s) /\ UNCHANGED out
    /\ resend' = [resend EXCEPT ![s] = NoPacket]
    /\ UNCHANGED <<topicVars, readVars, liveVars, flyVars, link, acks, offVars,
                   seenVars, chanVars, dups, kicks>>

-----------------------------------------------------------------------------
(* The client, the network, the administrator, the process. *)

\* The client reads a packet and, at QoS 1, acknowledges it.
ClientRecv(s) ==
    LET c == ClientOf[s]
        pkt == Head(out[s])
    IN
    /\ out[s] # <<>>
    /\ out' = [out EXCEPT ![s] = Tail(@)]
    /\ rcvd' = IF pkt.entry \in Elems(rcvd[c]) THEN rcvd
               ELSE [rcvd EXCEPT ![c] = Append(@, pkt.entry)]
    /\ acks' = IF link[s] = "up" /\ pkt.pid # 0
               THEN [acks EXCEPT ![s] = Append(@, pkt.pid)] ELSE acks
    /\ UNCHANGED <<topicVars, readVars, liveVars, flyVars, link, offVars, sent0,
                   chanVars, loopVars>>

\* The connection is lost (or the client disconnects): what the client has not
\* read is gone, and some of its last acknowledgements too.
Cut(s) ==
    /\ link[s] = "up"
    /\ link' = [link EXCEPT ![s] = "cut"]
    /\ out' = [out EXCEPT ![s] = <<>>]
    /\ \E q \in Prefixes(acks[s]) : acks' = [acks EXCEPT ![s] = q]
    /\ UNCHANGED <<topicVars, readVars, liveVars, flyVars, offVars, seenVars,
                   chanVars, loopVars>>

\* The broker closes the connection: Shutdown, or KickClient, which has no caller.
\* The client may still read what was written before.
Kick(s) ==
    /\ Quiet
    /\ kicks' = kicks + 1
    /\ link[s] = "up"
    /\ link' = [link EXCEPT ![s] = "closed"]
    /\ \E q \in Prefixes(out[s]) : out' = [out EXCEPT ![s] = q]
    /\ acks' = [acks EXCEPT ![s] = <<>>]
    /\ UNCHANGED <<topicVars, readVars, liveVars, flyVars, offVars, seenVars, chanVars, resend, dups>>

\* Topic.Purge, which leaves the offsets of the topic's clients as they are.
DPurge ==
    /\ PurgeUnread => \A s \in Sessions : st[s] = "new"
    /\ purge = "idle" => Quiet
    /\ Purge
    /\ UNCHANGED sessVars

\* The process stops and starts again: sessions are gone, offsets are loaded.
DRestart ==
    /\ CleanStop => \A p \in Publishers : pc[p] = "idle"
    /\ Quiet
    /\ Restart
    /\ off' = dbOff
    /\ st' = [s \in Sessions |-> IF st[s] = "new" THEN "new" ELSE "closed"]
    /\ link' = [s \in Sessions |-> "closed"]
    /\ sub' = [s \in Sessions |-> NoSub]
    /\ cur' = [s \in Sessions |-> NoSub]
    /\ backlog' = [s \in Sessions |-> <<>>]
    /\ live' = [k \in Subs |-> IF owner[k] = NoSession THEN "none" ELSE "done"]
    /\ hold' = [k \in Subs |-> NoEntry]
    /\ inflight' = [s \in Sessions |-> [i \in {} |-> 0]]
    /\ out' = [s \in Sessions |-> <<>>]
    /\ acks' = [s \in Sessions |-> <<>>]
    /\ nextPid' = [s \in Sessions |-> 1]
    /\ resend' = [s \in Sessions |-> NoPacket]
    /\ UNCHANGED <<dbOff, seenVars, chanVars, dups, kicks>>

-----------------------------------------------------------------------------

Broker(s) ==
    \/ SwapSub(s) \/ FetchCatchUp(s) \/ DeliverCatchUp(s) \/ CatchUpSetOffset(s)
    \/ SubscribeFails(s) \/ StartLive(s)
    \/ HandlePubAck(s) \/ ReadError(s) \/ Cleanup(s)
    \/ RetransmitWrite(s)

Goroutine(k) ==
    \/ LiveRecv(k) \/ LiveDeliver(k) \/ LiveSetOffset(k)
    \/ LiveDeliverFails(k) \/ LiveExit(k)

ClientAsks(s) ==
    \/ Connect(s) \/ Cut(s) \/ HandleUnsubscribe(s)
    \/ \E k \in Subs : \E q \in QoSs[k] : HandleSubscribe(s, k, q)

DNext ==
    \/ \E p \in Publishers : Publish(p) /\ UNCHANGED sessVars
    \/ \E s \in Sessions : Broker(s) \/ ClientAsks(s) \/ ClientRecv(s) \/ Kick(s)
    \/ \E s \in Sessions : \E pid \in DOMAIN inflight[s] : RetransmitPick(s, pid)
    \/ \E k \in Subs : Goroutine(k)
    \/ DPurge
    \/ DRestart

\* A publisher that has started goes on.
PublishGoesOn(p) == pc[p] # "idle" /\ Publish(p) /\ UNCHANGED sessVars

\* What the broker's goroutines do by themselves, and the client's reading.
SystemStep ==
    \/ \E p \in Publishers : PublishGoesOn(p)
    \/ \E s \in Sessions : Broker(s) \/ ClientRecv(s)
    \/ \E k \in Subs : Goroutine(k)

\* While some goroutine can run or the client has something to read, something
\* happens: weaker than what the Go scheduler gives every goroutine.
Fairness == WF_allVars(SystemStep)

DSpec == DInit /\ [][DNext]_allVars
DFairSpec == DSpec /\ Fairness

-----------------------------------------------------------------------------
(* Properties. *)

Packet == [pid : Nat, entry : Entry]

\* Type invariant of the delivery state.
DTypeOK ==
    /\ st \in [Sessions -> {"new", "ready", "swap", "fetch", "catchup", "catchset",
                            "closing", "closed"}]
    /\ link \in [Sessions -> {"up", "cut", "closed"}]
    /\ sub \in [Sessions -> Subs \cup {NoSub}]
    /\ cur \in [Sessions -> Subs \cup {NoSub}]
    /\ backlog \in [Sessions -> Seq(Entry)]
    /\ owner \in [Subs -> Sessions \cup {NoSession}]
    /\ qos \in [Subs -> {0, 1}]
    /\ live \in [Subs -> {"none", "recv", "deliver", "setoff", "done"}]
    /\ hold \in [Subs -> Entry \cup {NoEntry}]
    /\ nextPid \in [Sessions -> Nat \ {0}]
    /\ \A s \in Sessions :
            /\ DOMAIN inflight[s] \subseteq 1 .. nextPid[s] - 1
            /\ \A i \in DOMAIN inflight[s] : inflight[s][i] \in Entry
    /\ resend \in [Sessions -> Packet \cup {NoPacket}]
    /\ out \in [Sessions -> Seq(Packet)]
    /\ acks \in [Sessions -> Seq(Nat)]
    /\ off \in [Clients -> Nat] /\ dbOff \in [Clients -> Nat]
    /\ rcvd \in [Clients -> Seq(Entry)]
    /\ sent0 \in [Clients -> SUBSET Message]

\* README.md:13, delivery at least once: everything stored at or below a client's
\* offset has reached that client (or was written to it at QoS 0), because the
\* broker will never send it again.
OffsetSound ==
    \A c \in Clients : \A k \in DOMAIN msgs :
        k <= off[c] => \/ [seq |-> k, msg |-> msgs[k]] \in Elems(rcvd[c])
                       \/ msgs[k] \in sent0[c]

\* README.md:68: however subscriptions, catch-up and live delivery interleave,
\* and over any number of connections, a client sees new messages in seq order.
ConsumerOrder ==
    \A c \in Clients : \A i, j \in DOMAIN rcvd[c] :
        i < j => rcvd[c][i].seq < rcvd[c][j].seq

\* A channel registered with the topic belongs to a session that will cancel it:
\* no replaced, failed or closed subscription keeps receiving the fan-out.
NoLeakedSubscriber ==
    \A k \in subs : LET s == owner[k] IN
        sub[s] = k \/ (cur[s] = k /\ st[s] = "swap")

\* A client that in the end stays connected and subscribed.
Attached(c) == \E s \in Sessions :
    ClientOf[s] = c /\ link[s] = "up" /\ sub[s] # NoSub

\* README.md:13: a client that stays subscribed receives every message whose
\* publisher was acknowledged, over disconnects, kicks and clean restarts.
EveryAckedArrives ==
    \A c \in Clients : <>[]Attached(c) =>
        \A p \in Publishers, n \in 1 .. MaxPub :
            LET m == [by |-> p, n |-> n] IN
            []( (\E e \in acked : e.msg = m)
                => <>( \/ \E e \in Elems(rcvd[c]) : e.msg = m
                       \/ m \in sent0[c]
                       \/ n <= released[p]))

\* No delivery goroutine outlives its subscription for ever, in a session that
\* has ended or in one that goes on after a SUBSCRIBE replaced it or an
\* UNSUBSCRIBE cancelled it: again and again every one that runs has its channel
\* registered and its session open.
GoroutinesEnd ==
    []<>(\A k \in Subs :
            live[k] \notin {"none", "done"} => k \in subs /\ st[owner[k]] # "closed")
=============================================================================
