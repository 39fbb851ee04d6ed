---------------------------- MODULE OrderProofs ----------------------------
(***************************************************************************)
(* What a client of a topic receives: with one publisher, QoS 1 and room   *)
(* for every message, exactly the stored messages in the order of seq,     *)
(* over any number of connections, kicks, retransmissions and clean        *)
(* restarts, and its offset never runs ahead of it.                        *)
(***************************************************************************)
EXTENDS DeliveryProofs

-----------------------------------------------------------------------------
(* The inductive invariants. *)

\* What the code needs for it. A second publisher, a full channel, a backlog longer
\* than catchUpLimit, a failed scan, a purge or a stop inside Publish breaks it, and a
\* QoS 0 message that was lost comes back when a late PUBACK moves the offset down.
Dependable ==
    /\ \A p, q \in Publishers : p = q
    /\ Faults \subseteq {"offWrite"} /\ MaxPurges = 0 /\ CleanStop
    /\ \A k \in Subs : QoSs[k] \subseteq {1}
    /\ MaxPub <= ChanSize /\ MaxPub <= CatchUpLimit

\* The last number in the store.
Top == IF \E p \in Publishers : pc[p] = "persist" THEN seq - 1 ELSE seq

\* The next number that will be sent to channel k, and the next one to be read there.
Coming(k) == IF \E p \in Publishers : Unsent(p, k) THEN seq ELSE seq + 1
First(k) == IF ch[k] = <<>> THEN Coming(k) ELSE ch[k][1].seq

\* The store and the sequence key have every number up to the publisher's.
StoreInv ==
    /\ purge = "idle" /\ seq <= MaxPub
    /\ \A p \in Publishers : seq <= count[p]
    /\ \A p \in Publishers : Active(p) => my[p].seq = seq /\ seq >= 1
    /\ dbSeq = IF \E p \in Publishers : pc[p] \in {"persist", "setseq"} THEN seq - 1 ELSE seq
    /\ DOMAIN msgs = 1 .. Top
    /\ \A p \in Publishers : pc[p] = "fanout" => todo[p] \subseteq subs
    /\ \A p \in Publishers : pc[p] \in {"setseq", "rlock", "fanout"} => Stored(my[p])

\* A channel holds consecutive messages, up to the last one sent.
QueueInv ==
    /\ \A k \in Subs : \A i \in DOMAIN ch[k] :
            Stored(ch[k][i]) /\ ch[k][i].seq = First(k) + i - 1
    /\ \A k \in subs : First(k) + Len(ch[k]) = Coming(k)

Got(c) == Len(rcvd[c])

\* Whoever has received the numbers up to g, and reads the packets of q, then has all
\* up to n.
Covered(q, g, n) == \A x \in 1 .. n : x <= g \/ \E j \in DOMAIN q : q[j].entry.seq = x

\* Before each packet of q comes everything with a smaller number.
Orderly(q, g) ==
    \A i \in DOMAIN q : \A x \in 1 .. q[i].entry.seq - 1 :
        x <= g \/ \E j \in DOMAIN q : j < i /\ q[j].entry.seq = x

\* The client of session s has, or will read on this connection, everything up to n.
Reach(s, n) == Covered(out[s], Got(ClientOf[s]), n)

\* A client has received the first messages, one by one, and no offset is past them.
ClientInv ==
    \A c \in Clients :
        /\ \A i \in DOMAIN rcvd[c] : rcvd[c][i].seq = i /\ Stored(rcvd[c][i])
        /\ off[c] <= Got(c) /\ dbOff[c] <= Got(c)

WireInv ==
    \A s \in Sessions :
        /\ \A i \in DOMAIN out[s] : Stored(out[s][i].entry)
        /\ Orderly(out[s], Got(ClientOf[s]))

\* A PUBACK on the wire is about a packet that the client has read.
AckAt(s) ==
    \A i \in DOMAIN acks[s] :
        /\ acks[s][i] < nextPid[s]
        /\ acks[s][i] \in DOMAIN inflight[s] =>
            inflight[s][acks[s][i]].seq <= Got(ClientOf[s])
AckInv == \A s \in Sessions : AckAt(s)

\* Packet pkt of session s has the id and the message of its inflight entry, if any.
Fits(s, pkt) ==
    /\ pkt.pid < nextPid[s]
    /\ pkt.pid \in DOMAIN inflight[s] => inflight[s][pkt.pid] = pkt.entry

\* What is in the table, or was picked from it, has been written before.
TableAt(s) ==
    /\ \A i \in DOMAIN out[s] : Fits(s, out[s][i])
    /\ \A i \in DOMAIN inflight[s] : Stored(inflight[s][i]) /\ Reach(s, inflight[s][i].seq)
    /\ resend[s] # NoPacket => /\ Fits(s, resend[s]) /\ Stored(resend[s].entry)
                               /\ Reach(s, resend[s].entry.seq)
TableInv == \A s \in Sessions : link[s] = "up" => TableAt(s)

\* Channels belong to the session that opened them; a session has none, and nothing in
\* its table, before CONNECT.
SessionInv ==
    /\ \A k \in Subs : owner[k] \in Sessions => qos[k] = 1
    /\ \A k \in Subs : live[k] # "setoff" /\ (owner[k] = NoSession => live[k] = "none")
    /\ \A s \in Sessions :
        /\ st[s] # "catchset"
        /\ sub[s] # NoSub => owner[sub[s]] = s
        /\ st[s] = "swap" => sub[s] # cur[s]
        /\ st[s] \in Subscribing => cur[s] \in subs /\ live[cur[s]] = "none"
        /\ st[s] = "new" => /\ DOMAIN inflight[s] = {} /\ resend[s] = NoPacket
                            /\ link[s] # "up" /\ \A k \in Subs : owner[k] # s

\* The catch-up goes on where the client is, and reaches to where the channel begins.
CatchUpAt(s) ==
    LET b == backlog[s] IN
    IF b = <<>> THEN Reach(s, First(cur[s]) - 1)
    ELSE /\ Reach(s, b[1].seq - 1) /\ First(cur[s]) <= b[Len(b)].seq + 1
         /\ \A i \in DOMAIN b : Stored(b[i]) /\ b[i].seq = b[1].seq + i - 1
CatchUpInv == \A s \in Sessions : link[s] = "up" /\ st[s] = "catchup" => CatchUpAt(s)

Pending(k) == k \in subs \/ ch[k] # <<>>

\* So does the delivery goroutine.
LiveAt(k) ==
    /\ live[k] = "recv" /\ Pending(k) => Reach(owner[k], First(k) - 1)
    /\ live[k] = "deliver" => /\ Stored(hold[k]) /\ Reach(owner[k], hold[k].seq - 1)
                              /\ Pending(k) => First(k) = hold[k].seq + 1
LiveInv == \A k \in Subs : owner[k] \in Sessions /\ link[owner[k]] = "up" => LiveAt(k)

OrderInv ==
    /\ StoreInv /\ QueueInv /\ ClientInv /\ WireInv /\ AckInv /\ TableInv /\ SessionInv
    /\ CatchUpInv /\ LiveInv

-----------------------------------------------------------------------------
(* The topic. *)

\* The steps that are left of a topic's: no call to the store fails, nothing is purged,
\* no channel is full, and the process stops between publishes.
CalmPublish(p) ==
    \/ AllocSeq(p) \/ PersistMsg(p) \/ PersistSeq(p) \/ FanBegin(p) \/ FanEnd(p)
    \/ \E k \in Subs : FanSend(p, k)
CalmRestart == Restart /\ seq' = dbSeq /\ \A p \in Publishers : pc[p] = "idle"
CalmNext ==
    \/ \E p \in Publishers : CalmPublish(p)
    \/ \E k \in Subs : Subscribe(k) \/ Unsubscribe(k) \/ Recv(k)
    \/ CalmRestart

\* The first message of a channel has a number of the store.
LEMMA FirstNumber ==
    ASSUME TypeOK, StoreInv, QueueInv, NEW k \in Subs
    PROVE  /\ First(k) \in Nat /\ First(k) >= 1 /\ Coming(k) \in Nat /\ Len(ch[k]) \in Nat
           /\ ch[k] # <<>> => ch[k] \in Seq(Entry) /\ 1 \in DOMAIN ch[k] /\ First(k) = ch[k][1].seq
           /\ ch[k] = <<>> => Len(ch[k]) = 0
<1>0. ch[k] \in Seq(Entry) /\ Len(ch[k]) \in Nat /\ seq \in Nat
  BY DEF TypeOK
<1>1. Coming(k) \in Nat /\ Coming(k) >= 1
  BY <1>0 DEF Coming, StoreInv, Unsent, Active
<1>2. CASE ch[k] = <<>>
  BY <1>0, <1>1, <1>2 DEF First
<1>3. CASE ch[k] # <<>>
  <2>1. 1 \in DOMAIN ch[k] /\ First(k) = ch[k][1].seq
    BY <1>0, <1>3 DEF First
  <2>2. ch[k][1].seq \in DOMAIN msgs
    BY <2>1 DEF QueueInv, Stored
  <2>3. Top \in Int
    BY <1>0 DEF Top
  <2>4. ch[k][1].seq \in 1 .. Top
    BY <2>2 DEF StoreInv
  <2>5. ch[k][1].seq \in Nat /\ ch[k][1].seq >= 1
    BY <2>3, <2>4
  <2> QED BY <1>0, <1>1, <1>3, <2>1, <2>5
<1> QED BY <1>2, <1>3

\* A channel that a publisher still has to reach holds less than it has room for.
LEMMA Room ==
    ASSUME Dependable, TypeOK, StoreInv, QueueInv,
           NEW p \in Publishers, NEW k \in Subs, pc[p] = "fanout", k \in todo[p]
    PROVE  Len(ch[k]) < ChanSize /\ k \in subs /\ Coming(k) = seq /\ my[p].seq = seq
<1>1. k \in subs /\ my[p].seq = seq
  BY DEF StoreInv, Active
<1>2. Unsent(p, k)
  BY DEF Unsent
<1>3. Coming(k) = seq
  BY <1>2 DEF Coming
<1>4. First(k) + Len(ch[k]) = seq
  BY <1>1, <1>3 DEF QueueInv
<1>5. seq <= MaxPub /\ MaxPub <= ChanSize /\ ChanSize \in Nat /\ MaxPub \in Nat /\ seq \in Nat
  BY ChanSizeAssumption, BoundsAssumption DEF StoreInv, Dependable, TypeOK
<1> QED BY <1>1, <1>3, <1>4, <1>5, FirstNumber

\* A publisher takes no other step, and nobody purges.
LEMMA CalmPublishing ==
    ASSUME Dependable, TypeOK, StoreInv, QueueInv
    PROVE  ~Purge /\ \A p \in Publishers : Publish(p) => CalmPublish(p)
<1>1. "msgWrite" \notin Faults /\ "seqWrite" \notin Faults
  BY DEF Dependable
<1>2. ASSUME NEW p \in Publishers, Publish(p) PROVE CalmPublish(p)
  <2>1. \A k \in Subs : ~FanDrop(p, k)
    <3> SUFFICES ASSUME NEW k \in Subs, FanDrop(p, k) PROVE FALSE
      OBVIOUS
    <3>1. Len(ch[k]) < ChanSize
      BY Room DEF FanDrop
    <3>2. Len(ch[k]) >= ChanSize /\ Len(ch[k]) \in Nat /\ ChanSize \in Nat
      BY ChanSizeAssumption DEF FanDrop, TypeOK
    <3> QED BY <3>1, <3>2
  <2> QED BY <1>1, <1>2, <2>1
          DEF Publish, CalmPublish, PersistMsgFails, PersistSeqFails
<1>3. ~MayPurge
  BY DEF MayPurge, Dependable, TypeOK
<1> QED BY <1>2, <1>3 DEF Purge, PurgeScan, PurgeScanFails, PurgeDelete, PurgeDeleteFails,
                          PurgeReset, PurgePersist, StoreInv

\* No other step of the topic is possible.
LEMMA CalmStep ==
    ASSUME Dependable, TypeOK, StoreInv, QueueInv, [DNext]_allVars
    PROVE  [CalmNext]_vars
<1>1. ASSUME DRestart PROVE CalmRestart
  <2>1. seq' = dbSeq
    BY <1>1 DEF DRestart, Restart, LoadSeq, Dependable
  <2> QED BY <1>1, <2>1 DEF DRestart, CalmRestart, Dependable
<1>2. ASSUME NEW s \in Sessions, Broker(s) \/ ClientAsks(s) \/ ClientRecv(s) \/ Kick(s)
      PROVE  [CalmNext]_vars
  <2>1. UNCHANGED vars \/ Unsubscribe(sub[s]) \/ \E k \in Subs : Subscribe(k)
    BY <1>2 DEF Broker, SwapSub, FetchCatchUp, DeliverCatchUp, CatchUpSetOffset, SubscribeFails,
                StartLive, HandlePubAck, ReadError, Cleanup, RetransmitWrite, ClientAsks, Connect,
                Cut, HandleUnsubscribe, HandleSubscribe, ClientRecv, Kick, topicVars
  <2>2. Unsubscribe(sub[s]) => sub[s] \in Subs
    BY DEF Unsubscribe, TypeOK
  <2> QED BY <2>1, <2>2 DEF CalmNext
<1>3. ASSUME NEW k \in Subs, Goroutine(k) PROVE [CalmNext]_vars
  <2>1. UNCHANGED vars \/ Recv(k)
    BY <1>3 DEF Goroutine, LiveRecv, LiveDeliver, LiveSetOffset, LiveDeliverFails, LiveExit,
                topicVars
  <2> QED BY <2>1 DEF CalmNext
<1>4. ASSUME NEW s, NEW pid, RetransmitPick(s, pid) PROVE UNCHANGED vars
  BY <1>4 DEF RetransmitPick, topicVars
<1>5. UNCHANGED allVars => UNCHANGED vars
  BY DEF allVars, topicVars
<1> QED BY <1>1, <1>2, <1>3, <1>4, <1>5, CalmPublishing DEF DNext, DPurge, CalmNext

\* No calm step breaks StoreInv, and what is stored stays stored.
LEMMA StoreKept ==
    ASSUME Dependable, TypeOK, StoreInv, [CalmNext]_vars
    PROVE  StoreInv' /\ \A e \in Entry : Stored(e) => Stored(e)'
<1> USE DEF vars, memVars, dbVars, pubVars, histVars, purgeVars
<1>t. /\ seq \in Nat /\ dbSeq \in Nat /\ MaxPub \in Nat
      /\ pc \in [Publishers -> PubStates] /\ my \in [Publishers -> Entry]
      /\ todo \in [Publishers -> SUBSET Subs] /\ count \in [Publishers -> Nat]
      /\ \A p \in Publishers : my[p].seq \in Nat
      /\ \A p, q \in Publishers : p = q
  BY BoundsAssumption DEF TypeOK, Entry, Dependable
<1>1. ASSUME NEW p \in Publishers, AllocSeq(p)
      PROVE  StoreInv' /\ \A e \in Entry : Stored(e) => Stored(e)'
  <2>1. /\ pc[p] = "idle" /\ pc'[p] = "persist" /\ seq' = seq + 1 /\ my'[p].seq = seq + 1
        /\ count'[p] = count[p] + 1 /\ count[p] < MaxPub /\ UNCHANGED <<msgs, dbSeq, purge>>
    BY <1>1, <1>t DEF AllocSeq
  <2>2. seq <= count[p] /\ dbSeq = seq /\ Top = seq /\ DOMAIN msgs = 1 .. seq /\ purge = "idle"
    BY <1>t, <2>1 DEF StoreInv, Top
  <2>3. Top' = seq
    BY <1>t, <2>1 DEF Top
  <2> QED BY <1>t, <2>1, <2>2, <2>3 DEF StoreInv, Stored, Active
<1>2. ASSUME NEW p \in Publishers, PersistMsg(p)
      PROVE  StoreInv' /\ \A e \in Entry : Stored(e) => Stored(e)'
  <2>1. /\ pc[p] = "persist" /\ pc'[p] = "setseq" /\ UNCHANGED <<seq, my, count, dbSeq, purge>>
        /\ msgs' = Put(msgs, my[p].seq, my[p].msg)
    BY <1>2, <1>t DEF PersistMsg
  <2>2. /\ my[p].seq = seq /\ seq >= 1 /\ dbSeq = seq - 1 /\ Top = seq - 1
        /\ DOMAIN msgs = 1 .. seq - 1
    BY <1>t, <2>1 DEF StoreInv, Top, Active
  <2>3. Top' = seq /\ DOMAIN msgs' = 1 .. seq /\ msgs'[seq] = my[p].msg
    BY <1>t, <2>1, <2>2 DEF Top, Put
  <2>4. \A x \in DOMAIN msgs : x \in DOMAIN msgs' /\ msgs'[x] = msgs[x]
    BY <1>t, <2>1, <2>2 DEF Put
  <2>5. Stored(my[p])'
    BY <1>t, <2>1, <2>2, <2>3 DEF Stored
  <2> QED BY <1>t, <2>1, <2>2, <2>3, <2>4, <2>5 DEF StoreInv, Stored, Active
<1>3. ASSUME NEW p \in Publishers, PersistSeq(p)
      PROVE  StoreInv' /\ \A e \in Entry : Stored(e) => Stored(e)'
  <2>1. /\ pc[p] = "setseq" /\ pc'[p] = "rlock" /\ UNCHANGED <<seq, my, count, msgs, purge>>
        /\ dbSeq' = my[p].seq
    BY <1>3, <1>t DEF PersistSeq
  <2>2. Top' = Top
    BY <1>t, <2>1 DEF Top
  <2> QED BY <1>t, <2>1, <2>2 DEF StoreInv, Stored, Active
<1>4. ASSUME NEW p \in Publishers, FanBegin(p)
      PROVE  StoreInv' /\ \A e \in Entry : Stored(e) => Stored(e)'
  <2>1. /\ pc[p] = "rlock" /\ pc'[p] = "fanout" /\ todo'[p] = subs
        /\ UNCHANGED <<seq, my, count, msgs, purge, dbSeq, subs>>
    BY <1>4, <1>t DEF FanBegin
  <2>2. Top' = Top
    BY <1>t, <2>1 DEF Top
  <2> QED BY <1>t, <2>1, <2>2 DEF StoreInv, Stored, Active
<1>5. ASSUME NEW p \in Publishers, FanEnd(p)
      PROVE  StoreInv' /\ \A e \in Entry : Stored(e) => Stored(e)'
  <2>1. /\ pc[p] = "fanout" /\ pc'[p] = "idle"
        /\ UNCHANGED <<seq, count, msgs, purge, dbSeq>>
    BY <1>5, <1>t DEF FanEnd
  <2>2. Top' = Top
    BY <1>t, <2>1 DEF Top
  <2> QED BY <1>t, <2>1, <2>2 DEF StoreInv, Stored, Active
<1>6. ASSUME NEW p \in Publishers, NEW k \in Subs, FanSend(p, k)
      PROVE  StoreInv' /\ \A e \in Entry : Stored(e) => Stored(e)'
  <2>1. /\ UNCHANGED <<seq, count, msgs, purge, dbSeq, my, pc, subs>> /\ todo'[p] \subseteq todo[p]
    BY <1>6, <1>t DEF FanSend
  <2>2. Top' = Top
    BY <2>1 DEF Top
  <2> QED BY <1>t, <2>1, <2>2 DEF StoreInv, Stored, Active
<1>7. ASSUME NEW k \in Subs, Subscribe(k) \/ Unsubscribe(k) \/ Recv(k)
      PROVE  StoreInv' /\ \A e \in Entry : Stored(e) => Stored(e)'
  <2>1. /\ UNCHANGED <<seq, count, msgs, purge, dbSeq, my, pc, todo>>
        /\ subs' = subs \/ \A p \in Publishers : pc[p] # "fanout"
    BY <1>7 DEF Subscribe, Unsubscribe, Recv, Unlocked
  <2>2. Top' = Top
    BY <2>1 DEF Top
  <2> QED BY <2>1, <2>2 DEF StoreInv, Stored, Active
<1>8. ASSUME CalmRestart PROVE StoreInv' /\ \A e \in Entry : Stored(e) => Stored(e)'
  <2>1. /\ \A p \in Publishers : pc[p] = "idle" /\ pc'[p] = "idle"
        /\ seq' = dbSeq /\ UNCHANGED <<count, msgs, dbSeq>> /\ purge' = "idle"
    BY <1>8 DEF CalmRestart, Restart
  <2>2. dbSeq = seq /\ Top = seq /\ Top' = seq
    BY <2>1 DEF StoreInv, Top
  <2> QED BY <2>1, <2>2 DEF StoreInv, Stored, Active
<1>9. ASSUME UNCHANGED vars PROVE StoreInv' /\ \A e \in Entry : Stored(e) => Stored(e)'
  <2>1. Top' = Top
    BY <1>9 DEF Top
  <2> QED BY <1>9, <2>1 DEF StoreInv, Stored, Active
<1> QED BY <1>1, <1>2, <1>3, <1>4, <1>5, <1>6, <1>7, <1>8, <1>9 DEF CalmNext, CalmPublish

\* Channel k begins where it began, unless it is cancelled and empty.
Steady(k) == Pending(k)' => Pending(k) /\ First(k)' = First(k)

\* Where the channels begin after a step: one that is opened at the end of the topic, one
\* that is read one message later, and all others where they did.
Continues ==
    /\ \/ \E p \in Publishers : CalmPublish(p)
       \/ \E j \in Subs : Unsubscribe(j)
       \/ UNCHANGED vars
       => \A k \in Subs : Steady(k)
    /\ \A j \in Subs : Subscribe(j) => \A k \in Subs \ {j} : Steady(k)
    /\ \A j \in Subs : Recv(j) => /\ \A k \in Subs \ {j} : Steady(k)
                                  /\ Pending(j)' => First(j)' = First(j) + 1

\* A publisher continues a channel where it ends; a reader takes its first message.
LEMMA QueueKept ==
    ASSUME Dependable, TypeOK, TypeOK', StoreInv, StoreInv', QueueInv, [CalmNext]_vars,
           \A e \in Entry : Stored(e) => Stored(e)'
    PROVE  QueueInv' /\ Continues
<1> USE DEF vars, memVars, dbVars, pubVars, histVars, purgeVars
<1>t. /\ seq \in Nat /\ ch \in [Subs -> Seq(Entry)] /\ subs \subseteq Subs
      /\ pc \in [Publishers -> PubStates] /\ my \in [Publishers -> Entry]
      /\ todo \in [Publishers -> SUBSET Subs]
      /\ \A p \in Publishers : my[p].seq \in Nat
      /\ \A p, q \in Publishers : p = q
  BY DEF TypeOK, Entry, Dependable
\* One channel after a step that leaves its contents alone.
<1>0. ASSUME NEW k \in Subs, ch'[k] = ch[k], k \in subs' => k \in subs,
             k \in subs' => Coming(k)' = Coming(k)
      PROVE  /\ Steady(k)
             /\ \A i \in DOMAIN ch'[k] : Stored(ch[k][i])' /\ ch'[k][i].seq = First(k)' + i - 1
             /\ k \in subs' => First(k)' + Len(ch'[k]) = Coming(k)'
  <2>1. \A i \in DOMAIN ch[k] : ch[k][i] \in Entry
    BY <1>t
  <2>2. CASE ch[k] = <<>>
    BY <1>0, <2>2 DEF Steady, Pending, First, QueueInv
  <2>3. CASE ch[k] # <<>>
    <3>1. First(k)' = First(k) /\ Pending(k)
      BY <1>0, <2>3 DEF First, Pending
    <3>2. ASSUME NEW i \in DOMAIN ch[k] PROVE Stored(ch[k][i])'
      <4>1. PICK e \in Entry : e = ch[k][i]
        BY <2>1, <3>2
      <4>2. Stored(e)'
        BY <3>2, <4>1 DEF QueueInv
      <4> QED BY <1>0, <4>1, <4>2
    <3> QED BY <1>0, <3>1, <3>2 DEF QueueInv, Steady
  <2> QED BY <2>2, <2>3
<1>1. ASSUME NEW p \in Publishers,
             AllocSeq(p) \/ PersistMsg(p) \/ PersistSeq(p) \/ FanBegin(p) \/ FanEnd(p)
      PROVE  QueueInv' /\ \A k \in Subs : Steady(k)
  <2>1. UNCHANGED <<ch, subs>>
    BY <1>1 DEF AllocSeq, PersistMsg, PersistSeq, FanBegin, FanEnd
  <2>2. ASSUME NEW k \in subs PROVE Coming(k)' = Coming(k)
    <3>1. CASE AllocSeq(p)
      <4>1. seq' = seq + 1 /\ ~Unsent(p, k) /\ Unsent(p, k)'
        BY <1>t, <3>1 DEF AllocSeq, Unsent
      <4> QED BY <1>t, <4>1 DEF Coming
    <3>2. CASE ~AllocSeq(p)
      <4>1. seq' = seq /\ (Unsent(p, k)' <=> Unsent(p, k))
        BY <1>1, <1>t, <3>2 DEF PersistMsg, PersistSeq, FanBegin, FanEnd, Unsent
      <4> QED BY <1>t, <4>1 DEF Coming
    <3> QED BY <3>1, <3>2
  <2> QED BY <1>0, <1>t, <2>1, <2>2 DEF QueueInv
<1>2. ASSUME NEW p \in Publishers, NEW j \in Subs, FanSend(p, j)
      PROVE  QueueInv' /\ \A k \in Subs : Steady(k)
  <2>0. PICK q, m : q = ch[j] /\ m = my[p]
    OBVIOUS
  <2>1. /\ UNCHANGED <<subs, seq, my, pc>> /\ j \in subs /\ ch' = [ch EXCEPT ![j] = Append(q, m)]
        /\ todo' = [todo EXCEPT ![p] = @ \ {j}]
        /\ pc[p] = "fanout" /\ j \in todo[p] /\ Coming(j) = seq /\ m.seq = seq
    BY <1>2, <2>0, Room DEF FanSend
  <2>2. \A k \in Subs : k # j => ch'[k] = ch[k] /\ (Unsent(p, k)' <=> Unsent(p, k))
    BY <1>t, <2>1 DEF Unsent
  <2>3. \A k \in Subs : k # j => Coming(k)' = Coming(k)
    BY <1>t, <2>1, <2>2 DEF Coming
  <2>4. Coming(j)' = seq + 1
    BY <1>t, <2>1 DEF Coming, Unsent
  <2>5. q \in Seq(Entry) /\ m \in Entry /\ ch'[j] = Append(q, m) /\ Len(q) \in Nat
    BY <1>t, <2>0, <2>1
  <2>6. /\ Len(ch'[j]) = Len(q) + 1
        /\ \A i \in DOMAIN q : i \in DOMAIN ch'[j] /\ ch'[j][i] = q[i]
        /\ \A i \in DOMAIN ch'[j] : \/ i \in DOMAIN q /\ ch'[j][i] = q[i]
                                    \/ i = Len(q) + 1 /\ ch'[j][i] = m
    BY <2>5, AppendEntries
  <2>7. ch'[j] # <<>> /\ ch'[j][1] = IF q = <<>> THEN m ELSE q[1]
    <3>1. CASE q = <<>>
      BY <2>5, <3>1
    <3>2. CASE q # <<>>
      <4>1. 1 \in DOMAIN q
        BY <2>5, <3>2
      <4> QED BY <2>6, <3>2, <4>1
    <3> QED BY <3>1, <3>2
  <2>8. First(j)' = First(j)
    BY <2>0, <2>1, <2>7 DEF First
  <2>9. First(j) + Len(q) = seq /\ First(j) \in Nat
    BY <2>0, <2>1, FirstNumber DEF QueueInv
  <2>10. Stored(m) /\ Stored(m)'
    BY <2>0, <2>1, <2>5 DEF StoreInv
  <2>11. ASSUME NEW i \in DOMAIN ch'[j]
         PROVE  Stored(ch[j][i])' /\ ch'[j][i].seq = First(j)' + i - 1
    <3>1. CASE i \in DOMAIN q /\ ch'[j][i] = q[i]
      <4>1. PICK e \in Entry : e = q[i]
        BY <2>5, <3>1
      <4>2. Stored(e) /\ q[i].seq = First(j) + i - 1
        BY <2>0, <3>1, <4>1 DEF QueueInv
      <4>3. Stored(e)'
        BY <4>2
      <4> QED BY <2>8, <3>1, <4>1, <4>2, <4>3
    <3>2. CASE i = Len(q) + 1 /\ ch'[j][i] = m
      BY <2>1, <2>5, <2>8, <2>9, <2>10, <3>2
    <3> QED BY <2>6, <3>1, <3>2
  <2>12. Steady(j)
    BY <2>1, <2>8 DEF Steady, Pending
  <2>13. First(j)' + Len(ch'[j]) = Coming(j)'
    BY <1>t, <2>4, <2>5, <2>6, <2>8, <2>9
  <2>14. ASSUME NEW k \in Subs, k # j
         PROVE  /\ Steady(k)
                /\ \A i \in DOMAIN ch'[k] : Stored(ch[k][i])' /\ ch'[k][i].seq = First(k)' + i - 1
                /\ k \in subs' => First(k)' + Len(ch'[k]) = Coming(k)'
    BY <1>0, <2>1, <2>2, <2>3, <2>14
  <2> QED BY <1>t, <2>1, <2>11, <2>12, <2>13, <2>14 DEF QueueInv
<1>3. ASSUME NEW j \in Subs, Unsubscribe(j) PROVE QueueInv' /\ \A k \in Subs : Steady(k)
  <2>1. UNCHANGED <<ch, seq, pc, todo>> /\ subs' \subseteq subs
    BY <1>3 DEF Unsubscribe
  <2>2. \A k \in Subs : Coming(k)' = Coming(k)
    BY <2>1 DEF Coming, Unsent
  <2> QED BY <1>0, <1>t, <2>1, <2>2 DEF QueueInv
<1>4. ASSUME NEW j \in Subs, Subscribe(j)
      PROVE  QueueInv' /\ \A k \in Subs : k # j => Steady(k)
  <2>1. UNCHANGED <<seq, pc, todo>> /\ subs' = subs \cup {j} /\ ch' = [ch EXCEPT ![j] = <<>>]
    BY <1>4 DEF Subscribe
  <2>2. \A k \in Subs : Coming(k)' = Coming(k)
    BY <2>1 DEF Coming, Unsent
  <2>3. ch'[j] = <<>> /\ First(j)' = Coming(j)' /\ Len(ch'[j]) = 0 /\ Coming(j)' \in Nat
    BY <1>t, <2>1, <2>2, FirstNumber DEF First
  <2>4. ASSUME NEW k \in Subs, k # j
         PROVE  /\ Steady(k)
                /\ \A i \in DOMAIN ch'[k] : Stored(ch[k][i])' /\ ch'[k][i].seq = First(k)' + i - 1
                /\ k \in subs' => First(k)' + Len(ch'[k]) = Coming(k)'
    <3>1. ch'[k] = ch[k] /\ (k \in subs' => k \in subs)
      BY <1>t, <2>1, <2>4
    <3> QED BY <1>0, <2>2, <3>1
  <2> QED BY <1>t, <2>1, <2>3, <2>4 DEF QueueInv
<1>5. ASSUME NEW j \in Subs, Recv(j)
      PROVE  QueueInv' /\ (\A k \in Subs : k # j => Steady(k))
             /\ (Pending(j)' => First(j)' = First(j) + 1)
  <2>0. PICK q : q = ch[j]
    OBVIOUS
  <2>1. UNCHANGED <<seq, pc, todo, subs>> /\ q # <<>> /\ ch' = [ch EXCEPT ![j] = Tail(q)]
    BY <1>5, <2>0 DEF Recv
  <2>2. \A k \in Subs : Coming(k)' = Coming(k)
    BY <2>1 DEF Coming, Unsent
  <2>3. ASSUME NEW k \in Subs, k # j
         PROVE  /\ Steady(k)
                /\ \A i \in DOMAIN ch'[k] : Stored(ch[k][i])' /\ ch'[k][i].seq = First(k)' + i - 1
                /\ k \in subs' => First(k)' + Len(ch'[k]) = Coming(k)'
    <3>1. ch'[k] = ch[k] /\ (k \in subs' => k \in subs)
      BY <1>t, <2>1, <2>3
    <3> QED BY <1>0, <2>2, <3>1
  <2>4. /\ q \in Seq(Entry) /\ ch'[j] = Tail(q) /\ Len(q) \in Nat /\ Len(q) >= 1
        /\ ch'[j] \in Seq(Entry) /\ Len(ch'[j]) = Len(q) - 1
        /\ \A i \in DOMAIN ch'[j] : i \in Nat /\ i + 1 \in DOMAIN q /\ ch'[j][i] = q[i + 1]
    BY <1>t, <2>0, <2>1, TailEntries
  <2>5. /\ First(j) \in Nat /\ \A i \in DOMAIN q : q[i] \in Entry /\ Stored(q[i])
        /\ \A i \in DOMAIN q : q[i].seq = First(j) + i - 1
        /\ j \in subs => First(j) + Len(q) = Coming(j)
    BY <2>0, <2>4, FirstNumber DEF QueueInv
  <2>6. First(j)' = IF ch'[j] = <<>> THEN Coming(j) ELSE First(j) + 1
    <3>1. ch'[j] # <<>> => ch'[j][1].seq = First(j) + 1
      BY <2>4, <2>5
    <3> QED BY <2>2, <3>1 DEF First
  <2>7. Pending(j)' => First(j)' = First(j) + 1
    <3>1. ch'[j] = <<>> => Len(q) = 1
      BY <2>4
    <3>2. ch'[j] = <<>> /\ j \in subs => Coming(j) = First(j) + 1
      BY <2>4, <2>5, <3>1
    <3> QED BY <2>1, <2>6, <3>2 DEF Pending
  <2>8. ASSUME NEW i \in DOMAIN ch'[j]
        PROVE  Stored(ch[j][i])' /\ ch'[j][i].seq = First(j)' + i - 1
    <3>1. PICK e \in Entry : e = q[i + 1] /\ Stored(e) /\ ch'[j][i] = e
      BY <2>4, <2>5
    <3>2. Stored(e)'
      BY <3>1
    <3>3. First(j)' = First(j) + 1 /\ q[i + 1].seq = First(j) + (i + 1) - 1 /\ i \in Nat
      BY <2>4, <2>5, <2>6
    <3> QED BY <2>5, <3>1, <3>2, <3>3
  <2>9. j \in subs' => First(j)' + Len(ch'[j]) = Coming(j)'
    <3>1. j \in subs' => First(j)' = First(j) + 1 /\ Coming(j)' = First(j) + Len(q)
      BY <2>1, <2>2, <2>5, <2>7 DEF Pending
    <3> QED BY <2>4, <2>5, <3>1
  <2> QED BY <1>t, <2>1, <2>3, <2>7, <2>8, <2>9 DEF QueueInv
<1>6. ASSUME CalmRestart PROVE QueueInv'
  <2>1. \A k \in Subs : ch'[k] = <<>> /\ k \notin subs'
    BY <1>6 DEF CalmRestart, Restart
  <2>2. subs' = {}
    BY <1>6 DEF CalmRestart, Restart
  <2> QED BY <2>1, <2>2 DEF QueueInv
<1>7. ASSUME UNCHANGED vars PROVE QueueInv' /\ \A k \in Subs : Steady(k)
  BY <1>7 DEF QueueInv, Steady, Pending, First, Coming, Unsent, Stored
<1>8. Continues
  <2> HIDE DEF Steady
  <2> QED BY <1>1, <1>2, <1>3, <1>4, <1>5, <1>7 DEF Continues, CalmPublish
<1> QED BY <1>1, <1>2, <1>3, <1>4, <1>5, <1>6, <1>7, <1>8 DEF CalmNext, CalmPublish

-----------------------------------------------------------------------------
(* Packets on the wire. *)

\* What one more packet does: what was covered still is, and so is its own number.
LEMMA CoveredAppend ==
    ASSUME NEW q \in Seq(Packet), NEW g \in Nat, NEW p \in Packet, NEW n \in Int
    PROVE  /\ Covered(q, g, n) => Covered(Append(q, p), g, n)
           /\ Covered(q, g, p.entry.seq - 1) => Covered(Append(q, p), g, p.entry.seq)
<1>1. /\ \A i \in DOMAIN q : i \in DOMAIN Append(q, p) /\ Append(q, p)[i] = q[i]
      /\ Len(q) + 1 \in DOMAIN Append(q, p) /\ Append(q, p)[Len(q) + 1] = p
  <2> HIDE DEF Packet
  <2> QED OBVIOUS
<1>2. p.entry.seq \in Nat
  BY DEF Packet, Entry
<1>3. \A x : (x <= g \/ \E j \in DOMAIN q : q[j].entry.seq = x)
          => (x <= g \/ \E j \in DOMAIN Append(q, p) : Append(q, p)[j].entry.seq = x)
  BY <1>1
<1>4. Covered(q, g, n) => Covered(Append(q, p), g, n)
  BY <1>3 DEF Covered
<1>5. ASSUME Covered(q, g, p.entry.seq - 1), NEW x \in 1 .. p.entry.seq
      PROVE  x <= g \/ \E j \in DOMAIN Append(q, p) : Append(q, p)[j].entry.seq = x
  <2>1. CASE x = p.entry.seq
    BY <1>1, <2>1
  <2>2. CASE x # p.entry.seq
    <3>1. x \in 1 .. p.entry.seq - 1
      BY <1>2, <2>2
    <3> QED BY <1>3, <1>5, <3>1 DEF Covered
  <2> QED BY <2>1, <2>2
<1> QED BY <1>4, <1>5 DEF Covered

\* A packet that comes after everything smaller keeps the order.
LEMMA OrderlyAppend ==
    ASSUME NEW q \in Seq(Packet), NEW g \in Nat, NEW p \in Packet,
           Orderly(q, g), Covered(q, g, p.entry.seq - 1)
    PROVE  Orderly(Append(q, p), g)
<1>1. /\ \A i \in DOMAIN q : i \in Nat /\ i < Len(q) + 1
      /\ \A i \in DOMAIN q : i \in DOMAIN Append(q, p) /\ Append(q, p)[i] = q[i]
      /\ \A i \in DOMAIN Append(q, p) : \/ i \in DOMAIN q /\ Append(q, p)[i] = q[i]
                                        \/ i = Len(q) + 1 /\ Append(q, p)[i] = p
  <2> HIDE DEF Packet
  <2> QED BY AppendEntries
<1>2. ASSUME NEW i \in DOMAIN Append(q, p), NEW x \in 1 .. Append(q, p)[i].entry.seq - 1
      PROVE  x <= g \/ \E j \in DOMAIN Append(q, p) : j < i /\ Append(q, p)[j].entry.seq = x
  <2>1. CASE i \in DOMAIN q /\ Append(q, p)[i] = q[i]
    <3>1. x <= g \/ \E j \in DOMAIN q : j < i /\ q[j].entry.seq = x
      BY <1>2, <2>1 DEF Orderly
    <3> QED BY <1>1, <3>1
  <2>2. CASE i = Len(q) + 1 /\ Append(q, p)[i] = p
    <3>1. x <= g \/ \E j \in DOMAIN q : q[j].entry.seq = x
      BY <1>2, <2>2 DEF Covered
    <3> QED BY <1>1, <2>2, <3>1
  <2> QED BY <1>1, <2>1, <2>2
<1> QED BY <1>2 DEF Orderly

\* The client is ready for the first packet.
LEMMA OrderlyHead ==
    ASSUME NEW q \in Seq(Packet), NEW g \in Nat, Orderly(q, g), q # <<>>
    PROVE  /\ Head(q) = q[1] /\ 1 \in DOMAIN q /\ Head(q) \in Packet
           /\ Head(q).entry.seq \in Nat /\ Head(q).entry.seq <= g + 1
<1>1. Head(q) = q[1] /\ 1 \in DOMAIN q /\ Head(q) \in Packet /\ \A j \in DOMAIN q : ~(j < 1)
  <2> HIDE DEF Packet
  <2> QED OBVIOUS
<1>2. Head(q).entry.seq \in Nat
  BY <1>1 DEF Packet, Entry
<1>3. \A x \in 1 .. Head(q).entry.seq - 1 : x <= g
  BY <1>1 DEF Orderly
<1>4. PICK h \in Nat : h = Head(q).entry.seq
  BY <1>2
<1>5. h <= g + 1
  <2>1. h > g + 1 => g + 1 \in 1 .. h - 1
    OBVIOUS
  <2> QED BY <1>3, <1>4, <2>1
<1> QED BY <1>1, <1>2, <1>4, <1>5

\* What the client reads is no longer on the wire, but it has it.
LEMMA OrderlyTail ==
    ASSUME NEW q \in Seq(Packet), NEW g \in Nat, NEW h \in Nat, Orderly(q, g), q # <<>>,
           g <= h, Head(q).entry.seq <= h
    PROVE  Orderly(Tail(q), h) /\ \A n \in Int : Covered(q, g, n) => Covered(Tail(q), h, n)
<1>1. /\ Head(q) = q[1]
      /\ \A j \in DOMAIN Tail(q) : j \in Nat /\ j + 1 \in DOMAIN q /\ Tail(q)[j] = q[j + 1]
      /\ \A j \in DOMAIN q :
            j \in Nat /\ (j = 1 \/ (j - 1 \in DOMAIN Tail(q) /\ Tail(q)[j - 1] = q[j]))
  <2> HIDE DEF Packet
  <2> QED BY TailEntries
<1>2. ASSUME NEW j \in DOMAIN q, NEW x, q[j].entry.seq = x, ~(x <= h)
      PROVE  j - 1 \in DOMAIN Tail(q) /\ Tail(q)[j - 1].entry.seq = x
  BY <1>1, <1>2
<1>3. ASSUME NEW n \in Int, Covered(q, g, n), NEW x \in 1 .. n
      PROVE  x <= h \/ \E j \in DOMAIN Tail(q) : Tail(q)[j].entry.seq = x
  <2>1. x <= g \/ \E j \in DOMAIN q : q[j].entry.seq = x
    BY <1>3 DEF Covered
  <2>2. x <= g => x <= h
    BY <1>3
  <2> QED BY <1>2, <2>1, <2>2
<1>4. ASSUME NEW i \in DOMAIN Tail(q), NEW x \in 1 .. Tail(q)[i].entry.seq - 1
      PROVE  x <= h \/ \E j \in DOMAIN Tail(q) : j < i /\ Tail(q)[j].entry.seq = x
  <2>1. i + 1 \in DOMAIN q /\ Tail(q)[i] = q[i + 1] /\ i \in Nat
    BY <1>1
  <2>2. x <= g \/ \E j \in DOMAIN q : j < i + 1 /\ q[j].entry.seq = x
    BY <1>4, <2>1 DEF Orderly
  <2>3. x <= g => x <= h
    BY <1>4
  <2>4. ASSUME NEW j \in DOMAIN q, j < i + 1, q[j].entry.seq = x, ~(x <= h)
        PROVE  j - 1 \in DOMAIN Tail(q) /\ j - 1 < i /\ Tail(q)[j - 1].entry.seq = x
    BY <1>1, <1>2, <2>1, <2>4
  <2> QED BY <2>2, <2>3, <2>4
<1> QED BY <1>3, <1>4 DEF Orderly, Covered

\* Losing the end of what is under way keeps the order.
LEMMA OrderlyPrefix ==
    ASSUME NEW q \in Seq(Packet), NEW g \in Nat, NEW r \in Prefixes(q), Orderly(q, g)
    PROVE  Orderly(r, g) /\ \A i \in DOMAIN r : i \in DOMAIN q /\ r[i] = q[i]
<1>1. PICK n \in 0 .. Len(q) : r = SubSeq(q, 1, n)
  BY DEF Prefixes
<1>2. n \in Nat /\ \A i \in DOMAIN r : i \in Nat /\ i \in DOMAIN q /\ r[i] = q[i]
  <2> HIDE DEF Packet
  <2> QED BY <1>1
<1>3. \A i \in DOMAIN r : \A j \in DOMAIN q : j < i => j \in DOMAIN r
  <2>1. DOMAIN r = 1 .. n /\ DOMAIN q = 1 .. Len(q)
    <3> HIDE DEF Packet
    <3> QED BY <1>1
  <2> QED BY <1>1, <2>1
<1>4. ASSUME NEW i \in DOMAIN r, NEW x \in 1 .. r[i].entry.seq - 1
      PROVE  x <= g \/ \E j \in DOMAIN r : j < i /\ r[j].entry.seq = x
  <2>1. x <= g \/ \E j \in DOMAIN q : j < i /\ q[j].entry.seq = x
    BY <1>2, <1>4 DEF Orderly
  <2> QED BY <1>2, <1>3, <2>1
<1> QED BY <1>2, <1>4 DEF Orderly

\* So does a client that has received more.
LEMMA OrderlyMore ==
    ASSUME NEW q, NEW g \in Nat, NEW h \in Nat, g <= h
    PROVE  /\ Orderly(q, g) => Orderly(q, h)
           /\ \A n \in Int : Covered(q, g, n) => Covered(q, h, n)
<1>1. \A x \in Int : x <= g => x <= h
  OBVIOUS
<1>2. ASSUME NEW n \in Int, Covered(q, g, n) PROVE Covered(q, h, n)
  BY <1>1, <1>2 DEF Covered
<1>3. ASSUME Orderly(q, g), NEW i \in DOMAIN q, NEW x \in 1 .. q[i].entry.seq - 1
      PROVE  x <= h \/ \E j \in DOMAIN q : j < i /\ q[j].entry.seq = x
  <2>1. x \in Int
    OBVIOUS
  <2> QED BY <1>1, <1>3, <2>1 DEF Orderly
<1> QED BY <1>2, <1>3 DEF Orderly

-----------------------------------------------------------------------------
(* The connection and its client. *)

\* What the client reads is the next message it lacks, or one that it has.
LEMMA Received ==
    ASSUME DTypeInv, StoreInv, ClientInv, WireInv, NEW s \in Sessions, ClientRecv(s)
    PROVE  LET c == ClientOf[s] IN
           /\ c \in Clients /\ out[s] # <<>> /\ out' = [out EXCEPT ![s] = Tail(out[s])]
           /\ Got(c) \in Nat /\ Got(c)' \in Nat /\ Got(c) <= Got(c)'
           /\ Head(out[s]).entry.seq <= Got(c)'
           /\ \A d \in Clients : d # c => rcvd'[d] = rcvd[d]
           /\ \A i \in DOMAIN rcvd'[c] : rcvd'[c][i].seq = i /\ Stored(rcvd'[c][i])
<1>0. PICK c, q, r, e : c = ClientOf[s] /\ q = out[s] /\ r = rcvd[c] /\ e = Head(q).entry
  OBVIOUS
<1>1. /\ c \in Clients /\ q \in Seq(Packet) /\ r \in Seq(Entry) /\ Len(r) \in Nat
      /\ rcvd \in [Clients -> Seq(Entry)]
  BY <1>0, Groups, SessionAssumption DEF WireOK, SeenOK
<1>2. /\ q # <<>> /\ out' = [out EXCEPT ![s] = Tail(q)]
      /\ rcvd' = IF e \in Elems(r) THEN rcvd ELSE [rcvd EXCEPT ![c] = Append(r, e)]
  BY <1>0 DEF ClientRecv
<1>3. Orderly(q, Len(r)) /\ \A i \in DOMAIN q : Stored(q[i].entry)
  BY <1>0 DEF WireInv, Got
<1>4. /\ Head(q) \in Packet /\ e.seq \in Nat /\ e.seq <= Len(r) + 1 /\ Stored(e)
  <2>1. /\ Head(q) = q[1] /\ 1 \in DOMAIN q /\ Head(q) \in Packet
        /\ Head(q).entry.seq \in Nat /\ Head(q).entry.seq <= Len(r) + 1
    BY <1>1, <1>2, <1>3, OrderlyHead
  <2> QED BY <1>0, <1>3, <2>1
<1>5. e \in Entry
  BY <1>0, <1>4 DEF Packet
<1>6. \A i \in DOMAIN r : r[i].seq = i /\ Stored(r[i]) /\ r[i] \in Entry
  <2> HIDE DEF Entry
  <2> QED BY <1>0, <1>1 DEF ClientInv
<1>7. DOMAIN r = 1 .. Len(r)
  <2> HIDE DEF Entry
  <2> QED BY <1>1
<1>8. e.seq >= 1
  <2>1. e.seq \in DOMAIN msgs
    BY <1>4 DEF Stored
  <2>2. Top \in Int
    BY Groups DEF Top, TypeOK
  <2>3. e.seq \in 1 .. Top
    BY <2>1 DEF StoreInv
  <2> QED BY <1>4, <2>2, <2>3
<1>9. CASE e \in Elems(r)
  <2>1. PICK i \in DOMAIN r : e = r[i]
    BY <1>9 DEF Elems
  <2>2. e.seq <= Len(r)
    BY <1>1, <1>6, <1>7, <2>1
  <2>3. rcvd' = rcvd
    BY <1>2, <1>9
  <2> QED BY <1>0, <1>1, <1>2, <1>6, <2>2, <2>3 DEF Got
<1>10. CASE e \notin Elems(r)
  <2>1. e.seq \notin DOMAIN r
    <3> SUFFICES ASSUME e.seq \in DOMAIN r PROVE FALSE
      OBVIOUS
    <3>1. r[e.seq].seq = e.seq /\ r[e.seq].msg = e.msg /\ r[e.seq] \in Entry
      BY <1>4, <1>6 DEF Stored
    <3>2. r[e.seq] = e
      BY <1>5, <3>1 DEF Entry
    <3> QED BY <1>10, <3>2 DEF Elems
  <2>2. e.seq = Len(r) + 1
    BY <1>1, <1>4, <1>7, <1>8, <2>1
  <2>3. rcvd'[c] = Append(r, e) /\ \A d \in Clients : d # c => rcvd'[d] = rcvd[d]
    BY <1>1, <1>2, <1>10
  <2>4. /\ Len(rcvd'[c]) = Len(r) + 1
        /\ \A i \in DOMAIN rcvd'[c] : \/ i \in DOMAIN r /\ rcvd'[c][i] = r[i]
                                      \/ i = Len(r) + 1 /\ rcvd'[c][i] = e
    BY <1>1, <1>5, <2>3, AppendEntries
  <2>5. \A i \in DOMAIN rcvd'[c] : rcvd'[c][i].seq = i /\ Stored(rcvd'[c][i])
    BY <1>4, <1>6, <2>2, <2>4
  <2> QED BY <1>0, <1>1, <1>2, <2>2, <2>3, <2>4, <2>5 DEF Got
<1> QED BY <1>9, <1>10

\* Session s writes p, if the connection is up after everything with a smaller number.
Written(s, p) ==
    /\ p \in Packet /\ Send(s, p) /\ UNCHANGED <<rcvd, link>>
    /\ link[s] = "up" => Stored(p.entry) /\ Reach(s, p.entry.seq - 1)

\* Catch-up and live delivery write messages where the client is.
LEMMA Delivered ==
    ASSUME DTypeInv, SessionInv, CatchUpInv, LiveInv
    PROVE  /\ \A s \in Sessions : DeliverCatchUp(s) =>
                LET e == Head(backlog[s]) IN
                /\ e \in Entry /\ Track(s, e) /\ Written(s, [pid |-> nextPid[s], entry |-> e])
                /\ backlog' = [backlog EXCEPT ![s] = Tail(@)] /\ UNCHANGED st
           /\ \A k \in Subs : LiveDeliver(k) =>
                LET s == owner[k] e == hold[k] IN
                /\ s \in Sessions /\ e \in Entry /\ Track(s, e)
                /\ Written(s, [pid |-> nextPid[s], entry |-> e])
                /\ live' = [live EXCEPT ![k] = "recv"] /\ hold' = [hold EXCEPT ![k] = NoEntry]
<1>t. /\ ReadOK /\ FlyOK /\ HandlerInv /\ LiveOK
      /\ \A s \in Sessions : nextPid[s] \in Nat
  BY Groups DEF FlyOK
<1>1. ASSUME NEW s \in Sessions, DeliverCatchUp(s)
      PROVE  LET e == Head(backlog[s]) IN
             /\ e \in Entry /\ Track(s, e) /\ Written(s, [pid |-> nextPid[s], entry |-> e])
             /\ backlog' = [backlog EXCEPT ![s] = Tail(@)] /\ UNCHANGED st
  <2>0. PICK b, e : b = backlog[s] /\ e = Head(b)
    OBVIOUS
  <2>1. st[s] = "catchup" /\ b # <<>> /\ UNCHANGED <<rcvd, link>>
    BY <1>1, <2>0 DEF DeliverCatchUp
  <2>2. qos[cur[s]] = 1
    BY <1>t, <2>1 DEF HandlerInv, SessionInv, Subscribing
  <2>3. /\ Track(s, e) /\ Send(s, [pid |-> nextPid[s], entry |-> e])
        /\ backlog' = [backlog EXCEPT ![s] = Tail(@)] /\ UNCHANGED st
    BY <1>1, <2>0, <2>2 DEF DeliverCatchUp, DeliverWrite
  <2>4. b \in Seq(Entry)
    BY <1>t, <2>0 DEF ReadOK
  <2>5. e \in Entry /\ e = b[1] /\ 1 \in DOMAIN b
    <3> HIDE DEF Entry
    <3> QED BY <2>0, <2>1, <2>4
  <2>6. [pid |-> nextPid[s], entry |-> e] \in Packet
    BY <1>t, <2>5, EntryFields
  <2>7. link[s] = "up" => Stored(e) /\ Reach(s, e.seq - 1)
    BY <2>0, <2>1, <2>5 DEF CatchUpInv, CatchUpAt
  <2> QED BY <2>0, <2>1, <2>3, <2>5, <2>6, <2>7 DEF Written
<1>2. ASSUME NEW k \in Subs, LiveDeliver(k)
      PROVE  LET s == owner[k] e == hold[k] IN
             /\ s \in Sessions /\ e \in Entry /\ Track(s, e)
             /\ Written(s, [pid |-> nextPid[s], entry |-> e])
             /\ live' = [live EXCEPT ![k] = "recv"] /\ hold' = [hold EXCEPT ![k] = NoEntry]
  <2>0. PICK s, e : s = owner[k] /\ e = hold[k]
    OBVIOUS
  <2>1. live[k] = "deliver" /\ UNCHANGED <<rcvd, link>>
    BY <1>2 DEF LiveDeliver
  <2>2. s \in Sessions /\ e \in Entry /\ qos[k] = 1
    BY <1>t, <2>0, <2>1 DEF HandlerInv, SessionInv
  <2>3. /\ Track(s, e) /\ Send(s, [pid |-> nextPid[s], entry |-> e])
        /\ live' = [live EXCEPT ![k] = "recv"] /\ hold' = [hold EXCEPT ![k] = NoEntry]
    BY <1>2, <2>0, <2>2 DEF LiveDeliver, DeliverWrite
  <2>4. [pid |-> nextPid[s], entry |-> e] \in Packet
    BY <1>t, <2>2, EntryFields
  <2>5. link[s] = "up" => Stored(e) /\ Reach(s, e.seq - 1)
    BY <2>0, <2>1, <2>2 DEF LiveInv, LiveAt
  <2> QED BY <2>0, <2>1, <2>2, <2>3, <2>4, <2>5 DEF Written
<1> QED BY <1>1, <1>2

\* What a step may do to the packets under way: nothing, write one, let the client read
\* one, lose some with the connection, or lose all.
LEMMA Wires ==
    ASSUME DTypeInv, SessionInv, CatchUpInv, LiveInv, TableInv, [DNext]_allVars
    PROVE  \/ UNCHANGED <<out, rcvd>>
           \/ \E s \in Sessions : \E p \in Packet : Written(s, p)
           \/ \E s \in Sessions : ClientRecv(s)
           \/ \E s \in Sessions : /\ link'[s] # "up" /\ UNCHANGED rcvd
                                  /\ \E q \in Prefixes(out[s]) : out' = [out EXCEPT ![s] = q]
           \/ DRestart
<1>t. ReadOK /\ LoopOK /\ WireOK
  BY Groups
<1>1. ASSUME NEW s \in Sessions, DeliverCatchUp(s) PROVE \E p \in Packet : Written(s, p)
  BY <1>1, Delivered DEF Written
<1>2. ASSUME NEW k \in Subs, LiveDeliver(k)
      PROVE  \E s \in Sessions : \E p \in Packet : Written(s, p)
  BY <1>2, Delivered DEF Written
<1>3. ASSUME NEW s \in Sessions, RetransmitWrite(s)
      PROVE  UNCHANGED <<out, rcvd>> \/ \E p \in Packet : Written(s, p)
  <2>0. PICK p : p = resend[s]
    OBVIOUS
  <2>1. p # NoPacket /\ (Send(s, p) \/ UNCHANGED out) /\ UNCHANGED <<rcvd, link>>
    BY <1>3, <2>0 DEF RetransmitWrite, seenVars
  <2>2. p \in Packet
    BY <1>t, <2>0, <2>1 DEF LoopOK
  <2>3. p.entry.seq \in Nat
    BY <2>2 DEF Packet, Entry
  <2>4. link[s] = "up" => Stored(p.entry) /\ Reach(s, p.entry.seq)
    BY <2>0, <2>1 DEF TableInv, TableAt
  <2>5. Reach(s, p.entry.seq) => Reach(s, p.entry.seq - 1)
    BY <2>3 DEF Reach, Covered
  <2> QED BY <2>1, <2>2, <2>4, <2>5 DEF Written
<1>4. ASSUME NEW s \in Sessions, Cut(s) \/ Kick(s)
      PROVE  /\ link'[s] # "up" /\ UNCHANGED rcvd
             /\ \E q \in Prefixes(out[s]) : out' = [out EXCEPT ![s] = q]
  <2>1. link'[s] # "up" /\ UNCHANGED rcvd
    BY <1>4, <1>t DEF Cut, Kick, WireOK, seenVars
  <2>2. CASE Cut(s)
    <3>1. out[s] \in Seq(Packet)
      BY <1>t DEF WireOK
    <3>2. SubSeq(out[s], 1, 0) = <<>> /\ 0 \in 0 .. Len(out[s])
      <4> HIDE DEF Packet
      <4> QED BY <3>1
    <3> QED BY <2>1, <2>2, <3>2 DEF Cut, Prefixes
  <2>3. CASE Kick(s)
    BY <2>1, <2>3 DEF Kick
  <2> QED BY <1>4, <2>2, <2>3
<1>5. ASSUME NEW s \in Sessions,
             \/ Connect(s) \/ SwapSub(s) \/ FetchCatchUp(s) \/ CatchUpSetOffset(s)
             \/ SubscribeFails(s) \/ StartLive(s) \/ HandlePubAck(s) \/ ReadError(s)
             \/ Cleanup(s) \/ HandleUnsubscribe(s)
             \/ (\E k \in Subs : \E q \in QoSs[k] : HandleSubscribe(s, k, q))
             \/ (\E pid : RetransmitPick(s, pid))
      PROVE  UNCHANGED <<out, rcvd>>
  BY <1>5 DEF Connect, SwapSub, FetchCatchUp, CatchUpSetOffset, SubscribeFails, StartLive,
       HandlePubAck, ReadError, Cleanup, HandleUnsubscribe, HandleSubscribe, RetransmitPick,
       wireVars, seenVars
<1>6. ASSUME NEW k \in Subs, \/ LiveRecv(k) \/ LiveSetOffset(k) \/ LiveDeliverFails(k)
                             \/ LiveExit(k)
      PROVE  UNCHANGED <<out, rcvd>>
  BY <1>6 DEF LiveRecv, LiveSetOffset, LiveDeliverFails, LiveExit, wireVars, seenVars
<1>7. UNCHANGED sessVars \/ UNCHANGED allVars => UNCHANGED <<out, rcvd>>
  BY DEF sessVars, allVars, wireVars, seenVars
<1> QED BY <1>1, <1>2, <1>3, <1>4, <1>5, <1>6, <1>7
        DEF DNext, Broker, ClientAsks, Goroutine, DPurge

\* What is under way stays in order, and a connection that is up loses nothing of it.
LEMMA WireKept ==
    ASSUME DTypeInv, DTypeInv', OrderInv, [DNext]_allVars,
           \A e \in Entry : Stored(e) => Stored(e)'
    PROVE  /\ WireInv'
           /\ \A c \in Clients : Got(c) \in Nat /\ Got(c)' \in Nat /\ Got(c) <= Got(c)'
           /\ \A s \in Sessions, n \in Int : link'[s] = "up" /\ Reach(s, n) => Reach(s, n)'
<1>o. /\ StoreInv /\ ClientInv /\ WireInv /\ SessionInv /\ CatchUpInv /\ LiveInv /\ TableInv
  BY DEF OrderInv
<1>t. /\ out \in [Sessions -> Seq(Packet)] /\ out' \in [Sessions -> Seq(Packet)]
      /\ \A c \in Clients : Got(c) \in Nat /\ Got(c)' \in Nat
      /\ \A s \in Sessions : ClientOf[s] \in Clients
  <2>1. WireOK /\ SeenOK /\ WireOK' /\ SeenOK'
    BY Groups, PTL
  <2> QED BY <2>1, SessionAssumption DEF WireOK, SeenOK, Got
<1>e. \A s \in Sessions : \A i \in DOMAIN out[s] : out[s][i].entry \in Entry
  <2>1. \A s \in Sessions : \A i \in DOMAIN out[s] : out[s][i] \in Packet
    <3> HIDE DEF Packet
    <3> QED BY <1>t
  <2> QED BY <2>1 DEF Packet
<1> DEFINE Good(s) ==
        /\ \A i \in DOMAIN out'[s] : Stored(out[s][i].entry)'
        /\ Orderly(out'[s], Got(ClientOf[s])')
        /\ \A n \in Int : link'[s] = "up" /\ Reach(s, n) => Covered(out'[s], Got(ClientOf[s])', n)
<1> SUFFICES (\A c \in Clients : Got(c) <= Got(c)') /\ \A s \in Sessions : Good(s)
  BY <1>t DEF WireInv, Reach
\* A session of which the client reads no packet.
<1>0. ASSUME NEW s \in Sessions, out'[s] = out[s], Got(ClientOf[s]) <= Got(ClientOf[s])'
      PROVE  Good(s)
  <2>1. ASSUME NEW i \in DOMAIN out[s] PROVE Stored(out[s][i].entry)'
    <3>1. PICK e \in Entry : e = out[s][i].entry
      BY <1>e, <2>1
    <3>2. Stored(e)'
      BY <1>o, <2>1, <3>1 DEF WireInv
    <3> QED BY <1>0, <3>1, <3>2
  <2>2. PICK g, h \in Nat : g = Got(ClientOf[s]) /\ h = Got(ClientOf[s])'
    BY <1>t
  <2>3. Orderly(out[s], g)
    BY <1>o, <2>2 DEF WireInv
  <2>4. Orderly(out[s], h) /\ \A n \in Int : Covered(out[s], g, n) => Covered(out[s], h, n)
    BY <1>0, <2>2, <2>3, OrderlyMore
  <2> QED BY <1>0, <2>1, <2>2, <2>4 DEF Reach
<1>1. ASSUME UNCHANGED <<out, rcvd>>
      PROVE  (\A c \in Clients : Got(c) <= Got(c)') /\ \A s \in Sessions : Good(s)
  <2>1. \A c \in Clients : Got(c) <= Got(c)'
    BY <1>1, <1>t DEF Got
  <2> QED BY <1>0, <1>1, <1>t, <2>1
<1>2. ASSUME NEW s \in Sessions, NEW p \in Packet, Written(s, p)
      PROVE  (\A c \in Clients : Got(c) <= Got(c)') /\ \A t \in Sessions : Good(t)
  <2>1. \A c \in Clients : Got(c)' = Got(c) /\ Got(c) <= Got(c)'
    BY <1>2, <1>t DEF Written, Got
  <2>2. CASE link[s] # "up"
    <3>1. out' = out
      BY <1>2, <2>2 DEF Written, Send
    <3> QED BY <1>0, <1>t, <2>1, <3>1
  <2>3. CASE link[s] = "up"
    <3>0. PICK q, g : q = out[s] /\ g = Got(ClientOf[s])
      OBVIOUS
    <3>1. /\ out' = [out EXCEPT ![s] = Append(q, p)] /\ Stored(p.entry)
          /\ Covered(q, g, p.entry.seq - 1)
      BY <1>2, <2>3, <3>0 DEF Written, Send, Reach
    <3>2. /\ q \in Seq(Packet) /\ g \in Nat /\ Orderly(q, g) /\ out'[s] = Append(q, p)
          /\ \A t \in Sessions : t # s => out'[t] = out[t]
      BY <1>o, <1>t, <3>0, <3>1 DEF WireInv
    <3>3. Orderly(Append(q, p), g)
      BY <3>1, <3>2, OrderlyAppend
    <3>4. \A n \in Int : Covered(q, g, n) => Covered(Append(q, p), g, n)
      BY <3>2, CoveredAppend
    <3>5. \A i \in DOMAIN out'[s] : \/ i \in DOMAIN q /\ out'[s][i] = q[i]
                                    \/ out'[s][i] = p
      BY <3>2, AppendEntries
    <3>6. ASSUME NEW i \in DOMAIN out'[s] PROVE Stored(out[s][i].entry)'
      <4>1. PICK e : e = out'[s][i].entry
        OBVIOUS
      <4>2. e \in Entry /\ Stored(e)
        <5>1. CASE i \in DOMAIN q /\ out'[s][i] = q[i]
          BY <1>e, <1>o, <3>0, <4>1, <5>1 DEF WireInv
        <5>2. CASE out'[s][i] = p
          BY <3>1, <4>1, <5>2 DEF Packet
        <5> QED BY <3>5, <3>6, <5>1, <5>2
      <4>3. Stored(e)'
        BY <4>2
      <4> QED BY <4>1, <4>3
    <3>7. Good(s)
      BY <1>t, <2>1, <3>0, <3>2, <3>3, <3>4, <3>6 DEF Reach
    <3>8. ASSUME NEW t \in Sessions, t # s PROVE Good(t)
      BY <1>0, <1>t, <2>1, <3>2, <3>8
    <3> QED BY <2>1, <3>7, <3>8
  <2> QED BY <2>2, <2>3
<1>3. ASSUME NEW s \in Sessions, ClientRecv(s)
      PROVE  (\A c \in Clients : Got(c) <= Got(c)') /\ \A t \in Sessions : Good(t)
  <2>0. PICK q, c, g, h : q = out[s] /\ c = ClientOf[s] /\ g = Got(c) /\ h = Got(c)'
    OBVIOUS
  <2>1. /\ c \in Clients /\ q # <<>> /\ out' = [out EXCEPT ![s] = Tail(q)]
        /\ g \in Nat /\ h \in Nat /\ g <= h /\ Head(q).entry.seq <= h
        /\ \A d \in Clients : d # c => rcvd'[d] = rcvd[d]
    BY <1>3, <1>o, <2>0, Received
  <2>2. \A d \in Clients : Got(d) <= Got(d)'
    BY <1>t, <2>0, <2>1 DEF Got
  <2>3. /\ q \in Seq(Packet) /\ Orderly(q, g) /\ out'[s] = Tail(q)
        /\ \A t \in Sessions : t # s => out'[t] = out[t]
    BY <1>o, <1>t, <2>0, <2>1 DEF WireInv
  <2>4. Orderly(Tail(q), h) /\ \A n \in Int : Covered(q, g, n) => Covered(Tail(q), h, n)
    BY <2>1, <2>3, OrderlyTail
  <2>5. \A i \in DOMAIN out'[s] : i + 1 \in DOMAIN q /\ out'[s][i] = q[i + 1]
    BY <2>1, <2>3, TailEntries
  <2>6. ASSUME NEW i \in DOMAIN out'[s] PROVE Stored(out[s][i].entry)'
    <3>1. PICK e \in Entry : e = out'[s][i].entry /\ Stored(e)
      BY <1>e, <1>o, <2>0, <2>5, <2>6 DEF WireInv
    <3>2. Stored(e)'
      BY <3>1
    <3> QED BY <3>1, <3>2
  <2>7. Good(s)
    BY <2>0, <2>3, <2>4, <2>6 DEF Reach
  <2>8. ASSUME NEW t \in Sessions, t # s PROVE Good(t)
    BY <1>0, <1>t, <2>2, <2>3, <2>8
  <2> QED BY <2>2, <2>7, <2>8
<1>4. ASSUME NEW s \in Sessions, link'[s] # "up", UNCHANGED rcvd,
             NEW r \in Prefixes(out[s]), out' = [out EXCEPT ![s] = r]
      PROVE  (\A c \in Clients : Got(c) <= Got(c)') /\ \A t \in Sessions : Good(t)
  <2>1. \A c \in Clients : Got(c)' = Got(c) /\ Got(c) <= Got(c)'
    BY <1>4, <1>t DEF Got
  <2>2. out'[s] = r /\ \A t \in Sessions : t # s => out'[t] = out[t]
    BY <1>4, <1>t
  <2>3. PICK q, g : q = out[s] /\ g = Got(ClientOf[s])
    OBVIOUS
  <2>4. q \in Seq(Packet) /\ g \in Nat /\ Orderly(q, g)
    BY <1>o, <1>t, <2>3 DEF WireInv
  <2>5. Orderly(r, g) /\ \A i \in DOMAIN r : i \in DOMAIN q /\ r[i] = q[i]
    BY <1>4, <2>3, <2>4, OrderlyPrefix
  <2>6. ASSUME NEW i \in DOMAIN out'[s] PROVE Stored(out[s][i].entry)'
    <3>1. PICK e \in Entry : e = out'[s][i].entry /\ Stored(e)
      BY <1>e, <1>o, <2>2, <2>3, <2>5, <2>6 DEF WireInv
    <3>2. Stored(e)'
      BY <3>1
    <3> QED BY <3>1, <3>2
  <2>7. Good(s)
    BY <1>4, <1>t, <2>1, <2>2, <2>3, <2>5, <2>6
  <2>8. ASSUME NEW t \in Sessions, t # s PROVE Good(t)
    BY <1>0, <1>t, <2>1, <2>2, <2>8
  <2> QED BY <2>1, <2>7, <2>8
<1>5. ASSUME DRestart
      PROVE  (\A c \in Clients : Got(c) <= Got(c)') /\ \A s \in Sessions : Good(s)
  <2>1. \A s \in Sessions : out'[s] = <<>> /\ link'[s] # "up"
    BY <1>5 DEF DRestart
  <2>2. \A c \in Clients : Got(c) <= Got(c)'
    BY <1>5, <1>t DEF DRestart, seenVars, Got
  <2> QED BY <2>1, <2>2 DEF Orderly
<1> HIDE DEF Good
<1> QED BY <1>o, <1>1, <1>2, <1>3, <1>4, <1>5, Wires

\* The offset follows what the client has acknowledged, and so has received.
LEMMA ClientKept ==
    ASSUME DTypeInv, OrderInv, [DNext]_allVars,
           \A e \in Entry : Stored(e) => Stored(e)',
           \A c \in Clients : Got(c) \in Nat /\ Got(c)' \in Nat /\ Got(c) <= Got(c)'
    PROVE  ClientInv'
<1>o. /\ StoreInv /\ ClientInv /\ WireInv /\ SessionInv /\ AckInv
      /\ CatchUpInv /\ LiveInv /\ TableInv
  BY DEF OrderInv
<1>t. /\ off \in [Clients -> Nat] /\ dbOff \in [Clients -> Nat]
      /\ \A c \in Clients : rcvd[c] \in Seq(Entry)
      /\ \A s \in Sessions : ClientOf[s] \in Clients /\ acks[s] \in Seq(Nat)
      /\ \A s \in Sessions : \A i \in DOMAIN inflight[s] : inflight[s][i].seq \in Nat
  <2>1. \A s \in Sessions : \A i \in DOMAIN inflight[s] : inflight[s][i] \in Entry
    BY Groups DEF FlyOK
  <2> QED BY <2>1, EntryFields, Groups, SessionAssumption DEF OffOK, SeenOK, WireOK
<1> DEFINE Has(c) == \A i \in DOMAIN rcvd[c] : rcvd[c][i].seq = i /\ Stored(rcvd[c][i])
           Below(c) == off[c] <= Got(c) /\ dbOff[c] <= Got(c)
<1> SUFFICES \A c \in Clients : Has(c)' /\ Below(c)'
  BY DEF ClientInv
<1>i. \A c \in Clients : Has(c) /\ Below(c)
  BY <1>o DEF ClientInv
<1>1. ASSUME NEW c \in Clients, rcvd'[c] = rcvd[c] PROVE Has(c)'
  <2> SUFFICES ASSUME NEW i \in DOMAIN rcvd'[c]
               PROVE  rcvd'[c][i].seq = i /\ Stored(rcvd[c][i])'
    OBVIOUS
  <2>1. rcvd[c][i] \in Entry
    <3> HIDE DEF Entry
    <3> QED BY <1>1, <1>t
  <2>2. PICK e \in Entry : e = rcvd[c][i] /\ e.seq = i /\ Stored(e)
    BY <1>1, <1>i, <2>1
  <2>3. Stored(e)'
    BY <2>2
  <2> QED BY <1>1, <2>2, <2>3
<1>2. ASSUME UNCHANGED <<off, dbOff>> PROVE \A c \in Clients : Below(c)'
  <2> TAKE c \in Clients
  <2>1. off[c] \in Nat /\ dbOff[c] \in Nat /\ Got(c) \in Nat /\ Got(c)' \in Nat /\ Got(c) <= Got(c)'
    BY <1>t
  <2> QED BY <1>2, <1>i, <2>1
<1>3. ASSUME NEW s \in Sessions, ClientRecv(s) PROVE \A c \in Clients : Has(c)' /\ Below(c)'
  <2>1. UNCHANGED <<off, dbOff, msgs>>
    BY <1>3 DEF ClientRecv, offVars, topicVars, vars, dbVars
  <2>2. ASSUME NEW c \in Clients, c = ClientOf[s] PROVE Has(c)'
    <3>1. \A i \in DOMAIN rcvd'[c] : rcvd'[c][i].seq = i /\ Stored(rcvd'[c][i])
      BY <1>3, <1>o, <2>2, Received
    <3> QED BY <2>1, <3>1 DEF Stored
  <2>3. ASSUME NEW c \in Clients, c # ClientOf[s] PROVE Has(c)'
    <3>1. rcvd'[c] = rcvd[c]
      BY <1>3, <1>o, <2>3, Received
    <3> QED BY <1>1, <3>1
  <2> QED BY <1>2, <2>1, <2>2, <2>3
<1>4. ASSUME UNCHANGED <<rcvd, off, dbOff>> PROVE \A c \in Clients : Has(c)' /\ Below(c)'
  BY <1>1, <1>2, <1>4
<1>5. ASSUME NEW s \in Sessions, HandlePubAck(s) PROVE \A c \in Clients : Has(c)' /\ Below(c)'
  <2>0. PICK a, pid : a = acks[s] /\ pid = Head(a)
    OBVIOUS
  <2>1. /\ a # <<>> /\ UNCHANGED rcvd
        /\ \/ UNCHANGED <<off, dbOff>>
           \/ pid \in DOMAIN inflight[s] /\ SetOffset(ClientOf[s], inflight[s][pid].seq)
    BY <1>5, <2>0 DEF HandlePubAck, offVars, seenVars
  <2>2. 1 \in DOMAIN a /\ pid = a[1]
    BY <1>t, <2>0, <2>1
  <2>3. ASSUME pid \in DOMAIN inflight[s], SetOffset(ClientOf[s], inflight[s][pid].seq)
        PROVE  \A c \in Clients : Below(c)'
    <3>0. PICK n, d : n = inflight[s][pid].seq /\ d = ClientOf[s]
      OBVIOUS
    <3>1. n \in Nat /\ n <= Got(d) /\ d \in Clients
      BY <1>o, <1>t, <2>0, <2>2, <2>3, <3>0 DEF AckInv, AckAt
    <3>2. \A c \in Clients : Got(c)' = Got(c)
      BY <2>1 DEF Got
    <3>3. /\ off' = [off EXCEPT ![d] = n]
          /\ dbOff' = [dbOff EXCEPT ![d] = n] \/ dbOff' = dbOff
      BY <2>3, <3>0 DEF SetOffset
    <3> QED BY <1>i, <1>t, <3>1, <3>2, <3>3
  <2> QED BY <1>1, <1>2, <2>1, <2>3
<1>6. ASSUME DRestart PROVE \A c \in Clients : Has(c)' /\ Below(c)'
  <2>1. UNCHANGED <<rcvd, dbOff>> /\ off' = dbOff
    BY <1>6 DEF DRestart, seenVars
  <2> QED BY <1>1, <1>i, <2>1 DEF Got
<1>8. ASSUME NEW s \in Sessions,
             \/ Connect(s) \/ SwapSub(s) \/ FetchCatchUp(s) \/ CatchUpSetOffset(s)
             \/ DeliverCatchUp(s) \/ RetransmitWrite(s) \/ Cut(s) \/ Kick(s)
             \/ SubscribeFails(s) \/ StartLive(s) \/ ReadError(s)
             \/ Cleanup(s) \/ HandleUnsubscribe(s)
             \/ (\E k \in Subs : \E q \in QoSs[k] : HandleSubscribe(s, k, q))
             \/ (\E pid : RetransmitPick(s, pid))
      PROVE  UNCHANGED <<rcvd, off, dbOff>>
  <2>1. st[s] # "catchset"
    BY <1>o DEF SessionInv
  <2> QED BY <1>8, <2>1 DEF Connect, SwapSub, FetchCatchUp, CatchUpSetOffset, DeliverCatchUp,
       RetransmitWrite, Cut, Kick, SubscribeFails, StartLive, ReadError, Cleanup,
       HandleUnsubscribe, HandleSubscribe, RetransmitPick, offVars, seenVars
<1>9. ASSUME NEW k \in Subs, Goroutine(k) PROVE UNCHANGED <<rcvd, off, dbOff>>
  <2>1. live[k] # "setoff"
    BY <1>o DEF SessionInv
  <2> QED BY <1>9, <2>1 DEF Goroutine, LiveRecv, LiveDeliver, LiveSetOffset, LiveDeliverFails,
       LiveExit, offVars, seenVars
<1>10. UNCHANGED sessVars \/ UNCHANGED allVars => UNCHANGED <<rcvd, off, dbOff>>
  BY DEF sessVars, allVars, offVars, seenVars
<1> HIDE DEF Has, Below
<1> QED BY <1>3, <1>4, <1>5, <1>6, <1>8, <1>9, <1>10
        DEF DNext, Broker, ClientAsks, DPurge

\* An acknowledgement on the wire is still about what the client has read: no packet
\* id is given to another message while the connection may use it.
LEMMA AckKept ==
    ASSUME DTypeInv, OrderInv, [DNext]_allVars,
           \A c \in Clients : Got(c) \in Nat /\ Got(c)' \in Nat /\ Got(c) <= Got(c)'
    PROVE  AckInv'
<1>o. ClientInv /\ WireInv /\ SessionInv /\ AckInv /\ CatchUpInv /\ LiveInv /\ TableInv /\ StoreInv
  BY DEF OrderInv
<1>t. /\ FlyOK /\ WireOK /\ ReadOK /\ HandlerInv
      /\ nextPid \in [Sessions -> Nat \ {0}] /\ acks \in [Sessions -> Seq(Nat)]
      /\ \A s \in Sessions : ClientOf[s] \in Clients
      /\ \A s \in Sessions : \A i \in DOMAIN acks[s] : acks[s][i] \in Nat
      /\ inflight = [s \in Sessions |-> inflight[s]]
  <2>1. FlyOK /\ WireOK /\ ReadOK /\ HandlerInv
    BY Groups
  <2>2. \A s \in Sessions : acks[s] \in Seq(Nat)
    BY <2>1 DEF WireOK
  <2> QED BY <2>1, <2>2, SessionAssumption DEF FlyOK, WireOK
<1>n. \A s \in Sessions : \A i \in DOMAIN inflight[s] : inflight[s][i].seq \in Nat
  <2>1. \A s \in Sessions : \A i \in DOMAIN inflight[s] : inflight[s][i] \in Entry
    BY <1>t DEF FlyOK
  <2> QED BY <2>1, EntryFields
<1>g. ASSUME NEW s \in Sessions, NEW n \in Nat, n <= Got(ClientOf[s])
      PROVE  n <= Got(ClientOf[s])'
  <2>1. PICK c \in Clients : c = ClientOf[s]
    BY <1>t
  <2>2. Got(c) \in Nat /\ Got(c)' \in Nat /\ Got(c) <= Got(c)' /\ n <= Got(c)
    BY <1>g, <2>1
  <2>3. n <= Got(c)'
    BY <2>2
  <2> QED BY <2>1, <2>3
\* A session whose acknowledgements and table only shrink.
<1>0. ASSUME NEW s \in Sessions, nextPid'[s] = nextPid[s],
             \A i \in DOMAIN acks'[s] : \E j \in DOMAIN acks[s] : acks'[s][i] = acks[s][j],
             \A x \in DOMAIN inflight'[s] :
                x \in DOMAIN inflight[s] /\ inflight'[s][x] = inflight[s][x]
      PROVE  AckAt(s)'
  <2> SUFFICES ASSUME NEW i \in DOMAIN acks'[s]
               PROVE  /\ acks'[s][i] < nextPid'[s]
                      /\ acks'[s][i] \in DOMAIN inflight'[s] =>
                            inflight'[s][acks'[s][i]].seq <= Got(ClientOf[s])'
    BY DEF AckAt
  <2>1. PICK j \in DOMAIN acks[s] : acks'[s][i] = acks[s][j]
    BY <1>0
  <2>2. PICK a : a = acks[s][j]
    OBVIOUS
  <2>3. a < nextPid[s] /\ (a \in DOMAIN inflight[s] => inflight[s][a].seq <= Got(ClientOf[s]))
    BY <1>o, <2>2 DEF AckInv, AckAt
  <2>4. a \in DOMAIN inflight[s] => inflight[s][a].seq <= Got(ClientOf[s])'
    BY <1>g, <1>n, <2>3
  <2> QED BY <1>0, <2>1, <2>2, <2>3, <2>4
\* A session that takes the next packet id.
<1>1. ASSUME NEW s \in Sessions, NEW e, Track(s, e), UNCHANGED acks
      PROVE  \A t \in Sessions : AckAt(t)'
  <2>1. /\ inflight' = [inflight EXCEPT ![s] = Put(inflight[s], nextPid[s], e)]
        /\ nextPid' = [nextPid EXCEPT ![s] = nextPid[s] + 1]
    BY <1>1 DEF Track
  <2>2. /\ nextPid'[s] = nextPid[s] + 1 /\ inflight'[s] = Put(inflight[s], nextPid[s], e)
        /\ \A t \in Sessions : t # s => nextPid'[t] = nextPid[t] /\ inflight'[t] = inflight[t]
    BY <1>t, <2>1
  <2>3. ASSUME NEW t \in Sessions, t # s PROVE AckAt(t)'
    BY <1>0, <1>1, <2>2, <2>3
  <2>4. AckAt(s)'
    <3> SUFFICES ASSUME NEW i \in DOMAIN acks'[s]
                 PROVE  /\ acks'[s][i] < nextPid'[s]
                        /\ acks'[s][i] \in DOMAIN inflight'[s] =>
                              inflight'[s][acks'[s][i]].seq <= Got(ClientOf[s])'
      BY DEF AckAt
    <3>1. PICK a \in Nat : a = acks[s][i] /\ a = acks'[s][i]
      BY <1>1, <1>t
    <3>2. a < nextPid[s] /\ (a \in DOMAIN inflight[s] => inflight[s][a].seq <= Got(ClientOf[s]))
      BY <1>1, <1>o, <3>1 DEF AckInv, AckAt
    <3>3. a \in DOMAIN inflight[s] => inflight[s][a].seq <= Got(ClientOf[s])'
      BY <1>g, <1>n, <3>2
    <3>4. nextPid[s] \in Nat
      BY <1>t
    <3>5. a # nextPid[s] /\ a < nextPid'[s]
      BY <2>2, <3>2, <3>4
    <3>6. a \in DOMAIN inflight'[s] => a \in DOMAIN inflight[s] /\ inflight'[s][a] = inflight[s][a]
      BY <2>2, <3>5 DEF Put
    <3> QED BY <3>1, <3>3, <3>5, <3>6
  <2> QED BY <2>3, <2>4
<1>2. ASSUME UNCHANGED <<acks, inflight, nextPid>> PROVE \A t \in Sessions : AckAt(t)'
  BY <1>0, <1>2
<1>3. ASSUME NEW s \in Sessions, NEW e, NEW q, DeliverError(s, e, q), UNCHANGED acks
      PROVE  \A t \in Sessions : AckAt(t)'
  BY <1>1, <1>2, <1>3 DEF DeliverError, flyVars
<1>4. ASSUME NEW s \in Sessions, DeliverCatchUp(s) PROVE \A t \in Sessions : AckAt(t)'
  <2>1. Track(s, Head(backlog[s])) /\ UNCHANGED acks
    BY <1>4, <1>o, Delivered DEF DeliverCatchUp
  <2> QED BY <1>1, <2>1
<1>5. ASSUME NEW k \in Subs, LiveDeliver(k) PROVE \A t \in Sessions : AckAt(t)'
  <2>1. owner[k] \in Sessions /\ Track(owner[k], hold[k]) /\ UNCHANGED acks
    BY <1>5, <1>o, Delivered DEF LiveDeliver
  <2> QED BY <1>1, <2>1
<1>6. ASSUME NEW s \in Sessions, SubscribeFails(s) PROVE \A t \in Sessions : AckAt(t)'
  <2>1. UNCHANGED acks /\ (UNCHANGED flyVars \/ DeliverError(s, Head(backlog[s]), qos[cur[s]]))
    BY <1>6 DEF SubscribeFails, wireVars
  <2> QED BY <1>2, <1>3, <2>1 DEF flyVars
<1>7. ASSUME NEW k \in Subs, LiveDeliverFails(k) PROVE \A t \in Sessions : AckAt(t)'
  <2>1. UNCHANGED acks /\ DeliverError(owner[k], hold[k], qos[k]) /\ owner[k] \in Sessions
    BY <1>7, <1>t DEF LiveDeliverFails, wireVars, HandlerInv
  <2> QED BY <1>3, <2>1
<1>8. ASSUME NEW s \in Sessions, HandlePubAck(s) PROVE \A t \in Sessions : AckAt(t)'
  <2>0. PICK a, pid : a = acks[s] /\ pid = Head(a)
    OBVIOUS
  <2>1. /\ a # <<>> /\ acks' = [acks EXCEPT ![s] = Tail(a)] /\ UNCHANGED nextPid
        /\ inflight' = inflight \/ inflight' = [inflight EXCEPT ![s] = Drop(inflight[s], pid)]
    BY <1>8, <2>0 DEF HandlePubAck
  <2>2. /\ acks'[s] = Tail(a)
        /\ \A t \in Sessions : t # s => acks'[t] = acks[t] /\ inflight'[t] = inflight[t]
    BY <1>t, <2>1
  <2>3. \A x \in DOMAIN inflight'[s] : x \in DOMAIN inflight[s] /\ inflight'[s][x] = inflight[s][x]
    BY <1>t, <2>1 DEF Drop
  <2>4. \A i \in DOMAIN Tail(a) : i + 1 \in DOMAIN a /\ Tail(a)[i] = a[i + 1]
    BY <1>t, <2>0, <2>1, TailEntries
  <2>5. \A i \in DOMAIN acks'[s] : \E j \in DOMAIN acks[s] : acks'[s][i] = acks[s][j]
    BY <2>0, <2>2, <2>4
  <2>6. AckAt(s)'
    BY <1>0, <2>1, <2>3, <2>5
  <2>7. ASSUME NEW t \in Sessions, t # s PROVE AckAt(t)'
    BY <1>0, <2>1, <2>2, <2>7
  <2> QED BY <2>6, <2>7
<1>9. ASSUME NEW s \in Sessions, ClientRecv(s) PROVE \A t \in Sessions : AckAt(t)'
  <2>0. PICK q, p, c : q = out[s] /\ p = Head(q) /\ c = ClientOf[s]
    OBVIOUS
  <2>1. /\ UNCHANGED <<inflight, nextPid>>
        /\ acks' = IF link[s] = "up" /\ p.pid # 0
                   THEN [acks EXCEPT ![s] = Append(@, p.pid)] ELSE acks
    BY <1>9, <2>0 DEF ClientRecv, flyVars
  <2>2. CASE acks' = acks
    BY <1>2, <2>1, <2>2
  <2>3. CASE link[s] = "up" /\ acks' = [acks EXCEPT ![s] = Append(acks[s], p.pid)]
    <3>1. q # <<>> /\ p.entry.seq <= Got(c)' /\ q \in Seq(Packet)
      BY <1>9, <1>o, <1>t, <2>0, Received DEF WireOK
    <3>2. 1 \in DOMAIN q /\ p = q[1] /\ p \in Packet
      <4> HIDE DEF Packet
      <4> QED BY <2>0, <3>1
    <3>3. p.pid \in Nat
      BY <3>2 DEF Packet
    <3>4. Fits(s, p)
      BY <1>o, <2>0, <2>3, <3>2 DEF TableInv, TableAt
    <3>5. acks'[s] = Append(acks[s], p.pid) /\ \A t \in Sessions : t # s => acks'[t] = acks[t]
      BY <1>t, <2>3
    <3>6. \A i \in DOMAIN acks'[s] : \/ i \in DOMAIN acks[s] /\ acks'[s][i] = acks[s][i]
                                     \/ acks'[s][i] = p.pid
      BY <1>t, <3>3, <3>5, AppendEntries
    <3>7. AckAt(s)'
      <4> SUFFICES ASSUME NEW i \in DOMAIN acks'[s]
                   PROVE  /\ acks'[s][i] < nextPid'[s]
                          /\ acks'[s][i] \in DOMAIN inflight'[s] =>
                                inflight'[s][acks'[s][i]].seq <= Got(ClientOf[s])'
        BY DEF AckAt
      <4>1. PICK a : a = acks'[s][i]
        OBVIOUS
      <4>2. CASE i \in DOMAIN acks[s] /\ a = acks[s][i]
        <5>1. /\ a < nextPid[s]
              /\ a \in DOMAIN inflight[s] => inflight[s][a].seq <= Got(ClientOf[s])
          BY <1>o, <4>2 DEF AckInv, AckAt
        <5>2. a \in DOMAIN inflight[s] => inflight[s][a].seq <= Got(ClientOf[s])'
          BY <1>g, <1>n, <5>1
        <5> QED BY <2>1, <4>1, <5>1, <5>2
      <4>3. CASE a = p.pid
        BY <2>0, <2>1, <3>1, <3>4, <4>1, <4>3 DEF Fits
      <4> QED BY <3>6, <4>1, <4>2, <4>3
    <3>8. ASSUME NEW t \in Sessions, t # s PROVE AckAt(t)'
      BY <1>0, <2>1, <3>5, <3>8
    <3> QED BY <3>7, <3>8
  <2> QED BY <2>1, <2>2, <2>3
<1>10. ASSUME NEW s \in Sessions, Cut(s) PROVE \A t \in Sessions : AckAt(t)'
  <2>1. PICK r \in Prefixes(acks[s]) : acks' = [acks EXCEPT ![s] = r]
    BY <1>10 DEF Cut
  <2>2. UNCHANGED <<inflight, nextPid>>
    BY <1>10 DEF Cut, flyVars
  <2>3. acks'[s] = r /\ \A t \in Sessions : t # s => acks'[t] = acks[t]
    BY <1>t, <2>1
  <2>4. acks[s] \in Seq(Nat) /\ \E n \in 0 .. Len(acks[s]) : r = SubSeq(acks[s], 1, n)
    BY <1>t DEF Prefixes
  <2>5. \A i \in DOMAIN r : i \in DOMAIN acks[s] /\ r[i] = acks[s][i]
    BY <2>4
  <2>6. AckAt(s)'
    BY <1>0, <2>2, <2>3, <2>5
  <2>7. ASSUME NEW t \in Sessions, t # s PROVE AckAt(t)'
    BY <1>0, <2>2, <2>3, <2>7
  <2> QED BY <2>6, <2>7
<1>11. ASSUME NEW s \in Sessions, Kick(s) \/ Cleanup(s) PROVE \A t \in Sessions : AckAt(t)'
  <2>1. /\ acks'[s] = <<>>
        /\ \A t \in Sessions : t # s =>
              acks'[t] = acks[t] /\ inflight'[t] = inflight[t] /\ nextPid'[t] = nextPid[t]
    BY <1>11, <1>t DEF Kick, Cleanup, flyVars
  <2>2. AckAt(s)'
    BY <2>1 DEF AckAt
  <2>3. ASSUME NEW t \in Sessions, t # s PROVE AckAt(t)'
    BY <1>0, <2>1, <2>3
  <2> QED BY <2>2, <2>3
<1>12. ASSUME DRestart PROVE \A t \in Sessions : AckAt(t)'
  BY <1>12 DEF DRestart, AckAt
<1>13. ASSUME NEW s \in Sessions,
              \/ Connect(s) \/ SwapSub(s) \/ FetchCatchUp(s) \/ CatchUpSetOffset(s)
              \/ StartLive(s) \/ ReadError(s) \/ HandleUnsubscribe(s) \/ RetransmitWrite(s)
              \/ (\E k \in Subs : \E q \in QoSs[k] : HandleSubscribe(s, k, q))
              \/ (\E pid : RetransmitPick(s, pid))
       PROVE  UNCHANGED <<acks, inflight, nextPid>>
  BY <1>13 DEF Connect, SwapSub, FetchCatchUp, CatchUpSetOffset, StartLive, ReadError,
       HandleUnsubscribe, RetransmitWrite, HandleSubscribe, RetransmitPick, wireVars, flyVars
<1>14. ASSUME NEW k \in Subs, LiveRecv(k) \/ LiveSetOffset(k) \/ LiveExit(k)
       PROVE  UNCHANGED <<acks, inflight, nextPid>>
  BY <1>14 DEF LiveRecv, LiveSetOffset, LiveExit, wireVars, flyVars
<1>15. UNCHANGED sessVars \/ UNCHANGED allVars => UNCHANGED <<acks, inflight, nextPid>>
  BY DEF sessVars, allVars, wireVars, flyVars
<1> QED BY <1>2, <1>4, <1>5, <1>6, <1>7, <1>8, <1>9, <1>10, <1>11, <1>12, <1>13, <1>14, <1>15
        DEF DNext, Broker, ClientAsks, Goroutine, DPurge, AckInv

\* Once it is written, the client will have it.
LEMMA WrittenReach ==
    ASSUME DTypeInv, NEW s \in Sessions, NEW p \in Packet, Written(s, p), link[s] = "up"
    PROVE  Reach(s, p.entry.seq)'
<1>0. PICK q, g : q = out[s] /\ g = Got(ClientOf[s])
  OBVIOUS
<1>1. g \in Nat /\ q \in Seq(Packet)
  BY <1>0, Groups, SessionAssumption DEF SeenOK, WireOK, Got
<1>2. Covered(q, g, p.entry.seq - 1) /\ out'[s] = Append(q, p) /\ Got(ClientOf[s])' = g
  BY <1>0, Groups DEF Written, Reach, Send, WireOK, Got
<1>3. Covered(Append(q, p), g, p.entry.seq)
  BY <1>1, <1>2, CoveredAppend
<1> QED BY <1>2, <1>3 DEF Reach

\* The table of a connection that is up says what was written on it: its entries, and
\* what retransmitLoop has picked, have gone out before.
LEMMA TableKept ==
    ASSUME DTypeInv, DTypeInv', OrderInv, [DNext]_allVars,
           \A e \in Entry : Stored(e) => Stored(e)',
           \A s \in Sessions, n \in Int : link'[s] = "up" /\ Reach(s, n) => Reach(s, n)'
    PROVE  TableInv'
<1>o. SessionInv /\ CatchUpInv /\ LiveInv /\ TableInv
  BY DEF OrderInv
<1>t. /\ ReadOK /\ HandlerInv /\ FlyOK
      /\ nextPid \in [Sessions -> Nat \ {0}] /\ inflight = [s \in Sessions |-> inflight[s]]
      /\ link \in [Sessions -> {"up", "cut", "closed"}]
      /\ out \in [Sessions -> Seq(Packet)] /\ resend \in [Sessions -> Packet \cup {NoPacket}]
      /\ \A s \in Sessions : \A i \in DOMAIN inflight[s] :
            i \in 1 .. nextPid[s] - 1 /\ inflight[s][i] \in Entry /\ inflight[s][i].seq \in Nat
  <2>1. \A s \in Sessions : \A i \in DOMAIN inflight[s] :
            i \in 1 .. nextPid[s] - 1 /\ inflight[s][i] \in Entry
    BY Groups DEF FlyOK
  <2> QED BY <2>1, Groups, EntryFields DEF FlyOK, WireOK, LoopOK
<1>p. /\ \A p \in Packet : p.pid \in Nat /\ p.entry \in Entry /\ p.entry.seq \in Nat
      /\ \A s \in Sessions : \A i \in DOMAIN out[s] : out[s][i] \in Packet
  <2>1. \A p \in Packet : p.pid \in Nat /\ p.entry \in Entry /\ p.entry.seq \in Nat
    BY DEF Packet, Entry
  <2> HIDE DEF Packet
  <2> QED BY <1>t, <2>1
\* What was in the table and on the wire still fits.
<1> DEFINE Out(s) == \A i \in DOMAIN out[s] : Fits(s, out[s][i])
           Tab(s) == \A i \in DOMAIN inflight[s] :
                        Stored(inflight[s][i]) /\ Reach(s, inflight[s][i].seq)
           Res(s) == resend[s] # NoPacket => /\ Fits(s, resend[s]) /\ Stored(resend[s].entry)
                                             /\ Reach(s, resend[s].entry.seq)
<1>i. \A s \in Sessions : link[s] = "up" => Out(s) /\ Tab(s) /\ Res(s)
  BY <1>o DEF TableInv, TableAt
<1> SUFFICES ASSUME NEW t \in Sessions, link'[t] = "up" PROVE Out(t)' /\ Tab(t)' /\ Res(t)'
  BY DEF TableInv, TableAt
<1>f. ASSUME NEW p, Fits(t, p), nextPid'[t] = nextPid[t],
             \A x \in DOMAIN inflight'[t] :
                x \in DOMAIN inflight[t] /\ inflight'[t][x] = inflight[t][x]
      PROVE  Fits(t, p)'
  BY <1>f DEF Fits
<1>e. ASSUME NEW e \in Entry, Stored(e), Reach(t, e.seq) PROVE Stored(e)' /\ Reach(t, e.seq)'
  <2>1. e.seq \in Int
    BY EntryFields
  <2> QED BY <1>e, <2>1
\* A step that takes nothing new into the table of t.
<1>0. ASSUME link[t] = "up", nextPid'[t] = nextPid[t],
             \A x \in DOMAIN inflight'[t] :
                x \in DOMAIN inflight[t] /\ inflight'[t][x] = inflight[t][x]
      PROVE  /\ Tab(t)'
             /\ out'[t] = out[t] => Out(t)'
             /\ resend'[t] \in {resend[t], NoPacket} => Res(t)'
  <2>1. ASSUME NEW i \in DOMAIN inflight'[t]
        PROVE  (Stored(inflight[t][i]) /\ Reach(t, inflight[t][i].seq))'
    <3>1. PICK e \in Entry : e = inflight[t][i] /\ e = inflight'[t][i]
      BY <1>0, <1>t, <2>1
    <3>2. Stored(e) /\ Reach(t, e.seq)
      BY <1>0, <1>i, <2>1, <3>1
    <3>3. Stored(e)' /\ Reach(t, e.seq)'
      BY <1>e, <3>2
    <3> QED BY <3>1, <3>3
  <2>2. ASSUME out'[t] = out[t], NEW i \in DOMAIN out'[t] PROVE Fits(t, out[t][i])'
    <3>1. PICK p : p = out[t][i] /\ p = out'[t][i]
      BY <2>2
    <3>2. Fits(t, p)'
      BY <1>0, <1>f, <1>i, <2>2, <3>1
    <3> QED BY <3>1, <3>2
  <2>3. ASSUME resend'[t] \in {resend[t], NoPacket}, resend'[t] # NoPacket
        PROVE  (Fits(t, resend[t]) /\ Stored(resend[t].entry) /\ Reach(t, resend[t].entry.seq))'
    <3>1. PICK p \in Packet : p = resend[t] /\ p = resend'[t]
      BY <1>t, <2>3
    <3>2. Fits(t, p) /\ Stored(p.entry) /\ Reach(t, p.entry.seq)
      BY <1>0, <1>i, <2>3, <3>1
    <3>3. Fits(t, p)' /\ Stored(p.entry)' /\ Reach(t, p.entry.seq)'
      BY <1>0, <1>e, <1>f, <1>p, <3>2
    <3> QED BY <3>1, <3>3
  <2> QED BY <2>1, <2>2, <2>3
<1>1. ASSUME link[t] = "up", out'[t] = out[t], inflight'[t] = inflight[t], nextPid'[t] = nextPid[t],
             resend'[t] = resend[t]
      PROVE  Out(t)' /\ Tab(t)' /\ Res(t)'
  BY <1>0, <1>1
\* A message is tracked and written.
<1>2. ASSUME NEW s \in Sessions, NEW e \in Entry, Track(s, e), UNCHANGED resend,
             Written(s, [pid |-> nextPid[s], entry |-> e])
      PROVE  Out(t)' /\ Tab(t)' /\ Res(t)'
  <2>0. PICK n, p : n = nextPid[s] /\ p = [pid |-> n, entry |-> e]
    OBVIOUS
  <2>1. /\ inflight' = [inflight EXCEPT ![s] = Put(inflight[s], n, e)]
        /\ nextPid' = [nextPid EXCEPT ![s] = n + 1] /\ n \in Nat
    BY <1>2, <1>t, <2>0 DEF Track
  <2>2. /\ nextPid'[s] = n + 1 /\ inflight'[s] = Put(inflight[s], n, e)
        /\ \A r \in Sessions : r # s => nextPid'[r] = nextPid[r] /\ inflight'[r] = inflight[r]
    BY <1>t, <2>1
  <2>3. Send(s, p) /\ UNCHANGED link /\ p \in Packet
        /\ (link[s] = "up" => Stored(p.entry) /\ Reach(s, p.entry.seq - 1))
    BY <1>2, <2>0 DEF Written
  <2>4. CASE t # s
    <3>1. out'[t] = out[t]
      BY <1>t, <2>3, <2>4 DEF Send
    <3> QED BY <1>1, <1>2, <2>2, <2>3, <2>4, <3>1
  <2>5. CASE t = s
    <3>0. PICK q : q = out[s]
      OBVIOUS
    <3>1. link[s] = "up" /\ q \in Seq(Packet) /\ out'[s] = Append(q, p)
      BY <1>t, <2>3, <2>5, <3>0 DEF Send
    <3>2. \A i \in DOMAIN out'[s] : \/ i \in DOMAIN q /\ out'[s][i] = q[i]
                                    \/ out'[s][i] = p
      BY <2>3, <3>1, AppendEntries
    <3>3. ASSUME NEW r, Fits(s, r), r.pid \in Nat PROVE Fits(s, r)'
      <4>1. r.pid < n + 1 /\ r.pid # n
        BY <2>0, <2>1, <3>3 DEF Fits
      <4>2. r.pid \in DOMAIN inflight'[s] =>
                r.pid \in DOMAIN inflight[s] /\ inflight'[s][r.pid] = inflight[s][r.pid]
        BY <2>2, <4>1 DEF Put
      <4> QED BY <2>2, <3>3, <4>1, <4>2 DEF Fits
    <3>4. Fits(s, p)'
      <4>1. p.pid = n /\ p.entry = e /\ inflight'[s][n] = e
        BY <2>0, <2>2 DEF Put
      <4> QED BY <2>1, <2>2, <4>1 DEF Fits
    <3>5. ASSUME NEW i \in DOMAIN out'[s] PROVE Fits(s, out[s][i])'
      <4>1. CASE out'[s][i] = p
        BY <3>4, <4>1
      <4>2. CASE i \in DOMAIN q /\ out'[s][i] = q[i]
        <5>1. PICK r \in Packet : r = q[i] /\ r = out'[s][i]
          BY <1>p, <3>0, <4>2
        <5>2. Fits(s, r)
          BY <1>i, <3>0, <3>1, <4>2, <5>1
        <5>3. Fits(s, r)'
          BY <1>p, <3>3, <5>2
        <5> QED BY <5>1, <5>3
      <4> QED BY <3>2, <3>5, <4>1, <4>2
    <3>6. Stored(e)' /\ Reach(s, e.seq)'
      <4>1. Stored(e) /\ p.entry = e
        BY <2>0, <2>3, <3>1
      <4>2. Reach(s, p.entry.seq)'
        BY <1>2, <2>0, <2>3, <3>1, WrittenReach
      <4> QED BY <4>1, <4>2
    <3>7. ASSUME NEW i \in DOMAIN inflight'[s]
          PROVE  (Stored(inflight[s][i]) /\ Reach(s, inflight[s][i].seq))'
      <4>1. CASE i = n
        <5>1. inflight'[s][i] = e
          BY <2>2, <4>1 DEF Put
        <5> QED BY <3>6, <5>1
      <4>2. CASE i # n
        <5>1. i \in DOMAIN inflight[s] /\ inflight'[s][i] = inflight[s][i]
          BY <2>2, <3>7, <4>2 DEF Put
        <5>2. PICK d \in Entry : d = inflight[s][i] /\ d = inflight'[s][i]
          BY <1>t, <5>1
        <5>3. Stored(d) /\ Reach(s, d.seq)
          BY <1>i, <3>1, <5>1, <5>2
        <5>4. Stored(d)' /\ Reach(s, d.seq)'
          BY <1>e, <2>5, <5>3
        <5> QED BY <5>2, <5>4
      <4> QED BY <4>1, <4>2
    <3>8. ASSUME resend'[s] # NoPacket
          PROVE  (Fits(s, resend[s]) /\ Stored(resend[s].entry) /\ Reach(s, resend[s].entry.seq))'
      <4>1. PICK r \in Packet : r = resend[s] /\ r = resend'[s]
        BY <1>2, <1>t, <3>8
      <4>2. Fits(s, r) /\ Stored(r.entry) /\ Reach(s, r.entry.seq)
        BY <1>2, <1>i, <3>1, <3>8, <4>1
      <4>3. Fits(s, r)' /\ Stored(r.entry)' /\ Reach(s, r.entry.seq)'
        BY <1>e, <1>p, <2>5, <3>3, <4>2
      <4> QED BY <4>1, <4>3
    <3> QED BY <2>5, <3>5, <3>7, <3>8
  <2> QED BY <2>4, <2>5
\* A failed write is on a connection that is not up.
<1>3. ASSUME NEW s \in Sessions, NEW e, NEW q, DeliverError(s, e, q),
             UNCHANGED <<link, out, resend>>
      PROVE  Out(t)' /\ Tab(t)' /\ Res(t)'
  <2>1. t # s
    BY <1>3 DEF DeliverError, MayFail
  <2>2. inflight'[t] = inflight[t] /\ nextPid'[t] = nextPid[t]
    BY <1>3, <1>t, <2>1 DEF DeliverError, Track, flyVars
  <2> QED BY <1>1, <1>3, <2>2
<1>4. ASSUME NEW s \in Sessions, Connect(s) PROVE Out(t)' /\ Tab(t)' /\ Res(t)'
  <2>1. UNCHANGED <<out, inflight, nextPid, resend>>
    BY <1>4 DEF Connect, flyVars, loopVars
  <2>2. CASE t # s
    <3>1. link[t] = "up"
      BY <1>4, <1>t, <2>2 DEF Connect
    <3> QED BY <1>1, <2>1, <3>1
  <2>3. CASE t = s
    <3>1. out[s] = <<>> /\ st[s] = "new"
      BY <1>4 DEF Connect
    <3>2. DOMAIN inflight[s] = {} /\ resend[s] = NoPacket
      BY <1>o, <3>1 DEF SessionInv
    <3> QED BY <2>1, <2>3, <3>1, <3>2
  <2> QED BY <2>2, <2>3
<1>5. ASSUME NEW s \in Sessions, DeliverCatchUp(s) PROVE Out(t)' /\ Tab(t)' /\ Res(t)'
  <2>1. PICK e \in Entry : Track(s, e) /\ Written(s, [pid |-> nextPid[s], entry |-> e])
    BY <1>5, <1>o, Delivered
  <2>2. UNCHANGED resend
    BY <1>5 DEF DeliverCatchUp, loopVars
  <2> QED BY <1>2, <2>1, <2>2
<1>6. ASSUME NEW k \in Subs, LiveDeliver(k) PROVE Out(t)' /\ Tab(t)' /\ Res(t)'
  <2>1. PICK s \in Sessions, e \in Entry :
            Track(s, e) /\ Written(s, [pid |-> nextPid[s], entry |-> e])
    BY <1>6, <1>o, Delivered
  <2>2. UNCHANGED resend
    BY <1>6 DEF LiveDeliver, loopVars
  <2> QED BY <1>2, <2>1, <2>2
<1>7. ASSUME NEW s \in Sessions, SubscribeFails(s) PROVE Out(t)' /\ Tab(t)' /\ Res(t)'
  <2>1. /\ UNCHANGED <<link, out, resend>>
        /\ UNCHANGED flyVars \/ DeliverError(s, Head(backlog[s]), qos[cur[s]])
    BY <1>7 DEF SubscribeFails, wireVars, loopVars
  <2> QED BY <1>1, <1>3, <2>1 DEF flyVars
<1>8. ASSUME NEW k \in Subs, LiveDeliverFails(k) PROVE Out(t)' /\ Tab(t)' /\ Res(t)'
  <2>1. /\ UNCHANGED <<link, out, resend>> /\ owner[k] \in Sessions
        /\ DeliverError(owner[k], hold[k], qos[k])
    BY <1>8, <1>t DEF LiveDeliverFails, wireVars, loopVars, HandlerInv
  <2> QED BY <1>3, <2>1
<1>9. ASSUME NEW s \in Sessions, HandlePubAck(s) PROVE Out(t)' /\ Tab(t)' /\ Res(t)'
  <2>1. /\ UNCHANGED <<link, out, resend, nextPid>>
        /\ \/ inflight' = inflight
           \/ inflight' = [inflight EXCEPT ![s] = Drop(inflight[s], Head(acks[s]))]
    BY <1>9 DEF HandlePubAck, loopVars
  <2>2. \A x \in DOMAIN inflight'[t] : x \in DOMAIN inflight[t] /\ inflight'[t][x] = inflight[t][x]
    <3>1. inflight'[t] = inflight[t] \/ inflight'[t] = Drop(inflight[t], Head(acks[s]))
      BY <1>t, <2>1
    <3> QED BY <3>1 DEF Drop
  <2> QED BY <1>0, <2>1, <2>2
<1>10. ASSUME NEW s \in Sessions, NEW pid \in DOMAIN inflight[s], RetransmitPick(s, pid)
       PROVE  Out(t)' /\ Tab(t)' /\ Res(t)'
  <2>0. PICK e : e = inflight[s][pid]
    OBVIOUS
  <2>1. /\ UNCHANGED <<link, out, inflight, nextPid>>
        /\ resend' = [resend EXCEPT ![s] = [pid |-> pid, entry |-> e]]
    BY <1>10, <2>0 DEF RetransmitPick, wireVars, flyVars
  <2>2. CASE t # s
    <3>1. resend'[t] = resend[t]
      BY <1>t, <2>1, <2>2
    <3> QED BY <1>1, <2>1, <3>1
  <2>3. CASE t = s
    <3>1. Out(t)' /\ Tab(t)'
      BY <1>0, <2>1
    <3>2. e \in Entry /\ Stored(e) /\ Reach(s, e.seq)
      BY <1>i, <1>t, <2>0, <2>1, <2>3
    <3>3. Stored(e)' /\ Reach(s, e.seq)'
      BY <1>e, <2>3, <3>2
    <3>4. PICK p : p = resend'[s]
      OBVIOUS
    <3>5. p.pid = pid /\ p.entry = e
      BY <1>t, <2>1, <3>4
    <3>6. pid < nextPid[s]
      <4>1. pid \in 1 .. nextPid[s] - 1 /\ nextPid[s] \in Nat
        BY <1>t
      <4> QED BY <4>1
    <3>7. Fits(s, p)'
      BY <2>0, <2>1, <3>5, <3>6 DEF Fits
    <3> QED BY <2>3, <3>1, <3>3, <3>4, <3>5, <3>7
  <2> QED BY <2>2, <2>3
<1>11. ASSUME NEW s \in Sessions, RetransmitWrite(s) PROVE Out(t)' /\ Tab(t)' /\ Res(t)'
  <2>0. PICK p, q : p = resend[s] /\ q = out[s]
    OBVIOUS
  <2>1. /\ UNCHANGED <<link, inflight, nextPid>> /\ p # NoPacket
        /\ resend' = [resend EXCEPT ![s] = NoPacket]
        /\ UNCHANGED out \/ Send(s, p)
    BY <1>11, <2>0 DEF RetransmitWrite, flyVars
  <2>2. resend'[t] \in {resend[t], NoPacket}
    BY <1>t, <2>1
  <2>3. Tab(t)' /\ Res(t)'
    BY <1>0, <2>1, <2>2
  <2>4. CASE out'[t] = out[t]
    BY <1>0, <2>1, <2>3, <2>4
  <2>5. CASE out'[t] # out[t]
    <3>1. t = s /\ out'[s] = Append(q, p) /\ q \in Seq(Packet) /\ p \in Packet
      BY <1>t, <2>0, <2>1, <2>5 DEF Send
    <3>2. \A i \in DOMAIN out'[s] : \/ i \in DOMAIN q /\ out'[s][i] = q[i]
                                    \/ out'[s][i] = p
      BY <3>1, AppendEntries
    <3>3. ASSUME NEW i \in DOMAIN out'[s] PROVE Fits(s, out[s][i])'
      <4>1. PICK r : r = out'[s][i]
        OBVIOUS
      <4>2. Fits(s, r)
        BY <1>i, <2>0, <2>1, <3>1, <3>2, <3>3, <4>1
      <4>3. Fits(s, r)'
        BY <1>f, <2>1, <3>1, <4>2
      <4> QED BY <4>1, <4>3
    <3> QED BY <2>3, <3>1, <3>3
  <2> QED BY <2>4, <2>5
<1>12. ASSUME NEW s \in Sessions, ClientRecv(s) PROVE Out(t)' /\ Tab(t)' /\ Res(t)'
  <2>0. PICK q : q = out[s]
    OBVIOUS
  <2>1. /\ UNCHANGED <<link, inflight, nextPid, resend>> /\ q # <<>>
        /\ out' = [out EXCEPT ![s] = Tail(q)]
    BY <1>12, <2>0 DEF ClientRecv, flyVars, loopVars
  <2>2. Tab(t)' /\ Res(t)'
    BY <1>0, <2>1
  <2>3. CASE t # s
    BY <1>0, <1>t, <2>1, <2>3
  <2>4. CASE t = s
    <3>1. q \in Seq(Packet) /\ out'[s] = Tail(q)
      BY <1>t, <2>0, <2>1
    <3>2. \A i \in DOMAIN out'[s] : i + 1 \in DOMAIN q /\ out'[s][i] = q[i + 1]
      BY <2>1, <3>1, TailEntries
    <3>3. ASSUME NEW i \in DOMAIN out'[s] PROVE Fits(s, out[s][i])'
      <4>1. PICK r : r = out'[s][i]
        OBVIOUS
      <4>2. Fits(s, r)
        BY <1>i, <2>0, <2>1, <2>4, <3>2, <3>3, <4>1
      <4>3. Fits(s, r)'
        BY <1>f, <2>1, <2>4, <4>2
      <4> QED BY <4>1, <4>3
    <3> QED BY <2>2, <2>4, <3>3
  <2> QED BY <2>3, <2>4
<1>13. ASSUME NEW s \in Sessions, Cut(s) \/ Kick(s) \/ Cleanup(s)
       PROVE  Out(t)' /\ Tab(t)' /\ Res(t)'
  <2>1. t # s
    BY <1>13, <1>t DEF Cut, Kick, Cleanup
  <2>2. /\ link[t] = "up" /\ out'[t] = out[t] /\ inflight'[t] = inflight[t]
        /\ nextPid'[t] = nextPid[t] /\ resend'[t] = resend[t]
    BY <1>13, <1>t, <2>1 DEF Cut, Kick, Cleanup, flyVars, loopVars
  <2> QED BY <1>1, <2>2
<1>14. ~DRestart
  BY DEF DRestart
<1>15. ASSUME NEW s \in Sessions,
              \/ SwapSub(s) \/ FetchCatchUp(s) \/ CatchUpSetOffset(s)
              \/ StartLive(s) \/ ReadError(s) \/ HandleUnsubscribe(s)
              \/ (\E k \in Subs : \E q \in QoSs[k] : HandleSubscribe(s, k, q))
       PROVE  UNCHANGED <<link, out, inflight, nextPid, resend>>
  BY <1>15 DEF SwapSub, FetchCatchUp, CatchUpSetOffset, StartLive, ReadError,
       HandleUnsubscribe, HandleSubscribe, wireVars, flyVars, loopVars
<1>16. ASSUME NEW k \in Subs, LiveRecv(k) \/ LiveSetOffset(k) \/ LiveExit(k)
       PROVE  UNCHANGED <<link, out, inflight, nextPid, resend>>
  BY <1>16 DEF LiveRecv, LiveSetOffset, LiveExit, wireVars, flyVars, loopVars
<1>17. UNCHANGED sessVars \/ UNCHANGED allVars => UNCHANGED <<link, out, inflight, nextPid, resend>>
  BY DEF sessVars, allVars, wireVars, flyVars, loopVars
<1>18. UNCHANGED <<link, out, inflight, nextPid, resend>> => Out(t)' /\ Tab(t)' /\ Res(t)'
  BY <1>1
<1> HIDE DEF Out, Tab, Res
<1> QED BY <1>4, <1>5, <1>6, <1>7, <1>8, <1>9, <1>10, <1>11, <1>12, <1>13, <1>14, <1>15, <1>16,
           <1>17, <1>18
        DEF DNext, Broker, ClientAsks, Goroutine, DPurge

-----------------------------------------------------------------------------
(* Sessions and their channels. *)

\* A session opens and cancels channels of its own only.
LEMMA SessionKept ==
    ASSUME Dependable, DTypeInv, SessionInv, [DNext]_allVars
    PROVE  SessionInv'
<1>t. /\ ReadOK /\ ChanOK /\ LiveOK /\ FlyOK /\ LoopOK /\ WireOK /\ HandlerInv
      /\ NoSession \notin Sessions /\ NoSub \notin Subs /\ subs \subseteq Subs
  BY Groups, SessionAssumption DEF TypeOK
<1> DEFINE Chan(k) == owner[k] \in Sessions => qos[k] = 1
           Gor(k) == live[k] # "setoff" /\ (owner[k] = NoSession => live[k] = "none")
           Sub(s) == /\ st[s] # "catchset"
                     /\ sub[s] # NoSub => owner[sub[s]] = s
                     /\ st[s] = "swap" => sub[s] # cur[s]
           Cur(s) == st[s] \in Subscribing => cur[s] \in subs /\ live[cur[s]] = "none"
           New(s) == st[s] = "new" => /\ DOMAIN inflight[s] = {} /\ resend[s] = NoPacket
                                      /\ link[s] # "up" /\ \A k \in Subs : owner[k] # s
           AllKept == /\ \A k \in Subs : Chan(k)' /\ Gor(k)'
                      /\ \A s \in Sessions : Sub(s)' /\ Cur(s)' /\ New(s)'
<1>i. /\ \A k \in Subs : Chan(k) /\ Gor(k)
      /\ \A s \in Sessions : Sub(s) /\ Cur(s) /\ New(s)
      /\ \A s \in Sessions : st[s] \in Subscribing => cur[s] \in Subs /\ owner[cur[s]] = s
      /\ \A s \in Sessions : sub[s] \in Subs \cup {NoSub}
      /\ \A k \in Subs : live[k] \in {"recv", "deliver", "setoff"} => owner[k] \in Sessions
  BY <1>t DEF SessionInv, HandlerInv, ReadOK
<1> SUFFICES AllKept
  BY DEF SessionInv
<1> USE DEF readVars, chanVars, liveVars, flyVars, loopVars, wireVars, topicVars, vars, memVars
\* Where a step of session s may leave the others.
<1> DEFINE Others(s) == \A t \in Sessions : t # s =>
                /\ st'[t] = st[t] /\ sub'[t] = sub[t] /\ cur'[t] = cur[t]
                /\ inflight'[t] = inflight[t] /\ resend'[t] = resend[t] /\ link'[t] = link[t]
<1>0. ASSUME NEW s \in Sessions, Others(s), UNCHANGED <<owner, qos>>,
             \A k \in Subs : live'[k] = live[k] \/ (owner[k] = s /\ live'[k] # "setoff"),
             \A k \in subs : k \in subs' \/ owner[k] = s
      PROVE  /\ \A k \in Subs : Chan(k)' /\ Gor(k)'
             /\ \A t \in Sessions : t # s => Sub(t)' /\ Cur(t)' /\ New(t)'
  <2>1. \A k \in Subs : Chan(k)' /\ Gor(k)'
    BY <1>0, <1>i, <1>t
  <2>2. ASSUME NEW t \in Sessions, t # s PROVE Sub(t)' /\ New(t)'
    BY <1>0, <1>i, <2>2
  <2>3. ASSUME NEW t \in Sessions, t # s PROVE Cur(t)'
    BY <1>0, <1>i, <2>3
  <2> QED BY <2>1, <2>2, <2>3
<1>1. ASSUME NEW s \in Sessions, Connect(s) PROVE AllKept
  <2>1. /\ Others(s) /\ UNCHANGED <<owner, qos, live, subs, sub>> /\ st'[s] = "ready"
    BY <1>1, <1>t DEF Connect, ReadOK, WireOK
  <2>2. Sub(s)' /\ Cur(s)' /\ New(s)'
    BY <1>i, <2>1 DEF Subscribing
  <2> QED BY <1>0, <1>i, <1>t, <2>1, <2>2
<1>2. ASSUME NEW s \in Sessions, NEW k \in Subs, NEW q \in QoSs[k], HandleSubscribe(s, k, q)
      PROVE  AllKept
  <2>1. /\ Others(s) /\ UNCHANGED <<live, sub>> /\ subs' = subs \cup {k} /\ st[s] = "ready"
        /\ st'[s] = "swap" /\ cur'[s] = k /\ owner[k] = NoSession /\ owner'[k] = s /\ qos'[k] = q
        /\ \A j \in Subs : j # k => owner'[j] = owner[j] /\ qos'[j] = qos[j]
    BY <1>2, <1>t DEF HandleSubscribe, Subscribe, ReadOK, ChanOK
  <2>2. q = 1
    BY DEF Dependable
  <2>3. live[k] = "none" /\ sub[s] # k
    BY <1>i, <1>t, <2>1
  <2>4. \A j \in Subs : Chan(j)' /\ Gor(j)'
    BY <1>i, <1>t, <2>1, <2>2, <2>3
  <2>5. Sub(s)' /\ Cur(s)' /\ New(s)'
    BY <1>i, <1>t, <2>1, <2>3
  <2>6. ASSUME NEW t \in Sessions, t # s PROVE Sub(t)' /\ Cur(t)' /\ New(t)'
    <3>1. sub[t] # k /\ (st[t] \in Subscribing => cur[t] # k)
      BY <1>i, <1>t, <2>1
    <3> QED BY <1>i, <1>t, <2>1, <2>6, <3>1
  <2> QED BY <2>4, <2>5, <2>6
<1>3. ASSUME NEW s \in Sessions, SwapSub(s) PROVE AllKept
  <2>1. /\ Others(s) /\ UNCHANGED <<owner, qos, live, cur>> /\ st[s] = "swap" /\ st'[s] = "fetch"
        /\ sub'[s] = cur[s]
    BY <1>3, <1>t DEF SwapSub, ReadOK
  <2>2. \A k \in subs : k \in subs' \/ k = sub[s]
    BY <1>3 DEF SwapSub, Unsubscribe
  <2>3. \A k \in subs : k \in subs' \/ owner[k] = s
    BY <1>i, <1>t, <2>2
  <2>4. /\ cur[s] \in Subs /\ owner[cur[s]] = s /\ cur[s] # sub[s]
        /\ cur[s] \in subs /\ live[cur[s]] = "none"
    BY <1>i, <2>1 DEF Subscribing
  <2>5. Sub(s)' /\ Cur(s)' /\ New(s)'
    BY <1>i, <2>1, <2>2, <2>4
  <2> QED BY <1>0, <2>1, <2>3, <2>5
<1>4. ASSUME NEW s \in Sessions, FetchCatchUp(s) PROVE AllKept
  <2>1. /\ Others(s) /\ UNCHANGED <<owner, qos, live, cur, subs, sub>>
        /\ st[s] = "fetch" /\ st'[s] = "catchup"
    BY <1>4, <1>t DEF FetchCatchUp, ReadOK
  <2>2. Sub(s)' /\ Cur(s)' /\ New(s)'
    BY <1>i, <2>1 DEF Subscribing
  <2> QED BY <1>0, <2>1, <2>2
<1>5. ASSUME NEW s \in Sessions, NEW e, Track(s, e), st[s] # "new",
             UNCHANGED <<st, sub, cur, owner, qos, subs, link, resend>>,
             \A k \in Subs : live'[k] = live[k] \/ (owner[k] = s /\ live'[k] # "setoff"),
             st[s] \in Subscribing => live'[cur[s]] = live[cur[s]]
      PROVE  AllKept
  <2>1. Others(s)
    BY <1>5, <1>t DEF Track, FlyOK
  <2>2. Sub(s)' /\ Cur(s)' /\ New(s)'
    BY <1>5, <1>i
  <2> QED BY <1>0, <1>5, <2>1, <2>2
<1>6. ASSUME NEW s \in Sessions, DeliverCatchUp(s) PROVE AllKept
  <2>1. st[s] = "catchup" /\ UNCHANGED <<sub, cur, owner, qos, subs, link, resend, live>>
    BY <1>6 DEF DeliverCatchUp
  <2>2. qos[cur[s]] = 1
    BY <1>i, <2>1 DEF Subscribing
  <2>3. Track(s, Head(backlog[s])) /\ UNCHANGED st
    BY <1>6, <2>2 DEF DeliverCatchUp, DeliverWrite
  <2> QED BY <1>5, <2>1, <2>3
<1>7. ASSUME NEW k \in Subs, LiveDeliver(k) PROVE AllKept
  <2>1. /\ live[k] = "deliver" /\ UNCHANGED <<st, sub, cur, owner, qos, subs, link, resend>>
    BY <1>7 DEF LiveDeliver
  <2>2. owner[k] \in Sessions /\ qos[k] = 1
    BY <1>i, <2>1
  <2>3. Track(owner[k], hold[k]) /\ live' = [live EXCEPT ![k] = "recv"]
    BY <1>7, <2>2 DEF LiveDeliver, DeliverWrite
  <2>4. PICK s \in Sessions : s = owner[k]
    BY <2>2
  <2>5. st[s] # "new" /\ (st[s] \in Subscribing => cur[s] # k)
    BY <1>i, <2>1, <2>4
  <2>6. \A j \in Subs : live'[j] = live[j] \/ (owner[j] = s /\ live'[j] # "setoff")
    BY <1>t, <2>3, <2>4 DEF LiveOK
  <2>7. st[s] \in Subscribing => live'[cur[s]] = live[cur[s]]
    BY <1>t, <2>3, <2>5 DEF LiveOK
  <2> QED BY <1>5, <2>1, <2>3, <2>4, <2>5, <2>6, <2>7
<1>8. ASSUME NEW s \in Sessions, SubscribeFails(s) PROVE AllKept
  <2>1. /\ st[s] \in Subscribing /\ st'[s] = "closing" /\ Others(s)
        /\ UNCHANGED <<sub, cur, owner, qos, subs, live>>
    BY <1>8, <1>t DEF SubscribeFails, DeliverError, Track, ReadOK, FlyOK, Subscribing
  <2>2. Sub(s)' /\ Cur(s)' /\ New(s)'
    BY <1>i, <2>1 DEF Subscribing
  <2> QED BY <1>0, <2>1, <2>2
<1>9. ASSUME NEW s \in Sessions, StartLive(s) PROVE AllKept
  <2>1. /\ st[s] = "catchup" /\ st'[s] = "ready" /\ UNCHANGED <<sub, owner, qos, subs>> /\ Others(s)
        /\ live' = [live EXCEPT ![cur[s]] = "recv"]
    BY <1>9, <1>t DEF StartLive, ReadOK
  <2>2. owner[cur[s]] = s /\ cur[s] \in Subs
    BY <1>i, <2>1 DEF Subscribing
  <2>3. \A k \in Subs : live'[k] = live[k] \/ (owner[k] = s /\ live'[k] # "setoff")
    BY <1>t, <2>1, <2>2 DEF LiveOK
  <2>4. Sub(s)' /\ Cur(s)' /\ New(s)'
    BY <1>i, <2>1 DEF Subscribing
  <2> QED BY <1>0, <2>1, <2>3, <2>4
<1>10. ASSUME NEW s \in Sessions, HandleUnsubscribe(s) \/ Cleanup(s) PROVE AllKept
  <2>1. /\ st[s] \in {"ready", "closing"} /\ st'[s] \in {"ready", "closed"} /\ sub'[s] = NoSub
        /\ UNCHANGED <<owner, qos, live>> /\ Others(s)
    BY <1>10, <1>t DEF HandleUnsubscribe, Cleanup, ReadOK, FlyOK, WireOK
  <2>2. \A k \in subs : k \in subs' \/ k = sub[s]
    BY <1>10 DEF HandleUnsubscribe, Cleanup, Unsubscribe
  <2>3. \A k \in subs : k \in subs' \/ owner[k] = s
    BY <1>i, <1>t, <2>2
  <2>4. Sub(s)' /\ Cur(s)' /\ New(s)'
    BY <2>1 DEF Subscribing
  <2> QED BY <1>0, <2>1, <2>3, <2>4
<1>11. ASSUME NEW s \in Sessions, HandlePubAck(s) \/ ReadError(s) \/ Cut(s) \/ Kick(s)
       PROVE  AllKept
  <2>1. /\ st[s] # "new" /\ (st'[s] = st[s] \/ st'[s] = "closing") /\ UNCHANGED <<sub, cur>>
        /\ UNCHANGED <<owner, qos, live, subs>> /\ Others(s)
    <3>1. st[s] # "new"
      BY <1>11, <1>i DEF HandlePubAck, ReadError, Cut, Kick
    <3> QED BY <1>11, <1>t, <3>1 DEF HandlePubAck, ReadError, Cut, Kick, ReadOK, FlyOK, WireOK
  <2>2. Sub(s)' /\ Cur(s)' /\ New(s)'
    BY <1>i, <2>1 DEF Subscribing
  <2> QED BY <1>0, <2>1, <2>2
<1>12. ASSUME NEW s \in Sessions, NEW pid, RetransmitPick(s, pid) \/ RetransmitWrite(s)
       PROVE  AllKept
  <2>1. /\ UNCHANGED <<st, sub, cur, owner, qos, live, subs, link, inflight>> /\ Others(s)
        /\ st[s] # "new" \/ resend'[s] = NoPacket
    BY <1>12, <1>t DEF RetransmitPick, RetransmitWrite, LoopOK
  <2>2. Sub(s)' /\ Cur(s)' /\ New(s)'
    BY <1>i, <2>1
  <2> QED BY <1>0, <2>1, <2>2
<1>13. ASSUME UNCHANGED <<st, sub, cur, owner, qos, live, subs, link, inflight, resend>>
       PROVE  AllKept
  BY <1>13, <1>i
<1>14. ASSUME NEW k \in Subs, LiveRecv(k) \/ LiveDeliverFails(k) \/ LiveExit(k) PROVE AllKept
  <2>1. /\ live[k] \in {"recv", "deliver"}
        /\ UNCHANGED <<st, sub, cur, owner, qos, subs, link, resend>>
        /\ live'[k] # "setoff" /\ \A j \in Subs : j # k => live'[j] = live[j]
    BY <1>14, <1>t DEF LiveRecv, Recv, LiveDeliverFails, LiveExit, LiveOK
  <2>2. PICK s \in Sessions : s = owner[k]
    BY <1>i, <2>1
  <2>3. st[s] # "new" /\ (st[s] \in Subscribing => cur[s] # k)
    BY <1>i, <2>1, <2>2
  <2>4. Others(s)
    BY <1>14, <1>t, <2>1, <2>2 DEF LiveRecv, LiveDeliverFails, DeliverError, Track, LiveExit, FlyOK
  <2>5. Sub(s)' /\ Cur(s)' /\ New(s)'
    <3>1. st[s] \in Subscribing => live'[cur[s]] = live[cur[s]]
      BY <1>i, <2>1, <2>3
    <3> QED BY <1>i, <2>1, <2>3, <3>1
  <2> QED BY <1>0, <2>1, <2>2, <2>4, <2>5
<1>15. ASSUME DRestart PROVE AllKept
  <2>1. /\ UNCHANGED <<owner, qos>>
        /\ \A k \in Subs : live'[k] = IF owner[k] = NoSession THEN "none" ELSE "done"
        /\ \A s \in Sessions : /\ st'[s] = IF st[s] = "new" THEN "new" ELSE "closed"
                               /\ link'[s] = "closed" /\ sub'[s] = NoSub
                               /\ resend'[s] = NoPacket /\ DOMAIN inflight'[s] = {}
    BY <1>15 DEF DRestart
  <2> QED BY <1>i, <2>1 DEF Subscribing
<1>16. ASSUME NEW s \in Sessions, ClientRecv(s) \/ CatchUpSetOffset(s)
       PROVE  UNCHANGED <<st, sub, cur, owner, qos, live, subs, link, inflight, resend>>
  BY <1>16, <1>i DEF ClientRecv, CatchUpSetOffset
<1>17. \A k \in Subs : ~LiveSetOffset(k)
  BY <1>i DEF LiveSetOffset
<1>18. ASSUME (\E p \in Publishers : Publish(p)) \/ Purge, UNCHANGED sessVars
       PROVE  UNCHANGED <<st, sub, cur, owner, qos, live, subs, link, inflight, resend>>
  BY <1>18 DEF sessVars, Publish, AllocSeq, PersistMsg, PersistMsgFails, PersistSeq,
       PersistSeqFails, FanBegin, FanSend, FanDrop, FanEnd, Purge, PurgeScan, PurgeScanFails,
       PurgeDelete, PurgeDeleteFails, PurgeReset, PurgePersist
<1>19. UNCHANGED allVars =>
          UNCHANGED <<st, sub, cur, owner, qos, live, subs, link, inflight, resend>>
  BY DEF allVars, sessVars
<1> HIDE DEF AllKept
<1> QED BY <1>1, <1>2, <1>3, <1>4, <1>6, <1>7, <1>8, <1>9, <1>10, <1>11, <1>12, <1>13, <1>14,
           <1>15, <1>16, <1>17, <1>18, <1>19
        DEF DNext, Broker, ClientAsks, Goroutine, DPurge

-----------------------------------------------------------------------------
(* Catch-up and live delivery. *)

\* Who has everything up to n has everything up to a smaller number.
LEMMA ReachLess ==
    ASSUME NEW s, NEW n \in Int, NEW m \in Int, m <= n
    PROVE  (Reach(s, n) => Reach(s, m)) /\ (Reach(s, n)' => Reach(s, m)')
<1>1. \A x \in 1 .. m : x \in 1 .. n
  OBVIOUS
<1> QED BY <1>1 DEF Reach, Covered

\* With room for it, GetMessages returns everything from a number to the last one.
LEMMA FetchedAll ==
    ASSUME Dependable, DTypeInv, StoreInv, NEW from \in Nat \ {0}
    PROVE  LET g == GetMessages(from, CatchUpLimit) IN
           /\ g \in Seq(Entry)
           /\ Len(g) = IF from > Top THEN 0 ELSE Top - from + 1
           /\ \A i \in DOMAIN g : Stored(g[i]) /\ g[i].seq = from + i - 1
<1> DEFINE keys == {k \in DOMAIN msgs : k >= from}
           below(k) == {j \in keys : j < k}
           nth(i) == CHOOSE k \in keys : Cardinality(below(k)) = i - 1
           n == IF Cardinality(keys) < CatchUpLimit THEN Cardinality(keys) ELSE CatchUpLimit
           g == [i \in 1 .. n |-> [seq |-> nth(i), msg |-> msgs[nth(i)]]]
           len == IF from > Top THEN 0 ELSE Top - from + 1
<1>1. /\ Top \in Int /\ Top <= seq /\ seq \in Nat /\ CatchUpLimit \in Nat /\ seq <= CatchUpLimit
      /\ DOMAIN msgs = 1 .. Top /\ TypeOK /\ StoreFinite
  <2>1. TypeOK /\ StoreFinite /\ seq \in Nat
    BY Groups DEF TypeOK
  <2>2. Top \in Int /\ Top <= seq
    BY <2>1 DEF Top
  <2> QED BY <2>1, <2>2, BoundsAssumption, DeliveryBounds DEF StoreInv, Dependable
<1>2. keys = from .. Top
  BY <1>1
<1>3. Cardinality(keys) = len /\ len \in Nat /\ len <= CatchUpLimit
  <2>1. Cardinality(from .. Top) = len
    BY <1>1, FS_Interval
  <2>2. len \in Nat /\ len <= CatchUpLimit
    BY <1>1
  <2> QED BY <1>2, <2>1, <2>2
<1>4. n = len
  <2> HIDE DEF keys, len
  <2> QED BY <1>1, <1>3
<1>5. GetMessages(from, CatchUpLimit) = g
  BY DEF GetMessages
<1>6. ASSUME NEW k \in keys PROVE Cardinality(below(k)) = k - from
  <2>1. k \in from .. Top /\ k \in Int /\ k - 1 \in Int
    BY <1>1, <1>2
  <2>2. below(k) = from .. (k - 1)
    BY <1>1, <1>2, <2>1
  <2>3. Cardinality(from .. (k - 1)) = IF from > k - 1 THEN 0 ELSE (k - 1) - from + 1
    BY <2>1, FS_Interval
  <2>4. from <= k /\ ~(from > k - 1) => (k - 1) - from + 1 = k - from
    BY <2>1
  <2>5. from <= k /\ (from > k - 1 => k - from = 0)
    BY <2>1
  <2> HIDE DEF below, keys
  <2> QED BY <2>2, <2>3, <2>4, <2>5
<1>7. ASSUME NEW i \in 1 .. len PROVE nth(i) = from + i - 1 /\ nth(i) \in keys
  <2>1. from + i - 1 \in keys
    BY <1>1, <1>2
  <2>2. ASSUME NEW k \in keys PROVE Cardinality(below(k)) = i - 1 <=> k = from + i - 1
    <3>1. k \in Int /\ i \in Int
      BY <1>1, <1>2
    <3> QED BY <1>6, <3>1
  <2> HIDE DEF below, keys
  <2>3. \E k \in keys : Cardinality(below(k)) = i - 1
    BY <2>1, <2>2
  <2> QED BY <2>2, <2>3
<1>8. ASSUME NEW i \in DOMAIN g PROVE Stored(g[i]) /\ g[i].seq = from + i - 1
  <2>1. i \in 1 .. len
    BY <1>4
  <2>2. g[i].seq = nth(i) /\ g[i].msg = msgs[nth(i)] /\ nth(i) \in DOMAIN msgs
    <3>1. nth(i) \in keys
      BY <1>7, <2>1
    <3> HIDE DEF nth
    <3> QED BY <3>1
  <2> HIDE DEF g
  <2> QED BY <1>7, <2>1, <2>2 DEF Stored
<1>9. g \in Seq(Entry)
  BY <1>1, <1>5, Fetched
<1>10. Len(g) = len
  <2>1. g = [i \in 1 .. n |-> g[i]]
    OBVIOUS
  <2>2. DOMAIN g = 1 .. len
    BY <1>4
  <2> HIDE DEF g, n, len
  <2> QED BY <1>3, <1>9, <2>2
<1> QED BY <1>5, <1>8, <1>9, <1>10

\* A channel begins where it did unless its reader takes a message or it is opened.
LEMMA SteadyStep ==
    ASSUME Dependable, DTypeInv, StoreInv, QueueInv, Continues, [DNext]_allVars, ~DRestart,
           NEW k \in Subs, ~LiveRecv(k),
           \A s \in Sessions, q \in QoSs[k] : ~HandleSubscribe(s, k, q)
    PROVE  Steady(k)
<1>t. TypeOK /\ \A s \in Sessions : sub[s] = NoSub \/ sub[s] \in Subs
  BY Groups DEF ReadOK
<1>1. ~Purge /\ \A p \in Publishers : Publish(p) => CalmPublish(p)
  BY <1>t, CalmPublishing
<1>2. ASSUME UNCHANGED vars PROVE Steady(k)
  BY <1>2 DEF Continues
<1>3. ASSUME NEW p \in Publishers, Publish(p) PROVE Steady(k)
  BY <1>1, <1>3 DEF Continues
<1>4. ASSUME NEW s \in Sessions, SwapSub(s) \/ HandleUnsubscribe(s) \/ Cleanup(s)
      PROVE  Steady(k)
  <2>1. UNCHANGED vars \/ (sub[s] # NoSub /\ Unsubscribe(sub[s]))
    BY <1>4 DEF SwapSub, HandleUnsubscribe, Cleanup, topicVars
  <2>2. CASE sub[s] # NoSub /\ Unsubscribe(sub[s])
    BY <1>t, <2>2 DEF Continues
  <2> QED BY <1>2, <2>1, <2>2
<1>5. ASSUME NEW s \in Sessions, NEW j \in Subs, NEW q \in QoSs[j], HandleSubscribe(s, j, q)
      PROVE  Steady(k)
  <2>1. Subscribe(j) /\ j # k
    BY <1>5 DEF HandleSubscribe
  <2> QED BY <2>1 DEF Continues
<1>6. ASSUME NEW j \in Subs, LiveRecv(j) PROVE Steady(k)
  <2>1. Recv(j) /\ j # k
    BY <1>6 DEF LiveRecv
  <2> QED BY <2>1 DEF Continues
<1>7. ASSUME NEW s \in Sessions,
             \/ FetchCatchUp(s) \/ DeliverCatchUp(s) \/ CatchUpSetOffset(s) \/ SubscribeFails(s)
             \/ StartLive(s) \/ HandlePubAck(s) \/ ReadError(s) \/ RetransmitWrite(s)
             \/ Connect(s) \/ Cut(s) \/ ClientRecv(s) \/ Kick(s)
             \/ (\E pid \in DOMAIN inflight[s] : RetransmitPick(s, pid))
      PROVE  UNCHANGED vars
  BY <1>7 DEF FetchCatchUp, DeliverCatchUp, CatchUpSetOffset, SubscribeFails, StartLive,
       HandlePubAck, ReadError, RetransmitWrite, Connect, Cut, ClientRecv, Kick,
       RetransmitPick, topicVars
<1>8. ASSUME NEW j \in Subs,
             LiveDeliver(j) \/ LiveSetOffset(j) \/ LiveDeliverFails(j) \/ LiveExit(j)
      PROVE  UNCHANGED vars
  BY <1>8 DEF LiveDeliver, LiveSetOffset, LiveDeliverFails, LiveExit, topicVars
<1>9. UNCHANGED allVars => UNCHANGED vars
  BY DEF allVars, topicVars
<1> HIDE DEF Steady
<1> QED BY <1>1, <1>2, <1>3, <1>4, <1>5, <1>6, <1>7, <1>8, <1>9
        DEF DNext, Broker, ClientAsks, Goroutine, DPurge

\* The fetch starts behind the offset and ends where the channel begins or later; each
\* delivery moves the client one message on.
LEMMA CatchUpKept ==
    ASSUME Dependable, DTypeInv, DTypeInv', OrderInv, SessionInv', Continues, [DNext]_allVars,
           \A e \in Entry : Stored(e) => Stored(e)',
           \A s \in Sessions, n \in Int : link'[s] = "up" /\ Reach(s, n) => Reach(s, n)'
    PROVE  CatchUpInv'
<1>o. StoreInv /\ QueueInv /\ ClientInv /\ SessionInv /\ CatchUpInv /\ LiveInv
  BY DEF OrderInv
<1>t. /\ ReadOK /\ ChanOK /\ LiveOK /\ FlyOK /\ WireOK /\ HandlerInv /\ TypeOK
      /\ NoSession \notin Sessions
  BY Groups, SessionAssumption
<1> SUFFICES ASSUME NEW t \in Sessions, link'[t] = "up", st'[t] = "catchup"
             PROVE  CatchUpAt(t)'
  BY DEF CatchUpInv
<1>r. ~DRestart
  BY DEF DRestart
\* The channel of the handler begins where it did.
<1>s. ASSUME NEW k \in Subs, k = cur[t], k = cur'[t], st[t] \in Subscribing
      PROVE  /\ First(k)' = First(k) /\ First(k) \in Nat /\ k \in subs
             /\ First(k) + Len(ch[k]) = Coming(k)
  <2>1. owner[k] = t /\ live[k] = "none" /\ k \in subs /\ k \in subs'
    <3>1. (k \in subs)'
      BY <1>s DEF SessionInv, Subscribing
    <3>2. cur[t] \in subs /\ live[cur[t]] = "none" /\ owner[cur[t]] = t
      BY <1>o, <1>s, <1>t DEF HandlerInv, SessionInv
    <3> QED BY <1>s, <3>1, <3>2
  <2>2. ~LiveRecv(k) /\ \A s \in Sessions, q \in QoSs[k] : ~HandleSubscribe(s, k, q)
    BY <1>t, <2>1 DEF LiveRecv, HandleSubscribe
  <2>3. Steady(k)
    BY <1>o, <1>r, <2>2, SteadyStep
  <2>4. First(k)' = First(k)
    BY <2>1, <2>3 DEF Steady, Pending
  <2> QED BY <1>o, <1>t, <2>1, <2>4, FirstNumber DEF QueueInv
\* What has to be shown of the backlog.
<1>b. ASSUME NEW k \in Subs, NEW b \in Seq(Entry), NEW f \in Nat, k = cur'[t], b = backlog'[t],
             First(k)' = f,
             b = <<>> => Reach(t, f - 1)',
             b # <<>> => /\ Reach(t, b[1].seq - 1)' /\ f <= b[Len(b)].seq + 1
                         /\ \A i \in DOMAIN b : Stored(b[i]) /\ b[i].seq = b[1].seq + i - 1
      PROVE  CatchUpAt(t)'
  <2>1. ASSUME NEW i \in DOMAIN b, b # <<>> PROVE Stored(b[i])' /\ b[i].seq = b[1].seq + i - 1
    <3>1. b[i] \in Entry
      <4> HIDE DEF Entry
      <4> QED OBVIOUS
    <3> QED BY <1>b, <2>1, <3>1
  <2>2. CASE b = <<>>
    BY <1>b, <2>2 DEF CatchUpAt
  <2>3. CASE b # <<>>
    BY <1>b, <2>1, <2>3 DEF CatchUpAt
  <2> QED BY <2>2, <2>3
<1>0. ASSUME link[t] = "up", st[t] = "catchup", cur'[t] = cur[t], backlog'[t] = backlog[t]
      PROVE  CatchUpAt(t)'
  <2>0. PICK k \in Subs, b \in Seq(Entry) : k = cur[t] /\ b = backlog[t]
    BY <1>0, <1>t DEF HandlerInv, ReadOK, Subscribing
  <2>1. PICK f : k = cur[t] /\ b = backlog[t] /\ f = First(k)
    BY <2>0
  <2>2. First(k)' = f /\ f \in Nat
    BY <1>0, <1>s, <2>1 DEF Subscribing
  <2>3. IF b = <<>> THEN Reach(t, f - 1)
        ELSE /\ Reach(t, b[1].seq - 1) /\ f <= b[Len(b)].seq + 1
             /\ \A i \in DOMAIN b : Stored(b[i]) /\ b[i].seq = b[1].seq + i - 1
    BY <1>0, <1>o, <2>1 DEF CatchUpInv, CatchUpAt
  <2>4. b # <<>> => b[1].seq - 1 \in Int
    <3>1. b # <<>> => b[1] \in Entry
      <4> HIDE DEF Entry
      <4> QED OBVIOUS
    <3> QED BY <3>1, EntryFields
  <2>5. /\ b = <<>> => Reach(t, f - 1)'
        /\ b # <<>> => Reach(t, b[1].seq - 1)'
    BY <2>2, <2>3, <2>4
  <2> QED BY <1>0, <1>b, <2>1, <2>2, <2>3, <2>5
<1>1. ASSUME FetchCatchUp(t) PROVE CatchUpAt(t)'
  <2>0. PICK c, o : c = ClientOf[t] /\ o = off[c]
    OBVIOUS
  <2>1. /\ st[t] = "fetch" /\ cur'[t] = cur[t]
        /\ backlog'[t] = IF o < seq THEN GetMessages(o + 1, CatchUpLimit) ELSE <<>>
    BY <1>1, <1>t, <2>0 DEF FetchCatchUp, CatchUp, Dependable, ReadOK
  <2>2. c \in Clients /\ o \in Nat /\ Got(c) \in Nat /\ o <= Got(c)
    BY <1>o, <2>0, Groups, SessionAssumption DEF OffOK, SeenOK, Got, ClientInv
  <2>k. PICK k \in Subs : k = cur[t]
    BY <1>t, <2>1 DEF HandlerInv, Subscribing
  <2>3. PICK f : k = cur[t] /\ f = First(k)
    BY <2>k
  <2>4. First(k)' = f /\ f \in Nat /\ k \in subs /\ f + Len(ch[k]) = Coming(k)
    BY <1>s, <2>1, <2>3 DEF Subscribing
  <2>5. seq \in Nat /\ Top \in Int /\ Top <= seq /\ f <= Top + 1
    <3>1. Coming(k) \in Nat /\ Len(ch[k]) \in Nat /\ seq \in Nat
      BY <1>o, <1>t, FirstNumber DEF TypeOK
    <3>2. Top \in Int /\ Top <= seq /\ Coming(k) <= Top + 1
      BY <3>1 DEF Top, Coming, Unsent
    <3> QED BY <2>4, <3>1, <3>2
  <2>6. ASSUME NEW n \in Int, n <= o PROVE Reach(t, n)'
    <3>1. Reach(t, n)
      BY <2>0, <2>2, <2>6 DEF Reach, Covered
    <3> QED BY <3>1
  <2>7. ASSUME backlog'[t] = <<>>, Top <= o PROVE CatchUpAt(t)'
    <3>1. f - 1 \in Int /\ f - 1 <= o
      BY <2>2, <2>4, <2>5, <2>7
    <3>2. Reach(t, f - 1)'
      BY <2>6, <3>1
    <3>3. <<>> \in Seq(Entry)
      OBVIOUS
    <3> QED BY <1>b, <2>1, <2>3, <2>4, <2>7, <3>2, <3>3
  <2>8. CASE ~(o < seq)
    <3>1. Top <= o /\ backlog'[t] = <<>>
      BY <2>1, <2>2, <2>5, <2>8
    <3> QED BY <2>7, <3>1
  <2>9. CASE o < seq
    <3>1. PICK b : b = GetMessages(o + 1, CatchUpLimit)
      OBVIOUS
    <3>2. /\ b \in Seq(Entry) /\ Len(b) = IF o + 1 > Top THEN 0 ELSE Top - (o + 1) + 1
          /\ \A i \in DOMAIN b : Stored(b[i]) /\ b[i].seq = (o + 1) + i - 1
      <4>1. o + 1 \in Nat \ {0}
        BY <2>2
      <4> QED BY <1>o, <3>1, <4>1, FetchedAll
    <3>3. backlog'[t] = b
      BY <2>1, <2>9, <3>1
    <3>4. CASE o + 1 > Top
      <4>1. b = <<>>
        <5> HIDE DEF Entry
        <5> QED BY <3>2, <3>4
      <4>2. Top <= o
        BY <2>2, <2>5, <3>4
      <4> QED BY <2>7, <3>3, <4>1, <4>2
    <3>5. CASE ~(o + 1 > Top)
      <4>1. Len(b) = Top - o /\ Top - o >= 1
        BY <2>2, <2>5, <3>2, <3>5
      <4>2. b # <<>> /\ 1 \in DOMAIN b /\ Len(b) \in DOMAIN b
        <5> HIDE DEF Entry
        <5> QED BY <2>2, <2>5, <3>2, <4>1
      <4>3. b[1].seq = o + 1 /\ b[Len(b)].seq = Top
        <5>1. b[1].seq = (o + 1) + 1 - 1 /\ b[Len(b)].seq = (o + 1) + Len(b) - 1
          BY <3>2, <4>2
        <5> QED BY <2>2, <2>5, <4>1, <5>1
      <4>4. \A i \in DOMAIN b : Stored(b[i]) /\ b[i].seq = b[1].seq + i - 1
        BY <3>2, <4>3
      <4>5. b[1].seq - 1 \in Int /\ b[1].seq - 1 <= o
        BY <2>2, <4>3
      <4>6. Reach(t, b[1].seq - 1)'
        BY <2>6, <4>5
      <4>7. f <= b[Len(b)].seq + 1
        BY <2>5, <4>3
      <4> QED BY <1>b, <2>1, <2>3, <2>4, <3>2, <3>3, <4>2, <4>4, <4>6, <4>7
    <3> QED BY <3>4, <3>5
  <2> QED BY <2>8, <2>9
<1>2. ASSUME DeliverCatchUp(t) PROVE CatchUpAt(t)'
  <2>0. PICK k \in Subs, b \in Seq(Entry) : k = cur[t] /\ b = backlog[t]
    BY <1>2, <1>t DEF DeliverCatchUp, HandlerInv, ReadOK, Subscribing
  <2>1. PICK f : k = cur[t] /\ b = backlog[t] /\ f = First(k)
    BY <2>0
  <2>2. st[t] = "catchup" /\ b # <<>> /\ cur'[t] = cur[t] /\ link[t] = "up"
    BY <1>2, <2>1 DEF DeliverCatchUp
  <2>3. First(k)' = f /\ f \in Nat
    BY <1>s, <2>1, <2>2 DEF Subscribing
  <2>4. PICK e, r : e = Head(b) /\ r = Tail(b)
    OBVIOUS
  <2>5. /\ e \in Entry /\ Written(t, [pid |-> nextPid[t], entry |-> e])
        /\ backlog' = [backlog EXCEPT ![t] = r]
    BY <1>2, <1>o, <2>1, <2>4, Delivered
  <2>6. backlog'[t] = r
    BY <1>t, <2>5 DEF ReadOK
  <2>7. Reach(t, e.seq)'
    <3>1. PICK p : p = [pid |-> nextPid[t], entry |-> e]
      OBVIOUS
    <3>2. p \in Packet /\ Written(t, p) /\ p.entry = e
      BY <2>5, <3>1 DEF Written
    <3> QED BY <2>2, <3>2, WrittenReach
  <2>8. /\ f <= b[Len(b)].seq + 1
        /\ \A i \in DOMAIN b : Stored(b[i]) /\ b[i].seq = b[1].seq + i - 1
    BY <1>o, <2>1, <2>2 DEF CatchUpInv, CatchUpAt
  <2>9. /\ r \in Seq(Entry) /\ Len(r) = Len(b) - 1 /\ Len(b) \in Nat /\ Len(b) >= 1
        /\ e = b[1] /\ \A i \in DOMAIN r : i + 1 \in DOMAIN b /\ r[i] = b[i + 1]
    <3> HIDE DEF Entry
    <3> QED BY <2>2, <2>4, TailEntries
  <2>10. e.seq \in Nat
    BY <2>5, EntryFields
  <2>11. CASE r = <<>>
    <3>1. Len(b) = 1
      BY <2>9, <2>11
    <3>2. f - 1 \in Int /\ f - 1 <= e.seq /\ e.seq \in Int
      BY <2>3, <2>8, <2>9, <2>10, <3>1
    <3>3. Reach(t, f - 1)'
      BY <2>7, <3>2, ReachLess
    <3> QED BY <1>b, <2>1, <2>2, <2>3, <2>6, <2>9, <2>11, <3>3
  <2>12. CASE r # <<>>
    <3>1. 1 \in DOMAIN r /\ Len(r) \in DOMAIN r /\ DOMAIN r \subseteq Int
      <4> HIDE DEF Entry
      <4> QED BY <2>9, <2>12
    <3>2. 2 \in DOMAIN b /\ r[1] = b[2] /\ r[Len(r)] = b[Len(b)]
      BY <2>9, <3>1
    <3>3. r[1].seq = e.seq + 1
      <4>1. b[2].seq = b[1].seq + 2 - 1
        BY <2>8, <3>2
      <4> QED BY <2>9, <2>10, <3>2, <4>1
    <3>4. r[1].seq - 1 = e.seq /\ f <= r[Len(r)].seq + 1
      BY <2>8, <2>10, <3>2, <3>3
    <3>5. ASSUME NEW i \in DOMAIN r PROVE Stored(r[i]) /\ r[i].seq = r[1].seq + i - 1
      <4>1. i + 1 \in DOMAIN b /\ r[i] = b[i + 1] /\ i \in Int
        BY <2>9, <3>1
      <4>2. Stored(r[i]) /\ r[i].seq = e.seq + (i + 1) - 1
        BY <2>8, <2>9, <4>1
      <4> QED BY <2>10, <3>3, <4>1, <4>2
    <3>6. Reach(t, r[1].seq - 1)'
      BY <2>7, <3>4
    <3> QED BY <1>b, <2>1, <2>2, <2>3, <2>6, <2>9, <2>12, <3>4, <3>5, <3>6
  <2> QED BY <2>11, <2>12
\* No other step begins or advances a catch-up.
<1> DEFINE Same == /\ link[t] = "up" /\ st[t] = "catchup"
                   /\ cur'[t] = cur[t] /\ backlog'[t] = backlog[t]
<1> USE DEF readVars, wireVars
<1>3. ASSUME NEW s \in Sessions,
             \/ SwapSub(s) \/ SubscribeFails(s) \/ StartLive(s) \/ HandlePubAck(s) \/ ReadError(s)
             \/ Cleanup(s) \/ RetransmitWrite(s) \/ ClientRecv(s) \/ HandleUnsubscribe(s)
             \/ (\E k \in Subs : \E q \in QoSs[k] : HandleSubscribe(s, k, q))
             \/ (\E pid \in DOMAIN inflight[s] : RetransmitPick(s, pid))
      PROVE  Same
  BY <1>3, <1>t DEF SwapSub, SubscribeFails, StartLive, HandlePubAck, ReadError, Cleanup,
       RetransmitWrite, ClientRecv, HandleUnsubscribe, HandleSubscribe, RetransmitPick,
       ReadOK, WireOK
<1>4. ASSUME NEW s \in Sessions, Connect(s) \/ Cut(s) \/ Kick(s) PROVE Same
  BY <1>4, <1>t DEF Connect, Cut, Kick, ReadOK, WireOK
<1>5. ASSUME NEW s \in Sessions, CatchUpSetOffset(s) PROVE FALSE
  BY <1>5, <1>o DEF CatchUpSetOffset, SessionInv
<1>6. ASSUME NEW s \in Sessions, s # t, FetchCatchUp(s) PROVE Same
  BY <1>6, <1>t DEF FetchCatchUp, ReadOK
<1>7. ASSUME NEW s \in Sessions, s # t, DeliverCatchUp(s) PROVE Same
  BY <1>7, <1>t DEF DeliverCatchUp, ReadOK
<1>8. ASSUME NEW k \in Subs, Goroutine(k) PROVE Same
  BY <1>8 DEF Goroutine, LiveRecv, LiveDeliver, LiveSetOffset, LiveDeliverFails, LiveExit
<1>9. UNCHANGED sessVars \/ UNCHANGED allVars => Same
  BY DEF sessVars, allVars
<1>10. Same => CatchUpAt(t)'
  BY <1>0
<1> HIDE DEF Same
<1> QED BY <1>1, <1>2, <1>3, <1>4, <1>5, <1>6, <1>7, <1>8, <1>9, <1>10, <1>r
        DEF DNext, Broker, ClientAsks, DPurge

\* The delivery goroutine takes the messages of its channel one by one, and leaves out only
\* those the client already has.
LEMMA LiveKept ==
    ASSUME Dependable, DTypeInv, OrderInv, Continues, [DNext]_allVars,
           \A e \in Entry : Stored(e) => Stored(e)',
           \A s \in Sessions, n \in Int : link'[s] = "up" /\ Reach(s, n) => Reach(s, n)'
    PROVE  LiveInv'
<1>o. StoreInv /\ QueueInv /\ ClientInv /\ SessionInv /\ CatchUpInv /\ LiveInv
  BY DEF OrderInv
<1>t. /\ ReadOK /\ ChanOK /\ LiveOK /\ FlyOK /\ WireOK /\ HandlerInv /\ TypeOK
      /\ NoSession \notin Sessions
  BY Groups, SessionAssumption
<1> SUFFICES ASSUME NEW k \in Subs, owner'[k] \in Sessions, link'[owner'[k]] = "up"
             PROVE  LiveAt(k)'
  BY DEF LiveInv
<1>r. ~DRestart
  BY DEF DRestart
<1>1. PICK s \in Sessions : s = owner'[k] /\ link'[s] = "up"
  OBVIOUS
<1>f. First(k) \in Nat /\ First(k) - 1 \in Int
  BY <1>o, <1>t, FirstNumber
<1>v. live'[k] \notin {"recv", "deliver"} => LiveAt(k)'
  BY DEF LiveAt
\* The goroutine goes on to receive, or takes a message.
<1>a. ASSUME NEW n \in Int, Reach(s, n)', live'[k] = "recv", Pending(k)' => First(k)' - 1 = n
      PROVE  LiveAt(k)'
  BY <1>1, <1>a DEF LiveAt
<1>b. ASSUME NEW e \in Entry, Stored(e), Reach(s, e.seq - 1), live'[k] = "deliver", hold'[k] = e,
             Pending(k)' => First(k)' = e.seq + 1
      PROVE  LiveAt(k)'
  <2>1. e.seq - 1 \in Int
    BY EntryFields
  <2>2. Stored(e)' /\ Reach(s, e.seq - 1)'
    BY <1>1, <1>b, <2>1
  <2> QED BY <1>1, <1>b, <2>2 DEF LiveAt
\* A step that is not about this goroutine.
<1>0. ASSUME owner[k] = s, link[s] = "up", live'[k] = live[k], hold'[k] = hold[k], Steady(k)
      PROVE  LiveAt(k)'
  <2>1. LiveAt(k)
    BY <1>0, <1>1, <1>o DEF LiveInv
  <2>2. CASE live[k] = "recv"
    <3>1. CASE ~Pending(k)'
      BY <1>0, <2>2, <3>1 DEF LiveAt
    <3>2. CASE Pending(k)'
      <4>1. PICK f : f = First(k)
        OBVIOUS
      <4>2. Pending(k) /\ First(k)' = f /\ f - 1 \in Int
        BY <1>0, <1>f, <3>2, <4>1 DEF Steady
      <4>3. Reach(s, f - 1)
        BY <1>0, <2>1, <2>2, <4>1, <4>2 DEF LiveAt
      <4>4. Reach(s, f - 1)'
        BY <1>1, <4>2, <4>3
      <4> QED BY <1>0, <1>a, <2>2, <4>2, <4>4
    <3> QED BY <3>1, <3>2
  <2>3. CASE live[k] = "deliver"
    <3>1. PICK e \in Entry : e = hold[k]
      BY <1>t, <2>3 DEF HandlerInv
    <3>2. Stored(e) /\ Reach(s, e.seq - 1) /\ (Pending(k) => First(k) = e.seq + 1)
      BY <1>0, <2>1, <2>3, <3>1 DEF LiveAt
    <3>3. Pending(k)' => First(k)' = e.seq + 1
      BY <1>0, <3>2 DEF Steady
    <3> QED BY <1>0, <1>b, <2>3, <3>1, <3>2, <3>3
  <2> QED BY <1>0, <1>v, <2>2, <2>3
<1> USE DEF liveVars, chanVars, wireVars
<1>2. ASSUME LiveRecv(k) PROVE LiveAt(k)'
  <2>1. /\ live[k] = "recv" /\ ch[k] # <<>> /\ Recv(k) /\ UNCHANGED <<owner, link>>
        /\ \/ Head(ch[k]).seq <= off[ClientOf[owner[k]]] /\ UNCHANGED live
           \/ live'[k] = "deliver" /\ hold'[k] = Head(ch[k])
    BY <1>2, <1>t DEF LiveRecv, LiveOK
  <2>2. owner[k] = s /\ link[s] = "up"
    BY <1>1, <2>1
  <2>3. PICK f : f = First(k)
    OBVIOUS
  <2>4. /\ f \in Nat /\ f - 1 \in Int /\ ch[k] \in Seq(Entry) /\ 1 \in DOMAIN ch[k]
        /\ f = ch[k][1].seq
    BY <1>f, <1>o, <1>t, <2>1, <2>3, FirstNumber
  <2>5. PICK e : e = ch[k][1]
    OBVIOUS
  <2>6. e \in Entry /\ e = Head(ch[k]) /\ e.seq = f /\ Stored(e)
    <3>1. Stored(e)
      BY <1>o, <2>4, <2>5 DEF QueueInv
    <3> HIDE DEF Entry
    <3> QED BY <2>4, <2>5, <3>1
  <2>7. Pending(k)' => First(k)' = f + 1
    BY <2>1, <2>3 DEF Continues
  <2>8. Reach(s, f - 1)
    BY <1>1, <1>o, <2>1, <2>2, <2>3 DEF LiveInv, LiveAt, Pending
  <2>9. CASE e.seq <= off[ClientOf[s]] /\ UNCHANGED live
    <3>1. PICK c \in Clients : c = ClientOf[s]
      BY SessionAssumption
    <3>2. off[c] \in Nat /\ Got(c) \in Nat /\ off[c] <= Got(c)
      BY <1>o, Groups DEF OffOK, SeenOK, Got, ClientInv
    <3>3. f <= Got(c)
      BY <2>4, <2>6, <2>9, <3>1, <3>2
    <3>4. Reach(s, f)
      BY <2>4, <3>1, <3>2, <3>3 DEF Reach, Covered
    <3>5. Reach(s, f)'
      BY <1>1, <2>4, <3>4
    <3>6. Pending(k)' => First(k)' - 1 = f
      BY <2>4, <2>7
    <3> QED BY <1>a, <2>1, <2>4, <2>9, <3>5, <3>6
  <2>10. CASE live'[k] = "deliver" /\ hold'[k] = Head(ch[k])
    BY <1>b, <2>6, <2>7, <2>8, <2>10
  <2> QED BY <2>1, <2>2, <2>6, <2>9, <2>10
<1>3. ASSUME NEW j \in Subs, NEW u \in Sessions, NEW q \in QoSs[j], HandleSubscribe(u, j, q), j = k
      PROVE  LiveAt(k)'
  <2>1. owner[k] = NoSession /\ UNCHANGED live
    BY <1>3 DEF HandleSubscribe
  <2>2. live'[k] = "none"
    BY <1>o, <2>1 DEF SessionInv
  <2> QED BY <1>v, <2>2
\* In all other steps the channel begins where it did.
<1>s. ASSUME ~LiveRecv(k), \A u \in Sessions, q \in QoSs[k] : ~HandleSubscribe(u, k, q)
      PROVE  Steady(k)
  BY <1>o, <1>r, <1>s, SteadyStep
<1>4. ASSUME LiveDeliver(k), Steady(k) PROVE LiveAt(k)'
  <2>1. live[k] = "deliver" /\ UNCHANGED <<owner, link>>
    BY <1>4 DEF LiveDeliver
  <2>2. owner[k] = s /\ link[s] = "up"
    BY <1>1, <2>1
  <2>3. PICK e : e = hold[k]
    OBVIOUS
  <2>4. /\ e \in Entry /\ Written(s, [pid |-> nextPid[s], entry |-> e])
        /\ live' = [live EXCEPT ![k] = "recv"]
    BY <1>4, <1>o, <2>2, <2>3, Delivered
  <2>5. Reach(s, e.seq)'
    <3>1. PICK p : p = [pid |-> nextPid[s], entry |-> e]
      OBVIOUS
    <3>2. p \in Packet /\ Written(s, p) /\ p.entry = e
      BY <2>4, <3>1 DEF Written
    <3> QED BY <2>2, <3>2, WrittenReach
  <2>6. e.seq \in Nat /\ live'[k] = "recv"
    BY <1>t, <2>4, EntryFields DEF LiveOK
  <2>7. Pending(k) => First(k) = e.seq + 1
    BY <1>o, <2>1, <2>2, <2>3 DEF LiveInv, LiveAt
  <2>8. Pending(k)' => First(k)' - 1 = e.seq
    BY <1>4, <2>6, <2>7 DEF Steady
  <2> QED BY <1>a, <2>5, <2>6, <2>8
<1>5. ASSUME NEW u \in Sessions, StartLive(u), cur[u] = k, Steady(k) PROVE LiveAt(k)'
  <2>1. /\ st[u] = "catchup" /\ backlog[u] = <<>> /\ UNCHANGED <<owner, link>>
        /\ live' = [live EXCEPT ![k] = "recv"]
    BY <1>5 DEF StartLive
  <2>2. owner[k] = u /\ u = s /\ link[s] = "up" /\ live'[k] = "recv"
    BY <1>1, <1>5, <1>t, <2>1 DEF HandlerInv, Subscribing, LiveOK
  <2>3. PICK f : f = First(k)
    OBVIOUS
  <2>4. Reach(s, f - 1)
    BY <1>5, <1>o, <2>1, <2>2, <2>3 DEF CatchUpInv, CatchUpAt
  <2>5. Reach(s, f - 1)'
    BY <1>1, <1>f, <2>3, <2>4
  <2>6. Pending(k)' => First(k)' - 1 = f - 1
    BY <1>5, <2>3 DEF Steady
  <2> QED BY <1>a, <1>f, <2>2, <2>3, <2>5, <2>6
<1>6. ASSUME LiveDeliverFails(k) \/ LiveExit(k) PROVE LiveAt(k)'
  <2>1. live'[k] = "done"
    BY <1>6, <1>t DEF LiveDeliverFails, LiveExit, LiveOK
  <2> QED BY <1>v, <2>1
<1> DEFINE Same == owner[k] = s /\ link[s] = "up" /\ live'[k] = live[k] /\ hold'[k] = hold[k]
<1>7. ASSUME NEW u \in Sessions, Connect(u) PROVE Same
  <2>1. /\ UNCHANGED <<owner, live, hold>> /\ st[u] = "new"
        /\ \A v \in Sessions : v # u => link'[v] = link[v]
    BY <1>7, <1>t DEF Connect, WireOK
  <2>2. owner[k] # u
    BY <1>o, <2>1 DEF SessionInv
  <2> QED BY <1>1, <2>1, <2>2
<1>8. ASSUME NEW u \in Sessions, Cut(u) \/ Kick(u) \/ Cleanup(u) PROVE Same
  <2>1. /\ UNCHANGED <<owner, live, hold>> /\ link'[u] # "up"
        /\ \A v \in Sessions : v # u => link'[v] = link[v]
    BY <1>8, <1>t DEF Cut, Kick, Cleanup, WireOK
  <2> QED BY <1>1, <2>1
<1>9. ASSUME NEW u \in Sessions, NEW j \in Subs, NEW q \in QoSs[j], HandleSubscribe(u, j, q), j # k
      PROVE  Same
  <2>1. UNCHANGED <<live, hold, link>> /\ owner'[k] = owner[k]
    BY <1>9, <1>t DEF HandleSubscribe, ChanOK
  <2> QED BY <1>1, <2>1
<1>10. ASSUME NEW u \in Sessions, StartLive(u), cur[u] # k PROVE Same
  <2>1. UNCHANGED <<owner, hold, link>> /\ live'[k] = live[k]
    BY <1>10, <1>t DEF StartLive, LiveOK
  <2> QED BY <1>1, <2>1
<1>11. ASSUME NEW j \in Subs, j # k,
              LiveRecv(j) \/ LiveDeliver(j) \/ LiveDeliverFails(j) \/ LiveExit(j)
       PROVE  Same
  <2>1. UNCHANGED <<owner, link>> /\ live'[k] = live[k] /\ hold'[k] = hold[k]
    BY <1>11, <1>t DEF LiveRecv, LiveDeliver, LiveDeliverFails, LiveExit, LiveOK
  <2> QED BY <1>1, <2>1
<1>12. ASSUME UNCHANGED <<owner, link, live, hold>> PROVE Same
  BY <1>1, <1>12
<1>13. ASSUME NEW u \in Sessions,
              \/ SwapSub(u) \/ FetchCatchUp(u) \/ DeliverCatchUp(u) \/ CatchUpSetOffset(u)
              \/ SubscribeFails(u) \/ HandlePubAck(u) \/ ReadError(u) \/ RetransmitWrite(u)
              \/ ClientRecv(u) \/ HandleUnsubscribe(u)
              \/ (\E pid \in DOMAIN inflight[u] : RetransmitPick(u, pid))
       PROVE  UNCHANGED <<owner, link, live, hold>>
  BY <1>13 DEF SwapSub, FetchCatchUp, DeliverCatchUp, CatchUpSetOffset, SubscribeFails,
       HandlePubAck, ReadError, RetransmitWrite, ClientRecv, HandleUnsubscribe, RetransmitPick
<1>14. UNCHANGED sessVars \/ UNCHANGED allVars => UNCHANGED <<owner, link, live, hold>>
  BY DEF sessVars, allVars
<1>15. \A j \in Subs : ~LiveSetOffset(j)
  BY <1>o DEF LiveSetOffset, SessionInv
<1>16. Same /\ Steady(k) => LiveAt(k)'
  BY <1>0
<1>17. CASE LiveRecv(k)
  BY <1>2, <1>17
<1>18. CASE \E u \in Sessions, q \in QoSs[k] : HandleSubscribe(u, k, q)
  BY <1>3, <1>18
<1>19. CASE ~LiveRecv(k) /\ \A u \in Sessions, q \in QoSs[k] : ~HandleSubscribe(u, k, q)
  <2>1. Steady(k)
    BY <1>s, <1>19
  <2> HIDE DEF Same, Steady
  <2> QED BY <1>4, <1>5, <1>6, <1>7, <1>8, <1>9, <1>10, <1>11, <1>12, <1>13, <1>14, <1>15, <1>16,
             <1>19, <1>r, <2>1
          DEF DNext, Broker, ClientAsks, Goroutine, DPurge
<1> QED BY <1>17, <1>18, <1>19

-----------------------------------------------------------------------------
(* The invariants together, and what they say of a client. *)

\* On an empty directory nothing is stored, sent or received.
LEMMA OrderInit == ASSUME DInit PROVE OrderInv
<1>1. /\ seq = 0 /\ dbSeq = 0 /\ DOMAIN msgs = {} /\ purge = "idle" /\ subs = {}
      /\ \A k \in Subs : ch[k] = <<>> /\ owner[k] = NoSession /\ live[k] = "none"
      /\ \A p \in Publishers : pc[p] = "idle" /\ count[p] = 0
      /\ \A s \in Sessions : /\ st[s] = "new" /\ link[s] = "closed" /\ sub[s] = NoSub
                             /\ out[s] = <<>> /\ acks[s] = <<>> /\ DOMAIN inflight[s] = {}
                             /\ resend[s] = NoPacket
      /\ \A c \in Clients : rcvd[c] = <<>> /\ off[c] = 0 /\ dbOff[c] = 0
      /\ NoSession \notin Sessions /\ MaxPub \in Nat
  BY SessionAssumption, BoundsAssumption DEF DInit, Init
<1>2. StoreInv
  <2>1. Top = 0 /\ 1 .. 0 = {}
    BY <1>1 DEF Top
  <2> QED BY <1>1, <2>1 DEF StoreInv, Active
<1>3. QueueInv
  BY <1>1 DEF QueueInv
<1>4. ClientInv
  BY <1>1 DEF ClientInv, Got
<1>5. WireInv /\ AckInv
  BY <1>1 DEF WireInv, Orderly, AckInv, AckAt
<1>6. TableInv /\ CatchUpInv
  BY <1>1 DEF TableInv, CatchUpInv
<1>7. SessionInv /\ LiveInv
  BY <1>1 DEF SessionInv, LiveInv, Subscribing
<1> QED BY <1>2, <1>3, <1>4, <1>5, <1>6, <1>7 DEF OrderInv

\* Every step of the broker, a client or the process keeps the invariants. The type
\* invariant is needed on both sides of the step.
LEMMA OrderKept ==
    ASSUME Dependable, DTypeInv, DTypeInv', OrderInv, [DNext]_allVars
    PROVE  OrderInv'
<1>o. StoreInv /\ QueueInv /\ SessionInv
  BY DEF OrderInv
<1>t. TypeOK /\ TypeOK'
  BY DEF DTypeInv
<1>1. [CalmNext]_vars
  BY <1>o, <1>t, CalmStep
<1>2. StoreInv' /\ \A e \in Entry : Stored(e) => Stored(e)'
  BY <1>1, <1>o, <1>t, StoreKept
<1>3. QueueInv' /\ Continues
  BY <1>1, <1>2, <1>o, <1>t, QueueKept
<1>4. /\ WireInv'
      /\ \A c \in Clients : Got(c) \in Nat /\ Got(c)' \in Nat /\ Got(c) <= Got(c)'
      /\ \A s \in Sessions, n \in Int : link'[s] = "up" /\ Reach(s, n) => Reach(s, n)'
  BY <1>2, WireKept
<1>5. ClientInv'
  BY <1>2, <1>4, ClientKept
<1>6. AckInv'
  BY <1>4, AckKept
<1>7. TableInv'
  BY <1>2, <1>4, TableKept
<1>8. SessionInv'
  BY <1>o, SessionKept
<1>9. CatchUpInv'
  BY <1>2, <1>3, <1>4, <1>8, CatchUpKept
<1>10. LiveInv'
  BY <1>2, <1>3, <1>4, LiveKept
<1> QED BY <1>2, <1>3, <1>4, <1>5, <1>6, <1>7, <1>8, <1>9, <1>10 DEF OrderInv

\* So they hold in every state of every behaviour.
LEMMA OrderAlways ==
    ASSUME Dependable
    PROVE  DSpec => [](DTypeInv /\ OrderInv)
<1>1. DInit => DTypeInv /\ OrderInv
  BY DInitTypes, OrderInit
<1>2. DTypeInv /\ OrderInv /\ [DNext]_allVars => (DTypeInv /\ OrderInv)'
  <2> SUFFICES ASSUME DTypeInv, OrderInv, [DNext]_allVars PROVE DTypeInv' /\ OrderInv'
    OBVIOUS
  <2>1. DTypeInv'
    BY DTypeStep
  <2> QED BY <2>1, OrderKept
<1> QED BY <1>1, <1>2, PTL DEF DSpec

\* README.md:13, delivery at least once, for any number of clients, connections and
\* channels: with one publisher, QoS 1 and room for every message, whatever is stored at or
\* below a client's offset has reached the client. The offset only follows PUBACKs
\* (handlePubAck), possibly downwards, and a PUBACK answers a packet the client has read
\* after everything before it; so the broker, which never sends again what is at or below
\* the offset (handleSubscribe, the delivery goroutine), leaves nothing out.
THEOREM DeliveryOffsets ==
    ASSUME Dependable
    PROVE  DSpec => []OffsetSound
<1>1. DTypeInv /\ OrderInv => OffsetSound
  <2> SUFFICES ASSUME DTypeInv, OrderInv, NEW c \in Clients, NEW k \in DOMAIN msgs, k <= off[c]
               PROVE  [seq |-> k, msg |-> msgs[k]] \in Elems(rcvd[c])
    BY DEF OffsetSound
  <2>1. ClientInv /\ DOMAIN msgs = 1 .. Top
    BY DEF OrderInv, StoreInv
  <2>2. rcvd[c] \in Seq(Entry) /\ off[c] \in Nat /\ seq \in Nat
    BY Groups DEF SeenOK, OffOK, TypeOK
  <2>3. k \in Int /\ k >= 1
    BY <2>1, <2>2 DEF Top
  <2>4. Len(rcvd[c]) \in Nat /\ k <= Len(rcvd[c])
    BY <2>1, <2>2, <2>3 DEF ClientInv, Got
  <2>5. k \in DOMAIN rcvd[c] /\ rcvd[c][k] \in Entry
    <3> HIDE DEF Entry
    <3> QED BY <2>2, <2>3, <2>4
  <2>6. rcvd[c][k].seq = k /\ rcvd[c][k].msg = msgs[k]
    BY <2>1, <2>5 DEF ClientInv, Stored
  <2>7. rcvd[c][k] = [seq |-> k, msg |-> msgs[k]]
    BY <2>5, <2>6 DEF Entry
  <2> QED BY <2>5, <2>7 DEF Elems
<1> QED BY <1>1, OrderAlways, PTL

\* README.md:68, order per topic: under the same conditions a client sees new messages in
\* the order of seq, however catch-up, live delivery, retransmission, kicks, lost
\* connections and clean restarts interleave; in fact the i-th is number i.
THEOREM DeliveryOrder ==
    ASSUME Dependable
    PROVE  DSpec => []ConsumerOrder
<1>1. OrderInv => ConsumerOrder
  BY DEF OrderInv, ClientInv, ConsumerOrder
<1> QED BY <1>1, OrderAlways, PTL
=============================================================================
