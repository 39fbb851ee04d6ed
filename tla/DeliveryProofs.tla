--------------------------- MODULE DeliveryProofs ---------------------------
(***************************************************************************)
(* Theorems about Delivery, for any clients, connections, subscriptions,   *)
(* faults and bounds: a topic with its sessions is still a topic, and its  *)
(* sessions leave no subscriber behind.                                    *)
(***************************************************************************)
EXTENDS Delivery, TopicProofs, FiniteSetTheorems

-----------------------------------------------------------------------------
(* The inductive invariants. *)

\* Inside handleSubscribe, once the channel is open.
Subscribing == {"swap", "fetch", "catchup", "catchset"}

\* handleSubscribe works on a channel of its own session, and has a message in front
\* of it while it sets the offset; so does a delivery goroutine.
HandlerInv ==
    /\ \A s \in Sessions : st[s] \in Subscribing => cur[s] \in Subs /\ owner[cur[s]] = s
    /\ \A s \in Sessions : st[s] = "catchset" => backlog[s] # <<>>
    /\ \A k \in Subs : live[k] \in {"recv", "deliver", "setoff"} => owner[k] \in Sessions
    /\ \A k \in Subs : live[k] \in {"deliver", "setoff"} => hold[k] \in Entry

StoreFinite == IsFiniteSet(DOMAIN msgs)

DTypeInv ==
    /\ TypeOK /\ StoreFinite
    /\ DTypeOK /\ inflight = [s \in Sessions |-> inflight[s]]
    /\ HandlerInv

\* Every registered channel has a session, which has it in session.subs or is about to.
LeakInv == (\A k \in subs : owner[k] \in Sessions) /\ NoLeakedSubscriber

-----------------------------------------------------------------------------
(* A topic with sessions is a topic. *)

\* Every step of the sessions, the clients and the process is a step of the topic or
\* leaves it alone: Unsubscribe is only called for a registered channel.
LEMMA TopicStep ==
    ASSUME TypeOK, [DNext]_allVars
    PROVE  [Next]_vars
<1> USE DEF topicVars
<1>1. ASSUME NEW s \in Sessions, Unsubscribe(sub[s]) PROVE Next
  <2>1. sub[s] \in Subs
    BY <1>1 DEF Unsubscribe, TypeOK
  <2> QED BY <1>1, <2>1 DEF Next
<1>2. ASSUME NEW s \in Sessions, Broker(s) PROVE [Next]_vars
  <2>1. Unsubscribe(sub[s]) \/ UNCHANGED vars
    BY <1>2 DEF Broker, SwapSub, FetchCatchUp, DeliverCatchUp, CatchUpSetOffset, SubscribeFails,
                StartLive, HandlePubAck, ReadError, Cleanup, RetransmitWrite
  <2> QED BY <1>1, <2>1
<1>3. ASSUME NEW s \in Sessions, ClientAsks(s) PROVE [Next]_vars
  <2>1. Unsubscribe(sub[s]) \/ UNCHANGED vars \/ \E k \in Subs : Subscribe(k)
    BY <1>3 DEF ClientAsks, Connect, Cut, HandleUnsubscribe, HandleSubscribe
  <2> QED BY <1>1, <2>1 DEF Next
<1>4. ASSUME NEW s \in Sessions, ClientRecv(s) \/ Kick(s) PROVE UNCHANGED vars
  BY <1>4 DEF ClientRecv, Kick
<1>5. ASSUME NEW s \in Sessions, NEW pid, RetransmitPick(s, pid) PROVE UNCHANGED vars
  BY <1>5 DEF RetransmitPick
<1>6. ASSUME NEW k \in Subs, Goroutine(k) PROVE [Next]_vars
  <2>1. Recv(k) \/ UNCHANGED vars
    BY <1>6 DEF Goroutine, LiveRecv, LiveDeliver, LiveSetOffset, LiveDeliverFails, LiveExit
  <2> QED BY <2>1 DEF Next
<1>7. ASSUME DPurge \/ DRestart PROVE Next
  BY <1>7 DEF DPurge, DRestart, Next
<1>8. ASSUME UNCHANGED allVars PROVE UNCHANGED vars
  BY <1>8 DEF allVars
<1>9. ASSUME NEW p \in Publishers, Publish(p) PROVE Next
  BY <1>9 DEF Next
<1> QED BY <1>2, <1>3, <1>4, <1>5, <1>6, <1>7, <1>8, <1>9 DEF DNext

\* What the sessions do to a topic is something a topic does: every theorem about
\* Topic holds of the topic that sessions, clients and retransmissions work on.
THEOREM DeliveryImplementsTopic == DSpec => Spec
<1>1. DInit => Init
  BY DEF DInit
<1>2. Init => TypeOK
  BY SerialInit DEF SafetyInv
<1>3. TypeOK /\ [DNext]_allVars => [Next]_vars
  BY TopicStep
<1>4. TypeOK /\ [Next]_vars => TypeOK'
  BY TypeStep
<1> QED BY <1>1, <1>2, <1>3, <1>4, PTL DEF DSpec, Spec

-----------------------------------------------------------------------------
(* GetMessages. *)

\* The store stays finite: a publish adds one key, a purge removes some.
LEMMA StoreStep ==
    ASSUME StoreFinite, [Next]_vars
    PROVE  StoreFinite'
<1> USE DEF vars, memVars, dbVars, pubVars, histVars, purgeVars
<1>1. ASSUME NEW p \in Publishers, PersistMsg(p) PROVE StoreFinite'
  <2>1. DOMAIN msgs' = DOMAIN msgs \cup {my[p].seq}
    BY <1>1 DEF PersistMsg, Put
  <2> QED BY <2>1, FS_AddElement DEF StoreFinite
<1>2. ASSUME PurgeDelete PROVE StoreFinite'
  <2>1. DOMAIN msgs' \in SUBSET DOMAIN msgs
    BY <1>2 DEF PurgeDelete, Drop
  <2> QED BY <2>1, FS_Subset DEF StoreFinite
<1>3. ASSUME UNCHANGED msgs PROVE StoreFinite'
  BY <1>3 DEF StoreFinite
<1>4. (\E p \in Publishers : PersistMsg(p)) \/ PurgeDelete \/ UNCHANGED msgs
  BY DEF Next, Publish, Purge, AllocSeq, PersistMsgFails, PersistSeq, PersistSeqFails, FanBegin,
         FanSend, FanDrop, FanEnd, Subscribe, Unsubscribe, Recv, PurgeScan, PurgeScanFails,
         PurgeDeleteFails, PurgeReset, PurgePersist, Restart
<1> QED BY <1>1, <1>2, <1>3, <1>4

\* A finite set of numbers has an i-th one, counted from below.
LEMMA NthKey ==
    ASSUME NEW S \in SUBSET Nat, IsFiniteSet(S), NEW i \in 1 .. Cardinality(S)
    PROVE  \E k \in S : Cardinality({j \in S : j < k}) = i - 1
<1> DEFINE Slots == 1 .. Cardinality(S)
           Below(k) == {j \in S : j < k}
           Rank == [k \in S |-> Cardinality(Below(k)) + 1]
<1>1. Cardinality(S) \in Nat
  BY FS_CardinalityType
<1>2. \A k \in S : IsFiniteSet(Below(k)) /\ Cardinality(Below(k)) \in Nat /\ Rank[k] \in Slots
  <2> TAKE k \in S
  <2>1. IsFiniteSet(S \ {k}) /\ Cardinality(S \ {k}) = Cardinality(S) - 1
    BY FS_RemoveElement
  <2>2. Below(k) \in SUBSET (S \ {k})
    OBVIOUS
  <2>3. IsFiniteSet(Below(k)) /\ Cardinality(Below(k)) <= Cardinality(S \ {k})
    BY <2>1, <2>2, FS_Subset
  <2>4. Cardinality(Below(k)) \in Nat
    BY <2>3, FS_CardinalityType
  <2> QED BY <1>1, <2>1, <2>3, <2>4
<1>3. ASSUME NEW k \in S, NEW l \in S, k < l PROVE Rank[k] < Rank[l]
  <2>0. k \in Nat /\ l \in Nat /\ \A x \in S : x \in Nat
    OBVIOUS
  <2>1. Below(k) \in SUBSET Below(l) /\ Below(k) # Below(l)
    <3>1. \A x \in S : x < k => x < l
      BY <1>3, <2>0
    <3>2. k \in Below(l) /\ k \notin Below(k)
      BY <1>3, <2>0
    <3> QED BY <3>1, <3>2
  <2>2. /\ Cardinality(Below(k)) <= Cardinality(Below(l))
        /\ Cardinality(Below(k)) # Cardinality(Below(l))
    BY <1>2, <2>1, FS_Subset
  <2> QED BY <1>2, <2>2
<1>4. Rank \in [S -> Slots]
  BY <1>2
<1> HIDE DEF Rank
<1>5. Rank \in Injection(S, Slots)
  BY <1>3, <1>4 DEF Injection, IsInjective
<1>6. Rank \in Surjection(S, Slots)
  <2>1. IsFiniteSet(Slots) /\ Cardinality(Slots) = Cardinality(S)
    BY <1>1, FS_Interval
  <2> QED BY <1>5, <2>1, FS_Injection
<1>7. PICK k \in S : Rank[k] = i
  BY <1>6 DEF Surjection
<1>8. Cardinality(Below(k)) = i - 1
  BY <1>2, <1>7 DEF Rank
<1> QED BY <1>8

\* GetMessages returns stored messages from the given number on, in key order.
LEMMA Fetched ==
    ASSUME TypeOK, StoreFinite, NEW from \in Nat, NEW limit \in Nat
    PROVE  /\ GetMessages(from, limit) \in Seq(Entry)
           /\ \A i \in DOMAIN GetMessages(from, limit) :
                Stored(GetMessages(from, limit)[i]) /\ GetMessages(from, limit)[i].seq >= from
           /\ \A i, j \in DOMAIN GetMessages(from, limit) :
                i < j => GetMessages(from, limit)[i].seq < GetMessages(from, limit)[j].seq
<1> DEFINE keys == {k \in DOMAIN msgs : k >= from}
           below(k) == {j \in keys : j < k}
           nth(i) == CHOOSE k \in keys : Cardinality(below(k)) = i - 1
           n == IF Cardinality(keys) < limit THEN Cardinality(keys) ELSE limit
           g == [i \in 1 .. n |-> [seq |-> nth(i), msg |-> msgs[nth(i)]]]
<1>1. keys \in SUBSET Nat /\ IsFiniteSet(keys) /\ Cardinality(keys) \in Nat
  <2>1. keys \in SUBSET DOMAIN msgs /\ IsFiniteSet(DOMAIN msgs) /\ DOMAIN msgs \subseteq Nat
    BY DEF StoreFinite, TypeOK
  <2> QED BY <2>1, FS_Subset, FS_CardinalityType
<1>2. n \in Nat /\ n <= Cardinality(keys)
  BY <1>1
<1>3. g = GetMessages(from, limit)
  BY DEF GetMessages
<1> HIDE DEF keys, n
<1>4. ASSUME NEW i \in 1 .. n PROVE nth(i) \in keys /\ Cardinality(below(nth(i))) = i - 1
  <2>1. i \in 1 .. Cardinality(keys)
    BY <1>1, <1>2
  <2>2. \E k \in keys : Cardinality(below(k)) = i - 1
    BY <1>1, <2>1, NthKey
  <2> QED BY <2>2
<1> HIDE DEF nth
<1>5. ASSUME NEW i \in 1 .. n
      PROVE  /\ nth(i) \in Nat /\ nth(i) >= from /\ nth(i) \in DOMAIN msgs
             /\ msgs[nth(i)] \in Message
  BY <1>1, <1>4 DEF keys, TypeOK
<1>6. ASSUME NEW i \in 1 .. n PROVE g[i] = [seq |-> nth(i), msg |-> msgs[nth(i)]]
  OBVIOUS
<1>7. DOMAIN g = 1 .. n
  OBVIOUS
<1>8. ASSUME NEW i \in 1 .. n PROVE g[i] \in Entry /\ Stored(g[i]) /\ g[i].seq >= from
  BY <1>5, <1>6 DEF Entry, Stored
<1>9. g \in Seq(Entry)
  <2>1. g = [i \in 1 .. n |-> g[i]]
    OBVIOUS
  <2> HIDE DEF g
  <2> QED BY <1>2, <1>8, <2>1
<1>10. ASSUME NEW i \in 1 .. n, NEW j \in 1 .. n, i < j PROVE nth(i) < nth(j)
  <2>1. SUFFICES ASSUME nth(j) <= nth(i) PROVE FALSE
    BY <1>5
  <2>2. nth(i) \in Nat /\ nth(j) \in Nat /\ \A x \in keys : x \in Nat
    BY <1>1, <1>5
  <2>3. below(nth(j)) \in SUBSET below(nth(i)) /\ below(nth(i)) \in SUBSET keys
    BY <2>1, <2>2
  <2>4. Cardinality(below(nth(j))) <= Cardinality(below(nth(i)))
    <3>1. IsFiniteSet(below(nth(i)))
      BY <1>1, <2>3, FS_Subset
    <3> QED BY <2>3, <3>1, FS_Subset
  <2>5. j - 1 <= i - 1 /\ i \in Nat /\ j \in Nat
    BY <1>2, <1>4, <2>4
  <2> QED BY <1>10, <2>5
<1> HIDE DEF g
<1>11. \A i, j \in DOMAIN g : i < j => g[i].seq < g[j].seq
  BY <1>6, <1>7, <1>10
<1>12. \A i \in DOMAIN g : Stored(g[i]) /\ g[i].seq >= from
  BY <1>7, <1>8
<1> QED BY <1>3, <1>9, <1>11, <1>12

-----------------------------------------------------------------------------
(* Types. *)

ReadOK ==
    /\ st \in [Sessions -> {"new", "ready", "swap", "fetch", "catchup", "catchset",
                            "closing", "closed"}]
    /\ sub \in [Sessions -> Subs \cup {NoSub}] /\ cur \in [Sessions -> Subs \cup {NoSub}]
    /\ backlog \in [Sessions -> Seq(Entry)]
ChanOK == owner \in [Subs -> Sessions \cup {NoSession}] /\ qos \in [Subs -> {0, 1}]
LiveOK ==
    /\ live \in [Subs -> {"none", "recv", "deliver", "setoff", "done"}]
    /\ hold \in [Subs -> Entry \cup {NoEntry}]
FlyOK ==
    /\ nextPid \in [Sessions -> Nat \ {0}]
    /\ \A s \in Sessions : /\ DOMAIN inflight[s] \subseteq 1 .. nextPid[s] - 1
                           /\ \A i \in DOMAIN inflight[s] : inflight[s][i] \in Entry
    /\ inflight = [s \in Sessions |-> inflight[s]]
LoopOK == resend \in [Sessions -> Packet \cup {NoPacket}]
WireOK ==
    /\ link \in [Sessions -> {"up", "cut", "closed"}]
    /\ out \in [Sessions -> Seq(Packet)] /\ acks \in [Sessions -> Seq(Nat)]
OffOK == off \in [Clients -> Nat] /\ dbOff \in [Clients -> Nat]
SeenOK == rcvd \in [Clients -> Seq(Entry)] /\ sent0 \in [Clients -> SUBSET Message]

\* DTypeInv goroutine by goroutine, in the order of Delivery's groups of variables.
LEMMA Groups ==
    DTypeInv <=> /\ TypeOK /\ StoreFinite
                 /\ ReadOK /\ ChanOK /\ LiveOK /\ FlyOK /\ LoopOK /\ WireOK /\ OffOK /\ SeenOK
                 /\ HandlerInv
BY DEF DTypeInv, DTypeOK, ReadOK, ChanOK, LiveOK, FlyOK, LoopOK, WireOK, OffOK, SeenOK

\* A message is a packet's payload; its number is a natural number.
LEMMA EntryFields ==
    ASSUME NEW e \in Entry
    PROVE  /\ e.seq \in Nat /\ e.msg \in Message
           /\ \A i \in Nat : [pid |-> i, entry |-> e] \in Packet
BY DEF Entry, Packet

\* Track gives the message the next packet id.
LEMMA TrackOK ==
    ASSUME FlyOK, NEW s \in Sessions, NEW e \in Entry, Track(s, e)
    PROVE  FlyOK'
<1> DEFINE n == nextPid[s]
<1>1. n \in Nat \ {0} /\ nextPid' = [nextPid EXCEPT ![s] = n + 1]
  BY DEF FlyOK, Track
<1>2. inflight' = [inflight EXCEPT ![s] = Put(inflight[s], n, e)]
  BY DEF Track
<1>3. /\ inflight' = [t \in Sessions |-> IF t = s THEN Put(inflight[s], n, e) ELSE inflight[t]]
      /\ nextPid' = [t \in Sessions |-> IF t = s THEN n + 1 ELSE nextPid[t]]
  BY <1>1, <1>2 DEF FlyOK
<1>4. nextPid' \in [Sessions -> Nat \ {0}] /\ inflight' = [t \in Sessions |-> inflight'[t]]
  BY <1>1, <1>3 DEF FlyOK
<1>5. ASSUME NEW t \in Sessions
      PROVE  /\ DOMAIN inflight'[t] \subseteq 1 .. nextPid'[t] - 1
             /\ \A i \in DOMAIN inflight'[t] : inflight'[t][i] \in Entry
  <2>1. CASE t # s
    BY <1>3, <2>1 DEF FlyOK
  <2>2. CASE t = s
    <3>1. inflight'[s] = Put(inflight[s], n, e) /\ nextPid'[s] = n + 1
      BY <1>3
    <3>2. DOMAIN inflight'[s] = DOMAIN inflight[s] \cup {n}
      BY <3>1 DEF Put
    <3>3. \A i \in DOMAIN inflight'[s] : inflight'[s][i] \in Entry
      BY <3>1 DEF Put, FlyOK
    <3>4. DOMAIN inflight[s] \subseteq 1 .. n - 1
      BY DEF FlyOK
    <3> HIDE DEF n
    <3> QED BY <1>1, <2>2, <3>1, <3>2, <3>3, <3>4
  <2> QED BY <2>1, <2>2
<1> QED BY <1>4, <1>5 DEF FlyOK

\* What deliverMessage writes is a packet.
LEMMA SendOK ==
    ASSUME WireOK, NEW s \in Sessions, NEW p \in Packet, Send(s, p)
    PROVE  out' \in [Sessions -> Seq(Packet)]
<1>1. out \in [Sessions -> Seq(Packet)] /\ out[s] \in Seq(Packet)
  BY DEF WireOK
<1>2. Append(out[s], p) \in Seq(Packet)
  BY <1>1
<1> QED BY <1>1, <1>2 DEF Send

\* deliverMessage keeps the types when its write succeeds.
LEMMA WriteOK ==
    ASSUME FlyOK, WireOK, SeenOK, NEW s \in Sessions, NEW e \in Entry, NEW q,
           DeliverWrite(s, e, q), UNCHANGED <<link, acks, rcvd>>
    PROVE  FlyOK' /\ WireOK' /\ SeenOK'
<1>0. nextPid[s] \in Nat /\ ClientOf[s] \in Clients
  BY SessionAssumption DEF FlyOK
<1>1. CASE Track(s, e) /\ Send(s, [pid |-> nextPid[s], entry |-> e]) /\ UNCHANGED sent0
  <2>1. [pid |-> nextPid[s], entry |-> e] \in Packet
    BY <1>0, EntryFields
  <2>2. FlyOK'
    BY <1>1, TrackOK
  <2>3. out' \in [Sessions -> Seq(Packet)]
    BY <1>1, <2>1, SendOK
  <2> QED BY <1>1, <2>2, <2>3 DEF WireOK, SeenOK
<1>2. CASE /\ Send(s, [pid |-> 0, entry |-> e]) /\ UNCHANGED flyVars
           /\ sent0' = [sent0 EXCEPT ![ClientOf[s]] = @ \cup {e.msg}]
  <2>1. [pid |-> 0, entry |-> e] \in Packet /\ e.msg \in Message
    BY EntryFields
  <2>2. FlyOK'
    BY <1>2 DEF FlyOK, flyVars
  <2>3. out' \in [Sessions -> Seq(Packet)]
    BY <1>2, <2>1, SendOK
  <2>4. sent0' \in [Clients -> SUBSET Message]
    BY <1>0, <1>2, <2>1 DEF SeenOK
  <2> QED BY <2>2, <2>3, <2>4 DEF WireOK, SeenOK
<1> QED BY <1>1, <1>2 DEF DeliverWrite

\* It keeps them when the write fails.
LEMMA ErrorOK ==
    ASSUME FlyOK, NEW s \in Sessions, NEW e \in Entry, NEW q, DeliverError(s, e, q)
    PROVE  FlyOK'
<1>1. Track(s, e) \/ UNCHANGED flyVars
  BY DEF DeliverError
<1>2. UNCHANGED flyVars => FlyOK'
  BY DEF FlyOK, flyVars
<1> QED BY <1>1, <1>2, TrackOK

\* Offsets.Set.
LEMMA OffsetOK ==
    ASSUME OffOK, NEW s \in Sessions, NEW n \in Nat, SetOffset(ClientOf[s], n)
    PROVE  OffOK'
BY SessionAssumption DEF OffOK, SetOffset

\* The first element and the rest of a backlog or a wire.
LEMMA HeadTail ==
    ASSUME NEW P, NEW q \in Seq(P), q # << >>
    PROVE  Head(q) \in P /\ Tail(q) \in Seq(P)
OBVIOUS

\* A connection that is lost or closed keeps the first packets of what was on it.
LEMMA PrefixOK ==
    ASSUME NEW P, NEW q \in Seq(P), NEW x \in Prefixes(q)
    PROVE  x \in Seq(P)
<1>1. PICK n \in 0 .. Len(q) : x = SubSeq(q, 1, n)
  BY DEF Prefixes
<1> QED BY <1>1

\* Every step keeps the types.
LEMMA DTypeStep ==
    ASSUME DTypeInv, [DNext]_allVars
    PROVE  DTypeInv'
<1> DEFINE Busy == /\ \A s \in Sessions :
                        st[s] \in Subscribing => cur[s] \in Subs /\ owner[cur[s]] = s
                   /\ \A s \in Sessions : st[s] = "catchset" => backlog[s] # <<>>
           Held == /\ \A k \in Subs :
                        live[k] \in {"recv", "deliver", "setoff"} => owner[k] \in Sessions
                   /\ \A k \in Subs : live[k] \in {"deliver", "setoff"} => hold[k] \in Entry
<1>0. /\ ReadOK /\ ChanOK /\ LiveOK /\ FlyOK /\ LoopOK /\ WireOK /\ OffOK /\ SeenOK
      /\ Busy /\ Held /\ TypeOK /\ StoreFinite
  BY Groups DEF HandlerInv
<1>00. TypeOK' /\ StoreFinite'
  BY <1>0, TopicStep, TypeStep, StoreStep
<1> DEFINE AllOK == /\ ReadOK /\ ChanOK /\ LiveOK /\ FlyOK /\ LoopOK /\ WireOK /\ OffOK
                    /\ SeenOK /\ Busy /\ Held
<1> SUFFICES AllOK'
  <2>1. DTypeInv' <=> /\ TypeOK' /\ StoreFinite'
                      /\ ReadOK' /\ ChanOK' /\ LiveOK' /\ FlyOK' /\ LoopOK' /\ WireOK' /\ OffOK'
                      /\ SeenOK' /\ HandlerInv'
    BY Groups, PTL
  <2> QED BY <1>00, <2>1 DEF HandlerInv
<1>01. /\ UNCHANGED readVars => ReadOK'
       /\ UNCHANGED chanVars => ChanOK'
       /\ UNCHANGED liveVars => LiveOK'
       /\ UNCHANGED flyVars => FlyOK'
       /\ UNCHANGED resend => LoopOK'
       /\ UNCHANGED wireVars => WireOK'
       /\ UNCHANGED offVars => OffOK'
       /\ UNCHANGED seenVars => SeenOK'
       /\ UNCHANGED <<readVars, chanVars>> => Busy'
       /\ UNCHANGED <<liveVars, chanVars>> => Held'
  BY <1>0 DEF readVars, chanVars, liveVars, flyVars, wireVars, offVars, seenVars,
              ReadOK, ChanOK, LiveOK, FlyOK, LoopOK, WireOK, OffOK, SeenOK
<1>02. \A s \in Sessions : ClientOf[s] \in Clients
  BY SessionAssumption
<1>03. NoSub \notin Subs /\ NoSession \notin Sessions /\ \A k \in Subs : QoSs[k] \subseteq {0, 1}
  BY SessionAssumption
<1> HIDE DEF Busy, Held
<1> USE DEF readVars, chanVars, liveVars, flyVars, wireVars, offVars, seenVars, loopVars
<1>1. ASSUME NEW s \in Sessions, Connect(s) PROVE AllOK'
  <2>1. ReadOK'
    BY <1>0, <1>03, <1>1 DEF Connect, ReadOK
  <2>2. WireOK'
    BY <1>0, <1>03, <1>1 DEF Connect, WireOK
  <2>3. Busy'
    BY <1>0, <1>03, <1>1 DEF Connect, Busy, Subscribing, ReadOK, ChanOK
  <2> QED BY <1>0, <1>01, <1>1, <2>1, <2>2, <2>3 DEF Connect
<1>2. ASSUME NEW s \in Sessions, NEW k \in Subs, NEW q \in QoSs[k], HandleSubscribe(s, k, q)
      PROVE  AllOK'
  <2>1. ReadOK'
    BY <1>0, <1>03, <1>2 DEF HandleSubscribe, ReadOK
  <2>2. ChanOK'
    BY <1>0, <1>03, <1>2 DEF HandleSubscribe, ChanOK
  <2>3. Busy'
    BY <1>0, <1>03, <1>2 DEF HandleSubscribe, Busy, Subscribing, ReadOK, ChanOK
  <2>4. Held'
    BY <1>0, <1>03, <1>2 DEF HandleSubscribe, Held, LiveOK, ChanOK
  <2> QED BY <1>0, <1>01, <1>2, <2>1, <2>2, <2>3, <2>4 DEF HandleSubscribe
<1>3. ASSUME NEW s \in Sessions, SwapSub(s) PROVE AllOK'
  <2>1. ReadOK'
    BY <1>0, <1>03, <1>3 DEF SwapSub, ReadOK
  <2>2. Busy'
    BY <1>0, <1>03, <1>3 DEF SwapSub, Busy, Subscribing, ReadOK, ChanOK
  <2> QED BY <1>0, <1>01, <1>3, <2>1, <2>2 DEF SwapSub
<1>4. ASSUME NEW s \in Sessions, FetchCatchUp(s) PROVE AllOK'
  <2>1. CatchUp(s) \in Seq(Entry)
    <3>1. off[ClientOf[s]] \in Nat
      BY <1>0, <1>02 DEF OffOK
    <3>2. off[ClientOf[s]] + 1 \in Nat /\ CatchUpLimit \in Nat
      BY <3>1, DeliveryBounds
    <3>3. GetMessages(off[ClientOf[s]] + 1, CatchUpLimit) \in Seq(Entry)
      BY <1>0, <3>2, Fetched
    <3>4. <<>> \in Seq(Entry)
      OBVIOUS
    <3> QED BY <3>3, <3>4 DEF CatchUp
  <2>2. backlog' \in [Sessions -> Seq(Entry)]
    <3>1. PICK b : backlog' = [backlog EXCEPT ![s] = b] /\ (b = CatchUp(s) \/ b = <<>>)
      <4>1. PICK b \in {CatchUp(s)} \cup (IF "fetch" \in Faults THEN {<<>>} ELSE {}) :
                backlog' = [backlog EXCEPT ![s] = b]
        BY <1>4 DEF FetchCatchUp
      <4>2. b = CatchUp(s) \/ b = <<>>
        BY <4>1
      <4> QED BY <4>1, <4>2
    <3>2. b \in Seq(Entry)
      <4>1. <<>> \in Seq(Entry)
        OBVIOUS
      <4> QED BY <2>1, <3>1, <4>1
    <3> QED BY <1>0, <3>1, <3>2 DEF ReadOK
  <2>3. ReadOK' /\ Busy'
    BY <1>0, <1>4, <2>2 DEF FetchCatchUp, ReadOK, Busy, Subscribing
  <2> QED BY <1>0, <1>01, <1>4, <2>3 DEF FetchCatchUp
<1>5. ASSUME NEW s \in Sessions, DeliverCatchUp(s) PROVE AllOK'
  <2>1. Head(backlog[s]) \in Entry /\ Tail(backlog[s]) \in Seq(Entry)
    BY <1>0, <1>5, HeadTail DEF DeliverCatchUp, ReadOK
  <2>2. FlyOK' /\ WireOK' /\ SeenOK'
    BY <1>0, <1>5, <2>1, WriteOK DEF DeliverCatchUp
  <2>3. ReadOK'
    BY <1>0, <1>5, <2>1 DEF DeliverCatchUp, ReadOK
  <2>4. Busy'
    BY <1>0, <1>5 DEF DeliverCatchUp, ReadOK, Busy, Subscribing
  <2> QED BY <1>0, <1>01, <1>5, <2>2, <2>3, <2>4 DEF DeliverCatchUp
<1>6. ASSUME NEW s \in Sessions, CatchUpSetOffset(s) PROVE AllOK'
  <2>1. backlog[s] # <<>>
    BY <1>0, <1>6 DEF CatchUpSetOffset, Busy
  <2>2. Head(backlog[s]) \in Entry /\ Tail(backlog[s]) \in Seq(Entry)
    BY <1>0, <2>1, HeadTail DEF ReadOK
  <2>3. OffOK'
    BY <1>0, <1>6, <2>2, EntryFields, OffsetOK DEF CatchUpSetOffset
  <2>4. ReadOK' /\ Busy'
    BY <1>0, <1>6, <2>2 DEF CatchUpSetOffset, ReadOK, Busy, Subscribing
  <2> QED BY <1>0, <1>01, <1>6, <2>3, <2>4 DEF CatchUpSetOffset
<1>7. ASSUME NEW s \in Sessions, SubscribeFails(s) PROVE AllOK'
  <2>1. FlyOK'
    <3>1. CASE UNCHANGED flyVars
      BY <1>01, <3>1
    <3>2. CASE backlog[s] # <<>> /\ DeliverError(s, Head(backlog[s]), qos[cur[s]])
      <4>1. Head(backlog[s]) \in Entry
        BY <1>0, <3>2, HeadTail DEF ReadOK
      <4> QED BY <1>0, <3>2, <4>1, ErrorOK
    <3> QED BY <1>7, <3>1, <3>2 DEF SubscribeFails
  <2>2. ReadOK' /\ Busy'
    BY <1>0, <1>7 DEF SubscribeFails, ReadOK, Busy, Subscribing
  <2> QED BY <1>0, <1>01, <1>7, <2>1, <2>2 DEF SubscribeFails
<1>8. ASSUME NEW s \in Sessions, StartLive(s) PROVE AllOK'
  <2>1. cur[s] \in Subs /\ owner[cur[s]] = s
    BY <1>0, <1>8 DEF StartLive, Busy, Subscribing
  <2>2. ReadOK' /\ Busy'
    BY <1>0, <1>8 DEF StartLive, Busy, Subscribing, ReadOK
  <2>3. LiveOK'
    BY <1>0, <1>8, <2>1 DEF StartLive, LiveOK
  <2>4. Held'
    BY <1>0, <1>8, <2>1 DEF StartLive, Held, LiveOK
  <2> QED BY <1>0, <1>01, <1>8, <2>2, <2>3, <2>4 DEF StartLive
<1>9. ASSUME NEW s \in Sessions, HandleUnsubscribe(s) PROVE AllOK'
  <2>1. ReadOK'
    BY <1>0, <1>03, <1>9 DEF HandleUnsubscribe, ReadOK
  <2>2. Busy'
    BY <1>0, <1>03, <1>9 DEF HandleUnsubscribe, Busy, Subscribing, ReadOK, ChanOK
  <2> QED BY <1>0, <1>01, <1>9, <2>1, <2>2 DEF HandleUnsubscribe
<1>10. ASSUME NEW s \in Sessions, HandlePubAck(s) PROVE AllOK'
  <2>1. WireOK'
    <3>1. acks[s] \in Seq(Nat) /\ acks[s] # <<>>
      BY <1>0, <1>10 DEF HandlePubAck, WireOK
    <3>2. Tail(acks[s]) \in Seq(Nat)
      BY <3>1, HeadTail
    <3> QED BY <1>0, <1>10, <3>2 DEF HandlePubAck, WireOK
  <2>2. CASE Head(acks[s]) \in DOMAIN inflight[s]
    <3> DEFINE pid == Head(acks[s])
    <3>1. /\ inflight' = [inflight EXCEPT ![s] = Drop(inflight[s], pid)]
          /\ SetOffset(ClientOf[s], inflight[s][pid].seq)
      BY <1>10, <2>2 DEF HandlePubAck
    <3>2. inflight' = [t \in Sessions |-> IF t = s THEN Drop(inflight[s], pid) ELSE inflight[t]]
      BY <1>0, <3>1 DEF FlyOK
    <3>3. inflight' = [t \in Sessions |-> inflight'[t]]
      BY <3>2
    <3>4. ASSUME NEW t \in Sessions
          PROVE  /\ DOMAIN inflight'[t] \subseteq DOMAIN inflight[t]
                 /\ \A i \in DOMAIN inflight'[t] : inflight'[t][i] = inflight[t][i]
      BY <3>2 DEF Drop
    <3>5. FlyOK'
      BY <1>0, <1>10, <3>3, <3>4 DEF HandlePubAck, FlyOK
    <3>6. inflight[s][pid] \in Entry
      BY <1>0, <2>2 DEF FlyOK
    <3>7. OffOK'
      BY <1>0, <3>1, <3>6, EntryFields, OffsetOK
    <3> QED BY <1>0, <1>01, <1>10, <2>1, <3>5, <3>7 DEF HandlePubAck
  <2>3. CASE Head(acks[s]) \notin DOMAIN inflight[s]
    BY <1>0, <1>01, <1>10, <2>1, <2>3 DEF HandlePubAck
  <2> QED BY <2>2, <2>3
<1>11. ASSUME NEW s \in Sessions, ReadError(s) PROVE AllOK'
  <2>1. ReadOK'
    BY <1>0, <1>03, <1>11 DEF ReadError, ReadOK
  <2>2. Busy'
    BY <1>0, <1>03, <1>11 DEF ReadError, Busy, Subscribing, ReadOK, ChanOK
  <2> QED BY <1>0, <1>01, <1>11, <2>1, <2>2 DEF ReadError
<1>12. ASSUME NEW s \in Sessions, Cleanup(s) PROVE AllOK'
  <2>1. ReadOK' /\ Busy'
    BY <1>0, <1>12 DEF Cleanup, ReadOK, Busy, Subscribing
  <2>2. WireOK'
    BY <1>0, <1>12 DEF Cleanup, WireOK
  <2>3. FlyOK'
    <3>1. /\ inflight' = [t \in Sessions |-> IF t = s THEN [i \in {} |-> 0] ELSE inflight[t]]
          /\ nextPid' = [t \in Sessions |-> IF t = s THEN 1 ELSE nextPid[t]]
      BY <1>0, <1>12 DEF Cleanup, FlyOK
    <3>2. inflight' = [t \in Sessions |-> inflight'[t]] /\ nextPid' \in [Sessions -> Nat \ {0}]
      BY <1>0, <3>1 DEF FlyOK
    <3>3. ASSUME NEW t \in Sessions
          PROVE  /\ DOMAIN inflight'[t] \subseteq 1 .. nextPid'[t] - 1
                 /\ \A i \in DOMAIN inflight'[t] : inflight'[t][i] \in Entry
      BY <1>0, <3>1 DEF FlyOK
    <3> QED BY <3>2, <3>3 DEF FlyOK
  <2> QED BY <1>0, <1>01, <1>12, <2>1, <2>2, <2>3 DEF Cleanup
<1>13. ASSUME NEW k \in Subs, LiveRecv(k) PROVE AllOK'
  <2>1. Head(ch[k]) \in Entry
    <3>1. ch[k] \in Seq(Entry) /\ ch[k] # <<>>
      BY <1>0, <1>13 DEF LiveRecv, TypeOK
    <3> QED BY <3>1, HeadTail
  <2>2. LiveOK' /\ Held'
    BY <1>0, <1>13, <2>1 DEF LiveRecv, LiveOK, Held
  <2> QED BY <1>0, <1>01, <1>13, <2>2 DEF LiveRecv
<1>14. ASSUME NEW k \in Subs, LiveDeliver(k) PROVE AllOK'
  <2>1. hold[k] \in Entry /\ owner[k] \in Sessions
    BY <1>0, <1>14 DEF LiveDeliver, Held
  <2>2. FlyOK' /\ WireOK' /\ SeenOK'
    BY <1>0, <1>14, <2>1, WriteOK DEF LiveDeliver
  <2>3. LiveOK' /\ Held'
    BY <1>0, <1>14, <2>1 DEF LiveDeliver, LiveOK, Held
  <2> QED BY <1>0, <1>01, <1>14, <2>2, <2>3 DEF LiveDeliver
<1>15. ASSUME NEW k \in Subs, LiveSetOffset(k) PROVE AllOK'
  <2>1. hold[k] \in Entry /\ owner[k] \in Sessions
    BY <1>0, <1>15 DEF LiveSetOffset, Held
  <2>2. OffOK'
    BY <1>0, <1>15, <2>1, EntryFields, OffsetOK DEF LiveSetOffset
  <2>3. LiveOK' /\ Held'
    BY <1>0, <1>15, <2>1 DEF LiveSetOffset, LiveOK, Held
  <2> QED BY <1>0, <1>01, <1>15, <2>2, <2>3 DEF LiveSetOffset
<1>16. ASSUME NEW k \in Subs, LiveDeliverFails(k) PROVE AllOK'
  <2>1. hold[k] \in Entry /\ owner[k] \in Sessions
    BY <1>0, <1>16 DEF LiveDeliverFails, Held
  <2>2. FlyOK'
    BY <1>0, <1>16, <2>1, ErrorOK DEF LiveDeliverFails
  <2>3. LiveOK' /\ Held'
    BY <1>0, <1>16 DEF LiveDeliverFails, LiveOK, Held
  <2> QED BY <1>0, <1>01, <1>16, <2>2, <2>3 DEF LiveDeliverFails
<1>17. ASSUME NEW k \in Subs, LiveExit(k) PROVE AllOK'
  <2>1. LiveOK'
    BY <1>0, <1>03, <1>17 DEF LiveExit, LiveOK
  <2>2. Held'
    BY <1>0, <1>03, <1>17 DEF LiveExit, Held, LiveOK, ChanOK
  <2> QED BY <1>0, <1>01, <1>17, <2>1, <2>2 DEF LiveExit
<1>18. ASSUME NEW s \in Sessions, NEW pid \in DOMAIN inflight[s], RetransmitPick(s, pid)
       PROVE  AllOK'
  <2>1. inflight[s][pid] \in Entry /\ pid \in Nat
    BY <1>0 DEF FlyOK
  <2>2. [pid |-> pid, entry |-> inflight[s][pid]] \in Packet
    BY <2>1, EntryFields
  <2>3. LoopOK'
    BY <1>0, <1>18, <2>2 DEF RetransmitPick, LoopOK
  <2> QED BY <1>0, <1>01, <1>18, <2>3 DEF RetransmitPick
<1>19. ASSUME NEW s \in Sessions, RetransmitWrite(s) PROVE AllOK'
  <2>1. resend[s] \in Packet
    BY <1>0, <1>19 DEF RetransmitWrite, LoopOK
  <2>2. out' \in [Sessions -> Seq(Packet)]
    <3>1. UNCHANGED out => out' \in [Sessions -> Seq(Packet)]
      BY <1>0 DEF WireOK
    <3> QED BY <1>0, <1>19, <2>1, <3>1, SendOK DEF RetransmitWrite
  <2>3. WireOK' /\ LoopOK'
    BY <1>0, <1>19, <2>2 DEF RetransmitWrite, WireOK, LoopOK
  <2> QED BY <1>0, <1>01, <1>19, <2>3 DEF RetransmitWrite
<1>20. ASSUME NEW s \in Sessions, ClientRecv(s) PROVE AllOK'
  <2> DEFINE pkt == Head(out[s])
             c == ClientOf[s]
  <2>1. pkt \in Packet /\ Tail(out[s]) \in Seq(Packet)
    BY <1>0, <1>20, HeadTail DEF ClientRecv, WireOK
  <2>2. pkt.pid \in Nat /\ pkt.entry \in Entry /\ c \in Clients
    BY <1>02, <2>1 DEF Packet
  <2>3. Append(acks[s], pkt.pid) \in Seq(Nat) /\ Append(rcvd[c], pkt.entry) \in Seq(Entry)
    <3>1. acks[s] \in Seq(Nat) /\ rcvd[c] \in Seq(Entry)
      BY <1>0, <2>2 DEF WireOK, SeenOK
    <3> HIDE DEF pkt, c
    <3> QED BY <2>2, <3>1
  <2>4. WireOK'
    BY <1>0, <1>20, <2>1, <2>3 DEF ClientRecv, WireOK
  <2>5. SeenOK'
    BY <1>0, <1>20, <2>3 DEF ClientRecv, SeenOK
  <2> QED BY <1>0, <1>01, <1>20, <2>4, <2>5 DEF ClientRecv
<1>21. ASSUME NEW s \in Sessions, Cut(s) PROVE AllOK'
  <2>1. PICK q \in Prefixes(acks[s]) : acks' = [acks EXCEPT ![s] = q]
    BY <1>21 DEF Cut
  <2>2. q \in Seq(Nat)
    BY <1>0, PrefixOK DEF WireOK
  <2>3. WireOK'
    BY <1>0, <1>21, <2>1, <2>2 DEF Cut, WireOK
  <2> QED BY <1>0, <1>01, <1>21, <2>3 DEF Cut
<1>22. ASSUME NEW s \in Sessions, Kick(s) PROVE AllOK'
  <2>1. PICK q \in Prefixes(out[s]) : out' = [out EXCEPT ![s] = q]
    BY <1>22 DEF Kick
  <2>2. q \in Seq(Packet)
    BY <1>0, PrefixOK DEF WireOK
  <2>3. WireOK'
    BY <1>0, <1>22, <2>1, <2>2 DEF Kick, WireOK
  <2> QED BY <1>0, <1>01, <1>22, <2>3 DEF Kick
<1>23. ASSUME DRestart PROVE AllOK'
  <2>1. ReadOK' /\ Busy'
    BY <1>0, <1>23 DEF DRestart, ReadOK, Busy, Subscribing
  <2>2. LiveOK' /\ Held'
    BY <1>0, <1>23 DEF DRestart, LiveOK, Held
  <2>3. FlyOK'
    BY <1>0, <1>23 DEF DRestart, FlyOK
  <2>4. WireOK' /\ OffOK' /\ LoopOK'
    BY <1>0, <1>23 DEF DRestart, WireOK, OffOK, LoopOK
  <2> QED BY <1>0, <1>01, <1>23, <2>1, <2>2, <2>3, <2>4 DEF DRestart
<1>24. ASSUME UNCHANGED sessVars PROVE AllOK'
  BY <1>0, <1>01, <1>24 DEF sessVars
<1> QED
  BY <1>1, <1>2, <1>3, <1>4, <1>5, <1>6, <1>7, <1>8, <1>9, <1>10, <1>11, <1>12,
     <1>13, <1>14, <1>15, <1>16, <1>17, <1>18, <1>19, <1>20, <1>21, <1>22, <1>23,
     <1>24
     DEF DNext, Broker, ClientAsks, Goroutine, DPurge, allVars

\* Before the first connection there is nothing to type.
LEMMA DInitTypes == DInit => DTypeInv
<1> SUFFICES ASSUME DInit PROVE DTypeInv
  OBVIOUS
<1>1. TypeOK
  BY SerialInit DEF DInit, SafetyInv
<1>2. StoreFinite
  BY FS_EmptySet DEF DInit, Init, StoreFinite
<1>3. /\ ReadOK /\ ChanOK /\ LiveOK /\ LoopOK /\ WireOK /\ OffOK /\ SeenOK /\ HandlerInv
  BY DEF DInit, ReadOK, ChanOK, LiveOK, LoopOK, WireOK, OffOK, SeenOK, HandlerInv, Subscribing
<1>4. FlyOK
  BY DEF DInit, FlyOK
<1> QED BY <1>1, <1>2, <1>3, <1>4, Groups

\* Every reachable state of a topic with its sessions is well typed: packet ids are in
\* use before they are in the table, and every goroutine has the message, the channel
\* and the session that it goes on with.
THEOREM DeliveryTypes == DSpec => []DTypeOK
<1>1. DTypeInv => DTypeOK
  BY DEF DTypeInv
<1> QED BY <1>1, DInitTypes, DTypeStep, PTL DEF DSpec

-----------------------------------------------------------------------------
(* Subscriber channels. *)

\* A session hands its registered channel from cur to sub, and cancels what it replaces.
LEMMA LeakStep ==
    ASSUME DTypeInv, LeakInv, [DNext]_allVars
    PROVE  LeakInv'
<1>0. ReadOK /\ ChanOK /\ TypeOK
  BY Groups
<1> DEFINE Sess(k) == owner[k] \in Sessions
           Mine(k) == sub[owner[k]] = k \/ (cur[owner[k]] = k /\ st[owner[k]] = "swap")
<1>1. \A k \in subs : Sess(k) /\ Mine(k)
  BY DEF LeakInv, NoLeakedSubscriber
<1> SUFFICES \A k \in subs' : Sess(k)' /\ Mine(k)'
  BY DEF LeakInv, NoLeakedSubscriber
<1> USE DEF readVars, chanVars, topicVars, vars, memVars
\* A step of one session, outside swap, that opens no channel.
<1>2. ASSUME NEW s \in Sessions, UNCHANGED owner, st[s] # "swap", subs' \subseteq subs,
             \A t \in Sessions : t # s =>
                 sub'[t] = sub[t] /\ cur'[t] = cur[t] /\ st'[t] = st[t],
             sub'[s] = sub[s] \/ sub[s] \notin subs'
      PROVE  \A k \in subs' : Sess(k)' /\ Mine(k)'
  <2> TAKE k \in subs'
  <2>1. Sess(k) /\ Mine(k) /\ owner'[k] = owner[k]
    BY <1>1, <1>2
  <2>2. CASE owner[k] = s
    BY <1>2, <2>1, <2>2
  <2>3. CASE owner[k] # s
    BY <1>2, <2>1, <2>3
  <2> QED BY <2>2, <2>3
<1>3. ASSUME UNCHANGED <<subs, owner, sub, cur, st>>
      PROVE  \A k \in subs' : Sess(k)' /\ Mine(k)'
  BY <1>1, <1>3
<1>4. ASSUME NEW s \in Sessions, NEW k \in Subs, NEW q, HandleSubscribe(s, k, q)
      PROVE  \A j \in subs' : Sess(j)' /\ Mine(j)'
  <2> TAKE j \in subs'
  <2>1. /\ subs' = subs \cup {k} /\ owner' = [owner EXCEPT ![k] = s] /\ UNCHANGED sub
        /\ cur' = [cur EXCEPT ![s] = k] /\ st' = [st EXCEPT ![s] = "swap"] /\ st[s] = "ready"
    BY <1>4 DEF HandleSubscribe, Subscribe
  <2>2. CASE j = k
    <3>1. owner'[k] = s /\ cur'[s] = k /\ st'[s] = "swap"
      BY <1>0, <2>1 DEF ReadOK, ChanOK
    <3> QED BY <2>2, <3>1
  <2>3. CASE j # k
    <3>1. j \in subs /\ Sess(j) /\ Mine(j) /\ owner'[j] = owner[j]
      BY <1>0, <1>1, <2>1, <2>3 DEF ChanOK, TypeOK
    <3>2. CASE owner[j] = s
      BY <2>1, <3>1, <3>2
    <3>3. CASE owner[j] # s
      <4>1. cur'[owner[j]] = cur[owner[j]] /\ st'[owner[j]] = st[owner[j]]
        BY <1>0, <2>1, <3>1, <3>3 DEF ReadOK
      <4> QED BY <2>1, <3>1, <4>1
    <3> QED BY <3>2, <3>3
  <2> QED BY <2>2, <2>3
<1>5. ASSUME NEW s \in Sessions, SwapSub(s) PROVE \A k \in subs' : Sess(k)' /\ Mine(k)'
  <2> TAKE k \in subs'
  <2>1. /\ UNCHANGED owner /\ sub'[s] = cur[s] /\ subs' \subseteq subs /\ sub[s] \notin subs'
        /\ \A t \in Sessions : t # s => sub'[t] = sub[t] /\ cur'[t] = cur[t] /\ st'[t] = st[t]
    <3>1. /\ UNCHANGED <<owner, cur>> /\ sub'[s] = cur[s]
          /\ \A t \in Sessions : t # s => sub'[t] = sub[t] /\ st'[t] = st[t]
      BY <1>0, <1>5 DEF SwapSub, ReadOK
    <3>2. CASE sub[s] = NoSub
      <4>1. subs' = subs /\ NoSub \notin subs
        BY <1>0, <1>5, <3>2, SessionAssumption DEF SwapSub, TypeOK
      <4> QED BY <3>1, <3>2, <4>1
    <3>3. CASE sub[s] # NoSub
      BY <1>5, <3>1, <3>3 DEF SwapSub, Unsubscribe
    <3> QED BY <3>2, <3>3
  <2>2. Sess(k) /\ Mine(k) /\ owner'[k] = owner[k]
    BY <1>1, <2>1
  <2>3. CASE owner[k] = s
    BY <2>1, <2>2, <2>3
  <2>4. CASE owner[k] # s
    BY <2>1, <2>2, <2>4
  <2> QED BY <2>3, <2>4
<1>6. ASSUME NEW s \in Sessions, HandleUnsubscribe(s) \/ Cleanup(s)
      PROVE  \A k \in subs' : Sess(k)' /\ Mine(k)'
  <2>1. /\ UNCHANGED owner /\ st[s] # "swap"
        /\ \A t \in Sessions : t # s => sub'[t] = sub[t] /\ cur'[t] = cur[t] /\ st'[t] = st[t]
    BY <1>0, <1>6 DEF HandleUnsubscribe, Cleanup, ReadOK
  <2>2. subs' \subseteq subs /\ sub[s] \notin subs'
    <3>1. CASE sub[s] = NoSub
      <4>1. subs' = subs /\ NoSub \notin subs
        BY <1>0, <1>6, <3>1, SessionAssumption DEF HandleUnsubscribe, Cleanup, TypeOK
      <4> QED BY <3>1, <4>1
    <3>2. CASE sub[s] # NoSub
      BY <1>6, <3>2 DEF HandleUnsubscribe, Cleanup, Unsubscribe
    <3> QED BY <3>1, <3>2
  <2> QED BY <1>2, <2>1, <2>2
<1>7. ASSUME NEW s \in Sessions,
             \/ Connect(s) \/ FetchCatchUp(s) \/ DeliverCatchUp(s) \/ CatchUpSetOffset(s)
             \/ SubscribeFails(s) \/ StartLive(s) \/ ReadError(s)
      PROVE  \A k \in subs' : Sess(k)' /\ Mine(k)'
  <2>1. /\ UNCHANGED <<owner, sub, subs>> /\ st[s] # "swap"
        /\ \A t \in Sessions : t # s => cur'[t] = cur[t] /\ st'[t] = st[t]
    BY <1>0, <1>7 DEF Connect, FetchCatchUp, DeliverCatchUp, CatchUpSetOffset, SubscribeFails,
                      StartLive, ReadError, ReadOK
  <2> QED BY <1>2, <2>1
<1>8. ASSUME DRestart PROVE \A k \in subs' : Sess(k)' /\ Mine(k)'
  BY <1>8 DEF DRestart, Restart
<1>9. ASSUME NEW s \in Sessions, \/ HandlePubAck(s) \/ RetransmitWrite(s) \/ ClientRecv(s)
                                 \/ Cut(s) \/ Kick(s) \/ \E pid : RetransmitPick(s, pid)
      PROVE  UNCHANGED <<subs, owner, sub, cur, st>>
  BY <1>9 DEF HandlePubAck, RetransmitWrite, ClientRecv, Cut, Kick, RetransmitPick
<1>10. ASSUME NEW k \in Subs, Goroutine(k) PROVE UNCHANGED <<subs, owner, sub, cur, st>>
  BY <1>10 DEF Goroutine, LiveRecv, Recv, LiveDeliver, LiveSetOffset, LiveDeliverFails, LiveExit
<1>11. ASSUME (\E p \in Publishers : Publish(p)) \/ Purge, UNCHANGED sessVars
       PROVE  UNCHANGED <<subs, owner, sub, cur, st>>
  BY <1>11 DEF sessVars, Publish, AllocSeq, PersistMsg, PersistMsgFails, PersistSeq,
       PersistSeqFails, FanBegin, FanSend, FanDrop, FanEnd, Purge, PurgeScan, PurgeScanFails,
       PurgeDelete, PurgeDeleteFails, PurgeReset, PurgePersist
<1>12. UNCHANGED allVars => UNCHANGED <<subs, owner, sub, cur, st>>
  BY DEF allVars, sessVars
<1> HIDE DEF Sess, Mine
<1> QED
  BY <1>3, <1>4, <1>5, <1>6, <1>7, <1>8, <1>9, <1>10, <1>11, <1>12
     DEF DNext, Broker, ClientAsks, DPurge

\* Whatever is replaced, unsubscribed, kicked, cut or restarted: a channel that the
\* fan-out of the topic still writes to is one that some session will cancel.
THEOREM DeliveryNoLeak == DSpec => []NoLeakedSubscriber
<1>1. DInit => LeakInv
  BY DEF DInit, Init, LeakInv, NoLeakedSubscriber
<1>2. LeakInv => NoLeakedSubscriber
  BY DEF LeakInv
<1> QED BY <1>1, <1>2, DInitTypes, DTypeStep, LeakStep, PTL DEF DSpec
=============================================================================
