---------------------------- MODULE TopicProofs ----------------------------
(***************************************************************************)
(* Proofs about Topic, for any publishers, channels, channel capacity,     *)
(* faults and bounds.                                                      *)
(***************************************************************************)
EXTENDS Topic, TLAPS

-----------------------------------------------------------------------------
(* Sequences. *)

\* What a subscriber channel holds after a send: the old messages at their
\* places, and the new one at the end.
LEMMA AppendEntries ==
    ASSUME NEW S, NEW s \in Seq(S), NEW e \in S
    PROVE  /\ Append(s, e) \in Seq(S)
           /\ Len(Append(s, e)) = Len(s) + 1
           /\ \A i \in DOMAIN s : i \in DOMAIN Append(s, e) /\ Append(s, e)[i] = s[i]
           /\ \A i \in DOMAIN Append(s, e) :
                \/ i \in DOMAIN s /\ Append(s, e)[i] = s[i]
                \/ i = Len(s) + 1 /\ Append(s, e)[i] = e
  OBVIOUS

\* What it holds after a receive: all but the first, one place earlier.
LEMMA TailEntries ==
    ASSUME NEW S, NEW s \in Seq(S), s # <<>>
    PROVE  /\ Tail(s) \in Seq(S)
           /\ Len(Tail(s)) = Len(s) - 1
           /\ \A i \in DOMAIN Tail(s) : i + 1 \in DOMAIN s /\ Tail(s)[i] = s[i + 1]
  OBVIOUS

-----------------------------------------------------------------------------
(* Type correctness. *)

\* No step of a topic leaves the types.
LEMMA TypeStep ==
    ASSUME TypeOK, [Next]_vars
    PROVE  TypeOK'
<1> USE DEF vars, memVars, dbVars, pubVars, histVars, purgeVars
<1>1. ASSUME NEW p \in Publishers, AllocSeq(p) PROVE TypeOK'
  <2>1. my'[p] \in Entry
    BY <1>1 DEF AllocSeq, TypeOK, Entry, Message
  <2> QED BY <1>1, <2>1 DEF AllocSeq, TypeOK, PubStates
<1>2. ASSUME NEW p \in Publishers, PersistMsg(p) PROVE TypeOK'
  <2>1. my[p].seq \in Nat /\ my[p].msg \in Message
    BY DEF TypeOK, Entry
  <2>2. DOMAIN msgs' \subseteq Nat /\ \A k \in DOMAIN msgs' : msgs'[k] \in Message
    BY <1>2, <2>1 DEF PersistMsg, Put, TypeOK
  <2> QED BY <1>2, <2>2 DEF PersistMsg, TypeOK, PubStates
<1>3. ASSUME NEW p \in Publishers, PersistMsgFails(p) PROVE TypeOK'
  <2>1. Idle(p) \in Entry
    BY DEF Idle, Entry, Message
  <2> QED BY <1>3, <2>1 DEF PersistMsgFails, TypeOK, PubStates
<1>4. ASSUME NEW p \in Publishers, PersistSeq(p) PROVE TypeOK'
  <2>1. my[p].seq \in Nat
    BY DEF TypeOK, Entry
  <2> QED BY <1>4, <2>1 DEF PersistSeq, TypeOK, PubStates
<1>5. ASSUME NEW p \in Publishers, PersistSeqFails(p) PROVE TypeOK'
  BY <1>5 DEF PersistSeqFails, TypeOK, PubStates
<1>6. ASSUME NEW p \in Publishers, FanBegin(p) PROVE TypeOK'
  BY <1>6 DEF FanBegin, TypeOK, PubStates
<1>7. ASSUME NEW p \in Publishers, NEW k \in Subs, FanSend(p, k) PROVE TypeOK'
  <2>1. my[p] \in Entry /\ ch[k] \in Seq(Entry)
    BY DEF TypeOK
  <2>2. Append(ch[k], my[p]) \in Seq(Entry) /\ Len(Append(ch[k], my[p])) = Len(ch[k]) + 1
    BY <2>1, AppendEntries
  <2>3. ch' \in [Subs -> Seq(Entry)] /\ \A j \in Subs : Len(ch'[j]) <= ChanSize
    BY <1>7, <2>1, <2>2, ChanSizeAssumption DEF FanSend, TypeOK
  <2> QED BY <1>7, <2>3 DEF FanSend, TypeOK
<1>8. ASSUME NEW p \in Publishers, NEW k \in Subs, FanDrop(p, k) PROVE TypeOK'
  BY <1>8 DEF FanDrop, TypeOK
<1>9. ASSUME NEW p \in Publishers, FanEnd(p) PROVE TypeOK'
  <2>1. Idle(p) \in Entry
    BY DEF Idle, Entry, Message
  <2> QED BY <1>9, <2>1 DEF FanEnd, TypeOK, PubStates
<1>10. ASSUME NEW k \in Subs, Subscribe(k) PROVE TypeOK'
  BY <1>10, ChanSizeAssumption DEF Subscribe, TypeOK
<1>11. ASSUME NEW k \in Subs, Unsubscribe(k) PROVE TypeOK'
  BY <1>11 DEF Unsubscribe, TypeOK
<1>12. ASSUME NEW k \in Subs, Recv(k) PROVE TypeOK'
  <2>1. Tail(ch[k]) \in Seq(Entry) /\ Len(Tail(ch[k])) <= ChanSize
    <3>1. Len(ch[k]) \in Nat /\ Len(ch[k]) <= ChanSize /\ ch[k] \in Seq(Entry)
      BY DEF TypeOK
    <3> QED BY <1>12, <3>1, TailEntries, ChanSizeAssumption DEF Recv
  <2>2. ch' \in [Subs -> Seq(Entry)] /\ \A j \in Subs : Len(ch'[j]) <= ChanSize
    BY <1>12, <2>1 DEF Recv, TypeOK
  <2> QED BY <1>12, <2>2 DEF Recv, TypeOK
<1>13. ASSUME Purge PROVE TypeOK'
  <2>1. ASSUME PurgeDelete PROVE TypeOK'
    <3>1. DOMAIN msgs' \subseteq Nat /\ \A k \in DOMAIN msgs' : msgs'[k] \in Message
      BY <2>1 DEF PurgeDelete, Drop, TypeOK
    <3> QED BY <2>1, <3>1 DEF PurgeDelete, TypeOK
  <2>2. ASSUME PurgeScan \/ PurgeScanFails PROVE TypeOK'
    BY <2>2 DEF PurgeScan, PurgeScanFails, MayPurge, TypeOK
  <2>3. ASSUME PurgeDeleteFails PROVE TypeOK'
    BY <2>3 DEF PurgeDeleteFails, TypeOK
  <2>4. ASSUME PurgeReset PROVE TypeOK'
    BY <2>4 DEF PurgeReset, TypeOK
  <2>5. ASSUME PurgePersist PROVE TypeOK'
    BY <2>5 DEF PurgePersist, TypeOK
  <2> QED BY <1>13, <2>1, <2>2, <2>3, <2>4, <2>5 DEF Purge
<1>14. ASSUME Restart PROVE TypeOK'
  BY <1>14, ChanSizeAssumption
     DEF Restart, LoadSeq, TypeOK, PubStates, Idle, Entry, Message
<1>15. ASSUME UNCHANGED vars PROVE TypeOK'
  BY <1>15 DEF TypeOK
<1> QED
  BY <1>1, <1>2, <1>3, <1>4, <1>5, <1>6, <1>7, <1>8, <1>9, <1>10, <1>11,
     <1>12, <1>13, <1>14, <1>15 DEF Next, Publish

\* Every reachable state of a topic is well typed, and no subscriber channel
\* ever holds more than ChanSize messages, although several publishers send.
THEOREM TopicTypes == Spec => []TypeOK
<1>1. Init => TypeOK
  BY ChanSizeAssumption DEF Init, TypeOK, PubStates, Idle, Entry, Message
<1>2. TypeOK /\ [Next]_vars => TypeOK'
  BY TypeStep
<1> QED BY <1>1, <1>2, PTL DEF Spec

-----------------------------------------------------------------------------
(* The inductive invariant behind AckedInProcess and StoredBeforeFanout.   *)

Waiting == UNION {{ch[k][i] : i \in DOMAIN ch[k]} : k \in Subs}

Active(p) == pc[p] # "idle"

\* Two publishers inside Publish never carry the same number.
NumberInv ==
    /\ \A p \in Publishers : Active(p) =>
            my[p].seq <= seq /\ my[p].msg.n <= count[my[p].msg.by]
    /\ \A p, q \in Publishers :
            p # q /\ Active(p) /\ Active(q) => my[p].seq # my[q].seq

\* Past its write, a publisher's message is in the store.
PersistInv ==
    \A p \in Publishers : pc[p] \in {"setseq", "rlock", "fanout"} => Stored(my[p])

\* A stored message no publisher is about to overwrite, now or later.
Kept(e) ==
    /\ Stored(e)
    /\ e.seq <= seq
    /\ \A p \in Publishers : pc[p] = "persist" => my[p].seq # e.seq

KeptInv ==
    \A e \in fresh \cup Waiting :
        e.msg.n <= count[e.msg.by] /\ (Released(e) \/ Kept(e))

\* A quiet purge runs alone, and everything handed in so far is released.
PurgeInv == purge # "idle" => released = count /\ \A p \in Publishers : ~Active(p)

SafetyInv == TypeOK /\ NumberInv /\ PersistInv /\ KeptInv /\ PurgeInv

-----------------------------------------------------------------------------
(* What the steps do to the messages that wait in channels. *)

\* FanSend adds to the waiting messages the one it sends and no other.
LEMMA WaitingSend ==
    ASSUME TypeOK, NEW p \in Publishers, NEW k \in Subs, FanSend(p, k)
    PROVE  Waiting' \subseteq Waiting \cup {my[p]}
<1>1. ch[k] \in Seq(Entry) /\ my[p] \in Entry
  BY DEF TypeOK
<1>2. ch' = [ch EXCEPT ![k] = Append(ch[k], my[p])] /\ ch \in [Subs -> Seq(Entry)]
  BY DEF FanSend, TypeOK
<1>3. SUFFICES ASSUME NEW e \in Waiting' PROVE e \in Waiting \cup {my[p]}
  OBVIOUS
<1>4. PICK j \in Subs : \E i \in DOMAIN ch'[j] : ch'[j][i] = e
  BY <1>3 DEF Waiting
<1>5. CASE j = k
  <2>1. ch'[j] = Append(ch[k], my[p])
    BY <1>2, <1>5
  <2>2. (\E i \in DOMAIN ch[k] : e = ch[k][i]) \/ e = my[p]
    BY <1>1, <1>4, <2>1, AppendEntries
  <2> QED BY <2>2 DEF Waiting
<1>6. CASE j # k
  <2>1. ch'[j] = ch[j]
    BY <1>2, <1>6
  <2> QED BY <1>4, <2>1 DEF Waiting
<1> QED BY <1>5, <1>6

\* No other step adds one.
LEMMA WaitingShrinks ==
    ASSUME TypeOK,
           \/ \E k \in Subs : Subscribe(k) \/ Recv(k)
           \/ Restart
           \/ UNCHANGED ch
    PROVE  Waiting' \subseteq Waiting
<1>1. SUFFICES ASSUME NEW e \in Waiting' PROVE e \in Waiting
  OBVIOUS
<1>2. PICK j \in Subs : \E i \in DOMAIN ch'[j] : ch'[j][i] = e
  BY <1>1 DEF Waiting
<1>3. ch \in [Subs -> Seq(Entry)]
  BY DEF TypeOK
<1>4. ASSUME NEW k \in Subs, Subscribe(k) PROVE e \in Waiting
  <2>1. ch' = [ch EXCEPT ![k] = <<>>]
    BY <1>4 DEF Subscribe
  <2>2. j # k
    BY <1>2, <1>3, <2>1
  <2>3. ch'[j] = ch[j]
    BY <1>3, <2>1, <2>2
  <2> QED BY <1>2, <2>3 DEF Waiting
<1>5. ASSUME NEW k \in Subs, Recv(k) PROVE e \in Waiting
  <2>1. ch' = [ch EXCEPT ![k] = Tail(ch[k])] /\ ch[k] # <<>>
    BY <1>5 DEF Recv
  <2>2. CASE j = k
    <3>1. ch'[j] = Tail(ch[k]) /\ ch[k] \in Seq(Entry)
      BY <1>3, <2>1, <2>2
    <3>2. PICK i \in DOMAIN Tail(ch[k]) : Tail(ch[k])[i] = e
      BY <1>2, <3>1
    <3>3. i + 1 \in DOMAIN ch[k] /\ ch[k][i + 1] = e
      BY <2>1, <3>1, <3>2, TailEntries
    <3> QED BY <3>3 DEF Waiting
  <2>3. CASE j # k
    <3>1. ch'[j] = ch[j]
      BY <1>3, <2>1, <2>3
    <3> QED BY <1>2, <3>1 DEF Waiting
  <2> QED BY <2>2, <2>3
<1>6. ASSUME Restart PROVE e \in Waiting
  <2>1. ch'[j] = <<>>
    BY <1>6 DEF Restart
  <2> QED BY <1>2, <2>1
<1>7. ASSUME UNCHANGED ch PROVE e \in Waiting
  BY <1>2, <1>7 DEF Waiting
<1> QED BY <1>4, <1>5, <1>6, <1>7

\* Messages in channels are well typed.
LEMMA WaitingType == ASSUME TypeOK PROVE Waiting \subseteq Entry
<1>1. SUFFICES ASSUME NEW e \in Waiting PROVE e \in Entry
  OBVIOUS
<1>2. PICK k \in Subs : \E i \in DOMAIN ch[k] : ch[k][i] = e
  BY DEF Waiting
<1>3. ch[k] \in Seq(Entry)
  BY DEF TypeOK
<1> QED BY <1>2, <1>3

-----------------------------------------------------------------------------
(* The invariant is inductive when purges are quiet. *)

\* A step that leaves the store alone and hands out only new numbers keeps the
\* promises already made.
LEMMA KeptSame ==
    ASSUME TypeOK, TypeOK', KeptInv,
           fresh' \cup Waiting' \subseteq fresh \cup Waiting,
           UNCHANGED <<msgs, released>>,
           seq <= seq',
           \A p \in Publishers : count[p] <= count'[p],
           \A p \in Publishers : pc'[p] = "persist" =>
                \/ pc[p] = "persist" /\ my'[p] = my[p]
                \/ my'[p].seq > seq
    PROVE  KeptInv'
<1>1. SUFFICES ASSUME NEW e \in fresh \cup Waiting
               PROVE  /\ e.msg.n <= count'[e.msg.by]
                      /\ Released(e)' \/ Kept(e)'
  BY DEF KeptInv
<1>2. e \in Entry
  BY WaitingType DEF TypeOK
<1>3. e.seq \in Nat /\ e.msg.n \in Nat /\ e.msg.by \in Publishers
  BY <1>2 DEF Entry, Message
<1>4. e.msg.n <= count[e.msg.by] /\ (Released(e) \/ Kept(e))
  BY DEF KeptInv
<1>5. e.msg.n <= count'[e.msg.by]
  BY <1>3, <1>4 DEF TypeOK
<1>6. CASE Released(e)
  BY <1>5, <1>6 DEF Released
<1>7. CASE Kept(e)
  <2>1. Stored(e)' /\ e.seq <= seq'
    BY <1>3, <1>7 DEF Kept, Stored, TypeOK
  <2>2. ASSUME NEW p \in Publishers, pc'[p] = "persist" PROVE my'[p].seq # e.seq
    <3>1. my'[p].seq \in Nat /\ seq \in Nat /\ e.seq <= seq
      BY <1>7 DEF Kept, TypeOK, Entry
    <3> QED BY <1>3, <1>7, <2>2, <3>1 DEF Kept
  <2> QED BY <1>5, <2>1, <2>2 DEF Kept
<1> QED BY <1>4, <1>6, <1>7

\* No step of a topic whose purges are quiet breaks the invariant.
LEMMA SafetyStep ==
    ASSUME QuietPurge, SafetyInv, [Next]_vars
    PROVE  SafetyInv'
<1> USE DEF vars, memVars, dbVars, pubVars, histVars, purgeVars
<1> TypeOK /\ NumberInv /\ PersistInv /\ KeptInv /\ PurgeInv
  BY DEF SafetyInv
<1> TypeOK'
  BY TypeStep
<1>t. /\ seq \in Nat /\ seq' \in Nat
      /\ \A p \in Publishers :
            /\ my[p].seq \in Nat /\ my[p].msg.n \in Nat /\ my[p].msg.by \in Publishers
            /\ my'[p].seq \in Nat /\ my'[p].msg.n \in Nat /\ my'[p].msg.by \in Publishers
            /\ count[p] \in Nat /\ count'[p] \in Nat
            /\ pc[p] \in PubStates /\ pc'[p] \in PubStates
  BY DEF TypeOK, Entry, Message
<1>1. ASSUME NEW p \in Publishers, AllocSeq(p) PROVE SafetyInv'
  <2>1. purge = "idle" /\ purge' = "idle"
    BY <1>1 DEF AllocSeq
  <2>2. /\ my'[p].seq = seq + 1 /\ my'[p].msg.n = count[p] + 1 /\ my'[p].msg.by = p
        /\ count'[p] = count[p] + 1 /\ pc'[p] = "persist"
        /\ seq' = seq + 1 /\ UNCHANGED <<msgs, fresh, released, ch>>
        /\ \A q \in Publishers \ {p} :
                my'[q] = my[q] /\ pc'[q] = pc[q] /\ count'[q] = count[q]
    BY <1>1 DEF AllocSeq, TypeOK
  <2>3. NumberInv'
    BY <1>t, <2>2 DEF NumberInv, Active
  <2>4. PersistInv'
    BY <2>2 DEF PersistInv, Stored
  <2>5. KeptInv'
    BY <1>t, <2>2, WaitingShrinks, KeptSame
  <2> QED BY <2>1, <2>3, <2>4, <2>5 DEF SafetyInv, PurgeInv
<1>2. ASSUME NEW p \in Publishers, PersistMsg(p) PROVE SafetyInv'
  <2>1. /\ UNCHANGED <<seq, my, count, released, fresh, ch, purge>>
        /\ pc[p] = "persist" /\ pc'[p] = "setseq"
        /\ \A q \in Publishers \ {p} : pc'[q] = pc[q]
    BY <1>2 DEF PersistMsg, TypeOK
  <2>2. /\ my[p].seq \in DOMAIN msgs' /\ msgs'[my[p].seq] = my[p].msg
        /\ \A x \in DOMAIN msgs : x # my[p].seq => x \in DOMAIN msgs' /\ msgs'[x] = msgs[x]
    BY <1>2 DEF PersistMsg, Put
  <2>3. NumberInv' /\ PurgeInv'
    BY <2>1 DEF NumberInv, PurgeInv, Active
  <2>4. PersistInv'
    BY <2>1, <2>2 DEF PersistInv, NumberInv, Active, Stored
  <2>5. KeptInv'
    BY <2>1, <2>2, WaitingShrinks DEF KeptInv, Kept, Stored, Released
  <2> QED BY <2>3, <2>4, <2>5 DEF SafetyInv
<1>3. ASSUME NEW p \in Publishers, PersistMsgFails(p) PROVE SafetyInv'
  <2>1. /\ UNCHANGED <<seq, msgs, count, released, fresh, ch, purge>>
        /\ pc[p] = "persist" /\ pc'[p] = "idle"
        /\ \A q \in Publishers \ {p} : pc'[q] = pc[q] /\ my'[q] = my[q]
    BY <1>3 DEF PersistMsgFails, TypeOK
  <2>2. NumberInv' /\ PurgeInv' /\ PersistInv'
    BY <2>1 DEF NumberInv, PurgeInv, Active, PersistInv, Stored
  <2>3. KeptInv'
    BY <1>t, <2>1, WaitingShrinks, KeptSame
  <2> QED BY <2>2, <2>3 DEF SafetyInv
<1>4. ASSUME NEW p \in Publishers, PersistSeq(p) \/ PersistSeqFails(p) PROVE SafetyInv'
  <2>1. /\ UNCHANGED <<seq, msgs, my, count, released, fresh, ch, purge>>
        /\ pc[p] = "setseq" /\ pc'[p] = "rlock"
        /\ \A q \in Publishers \ {p} : pc'[q] = pc[q]
    BY <1>4 DEF PersistSeq, PersistSeqFails, TypeOK
  <2>2. NumberInv' /\ PurgeInv' /\ PersistInv'
    BY <2>1 DEF NumberInv, PurgeInv, Active, PersistInv, Stored
  <2>3. KeptInv'
    BY <1>t, <2>1, WaitingShrinks, KeptSame
  <2> QED BY <2>2, <2>3 DEF SafetyInv
<1>5. ASSUME NEW p \in Publishers, FanBegin(p) PROVE SafetyInv'
  <2>1. /\ UNCHANGED <<seq, msgs, my, count, released, fresh, ch, purge>>
        /\ pc[p] = "rlock" /\ pc'[p] = "fanout"
        /\ \A q \in Publishers \ {p} : pc'[q] = pc[q]
    BY <1>5 DEF FanBegin, TypeOK
  <2>2. NumberInv' /\ PurgeInv' /\ PersistInv'
    BY <2>1 DEF NumberInv, PurgeInv, Active, PersistInv, Stored
  <2>3. KeptInv'
    BY <1>t, <2>1, WaitingShrinks, KeptSame
  <2> QED BY <2>2, <2>3 DEF SafetyInv
<1>6. ASSUME NEW p \in Publishers, NEW k \in Subs, FanSend(p, k) PROVE SafetyInv'
  <2>1. /\ UNCHANGED <<seq, msgs, my, count, released, fresh, pc, purge>>
        /\ pc[p] = "fanout"
    BY <1>6 DEF FanSend
  <2>2. NumberInv' /\ PurgeInv' /\ PersistInv'
    BY <2>1 DEF NumberInv, PurgeInv, Active, PersistInv, Stored
  <2>3. my[p].msg.n <= count[my[p].msg.by] /\ Kept(my[p])
    BY <2>1 DEF NumberInv, PersistInv, Active, Kept
  <2>4. Waiting' \subseteq Waiting \cup {my[p]}
    BY <1>6, WaitingSend
  <2>5. KeptInv'
    BY <2>1, <2>3, <2>4 DEF KeptInv, Kept, Stored, Released
  <2> QED BY <2>2, <2>5 DEF SafetyInv
<1>7. ASSUME NEW p \in Publishers, NEW k \in Subs, FanDrop(p, k) PROVE SafetyInv'
  <2>1. UNCHANGED <<seq, msgs, my, count, released, fresh, pc, ch, purge>>
    BY <1>7 DEF FanDrop
  <2>2. NumberInv' /\ PurgeInv' /\ PersistInv'
    BY <2>1 DEF NumberInv, PurgeInv, Active, PersistInv, Stored
  <2>3. KeptInv'
    BY <1>t, <2>1, WaitingShrinks, KeptSame
  <2> QED BY <2>2, <2>3 DEF SafetyInv
<1>8. ASSUME NEW p \in Publishers, FanEnd(p) PROVE SafetyInv'
  <2>1. /\ UNCHANGED <<seq, msgs, count, released, ch, purge>>
        /\ pc[p] = "fanout" /\ pc'[p] = "idle"
        /\ fresh' = fresh \cup {my[p]}
        /\ \A q \in Publishers \ {p} : pc'[q] = pc[q] /\ my'[q] = my[q]
    BY <1>8 DEF FanEnd, TypeOK
  <2>2. NumberInv' /\ PurgeInv' /\ PersistInv'
    BY <2>1 DEF NumberInv, PurgeInv, Active, PersistInv, Stored
  <2>3. my[p].msg.n <= count[my[p].msg.by] /\ Kept(my[p])
    BY <2>1 DEF NumberInv, PersistInv, Active, Kept
  <2>4. Waiting' \subseteq Waiting
    BY <2>1, WaitingShrinks
  <2>5. KeptInv'
    BY <2>1, <2>3, <2>4 DEF KeptInv, Kept, Stored, Released
  <2> QED BY <2>2, <2>5 DEF SafetyInv
<1>9. ASSUME NEW k \in Subs, Subscribe(k) \/ Unsubscribe(k) \/ Recv(k) PROVE SafetyInv'
  <2>1. UNCHANGED <<seq, msgs, my, count, released, fresh, pc, purge>>
    BY <1>9 DEF Subscribe, Unsubscribe, Recv
  <2>2. NumberInv' /\ PurgeInv' /\ PersistInv'
    BY <2>1 DEF NumberInv, PurgeInv, Active, PersistInv, Stored
  <2>3. Waiting' \subseteq Waiting
    BY <1>9, WaitingShrinks DEF Unsubscribe
  <2>4. KeptInv'
    BY <1>t, <2>1, <2>3, KeptSame
  <2> QED BY <2>2, <2>4 DEF SafetyInv
<1>10. ASSUME PurgeScan \/ PurgeScanFails PROVE SafetyInv'
  <2>1. /\ UNCHANGED <<seq, msgs, my, count, fresh, pc, ch>>
        /\ released' = count
        /\ \A p \in Publishers : pc[p] = "idle"
    BY <1>10 DEF PurgeScan, PurgeScanFails, MayPurge
  <2>2. NumberInv' /\ PurgeInv' /\ PersistInv'
    BY <2>1 DEF NumberInv, PurgeInv, Active, PersistInv, Stored
  <2>3. KeptInv'
    BY <2>1, WaitingShrinks DEF KeptInv, Released
  <2> QED BY <2>2, <2>3 DEF SafetyInv
<1>11. ASSUME PurgeDelete \/ PurgeReset PROVE SafetyInv'
  <2>1. /\ UNCHANGED <<my, count, fresh, pc, ch, released>>
        /\ purge # "idle" /\ purge' # "idle"
    BY <1>11 DEF PurgeDelete, PurgeReset
  <2>2. released = count /\ \A p \in Publishers : pc[p] = "idle"
    BY <2>1 DEF PurgeInv, Active
  <2>3. NumberInv' /\ PurgeInv' /\ PersistInv'
    BY <2>1, <2>2 DEF NumberInv, PurgeInv, Active, PersistInv
  <2>4. KeptInv'
    BY <2>1, <2>2, WaitingShrinks DEF KeptInv, Released
  <2> QED BY <2>3, <2>4 DEF SafetyInv
<1>12. ASSUME PurgeDeleteFails \/ PurgePersist PROVE SafetyInv'
  <2>1. UNCHANGED <<seq, msgs, my, count, fresh, pc, ch, released>> /\ purge' = "idle"
    BY <1>12 DEF PurgeDeleteFails, PurgePersist
  <2>2. NumberInv' /\ PurgeInv' /\ PersistInv'
    BY <2>1 DEF NumberInv, PurgeInv, Active, PersistInv, Stored
  <2>3. KeptInv'
    BY <1>t, <2>1, WaitingShrinks, KeptSame
  <2> QED BY <2>2, <2>3 DEF SafetyInv
<1>13. ASSUME Restart PROVE SafetyInv'
  <2>1. /\ \A p \in Publishers : pc'[p] = "idle"
        /\ fresh' = {} /\ purge' = "idle" /\ ch' = [k \in Subs |-> <<>>]
    BY <1>13 DEF Restart
  <2>2. Waiting' = {}
    BY <2>1 DEF Waiting
  <2> QED BY <2>1, <2>2 DEF SafetyInv, NumberInv, PurgeInv, Active, PersistInv, KeptInv
<1>14. ASSUME UNCHANGED vars PROVE SafetyInv'
  <2>1. KeptInv'
    BY <1>14, <1>t, WaitingShrinks, KeptSame
  <2> QED BY <1>14, <2>1 DEF SafetyInv, NumberInv, PurgeInv, Active, PersistInv, Stored
<1> QED
  BY <1>1, <1>2, <1>3, <1>4, <1>5, <1>6, <1>7, <1>8, <1>9, <1>10, <1>11, <1>12,
     <1>13, <1>14 DEF Next, Publish, Purge

\* With quiet purges, whatever the storage faults and wherever the process stops:
\* what Publish acknowledged in this process, and what waits in a subscriber
\* channel, is in the store under its own number until the operator purges it.
THEOREM TopicKeeps ==
    ASSUME QuietPurge
    PROVE  Spec => [](AckedInProcess /\ StoredBeforeFanout)
<1>1. Init => SafetyInv
  <2> SUFFICES ASSUME Init PROVE SafetyInv
    OBVIOUS
  <2>1. TypeOK
    BY ChanSizeAssumption DEF Init, TypeOK, PubStates, Idle, Entry, Message
  <2>2. Waiting = {} /\ fresh = {} /\ purge = "idle"
    BY DEF Init, Waiting
  <2>3. \A p \in Publishers : pc[p] = "idle"
    BY DEF Init
  <2> QED BY <2>1, <2>2, <2>3
          DEF SafetyInv, NumberInv, PurgeInv, Active, PersistInv, KeptInv
<1>2. SafetyInv /\ [Next]_vars => SafetyInv'
  BY SafetyStep
<1>3. SafetyInv => AckedInProcess /\ StoredBeforeFanout
  <2> SUFFICES ASSUME SafetyInv PROVE AckedInProcess /\ StoredBeforeFanout
    OBVIOUS
  <2>1. \A e \in fresh \cup Waiting : Released(e) \/ Stored(e)
    BY DEF SafetyInv, KeptInv, Kept
  <2>2. \A k \in Subs : \A i \in DOMAIN ch[k] : ch[k][i] \in Waiting
    BY DEF Waiting
  <2> QED BY <2>1, <2>2 DEF AckedInProcess, StoredBeforeFanout
<1> QED BY <1>1, <1>2, <1>3, PTL DEF Spec

-----------------------------------------------------------------------------
(* Durability of what one publisher at a time publishes. *)

\* What the code needs for an acknowledged message to survive a restart: one
\* publish at a time, quiet purges, and a sequence key that is always written
\* and read back.
Serial ==
    /\ QuietPurge
    /\ \A p, q \in Publishers : p = q
    /\ "seqWrite" \notin Faults /\ "seqRead" \notin Faults

\* An acknowledged message is below every number the topic can still hand out,
\* in this process or after a restart.
Durable(e) ==
    /\ Stored(e)
    /\ e.seq <= seq /\ e.seq <= dbSeq
    /\ \A p \in Publishers : Active(p) => e.seq < my[p].seq

DurableInv ==
    /\ \A e \in acked : e.msg.n <= count[e.msg.by] /\ (Released(e) \/ Durable(e))
    /\ \A p \in Publishers : pc[p] \in {"rlock", "fanout"} => dbSeq = my[p].seq

\* No step of a serial topic breaks it.
LEMMA DurableStep ==
    ASSUME Serial, SafetyInv, DurableInv, [Next]_vars
    PROVE  DurableInv'
<1> USE DEF vars, memVars, dbVars, pubVars, histVars, purgeVars
<1> TypeOK /\ NumberInv /\ PersistInv /\ PurgeInv
  BY DEF SafetyInv
<1> TypeOK'
  BY TypeStep
<1>t. /\ seq \in Nat /\ seq' \in Nat /\ dbSeq \in Nat /\ dbSeq' \in Nat
      /\ \A p \in Publishers :
            /\ my[p].seq \in Nat /\ my'[p].seq \in Nat
            /\ my[p].msg.n \in Nat /\ my[p].msg.by \in Publishers
            /\ count[p] \in Nat /\ count'[p] \in Nat
            /\ pc[p] \in PubStates /\ pc'[p] \in PubStates
  BY DEF TypeOK, Entry, Message
<1>e. \A e \in acked : e.seq \in Nat /\ e.msg.n \in Nat /\ e.msg.by \in Publishers
  BY DEF TypeOK, Entry, Message
<1>1. ASSUME NEW p \in Publishers, AllocSeq(p) PROVE DurableInv'
  <2>1. /\ my'[p].seq = seq + 1 /\ seq' = seq + 1 /\ pc'[p] = "persist"
        /\ count'[p] = count[p] + 1
        /\ UNCHANGED <<msgs, dbSeq, acked, released>>
        /\ \A q \in Publishers : q = p
    BY <1>1 DEF AllocSeq, TypeOK, Serial
  <2>2. ASSUME NEW e \in acked
        PROVE  e.msg.n <= count'[e.msg.by] /\ (Released(e) \/ Durable(e))'
    BY <1>t, <1>e, <2>1 DEF DurableInv, Durable, Released, Stored, Active
  <2> QED BY <2>1, <2>2 DEF DurableInv
<1>2. ASSUME NEW p \in Publishers, PersistMsg(p) PROVE DurableInv'
  <2>1. /\ UNCHANGED <<seq, dbSeq, my, count, released, acked>>
        /\ pc[p] = "persist" /\ pc'[p] = "setseq"
        /\ \A q \in Publishers : q = p
    BY <1>2 DEF PersistMsg, TypeOK, Serial
  <2>2. \A x \in DOMAIN msgs : x # my[p].seq => x \in DOMAIN msgs' /\ msgs'[x] = msgs[x]
    BY <1>2 DEF PersistMsg, Put
  <2>3. ASSUME NEW e \in acked
        PROVE  e.msg.n <= count'[e.msg.by] /\ (Released(e) \/ Durable(e))'
    <3>1. Durable(e) => e.seq # my[p].seq
      BY <1>t, <1>e, <2>1 DEF Durable, Active
    <3> QED BY <2>1, <2>2, <3>1 DEF DurableInv, Durable, Released, Stored, Active
  <2> QED BY <2>1, <2>3 DEF DurableInv
<1>3. ASSUME NEW p \in Publishers, PersistMsgFails(p) PROVE DurableInv'
  <2>1. /\ UNCHANGED <<seq, msgs, dbSeq, count, released, acked>>
        /\ pc'[p] = "idle"
        /\ \A q \in Publishers : q = p
    BY <1>3 DEF PersistMsgFails, TypeOK, Serial
  <2> QED BY <2>1 DEF DurableInv, Durable, Released, Stored, Active
<1>4. ASSUME NEW p \in Publishers, PersistSeq(p) \/ PersistSeqFails(p) PROVE DurableInv'
  <2>1. /\ UNCHANGED <<seq, msgs, my, count, released, acked>>
        /\ dbSeq' = my[p].seq
        /\ pc[p] = "setseq" /\ pc'[p] = "rlock"
        /\ \A q \in Publishers : q = p
    BY <1>4 DEF PersistSeq, PersistSeqFails, TypeOK, Serial
  <2>2. ASSUME NEW e \in acked
        PROVE  e.msg.n <= count'[e.msg.by] /\ (Released(e) \/ Durable(e))'
    BY <1>t, <1>e, <2>1 DEF DurableInv, Durable, Released, Stored, Active
  <2> QED BY <2>1, <2>2 DEF DurableInv
<1>5. ASSUME NEW p \in Publishers, FanBegin(p) PROVE DurableInv'
  <2>1. /\ UNCHANGED <<seq, msgs, dbSeq, my, count, released, acked>>
        /\ pc[p] = "rlock" /\ pc'[p] = "fanout"
        /\ \A q \in Publishers : q = p
    BY <1>5 DEF FanBegin, TypeOK, Serial
  <2> QED BY <2>1 DEF DurableInv, Durable, Released, Stored, Active
<1>6. ASSUME NEW p \in Publishers, NEW k \in Subs, FanSend(p, k) \/ FanDrop(p, k)
      PROVE DurableInv'
  <2>1. UNCHANGED <<seq, msgs, dbSeq, my, count, released, acked, pc>>
    BY <1>6 DEF FanSend, FanDrop
  <2> QED BY <2>1 DEF DurableInv, Durable, Released, Stored, Active
<1>7. ASSUME NEW p \in Publishers, FanEnd(p) PROVE DurableInv'
  <2>1. /\ UNCHANGED <<seq, msgs, dbSeq, count, released>>
        /\ acked' = acked \cup {my[p]}
        /\ pc[p] = "fanout" /\ pc'[p] = "idle"
        /\ \A q \in Publishers : q = p
    BY <1>7 DEF FanEnd, TypeOK, Serial
  <2>2. my[p].msg.n <= count[my[p].msg.by] /\ Stored(my[p])
            /\ my[p].seq <= seq /\ my[p].seq <= dbSeq
    BY <1>t, <2>1 DEF DurableInv, NumberInv, PersistInv, Active
  <2> QED BY <2>1, <2>2 DEF DurableInv, Durable, Released, Stored, Active
<1>8. ASSUME NEW k \in Subs, Subscribe(k) \/ Unsubscribe(k) \/ Recv(k) PROVE DurableInv'
  <2>1. UNCHANGED <<seq, msgs, dbSeq, my, count, released, acked, pc>>
    BY <1>8 DEF Subscribe, Unsubscribe, Recv
  <2> QED BY <2>1 DEF DurableInv, Durable, Released, Stored, Active
<1>9. ASSUME PurgeScan \/ PurgeScanFails PROVE DurableInv'
  <2>1. /\ UNCHANGED <<count, acked, pc, dbSeq, my>> /\ released' = count
        /\ \A p \in Publishers : pc[p] = "idle"
    BY <1>9 DEF PurgeScan, PurgeScanFails, MayPurge, Serial
  <2> QED BY <2>1 DEF DurableInv, Released
<1>10. ASSUME PurgeDelete \/ PurgeReset \/ PurgePersist PROVE DurableInv'
  <2>1. UNCHANGED <<count, acked, pc, released>> /\ purge # "idle"
    BY <1>10 DEF PurgeDelete, PurgeReset, PurgePersist
  <2>2. released = count /\ \A p \in Publishers : pc[p] = "idle"
    BY <2>1 DEF PurgeInv, Active
  <2> QED BY <2>1, <2>2 DEF DurableInv, Released
<1>11. ASSUME PurgeDeleteFails PROVE DurableInv'
  <2>1. UNCHANGED <<seq, msgs, dbSeq, my, count, released, acked, pc>>
    BY <1>11 DEF PurgeDeleteFails
  <2> QED BY <2>1 DEF DurableInv, Durable, Released, Stored, Active
<1>12. ASSUME Restart PROVE DurableInv'
  <2>1. /\ UNCHANGED <<msgs, dbSeq, count, released, acked>> /\ seq' = dbSeq
        /\ \A p \in Publishers : pc'[p] = "idle"
    BY <1>12 DEF Restart, LoadSeq, Serial
  <2> QED BY <2>1 DEF DurableInv, Durable, Released, Stored, Active
<1>13. ASSUME UNCHANGED vars PROVE DurableInv'
  BY <1>13 DEF DurableInv, Durable, Released, Stored, Active
<1> QED
  BY <1>1, <1>2, <1>3, <1>4, <1>5, <1>6, <1>7, <1>8, <1>9, <1>10, <1>11, <1>12,
     <1>13 DEF Next, Publish, Purge

\* A fresh topic satisfies both invariants.
LEMMA SerialInit == Init => SafetyInv /\ DurableInv
<1> SUFFICES ASSUME Init PROVE SafetyInv /\ DurableInv
  OBVIOUS
<1>1. TypeOK
  BY ChanSizeAssumption DEF Init, TypeOK, PubStates, Idle, Entry, Message
<1>2. Waiting = {} /\ fresh = {} /\ acked = {} /\ purge = "idle"
  BY DEF Init, Waiting
<1>3. \A p \in Publishers : pc[p] = "idle"
  BY DEF Init
<1> QED BY <1>1, <1>2, <1>3
        DEF SafetyInv, NumberInv, PurgeInv, Active, PersistInv, KeptInv, DurableInv

\* With one publish at a time, quiet purges and no failure of the sequence key,
\* an acknowledged message survives a stop of the process at any step and is
\* never overwritten by what is published after the restart.
THEOREM TopicDurable ==
    ASSUME Serial
    PROVE  Spec => []AckedDurable
<1>1. Init => SafetyInv /\ DurableInv
  BY SerialInit
<1>2. SafetyInv /\ DurableInv /\ [Next]_vars => SafetyInv' /\ DurableInv'
  BY SafetyStep, DurableStep DEF Serial
<1>3. DurableInv => AckedDurable
  BY DEF DurableInv, Durable, AckedDurable
<1> QED BY <1>1, <1>2, <1>3, PTL DEF Spec

-----------------------------------------------------------------------------
(* A serial topic implements DurableLog. *)

\* Every step of a serial topic is a step of the log, or leaves it as it is.
LEMMA LogStep ==
    ASSUME Serial, SafetyInv, DurableInv, [Next]_vars
    PROVE  [Log!Next]_<<msgs, Promised>>
<1> USE DEF vars, memVars, dbVars, pubVars, histVars, purgeVars
<1> TypeOK /\ NumberInv /\ PersistInv /\ PurgeInv
  BY DEF SafetyInv
<1>p. \A e \in Promised : e \in acked /\ Durable(e)
  BY DEF Promised, DurableInv
<1>s. UNCHANGED <<acked, released>> => Promised' = Promised
  BY DEF Promised, Released
<1>1. ASSUME NEW p \in Publishers, PersistMsg(p) PROVE [Log!Next]_<<msgs, Promised>>
  <2>1. Promised' = Promised
    BY <1>1, <1>s DEF PersistMsg
  <2>2. ~Log!Held(my[p].seq)
    <3>1. \A e \in Promised : e.seq < my[p].seq
      BY <1>1, <1>p DEF PersistMsg, Durable, Active
    <3>2. my[p].seq \in Nat /\ \A e \in Promised : e.seq \in Nat
      BY <1>p DEF TypeOK, Entry
    <3> QED BY <3>1, <3>2 DEF Log!Held
  <2>3. msgs' = Put(msgs, my[p].seq, my[p].msg)
    BY <1>1 DEF PersistMsg
  <2>4. my[p].seq \in DOMAIN msgs' /\ msgs'[my[p].seq] = my[p].msg
    BY <2>3 DEF Put
  <2>5. Log!Write(my[p].seq, msgs'[my[p].seq])
    BY <2>1, <2>2, <2>3, <2>4 DEF Log!Write, Put
  <2> QED BY <2>4, <2>5 DEF Log!Next
<1>2. ASSUME NEW p \in Publishers, FanEnd(p) PROVE [Log!Next]_<<msgs, Promised>>
  <2>1. acked' = acked \cup {my[p]} /\ UNCHANGED <<msgs, released>> /\ pc[p] = "fanout"
    BY <1>2 DEF FanEnd
  <2>2. CASE Released(my[p])
    <3>1. Promised' = Promised
      BY <2>1, <2>2 DEF Promised, Released
    <3> QED BY <2>1, <3>1
  <2>3. CASE ~Released(my[p])
    <3>1. Promised' = Promised \cup {my[p]}
      BY <2>1, <2>3 DEF Promised, Released
    <3>2. Stored(my[p])
      BY <2>1 DEF PersistInv
    <3>3. \A f \in Promised : f.seq < my[p].seq
      BY <1>p, <2>1 DEF Durable, Active
    <3>4. Log!Acknowledge(my[p])
      BY <2>1, <3>1, <3>2, <3>3 DEF Log!Acknowledge, Stored
    <3> QED BY <3>1, <3>4 DEF Log!Next
  <2> QED BY <2>2, <2>3
<1>3. ASSUME PurgeScan \/ PurgeScanFails PROVE [Log!Next]_<<msgs, Promised>>
  <2>1. released' = count /\ UNCHANGED <<acked, msgs>>
    BY <1>3 DEF PurgeScan, PurgeScanFails
  <2>2. \A e \in acked : e.msg.n <= count[e.msg.by]
    BY DEF DurableInv
  <2>3. Promised' = {}
    BY <2>1, <2>2 DEF Promised, Released
  <2> QED BY <2>1, <2>3 DEF Log!Next, Log!Withdraw
<1>4. ASSUME PurgeDelete PROVE [Log!Next]_<<msgs, Promised>>
  <2>1. PICK k \in pkeys : msgs' = Drop(msgs, k)
    BY <1>4 DEF PurgeDelete
  <2>2. Promised' = Promised
    BY <1>4, <1>s DEF PurgeDelete
  <2>3. Promised = {}
    <3>1. released = count
      BY <1>4 DEF PurgeDelete, PurgeInv
    <3> QED BY <3>1 DEF Promised, Released, DurableInv
  <2>4. Log!Remove(DOMAIN msgs \cap {k})
    <3>1. DOMAIN msgs \ (DOMAIN msgs \cap {k}) = DOMAIN msgs \ {k}
      OBVIOUS
    <3> QED BY <2>1, <2>2, <2>3, <3>1 DEF Log!Remove, Log!Held, Drop
  <2> QED BY <2>4 DEF Log!Next
<1>5. ASSUME Restart PROVE [Log!Next]_<<msgs, Promised>>
  BY <1>5, <1>s DEF Restart
<1>6. ASSUME UNCHANGED <<msgs, acked, released>> PROVE [Log!Next]_<<msgs, Promised>>
  BY <1>6, <1>s
<1>7. ASSUME NEW p \in Publishers, Publish(p) PROVE [Log!Next]_<<msgs, Promised>>
  <2>1. CASE PersistMsg(p)
    BY <1>1, <2>1
  <2>2. CASE FanEnd(p)
    BY <1>2, <2>2
  <2>3. CASE \/ AllocSeq(p) \/ PersistMsgFails(p) \/ PersistSeq(p) \/ PersistSeqFails(p)
             \/ FanBegin(p) \/ \E k \in Subs : FanSend(p, k) \/ FanDrop(p, k)
    <3>1. UNCHANGED <<msgs, acked, released>>
      BY <2>3 DEF AllocSeq, PersistMsgFails, PersistSeq, PersistSeqFails, FanBegin,
                  FanSend, FanDrop
    <3> QED BY <3>1, <1>6
  <2> QED BY <1>7, <2>1, <2>2, <2>3 DEF Publish
<1>8. ASSUME NEW k \in Subs, Subscribe(k) \/ Unsubscribe(k) \/ Recv(k)
      PROVE  [Log!Next]_<<msgs, Promised>>
  BY <1>6, <1>8 DEF Subscribe, Unsubscribe, Recv
<1>9. ASSUME Purge PROVE [Log!Next]_<<msgs, Promised>>
  <2>1. CASE PurgeDeleteFails \/ PurgeReset \/ PurgePersist
    BY <1>6, <2>1 DEF PurgeDeleteFails, PurgeReset, PurgePersist
  <2> QED BY <1>9, <1>3, <1>4, <2>1 DEF Purge
<1> QED BY <1>5, <1>6, <1>7, <1>8, <1>9 DEF Next

\* With one publish at a time, quiet purges and no failure of the sequence key,
\* a topic is a durable log to its publishers: an acknowledged message keeps
\* its number over restarts at any step, later ones get larger numbers, and
\* only a purge takes it away.
THEOREM TopicImplementsLog ==
    ASSUME Serial
    PROVE  Spec => ImplementsLog
<1>1. Init => SafetyInv /\ DurableInv
  BY SerialInit
<1>2. SafetyInv /\ DurableInv /\ [Next]_vars => SafetyInv' /\ DurableInv'
  BY SafetyStep, DurableStep DEF Serial
<1>3. Init => Log!Init
  BY DEF Init, Log!Init, Promised
<1>4. SafetyInv /\ DurableInv /\ [Next]_vars => [Log!Next]_<<msgs, Promised>>
  BY LogStep
<1> QED BY <1>1, <1>2, <1>3, <1>4, PTL DEF Spec, ImplementsLog, Log!Spec

-----------------------------------------------------------------------------
(* The order in which a subscriber sees one publisher. *)

\* Publisher p is inside Publish and its message has yet to reach channel k.
Unsent(p, k) ==
    \/ pc[p] \in {"persist", "setseq", "rlock"}
    \/ pc[p] = "fanout" /\ k \in todo[p]

\* A publisher carries its latest message; the ones of its own that wait in a
\* channel are earlier than any it has yet to send there.
CarryInv ==
    /\ \A p \in Publishers : Active(p) => my[p].msg.by = p /\ my[p].msg.n = count[p]
    /\ \A k \in Subs : \A i \in DOMAIN ch[k] :
            ch[k][i].msg.n <= count[ch[k][i].msg.by]
    /\ \A k \in Subs : \A i \in DOMAIN ch[k] : \A p \in Publishers :
            ch[k][i].msg.by = p /\ Unsent(p, k) => ch[k][i].msg.n < count[p]

\* No step breaks CarryInv or the order.
LEMMA OrderStep ==
    ASSUME TypeOK, CarryInv, PublisherFIFO, [Next]_vars
    PROVE  CarryInv' /\ PublisherFIFO'
<1> USE DEF vars, memVars, dbVars, pubVars, histVars, purgeVars
<1> TypeOK'
  BY TypeStep
<1>t. /\ ch \in [Subs -> Seq(Entry)]
      /\ count \in [Publishers -> Nat]
      /\ \A k \in Subs : ch[k] \in Seq(Entry)
      /\ \A k \in Subs : \A i \in DOMAIN ch[k] :
            ch[k][i].msg.n \in Nat /\ ch[k][i].msg.by \in Publishers
      /\ \A p \in Publishers : /\ my[p] \in Entry /\ count[p] \in Nat
                               /\ my[p].msg.n \in Nat /\ my[p].msg.by \in Publishers
  <2>1. ch \in [Subs -> Seq(Entry)] /\ count \in [Publishers -> Nat]
            /\ my \in [Publishers -> Entry]
    BY DEF TypeOK
  <2>2. \A e \in Entry : e.msg.n \in Nat /\ e.msg.by \in Publishers
    BY DEF Entry, Message
  <2>3. \A k \in Subs : \A i \in DOMAIN ch[k] : ch[k][i] \in Entry
    BY <2>1
  <2> QED BY <2>1, <2>2, <2>3
<1>1. ASSUME NEW p \in Publishers, AllocSeq(p) PROVE CarryInv' /\ PublisherFIFO'
  <2>1. /\ my'[p].msg.n = count[p] + 1 /\ my'[p].msg.by = p
        /\ count'[p] = count[p] + 1 /\ pc'[p] = "persist" /\ UNCHANGED <<ch, todo>>
        /\ \A q \in Publishers \ {p} :
                my'[q] = my[q] /\ pc'[q] = pc[q] /\ count'[q] = count[q]
    BY <1>1 DEF AllocSeq, TypeOK
  <2>2. \A q \in Publishers : Active(q)' => my'[q].msg.by = q /\ my'[q].msg.n = count'[q]
    BY <2>1 DEF CarryInv, Active
  <2>3. ASSUME NEW k \in Subs, NEW i \in DOMAIN ch[k]
        PROVE  /\ ch[k][i].msg.n <= count'[ch[k][i].msg.by]
               /\ \A q \in Publishers :
                    ch[k][i].msg.by = q /\ Unsent(q, k)' => ch[k][i].msg.n < count'[q]
    <3>1. ch[k][i].msg.n \in Nat /\ ch[k][i].msg.by \in Publishers
            /\ ch[k][i].msg.n <= count[ch[k][i].msg.by]
      BY <1>t DEF CarryInv
    <3>2. CASE ch[k][i].msg.by = p
      BY <1>t, <2>1, <3>1, <3>2
    <3>3. CASE ch[k][i].msg.by # p
      BY <2>1, <3>1, <3>3 DEF CarryInv, Unsent
    <3> QED BY <3>2, <3>3
  <2>4. CarryInv'
    BY <2>1, <2>2, <2>3 DEF CarryInv
  <2> QED BY <2>1, <2>4 DEF PublisherFIFO
<1>2. ASSUME NEW p \in Publishers,
             PersistMsg(p) \/ PersistSeq(p) \/ PersistSeqFails(p) \/ FanBegin(p)
      PROVE CarryInv' /\ PublisherFIFO'
  <2>1. /\ UNCHANGED <<ch, count, my>>
        /\ pc[p] \in {"persist", "setseq", "rlock"}
        /\ \A q \in Publishers \ {p} : pc'[q] = pc[q] /\ todo'[q] = todo[q]
    BY <1>2 DEF PersistMsg, PersistSeq, PersistSeqFails, FanBegin, TypeOK
  <2> QED BY <2>1 DEF CarryInv, Active, Unsent, PublisherFIFO
<1>3. ASSUME NEW p \in Publishers, PersistMsgFails(p) \/ FanEnd(p)
      PROVE CarryInv' /\ PublisherFIFO'
  <2>1. /\ UNCHANGED <<ch, count, todo>> /\ pc'[p] = "idle"
        /\ \A q \in Publishers \ {p} : pc'[q] = pc[q] /\ my'[q] = my[q]
    BY <1>3 DEF PersistMsgFails, FanEnd, TypeOK
  <2> QED BY <2>1 DEF CarryInv, Active, Unsent, PublisherFIFO
<1>4. ASSUME NEW p \in Publishers, NEW k \in Subs, FanSend(p, k)
      PROVE CarryInv' /\ PublisherFIFO'
  <2>1. /\ ch' = [ch EXCEPT ![k] = Append(ch[k], my[p])]
        /\ UNCHANGED <<count, my, pc>> /\ pc[p] = "fanout" /\ k \in todo[p]
        /\ k \notin todo'[p]
        /\ \A q \in Publishers : todo'[q] \subseteq todo[q]
    BY <1>4 DEF FanSend, TypeOK
  <2>2. \A j \in Subs \ {k} : ch'[j] = ch[j]
    BY <1>t, <2>1
  <2>3. ch'[k] = Append(ch[k], my[p])
    BY <1>t, <2>1
  <2>4. \A i \in DOMAIN ch'[k] :
            \/ i \in DOMAIN ch[k] /\ ch'[k][i] = ch[k][i]
            \/ i = Len(ch[k]) + 1 /\ ch'[k][i] = my[p]
    BY <1>t, <2>3, AppendEntries
  <2>5. my[p].msg.by = p /\ my[p].msg.n = count[p] /\ Unsent(p, k)
    BY <2>1 DEF CarryInv, Active, Unsent
  <2>6. \A q \in Publishers, j \in Subs : Unsent(q, j)' => Unsent(q, j)
    BY <2>1 DEF Unsent
  <2>7. ~Unsent(p, k)'
    BY <2>1 DEF Unsent
  <2>8. CarryInv'
    <3>1. \A q \in Publishers : Active(q)' => my'[q].msg.by = q /\ my'[q].msg.n = count'[q]
      BY <2>1 DEF CarryInv, Active
    <3>2. \A i \in DOMAIN ch'[k] : ch'[k][i].msg.n <= count[ch'[k][i].msg.by]
      BY <1>t, <2>4, <2>5 DEF CarryInv
    <3>3. \A i \in DOMAIN ch'[k] : \A q \in Publishers :
            ch'[k][i].msg.by = q /\ Unsent(q, k)' => ch'[k][i].msg.n < count[q]
      BY <2>4, <2>5, <2>6, <2>7 DEF CarryInv
    <3> QED BY <2>1, <2>2, <2>6, <3>1, <3>2, <3>3 DEF CarryInv
  <2>9. PublisherFIFO'
    <3>1. ASSUME NEW i \in DOMAIN ch'[k], NEW j \in DOMAIN ch'[k],
                 i < j, ch'[k][i].msg.by = ch'[k][j].msg.by
          PROVE  ch'[k][i].msg.n < ch'[k][j].msg.n
      <4>1. DOMAIN ch[k] = 1 .. Len(ch[k]) /\ Len(ch[k]) \in Nat
        BY <1>t
      <4>2. i \in DOMAIN ch[k] /\ ch'[k][i] = ch[k][i]
        <5>1. DOMAIN ch'[k] = 1 .. Len(ch[k]) + 1
          BY <1>t, <2>3, AppendEntries
        <5> QED BY <2>4, <3>1, <4>1, <5>1
      <4>3. CASE j \in DOMAIN ch[k] /\ ch'[k][j] = ch[k][j]
        BY <3>1, <4>2, <4>3 DEF PublisherFIFO
      <4>4. CASE ch'[k][j] = my[p]
        BY <3>1, <4>2, <4>4, <2>5 DEF CarryInv
      <4> QED BY <2>4, <4>3, <4>4
    <3> QED BY <2>2, <3>1 DEF PublisherFIFO
  <2> QED BY <2>8, <2>9
<1>5. ASSUME NEW p \in Publishers, NEW k \in Subs, FanDrop(p, k)
      PROVE CarryInv' /\ PublisherFIFO'
  <2>1. UNCHANGED <<ch, count, my, pc>> /\ \A q \in Publishers : todo'[q] \subseteq todo[q]
    BY <1>5 DEF FanDrop, TypeOK
  <2> QED BY <2>1 DEF CarryInv, Active, Unsent, PublisherFIFO
<1>6. ASSUME NEW k \in Subs, Subscribe(k) PROVE CarryInv' /\ PublisherFIFO'
  <2>1. /\ UNCHANGED <<count, my, pc, todo>> /\ ch'[k] = <<>>
        /\ \A j \in Subs \ {k} : ch'[j] = ch[j]
    BY <1>6, <1>t DEF Subscribe
  <2> QED BY <2>1 DEF CarryInv, Active, Unsent, PublisherFIFO
<1>7. ASSUME NEW k \in Subs, Recv(k) PROVE CarryInv' /\ PublisherFIFO'
  <2>1. /\ UNCHANGED <<count, my, pc, todo>> /\ ch'[k] = Tail(ch[k])
        /\ ch[k] # <<>> /\ \A j \in Subs \ {k} : ch'[j] = ch[j]
    BY <1>7, <1>t DEF Recv
  <2>2. \A i \in DOMAIN ch'[k] :
            i \in Nat /\ i + 1 \in DOMAIN ch[k] /\ ch'[k][i] = ch[k][i + 1]
    BY <1>t, <2>1, TailEntries
  <2>3. CarryInv'
    <3>1. \A p \in Publishers : Active(p)' => my'[p].msg.by = p /\ my'[p].msg.n = count'[p]
      BY <2>1 DEF CarryInv, Active
    <3>2. \A i \in DOMAIN ch'[k] : ch'[k][i].msg.n <= count[ch'[k][i].msg.by]
      BY <2>2 DEF CarryInv
    <3>3. \A i \in DOMAIN ch'[k] : \A q \in Publishers :
            ch'[k][i].msg.by = q /\ Unsent(q, k) => ch'[k][i].msg.n < count[q]
      BY <2>2 DEF CarryInv
    <3>4. \A j \in Subs : \A i \in DOMAIN ch'[j] :
            ch'[j][i].msg.n <= count[ch'[j][i].msg.by]
      BY <2>1, <3>2 DEF CarryInv
    <3>5. ASSUME NEW j \in Subs, NEW i \in DOMAIN ch'[j], NEW q \in Publishers,
                 ch'[j][i].msg.by = q, Unsent(q, j)'
          PROVE  ch'[j][i].msg.n < count[q]
      <4>1. Unsent(q, j)
        BY <2>1, <3>5 DEF Unsent
      <4>2. CASE j = k
        BY <3>3, <3>5, <4>1, <4>2
      <4>3. CASE j # k
        BY <2>1, <3>5, <4>1, <4>3 DEF CarryInv
      <4> QED BY <4>2, <4>3
    <3>6. count' = count
      BY <2>1
    <3> QED BY <3>1, <3>4, <3>5, <3>6 DEF CarryInv
  <2>4. ASSUME NEW i \in DOMAIN ch'[k], NEW j \in DOMAIN ch'[k],
               i < j, ch'[k][i].msg.by = ch'[k][j].msg.by
        PROVE  ch'[k][i].msg.n < ch'[k][j].msg.n
    <3>1. i + 1 < j + 1
      BY <2>2, <2>4
    <3> QED BY <2>2, <2>4, <3>1 DEF PublisherFIFO
  <2> QED BY <2>1, <2>3, <2>4 DEF PublisherFIFO
<1>8. ASSUME (\E k \in Subs : Unsubscribe(k)) \/ Purge PROVE CarryInv' /\ PublisherFIFO'
  <2>1. UNCHANGED <<ch, count, my, pc, todo>>
    BY <1>8 DEF Unsubscribe, Purge, PurgeScan, PurgeScanFails, PurgeDelete,
                PurgeDeleteFails, PurgeReset, PurgePersist
  <2> QED BY <2>1 DEF CarryInv, Active, Unsent, PublisherFIFO
<1>9. ASSUME Restart PROVE CarryInv' /\ PublisherFIFO'
  <2>1. (\A k \in Subs : ch'[k] = <<>>) /\ \A p \in Publishers : pc'[p] = "idle"
    BY <1>9 DEF Restart
  <2> QED BY <2>1 DEF CarryInv, Active, Unsent, PublisherFIFO
<1>10. ASSUME UNCHANGED vars PROVE CarryInv' /\ PublisherFIFO'
  BY <1>10 DEF CarryInv, Active, Unsent, PublisherFIFO
<1> QED
  BY <1>1, <1>2, <1>3, <1>4, <1>5, <1>6, <1>7, <1>8, <1>9, <1>10 DEF Next, Publish

\* Whatever the concurrency, the faults, the purges (quiet or not) and the
\* restarts, a subscriber channel holds the messages of one publisher in the
\* order they were published and none of them twice.
THEOREM TopicPublisherOrder == Spec => []PublisherFIFO
<1>1. Init => TypeOK /\ CarryInv /\ PublisherFIFO
  <2> SUFFICES ASSUME Init PROVE TypeOK /\ CarryInv /\ PublisherFIFO
    OBVIOUS
  <2>1. TypeOK
    BY ChanSizeAssumption DEF Init, TypeOK, PubStates, Idle, Entry, Message
  <2>2. (\A k \in Subs : ch[k] = <<>>) /\ \A p \in Publishers : pc[p] = "idle"
    BY DEF Init
  <2> QED BY <2>1, <2>2 DEF CarryInv, Active, Unsent, PublisherFIFO
<1>2. TypeOK /\ CarryInv /\ PublisherFIFO /\ [Next]_vars
        => TypeOK' /\ CarryInv' /\ PublisherFIFO'
  BY TypeStep, OrderStep
<1> QED BY <1>1, <1>2, PTL DEF Spec

============================================================================
