------------------------------- MODULE Topic -------------------------------
(***************************************************************************)
(* core/topic/topic.go: one topic of the broker, with the keys that        *)
(* core/storage/badger.go keeps for it.                                    *)
(*                                                                         *)
(* A publisher is one goroutine inside Topic.Publish: a session's          *)
(* handlePublish or an admin replay. Publish is not one atomic step: it    *)
(* takes a sequence number with an atomic add, writes the message, writes  *)
(* the sequence key, and only then holds the read lock of t.mu while it    *)
(* offers the message to every subscriber channel. Purge runs in an HTTP   *)
(* handler of the admin server and takes no lock at all.                   *)
(*                                                                         *)
(* A message is the n-th one its publisher hands to the topic; payload,    *)
(* envelope and identifiers are abstracted to that name.                   *)
(***************************************************************************)
EXTENDS Naturals, Sequences, FiniteSets

CONSTANTS
    Publishers,     \* goroutines that may be inside Publish
    Subs,           \* subscriber channels (one per call of Subscribe)
    ChanSize,       \* capacity of a subscriber channel (subChanSize)
    Faults,         \* which storage calls may fail in this instance
    QuietPurge,     \* TRUE: the operator purges only while nothing is published
    MaxPub,         \* bound: messages per publisher
    MaxCrashes,     \* bound: restarts of the broker
    MaxPurges       \* bound: calls of Purge

StorageFaults == {"msgWrite", "seqWrite", "seqRead", "scan", "delete",
                  "offWrite", "fetch"}

ASSUME ChanSizeAssumption == ChanSize \in Nat \ {0}
ASSUME FaultsAssumption == Faults \subseteq StorageFaults
ASSUME QuietAssumption == QuietPurge \in BOOLEAN
ASSUME BoundsAssumption == MaxPub \in Nat /\ MaxCrashes \in Nat /\ MaxPurges \in Nat

VARIABLES
    seq,        \* Topic.seq, the atomic counter in memory
    subs,       \* Topic.subs, the registered subscriber channels
    ch,         \* the contents of each subscriber channel
    msgs,       \* Badger: the "msg:<seq>" keys, a function from seq to message
    dbSeq,      \* Badger: the "meta:seq" key
    pc,         \* where each publisher is inside Publish
    my,         \* the message it carries: Publish's locals seq and msg
    todo,       \* the channels its fan-out loop has yet to reach
    count,      \* history: how many messages each publisher has handed in
    acked,      \* history: what Publish has returned without error for
    fresh,      \* history: the part of acked that this process returned for
    released,   \* history: per publisher, the messages an operator asked to purge
    purge,      \* where Purge is
    pkeys,      \* the keys Purge has read and not yet deleted
    crashes, purges     \* bounded counters

memVars   == <<seq, subs, ch>>
dbVars    == <<msgs, dbSeq>>
pubVars   == <<pc, my, todo, count>>
histVars  == <<acked, fresh, released>>
purgeVars == <<purge, pkeys, purges>>
vars == <<memVars, dbVars, pubVars, histVars, purgeVars, crashes>>

Message == [by : Publishers, n : Nat]
Entry   == [seq : Nat, msg : Message]
Idle(p) == [seq |-> 0, msg |-> [by |-> p, n |-> 0]]

\* A function with one more point, or with a point replaced: db.Set.
Put(f, k, v) == [x \in DOMAIN f \cup {k} |-> IF x = k THEN v ELSE f[x]]
\* A function with one point fewer: db.Delete.
Drop(f, k) == [x \in DOMAIN f \ {k} |-> f[x]]

Stored(e)   == e.seq \in DOMAIN msgs /\ msgs[e.seq] = e.msg
Released(e) == e.msg.n <= released[e.msg.by]

-----------------------------------------------------------------------------
(* newFromDB on an empty directory. *)

Init ==
    /\ seq = 0 /\ dbSeq = 0
    /\ msgs = [k \in {} |-> 0]
    /\ subs = {}
    /\ ch = [k \in Subs |-> <<>>]
    /\ pc = [p \in Publishers |-> "idle"]
    /\ my = [p \in Publishers |-> Idle(p)]
    /\ todo = [p \in Publishers |-> {}]
    /\ count = [p \in Publishers |-> 0]
    /\ acked = {} /\ fresh = {}
    /\ released = [p \in Publishers |-> 0]
    /\ purge = "idle" /\ pkeys = {}
    /\ crashes = 0 /\ purges = 0

-----------------------------------------------------------------------------
(* Publish. *)

\* atomic.AddUint64(&t.seq, 1), and the message built around the number.
AllocSeq(p) ==
    /\ pc[p] = "idle"
    /\ count[p] < MaxPub
    /\ QuietPurge => purge = "idle"
    /\ seq' = seq + 1
    /\ count' = [count EXCEPT ![p] = @ + 1]
    /\ my' = [my EXCEPT ![p] = [seq |-> seq + 1,
                                msg |-> [by |-> p, n |-> count[p] + 1]]]
    /\ pc' = [pc EXCEPT ![p] = "persist"]
    /\ UNCHANGED <<subs, ch, dbVars, todo, histVars, purgeVars, crashes>>

\* db.Set(msgKey(seq), wire) succeeds.
PersistMsg(p) ==
    /\ pc[p] = "persist"
    /\ msgs' = Put(msgs, my[p].seq, my[p].msg)
    /\ pc' = [pc EXCEPT ![p] = "setseq"]
    /\ UNCHANGED <<memVars, dbSeq, my, todo, count, histVars, purgeVars, crashes>>

\* Mutant: a failed write gives the sequence number back.
PersistMsgFails_GiveBack(p) ==
    /\ "msgWrite" \in Faults
    /\ pc[p] = "persist"
    /\ seq' = seq - 1
    /\ pc' = [pc EXCEPT ![p] = "idle"]
    /\ my' = [my EXCEPT ![p] = Idle(p)]
    /\ UNCHANGED <<subs, ch, dbVars, todo, count, histVars, purgeVars, crashes>>

\* Mutant: a failed write of the message is only logged, like one of the seq key.
PersistMsgFails_LogOnly(p) ==
    /\ "msgWrite" \in Faults
    /\ pc[p] = "persist"
    /\ pc' = [pc EXCEPT ![p] = "setseq"]
    /\ UNCHANGED <<memVars, dbVars, my, todo, count, histVars, purgeVars, crashes>>

\* db.Set fails: Publish returns the error; the number stays used.
PersistMsgFails(p) ==
    /\ "msgWrite" \in Faults
    /\ pc[p] = "persist"
    /\ pc' = [pc EXCEPT ![p] = "idle"]
    /\ my' = [my EXCEPT ![p] = Idle(p)]
    /\ UNCHANGED <<memVars, dbVars, todo, count, histVars, purgeVars, crashes>>

\* Mutant: the sequence key is left to be written some other time.
PersistSeq_Lazy(p) ==
    /\ pc[p] = "setseq"
    /\ pc' = [pc EXCEPT ![p] = "rlock"]
    /\ UNCHANGED <<memVars, dbVars, my, todo, count, histVars, purgeVars, crashes>>

\* db.SetUint64(seqKey, seq): this publisher's number, not the largest one.
PersistSeq(p) ==
    /\ pc[p] = "setseq"
    /\ dbSeq' = my[p].seq
    /\ pc' = [pc EXCEPT ![p] = "rlock"]
    /\ UNCHANGED <<memVars, msgs, my, todo, count, histVars, purgeVars, crashes>>

\* The write of the sequence key fails: logged, and Publish goes on.
PersistSeqFails(p) ==
    /\ "seqWrite" \in Faults
    /\ pc[p] = "setseq"
    /\ pc' = [pc EXCEPT ![p] = "rlock"]
    /\ UNCHANGED <<memVars, dbVars, my, todo, count, histVars, purgeVars, crashes>>

\* t.mu.RLock(): from here to RUnlock the set of subscribers cannot change.
FanBegin(p) ==
    /\ pc[p] = "rlock"
    /\ todo' = [todo EXCEPT ![p] = subs]
    /\ pc' = [pc EXCEPT ![p] = "fanout"]
    /\ UNCHANGED <<memVars, dbVars, my, count, histVars, purgeVars, crashes>>

\* Mutant: the message is sent without looking whether the channel has room.
FanSend_NoBound(p, k) ==
    /\ pc[p] = "fanout"
    /\ k \in todo[p]
    /\ ch' = [ch EXCEPT ![k] = Append(@, my[p])]
    /\ todo' = [todo EXCEPT ![p] = @ \ {k}]
    /\ UNCHANGED <<seq, subs, dbVars, pc, my, count, histVars, purgeVars, crashes>>

\* Mutant: the loop does not advance past a channel it has sent to.
FanSend_Again(p, k) ==
    /\ pc[p] = "fanout"
    /\ k \in todo[p]
    /\ Len(ch[k]) < ChanSize
    /\ ch' = [ch EXCEPT ![k] = Append(@, my[p])]
    /\ UNCHANGED <<seq, subs, dbVars, pubVars, histVars, purgeVars, crashes>>

\* case sub.ch <- msg
FanSend(p, k) ==
    /\ pc[p] = "fanout"
    /\ k \in todo[p]
    /\ Len(ch[k]) < ChanSize
    /\ ch' = [ch EXCEPT ![k] = Append(@, my[p])]
    /\ todo' = [todo EXCEPT ![p] = @ \ {k}]
    /\ UNCHANGED <<seq, subs, dbVars, pc, my, count, histVars, purgeVars, crashes>>

\* default: the channel is full and this subscriber misses the message.
FanDrop(p, k) ==
    /\ pc[p] = "fanout"
    /\ k \in todo[p]
    /\ Len(ch[k]) >= ChanSize
    /\ todo' = [todo EXCEPT ![p] = @ \ {k}]
    /\ UNCHANGED <<memVars, dbVars, pc, my, count, histVars, purgeVars, crashes>>

\* t.mu.RUnlock() and the return without error, which the caller acknowledges.
FanEnd(p) ==
    /\ pc[p] = "fanout"
    /\ todo[p] = {}
    /\ pc' = [pc EXCEPT ![p] = "idle"]
    /\ my' = [my EXCEPT ![p] = Idle(p)]
    /\ acked' = acked \cup {my[p]}
    /\ fresh' = fresh \cup {my[p]}
    /\ UNCHANGED <<memVars, dbVars, todo, count, released, purgeVars, crashes>>

Publish(p) ==
    \/ AllocSeq(p)
    \/ PersistMsg(p) \/ PersistMsgFails(p)
    \/ PersistSeq(p) \/ PersistSeqFails(p)
    \/ FanBegin(p) \/ FanEnd(p)
    \/ \E k \in Subs : FanSend(p, k) \/ FanDrop(p, k)

-----------------------------------------------------------------------------
(* Subscribe, its unsub function, and the receiving end of a channel. The  *)
(* write lock of t.mu is free when no publisher holds the read lock.       *)

Unlocked == \A p \in Publishers : pc[p] # "fanout"

\* Subscribe: a new channel joins t.subs.
Subscribe(k) ==
    /\ Unlocked
    /\ k \notin subs
    /\ subs' = subs \cup {k}
    /\ ch' = [ch EXCEPT ![k] = <<>>]
    /\ UNCHANGED <<seq, dbVars, pubVars, histVars, purgeVars, crashes>>

\* unsub: the channel leaves t.subs and is closed; what it holds can still be read.
Unsubscribe(k) ==
    /\ Unlocked
    /\ k \in subs
    /\ subs' = subs \ {k}
    /\ UNCHANGED <<seq, ch, dbVars, pubVars, histVars, purgeVars, crashes>>

\* The subscriber takes the oldest message out of its channel.
Recv(k) ==
    /\ ch[k] # <<>>
    /\ ch' = [ch EXCEPT ![k] = Tail(@)]
    /\ UNCHANGED <<seq, subs, dbVars, pubVars, histVars, purgeVars, crashes>>

-----------------------------------------------------------------------------
(* Purge. What was handed in before it started is released from every      *)
(* promise: the operator asked for it to go.                               *)

MayPurge ==
    /\ purge = "idle"
    /\ purges < MaxPurges
    /\ QuietPurge => \A p \in Publishers : pc[p] = "idle"

\* db.Scan(prefix, ...) in one read transaction.
PurgeScan ==
    /\ MayPurge
    /\ purge' = "delete"
    /\ pkeys' = DOMAIN msgs
    /\ purges' = purges + 1
    /\ released' = count
    /\ UNCHANGED <<memVars, dbVars, pubVars, acked, fresh, crashes>>

\* The scan stops at an error, which Purge ignores: it knows only a prefix of the keys.
PurgeScanFails ==
    /\ "scan" \in Faults
    /\ MayPurge
    /\ purge' = "delete"
    /\ \E n \in DOMAIN msgs : pkeys' = {k \in DOMAIN msgs : k < n}
    /\ purges' = purges + 1
    /\ released' = count
    /\ UNCHANGED <<memVars, dbVars, pubVars, acked, fresh, crashes>>

NextKey(k) == k \in pkeys /\ \A j \in pkeys : k <= j

\* db.Delete of the next key in key order.
PurgeDelete ==
    /\ purge = "delete"
    /\ \E k \in pkeys : /\ NextKey(k)
                        /\ msgs' = Drop(msgs, k)
                        /\ pkeys' = pkeys \ {k}
    /\ UNCHANGED <<memVars, dbSeq, pubVars, histVars, purge, purges, crashes>>

\* db.Delete fails: Purge returns, the sequence stays as it is.
PurgeDeleteFails ==
    /\ "delete" \in Faults
    /\ purge = "delete"
    /\ pkeys # {}
    /\ purge' = "idle"
    /\ pkeys' = {}
    /\ UNCHANGED <<memVars, dbVars, pubVars, histVars, purges, crashes>>

\* atomic.StoreUint64(&t.seq, 0)
PurgeReset ==
    /\ purge = "delete"
    /\ pkeys = {}
    /\ seq' = 0
    /\ purge' = "setseq"
    /\ UNCHANGED <<subs, ch, dbVars, pubVars, histVars, pkeys, purges, crashes>>

\* db.SetUint64(seqKey, 0); an error is returned to the operator.
PurgePersist ==
    /\ purge = "setseq"
    /\ \/ dbSeq' = 0
       \/ "seqWrite" \in Faults /\ dbSeq' = dbSeq
    /\ purge' = "idle"
    /\ UNCHANGED <<memVars, msgs, pubVars, histVars, pkeys, purges, crashes>>

Purge == PurgeScan \/ PurgeScanFails \/ PurgeDelete \/ PurgeDeleteFails
            \/ PurgeReset \/ PurgePersist

-----------------------------------------------------------------------------
(* The process stops at any point and LoadFromDir opens the topic again.   *)
(* Badger is opened with SyncWrites, so every completed write survives.    *)

\* loadSeq: the counter restarts from the key, or from 0 when it cannot be read.
LoadSeq ==
    \/ seq' = dbSeq
    \/ "seqRead" \in Faults /\ seq' = 0

Restart ==
    /\ crashes < MaxCrashes
    /\ crashes' = crashes + 1
    /\ LoadSeq
    /\ subs' = {}
    /\ ch' = [k \in Subs |-> <<>>]
    /\ pc' = [p \in Publishers |-> "idle"]
    /\ my' = [p \in Publishers |-> Idle(p)]
    /\ todo' = [p \in Publishers |-> {}]
    /\ fresh' = {}
    /\ purge' = "idle" /\ pkeys' = {}
    /\ UNCHANGED <<dbVars, count, acked, released, purges>>

Next ==
    \/ \E p \in Publishers : Publish(p)
    \/ \E k \in Subs : Subscribe(k) \/ Unsubscribe(k) \/ Recv(k)
    \/ Purge
    \/ Restart

Spec == Init /\ [][Next]_vars

-----------------------------------------------------------------------------
(* Properties. *)

PubStates == {"idle", "persist", "setseq", "rlock", "fanout"}

\* Type invariant; a subscriber channel never holds more than subChanSize messages.
TypeOK ==
    /\ seq \in Nat /\ dbSeq \in Nat
    /\ DOMAIN msgs \subseteq Nat
    /\ \A k \in DOMAIN msgs : msgs[k] \in Message
    /\ subs \subseteq Subs
    /\ ch \in [Subs -> Seq(Entry)]
    /\ \A k \in Subs : Len(ch[k]) <= ChanSize
    /\ pc \in [Publishers -> PubStates]
    /\ my \in [Publishers -> Entry]
    /\ todo \in [Publishers -> SUBSET Subs]
    /\ count \in [Publishers -> Nat]
    /\ acked \subseteq Entry /\ fresh \subseteq acked
    /\ released \in [Publishers -> Nat]
    /\ purge \in {"idle", "delete", "setseq"}
    /\ pkeys \subseteq Nat
    /\ crashes \in Nat /\ purges \in Nat

\* A message whose Publish returned without error in this process is in the
\* store under the number it was given: no other Publish, failed write or purge
\* puts something else there or takes it away, unless the operator asked for it.
AckedInProcess == \A e \in fresh : Released(e) \/ Stored(e)

\* Publish hands a message to a subscriber channel only after the message is in
\* the store, and it is still there, under the same number, while it waits.
StoredBeforeFanout ==
    \A k \in Subs : \A i \in DOMAIN ch[k] : Released(ch[k][i]) \/ Stored(ch[k][i])

\* README.md:12: an acknowledged message survives the stop of the process at any
\* point, and what is published after the restart does not overwrite it.
AckedDurable == \A e \in acked : Released(e) \/ Stored(e)

\* A subscriber sees the messages of one publisher in the order that publisher
\* sent them and none of them twice, whatever other publishers, purges and
\* failed writes do to the sequence numbers. (The order of seq, which README.md:68
\* promises for the whole topic, is not kept between two publishers: nothing ties
\* the order of the fan-outs to the order of the atomic adds.)
PublisherFIFO ==
    \A k \in Subs : \A i, j \in DOMAIN ch[k] :
        i < j /\ ch[k][i].msg.by = ch[k][j].msg.by
            => ch[k][i].msg.n < ch[k][j].msg.n

-----------------------------------------------------------------------------
(* The abstract specification a topic implements. *)

Promised == {e \in acked : ~Released(e)}

Log == INSTANCE DurableLog WITH store <- msgs, log <- Promised

\* README.md:12: to its publishers a topic is one durable log. Whatever the
\* steps of Publish, Purge and a restart in between do, an acknowledged message
\* keeps its number, the next one acknowledged gets a larger number, nothing is
\* written over it, and only the operator's purge takes it away.
ImplementsLog == Log!Spec
=============================================================================
