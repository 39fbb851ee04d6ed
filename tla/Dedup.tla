------------------------------- MODULE Dedup -------------------------------
(***************************************************************************)
(* core/dedup/dedup.go and session.handlePublish: how the broker recognises *)
(* a message that a producer sends again under the same idempotency id.    *)
(*                                                                         *)
(* The store is one for the whole broker. handlePublish calls Check, then  *)
(* Topic.Publish, then Remember, and each of the two store calls holds the *)
(* store's mutex only for itself: between them other sessions run. The id  *)
(* comes from the envelope; a payload without envelope gets a fresh id and *)
(* never meets this store twice. Topic.Publish is one step here (Topic has *)
(* its detail): the message is in the topic or the call fails.             *)
(***************************************************************************)
EXTENDS Naturals, Sequences, FiniteSets

CONSTANTS
    Handlers,       \* sessions, each with one reader goroutine in handlePublish
    Ids,            \* idempotency ids
    TTL,            \* Store.ttl, in ticks
    Cap,            \* Store.capacity
    Faults,         \* which calls may fail in this instance
    Overlap,        \* TRUE: two sessions may carry the same id at once
    CleanStop,      \* TRUE: the process stops only between publishes
    MaxTime,        \* bound: ticks of the clock
    MaxLog,         \* bound: messages in the topic
    MaxRestarts,    \* bound: restarts
    NoId            \* no id in hand

ASSUME DedupAssumption ==
    /\ TTL \in Nat /\ Cap \in Nat \ {0}
    /\ Faults \subseteq {"publish", "persist", "delete", "get"}
    /\ Overlap \in BOOLEAN /\ CleanStop \in BOOLEAN
    /\ IsFiniteSet(Handlers)
    /\ NoId \notin Ids
ASSUME DedupBounds == MaxTime \in Nat /\ MaxLog \in Nat /\ MaxRestarts \in Nat

VARIABLES
    lru,        \* Store.lru: id to expiry
    order,      \* Store.order: ids, oldest first
    db,         \* Badger: the "dedup:<id>" keys, id to expiry
    now,        \* the clock
    pc, key,    \* where each handler is, and the id it carries
    log,        \* history: what Topic.Publish stored, with the time
    acked,      \* history: ids a producer was sent a PUBACK for
    reject,     \* history: the last duplicate verdict: after its time? on a reloaded id?
    restarts    \* bounded counter

storeVars == <<lru, order, db>>
hVars     == <<pc, key>>
histVars  == <<log, acked, reject>>
vars == <<storeVars, hVars, histVars, now, restarts>>

NoReject == [late |-> FALSE, reloaded |-> FALSE]
Keys(q) == {q[i] : i \in DOMAIN q}
With(f, k, v) == [x \in DOMAIN f \cup {k} |-> IF x = k THEN v ELSE f[x]]
Without(f, S) == [x \in DOMAIN f \ S |-> f[x]]

-----------------------------------------------------------------------------

Init ==
    /\ lru = [i \in {} |-> 0] /\ db = [i \in {} |-> 0]
    /\ order = <<>>
    /\ now = 0
    /\ pc = [h \in Handlers |-> "idle"]
    /\ key = [h \in Handlers |-> NoId]
    /\ log = <<>> /\ acked = {} /\ reject = NoReject
    /\ restarts = 0

\* The error of a db.Delete is ignored: any of the deleted keys may stay.
Leftover(S) == IF "delete" \in Faults THEN SUBSET S ELSE {{}}

\* Mutant: an entry is kept until someone else pushes it out.
Live_Forever(id) == id \in DOMAIN lru

\* !now.After(e.expiresAt) for an entry that is there.
Live(id) == id \in DOMAIN lru /\ now <= lru[id]

\* evictExpiredLocked: the positions of order it keeps, what order becomes, and the
\* ids it drops everywhere.
Kept == {p \in DOMAIN order : Live(order[p])}
KeptOrder ==
    LET Slots == 1 .. Cardinality(Kept)
        at == CHOOSE f \in [Slots -> Kept] : \A m, n \in Slots : m < n => f[m] < f[n]
    IN  [m \in Slots |-> order[at[m]]]
Expired == {id \in Keys(order) : ~Live(id)}

\* handlePublish up to the verdict of Check, when no session has the id in hand
\* or sessions are allowed to race.
MayCheck(h, id) ==
    /\ pc[h] = "idle"
    /\ Overlap \/ \A g \in Handlers : key[g] # id

\* A duplicate is acknowledged without touching the topic.
Duplicate(id, exp, reloaded) ==
    /\ reject' = [late |-> now > exp, reloaded |-> reloaded]
    /\ acked' = acked \cup {id}
    /\ UNCHANGED <<hVars, log>>

\* Check: the map has the id.
CheckHit(h, id) ==
    /\ MayCheck(h, id)
    /\ id \in DOMAIN lru \ Expired
    /\ lru' = Without(lru, Expired)
    /\ order' = KeptOrder
    /\ \E L \in Leftover(Expired) : db' = Without(db, Expired \ L)
    /\ Duplicate(id, lru[id], id \notin Keys(order))
    /\ UNCHANGED <<now, restarts>>

\* loadFromDB finds the id and it has not expired: it goes into the map, but not
\* into order.
CheckReload(h, id) ==
    /\ MayCheck(h, id)
    /\ id \notin DOMAIN lru \ Expired
    /\ order' = KeptOrder
    /\ \E L \in Leftover(Expired) :
            LET d == Without(db, Expired \ L) IN
            /\ id \in DOMAIN d /\ now <= d[id]
            /\ db' = d
            /\ lru' = With(Without(lru, Expired), id, d[id])
            /\ Duplicate(id, d[id], TRUE)
    /\ UNCHANGED <<now, restarts>>

\* Mutant: SeenOrRemember in the place of Check: the id counts as processed
\* before its message is in the topic.
CheckMiss_Remembers(h, id) ==
    /\ MayCheck(h, id)
    /\ Len(log) + Cardinality({g \in Handlers : pc[g] = "publish"}) < MaxLog
    /\ id \notin DOMAIN lru \ Expired
    /\ id \notin DOMAIN db
    /\ lru' = With(Without(lru, Expired), id, now + TTL)
    /\ order' = Append(KeptOrder, id)
    /\ db' = With(Without(db, Expired), id, now + TTL)
    /\ pc' = [pc EXCEPT ![h] = "publish"]
    /\ key' = [key EXCEPT ![h] = id]
    /\ UNCHANGED <<histVars, now, restarts>>

\* db.Get finds out what is there, or fails, which loadFromDB takes for a miss.
GetAnswers == IF "get" \in Faults THEN BOOLEAN ELSE {TRUE}

\* Neither has it (an expired key is deleted): handlePublish goes on to Publish.
CheckMiss(h, id) ==
    /\ MayCheck(h, id)
    /\ Len(log) + Cardinality({g \in Handlers : pc[g] = "publish"}) < MaxLog
    /\ id \notin DOMAIN lru \ Expired
    /\ lru' = Without(lru, Expired)
    /\ order' = KeptOrder
    /\ \E L \in Leftover(Expired), M \in Leftover({id}), read \in GetAnswers :
            LET d == Without(db, Expired \ L) IN
            /\ read /\ id \in DOMAIN d => now > d[id]
            /\ db' = IF read THEN Without(d, {id} \ M) ELSE d
    /\ pc' = [pc EXCEPT ![h] = "publish"]
    /\ key' = [key EXCEPT ![h] = id]
    /\ UNCHANGED <<histVars, now, restarts>>

\* Topic.Publish stores the message.
PublishOk(h) ==
    /\ pc[h] = "publish"
    /\ log' = Append(log, [id |-> key[h], at |-> now])
    /\ pc' = [pc EXCEPT ![h] = "remember"]
    /\ UNCHANGED <<storeVars, key, acked, reject, now, restarts>>

\* Topic.Publish fails: the error ends the session, nothing is remembered.
PublishFails(h) ==
    /\ "publish" \in Faults
    /\ pc[h] = "publish"
    /\ pc' = [pc EXCEPT ![h] = "idle"]
    /\ key' = [key EXCEPT ![h] = NoId]
    /\ UNCHANGED <<storeVars, histVars, now, restarts>>

\* Mutant: the capacity is exceeded by one before anything goes.
Overflow_OffByOne(o) == IF Len(o) > Cap + 1 THEN {Head(o)} ELSE {}

\* Mutant: capacity pushes out the newest entry.
Overflow_Newest(o) == IF Len(o) > Cap THEN {o[Len(o)]} ELSE {}

\* for len(s.order) > s.capacity: the oldest entry goes. order grows by one at a
\* time, so the loop runs at most once.
Overflow(o) == IF Len(o) > Cap THEN {Head(o)} ELSE {}

\* Mutant: the entry is kept in memory only.
Remember_MemoryOnly(h) ==
    LET o == Append(order, key[h]) IN
    /\ pc[h] = "remember"
    /\ lru' = Without(With(lru, key[h], now + TTL), Overflow(o))
    /\ order' = IF Overflow(o) = {} THEN o ELSE Tail(o)
    /\ db' = Without(db, Overflow(o))
    /\ acked' = acked \cup {key[h]}
    /\ pc' = [pc EXCEPT ![h] = "idle"]
    /\ key' = [key EXCEPT ![h] = NoId]
    /\ UNCHANGED <<log, reject, now, restarts>>

\* Remember, and the PUBACK: the entry goes into the map, to the end of order and
\* into the database (a failed write is only logged).
Remember(h) ==
    LET o == Append(order, key[h]) IN
    /\ pc[h] = "remember"
    /\ lru' = Without(With(lru, key[h], now + TTL), Overflow(o))
    /\ order' = IF Overflow(o) = {} THEN o ELSE Tail(o)
    /\ \E d \in {With(db, key[h], now + TTL)}
                    \cup (IF "persist" \in Faults THEN {db} ELSE {}),
          L \in Leftover(Overflow(o)) :
            db' = Without(d, Overflow(o) \ L)
    /\ acked' = acked \cup {key[h]}
    /\ pc' = [pc EXCEPT ![h] = "idle"]
    /\ key' = [key EXCEPT ![h] = NoId]
    /\ UNCHANGED <<log, reject, now, restarts>>

Tick ==
    /\ now < MaxTime
    /\ now' = now + 1
    /\ UNCHANGED <<storeVars, hVars, histVars, restarts>>

\* The process stops and New starts with an empty map over the same database.
Restart ==
    /\ restarts < MaxRestarts
    /\ CleanStop => \A h \in Handlers : pc[h] = "idle"
    /\ restarts' = restarts + 1
    /\ lru' = [i \in {} |-> 0]
    /\ order' = <<>>
    /\ pc' = [h \in Handlers |-> "idle"]
    /\ key' = [h \in Handlers |-> NoId]
    /\ UNCHANGED <<db, histVars, now>>

Next ==
    \/ \E h \in Handlers, id \in Ids :
            CheckHit(h, id) \/ CheckReload(h, id) \/ CheckMiss(h, id)
    \/ \E h \in Handlers : PublishOk(h) \/ PublishFails(h) \/ Remember(h)
    \/ Tick
    \/ Restart

Spec == Init /\ [][Next]_vars

-----------------------------------------------------------------------------
(* Properties. *)

\* Type invariant; order never grows past the capacity.
DedupTypeOK ==
    /\ DOMAIN lru \subseteq Ids /\ \A i \in DOMAIN lru : lru[i] \in Nat
    /\ DOMAIN db \subseteq Ids /\ \A i \in DOMAIN db : db[i] \in Nat
    /\ order \in Seq(Ids) /\ Len(order) <= Cap
    /\ pc \in [Handlers -> {"idle", "publish", "remember"}]
    /\ key \in [Handlers -> Ids \cup {NoId}]
    /\ log \in Seq([id : Ids, at : Nat])
    /\ acked \subseteq Ids
    /\ reject \in [late : BOOLEAN, reloaded : BOOLEAN]
    /\ now \in Nat /\ restarts \in Nat

\* README.md:112: sending again under the same id makes no second message. The
\* store promises it for TTL, and as long as capacity has not pushed the id out:
\* that takes Cap other messages, less the ones whose handler stored before and
\* remembered after.
DedupWindow ==
    \A i, j \in DOMAIN log :
        i < j /\ log[i].id = log[j].id
            => \/ log[j].at > log[i].at + TTL
               \/ j - i - 1 >= Cap + 1 - Cardinality(Handlers)

\* A PUBACK, the one for a duplicate too, means that a message with this id is in
\* the topic: a publish that failed leaves nothing that would reject the retry.
AckedIsLogged == \A id \in acked : \E i \in DOMAIN log : log[i].id = id

\* What the map would reject, the database would too: a restart forgets nothing.
RestartForgetsNothing ==
    \A id \in DOMAIN lru : id \in DOMAIN db /\ db[id] = lru[id]

\* An id that has expired is accepted again. The exception is an id that Check
\* took back from the database: order does not know it, so nothing evicts it.
OwnRejectsFresh == reject.late => reject.reloaded
=============================================================================
