---------------------------- MODULE DedupProofs ----------------------------
(***************************************************************************)
(* Theorems about Dedup, for any number of sessions and ids, any TTL and   *)
(* any capacity. The main one is DedupWindow: how long, in time and in     *)
(* messages, the store recognises an id.                                   *)
(***************************************************************************)
EXTENDS Dedup, FiniteSetTheorems, TLAPS

-----------------------------------------------------------------------------
(* The inductive invariants. *)

Busy == {"publish", "remember"}

\* A handler has an id in hand exactly while it is busy.
HandInv == \A h \in Handlers : key[h] \in Ids <=> pc[h] \in Busy

TypeInv == DedupTypeOK /\ HandInv

Logged == {log[i].id : i \in DOMAIN log}

\* Whatever could make the broker say "duplicate" comes from a stored message.
LoggedInv ==
    /\ acked \cup DOMAIN lru \cup DOMAIN db \subseteq Logged
    /\ \A h \in Handlers : pc[h] = "remember" => key[h] \in Logged

\* order holds every id once, with its entry in the map, and never one that a handler
\* still has in hand; handlers have different ids in hand.
OrderInv ==
    /\ \A p, q \in DOMAIN order : order[p] = order[q] => p = q
    /\ Keys(order) \subseteq DOMAIN lru
    /\ \A h \in Handlers : key[h] \notin Keys(order)
    /\ \A g, h \in Handlers : g # h /\ key[g] = key[h] => key[g] = NoId

\* Every message of y is before some message of x.
Precedes(y, x) ==
    \E i \in DOMAIN log :
        log[i].id = x /\ \A j \in DOMAIN log : log[j].id = y => j < i

\* The ids remembered after the id at position p, or still to be remembered.
Followers(p) ==
    {order[q] : q \in {q \in DOMAIN order : q > p}}
        \cup {key[h] : h \in {h \in Handlers : pc[h] = "remember"}}

\* Those of them whose messages were stored before it nevertheless.
Stragglers(p) == {y \in Followers(p) : Precedes(y, order[p])}

\* Stored before and remembered after: one message for every other handler at most.
StragglerInv ==
    \A p \in DOMAIN order :
        /\ IsFiniteSet(Stragglers(p))
        /\ Cardinality(Stragglers(p)) < Cardinality(Handlers)

\* Message i no longer protects its id: too old, or too many messages ago.
Passed(i) ==
    \/ now > log[i].at + TTL
    \/ Len(log) - i >= Cap + 1 - Cardinality(Handlers)

\* A message protects its id until then, by its key in the database, or, until the
\* key is written, by the handler that has the id in hand.
ProtectedInv ==
    \A i \in DOMAIN log :
        \/ Passed(i)
        \/ \E h \in Handlers : pc[h] = "remember" /\ key[h] = log[i].id
        \/ log[i].id \in DOMAIN db /\ db[log[i].id] >= log[i].at + TTL

\* A handler about to publish has an id that nothing protects.
FreeInv ==
    \A h \in Handlers : pc[h] = "publish" =>
        \A i \in DOMAIN log : log[i].id = key[h] => Passed(i)

TimeInv == \A i \in DOMAIN log : log[i].at <= now

WindowInv ==
    /\ TypeInv /\ RestartForgetsNothing /\ OrderInv
    /\ StragglerInv /\ TimeInv /\ ProtectedInv /\ FreeInv /\ DedupWindow

-----------------------------------------------------------------------------
(* evictExpiredLocked keeps a part of order, in the same order. *)

\* The elements of a finite set of numbers can be listed in increasing order: the
\* place of each is the number of elements up to it.
LEMMA Enumerate ==
    ASSUME NEW S \in SUBSET Nat, IsFiniteSet(S)
    PROVE  \E f \in [1 .. Cardinality(S) -> S] :
                \A m, n \in 1 .. Cardinality(S) : m < n => f[m] < f[n]
<1> DEFINE Slots == 1 .. Cardinality(S)
           UpTo(i) == {j \in S : j <= i}
           Rank == [i \in S |-> Cardinality(UpTo(i))]
<1>1. Cardinality(S) \in Nat
  BY FS_CardinalityType
<1>2. \A i \in S : IsFiniteSet(UpTo(i)) /\ Cardinality(UpTo(i)) \in Slots
  <2> TAKE i \in S
  <2>1. IsFiniteSet(UpTo(i)) /\ Cardinality(UpTo(i)) <= Cardinality(S)
    BY FS_Subset
  <2>2. UpTo(i) # {}
    OBVIOUS
  <2>3. Cardinality(UpTo(i)) \in Nat /\ Cardinality(UpTo(i)) # 0
    BY <2>1, <2>2, FS_EmptySet, FS_CardinalityType
  <2> QED BY <1>1, <2>1, <2>3
<1>3. ASSUME NEW i \in S, NEW j \in S, i < j PROVE Rank[i] < Rank[j]
  <2>0. i \in Nat /\ j \in Nat /\ \A x \in S : x \in Nat
    OBVIOUS
  <2>1. UpTo(i) \in SUBSET UpTo(j) /\ UpTo(i) # UpTo(j)
    <3>1. \A x \in S : x <= i => x <= j
      BY <1>3, <2>0
    <3>2. j \in UpTo(j) /\ j \notin UpTo(i)
      BY <1>3, <2>0
    <3> QED BY <3>1, <3>2
  <2>2. Cardinality(UpTo(i)) <= Cardinality(UpTo(j))
        /\ Cardinality(UpTo(i)) # Cardinality(UpTo(j))
    BY <1>2, <2>1, FS_Subset
  <2> QED BY <1>2, <2>2
<1>4. Rank \in [S -> Slots]
  BY <1>2
<1> HIDE DEF Rank
<1>5. Rank \in Injection(S, Slots)
  BY <1>3, <1>4 DEF Injection, IsInjective
<1>6. Rank \in Surjection(S, Slots)
  <2>1. IsFiniteSet(Slots) /\ Cardinality(Slots) = Cardinality(S)
    BY <1>1, FS_Interval
  <2> QED BY <1>5, <2>1, FS_Injection
<1> DEFINE f == [m \in Slots |-> CHOOSE i \in S : Rank[i] = m]
<1>7. \A m \in Slots : f[m] \in S /\ Rank[f[m]] = m
  BY <1>6 DEF Surjection
<1>8. f \in [Slots -> S]
  BY <1>7
<1> HIDE DEF f
<1>9. ASSUME NEW m \in Slots, NEW n \in Slots, m < n PROVE f[m] < f[n]
  <2>1. f[m] \in S /\ f[n] \in S /\ Rank[f[m]] = m /\ Rank[f[n]] = n
    BY <1>7
  <2>2. f[n] < f[m] => n < m
    BY <1>3, <2>1
  <2>3. f[m] # f[n] /\ ~(n < m)
    BY <1>1, <1>9, <2>1
  <2>4. f[m] \in Nat /\ f[n] \in Nat
    BY <2>1
  <2> QED BY <2>2, <2>3, <2>4
<1> QED BY <1>8, <1>9

\* What the proofs use of KeptOrder: each of its entries is live and comes from an
\* entry of order, later ones from later ones.
LEMMA KeptOrderLemma ==
    ASSUME order \in Seq(Ids)
    PROVE  /\ KeptOrder \in Seq(Ids) /\ Len(KeptOrder) <= Len(order)
           /\ \E f \in [DOMAIN KeptOrder -> DOMAIN order] :
                /\ \A m \in DOMAIN KeptOrder :
                        KeptOrder[m] = order[f[m]] /\ Live(KeptOrder[m])
                /\ \A m, n \in DOMAIN KeptOrder : m < n => f[m] < f[n]
<1> DEFINE Slots == 1 .. Cardinality(Kept)
           Increasing(f) == \A m, n \in Slots : m < n => f[m] < f[n]
           at == CHOOSE f \in [Slots -> Kept] : Increasing(f)
<1>1. /\ IsFiniteSet(DOMAIN order) /\ Cardinality(DOMAIN order) = Len(order)
      /\ Kept \in SUBSET DOMAIN order
  <2>1. DOMAIN order = 1 .. Len(order) /\ Len(order) \in Nat
    OBVIOUS
  <2> QED BY <2>1, FS_Interval DEF Kept
<1>2. IsFiniteSet(Kept) /\ Cardinality(Kept) <= Len(order) /\ Kept \in SUBSET Nat
  BY <1>1, FS_Subset
<1>3. Cardinality(Kept) \in Nat
  BY <1>2, FS_CardinalityType
<1>4. at \in [Slots -> Kept] /\ Increasing(at)
  <2>1. \E f \in [Slots -> Kept] : Increasing(f)
    BY <1>2, Enumerate
  <2> QED BY <2>1
<1>5. KeptOrder = [m \in Slots |-> order[at[m]]]
  BY DEF KeptOrder
<1> HIDE DEF at
<1>6. \A m \in Slots : at[m] \in DOMAIN order /\ order[at[m]] \in Ids /\ Live(order[at[m]])
  BY <1>4 DEF Kept
<1>7. KeptOrder \in Seq(Ids) /\ Len(KeptOrder) = Cardinality(Kept) /\ DOMAIN KeptOrder = Slots
  BY <1>3, <1>5, <1>6
<1>8. at \in [DOMAIN KeptOrder -> DOMAIN order]
  BY <1>4, <1>6, <1>7
<1>9. \A m \in DOMAIN KeptOrder : KeptOrder[m] = order[at[m]] /\ Live(KeptOrder[m])
  BY <1>5, <1>6, <1>7
<1>10. \A m, n \in DOMAIN KeptOrder : m < n => at[m] < at[n]
  BY <1>4, <1>7
<1> QED BY <1>2, <1>7, <1>8, <1>9, <1>10

-----------------------------------------------------------------------------
(* Types, and what a verdict rests on. *)

\* The list of Remember, after it has dropped the head it has no room for.
LEMMA RememberOrder ==
    ASSUME TypeInv, NEW h \in Handlers, Remember(h)
    PROVE  /\ key[h] \in Ids /\ Len(order) \in Nat
           /\ \/ /\ Len(order) < Cap
                 /\ Overflow(Append(order, key[h])) = {}
                 /\ order' = Append(order, key[h])
              \/ /\ Len(order) = Cap
                 /\ Overflow(Append(order, key[h])) = {order[1]}
                 /\ order' = Tail(Append(order, key[h]))
<1> USE DedupAssumption DEF TypeInv, DedupTypeOK, HandInv, Busy
<1>1. key[h] \in Ids /\ order \in Seq(Ids) /\ Len(order) \in Nat /\ Len(order) <= Cap
  BY DEF Remember
<1>2. CASE Len(order) < Cap
  BY <1>1, <1>2 DEF Remember, Overflow
<1>3. CASE Len(order) = Cap
  <2> DEFINE o == Append(order, key[h])
  <2>1. Len(o) = Cap + 1 /\ Len(order) > 0
    BY <1>1, <1>3
  <2>2. Head(o) = order[1]
    BY <1>1, <2>1
  <2>3. Overflow(o) = {order[1]}
    BY <2>1, <2>2 DEF Overflow
  <2> QED BY <1>1, <1>3, <2>3 DEF Remember
<1> QED BY <1>1, <1>2, <1>3

\* Every step keeps the types; Remember drops an entry when order is full.
LEMMA TypeStep == TypeInv /\ [Next]_vars => TypeInv'
<1> SUFFICES ASSUME TypeInv, [Next]_vars PROVE TypeInv'
  OBVIOUS
<1>0. KeptOrder \in Seq(Ids) /\ Len(KeptOrder) <= Cap
  BY KeptOrderLemma, DedupAssumption DEF TypeInv, DedupTypeOK
<1> USE DedupAssumption DEF TypeInv, DedupTypeOK, HandInv, Busy, vars, storeVars, hVars, histVars
<1>1. ASSUME NEW h \in Handlers, NEW id \in Ids, CheckHit(h, id) PROVE TypeInv'
  BY <1>1, <1>0 DEF CheckHit, MayCheck, Duplicate, Without
<1>2. ASSUME NEW h \in Handlers, NEW id \in Ids, CheckReload(h, id) PROVE TypeInv'
  BY <1>2, <1>0 DEF CheckReload, MayCheck, Duplicate, With, Without
<1>3. ASSUME NEW h \in Handlers, NEW id \in Ids, CheckMiss(h, id) PROVE TypeInv'
  BY <1>3, <1>0 DEF CheckMiss, MayCheck, Without
<1>4. ASSUME NEW h \in Handlers, PublishOk(h) PROVE TypeInv'
  BY <1>4 DEF PublishOk
<1>5. ASSUME NEW h \in Handlers, PublishFails(h) PROVE TypeInv'
  BY <1>5 DEF PublishFails
<1>6. ASSUME NEW h \in Handlers, Remember(h) PROVE TypeInv'
  <2>1. key[h] \in Ids
    BY <1>6, RememberOrder
  <2>2. order' \in Seq(Ids) /\ Len(order') <= Cap
    <3>1. /\ Append(order, key[h]) \in Seq(Ids) /\ Len(order) \in Nat
          /\ Len(Append(order, key[h])) = Len(order) + 1
      BY <2>1
    <3>2. CASE order' = Append(order, key[h]) /\ Len(order) < Cap
      BY <3>1, <3>2
    <3>3. CASE order' = Tail(Append(order, key[h])) /\ Len(order) = Cap
      BY <3>1, <3>3
    <3> QED BY <1>6, <3>2, <3>3, RememberOrder
  <2>3. /\ DOMAIN lru' \subseteq Ids /\ \A i \in DOMAIN lru' : lru'[i] \in Nat
        /\ DOMAIN db' \subseteq Ids /\ \A i \in DOMAIN db' : db'[i] \in Nat
    BY <1>6, <2>1 DEF Remember, With, Without
  <2> QED BY <1>6, <2>1, <2>2, <2>3 DEF Remember
<1>7. ASSUME Tick PROVE TypeInv'
  BY <1>7 DEF Tick
<1>8. ASSUME Restart PROVE TypeInv'
  BY <1>8 DEF Restart
<1>9. ASSUME UNCHANGED vars PROVE TypeInv'
  BY <1>9 DEF vars
<1> QED BY <1>1, <1>2, <1>3, <1>4, <1>5, <1>6, <1>7, <1>8, <1>9 DEF Next

\* A store without entries and handlers without work start there.
LEMMA InitTypes == Init => TypeInv
BY DedupAssumption DEF Init, TypeInv, DedupTypeOK, HandInv, Busy, NoReject

\* The list of ids never grows past the capacity, the map and the database hold expiry
\* times of ids, and a handler has an id in hand exactly from its Check to the end of
\* its Remember.
THEOREM DedupTypes == Spec => []DedupTypeOK
<1>1. TypeInv => DedupTypeOK
  BY DEF TypeInv
<1> QED BY <1>1, InitTypes, TypeStep, PTL DEF Spec

\* Entries come from Remember, which follows a publish, or from the database.
LEMMA LoggedStep ==
    ASSUME TypeInv, LoggedInv, [Next]_vars
    PROVE  LoggedInv'
<1>0. ASSUME NEW h \in Handlers, PublishOk(h) PROVE Logged' = Logged \cup {key[h]}
  <2>1. /\ log \in Seq([id : Ids, at : Nat]) /\ Len(log) \in Nat
        /\ log' = Append(log, [id |-> key[h], at |-> now])
        /\ [id |-> key[h], at |-> now] \in [id : Ids, at : Nat]
    BY <1>0 DEF TypeInv, DedupTypeOK, HandInv, Busy, PublishOk
  <2>2. /\ DOMAIN log' = DOMAIN log \cup {Len(log) + 1}
        /\ \A i \in DOMAIN log : log'[i] = log[i]
        /\ log'[Len(log) + 1].id = key[h]
    BY <2>1
  <2> QED BY <2>2 DEF Logged
<1>00. ASSUME UNCHANGED log PROVE Logged' = Logged
  BY <1>00 DEF Logged
<1> USE DEF TypeInv, DedupTypeOK, LoggedInv, vars, storeVars, hVars, histVars
<1>1. ASSUME NEW h \in Handlers, NEW id \in Ids, CheckHit(h, id) PROVE LoggedInv'
  BY <1>1, <1>00 DEF CheckHit, MayCheck, Duplicate, Without
<1>2. ASSUME NEW h \in Handlers, NEW id \in Ids, CheckReload(h, id) PROVE LoggedInv'
  BY <1>2, <1>00 DEF CheckReload, MayCheck, Duplicate, With, Without
<1>3. ASSUME NEW h \in Handlers, NEW id \in Ids, CheckMiss(h, id) PROVE LoggedInv'
  BY <1>3, <1>00 DEF CheckMiss, MayCheck, Without
<1>4. ASSUME NEW h \in Handlers, PublishOk(h) PROVE LoggedInv'
  BY <1>4, <1>0 DEF PublishOk
<1>5. ASSUME NEW h \in Handlers, PublishFails(h) PROVE LoggedInv'
  BY <1>5, <1>00 DEF PublishFails
<1>6. ASSUME NEW h \in Handlers, Remember(h) PROVE LoggedInv'
  BY <1>6, <1>00 DEF Remember, With, Without
<1>7. ASSUME Tick PROVE LoggedInv'
  BY <1>7, <1>00 DEF Tick
<1>8. ASSUME Restart PROVE LoggedInv'
  BY <1>8, <1>00 DEF Restart
<1>9. ASSUME UNCHANGED vars PROVE LoggedInv'
  BY <1>9, <1>00 DEF vars
<1> QED BY <1>1, <1>2, <1>3, <1>4, <1>5, <1>6, <1>7, <1>8, <1>9 DEF Next

\* A PUBACK means that the topic has a message with the id, whichever calls fail,
\* however sessions race and wherever the process stops: a publish that failed leaves
\* nothing in the map or the database that would answer the retry.
THEOREM DedupAckedIsLogged == Spec => []AckedIsLogged
<1>1. Init => LoggedInv
  BY DEF Init, LoggedInv, Logged
<1>2. LoggedInv => AckedIsLogged
  BY DEF LoggedInv, Logged, AckedIsLogged
<1> QED BY <1>1, <1>2, InitTypes, TypeStep, LoggedStep, PTL DEF Spec

\* Every step changes the entry of an id in the map and in the database together, or
\* drops it from the map only.
LEMMA ForgetStep ==
    ASSUME "persist" \notin Faults, TypeInv, RestartForgetsNothing, [Next]_vars
    PROVE  RestartForgetsNothing'
<1> USE DEF TypeInv, DedupTypeOK, RestartForgetsNothing, vars, storeVars, hVars, histVars
<1>1. ASSUME NEW h \in Handlers, NEW id \in Ids, CheckHit(h, id) PROVE RestartForgetsNothing'
  BY <1>1 DEF CheckHit, MayCheck, Duplicate, Without
<1>2. ASSUME NEW h \in Handlers, NEW id \in Ids, CheckReload(h, id) PROVE RestartForgetsNothing'
  BY <1>2 DEF CheckReload, MayCheck, Duplicate, With, Without
<1>3. ASSUME NEW h \in Handlers, NEW id \in Ids, CheckMiss(h, id) PROVE RestartForgetsNothing'
  BY <1>3 DEF CheckMiss, MayCheck, Without
<1>4. ASSUME NEW h \in Handlers, PublishOk(h) PROVE RestartForgetsNothing'
  BY <1>4 DEF PublishOk
<1>5. ASSUME NEW h \in Handlers, PublishFails(h) PROVE RestartForgetsNothing'
  BY <1>5 DEF PublishFails
<1>6. ASSUME NEW h \in Handlers, Remember(h) PROVE RestartForgetsNothing'
  BY <1>6 DEF Remember, With, Without
<1>7. ASSUME Tick PROVE RestartForgetsNothing'
  BY <1>7 DEF Tick
<1>8. ASSUME Restart PROVE RestartForgetsNothing'
  BY <1>8 DEF Restart
<1>9. ASSUME UNCHANGED vars PROVE RestartForgetsNothing'
  BY <1>9 DEF vars
<1> QED BY <1>1, <1>2, <1>3, <1>4, <1>5, <1>6, <1>7, <1>8, <1>9 DEF Next

\* If every write of a key succeeds, the database rejects whatever the map rejects: a
\* restart loses no id, whatever deletes failed before.
THEOREM DedupRestart ==
    ASSUME "persist" \notin Faults
    PROVE  Spec => []RestartForgetsNothing
<1>1. Init => RestartForgetsNothing
  BY DEF Init, RestartForgetsNothing
<1> QED BY <1>1, InitTypes, TypeStep, ForgetStep, PTL DEF Spec

\* Check evicts before it looks, so an entry that order knows is never too old. Only
\* ids taken back from the database are rejected after their time.
THEOREM DedupRejectsFresh == Spec => []OwnRejectsFresh
<1>1. Init => OwnRejectsFresh
  BY DEF Init, OwnRejectsFresh, NoReject
<1>2. ASSUME TypeInv, OwnRejectsFresh, [Next]_vars PROVE OwnRejectsFresh'
  <2>1. ASSUME NEW h \in Handlers, NEW id \in Ids, CheckHit(h, id) PROVE OwnRejectsFresh'
    <3>1. id \in Keys(order) => now <= lru[id]
      BY <2>1 DEF CheckHit, Expired, Live
    <3>2. now \in Nat /\ lru[id] \in Nat
      BY <1>2, <2>1 DEF TypeInv, DedupTypeOK, CheckHit
    <3>3. reject'.late => now > lru[id]
      BY <2>1 DEF CheckHit, Duplicate
    <3>4. reject'.reloaded <=> id \notin Keys(order)
      BY <2>1 DEF CheckHit, Duplicate
    <3> QED BY <3>1, <3>2, <3>3, <3>4 DEF OwnRejectsFresh
  <2>2. ASSUME NEW h \in Handlers, NEW id \in Ids, CheckReload(h, id) PROVE OwnRejectsFresh'
    BY <2>2 DEF CheckReload, Duplicate, OwnRejectsFresh
  <2>3. ASSUME UNCHANGED reject PROVE OwnRejectsFresh'
    BY <1>2, <2>3 DEF OwnRejectsFresh
  <2> QED
    BY <1>2, <2>1, <2>2, <2>3
       DEF Next, CheckMiss, PublishOk, PublishFails, Remember, Tick, Restart, histVars, vars
<1> QED BY <1>1, <1>2, InitTypes, TypeStep, PTL DEF Spec

-----------------------------------------------------------------------------
(* The window: what order knows. *)

\* What is left of order after an eviction is without repetitions, and each of its
\* ids keeps its entry in the map.
LEMMA KeptKeys ==
    ASSUME TypeInv, OrderInv
    PROVE  /\ \A p, q \in DOMAIN KeptOrder : KeptOrder[p] = KeptOrder[q] => p = q
           /\ Keys(KeptOrder) \subseteq Keys(order)
           /\ Keys(KeptOrder) \subseteq DOMAIN lru \ Expired
<1>1. order \in Seq(Ids)
  BY DEF TypeInv, DedupTypeOK
<1>2. PICK f \in [DOMAIN KeptOrder -> DOMAIN order] :
        /\ \A m \in DOMAIN KeptOrder : KeptOrder[m] = order[f[m]] /\ Live(KeptOrder[m])
        /\ \A m, n \in DOMAIN KeptOrder : m < n => f[m] < f[n]
  BY <1>1, KeptOrderLemma
<1>3. Keys(KeptOrder) \subseteq Keys(order)
  BY <1>2 DEF Keys
<1>4. Keys(KeptOrder) \subseteq DOMAIN lru \ Expired
  BY <1>2 DEF Keys, Live, Expired
<1>5. ASSUME NEW p \in DOMAIN KeptOrder, NEW q \in DOMAIN KeptOrder, KeptOrder[p] = KeptOrder[q]
      PROVE  p = q
  <2>1. f[p] = f[q]
    BY <1>2, <1>5 DEF OrderInv
  <2>2. p \in Nat /\ q \in Nat /\ f[p] \in Nat
    BY <1>1, <1>2, KeptOrderLemma
  <2>3. ~(p < q) /\ ~(q < p)
    BY <1>2, <2>1, <2>2
  <2> QED BY <2>2, <2>3
<1> QED BY <1>3, <1>4, <1>5

\* The positions of order after a Remember that shifts it by s.
LEMMA RememberShift ==
    ASSUME TypeInv, NEW h \in Handlers, Remember(h)
    PROVE  \E s \in {0, 1} :
            /\ s = 0 => Overflow(Append(order, key[h])) = {}
            /\ s = 1 => Len(order) = Cap /\ Overflow(Append(order, key[h])) = {order[1]}
            /\ Len(order) \in Nat /\ Len(order) + 1 - s \in Nat \ {0}
            /\ DOMAIN order' = 1 .. Len(order) + 1 - s
            /\ \A p \in DOMAIN order' :
                    IF p = Len(order) + 1 - s THEN order'[p] = key[h]
                    ELSE p + s \in DOMAIN order /\ order'[p] = order[p + s]
<1>1. /\ order \in Seq(Ids) /\ key[h] \in Ids /\ Len(order) \in Nat /\ Cap \in Nat \ {0}
      /\ DOMAIN order = 1 .. Len(order)
  BY RememberOrder, DedupAssumption DEF TypeInv, DedupTypeOK
<1> DEFINE o == Append(order, key[h])
<1>2. /\ o \in Seq(Ids) /\ Len(o) = Len(order) + 1 /\ o[Len(order) + 1] = key[h]
      /\ \A p \in 1 .. Len(order) : o[p] = order[p]
  BY <1>1
<1>3. CASE Overflow(o) = {} /\ order' = o
  <2>1. DOMAIN order' = 1 .. Len(order) + 1
    BY <1>2, <1>3
  <2>2. \A p \in DOMAIN order' : p # Len(order) + 1 => p \in 1 .. Len(order) /\ p + 0 = p
    BY <1>1, <2>1
  <2>3. \A p \in DOMAIN order' : IF p = Len(order) + 1 THEN order'[p] = key[h]
                               ELSE p + 0 \in DOMAIN order /\ order'[p] = order[p + 0]
    BY <1>1, <1>2, <1>3, <2>2
  <2>4. Len(order) + 1 - 0 = Len(order) + 1 /\ Len(order) + 1 \in Nat \ {0}
    BY <1>1
  <2> HIDE DEF o
  <2> WITNESS 0 \in {0, 1}
  <2> QED BY <1>1, <1>3, <2>1, <2>3, <2>4 DEF o
<1>4. CASE Len(order) = Cap /\ Overflow(o) = {order[1]} /\ order' = Tail(o)
  <2>1. /\ DOMAIN order' = 1 .. Len(order)
        /\ \A p \in 1 .. Len(order) : order'[p] = o[p + 1]
    BY <1>1, <1>2, <1>4
  <2>2. \A p \in DOMAIN order' : p # Len(order) => p + 1 \in 1 .. Len(order)
    BY <1>1, <2>1
  <2>3. \A p \in DOMAIN order' : p # Len(order) => order'[p] = order[p + 1]
    BY <1>2, <2>1, <2>2
  <2>4. order'[Len(order)] = key[h]
    BY <1>1, <1>2, <1>4, <2>1
  <2>5. Len(order) + 1 - 1 = Len(order)
    BY <1>1
  <2> QED BY <1>1, <1>4, <2>1, <2>2, <2>3, <2>4, <2>5
<1> QED BY <1>3, <1>4, RememberOrder

\* An id is checked by one handler at a time, and goes to the end of order when it
\* was not in it.
LEMMA OrderStep ==
    ASSUME ~Overlap, TypeInv, OrderInv, [Next]_vars
    PROVE  OrderInv'
<1> USE DedupAssumption
<1>0. ASSUME NEW h \in Handlers, NEW id \in Ids, MayCheck(h, id)
      PROVE  pc[h] = "idle" /\ \A g \in Handlers : key[g] # id
  BY <1>0 DEF MayCheck
<1>1. ASSUME NEW h \in Handlers, NEW id \in Ids, CheckHit(h, id) \/ CheckReload(h, id)
      PROVE  OrderInv'
  <2>1. order' = KeptOrder /\ UNCHANGED key
    BY <1>1 DEF CheckHit, CheckReload, Duplicate, hVars
  <2>2. DOMAIN lru \ Expired \subseteq DOMAIN lru'
    BY <1>1 DEF CheckHit, CheckReload, Without, With
  <2>3. /\ \A p, q \in DOMAIN order' : order'[p] = order'[q] => p = q
        /\ Keys(order)' \subseteq DOMAIN lru' /\ Keys(order)' \subseteq Keys(order)
    BY <2>1, <2>2, KeptKeys DEF Keys
  <2> QED BY <2>1, <2>3 DEF OrderInv
<1>2. ASSUME NEW h \in Handlers, NEW id \in Ids, CheckMiss(h, id) PROVE OrderInv'
  <2>1. /\ order' = KeptOrder /\ key' = [key EXCEPT ![h] = id]
        /\ id \notin DOMAIN lru \ Expired /\ DOMAIN lru' = DOMAIN lru \ Expired
    BY <1>2 DEF CheckMiss, Without
  <2>2. /\ \A p, q \in DOMAIN order' : order'[p] = order'[q] => p = q
        /\ Keys(order)' \subseteq DOMAIN lru' /\ Keys(order)' \subseteq Keys(order)
    BY <2>1, KeptKeys DEF Keys
  <2>3. id \notin Keys(order)'
    BY <2>1, <2>2
  <2>4. \A g \in Handlers : key'[g] = IF g = h THEN id ELSE key[g]
    BY <2>1 DEF TypeInv, DedupTypeOK
  <2>5. \A g \in Handlers : key[g] # id
    BY <1>0, <1>2 DEF CheckMiss
  <2> QED BY <2>2, <2>3, <2>4, <2>5 DEF OrderInv
<1>3. ASSUME NEW h \in Handlers, PublishOk(h) PROVE OrderInv'
  BY <1>3 DEF PublishOk, OrderInv, Keys, storeVars
<1>4. ASSUME NEW h \in Handlers, PublishFails(h) PROVE OrderInv'
  <2>1. NoId \notin Keys(order)
    BY DEF TypeInv, DedupTypeOK, Keys
  <2>2. \A g \in Handlers : key'[g] = IF g = h THEN NoId ELSE key[g]
    BY <1>4 DEF PublishFails, TypeInv, DedupTypeOK
  <2> QED BY <1>4, <2>1, <2>2 DEF PublishFails, OrderInv, Keys, storeVars
<1>5. ASSUME NEW h \in Handlers, Remember(h) PROVE OrderInv'
  <2>1. PICK s \in {0, 1} :
            /\ s = 0 => Overflow(Append(order, key[h])) = {}
            /\ s = 1 => Len(order) = Cap /\ Overflow(Append(order, key[h])) = {order[1]}
            /\ Len(order) \in Nat /\ Len(order) + 1 - s \in Nat \ {0}
            /\ DOMAIN order' = 1 .. Len(order) + 1 - s
            /\ \A p \in DOMAIN order' :
                    IF p = Len(order) + 1 - s THEN order'[p] = key[h]
                    ELSE p + s \in DOMAIN order /\ order'[p] = order[p + s]
    BY <1>5, RememberShift
  <2>2. /\ key[h] \in Ids /\ order \in Seq(Ids) /\ \A p \in DOMAIN order : order[p] # key[h]
        /\ DOMAIN order = 1 .. Len(order)
    BY <1>5, RememberOrder DEF OrderInv, Keys, TypeInv, DedupTypeOK
  <2>3. \A g \in Handlers : key'[g] = IF g = h THEN NoId ELSE key[g]
    BY <1>5 DEF Remember, TypeInv, DedupTypeOK
  <2>4. ASSUME NEW p \in DOMAIN order', NEW q \in DOMAIN order', order'[p] = order'[q]
        PROVE  p = q
    <3>1. p \in Nat /\ q \in Nat
      BY <2>1
    <3>2. CASE p = Len(order) + 1 - s \/ q = Len(order) + 1 - s
      BY <2>1, <2>2, <2>4, <3>2
    <3>3. CASE p # Len(order) + 1 - s /\ q # Len(order) + 1 - s
      <4>1. p + s = q + s
        BY <2>1, <2>4, <3>3 DEF OrderInv
      <4> QED BY <3>1, <4>1
    <3> QED BY <3>2, <3>3
  <2>5. Keys(order)' \subseteq (Keys(order) \cup {key[h]}) \ Overflow(Append(order, key[h]))
    <3>1. SUFFICES ASSUME NEW p \in DOMAIN order'
                   PROVE  /\ order'[p] \in Keys(order) \cup {key[h]}
                          /\ order'[p] \notin Overflow(Append(order, key[h]))
      BY DEF Keys
    <3>2. CASE p = Len(order) + 1 - s
      <4>1. s = 1 => 1 \in DOMAIN order
        BY <2>1, <2>2
      <4> QED BY <2>1, <2>2, <3>2, <4>1
    <3>3. CASE p # Len(order) + 1 - s
      <4>1. p + s \in DOMAIN order /\ order'[p] = order[p + s]
        BY <2>1, <3>3
      <4>2. s = 1 => 1 \in DOMAIN order /\ p + s # 1
        BY <2>1, <2>2
      <4>3. s = 1 => order'[p] # order[1]
        BY <4>1, <4>2 DEF OrderInv
      <4> QED BY <2>1, <4>1, <4>3 DEF Keys
    <3> QED BY <3>2, <3>3
  <2>6. Keys(order)' \subseteq DOMAIN lru'
    BY <1>5, <2>5 DEF Remember, With, Without, OrderInv
  <2>7. NoId \notin Keys(order)'
    BY <2>2, <2>5 DEF Keys
  <2>8. \A g \in Handlers : key'[g] \notin Keys(order)'
    BY <2>2, <2>3, <2>5, <2>7 DEF OrderInv
  <2>9. \A g, k \in Handlers : g # k /\ key'[g] = key'[k] => key'[g] = NoId
    BY <2>3 DEF OrderInv
  <2> QED BY <2>4, <2>6, <2>8, <2>9 DEF OrderInv
<1>6. CASE Restart
  BY <1>6 DEF Restart, OrderInv, Keys
<1>7. CASE Tick \/ UNCHANGED vars
  BY <1>7 DEF Tick, vars, storeVars, hVars, OrderInv, Keys
<1> QED BY <1>1, <1>2, <1>3, <1>4, <1>5, <1>6, <1>7 DEF Next

\* A publish appends one message and leaves the others where they are.
LEMMA PublishLog ==
    ASSUME TypeInv, NEW h \in Handlers, PublishOk(h)
    PROVE  /\ key[h] \in Ids /\ Len(log) \in Nat /\ DOMAIN log = 1 .. Len(log)
           /\ log' \in Seq([id : Ids, at : Nat]) /\ Len(log') = Len(log) + 1
           /\ DOMAIN log' = DOMAIN log \cup {Len(log) + 1}
           /\ \A i \in DOMAIN log : log'[i] = log[i]
           /\ log'[Len(log) + 1].id = key[h] /\ log'[Len(log) + 1].at = now
<1>1. /\ log \in Seq([id : Ids, at : Nat]) /\ Len(log) \in Nat
      /\ key[h] \in Ids /\ now \in Nat
      /\ log' = Append(log, [id |-> key[h], at |-> now])
  BY DEF TypeInv, DedupTypeOK, HandInv, Busy, PublishOk
<1>2. [id |-> key[h], at |-> now] \in [id : Ids, at : Nat]
  BY <1>1
<1> QED BY <1>1, <1>2

\* An id gets its stragglers when it is remembered: the ids that other handlers then
\* have in hand. Later steps only take stragglers away.
LEMMA StragglerStep ==
    ASSUME ~Overlap, TypeInv, OrderInv, StragglerInv, [Next]_vars
    PROVE  StragglerInv'
<1>0. ASSUME NEW q \in DOMAIN order', NEW p \in DOMAIN order,
             Stragglers(q)' \subseteq Stragglers(p)
      PROVE  IsFiniteSet(Stragglers(q)') /\ Cardinality(Stragglers(q)') < Cardinality(Handlers)
  <2>1. IsFiniteSet(Stragglers(p)) /\ Cardinality(Stragglers(p)) < Cardinality(Handlers)
    BY DEF StragglerInv
  <2>2. /\ IsFiniteSet(Stragglers(q)')
        /\ Cardinality(Stragglers(q)') <= Cardinality(Stragglers(p))
    BY <1>0, <2>1, FS_Subset
  <2>3. /\ Cardinality(Stragglers(q)') \in Nat /\ Cardinality(Stragglers(p)) \in Nat
        /\ Cardinality(Handlers) \in Nat
    BY <2>1, <2>2, FS_CardinalityType, DedupAssumption
  <2> QED BY <2>1, <2>2, <2>3
<1>1. ASSUME UNCHANGED log, order' = KeptOrder,
             \A g \in Handlers : pc'[g] = "remember" => pc[g] = "remember" /\ key'[g] = key[g]
      PROVE  StragglerInv'
  <2>1. order \in Seq(Ids)
    BY DEF TypeInv, DedupTypeOK
  <2>2. PICK f \in [DOMAIN KeptOrder -> DOMAIN order] :
            /\ \A m \in DOMAIN KeptOrder : KeptOrder[m] = order[f[m]] /\ Live(KeptOrder[m])
            /\ \A m, n \in DOMAIN KeptOrder : m < n => f[m] < f[n]
    BY <2>1, KeptOrderLemma
  <2>3. ASSUME NEW q \in DOMAIN order' PROVE Stragglers(q)' \subseteq Stragglers(f[q])
    <3>1. f[q] \in DOMAIN order /\ order'[q] = order[f[q]]
      BY <1>1, <2>2, <2>3
    <3>2. \A r \in DOMAIN order' : r > q => f[r] \in DOMAIN order /\ f[r] > f[q]
                                            /\ order'[r] = order[f[r]]
      <4>1. \A r \in DOMAIN order' : r \in Nat /\ f[r] \in DOMAIN order /\ f[r] \in Nat
        BY <1>1, <2>1, <2>2, KeptOrderLemma
      <4> QED BY <1>1, <2>2, <2>3, <4>1
    <3>3. Followers(q)' \subseteq Followers(f[q])
      BY <1>1, <3>2 DEF Followers
    <3>4. ASSUME NEW y PROVE Precedes(y, order[q])' => Precedes(y, order[f[q]])
      BY <1>1, <3>1 DEF Precedes
    <3> QED BY <3>3, <3>4 DEF Stragglers
  <2>4. \A q \in DOMAIN order' : f[q] \in DOMAIN order
    BY <1>1, <2>2
  <2> QED BY <1>0, <2>3, <2>4 DEF StragglerInv
<1>2. ASSUME UNCHANGED <<log, order>>,
             \A g \in Handlers : pc'[g] = "remember" => pc[g] = "remember" /\ key'[g] = key[g]
      PROVE  StragglerInv'
  <2>1. ASSUME NEW q \in DOMAIN order' PROVE Stragglers(q)' \subseteq Stragglers(q)
    <3>1. Followers(q)' \subseteq Followers(q)
      BY <1>2 DEF Followers
    <3> QED BY <1>2, <3>1 DEF Stragglers, Precedes
  <2> QED BY <1>0, <1>2, <2>1 DEF StragglerInv
<1>3. ASSUME NEW h \in Handlers, PublishOk(h) PROVE StragglerInv'
  <2>1. /\ UNCHANGED order
        /\ \A g \in Handlers : pc'[g] = "remember" /\ g # h => pc[g] = "remember"
        /\ UNCHANGED key
    BY <1>3 DEF PublishOk, storeVars, TypeInv, DedupTypeOK
  <2>2. ASSUME NEW q \in DOMAIN order, NEW y \in Stragglers(q)' PROVE y \in Stragglers(q)
    <3>1. PICK i \in DOMAIN log' :
            log'[i].id = order[q] /\ \A j \in DOMAIN log' : log'[j].id = y => j < i
      BY <2>1, <2>2 DEF Stragglers, Precedes
    <3>2. order[q] # key[h]
      BY DEF OrderInv, Keys
    <3>3. i \in DOMAIN log /\ log[i].id = order[q]
      <4>1. i # Len(log) + 1
        BY <1>3, <3>1, <3>2, PublishLog
      <4> QED BY <1>3, <3>1, <4>1, PublishLog
    <3>4. y # key[h]
      <4>1. y = key[h] => Len(log) + 1 < i
        BY <1>3, <3>1, PublishLog
      <4>2. i <= Len(log) /\ Len(log) \in Nat /\ i \in Nat
        BY <1>3, <3>3, PublishLog
      <4> QED BY <4>1, <4>2
    <3>5. y \in Followers(q)
      BY <2>1, <2>2, <3>4 DEF Stragglers, Followers
    <3>6. Precedes(y, order[q])
      BY <1>3, <3>1, <3>3, PublishLog DEF Precedes
    <3> QED BY <3>5, <3>6 DEF Stragglers
  <2>3. \A q \in DOMAIN order : Stragglers(q)' \subseteq Stragglers(q)
    BY <2>2
  <2> QED BY <1>0, <2>1, <2>3 DEF StragglerInv
<1>4. ASSUME NEW h \in Handlers, Remember(h) PROVE StragglerInv'
  <2>1. PICK s \in {0, 1} :
            /\ s = 0 => Overflow(Append(order, key[h])) = {}
            /\ s = 1 => Len(order) = Cap /\ Overflow(Append(order, key[h])) = {order[1]}
            /\ Len(order) \in Nat /\ Len(order) + 1 - s \in Nat \ {0}
            /\ DOMAIN order' = 1 .. Len(order) + 1 - s
            /\ \A p \in DOMAIN order' :
                    IF p = Len(order) + 1 - s THEN order'[p] = key[h]
                    ELSE p + s \in DOMAIN order /\ order'[p] = order[p + s]
    BY <1>4, RememberShift
  <2>2. /\ pc[h] = "remember" /\ UNCHANGED log
        /\ \A g \in Handlers : pc'[g] = IF g = h THEN "idle" ELSE pc[g]
        /\ \A g \in Handlers : key'[g] = IF g = h THEN NoId ELSE key[g]
    BY <1>4 DEF Remember, TypeInv, DedupTypeOK
  <2>3. PICK last \in Nat \ {0} : last = Len(order) + 1 - s
    BY <2>1
  <2>4. ASSUME NEW q \in DOMAIN order', q # last PROVE Stragglers(q)' \subseteq Stragglers(q + s)
    <3>1. q + s \in DOMAIN order /\ order'[q] = order[q + s]
      BY <2>1, <2>3, <2>4
    <3>2. \A r \in DOMAIN order' : r > q =>
            \/ order'[r] = key[h]
            \/ r + s \in DOMAIN order /\ r + s > q + s /\ order'[r] = order[r + s]
      <4>1. \A r \in DOMAIN order' : r \in Nat
        BY <2>1
      <4>2. \A r \in DOMAIN order' : r > q => r + s > q + s
        BY <4>1
      <4> QED BY <2>1, <4>2
    <3>3. Followers(q)' \subseteq Followers(q + s)
      BY <2>2, <3>2 DEF Followers
    <3>4. ASSUME NEW y PROVE Precedes(y, order[q])' => Precedes(y, order[q + s])
      BY <2>2, <3>1 DEF Precedes
    <3> QED BY <3>3, <3>4 DEF Stragglers
  <2>5. ASSUME NEW q \in DOMAIN order', q # last
        PROVE  /\ IsFiniteSet(Stragglers(q)')
               /\ Cardinality(Stragglers(q)') < Cardinality(Handlers)
    <3>1. q + s \in DOMAIN order
      BY <2>1, <2>3, <2>5
    <3> QED BY <1>0, <2>4, <2>5, <3>1
  <2>6. /\ IsFiniteSet(Stragglers(last)')
        /\ Cardinality(Stragglers(last)') < Cardinality(Handlers)
    <3> DEFINE Others == Handlers \ {h}
               Hand == [g \in Others |-> key[g]]
               Ours == {key[g] : g \in Others}
    <3>1. IsFiniteSet(Others) /\ Cardinality(Others) = Cardinality(Handlers) - 1
      BY FS_RemoveElement, DedupAssumption
    <3>2. Hand \in Surjection(Others, Ours)
      BY DEF Surjection
    <3>3. IsFiniteSet(Ours) /\ Cardinality(Ours) <= Cardinality(Others)
      BY <3>1, <3>2, FS_Surjection
    <3>4. \A r \in DOMAIN order' : ~(r > last)
      BY <2>1, <2>3
    <3>5. Followers(last)' \subseteq Ours
      BY <2>2, <3>4 DEF Followers
    <3>6. Stragglers(last)' \in SUBSET Ours
      BY <3>5 DEF Stragglers
    <3>7. IsFiniteSet(Stragglers(last)') /\ Cardinality(Stragglers(last)') <= Cardinality(Ours)
      BY <3>3, <3>6, FS_Subset
    <3>8. /\ Cardinality(Stragglers(last)') \in Nat /\ Cardinality(Ours) \in Nat
          /\ Cardinality(Others) \in Nat /\ Cardinality(Handlers) \in Nat
      BY <3>1, <3>3, <3>7, FS_CardinalityType, DedupAssumption
    <3> QED BY <3>1, <3>3, <3>7, <3>8
  <2> QED BY <2>5, <2>6 DEF StragglerInv
<1>5. ASSUME NEW h \in Handlers, NEW id \in Ids, CheckHit(h, id) \/ CheckReload(h, id)
      PROVE  StragglerInv'
  BY <1>1, <1>5 DEF CheckHit, CheckReload, Duplicate, hVars
<1>6. ASSUME NEW h \in Handlers, NEW id \in Ids, CheckMiss(h, id) PROVE StragglerInv'
  BY <1>1, <1>6 DEF CheckMiss, MayCheck, histVars, TypeInv, DedupTypeOK
<1>7. ASSUME NEW h \in Handlers, PublishFails(h) PROVE StragglerInv'
  BY <1>2, <1>7 DEF PublishFails, storeVars, histVars, TypeInv, DedupTypeOK
<1>8. CASE Restart
  BY <1>8 DEF Restart, StragglerInv
<1>9. CASE Tick \/ UNCHANGED vars
  BY <1>2, <1>9 DEF Tick, vars, storeVars, hVars, histVars
<1> QED BY <1>3, <1>4, <1>5, <1>6, <1>7, <1>8, <1>9 DEF Next

-----------------------------------------------------------------------------
(* The window: how long a message protects its id. *)

\* When capacity drops the head of order, the Cap ids behind it are all different, and
\* all but the stragglers have a message after every message of the head.
LEMMA Eviction ==
    ASSUME ~Overlap, TypeInv, OrderInv, OrderInv', StragglerInv,
           NEW h \in Handlers, Remember(h), Len(order) = Cap,
           NEW i \in DOMAIN log, log[i].id = order[1]
    PROVE  Len(log) - i >= Cap + 1 - Cardinality(Handlers)
<1> USE DedupAssumption
<1>1. /\ order \in Seq(Ids) /\ DOMAIN order = 1 .. Cap /\ key[h] \in Ids
      /\ DOMAIN order' = 1 .. Cap
      /\ order'[Cap] = key[h]
      /\ \A p \in 1 .. Cap : p # Cap => p + 1 \in DOMAIN order /\ order'[p] = order[p + 1]
  <2>1. order \in Seq(Ids) /\ DOMAIN order = 1 .. Cap /\ key[h] \in Ids
    BY RememberOrder DEF TypeInv, DedupTypeOK
  <2>2. Append(order, key[h]) \in Seq(Ids) /\ Len(Append(order, key[h])) = Cap + 1
    BY <2>1
  <2>3. order' = Tail(Append(order, key[h]))
    BY RememberOrder
  <2> QED BY <2>1, <2>2, <2>3
<1> DEFINE A == {order'[p] : p \in 1 .. Cap}
           T == Stragglers(1)
           Later == i + 1 .. Len(log)
<1>2. pc[h] = "remember" /\ \A p \in DOMAIN order : order[p] # key[h]
  BY DEF Remember, OrderInv, Keys
<1>3. \A y \in A : y \in Followers(1) /\ y # order[1]
  <2>1. SUFFICES ASSUME NEW p \in 1 .. Cap
                 PROVE  order'[p] \in Followers(1) /\ order'[p] # order[1]
    OBVIOUS
  <2>2. 1 \in DOMAIN order
    BY <1>1
  <2>3. CASE p = Cap
    BY <1>1, <1>2, <2>2, <2>3 DEF Followers
  <2>4. CASE p # Cap
    <3>1. p + 1 \in DOMAIN order /\ p + 1 > 1 /\ order'[p] = order[p + 1]
      BY <1>1, <2>4
    <3> QED BY <2>2, <3>1 DEF Followers, OrderInv
  <2> QED BY <2>3, <2>4
<1>4. IsFiniteSet(A) /\ Cardinality(A) = Cap
  <2> DEFINE g == [p \in 1 .. Cap |-> order'[p]]
  <2>1. g \in Surjection(1 .. Cap, A)
    BY DEF Surjection
  <2>2. \A p, q \in 1 .. Cap : order'[p] = order'[q] => p = q
    BY <1>1 DEF OrderInv
  <2>3. g \in Injection(1 .. Cap, A)
    BY <2>2 DEF Injection, IsInjective
  <2>4. IsFiniteSet(1 .. Cap) /\ Cardinality(1 .. Cap) = Cap
    BY FS_Interval
  <2> QED BY <2>1, <2>3, <2>4, FS_Surjection
<1>5. IsFiniteSet(T) /\ Cardinality(T) < Cardinality(Handlers)
  BY <1>1 DEF StragglerInv
<1>6. IsFiniteSet(A \ T) /\ Cardinality(A \ T) > Cap - Cardinality(Handlers)
  <2>1. IsFiniteSet(A \ T) /\ Cardinality(A \ T) = Cap - Cardinality(A \cap T)
    BY <1>4, FS_Difference
  <2>2. IsFiniteSet(A \cap T) /\ Cardinality(A \cap T) <= Cardinality(T)
    BY <1>5, FS_Subset
  <2>3. /\ Cardinality(A \cap T) \in Nat /\ Cardinality(T) \in Nat
        /\ Cardinality(Handlers) \in Nat
    BY <1>5, <2>2, FS_CardinalityType
  <2> QED BY <1>5, <2>1, <2>2, <2>3
<1>7. Len(log) \in Nat /\ DOMAIN log = 1 .. Len(log)
  BY DEF TypeInv, DedupTypeOK
<1>8. \A y \in A \ T : \E j \in Later : log[j].id = y
  <2>1. SUFFICES ASSUME NEW y \in A, y \notin T PROVE \E j \in Later : log[j].id = y
    OBVIOUS
  <2>2. ~Precedes(y, order[1])
    BY <1>3, <2>1 DEF Stragglers
  <2>3. PICK j \in DOMAIN log : log[j].id = y /\ ~(j < i)
    BY <2>2 DEF Precedes
  <2>4. j # i
    BY <1>3, <2>1, <2>3
  <2> QED BY <1>7, <2>3, <2>4
<1> DEFINE J == [y \in A \ T |-> CHOOSE j \in Later : log[j].id = y]
<1>9. \A y \in A \ T : J[y] \in Later /\ log[J[y]].id = y
  BY <1>8
<1>10. J \in Injection(A \ T, Later)
  <2>1. J \in [A \ T -> Later]
    BY <1>9
  <2>2. \A y, z \in A \ T : J[y] = J[z] => y = z
    BY <1>9
  <2> HIDE DEF J, A, T
  <2> QED BY <2>1, <2>2 DEF Injection, IsInjective
<1>11. IsFiniteSet(Later) /\ Cardinality(Later) = Len(log) - i
  <2>1. i + 1 \in Int /\ Len(log) \in Int /\ i <= Len(log)
    BY <1>7
  <2>2. /\ IsFiniteSet(Later)
        /\ Cardinality(Later) = IF i + 1 > Len(log) THEN 0 ELSE Len(log) - (i + 1) + 1
    BY <2>1, FS_Interval
  <2> QED BY <1>7, <2>1, <2>2
<1>12. Cardinality(A \ T) <= Len(log) - i
  <2> HIDE DEF J
  <2> QED BY <1>10, <1>11, FS_Injection
<1>13. Cardinality(A \ T) \in Nat /\ Cardinality(Handlers) \in Nat
  BY <1>6, FS_CardinalityType
<1> HIDE DEF A, T
<1> QED BY <1>6, <1>7, <1>12, <1>13

\* Every step keeps the promise of a message, or the message is too old or too many
\* messages ago.
LEMMA WindowStep ==
    ASSUME ~Overlap, CleanStop, Faults \cap {"persist", "get"} = {}, WindowInv, [Next]_vars
    PROVE  WindowInv'
<1> USE DedupAssumption DEF WindowInv
<1>0. TypeInv' /\ RestartForgetsNothing' /\ OrderInv' /\ StragglerInv'
  BY TypeStep, ForgetStep, OrderStep, StragglerStep
<1>00. /\ Cap \in Nat /\ TTL \in Nat /\ Cardinality(Handlers) \in Nat /\ now \in Nat
       /\ log \in Seq([id : Ids, at : Nat]) /\ Len(log) \in Nat /\ DOMAIN log = 1 .. Len(log)
       /\ \A i \in DOMAIN log : log[i].id \in Ids /\ log[i].at \in Nat /\ i \in Nat
  <2>1. Cardinality(Handlers) \in Nat
    BY FS_CardinalityType
  <2> DEFINE Message == [id : Ids, at : Nat]
  <2>2. log \in Seq(Message) /\ now \in Nat
    BY DEF TypeInv, DedupTypeOK
  <2>3. Len(log) \in Nat /\ DOMAIN log = 1 .. Len(log) /\ \A i \in DOMAIN log : log[i] \in Message
    <3> HIDE DEF Message
    <3> QED BY <2>2
  <2>4. \A i \in DOMAIN log : log[i].id \in Ids /\ log[i].at \in Nat /\ i \in Nat
    BY <2>3
  <2> QED BY <2>1, <2>2, <2>3, <2>4
<1> DEFINE Promise == TimeInv /\ ProtectedInv /\ FreeInv /\ DedupWindow
<1> SUFFICES Promise'
  BY <1>0
\* The steps that neither publish nor remember, by what they do to the database.
<1>1. ASSUME UNCHANGED log, now' \in Nat, now' >= now,
             \A g \in Handlers : pc[g] = "remember" => pc'[g] = "remember" /\ key'[g] = key[g],
             \A g \in Handlers : pc'[g] = "publish" =>
                \/ pc[g] = "publish" /\ key'[g] = key[g]
                \/ \A i \in DOMAIN log : log[i].id = key'[g] => Passed(i),
             \A x \in DOMAIN db : \/ x \in DOMAIN db' /\ db'[x] = db[x]
                                  \/ now > db[x]
      PROVE  Promise'
  <2>1. TimeInv' /\ DedupWindow'
    BY <1>00, <1>1 DEF TimeInv, DedupWindow
  <2>2. \A i \in DOMAIN log : Passed(i) => Passed(i)'
    BY <1>00, <1>1 DEF Passed
  <2>3. ProtectedInv'
    <3>1. SUFFICES ASSUME NEW i \in DOMAIN log, ~Passed(i)',
                          ~\E g \in Handlers : pc'[g] = "remember" /\ key'[g] = log[i].id
                   PROVE  log[i].id \in DOMAIN db' /\ db'[log[i].id] >= log[i].at + TTL
      BY <1>1 DEF ProtectedInv
    <3>2. log[i].id \in DOMAIN db /\ db[log[i].id] >= log[i].at + TTL
      BY <1>1, <2>2, <3>1 DEF ProtectedInv
    <3>3. db[log[i].id] \in Nat
      BY <3>2 DEF TypeInv, DedupTypeOK
    <3>4. ~(now > db[log[i].id])
      <4>1. ~Passed(i)
        BY <2>2, <3>1
      <4>2. ~(now > log[i].at + TTL)
        BY <4>1 DEF Passed
      <4> QED BY <1>00, <3>2, <3>3, <4>2
    <3> QED BY <1>1, <3>2, <3>4
  <2>4. FreeInv'
    BY <1>1, <2>2 DEF FreeInv
  <2> QED BY <2>1, <2>3, <2>4
\* Check drops from the database what has expired.
<1>2. ASSUME NEW x \in Expired \cap DOMAIN db PROVE now > db[x]
  <2>1. x \in DOMAIN lru /\ ~(now <= lru[x]) /\ db[x] = lru[x] /\ lru[x] \in Nat
    BY <1>2 DEF Expired, Live, OrderInv, RestartForgetsNothing, TypeInv, DedupTypeOK
  <2> QED BY <1>00, <2>1
<1>3. ASSUME NEW h \in Handlers, NEW id \in Ids, CheckHit(h, id) \/ CheckReload(h, id)
      PROVE  Promise'
  <2>1. UNCHANGED <<log, now, pc, key>>
    BY <1>3 DEF CheckHit, CheckReload, Duplicate, hVars
  <2>2. \A x \in DOMAIN db : (x \in DOMAIN db' /\ db'[x] = db[x]) \/ x \in Expired
    BY <1>3 DEF CheckHit, CheckReload, Without
  <2> QED BY <1>00, <1>1, <1>2, <2>1, <2>2
<1>4. ASSUME NEW h \in Handlers, NEW id \in Ids, CheckMiss(h, id) PROVE Promise'
  <2>1. /\ UNCHANGED <<log, now>> /\ pc[h] = "idle"
        /\ pc' = [pc EXCEPT ![h] = "publish"] /\ key' = [key EXCEPT ![h] = id]
    BY <1>4 DEF CheckMiss, MayCheck, histVars
  <2>2. \A g \in Handlers : key[g] # id
    BY <1>4 DEF CheckMiss, MayCheck
  <2>3. GetAnswers = {TRUE}
    BY DEF GetAnswers
  <2>4. PICK L \in Leftover(Expired), M \in Leftover({id}), read \in GetAnswers :
            LET d == Without(db, Expired \ L) IN
            /\ read /\ id \in DOMAIN d => now > d[id]
            /\ db' = IF read THEN Without(d, {id} \ M) ELSE d
    BY <1>4, Zenon DEF CheckMiss
  <2>5. read = TRUE
    BY <2>3, <2>4
  <2>6. /\ id \in DOMAIN db \ (Expired \ L) => now > db[id]
        /\ db' = Without(Without(db, Expired \ L), {id} \ M)
    BY <2>4, <2>5 DEF Without
  <2>7. id \in DOMAIN db => now > db[id]
    BY <1>2, <2>6
  <2>8. \A x \in DOMAIN db : (x \in DOMAIN db' /\ db'[x] = db[x]) \/ now > db[x]
    BY <1>2, <2>6, <2>7 DEF Without
  <2>9. \A i \in DOMAIN log : log[i].id = id => Passed(i)
    <3>1. SUFFICES ASSUME NEW i \in DOMAIN log, log[i].id = id, ~Passed(i) PROVE FALSE
      OBVIOUS
    <3>2. id \in DOMAIN db /\ db[id] >= log[i].at + TTL
      BY <2>2, <3>1 DEF ProtectedInv
    <3>3. db[id] \in Nat
      BY <3>2 DEF TypeInv, DedupTypeOK
    <3> QED BY <1>00, <2>7, <3>1, <3>2, <3>3 DEF Passed
  <2>10. \A g \in Handlers : /\ pc'[g] = IF g = h THEN "publish" ELSE pc[g]
                             /\ key'[g] = IF g = h THEN id ELSE key[g]
    BY <2>1 DEF TypeInv, DedupTypeOK
  <2> QED BY <1>00, <1>1, <2>1, <2>8, <2>9, <2>10
<1>5. ASSUME NEW h \in Handlers, PublishFails(h) PROVE Promise'
  <2>1. UNCHANGED <<log, now, db>> /\ pc[h] = "publish"
    BY <1>5 DEF PublishFails, storeVars, histVars
  <2>2. \A g \in Handlers : /\ pc'[g] = IF g = h THEN "idle" ELSE pc[g]
                            /\ key'[g] = IF g = h THEN NoId ELSE key[g]
    BY <1>5 DEF PublishFails, TypeInv, DedupTypeOK
  <2> QED BY <1>00, <1>1, <2>1, <2>2
<1>6. CASE Restart
  <2>1. UNCHANGED <<log, now, db>> /\ \A g \in Handlers : pc[g] = "idle" /\ pc'[g] = "idle"
    BY <1>6 DEF Restart, histVars
  <2> QED BY <1>00, <1>1, <2>1
<1>7. CASE Tick
  BY <1>00, <1>1, <1>7 DEF Tick, storeVars, hVars, histVars
<1>8. CASE UNCHANGED vars
  BY <1>00, <1>1, <1>8 DEF vars, storeVars, hVars, histVars
\* Topic.Publish: the new message is the handler's, whose id was free.
<1>9. ASSUME NEW h \in Handlers, PublishOk(h) PROVE Promise'
  <2>1. /\ UNCHANGED <<now, db, key>> /\ pc[h] = "publish"
        /\ \A g \in Handlers : pc'[g] = IF g = h THEN "remember" ELSE pc[g]
    BY <1>9 DEF PublishOk, storeVars, TypeInv, DedupTypeOK
  <2> DEFINE n == Len(log) + 1
  <2>2. /\ DOMAIN log' = DOMAIN log \cup {n} /\ Len(log') = n
        /\ \A i \in DOMAIN log : log'[i] = log[i]
        /\ log'[n].id = key[h] /\ log'[n].at = now
    BY <1>9, PublishLog
  <2>3. \A i \in DOMAIN log : Passed(i) => Passed(i)'
    BY <1>00, <2>1, <2>2 DEF Passed
  <2>4. TimeInv'
    BY <1>00, <2>1, <2>2 DEF TimeInv
  <2>5. ProtectedInv'
    <3>1. ASSUME NEW i \in DOMAIN log
          PROVE  \/ Passed(i)'
                 \/ \E g \in Handlers : pc'[g] = "remember" /\ key'[g] = log'[i].id
                 \/ log'[i].id \in DOMAIN db' /\ db'[log'[i].id] >= log'[i].at + TTL
      BY <2>1, <2>2, <2>3 DEF ProtectedInv
    <3>2. \E g \in Handlers : pc'[g] = "remember" /\ key'[g] = log'[n].id
      BY <2>1, <2>2
    <3> QED BY <2>2, <3>1, <3>2 DEF ProtectedInv
  <2>6. FreeInv'
    <3>1. SUFFICES ASSUME NEW g \in Handlers, pc'[g] = "publish", NEW i \in DOMAIN log',
                          log'[i].id = key[g]
                   PROVE  Passed(i)'
      BY <2>1 DEF FreeInv
    <3>2. g # h /\ pc[g] = "publish" /\ key[g] \in Ids
      BY <2>1, <3>1 DEF TypeInv, HandInv, Busy
    <3>3. key[g] # key[h]
      BY <3>2 DEF OrderInv
    <3>4. i \in DOMAIN log
      BY <2>2, <3>1, <3>3
    <3> QED BY <2>2, <2>3, <3>1, <3>2, <3>4 DEF FreeInv
  <2>7. DedupWindow'
    <3>1. SUFFICES ASSUME NEW i \in DOMAIN log', NEW j \in DOMAIN log', i < j,
                          log'[i].id = log'[j].id
                   PROVE  \/ log'[j].at > log'[i].at + TTL
                          \/ j - i - 1 >= Cap + 1 - Cardinality(Handlers)
      BY DEF DedupWindow
    <3>2. i \in DOMAIN log
      BY <1>00, <2>2, <3>1
    <3>3. CASE j \in DOMAIN log
      BY <2>2, <3>1, <3>2, <3>3 DEF DedupWindow
    <3>4. CASE j = n
      <4>1. Passed(i)
        BY <2>1, <2>2, <3>1, <3>2, <3>4 DEF FreeInv
      <4>2. j - i - 1 = Len(log) - i
        BY <1>00, <3>2, <3>4
      <4> QED BY <2>2, <3>2, <3>4, <4>1, <4>2 DEF Passed
    <3> QED BY <2>2, <3>3, <3>4
  <2> QED BY <2>4, <2>5, <2>6, <2>7
\* Remember: the key in the database takes over; the head of order may go.
<1>10. ASSUME NEW h \in Handlers, Remember(h) PROVE Promise'
  <2> DEFINE Out == Overflow(Append(order, key[h]))
  <2>1. /\ UNCHANGED <<log, now>> /\ pc[h] = "remember" /\ key[h] \in Ids
        /\ \A g \in Handlers : /\ pc'[g] = IF g = h THEN "idle" ELSE pc[g]
                               /\ key'[g] = IF g = h THEN NoId ELSE key[g]
    BY <1>10, RememberOrder DEF Remember, TypeInv, DedupTypeOK
  <2>2. Out = {} \/ (Out = {order[1]} /\ Len(order) = Cap /\ 1 \in DOMAIN order)
    <3>1. Len(order) = Cap => 1 \in DOMAIN order
      BY DEF TypeInv, DedupTypeOK
    <3> QED BY <1>10, <3>1, RememberOrder
  <2>3. key[h] \notin Out
    BY <2>2 DEF OrderInv, Keys
  <2>4. \A x \in DOMAIN db \cup {key[h]} : x \notin Out =>
            x \in DOMAIN db' /\ db'[x] = IF x = key[h] THEN now + TTL ELSE db[x]
    BY <1>10, <2>3 DEF Remember, With, Without
  <2>5. \A i \in DOMAIN log : Passed(i) => Passed(i)'
    BY <2>1 DEF Passed
  <2>6. ProtectedInv'
    <3>1. SUFFICES ASSUME NEW i \in DOMAIN log, ~Passed(i)
                   PROVE  \/ \E g \in Handlers : pc'[g] = "remember" /\ key'[g] = log[i].id
                          \/ log[i].id \in DOMAIN db' /\ db'[log[i].id] >= log[i].at + TTL
      BY <2>1, <2>5 DEF ProtectedInv
    <3>2. log[i].id \notin Out
      <4>1. Out = {order[1]} /\ Len(order) = Cap => log[i].id # order[1]
        BY <1>0, <1>10, <3>1, Eviction DEF Passed
      <4> QED BY <2>2, <4>1
    <3>3. CASE log[i].id = key[h]
      <4>1. now + TTL >= log[i].at + TTL
        BY <1>00 DEF TimeInv
      <4> QED BY <2>4, <3>2, <3>3, <4>1
    <3>4. CASE log[i].id # key[h]
      BY <2>1, <2>4, <3>1, <3>2, <3>4 DEF ProtectedInv
    <3> QED BY <3>3, <3>4
  <2>7. FreeInv'
    BY <2>1, <2>5 DEF FreeInv
  <2>8. TimeInv' /\ DedupWindow'
    BY <2>1 DEF TimeInv, DedupWindow
  <2> QED BY <2>6, <2>7, <2>8
<1> QED BY <1>3, <1>4, <1>5, <1>6, <1>7, <1>8, <1>9, <1>10 DEF Next

\* If no two sessions carry the same id at once, every key is written and read back and
\* the process stops between publishes, two messages with one id are more than TTL apart, or at
\* least Cap other messages less one for every other session are between them: for
\* any capacity, any number of sessions, failing publishes and deletes, and restarts.
THEOREM DedupWindowHolds ==
    ASSUME ~Overlap, CleanStop, Faults \cap {"persist", "get"} = {}
    PROVE  Spec => []DedupWindow
<1>1. Init => WindowInv
  <2> SUFFICES ASSUME Init PROVE WindowInv
    OBVIOUS
  <2>1. RestartForgetsNothing /\ TimeInv /\ ProtectedInv /\ FreeInv /\ DedupWindow
    BY DEF Init, RestartForgetsNothing, TimeInv, ProtectedInv, FreeInv, DedupWindow
  <2>2. OrderInv /\ StragglerInv
    BY DEF Init, OrderInv, StragglerInv, Keys
  <2> QED BY <2>1, <2>2, InitTypes DEF WindowInv
<1>2. WindowInv /\ [Next]_vars => WindowInv'
  BY WindowStep
<1>3. WindowInv => DedupWindow
  BY DEF WindowInv
<1> QED BY <1>1, <1>2, <1>3, PTL DEF Spec
============================================================================
