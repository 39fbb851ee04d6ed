---------------------------- MODULE CacheProofs ----------------------------
(***************************************************************************)
(* Proofs about CacheStores, for any workers, keys, batch size, faults and *)
(* bounds.                                                                 *)
(***************************************************************************)
EXTENDS CacheStores, TLAPS

-----------------------------------------------------------------------------
(* Type correctness. *)

\* Where a worker can be under each strategy: only WriteBack goes by the dirty
\* map, only CacheAside deletes, and WriteBack's Set never writes the database.
PlaceInv ==
    \A w \in Threads :
        /\ pc[w] \in {"getDirty", "setDirty", "trigger"} => strategy = "write_back"
        /\ pc[w] = "setDb" => strategy # "write_back"
        /\ pc[w] = "del" => strategy = "cache_aside"
        /\ pc[w] = "setCache" => strategy # "cache_aside"
        /\ pc[w] \in {"fill", "setDb", "del", "setCache", "setDirty", "trigger"} => val[w] # 0

TypeInv == CacheTypeOK /\ PlaceInv

\* Every step keeps the types, and what the place of a worker says of its key, its
\* value and the strategy.
LEMMA TypeStep ==
    ASSUME TypeInv, [Next]_vars
    PROVE  TypeInv'
<1> USE DEF TypeInv, CacheTypeOK, PlaceInv, vars, storeVars, workVars, flushVars, histVars,
            Places, Strategies, In, Absent, Goto, Carry, Leave, Threads
<1>0. Home \in Keys
  BY KeysAssumption DEF Home
<1>1. ASSUME NEW w \in Threads, NEW k \in Keys, BeginGet(w, k) PROVE TypeInv'
  BY <1>1 DEF BeginGet, MayUse
<1>2. ASSUME NEW w \in Threads, NEW k \in Keys, CallSet(w, k) PROVE TypeInv'
  BY <1>2 DEF CallSet
<1>3. ASSUME NEW w \in Threads, GetCache(w) PROVE TypeInv'
  BY <1>3 DEF GetCache
<1>4. ASSUME NEW w \in Threads, GetDirty(w) PROVE TypeInv'
  BY <1>4 DEF GetDirty
<1>5. ASSUME NEW w \in Threads, GetDb(w) PROVE TypeInv'
  BY <1>5 DEF GetDb
<1>6. ASSUME NEW w \in Threads, Fill(w) PROVE TypeInv'
  BY <1>6 DEF Fill
<1>7. ASSUME NEW w \in Threads, SetDb(w) PROVE TypeInv'
  <2>1. CacheTypeOK'
    <3> HIDE DEF In
    <3>1. key[w] \in Keys /\ val[w] \in Nat
      OBVIOUS
    <3>2. db' \in [Keys -> Nat] /\ durable' \subseteq Nat
      BY <3>1, <1>7 DEF SetDb
    <3>3. pc' \in [Threads -> Places]
      BY <1>7 DEF SetDb
    <3> QED BY <3>2, <3>3, <1>7 DEF SetDb
  <2>2. PlaceInv'
    BY <1>7 DEF SetDb
  <2> QED BY <2>1, <2>2
<1>8. ASSUME NEW w \in Threads, Del(w) PROVE TypeInv'
  <2>1. /\ done' \in [Keys -> Nat] /\ cache' \in [Keys -> Nat] /\ lost' \subseteq Nat
        /\ pc' \in [Threads -> Places] /\ key' \in [Threads -> Keys]
        /\ val' \in [Threads -> Nat]
    <3> HIDE DEF In
    <3>1. key[w] \in Keys /\ val[w] \in Nat
      OBVIOUS
    <3>2. done' \in [Keys -> Nat]
      BY <3>1, <1>8 DEF Del, Complete, Larger
    <3>3. cache' \in [Keys -> Nat]
      BY <3>1, <1>8 DEF Del
    <3>4. lost' \subseteq Nat
      BY <3>1, <1>8 DEF Del
    <3>5. pc' \in [Threads -> Places] /\ key' \in [Threads -> Keys] /\ val' \in [Threads -> Nat]
      BY <1>0, <1>8 DEF Del, Complete
    <3> QED BY <3>2, <3>3, <3>4, <3>5
  <2>2. UNCHANGED <<strategy, db, dirty, trigger, flushVars, sets, last, durable, crossed>>
    BY <1>8 DEF Del
  <2>3. CacheTypeOK'
    BY <2>1, <2>2
  <2>4. PlaceInv'
    BY <1>8 DEF Del, Complete
  <2> QED BY <2>3, <2>4
<1>9. ASSUME NEW w \in Threads, SetCache(w) PROVE TypeInv'
  BY <1>0, <1>9 DEF SetCache, Complete, Larger
<1>10. ASSUME NEW w \in Threads, SetDirty(w) PROVE TypeInv'
  BY <1>0, <1>10 DEF SetDirty, Complete, Larger
<1>11. ASSUME NEW w \in Threads, TriggerFlush(w) PROVE TypeInv'
  BY <1>0, <1>11 DEF TriggerFlush, Complete, Larger
<1>12. ASSUME NEW w \in Threads, CallFails(w) PROVE TypeInv'
  BY <1>12 DEF CallFails
<1>13. ASSUME NEW w \in Threads, Return(w) PROVE TypeInv'
  BY <1>0, <1>13 DEF Return
<1>14. ASSUME FlushOnTrigger PROVE TypeInv'
  BY <1>14 DEF FlushOnTrigger, Take
<1>15. ASSUME FlushOnTick PROVE TypeInv'
  BY <1>15 DEF FlushOnTick, Take
<1>16. ASSUME FlusherCommit PROVE TypeInv'
  <2>1. Values(fbatch) \subseteq Nat /\ Written(fbatch) \in [Keys -> Nat]
    BY DEF Values, Written
  <2>2. db' \in [Keys -> Nat] /\ durable' \subseteq Nat /\ lost' \subseteq Nat
    BY <1>16, <2>1 DEF FlusherCommit, BatchSet, BatchFails
  <2> QED BY <1>16, <2>2 DEF FlusherCommit
<1>17. ASSUME FlusherStops PROVE TypeInv'
  BY <1>17 DEF FlusherStops
<1>18. ASSUME Flush PROVE TypeInv'
  BY <1>18 DEF Flush, Take
<1>19. ASSUME Close PROVE TypeInv'
  BY <1>19 DEF Close
<1>20. ASSUME CloseFlush PROVE TypeInv'
  BY <1>20 DEF CloseFlush, Take
<1>21. ASSUME MainCommit \/ MainCommitFails PROVE TypeInv'
  <2>1. Values(mbatch) \subseteq Nat /\ Written(mbatch) \in [Keys -> Nat]
    BY DEF Values, Written
  <2>2. db' \in [Keys -> Nat] /\ durable' \subseteq Nat /\ lost' \subseteq Nat
    BY <1>21, <2>1 DEF MainCommit, MainCommitFails, BatchSet, BatchFails
  <2> QED BY <1>21, <2>2 DEF MainCommit, MainCommitFails
<1>22. ASSUME NEW k \in Keys, Expire(k) PROVE TypeInv'
  BY <1>22 DEF Expire
<1>23. ASSUME UNCHANGED vars PROVE TypeInv'
  BY <1>23
<1>24. ASSUME PrefillFails PROVE TypeInv'
  BY <1>24 DEF PrefillFails
<1> QED
  <2>1. /\ \A w \in Workers : w \in Threads
        /\ Main \in Threads
    BY DEF Threads
  <2> QED
    BY <2>1, <1>1, <1>2, <1>3, <1>4, <1>5, <1>6, <1>7, <1>8, <1>9, <1>10, <1>11, <1>12,
       <1>13, <1>14, <1>15, <1>16, <1>17, <1>18, <1>19, <1>20, <1>21, <1>22, <1>23, <1>24
       DEF Next, Step, BeginSet, Prefill

\* A process with empty stores starts there.
LEMMA InitTypes == Init => TypeInv
<1>1. Home \in Keys
  BY KeysAssumption DEF Home
<1>2. In(Absent) = {} /\ Absent \in [Keys -> Nat]
  BY DEF In, Absent
<1>3. ASSUME Init PROVE CacheTypeOK
  <2>1. trigger \in BOOLEAN /\ ~trigger
    BY <1>3, Zenon DEF Init
  <2>2. In(dirty) = {} /\ In(fbatch) = {} /\ In(mbatch) = {}
    BY <1>2, <1>3 DEF Init
  <2> QED BY <1>1, <1>2, <1>3, <2>1, <2>2 DEF Init, CacheTypeOK, Places, Strategies, Threads
<1>4. Init => PlaceInv
  BY DEF Init, PlaceInv
<1> QED BY <1>3, <1>4 DEF TypeInv

\* The caches and the database keep their types, a batch is in hand exactly while it is
\* written, and the two synchronous strategies never have dirty keys or a token.
THEOREM CacheTypes == Spec => []CacheTypeOK
<1>1. TypeInv /\ [Next]_vars => TypeInv'
  BY TypeStep
<1>2. TypeInv => CacheTypeOK
  BY DEF TypeInv
<1> QED BY InitTypes, <1>1, <1>2, PTL DEF Spec

-----------------------------------------------------------------------------
(* ReadsAreDurable: without WriteBack, whatever is in the cache, in the    *)
(* database or in the hands of a reader has been in the database.          *)

DurableInv ==
    strategy # "write_back" =>
        /\ \A k \in Keys : cache[k] # 0 => cache[k] \in durable
        /\ \A k \in Keys : db[k] # 0 => db[k] \in durable
        /\ \A w \in Threads : pc[w] \in {"fill", "got", "del", "setCache"} /\ val[w] # 0
                => val[w] \in durable

\* A read hands on a value of the cache or of the database, a Set writes the
\* database before the cache: no step puts a value in front of the database.
LEMMA DurableStep ==
    ASSUME TypeInv, DurableInv, [Next]_vars
    PROVE  DurableInv'
<1> SUFFICES ASSUME strategy' # "write_back" PROVE DurableInv'
  BY DEF DurableInv
<1>0. strategy' = strategy
  BY DEF Next, vars, Step, BeginGet, BeginSet, GetCache, GetDirty, GetDb, Fill, SetDb, Del,
         SetCache, SetDirty, TriggerFlush, CallFails, Return, FlushOnTrigger, FlushOnTick,
         FlusherCommit, FlusherStops, Flush, Close, CloseFlush, MainCommit, MainCommitFails,
         Expire, Prefill, PrefillFails, CallSet
<1>00. Home \in Keys
  BY KeysAssumption DEF Home
<1> USE <1>0 DEF DurableInv, TypeInv, CacheTypeOK, PlaceInv, vars, storeVars, workVars,
                 flushVars, histVars, Goto, Carry, Leave
<1>1. ASSUME NEW w \in Threads, NEW k \in Keys, BeginGet(w, k) \/ CallSet(w, k)
      PROVE  DurableInv'
  BY <1>1 DEF BeginGet, CallSet
<1>2. ASSUME NEW w \in Threads, GetCache(w) \/ GetDirty(w) \/ GetDb(w) \/ Fill(w)
      PROVE  DurableInv'
  BY <1>2 DEF GetCache, GetDirty, GetDb, Fill
<1>3. ASSUME NEW w \in Threads, SetDb(w) PROVE DurableInv'
  BY <1>3 DEF SetDb
<1>4. ASSUME NEW w \in Threads, Del(w) \/ SetCache(w) \/ SetDirty(w) \/ TriggerFlush(w)
      PROVE  DurableInv'
  BY <1>00, <1>4 DEF Del, SetCache, SetDirty, TriggerFlush, Complete
<1>5. ASSUME NEW w \in Threads, CallFails(w) \/ Return(w) PROVE DurableInv'
  BY <1>00, <1>5 DEF CallFails, Return
<1>6. ASSUME FlusherCommit PROVE DurableInv'
  BY <1>6 DEF FlusherCommit, BatchSet, BatchFails, Written, Values, In
<1>7. ASSUME MainCommit \/ MainCommitFails PROVE DurableInv'
  BY <1>7 DEF MainCommit, MainCommitFails, BatchSet, BatchFails, Written, Values, In
<1>8. ASSUME \/ FlushOnTrigger \/ FlushOnTick \/ FlusherStops \/ Flush \/ Close \/ CloseFlush
             \/ PrefillFails
      PROVE  DurableInv'
  BY <1>8 DEF FlushOnTrigger, FlushOnTick, FlusherStops, Flush, Close, CloseFlush, PrefillFails
<1>9. ASSUME NEW k \in Keys, Expire(k) PROVE DurableInv'
  BY <1>9 DEF Expire
<1>10. ASSUME UNCHANGED vars PROVE DurableInv'
  BY <1>10
<1> QED
  <2>1. /\ \A w \in Workers : w \in Threads
        /\ Main \in Threads
    BY DEF Threads
  <2> QED
    BY <2>1, <1>1, <1>2, <1>3, <1>4, <1>5, <1>6, <1>7, <1>8, <1>9, <1>10
    DEF Next, Step, BeginSet, Prefill

\* CacheAside and WriteThrough serve only values that have been in the database,
\* for any number of workers on any keys and with any calls failing.
THEOREM CacheReadsAreDurable == Spec => []ReadsAreDurable
<1>1. Init => DurableInv
  BY DEF Init, DurableInv, Absent
<1>2. TypeInv /\ DurableInv /\ [Next]_vars => DurableInv'
  BY DurableStep
<1>3. DurableInv => ReadsAreDurable
  BY DEF DurableInv, ReadsAreDurable, Threads
<1>4. Init => TypeInv
  BY InitTypes
<1>5. TypeInv /\ [Next]_vars => TypeInv'
  BY TypeStep
<1> QED BY <1>1, <1>2, <1>3, <1>4, <1>5, PTL DEF Spec

-----------------------------------------------------------------------------
(* ClosePersists: where the newest value of a key is.                      *)

\* v has been committed, or its transaction failed.
Settled(v) == v \in durable \/ v \in lost

\* The newest value is in the dirty map, else in main's batch, else in the
\* flusher's, else in the database, unless its transaction failed or an older
\* value of the key was in the flusher's hand when main took it.
NewestInv ==
    \A k \in Keys :
        /\ dirty[k] # 0 => dirty[k] = last[k]
        /\ mbatch[k] # 0 => mbatch[k] = last[k] /\ (fbatch[k] # 0 => last[k] \in crossed)
        /\ dirty[k] = 0 /\ mbatch[k] = 0 /\ fbatch[k] # 0
                => fbatch[k] = last[k] \/ (last[k] \in crossed /\ Settled(last[k]))
        /\ dirty[k] = 0 /\ mbatch[k] = 0 /\ fbatch[k] = 0 /\ last[k] # 0
                => \/ last[k] \in lost
                   \/ last[k] \in durable /\ (db[k] = last[k] \/ last[k] \in crossed)

Before == {"prefill", "run", "exited"}

\* While main is in Flush or Close no worker is in a call; from the final Flush
\* on the dirty map is empty, and after Close the flusher is done.
MainInv ==
    /\ main # "run" => \A w \in Workers : pc[w] = "idle"
    /\ main \notin {"prefill", "exited"} => pc[Main] = "idle"
    /\ main = "exited" => pc[Main] \in {"idle", "failed"}
    /\ main \notin Before => In(dirty) = {}
    /\ main \in {"stopping", "final"} => strategy = "write_back"
    /\ main \in {"final", "closed"} /\ strategy = "write_back" => flusher = "done"
    /\ flusher = "done" => main \in {"stopping", "final", "closed"}
    /\ strategy # "write_back" => last = Absent /\ flusher = "wait"

PersistInv == TypeInv /\ MainInv /\ NewestInv

\* No step leaves the newest value behind: a batch that is taken covers the ones
\* before it, and one that meets the same key in the flusher's hand is marked.
LEMMA PersistStep ==
    ASSUME PersistInv, [Next]_vars
    PROVE  PersistInv'
<1>0. TypeInv'
  BY TypeStep DEF PersistInv
<1>00. Home \in Keys /\ Main \in Threads /\ Main \notin Workers /\ Workers \subseteq Threads
  BY KeysAssumption, MainAssumption DEF Home, Threads
<1>000. Threads = Workers \cup {Main}
  BY DEF Threads
<1> SUFFICES MainInv' /\ NewestInv'
  BY <1>0 DEF PersistInv
<1> USE <1>00, <1>000 DEF PersistInv, MainInv, NewestInv, TypeInv, CacheTypeOK, PlaceInv, vars,
            storeVars, workVars, flushVars, histVars, Goto, Carry, Leave, In, Absent, Before,
            Settled
<1>1. ASSUME NEW w \in Workers, NEW k \in Keys, BeginGet(w, k) PROVE MainInv' /\ NewestInv'
  BY <1>1 DEF BeginGet, MayUse
<1>2. ASSUME NEW w \in Threads, GetCache(w) \/ GetDirty(w) \/ GetDb(w) \/ Fill(w)
      PROVE  MainInv' /\ NewestInv'
  BY <1>2 DEF GetCache, GetDirty, GetDb, Fill
<1>3. ASSUME NEW w \in Threads, SetDb(w) PROVE MainInv' /\ NewestInv'
  <2>1. strategy # "write_back" /\ last = Absent
    BY <1>3 DEF SetDb
  <2>2. NewestInv'
    BY <1>3, <2>1 DEF SetDb
  <2>3. MainInv'
    BY <1>3 DEF SetDb
  <2> QED BY <2>2, <2>3
<1>4. ASSUME NEW w \in Threads, Del(w) \/ SetCache(w) \/ TriggerFlush(w)
      PROVE  MainInv' /\ NewestInv'
  BY <1>4 DEF Del, SetCache, TriggerFlush, Complete
<1>5. ASSUME NEW w \in Threads, SetDirty(w) PROVE MainInv' /\ NewestInv'
  <2>1. /\ strategy = "write_back" /\ main \in {"prefill", "run", "exited"} /\ val[w] # 0
        /\ key[w] \in Keys
    BY <1>5 DEF SetDirty
  <2>4. In(mbatch) = {}
    BY <2>1
  <2>2. NewestInv'
    BY <1>5, <2>1, <2>4 DEF SetDirty
  <2>3. MainInv'
    BY <1>5, <2>1 DEF SetDirty, Complete
  <2> QED BY <2>2, <2>3
<1>6. ASSUME NEW w \in Threads, CallFails(w) \/ Return(w) PROVE MainInv' /\ NewestInv'
  BY <1>6 DEF CallFails, Return
<1>7. ASSUME FlushOnTrigger \/ FlushOnTick PROVE MainInv' /\ NewestInv'
  <2>1. strategy = "write_back" /\ flusher = "wait" /\ In(fbatch) = {}
    BY <1>7 DEF FlushOnTrigger, FlushOnTick
  <2>2. /\ fbatch' = dirty /\ dirty' = Absent
        /\ UNCHANGED <<mbatch, last, db, lost, durable, crossed>>
    BY <1>7 DEF FlushOnTrigger, FlushOnTick, Take
  <2>3. \A k \in Keys : dirty[k] # 0 => mbatch[k] = 0
    OBVIOUS
  <2>4. NewestInv'
    BY <2>1, <2>2, <2>3
  <2>5. MainInv'
    BY <1>7, <2>1 DEF FlushOnTrigger, FlushOnTick, Take
  <2> QED BY <2>4, <2>5
<1>9. ASSUME FlusherCommit PROVE MainInv' /\ NewestInv'
  <2>1. MainInv'
    BY <1>9 DEF FlusherCommit
  <2>3. ASSUME BatchSet(fbatch) PROVE NewestInv'
    BY <1>9, <2>3 DEF FlusherCommit, BatchSet, Written, Values
  <2>4. ASSUME BatchFails(fbatch) PROVE NewestInv'
    BY <1>9, <2>4 DEF FlusherCommit, BatchFails, Values
  <2> QED BY <1>9, <2>1, <2>3, <2>4 DEF FlusherCommit
<1>10. ASSUME FlusherStops PROVE MainInv' /\ NewestInv'
  BY <1>10 DEF FlusherStops
<1>11. ASSUME Flush PROVE MainInv' /\ NewestInv'
  <2>1. In(mbatch) = {}
    BY <1>11 DEF Flush
  <2>2. NewestInv'
    BY <1>11, <2>1 DEF Flush, Take
  <2>3. MainInv'
    BY <1>11, <2>1 DEF Flush, Take, WorkersIdle
  <2> QED BY <2>2, <2>3
<1>12. ASSUME Close PROVE MainInv' /\ NewestInv'
  BY <1>12 DEF Close
<1>13. ASSUME CloseFlush PROVE MainInv' /\ NewestInv'
  <2>1. In(mbatch) = {} /\ In(fbatch) = {} /\ strategy = "write_back"
    BY <1>13 DEF CloseFlush
  <2>2. NewestInv'
    BY <1>13, <2>1 DEF CloseFlush, Take
  <2>3. MainInv'
    BY <1>13, <2>1 DEF CloseFlush, Take
  <2> QED BY <2>2, <2>3
<1>14. ASSUME MainCommit \/ MainCommitFails PROVE MainInv' /\ NewestInv'
  <2>1. In(dirty) = {} /\ MainInv'
    BY <1>14 DEF MainCommit, MainCommitFails
  <2>2. ASSUME MainCommit PROVE NewestInv'
    BY <2>1, <2>2 DEF MainCommit, BatchSet, Written, Values
  <2>3. ASSUME MainCommitFails PROVE NewestInv'
    BY <2>1, <2>3 DEF MainCommitFails, BatchFails, Values
  <2> QED BY <1>14, <2>1, <2>2, <2>3
<1>15. ASSUME NEW k \in Keys, Expire(k) PROVE MainInv' /\ NewestInv'
  BY <1>15 DEF Expire
<1>16. ASSUME UNCHANGED vars PROVE MainInv' /\ NewestInv'
  BY <1>16
<1>17. ASSUME NEW w \in Workers, NEW k \in Keys, BeginSet(w, k) PROVE MainInv' /\ NewestInv'
  BY <1>17 DEF BeginSet, CallSet, MayUse
<1>18. ASSUME NEW k \in Keys, Prefill(k) PROVE MainInv' /\ NewestInv'
  BY <1>18 DEF Prefill, CallSet
<1>19. ASSUME PrefillFails PROVE MainInv' /\ NewestInv'
  BY <1>19 DEF PrefillFails
<1> QED
  BY <1>1, <1>2, <1>3, <1>4, <1>5, <1>6, <1>7, <1>9, <1>10, <1>11, <1>12, <1>13,
     <1>14, <1>15, <1>16, <1>17, <1>18, <1>19 DEF Next, Step

\* Nothing is written at the start, so nothing is missing in the database.
LEMMA InitPersist == Init => PersistInv
  BY InitTypes DEF Init, PersistInv, MainInv, NewestInv, In, Absent, Before, Threads

\* After Close the newest value of every key has been committed, or its transaction
\* failed, and it is what the database has, unless the final Flush took it while the
\* flusher was writing an older value of the key; whatever calls fail and however the
\* workers, the flusher and main interleave.
THEOREM CacheClosePersists == Spec => []ClosePersists
<1>1. PersistInv /\ [Next]_vars => PersistInv'
  BY PersistStep
<1>2. PersistInv => ClosePersists
  BY DEF PersistInv, TypeInv, CacheTypeOK, MainInv, NewestInv, ClosePersists, In, Before
<1> QED BY InitPersist, <1>1, <1>2, PTL DEF Spec

-----------------------------------------------------------------------------
(* ReadYourWrites: a key that one worker at a time uses and whose entry    *)
(* stays in the cache until its value is flushed.                          *)

Own == Exclusive \cap LongLived

\* v is no older than what the last Set left, or an error of that Set was ignored.
Fresh(v, k) == v >= done[k] \/ done[k] \in lost

SetPlaces == {"setDb", "del", "setCache", "setDirty", "trigger"}

\* One worker at a time, and the value of its Set is the newest of all.
AloneInv ==
    /\ \A k \in Own, v, w \in Threads :
            pc[v] # "idle" /\ pc[w] # "idle" /\ key[v] = k /\ key[w] = k => v = w
    /\ \A k \in Own : done[k] <= sets
    /\ \A w \in Threads : pc[w] \in SetPlaces /\ key[w] \in Own
            => val[w] > done[key[w]] /\ val[w] <= sets

\* What the strategies have written by each place of a Set.
WrittenInv ==
    \A w \in Threads : key[w] \in Own =>
        /\ pc[w] = "del" => db[key[w]] = val[w]
        /\ pc[w] = "setCache" /\ strategy = "write_through" => db[key[w]] = val[w]
        /\ pc[w] = "setDirty" => cache[key[w]] = val[w]
        /\ pc[w] = "trigger" => last[key[w]] = val[w] /\ cache[key[w]] \in {0, val[w]}

\* The places a reader may take a value from.
FreshInv ==
    /\ \A k \in Own :
        /\ cache[k] # 0 => Fresh(cache[k], k)
        /\ strategy # "write_back" => db[k] >= done[k]
        /\ strategy = "write_back" => last[k] >= done[k]
        /\ strategy = "write_back" /\ last[k] # done[k]
                => \E w \in Threads : pc[w] = "trigger" /\ key[w] = k
        /\ strategy = "write_back" /\ cache[k] = 0 => ~Unflushed(k)
    /\ \A w \in Threads : key[w] \in Own =>
        /\ pc[w] \in {"getDirty", "getDb"} => cache[key[w]] = 0
        /\ pc[w] \in {"fill", "got"} => Fresh(val[w], key[w])

\* The prefill sets a key once, so that its Flush never meets a key that the
\* flusher has in hand: until the final Flush nothing is crossed.
PrefillInv ==
    /\ main \in {"prefill", "first", "run"} => crossed = {}
    /\ main = "prefill" => \A k \in Keys :
        /\ dirty[k] = 0 \/ fbatch[k] = 0
        /\ done[k] = 0 /\ ~(pc[Main] = "trigger" /\ key[Main] = k)
                => dirty[k] = 0 /\ fbatch[k] = 0
    /\ main = "prefill" /\ pc[Main] # "idle" => done[key[Main]] = 0

OwnInv == PersistInv /\ AloneInv /\ WrittenInv /\ FreshInv /\ PrefillInv

\* Every step keeps it: main sets a key that nobody has set, and no step but Flush
\* adds to crossed.
LEMMA PrefillStep ==
    ASSUME PersistInv, PrefillInv, [Next]_vars
    PROVE  PrefillInv'
<1>00. Home \in Keys /\ Main \in Threads /\ Main \notin Workers /\ Workers \subseteq Threads
  BY KeysAssumption, MainAssumption DEF Home, Threads
<1>000. Threads = Workers \cup {Main}
  BY DEF Threads
<1> USE <1>00, <1>000 DEF PersistInv, MainInv, TypeInv, CacheTypeOK, PlaceInv, vars,
            storeVars, workVars, flushVars, histVars, Goto, Carry, Leave, In, Absent, Before,
            PrefillInv
<1>1. ASSUME NEW w \in Workers, NEW k \in Keys, BeginGet(w, k) \/ BeginSet(w, k)
      PROVE  PrefillInv'
  BY <1>1 DEF BeginGet, BeginSet, CallSet, MayUse
<1>2. ASSUME NEW k \in Keys, Prefill(k) PROVE PrefillInv'
  BY <1>2 DEF Prefill, CallSet
<1>3. ASSUME NEW w \in Threads, GetCache(w) \/ GetDirty(w) \/ GetDb(w) \/ Fill(w) \/ SetDb(w)
      PROVE  PrefillInv'
  BY <1>3 DEF GetCache, GetDirty, GetDb, Fill, SetDb
<1>4. ASSUME NEW w \in Threads, Del(w) \/ SetCache(w) \/ TriggerFlush(w) PROVE PrefillInv'
  <2>1. main = "prefill" => w = Main
    BY <1>4 DEF Del, SetCache, TriggerFlush
  <2>2. key[w] \in Keys /\ val[w] # 0 /\ val[w] \in Nat
    BY <1>4 DEF Del, SetCache, TriggerFlush
  <2>3. main' = main /\ crossed' = crossed /\ dirty' = dirty /\ fbatch' = fbatch
    BY <1>4 DEF Del, SetCache, TriggerFlush
  <2>4. main # "prefill" => PrefillInv'
    BY <2>3
  <2>5. ASSUME main = "prefill" PROVE PrefillInv'
    <3>1. w = Main /\ done[key[w]] = 0 /\ done[key[w]] \in Nat
      BY <1>4, <2>1, <2>2, <2>5 DEF Del, SetCache, TriggerFlush
    <3>2. CASE Complete(w)
      <4>1. \A k \in Keys : k # key[w] => done'[k] = done[k]
        BY <3>2 DEF Complete
      <4>2. pc'[w] = "idle" /\ done'[key[w]] # 0
        BY <2>2, <3>1, <3>2 DEF Complete, Larger
      <4> QED BY <2>3, <2>5, <3>1, <4>1, <4>2
    <3>3. CASE pc'[w] = "setDirty" /\ key' = key /\ done' = done /\ pc[w] = "setCache"
      BY <2>3, <2>5, <3>1, <3>3
    <3>4. Complete(w) \/ (pc'[w] = "setDirty" /\ key' = key /\ done' = done /\ pc[w] = "setCache")
      BY <1>4 DEF Del, SetCache, TriggerFlush
    <3> QED BY <3>2, <3>3, <3>4
  <2> QED BY <2>4, <2>5
<1>5. ASSUME NEW w \in Threads, SetDirty(w) PROVE PrefillInv'
  <2>1. main = "prefill" => w = Main
    BY <1>5 DEF SetDirty
  <2>2. key[w] \in Keys /\ val[w] # 0 /\ val[w] \in Nat
    BY <1>5 DEF SetDirty
  <2>3. main' = main /\ crossed' = crossed
    BY <1>5 DEF SetDirty
  <2>4. main # "prefill" => PrefillInv'
    BY <2>3
  <2>5. ASSUME main = "prefill" PROVE PrefillInv'
    <3>1. w = Main /\ done[key[w]] = 0
      BY <1>5, <2>1, <2>5 DEF SetDirty
    <3>2. \A k \in Keys : k # key[w] => dirty'[k] = dirty[k] /\ done'[k] = done[k]
      BY <1>5 DEF SetDirty, Complete
    <3>3. fbatch' = fbatch /\ fbatch[key[w]] = 0
      BY <1>5, <2>2, <2>5, <3>1 DEF SetDirty
    <3>4. CASE Cardinality(In(dirty')) >= BatchSize
      <4>1. pc'[w] = "trigger" /\ key' = key /\ done' = done
        BY <1>5, <3>4 DEF SetDirty
      <4> QED
        BY <2>3, <2>5, <3>1, <3>2, <3>3, <4>1
    <3>5. CASE ~(Cardinality(In(dirty')) >= BatchSize)
      <4>1. pc'[w] = "idle" /\ done'[key[w]] # 0
        BY <1>5, <2>2, <3>1, <3>5 DEF SetDirty, Complete, Larger
      <4> QED
        BY <2>3, <2>5, <3>1, <3>2, <3>3, <4>1
    <3> QED BY <3>4, <3>5
  <2> QED BY <2>4, <2>5
<1>6. ASSUME NEW w \in Threads, CallFails(w) \/ Return(w) PROVE PrefillInv'
  BY <1>6 DEF CallFails, Return
<1>7. ASSUME FlushOnTrigger \/ FlushOnTick \/ FlusherCommit \/ FlusherStops PROVE PrefillInv'
  BY <1>7 DEF FlushOnTrigger, FlushOnTick, FlusherCommit, FlusherStops, Take
<1>8. ASSUME Flush PROVE PrefillInv'
  <2>1. CASE main = "prefill"
    <3>1. In(dirty) \cap In(fbatch) = {}
      BY <2>1
    <3>2. crossed' = {}
      BY <1>8, <2>1, <3>1 DEF Flush
    <3> QED BY <1>8, <2>1, <3>2 DEF Flush
  <2>2. CASE main = "run"
    BY <1>8, <2>2 DEF Flush
  <2> QED BY <1>8, <2>1, <2>2 DEF Flush
<1>9. ASSUME Close \/ CloseFlush \/ MainCommit \/ MainCommitFails \/ PrefillFails
      PROVE  PrefillInv'
  BY <1>9 DEF Close, CloseFlush, MainCommit, MainCommitFails, PrefillFails
<1>10. ASSUME NEW k \in Keys, Expire(k) PROVE PrefillInv'
  BY <1>10 DEF Expire
<1>11. ASSUME UNCHANGED vars PROVE PrefillInv'
  BY <1>11
<1> QED
  BY <1>1, <1>2, <1>3, <1>4, <1>5, <1>6, <1>7, <1>8, <1>9, <1>10, <1>11 DEF Next, Step

\* Every step keeps the own keys of a worker untouched by the others, what its Set has
\* written so far, and the places from which its next Get takes a value.
LEMMA OwnStep ==
    ASSUME OwnInv, [Next]_vars
    PROVE  OwnInv'
<1>0. PersistInv' /\ PrefillInv'
  BY PersistStep, PrefillStep DEF OwnInv
<1>00. Home \in Keys /\ Main \in Threads /\ Main \notin Workers /\ Workers \subseteq Threads
  BY KeysAssumption, MainAssumption DEF Home, Threads
<1>000. Own \subseteq Keys
  BY KeysAssumption DEF Own
<1> DEFINE Kept == AloneInv /\ WrittenInv /\ FreshInv
<1> SUFFICES Kept'
  BY <1>0 DEF OwnInv
<1> USE <1>000 DEF OwnInv, PersistInv, TypeInv, CacheTypeOK, PlaceInv, SetPlaces, vars,
            storeVars, workVars, flushVars, histVars, Goto, Carry, Leave, Fresh, Unflushed
<1>1. ASSUME NEW w \in Workers, NEW k \in Keys, BeginGet(w, k) PROVE Kept'
  <2>1. AloneInv'
    <3>1. k \in Exclusive => \A v \in Threads : pc[v] = "idle" \/ key[v] # k
      BY <1>1 DEF BeginGet, MayUse, MainInv, Threads
    <3> QED BY <1>1, <3>1 DEF AloneInv, BeginGet, MayUse, Own
  <2>2. WrittenInv'
    BY <1>1 DEF WrittenInv, BeginGet
  <2>3. FreshInv'
    BY <1>1 DEF FreshInv, BeginGet, MayUse
  <2> QED BY <2>1, <2>2, <2>3
<1>2. ASSUME NEW w \in Threads, NEW k \in Keys, pc[w] = "idle", CallSet(w, k),
             k \in Exclusive => \A v \in Threads : pc[v] = "idle" \/ key[v] # k
      PROVE  Kept'
  <2>1. AloneInv'
    BY <1>2 DEF AloneInv, CallSet, Own
  <2>2. WrittenInv'
    BY <1>2 DEF WrittenInv, CallSet
  <2>3. FreshInv'
    BY <1>2 DEF FreshInv, CallSet
  <2> QED BY <2>1, <2>2, <2>3
<1>3. ASSUME NEW w \in Threads, GetCache(w) PROVE Kept'
  <2>1. AloneInv'
    BY <1>3 DEF AloneInv, GetCache
  <2>2. WrittenInv'
    BY <1>3 DEF WrittenInv, GetCache
  <2>3. FreshInv'
    BY <1>3 DEF FreshInv, GetCache
  <2> QED BY <2>1, <2>2, <2>3
<1>4. ASSUME NEW w \in Threads, GetDirty(w) PROVE Kept'
  <2>1. AloneInv'
    BY <1>4 DEF AloneInv, GetDirty
  <2>2. WrittenInv'
    BY <1>4 DEF WrittenInv, GetDirty
  <2>3. FreshInv'
    BY <1>4 DEF FreshInv, GetDirty
  <2> QED BY <2>1, <2>2, <2>3
<1>5. ASSUME NEW w \in Threads, GetDb(w) PROVE Kept'
  <2>1. AloneInv'
    BY <1>5 DEF AloneInv, GetDb
  <2>2. WrittenInv'
    BY <1>5 DEF WrittenInv, GetDb
  <2>3. FreshInv'
    <3>1. crossed = {}
      BY <1>5 DEF GetDb, MainInv, PrefillInv, Threads
    <3> QED BY <1>5, <3>1 DEF AloneInv, FreshInv, NewestInv, GetDb
  <2> QED BY <2>1, <2>2, <2>3
<1>6. ASSUME NEW w \in Threads, Fill(w) PROVE Kept'
  <2>1. AloneInv'
    BY <1>6 DEF AloneInv, Fill
  <2>2. WrittenInv'
    BY <1>6 DEF AloneInv, WrittenInv, Fill
  <2>3. FreshInv'
    BY <1>6 DEF AloneInv, FreshInv, Fill
  <2> QED BY <2>1, <2>2, <2>3
<1>7. ASSUME NEW w \in Threads, SetDb(w) PROVE Kept'
  <2>1. AloneInv'
    BY <1>7 DEF AloneInv, SetDb
  <2>2. WrittenInv'
    BY <1>7 DEF AloneInv, WrittenInv, SetDb
  <2>3. FreshInv'
    BY <1>7 DEF AloneInv, FreshInv, SetDb
  <2> QED BY <2>1, <2>2, <2>3
<1>8. ASSUME NEW w \in Threads, Del(w) PROVE Kept'
  <2>1. AloneInv'
    BY <1>00, <1>8 DEF AloneInv, Del, Complete, Larger
  <2>2. WrittenInv'
    BY <1>00, <1>8 DEF WrittenInv, Del, Complete
  <2>3. FreshInv'
    BY <1>00, <1>8 DEF AloneInv, WrittenInv, FreshInv, Del, Complete, Larger
  <2> QED BY <2>1, <2>2, <2>3
<1>9. ASSUME NEW w \in Threads, SetCache(w) PROVE Kept'
  <2>1. AloneInv'
    BY <1>00, <1>9 DEF AloneInv, SetCache, Complete, Larger
  <2>2. WrittenInv'
    BY <1>00, <1>9 DEF AloneInv, WrittenInv, SetCache, Complete
  <2>3. ASSUME strategy = "write_back" PROVE FreshInv'
    <3>1. /\ pc' = [pc EXCEPT ![w] = "setDirty"]
          /\ UNCHANGED <<key, val, done, last, lost, db, dirty, fbatch, mbatch, strategy>>
      BY <1>9, <2>3 DEF SetCache
    <3> QED BY <1>9, <2>3, <3>1 DEF AloneInv, FreshInv, SetCache
  <2>4. ASSUME strategy # "write_back" PROVE FreshInv'
    BY <1>00, <1>9, <2>4
    DEF AloneInv, WrittenInv, FreshInv, SetCache, Complete, Larger, Strategies
  <2>5. FreshInv'
    BY <2>3, <2>4
  <2> QED BY <2>1, <2>2, <2>5
<1>10. ASSUME NEW w \in Threads, SetDirty(w) PROVE Kept'
  <2>1. AloneInv'
    BY <1>00, <1>10 DEF AloneInv, SetDirty, Complete, Larger
  <2>2. WrittenInv'
    BY <1>00, <1>10 DEF WrittenInv, SetDirty, Complete
  <2>3. strategy = "write_back"
    BY <1>10 DEF SetDirty
  <2>4. ASSUME Cardinality(In(dirty')) >= BatchSize PROVE FreshInv'
    BY <1>10, <2>3, <2>4 DEF AloneInv, FreshInv, SetDirty
  <2>5. ASSUME ~(Cardinality(In(dirty')) >= BatchSize) PROVE FreshInv'
    BY <1>00, <1>10, <2>3, <2>5 DEF AloneInv, WrittenInv, FreshInv, SetDirty, Complete, Larger
  <2>6. FreshInv'
    BY <2>4, <2>5
  <2> QED BY <2>1, <2>2, <2>6
<1>11. ASSUME NEW w \in Threads, TriggerFlush(w) PROVE Kept'
  <2>1. AloneInv'
    BY <1>00, <1>11 DEF AloneInv, TriggerFlush, Complete, Larger
  <2>2. WrittenInv'
    BY <1>00, <1>11 DEF WrittenInv, TriggerFlush, Complete
  <2>3. FreshInv'
    BY <1>00, <1>11 DEF AloneInv, WrittenInv, FreshInv, TriggerFlush, Complete, Larger
  <2> QED BY <2>1, <2>2, <2>3
<1>12. ASSUME NEW w \in Threads, CallFails(w) PROVE Kept'
  <2>1. AloneInv'
    BY <1>12 DEF AloneInv, CallFails
  <2>2. WrittenInv'
    BY <1>12 DEF WrittenInv, CallFails
  <2>3. FreshInv'
    BY <1>12 DEF FreshInv, CallFails
  <2> QED BY <2>1, <2>2, <2>3
<1>13. ASSUME NEW w \in Threads, Return(w) PROVE Kept'
  <2>1. AloneInv'
    BY <1>00, <1>13 DEF AloneInv, Return
  <2>2. WrittenInv'
    BY <1>00, <1>13 DEF WrittenInv, Return
  <2>3. FreshInv'
    BY <1>00, <1>13 DEF FreshInv, Return
  <2> QED BY <2>1, <2>2, <2>3
<1>14. ASSUME FlushOnTrigger PROVE Kept'
  <2>1. AloneInv'
    BY <1>14 DEF AloneInv, FlushOnTrigger, Take
  <2>2. WrittenInv'
    BY <1>14 DEF WrittenInv, FlushOnTrigger, Take
  <2>3. FreshInv'
    BY <1>14 DEF FreshInv, NewestInv, In, Absent, FlushOnTrigger, Take
  <2> QED BY <2>1, <2>2, <2>3
<1>15. ASSUME FlushOnTick PROVE Kept'
  <2>1. AloneInv'
    BY <1>15 DEF AloneInv, FlushOnTick, Take
  <2>2. WrittenInv'
    BY <1>15 DEF WrittenInv, FlushOnTick, Take
  <2>3. FreshInv'
    BY <1>15 DEF FreshInv, NewestInv, In, Absent, FlushOnTick, Take
  <2> QED BY <2>1, <2>2, <2>3
<1>16. ASSUME FlusherCommit PROVE Kept'
  <2>1. AloneInv'
    BY <1>16 DEF AloneInv, FlusherCommit
  <2>2. WrittenInv'
    BY <1>16 DEF WrittenInv, MainInv, FlusherCommit
  <2>3. FreshInv'
    <3>1. strategy = "write_back"
      BY <1>16 DEF MainInv, FlusherCommit
    <3>2. lost \subseteq lost'
      BY <1>16 DEF FlusherCommit, BatchSet, BatchFails
    <3> QED
      BY <1>16, <3>1, <3>2 DEF FreshInv, Absent, FlusherCommit
  <2> QED BY <2>1, <2>2, <2>3
<1>17. ASSUME FlusherStops PROVE Kept'
  <2>1. AloneInv'
    BY <1>17 DEF AloneInv, FlusherStops
  <2>2. WrittenInv'
    BY <1>17 DEF WrittenInv, FlusherStops
  <2>3. FreshInv'
    BY <1>17 DEF FreshInv, FlusherStops
  <2> QED BY <2>1, <2>2, <2>3
<1>18. ASSUME Flush PROVE Kept'
  <2>1. AloneInv'
    BY <1>18 DEF AloneInv, Flush, Take
  <2>2. WrittenInv'
    BY <1>18 DEF WrittenInv, Flush, Take
  <2>3. FreshInv'
    BY <1>18 DEF FreshInv, NewestInv, In, Absent, Flush, Take
  <2> QED BY <2>1, <2>2, <2>3
<1>19. ASSUME Close PROVE Kept'
  <2>1. AloneInv'
    BY <1>19 DEF AloneInv, Close
  <2>2. WrittenInv'
    BY <1>19 DEF WrittenInv, Close
  <2>3. FreshInv'
    BY <1>19 DEF FreshInv, Close
  <2> QED BY <2>1, <2>2, <2>3
<1>20. ASSUME CloseFlush PROVE Kept'
  <2>1. AloneInv'
    BY <1>20 DEF AloneInv, CloseFlush, Take
  <2>2. WrittenInv'
    BY <1>20 DEF WrittenInv, CloseFlush, Take
  <2>3. FreshInv'
    BY <1>20 DEF FreshInv, NewestInv, In, Absent, CloseFlush, Take
  <2> QED BY <2>1, <2>2, <2>3
<1>21. ASSUME MainCommit \/ MainCommitFails PROVE Kept'
  <2>1. AloneInv'
    BY <1>21 DEF AloneInv, MainCommit, MainCommitFails
  <2>4. strategy = "write_back"
    BY <1>21 DEF MainInv, In, MainCommit, MainCommitFails, NewestInv, Absent
  <2>2. WrittenInv'
    BY <1>21, <2>4 DEF WrittenInv, MainCommit, MainCommitFails
  <2>3. FreshInv'
    <3>2. lost \subseteq lost'
      BY <1>21 DEF MainCommit, MainCommitFails, BatchSet, BatchFails
    <3> QED
      BY <1>21, <2>4, <3>2 DEF FreshInv, Absent, MainCommit, MainCommitFails
  <2> QED BY <2>1, <2>2, <2>3
<1>22. ASSUME NEW k \in Keys, Expire(k) PROVE Kept'
  <2>1. AloneInv'
    BY <1>22 DEF AloneInv, Expire
  <2>2. WrittenInv'
    BY <1>22 DEF WrittenInv, Own, Expire
  <2>3. FreshInv'
    BY <1>22 DEF FreshInv, Own, Expire
  <2> QED BY <2>1, <2>2, <2>3
<1>23. ASSUME UNCHANGED vars PROVE Kept'
  <2>1. AloneInv'
    BY <1>23 DEF AloneInv
  <2>2. WrittenInv'
    BY <1>23 DEF WrittenInv
  <2>3. FreshInv'
    BY <1>23 DEF FreshInv
  <2> QED BY <2>1, <2>2, <2>3
<1>24. ASSUME PrefillFails PROVE Kept'
  <2>1. AloneInv'
    BY <1>24 DEF AloneInv, PrefillFails
  <2>2. WrittenInv'
    BY <1>24 DEF WrittenInv, PrefillFails
  <2>3. FreshInv'
    BY <1>24 DEF FreshInv, PrefillFails
  <2> QED BY <2>1, <2>2, <2>3
<1>25. ASSUME NEW w \in Workers, NEW k \in Keys, BeginSet(w, k) PROVE Kept'
  <2>1. k \in Exclusive => \A v \in Threads : pc[v] = "idle" \/ key[v] # k
    BY <1>25 DEF BeginSet, MayUse, MainInv, Threads
  <2>2. w \in Threads /\ pc[w] = "idle" /\ CallSet(w, k)
    BY <1>25 DEF BeginSet, MayUse, Threads
  <2> QED BY <2>1, <2>2, <1>2
<1>26. ASSUME NEW k \in Keys, Prefill(k) PROVE Kept'
  <2>1. \A v \in Threads : pc[v] = "idle"
    BY <1>26 DEF Prefill, MainInv, Threads
  <2>2. Main \in Threads /\ CallSet(Main, k)
    BY <1>26 DEF Prefill, Threads
  <2> QED BY <2>1, <2>2, <1>2
<1> QED
  BY <1>1, <1>3, <1>4, <1>5, <1>6, <1>7, <1>8, <1>9, <1>10, <1>11, <1>12, <1>13,
     <1>14, <1>15, <1>16, <1>17, <1>18, <1>19, <1>20, <1>21, <1>22, <1>23, <1>24, <1>25,
     <1>26 DEF Next, Step

\* A worker that has a key to itself reads what it wrote, under each strategy,
\* whatever the other workers, the flusher and main do, if the cached entry outlives
\* the flush of its value.
THEOREM CacheReadYourWrites == Spec => []ReadYourWrites
<1>1. Init => OwnInv
  <2>1. Init => AloneInv /\ WrittenInv /\ FreshInv /\ PrefillInv
    BY KeysAssumption
       DEF Init, AloneInv, WrittenInv, FreshInv, PrefillInv, Own, Absent, Unflushed, SetPlaces,
           Threads
  <2> QED BY <2>1, InitPersist DEF OwnInv
<1>2. OwnInv /\ [Next]_vars => OwnInv'
  BY OwnStep
<1>3. OwnInv => ReadYourWrites
  BY DEF OwnInv, FreshInv, ReadYourWrites, Own, Fresh, Threads
<1> QED BY <1>1, <1>2, <1>3, PTL DEF Spec
=============================================================================
