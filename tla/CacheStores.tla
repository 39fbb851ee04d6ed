---------------------------- MODULE CacheStores ----------------------------
(***************************************************************************)
(* tasks/task_4/internal/store: the three cache strategies over one Redis  *)
(* and one SQLite, under the load of the benchmark in tasks/task_4/cmd.    *)
(*                                                                         *)
(* A Get or a Set is several calls to the cache and to the database, and   *)
(* nothing but WriteBack's dirty map is behind a mutex: every call is a    *)
(* step of its own. Beside the workers run the flusher of WriteBack, the   *)
(* expiry of cached entries, and main, which sets every key once before    *)
(* the workers start and calls Flush and Close after they have ended.      *)
(*                                                                         *)
(* A value is the number of the Set that writes it; 0 stands for a key     *)
(* that is absent. Metrics are left out.                                   *)
(***************************************************************************)
EXTENDS Naturals, FiniteSets

CONSTANTS
    Workers,        \* the benchmark's goroutines
    Main,           \* the goroutine of main, which makes the calls of the prefill
    Keys,
    Exclusive,      \* keys that one worker at a time uses
    BatchSize,      \* WriteBackConfig.BatchSize
    Faults,         \* which calls may fail in this instance
    LongLived,      \* keys whose entry does not expire before its value is flushed
    MaxSets         \* bound: calls of Set by workers

Strategies == {"cache_aside", "write_through", "write_back"}
CacheFaults == {"cacheGet", "cacheSet", "cacheDel", "dbGet", "dbSet", "batch"}

ASSUME MainAssumption == Main \notin Workers
ASSUME KeysAssumption == Keys # {} /\ Exclusive \subseteq Keys /\ LongLived \subseteq Keys
ASSUME BatchAssumption == BatchSize \in Nat \ {0}
ASSUME FaultsAssumption == Faults \subseteq CacheFaults
ASSUME BoundAssumption == MaxSets \in Nat

VARIABLES
    strategy,   \* which implementation of Store runs
    cache, db,  \* Redis and the kv table: the value of each key
    dirty,      \* WriteBack.dirty
    trigger,    \* WriteBack.triggerCh holds a token
    pc, key, val,   \* each goroutine's place in Get or Set, its key and value
    flusher,    \* "wait", "commit" with a batch in hand, or "done": doneCh is closed
    main,       \* where main is: see Flush, Close and MainCommit
    fbatch, mbatch, \* the batches that the flusher and main have taken
    sets,       \* history: how many calls of Set have begun
    last,       \* history: the last value put into dirty
    done,       \* history: the newest value whose Set returned without error
    durable,    \* history: the values that have been in the database
    lost,       \* history: the values in failed batches, or left in front of by a failed Del
    crossed     \* history: values that Flush took while the flusher was writing the same key

storeVars == <<cache, db, dirty, trigger>>
workVars  == <<pc, key, val>>
flushVars == <<flusher, fbatch, main, mbatch>>
histVars  == <<sets, last, done, durable, lost, crossed>>
vars == <<strategy, storeVars, workVars, flushVars, histVars>>

Threads == Workers \cup {Main}

\* What a goroutine's key is outside a call.
Home == CHOOSE k \in Keys : TRUE

Absent == [k \in Keys |-> 0]
In(f) == {k \in Keys : f[k] # 0}
Larger(a, b) == IF a > b THEN a ELSE b

Init ==
    /\ strategy \in Strategies
    /\ cache = Absent /\ db = Absent /\ dirty = Absent /\ trigger = FALSE
    /\ pc = [w \in Threads |-> "idle"]
    /\ key = [w \in Threads |-> Home]
    /\ val = [w \in Threads |-> 0]
    /\ flusher = "wait" /\ main = "prefill"
    /\ fbatch = Absent /\ mbatch = Absent
    /\ sets = 0 /\ last = Absent /\ done = Absent
    /\ durable = {} /\ lost = {} /\ crossed = {}

Goto(w, place) == pc' = [pc EXCEPT ![w] = place]
Carry(w, v) == val' = [val EXCEPT ![w] = v]

Leave(w) ==
    /\ Goto(w, "idle")
    /\ key' = [key EXCEPT ![w] = Home]
    /\ Carry(w, 0)

-----------------------------------------------------------------------------
(* A goroutine begins, and takes the result of, an operation.              *)

MayUse(w, k) ==
    /\ pc[w] = "idle"
    /\ main = "run"
    /\ k \in Exclusive => \A v \in Workers : pc[v] = "idle" \/ key[v] # k

BeginGet(w, k) ==
    /\ MayUse(w, k)
    /\ key' = [key EXCEPT ![w] = k]
    /\ Goto(w, "getCache")
    /\ UNCHANGED <<strategy, storeVars, val, flushVars, histVars>>

\* Mutant: WriteThrough starts with the cache and leaves the database for later.
CallSet_CacheFirst(w, k) ==
    /\ sets' = sets + 1
    /\ key' = [key EXCEPT ![w] = k]
    /\ Carry(w, sets + 1)
    /\ Goto(w, IF strategy = "cache_aside" THEN "setDb" ELSE "setCache")
    /\ UNCHANGED <<strategy, storeVars, flushVars, last, done, durable, lost, crossed>>

CallSet(w, k) ==
    /\ sets' = sets + 1
    /\ key' = [key EXCEPT ![w] = k]
    /\ Carry(w, sets + 1)
    /\ Goto(w, IF strategy = "write_back" THEN "setCache" ELSE "setDb")
    /\ UNCHANGED <<strategy, storeVars, flushVars, last, done, durable, lost, crossed>>

BeginSet(w, k) ==
    /\ MayUse(w, k)
    /\ sets < MaxSets + Cardinality(Keys)
    /\ CallSet(w, k)

\* main sets every key once, one after the other.
Prefill(k) ==
    /\ main = "prefill" /\ pc[Main] = "idle" /\ done[k] = 0
    /\ CallSet(Main, k)

\* log.Fatalf on an error of the prefill: nothing that is deferred runs.
PrefillFails ==
    /\ main = "prefill" /\ pc[Main] = "failed"
    /\ main' = "exited"
    /\ UNCHANGED <<strategy, storeVars, workVars, flusher, fbatch, mbatch, histVars>>

\* A worker has the result of Get, or the error of either, and looks at neither.
Return(w) ==
    /\ pc[w] \in {"got", "failed"} /\ w \in Workers
    /\ Leave(w)
    /\ UNCHANGED <<strategy, storeVars, flushVars, histVars>>

\* A call fails with an error that Get or Set passes on.
CallFails(w) ==
    /\ \/ pc[w] = "getCache" /\ "cacheGet" \in Faults
       \/ pc[w] = "getDb" /\ "dbGet" \in Faults
       \/ pc[w] = "setDb" /\ "dbSet" \in Faults
       \/ pc[w] = "setCache" /\ "cacheSet" \in Faults
    /\ Goto(w, "failed")
    /\ UNCHANGED <<strategy, storeVars, key, val, flushVars, histVars>>

-----------------------------------------------------------------------------
(* Get: the cache, then (WriteBack only) the dirty map, then the database, *)
(* whose answer is put into the cache.                                     *)

GetCache(w) ==
    /\ pc[w] = "getCache"
    /\ LET v == cache[key[w]] IN
        \/ v # 0 /\ Carry(w, v) /\ Goto(w, "got")
        \/ v = 0 /\ Carry(w, 0)
            /\ Goto(w, IF strategy = "write_back" THEN "getDirty" ELSE "getDb")
    /\ UNCHANGED <<strategy, storeVars, key, flushVars, histVars>>

GetDirty(w) ==
    /\ pc[w] = "getDirty"
    /\ LET v == dirty[key[w]] IN
        \/ v # 0 /\ Carry(w, v) /\ Goto(w, "got")
        \/ v = 0 /\ Carry(w, 0) /\ Goto(w, "getDb")
    /\ UNCHANGED <<strategy, storeVars, key, flushVars, histVars>>

\* ErrNotFound goes back to the caller at once.
GetDb(w) ==
    /\ pc[w] = "getDb"
    /\ Carry(w, db[key[w]])
    /\ Goto(w, IF db[key[w]] = 0 THEN "got" ELSE "fill")
    /\ UNCHANGED <<strategy, storeVars, key, flushVars, histVars>>

\* _ = s.c.Set(ctx, key, val): an error is ignored.
Fill(w) ==
    /\ pc[w] = "fill"
    /\ \/ cache' = [cache EXCEPT ![key[w]] = val[w]]
       \/ "cacheSet" \in Faults /\ UNCHANGED cache
    /\ Goto(w, "got")
    /\ UNCHANGED <<strategy, db, dirty, trigger, key, val, flushVars, histVars>>

-----------------------------------------------------------------------------
(* Set. *)

\* Set returns without error.
Complete(w) ==
    /\ done' = [done EXCEPT ![key[w]] = Larger(@, val[w])]
    /\ Leave(w)

\* CacheAside and WriteThrough write the database first.
SetDb(w) ==
    /\ pc[w] = "setDb"
    /\ db' = [db EXCEPT ![key[w]] = val[w]]
    /\ durable' = durable \cup {val[w]}
    /\ Goto(w, IF strategy = "cache_aside" THEN "del" ELSE "setCache")
    /\ UNCHANGED <<strategy, cache, dirty, trigger, key, val, flushVars, sets, last,
                   done, lost, crossed>>

\* Mutant: CacheAside leaves the old entry to its TTL.
Del_Forgotten(w) ==
    /\ pc[w] = "del"
    /\ Complete(w)
    /\ UNCHANGED <<strategy, storeVars, flushVars, sets, last, durable, lost, crossed>>

\* CacheAside: _ = s.c.Del(ctx, key); an error is ignored.
Del(w) ==
    /\ pc[w] = "del"
    /\ \/ cache' = [cache EXCEPT ![key[w]] = 0] /\ UNCHANGED lost
       \/ "cacheDel" \in Faults /\ UNCHANGED cache /\ lost' = lost \cup {val[w]}
    /\ Complete(w)
    /\ UNCHANGED <<strategy, db, dirty, trigger, flushVars, sets, last, durable, crossed>>

\* The last step of WriteThrough.Set, the first one of WriteBack.Set.
SetCache(w) ==
    /\ pc[w] = "setCache"
    /\ cache' = [cache EXCEPT ![key[w]] = val[w]]
    /\ IF strategy = "write_back"
       THEN Goto(w, "setDirty") /\ UNCHANGED <<key, val, done>>
       ELSE Complete(w)
    /\ UNCHANGED <<strategy, db, dirty, trigger, flushVars, sets, last, durable, lost, crossed>>

\* WriteBack: the value enters dirty under mu; a full batch calls triggerFlush.
SetDirty(w) ==
    /\ pc[w] = "setDirty"
    /\ dirty' = [dirty EXCEPT ![key[w]] = val[w]]
    /\ last' = [last EXCEPT ![key[w]] = val[w]]
    /\ IF Cardinality(In(dirty')) >= BatchSize
       THEN Goto(w, "trigger") /\ UNCHANGED <<key, val, done>>
       ELSE Complete(w)
    /\ UNCHANGED <<strategy, cache, db, trigger, flushVars, sets, durable, lost, crossed>>

\* Mutant: the channel has no buffer, a signal to a busy flusher is dropped.
TriggerFlush_Unbuffered(w) ==
    /\ pc[w] = "trigger"
    /\ trigger' = (flusher = "wait")
    /\ Complete(w)
    /\ UNCHANGED <<strategy, cache, db, dirty, flushVars, sets, last, durable, lost, crossed>>

\* A send on a channel of one place that never blocks: signals are coalesced.
TriggerFlush(w) ==
    /\ pc[w] = "trigger"
    /\ trigger' = TRUE
    /\ Complete(w)
    /\ UNCHANGED <<strategy, cache, db, dirty, flushVars, sets, last, durable, lost, crossed>>

-----------------------------------------------------------------------------
(* flushDirty, for the flusher and for main: the dirty map is taken and    *)
(* replaced under mu, and written in one transaction after the unlock.     *)

Values(batch) == {batch[k] : k \in In(batch)}

Written(batch) == [k \in Keys |-> IF batch[k] # 0 THEN batch[k] ELSE db[k]]

Take == dirty' = Absent

\* BatchSet commits, or rolls back and its batch is gone.
BatchSet(batch) ==
    db' = Written(batch) /\ durable' = durable \cup Values(batch) /\ UNCHANGED lost

BatchFails(batch) ==
    "batch" \in Faults /\ lost' = lost \cup Values(batch) /\ UNCHANGED <<db, durable>>

\* case <-s.triggerCh
FlushOnTrigger ==
    /\ flusher = "wait" /\ trigger /\ main # "exited"
    /\ trigger' = FALSE
    /\ fbatch' = dirty /\ Take
    /\ flusher' = IF In(dirty) = {} THEN "wait" ELSE "commit"
    /\ UNCHANGED <<strategy, cache, db, workVars, main, mbatch, histVars>>

\* case <-ticker.C
FlushOnTick ==
    /\ strategy = "write_back"
    /\ flusher = "wait" /\ In(dirty) # {} /\ main # "exited"
    /\ fbatch' = dirty /\ Take
    /\ flusher' = "commit"
    /\ UNCHANGED <<strategy, cache, db, trigger, workVars, main, mbatch, histVars>>

\* Mutant: a failed batch is kept for the next round, where the dirty map replaces it.
FlusherCommit_KeepsBatch ==
    /\ flusher = "commit" /\ main # "exited"
    /\ BatchSet(fbatch) \/ BatchFails(fbatch)
    /\ fbatch' = IF db' = db THEN fbatch ELSE Absent
    /\ flusher' = "wait"
    /\ UNCHANGED <<strategy, cache, dirty, trigger, workVars, main, mbatch, sets, last, done,
                   crossed>>

FlusherCommit ==
    /\ flusher = "commit" /\ main # "exited"
    /\ BatchSet(fbatch) \/ BatchFails(fbatch)
    /\ fbatch' = Absent
    /\ flusher' = "wait"
    /\ UNCHANGED <<strategy, cache, dirty, trigger, workVars, main, mbatch, sets, last, done,
                   crossed>>

\* case <-s.stopCh: the deferred close of doneCh.
FlusherStops ==
    /\ main = "stopping" /\ flusher = "wait"
    /\ flusher' = "done"
    /\ UNCHANGED <<strategy, storeVars, workVars, fbatch, main, mbatch, histVars>>

-----------------------------------------------------------------------------
(* main: Flush after the prefill and after wg.Wait, then Close.            *)

WorkersIdle == \A w \in Workers : pc[w] = "idle"

\* Flush takes what is dirty, whatever the flusher has in hand. It returns at once
\* when nothing is, as in the other stores, which have nothing to flush.
Flush ==
    /\ \/ main = "prefill" /\ pc[Main] = "idle" /\ \A k \in Keys : done[k] # 0
       \/ main = "run" /\ WorkersIdle
    /\ mbatch' = dirty /\ Take
    /\ main' = CASE main = "prefill" -> IF In(dirty) = {} THEN "run" ELSE "first"
                 [] main = "run" -> IF In(dirty) = {} THEN "flushed" ELSE "flush"
    /\ crossed' = crossed \cup {dirty[k] : k \in In(dirty) \cap In(fbatch)}
    /\ UNCHANGED <<strategy, cache, db, trigger, workVars, flusher, fbatch,
                   sets, last, done, durable, lost>>

\* Mutant: Close does not wait for doneCh.
CloseFlush_NoWait ==
    /\ main = "stopping"
    /\ mbatch' = dirty /\ Take
    /\ main' = IF In(dirty) = {} THEN "closed" ELSE "final"
    /\ UNCHANGED <<strategy, cache, db, trigger, workVars, flusher, fbatch, histVars>>

\* The other stores close at once; WriteBack closes stopCh.
Close ==
    /\ main = "flushed"
    /\ main' = IF strategy = "write_back" THEN "stopping" ELSE "closed"
    /\ UNCHANGED <<strategy, storeVars, workVars, flusher, fbatch, mbatch, histVars>>

\* <-s.doneCh, and the last flushDirty (the benchmark's Flush has left it nothing).
CloseFlush ==
    /\ main = "stopping" /\ flusher = "done"
    /\ mbatch' = dirty /\ Take
    /\ main' = IF In(dirty) = {} THEN "closed" ELSE "final"
    /\ UNCHANGED <<strategy, cache, db, trigger, workVars, flusher, fbatch, histVars>>

MainCommit ==
    /\ main \in {"first", "flush", "final"}
    /\ BatchSet(mbatch)
    /\ mbatch' = Absent
    /\ main' = CASE main = "first" -> "run" [] main = "flush" -> "flushed"
                 [] main = "final" -> "closed"
    /\ UNCHANGED <<strategy, cache, dirty, trigger, workVars, flusher, fbatch, sets, last, done,
                   crossed>>

\* The prefill is given up, the final flush logged, Close ignores the error.
MainCommitFails ==
    /\ main \in {"first", "flush", "final"}
    /\ BatchFails(mbatch)
    /\ mbatch' = Absent
    /\ main' = CASE main = "first" -> "exited" [] main = "flush" -> "flushed"
                 [] main = "final" -> "closed"
    /\ UNCHANGED <<strategy, cache, dirty, trigger, workVars, flusher, fbatch, sets, last, done,
                   crossed>>

\* The value of k is on its way to the database.
Unflushed(k) ==
    \/ dirty[k] # 0 \/ fbatch[k] # 0 \/ mbatch[k] # 0
    \/ \E w \in Threads : pc[w] = "setDirty" /\ key[w] = k

\* Redis drops an entry that has reached its TTL.
Expire(k) ==
    /\ cache[k] # 0
    /\ k \in LongLived => ~Unflushed(k)
    /\ cache' = [cache EXCEPT ![k] = 0]
    /\ UNCHANGED <<strategy, db, dirty, trigger, workVars, flushVars, histVars>>

Step(w) ==
    \/ GetCache(w) \/ GetDirty(w) \/ GetDb(w) \/ Fill(w)
    \/ SetDb(w) \/ Del(w) \/ SetCache(w) \/ SetDirty(w) \/ TriggerFlush(w)
    \/ CallFails(w) \/ Return(w)

Next ==
    \/ \E w \in Workers, k \in Keys : BeginGet(w, k) \/ BeginSet(w, k)
    \/ \E k \in Keys : Prefill(k)
    \/ \E w \in Threads : Step(w)
    \/ PrefillFails
    \/ FlushOnTrigger \/ FlushOnTick \/ FlusherCommit \/ FlusherStops
    \/ Flush \/ Close \/ CloseFlush \/ MainCommit \/ MainCommitFails
    \/ \E k \in Keys : Expire(k)

\* A call that has begun goes on; the flusher takes its token and ends its
\* batch. The ticker is given no fairness: its interval may be as long as the run.
Fairness ==
    /\ \A w \in Threads : WF_vars(Step(w))
    /\ WF_vars(FlushOnTrigger) /\ WF_vars(FlusherCommit)
    /\ WF_vars(FlusherStops \/ CloseFlush \/ MainCommit \/ MainCommitFails)

Spec == Init /\ [][Next]_vars /\ Fairness

-----------------------------------------------------------------------------
(* Properties. *)

Places == {"idle", "getCache", "getDirty", "getDb", "fill", "got", "failed",
           "setDb", "del", "setCache", "setDirty", "trigger"}

\* Type invariant; only WriteBack has dirty keys, batches and tokens, and a
\* batch is in hand exactly while it is being written.
CacheTypeOK ==
    /\ strategy \in Strategies
    /\ cache \in [Keys -> Nat] /\ db \in [Keys -> Nat] /\ dirty \in [Keys -> Nat]
    /\ trigger \in BOOLEAN
    /\ pc \in [Threads -> Places] /\ key \in [Threads -> Keys] /\ val \in [Threads -> Nat]
    /\ flusher \in {"wait", "commit", "done"}
    /\ main \in {"prefill", "first", "run", "flush", "flushed", "stopping", "final", "closed",
                "exited"}
    /\ fbatch \in [Keys -> Nat] /\ mbatch \in [Keys -> Nat]
    /\ sets \in Nat /\ last \in [Keys -> Nat] /\ done \in [Keys -> Nat]
    /\ durable \subseteq Nat /\ lost \subseteq Nat /\ crossed \subseteq Nat
    /\ flusher = "commit" <=> In(fbatch) # {}
    /\ main \in {"first", "flush", "final"} <=> In(mbatch) # {}
    /\ strategy # "write_back" => In(dirty) = {} /\ ~trigger

\* A worker that has a key to itself never reads an older value than the last
\* Set that returned, under every strategy, while the flusher moves values from
\* the dirty map to the database and entries expire; unless the code ignored an
\* error of that very Set (a failed Del or a failed batch).
ReadYourWrites ==
    \A w \in Workers : pc[w] = "got" /\ key[w] \in Exclusive \cap LongLived =>
        val[w] >= done[key[w]] \/ done[key[w]] \in lost

\* CacheAside and WriteThrough write the database first and stop at its error:
\* whatever Get returns, also from a cache that several workers fill and
\* invalidate at once, has been in the database.
ReadsAreDurable ==
    strategy # "write_back" =>
        \A w \in Workers : pc[w] = "got" /\ val[w] # 0 => val[w] \in durable

\* write_back.go: after Close every key's last value that went through the dirty
\* map has been committed, also a batch that the flusher had in hand, or its
\* transaction failed; and the database still has it. Only where the final Flush
\* took a value while the flusher was writing an older one of the same key may the
\* older one be there: two batches are written in any order.
ClosePersists ==
    main = "closed" =>
        \A k \in Keys : last[k] # 0 =>
            \/ last[k] \in lost
            \/ last[k] \in durable /\ (db[k] = last[k] \/ last[k] \in crossed)

\* triggerFlush drops a signal when one is waiting, and never loses a flush: a
\* dirty map that has reached BatchSize is taken, without the ticker's help, unless
\* an error of the prefill ends the process.
FullBatchTaken ==
    Cardinality(In(dirty)) >= BatchSize ~> Cardinality(In(dirty)) < BatchSize \/ main = "exited"
=============================================================================
