# A TLA+ model of broker-message

broker-message is an MQTT broker in Go that keeps every topic in a Badger
directory of its own. This directory holds TLA+ models of its core, the TLC
configurations that check them on small instances, and proofs, checked by TLAPS,
of what holds for every instance. `PROJECT.json` maps every definition to the
lines of code it models and lists the runs, the hazards, the theorems and the
disagreements found between the code and its documentation.

## 1. The system

| Part | State | Operations | Talks to |
|---|---|---|---|
| Topic (`core/topic`) | atomic `seq`; list of subscriber channels under `mu`; Badger keys `msg:<seq>`, `meta:seq` | Publish, Subscribe/unsub, GetMessages, Purge, load | storage, offsets; called by sessions and by the admin server |
| Storage (`core/storage`) | Badger, opened with SyncWrites | Set, Get, Delete, Scan, ScanFrom, uint64 keys | – |
| Offsets (`core/offsets`) | map client → seq under a mutex, one Badger key each | Get, Set, Inc, Delete, LoadFromStorage | storage |
| Session (`core/transport/mqtt/session.go`) | subscriptions, inflight table, packet id counter, connection | CONNECT, PUBLISH, SUBSCRIBE, PUBACK, UNSUBSCRIBE handlers; delivery goroutines; retransmission loop; cleanup | topics, offsets, dedup store, client |
| Idempotency store (`core/dedup`) | map, eviction order, Badger keys `dedup:<id>` | Check, Remember, (SeenOrRemember) | called by handlePublish of every session |
| Server and registry (`server.go`) | session table, wait group; map of topics, directories | accept, Shutdown, KickClient (exported, without a caller); GetOrCreate, Load, Close | sessions, topics, admin |
| Admin server (`core/admin`) | login cookies | purge, replay, tail, restart | registry, server |
| Packet codec (`packet.go`), envelope (`core/envelope`) | the byte stream of a connection; the bytes of a stored message | ReadPacket and the Write functions; Encode, Decode, TryDecode | sessions, topics, SDKs |
| SDKs (`sdk/go`, `sdk/python`) | connection and its mutex, packet id, SeenCache | Connect, Publish, Subscribe, Close | broker |
| Cache strategies (`tasks/task_4`) | Redis, SQLite, the dirty map and its flusher | Get, Set, Flush, Close | none of the broker |
| Auth and ACL, config, TLS, metrics, hub | none that lives between calls, or read-only | | |
| Other `tasks/`, `example/` | exercises, benchmarks and demonstrations | | |

What is hard here:

* **Publish is not atomic.** Number, message, sequence key and fan-out are four
  separate steps, of which only the last holds a lock. Any number of sessions
  publish at once, and the process may stop between any two steps.
* **Purge takes no lock** and knows nothing of offsets.
* **A subscription overlaps with itself.** The channel is registered before the
  backlog is read, the subscription may be replaced while its goroutine delivers,
  and the offset is written by the reader goroutine, by delivery goroutines and
  by every connection the client ever opened.
* **Connections are lost** with packets and acknowledgements on the way.
* **Dedup is check-then-act** across three calls.
* **The Go SDK waits for the network under its only mutex**, the session's reading
  loop writes a whole catch-up before it reads on, and the session searches for a
  packet id under the mutex that frees one.
* **Two codecs meet**: the SDK writes what `packet.go` reads and the reverse, with
  length fields of limited width and a store that has records of an older format.
* **The write-back cache hands batches over** from a map to the database, with
  readers, a second flush and Close in between.

What makes each part correct: an acknowledged message is stored and stays stored;
channels keep each publisher's order; the offset of a client never passes a message
it was not given; a subscribed client gets everything in the end; no goroutine or
channel outlives its session; an id sent twice makes one message; a PUBACK is never
given for nothing; an acknowledged message was handled; Publish and Close of the SDK
return; what arrives is what was published; a worker reads its own writes, and Close
leaves them in the database.

## 2. Modules

| Module | Models | Checked by |
|---|---|---|
| `Topic` | `topic.go` and its keys in Badger | `MCTopic` |
| `DurableLog` | what a topic promises its publishers (abstract) | `Topic` implements it |
| `TopicProofs` | theorems about `Topic` | TLAPS |
| `Delivery` | `session.go` and `offsets.go` for one topic; EXTENDS `Topic` and uses its actions | `MCDelivery` |
| `Dedup` | `dedup.go` and the control of `handlePublish` | `MCDedup` |
| `Server` | `server.go` and `main.go`: connections, session table, registry, start and stop | `MCServer` |
| `SdkLink` | `client.go` and `dedup.go` of the Go SDK against a session: packet ids, answers, the limits of the connection | `MCSdkLink` |
| `Codec` | `packet.go`, `envelope.go` and the SDK's reading and writing of packets, over bytes | `MCCodec` |
| `CacheStores` | `tasks/task_4/internal/store` under the benchmark of `tasks/task_4/cmd` | `MCCacheStores` |
| `DeliveryProofs`, `OrderProofs` | theorems about `Delivery`: types, refinement, channels; offsets and order | TLAPS |
| `DedupProofs`, `ServerProofs`, `SdkLinkProofs`, `CodecProofs`, `CacheProofs` | theorems about the module of the same name | TLAPS |

`Delivery` is a composition: its publishers, channels and store are those of
`Topic`. The other modules meet it at an interface that is the same on both sides:
`SdkLink` takes "a message for this client" from it and returns "acknowledged",
`Codec` shows that such a message keeps its bytes, `Dedup` ends where `Publish` of
`Topic` begins.

### Topic

A message is "the n-th message of publisher p"; an entry is a message with the
number it got. `msgs` and `dbSeq` are the database, `seq`, `subs` and `ch` the
memory. A publisher walks through `idle → persist → setseq → rlock → fanout`, one
step per statement of `Publish` that others can observe: `AllocSeq` (the atomic
add), `PersistMsg`, `PersistSeq`, `FanBegin` (RLock), `FanSend`/`FanDrop` for each
channel, `FanEnd` (RUnlock and return). Subscribe and unsub need the write lock,
that is, no publisher in `fanout`. `Purge` is likewise split at every database
call. `Restart` drops memory and every goroutine at any point and loads `seq`
from its key. The constant `Faults` names the storage calls that may fail in an
instance; each failing call follows the error path of the code. A purge releases
what was handed in before it (`released`): the operator asked for it to go.

A stop is a crash: a completed Set survives it because Badger is opened with
SyncWrites.

`DurableLog` is the promise without publishers, channels, sequence keys or
processes: a store of numbered messages and the set of acknowledged entries. A
message is written under a number that no acknowledged entry has, it is
acknowledged behind all others, the operator may withdraw every promise at once,
and only messages that are promised to nobody go. `Topic` maps `store` to `msgs` and
`log` to the acknowledged entries that no purge has released; allocation, the
sequence key, fan-out and a restart are stutters there. (`ImplementsLog`)

### Delivery

Adds clients and sessions to `Topic`. A session's reader goroutine is `st`
(`ready`, and the stages of `handleSubscribe`: `swap → fetch → catchup ⇄ catchset`),
a delivery goroutine is `live[k]` (`recv → deliver → setoff`), the wire is
`out`/`acks`, the connection is `link`: `up`, `cut` (lost; the broker's writes may
still succeed for a while and go nowhere), `closed` (by the broker). Messages on
the wire can be lost with the connection, and so can the last acknowledgements.
`RetransmitPick` and `RetransmitWrite` are the two halves of an iteration of
`retransmitLoop`, between which the message may be acknowledged. `rcvd` and `sent0`
record what the client has seen and what was written to it at QoS 0.

Assumed of the client (the loop in `sdk/go/brokermq/client.go`): it reads packets
in order, acknowledges each QoS 1 message, has one connection at a time and opens
the next after it has read the last one to its end. A SUBSCRIBE names one filter.

### Dedup

The id is all that is left of a message. `lru`, `order` and `db` are the store,
`CheckHit`/`CheckReload`/`CheckMiss` the three outcomes of `Check` (each with
`evictExpiredLocked` first; a `Get` that fails counts as a miss),
`PublishOk`/`PublishFails` the call of `Topic.Publish`, `Remember` the end of
`handlePublish` with its PUBACK. Time is a counter. Between the three calls other
sessions run.

### Server

`ctx`, `ln`, `acc`, `wg` and `main` are the context, the listener, the accept loop,
the wait group and `main`; `hs[c]` is the handler of a connection
(`register → connect → loop ⇄ read → create …→ closing → unregister → done → ended`),
`table` the session table. `Packet` and `Create` are the two halves of
`GetOrCreate`, under the read lock and under the write lock. `open` says which
topic holds a directory open (Badger refuses a second opener), `dbName` which name
is stored in it. A handler looks at the context only between packets, as
`session.Handle` does, so SIGTERM alone ends no idle session. `NewFails` is the store
of a new topic failing by itself, to open, to keep its name or to load its offsets,
which ends the session that asked for it. `KickPick` and `KickClose` are KickClient,
which no part of the repository calls: the admin server reaches the sessions only
through Shutdown, on a restart. What a handler does
with its topic is in the other modules; login and tail are left out. `Start` is
the end of the process at any point, `log.Fatal` included, and the next start.

### SdkLink

One connection. At the session's end, `inflight` and `nextId` are the table of
unacknowledged messages and the id counter; a sender is a goroutine in
`deliverMessage` (`AllocPacketID → Track → WriteMessage`), `again` what
`retransmitLoop` has picked and not yet written, `reply` what the reading loop has to
write before it reads on: an answer, or after a SUBACK the catch-up, during which the
loop itself is a sender (`Loop`, `MayDeliver`, `CatchUpEnds`). `AllocSpins` is the
search through a full table, which never ends and keeps `inflightMu`: no step that
needs it is possible while a sender spins. At the program's end `mu` is `connMu`,
`place[t]` the network operation a goroutine has before it, `hand` the packet it has
read, `seen` the SeenCache, which a message without a server id (`Nameless`) never
enters. `CheckSeen` and `CallHandler` are two steps. `Lock` and the operation are two
steps, so a goroutine may wait with the mutex held. `down` and `up` are the network,
with room for `NetCap` packets each. An error (`Fail`) ends Subscribe, its loop or
Publish, and is ignored for a PUBACK, as in the code.

`allocPacketID` looks at the inflight table only, so an id may come round while a
packet with it is still under way; with 65535 ids that takes as many messages, with
three it happens at once. The history `reused` records it, and `AckedWasHandled` speaks
of the behaviours before: without that condition TLC finds that the PUBACK of a late
retransmission frees the next message of that id. One Subscribe per client: with two,
TLC finds a message that the second reads in place of its SUBACK (`SubackNotMessage`).

### Codec

A byte is a number; `wire.up` and `wire.down` are streams of bytes. `Connect`,
`Publish`, `Subscribe` and `SendPubAck` write what the SDK writes;
`PublishPlain`, `PublishProps`, `SendOther` and `WillPacket` what another MQTT
client may (any body up to `BodyLen`). `HandleConnect`, `HandlePublish`, `HandleOther`
and `HandleEnd` are the session: each takes a whole packet off the stream with
`ReadPacket` and its parser, and writes the answer. `HandleDuplicate` answers a PUBLISH
whose id is known; `PublishFails` and `SubscribeFails` are a handler that returns an
error, which ends the session: a PUBLISH that the ACL denies, a topic that cannot be
opened, a Publish that fails (`failed` records it). A publish goes through the
envelope into `log`, `Deliver` writes the stored bytes to the client, `SdkRead` is the
SDK's reader and parser, `Replay` the administrator's replay, which decodes and
publishes again. `Break` cuts the stream
after any byte. `log[n].want` and `asked` record what was meant.

The fields whose width is a limit are scaled, not dropped: a 16-bit number is two
digits of `LenBase`, the remaining length at most `MaxDigits` digits of `Digit`.
Identifiers and times of the envelope take one byte. The store starts empty or with
a record of the older format.

Assumed of the constants: a 16-bit number has digits of base 2 to 256 and a remaining
length digits of base 3 to 128, at least one; topics, payloads, names and bodies are
sequences of bytes of any length; and the names given to Connect fit their length
fields, and the CONNECT with them the broker's limit. The loops of the codec are
written as functions (`Weight`, `LengthOf`, `FilterEnds`), because of the proofs.

### CacheStores

A value is the number of the Set that wrote it. Every call to Redis or SQLite is a
step and may fail (`Faults`); `pc[w]` is the worker's next one. `SetDirty` and
`TriggerFlush` are WriteBack's map and its one-token channel, `Take` swaps the map
out under the lock, `BatchSet` writes it in a transaction after the lock is gone:
`fbatch` and `mbatch` are the batches that the flusher and `main` hold between the
two. `Expire` drops a cached entry at any time. `main` is the benchmark: it sets every
key (`Prefill`), calls Flush, lets the workers run, calls Flush again after they have
ended, then Close; an error in the prefill ends the process.

Flush does not wait for the flusher, so both may hold a batch and the older one may be
written last. The history `crossed` has the values that Flush took while the flusher was
writing the same key, and `ClosePersists` excepts only their place in the database, not
that they were committed: without the exception TLC finds the older value after Close.
`LongLived` (an entry outlives the flush of its value, or a reader finds the older value
in the database) and `Exclusive` (one worker at a time uses the key, or a reader may fill
the cache after the writer's Del) are conditions of `ReadYourWrites`; TLC shows that the
code does not give it without them.

## 3. Runs

| Run | Instance | Result |
|---|---|---|
| `topic_concurrent` | 2 publishers × 2 messages, 1 channel of 2, all faults, 1 restart, 1 quiet purge | `TypeOK`, `AckedInProcess`, `StoredBeforeFanout`, `PublisherFIFO` hold |
| `topic_serial` | 1 publisher × 4, 2 channels of 2, failing writes and deletes, 2 restarts, 1 purge | `AckedDurable`, `ImplementsLog` hold |
| `topic_lost` | 2 publishers, no fault, 1 restart | `AckedDurable` **fails**: see below |
| `delivery` | 1 client, 2 connections, 2 subscriptions (QoS 1, then 0 or 1), 2 messages | `DTypeOK`, `OffsetSound`, `ConsumerOrder`, `NoLeakedSubscriber` hold |
| `delivery_live` | the same with 1 message and one retransmission, connection closed by Shutdown, purge or restart, with fairness | `EveryAckedArrives`, `GoroutinesEnd` hold |
| `delivery_backlog` | 3 messages, catch-up limit 1 | `OffsetSound` **fails** |
| `dedup` | 2 sessions, 4 ids, capacity 3, TTL 1, 5 messages, failing publishes and deletes, 1 clean restart | `DedupTypeOK`, `DedupWindow`, `AckedIsLogged`, `RestartForgetsNothing`, `OwnRejectsFresh` hold |
| `server` | 2 connections, 3 names in 2 directories, one of which may fail to open or to load, 1 kick, shutdown or new start, with fairness | `ServerTypeOK`, `DrainedBeforeClose`, `NoSpuriousRefusal`, `StoreKeepsName`, `ExitsWhenClientsLeave`, `DroppedEnd` hold |
| `dedup_race` | 2 sessions that may carry one id | `DedupWindow` **fails** |
| `sdk_link` | 1 reader, 1 caller, the reading loop and 1 sender, 3 ids, 1 message without a server id, SeenCache of 1, 1 packet each way, 4 messages, 4 publishes, 1 retransmission, with fairness | `LinkTypeOK`, `AckedWasHandled`, `HandlerOnce`, `SubackNotMessage`, `EntryUnderWay`, `CallsReturn` hold |
| `codec` | strings up to 3 and packets up to 24 bytes, CONNECT with every option, 2 packets of the SDK or 1 of another client, a break after any byte, a store of 2 | `CodecTypeOK`, `ArrivesAsPublished`, `IdentityKept`, `EndsForCause`, `EveryByteRead` hold |
| `cache_stores` | 3 strategies, prefill of 2 keys, 2 workers with 2 Sets, a batch of 2, every fault, with fairness | `CacheTypeOK`, `ReadYourWrites`, `ReadsAreDurable`, `ClosePersists`, `FullBatchTaken` hold |

**Bounds.** A topic's defects need two publishers at most, because each involves
one overtaking another, and a channel of 2 is full in these runs (`FanDrop`
fires). Two restarts reach a restart of a restarted counter. In `delivery` the
second connection follows the loss of the first with every combination of lost
packets and acknowledgements, and one session can replace its subscription; the
catch-up limit is as large as the number of messages there, and channels have room
for all of them, because beyond either bound the code does lose messages (the run
`delivery_backlog` shows the first). In `dedup` four ids against a capacity of 3
push ids out, and the second tick passes a TTL of 1. In `server` two handlers
are enough to meet in `GetOrCreate`, two names in one directory to compete for it,
and a directory that may fail to load belongs to one name only: a shared one that
is skipped does go to the other name. In `sdk_link` the fourth message takes an id
for the second time and three unanswered ones fill the table (`AllocSpins` fires);
four PUBLISH packets are more than both directions, the answer being written and
the caller hold, so the connection can jam. In `codec` there is a topic that fits
its length field and one that does not, and payloads that make the packet short,
as long as the limit, and one byte longer. In `cache_stores` the two keys of the
prefill fill a batch, the workers' Sets another while the flusher holds one, and the
final Flush may cross it. `MaxPub`, `MaxCrashes`,
`MaxPurges`, `MaxEvents`, `MaxTime`, `MaxLog`, `MaxRestarts`, `MaxActs`,
`MaxMsgs`, `MaxPubs`, `MaxDups`, `MaxSent`, `MaxSets` are the names of the
bounds on counters. `CHECK_DEADLOCK FALSE` is set where all bounded work done is
a proper end.

**Conditions.** `QuietPurge`: the operator purges while nothing is published; of a
purge under load only `PublisherFIFO` can be said (the theorem has no such
condition). `CleanStop` (Delivery, Dedup): the process stops between publishes, so
that the failure of `topic_lost` and the stop between Publish and Remember, which
are known, do not hide others. `PurgeUnread`: the purge comes before any client has
connected. Purge restarts the numbering below the offsets that clients have; in an
instance with `FALSE` and a second message TLC finds a new message that counts as
delivered. `Overlap` (Dedup): whether two sessions may carry one id at once.
`OwnRejectsFresh` excepts ids that Check took back from the database: they are in no
eviction order, and TLC finds them rejected after their TTL without the exception.

**Fairness.** `DFairSpec` asks for weak fairness of all steps that goroutines of
the broker take by themselves, together with the client's reading: as long as one
of them can run, something happens. The Go scheduler gives every runnable
goroutine more than that. No fairness is asked of connecting, subscribing,
publishing, retransmission, losing or shutting down connections, purging and
restarting.
`EveryAckedArrives` speaks of a client that from some time on stays connected and
subscribed. `Server` asks for weak fairness of each goroutine by itself (every
handler, the accept loop, the goroutine that closes the listener, `main`, the
admin's goroutines), and of nothing a client does, sending CONNECT included.
`SdkLink` asks for weak fairness of each goroutine's network operations and
handlers, and for strong fairness of `Lock`: a mutex of Go goes to whoever has
waited for a millisecond. New messages, calls, cancellations, retransmissions and
breaks need not happen. `CallsReturn` names the three states in which a call may
wait for ever, and each of them is needed: a reader that holds `connMu` on a silent
line; a connection full both ways while the session's reading loop has an answer or the
rest of a catch-up to write; a spinning `allocPacketID`. `GoroutinesEnd` covers the
delivery goroutines of subscriptions that were replaced or cancelled in a session that
goes on as well as those of ended sessions.
`CacheStores` asks for weak fairness of workers, of the flusher's answer to a signal
and of its transaction; not of the ticker, so `FullBatchTaken` is owed to the signal
alone.

**What the violations show.**

* `topic_lost`: two publishers write `meta:seq` in the opposite order of their
  numbers; the key keeps the smaller one; after a restart the next Publish takes
  the larger number again and overwrites an acknowledged message (README.md:12).
* `delivery_backlog`: messages beyond the catch-up limit are not fetched, and the
  PUBACK of a live message moves the offset past them (README.md:13).
* `dedup_race`: Check and Remember are not one critical section (README.md:112).

**What the code does not keep, and no run claims.** These were met while modelling; each
is a condition or an exception of a property above, and a hazard in `PROJECT.json`.

* README.md:68 promises FIFO by `seq` within a topic. Two publishers may reach the
  fan-out in the opposite order of their numbers, so a channel has only the order of each
  publisher (`PublisherFIFO`).
* A full channel drops a message, and the next PUBACK moves the offset past it.
* A purge that runs beside publishers, or after clients have offsets, loses messages.
* A stop between Publish and Remember makes a second message of a retry, and so does a
  failed read of the key; ids that Check reloaded are rejected after their TTL.
* A handler that is counted after `wg.Wait` has returned runs while the stores are closed.
* A second Subscribe of the Go SDK may take a message for its SUBACK.
* A topic longer than its length field arrives as another one, and a record of the older
  format with its header.
* The final Flush of the benchmark may be overtaken by an older batch of the flusher, and
  a batch whose transaction fails is gone.

## 4. Proofs

`TopicProofs` holds for any sets of publishers and channels, any channel capacity
above zero, any bounds.

* **TopicTypes**: `Spec => []TypeOK`. `TypeOK` is inductive as it stands; its one
  substantial part is that a channel never exceeds its capacity.
* **TopicKeeps** (assuming `QuietPurge`): `AckedInProcess` and
  `StoredBeforeFanout`. Neither is inductive. `SafetyInv` adds that publishers at
  work carry different numbers, none above `seq` (`NumberInv`); that a publisher
  past its write has its message in the store (`PersistInv`); that what is
  acknowledged or waits in a channel is stored under a number that is used up and
  that no publisher is about to write (`KeptInv`); and that a running purge is alone
  (`PurgeInv`). Two publishers then write different keys, whatever fails.
* **TopicDurable** (assuming `Serial`: one publisher, `QuietPurge`, and a sequence
  key that can be written and read): `AckedDurable`. `DurableInv` adds that an
  acknowledged number is at most `seq` and `dbSeq`, and below the number of a
  publisher at work, and that `dbSeq` is that number once the key is written. The
  last part is what a second publisher breaks.
* **TopicImplementsLog** (assuming `Serial`): `ImplementsLog`. The initial state
  maps to the initial state of `DurableLog`; under `SafetyInv` and `DurableInv` every
  step is one of its steps or changes neither `msgs` nor the promised entries:
  `PersistMsg` is Write, `FanEnd` is Acknowledge, the begin of a purge Withdraw, a
  delete Remove. That the number written is held by no entry, and that the number
  acknowledged is above all others, are what `DurableInv` is for.
* **TopicPublisherOrder** (no assumption): `PublisherFIFO`. `CarryInv` adds that a
  publisher carries its latest message, and that its messages in a channel are
  older than one it has yet to send there.

`DeliveryProofs` holds for any clients, sessions, channels, faults and bounds.

* **DeliveryImplementsTopic**: `DSpec => Spec`. Every step of a session, a client or
  the network is a step of `Topic` or leaves its state alone. So what is proved of a
  topic holds while sessions use it; the next proofs use its type invariant this way.
* **DeliveryTypes**: `DTypeOK`. `DTypeInv` adds that the store is finite (for
  `GetMessages`, which picks the n-th key), and `HandlerInv`: a handler in
  `handleSubscribe` works on a channel of its own session, and a delivery goroutine
  that delivers has a message in hand.
* **DeliveryNoLeak**: `NoLeakedSubscriber`. `LeakInv` adds that a registered channel
  has a session at all.

`OrderProofs` is about what a client receives, and assumes `Dependable`: one
publisher, QoS 1 only, no purge, no fault but a failing write of the offset key,
stops between publishes, and room for every message in a channel and in the
catch-up. A second publisher may overtake within a fan-out, beyond either bound
messages are left out (`delivery_backlog`), and so they are after a failed scan; a
purge, a stop inside Publish or a sequence key that is not written or read lets a
number below an offset be given out again. A failing write of a message is excluded for
the argument's sake only: it leaves a hole in the numbers, which the invariants
below take to be consecutive. QoS 0 is excluded
because the theorem would be false of it in general: a QoS 0 message that was lost
counts as delivered, and when a late PUBACK of the previous session moves the offset
down again it arrives after its successors. (The run `delivery` has one QoS 0
subscription, within bounds that do not reach this.)

* **DeliveryOffsets**: `OffsetSound`, and **DeliveryOrder**: `ConsumerOrder`. Neither
  is inductive, and no single addition makes it so, because the client's view
  depends on every place a message passes. `OrderInv` is the conjunction of
  `StoreInv` (the store has all numbers up to the publisher's),
  `QueueInv` (a channel holds consecutive messages up to the last one sent),
  `ClientInv` (the i-th message a client received is number i, and no offset, in
  memory or on disk, is past them), `WireInv` (before each packet on the wire comes
  everything with a smaller number), `AckInv` (a PUBACK on the wire is about a packet
  the client has read), `TableInv` (what is in the inflight table, or was picked from
  it, was written before on this connection), `SessionInv` (a channel belongs to the
  session that opened it), `CatchUpInv` (the backlog goes on where the client is
  and reaches to where the channel begins) and `LiveInv` (so does the delivery
  goroutine). `Reach(s, n)` is the notion they share: the client of s has, or will
  read on this connection, everything up to n. Every write is of a message n with
  `Reach(s, n - 1)`, and no step takes `Reach` away while the connection is up. The
  proof goes part by part, in an order in which each needs only the earlier ones:
  store, channels, wire, client, acknowledgements, table, sessions, catch-up, live.

`DedupProofs`, for any handlers, ids, capacity, TTL and log.

* **DedupTypes**: `DedupTypeOK`; `HandInv` ties an id in hand to the place of its
  handler.
* **DedupAckedIsLogged** (no assumption): `AckedIsLogged`. `LoggedInv` says it of all
  that can make the broker answer "duplicate": the map, the keys in the database,
  and the ids handlers are about to remember.
* **DedupRestart** (assuming that keys are written): `RestartForgetsNothing`.
* **DedupRejectsFresh** (no assumption): `OwnRejectsFresh`.
* **DedupWindowHolds** (assuming `~Overlap`, `CleanStop` and that keys are written and
  read back):
  `DedupWindow`. `OrderInv` says that the eviction order has every id once and none
  that is in hand; `StragglerInv` that at most one id per other handler was stored
  before an id and remembered after it; `ProtectedInv` that until its window has
  passed a message protects its id, by its key or by the handler that has it in
  hand; `FreeInv` that a handler about to publish has an id nothing protects. The
  `Cap + 1 - Cardinality(Handlers)` of the property is the counting argument of
  `StragglerInv`.

`KeptOrder` is the subsequence of the entries that have not expired, written as an
increasing enumeration of their positions: `SelectSeq` is defined by recursion, which
the provers cannot unfold.

`ServerProofs`, for any connections, client ids, names and directories.

* **ServerTypes**: `ServerTypeOK`, with the count `wg` and the domain of the session
  table. `StartInv` adds that a connection has no handler before the accept loop
  starts one, so that each is counted once.
* **ServerDrains**: `DrainedBeforeClose`. `DrainInv` adds the stages of the shutdown
  and who is still waited for in each.
* **ServerNoSpuriousRefusal** (an action property): a session that asks for a topic is
  ended only when another topic of the registry has its directory, or nobody has it and
  the store fails. `HolderInv` says that an open directory is held by a topic of the
  registry whose directory it is.
* **ServerStoreKeepsName** (an action property; assuming that a directory that may fail
  to load belongs to one name, the condition of the run): `LoadedInv` adds that a
  directory with a name is open under it unless the last start skipped it or a failed
  New closed it again.

`SdkLinkProofs`, for any readers, callers, senders, ids, capacities and messages.

* **LinkTypes**: `LinkTypeOK`. `FeedsInv` counts every call of Subscribe in one place
  on its way to a subscription.
* **LinkHandlerOnce** (no assumption): `SeenInv` says that SeenCache is the last
  `SeenCap` messages with a server id that it let through to the handler.
* **LinkSubackNotMessage** and **LinkEntryUnderWay** (assuming one subscription; with
  two TLC finds the counterexample): `LineInv` says that no message is on the line
  before the SUBACK, `PacketInv` which packets carry an id and where a message is in
  hand.
* **LinkAckedWasHandled** (assuming one subscription: a second one may acknowledge a
  retransmission while the handler of the first is still at work): as long as `reused` is
  false, `OwnerInv` says that every packet under way is about the message that has its id
  now, or none has, and that a PUBACK under way is about a message that was handled.

`CodecProofs`, for any widths, and topics, payloads, names and bodies of any length.

* **CodecAlways**: `CodecInv`, from which the others follow. The properties look at one
  packet, the code at a stream of bytes in which nothing says where a packet begins, so
  the invariant has to say what a stream is made of. `Stream(F)` is the least set of
  pairs (bytes, messages they stand for) that has the empty pair and is closed under
  putting a packet of the form F before the others; `Flow` is what has come of such a
  pair: the bytes may lack their end, but only once the connection is gone. `UpInv` and
  `DownInv` say that either direction is a `Flow` for exactly the messages still owed
  (`wants`, and what was told and is not got); `LogInv` that the store holds what each
  message stands for, `OpenInv` that CONNECT and CONNACK are alone on the wire.
  `ReadPack` is the lemma at the centre: a reader of the beginning of a packet's bytes
  finds "not enough yet" or that packet and the bytes behind it.
* **CodecTypes**: `CodecTypeOK`. **Arrives**: `ArrivesAsPublished`. **Ends**:
  `EndsForCause`, that is, apart from a break, a refused CONNECT, a packet another client
  made up and a handler's error, no packet ends a session. **Identity**: `IdentityKept`.
  They rest on round-trip lemmas, each for
  all inputs: remaining lengths of any number of digits, strings, envelopes, PUBLISH with
  and without an id, CONNECT with and without a will, SUBSCRIBE.
* **EveryByte** (assuming `LenBase = 256`, the code's base): `EveryByteRead`. Here the
  bytes come first: whatever body a parser accepts is the encoding of what it found. With
  a smaller base a byte may be larger than any digit, and its encoding is another one.

The library's induction theorems take a formula as a parameter and cannot be used, so
induction over data is done with sets: a set of numbers that has 0 and the successor
of each member has all (from the least element of its complement, `WFMin` over
`NatLessThanWellFounded`), and a member of the least closed set is in any set that is
closed. That a recursive function (`Weight`, the sum of `LengthOf`, the unfolding of
`FlattenSeq`) has a value is shown by building it the same way.

`CacheProofs`, for any workers, keys, batch size and faults, and all three strategies.

* **CacheTypes**: `CacheTypeOK`; `PlaceInv` says where a worker can be under each
  strategy.
* **CacheReadsAreDurable** (no assumption): `DurableInv` extends it to the database and
  to values in the hands of readers.
* **CacheClosePersists** (no assumption): `NewestInv` says that the newest value is in the
  dirty map, else in main's batch, else in the flusher's, else in the database, unless its
  transaction failed or an older one was in the flusher's hand when main took it;
  `MainInv` what `main` excludes.
* **CacheReadYourWrites** (no assumption; `Exclusive` and `LongLived` are conditions of
  the property): `FreshInv` says that every place a reader may take a value from has one
  it may return, `WrittenInv` what a Set has written by each of its steps, `AloneInv` that
  its value is the newest, `PrefillInv` that the Flush of the prefill crosses nothing.

Each invariant was model-checked before it was proved, with one exception: TLC cannot
enumerate `Stream`, so of `CodecInv` it has checked the types and the properties that
follow from it. Every action has its own
step; facts about `Append`, `Tail`, packets and offsets are lemmas.

Only model-checked: the liveness properties (`EveryAckedArrives`, `GoroutinesEnd`,
`ExitsWhenClientsLeave`, `DroppedEnd`, `CallsReturn`, `FullBatchTaken`), which are
out of this prover's reach; `EveryByteRead` for bases below the code's own; and
`OffsetSound` and `ConsumerOrder` with QoS 0, on the bounds of `delivery`.

## 5. Not modelled

* Authentication and ACL: a per-request check without state of its own. What the other
  parts see of it is in `Codec`: CONNECT with bad credentials is refused, and a denied
  PUBLISH ends the session with an error.
* TLS, configuration, metrics, error names, the hub: read once at start, counters
  that nothing reads back, or a record of handles.
* The admin pages other than purge, replay and restart.
* Several topics in one session and several filters in one SUBSCRIBE (`Codec` parses
  them, `Delivery` has one); the topics of the dedup store.
* The Python SDK; of the Go SDK QoS 0 and its own packet ids, to which nothing
  refers.
* `tasks/task_2`: transactions whose interleaving is PostgreSQL's locking.
  `tasks/task_3`: a load generator for other brokers. The examples.
* Badger, Redis, SQLite and the network are external: a call is atomic and durable,
  or fails.

## 6. Plan

1. `OffsetSound` with QoS 0 subscriptions: it needs an invariant in which the messages
   of `sent0` stand in for those received, and gives up `ConsumerOrder`.
2. An abstract at-least-once channel that `Delivery` implements under `Dependable`.
3. The topic matcher of the ACL as a function against a reference.
