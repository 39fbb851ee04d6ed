------------------------------- MODULE Server -------------------------------
(***************************************************************************)
(* core/transport/mqtt/server.go and cmd/broker/main.go: the life of the   *)
(* broker process, its connections and the registry of its topics.         *)
(*                                                                         *)
(* Goroutines: main, which serves until the context is done; the accept    *)
(* loop; the one that closes the listener; one handler per connection,     *)
(* which creates topics on demand; the admin server's restart. KickClient  *)
(* is exported for an administrator too, but no route of this repository   *)
(* calls it. All share the session table, the wait group and the topic map.*)
(*                                                                         *)
(* A topic is its name. Its store is a directory that sanitizeTopicDir     *)
(* derives from the name, so two names may share one; Badger lets only one *)
(* of them open it at a time.                                              *)
(***************************************************************************)
EXTENDS Naturals, FiniteSets

CONSTANTS
    Conns,          \* connections
    ClientOf,       \* the client id each of them presents
    Names,          \* topic names
    DirOf,          \* sanitizeTopicDir: the directory of each name
    Unreadable,     \* directories whose store may fail to open, or to be read
    MaxActs,        \* bound: KickClient, Shutdown and restarts of the process together
    NoConn, NoId, NoName

Dirs == {DirOf[n] : n \in Names}
ClientIds == {ClientOf[c] : c \in Conns}

ASSUME ServerAssumption ==
    /\ IsFiniteSet(Conns)
    /\ NoConn \notin Conns /\ NoName \notin Names /\ NoId \notin ClientIds
    /\ Unreadable \subseteq Dirs
    /\ MaxActs \in Nat

VARIABLES
    ctx,        \* "live", or "done" after SIGTERM
    ln,         \* the listener
    acc, held,  \* where the accept loop is, and the connection it holds
    wg,         \* the wait group's counter
    main,       \* where main is
    conn,       \* the connection of each client
    hs,         \* where the handler of each connection is
    table,      \* Server.sessions: registered connections and their client ids
    want,       \* the name a handler is about to create
    topics,     \* Registry.topics
    open,       \* the topic that holds each directory open
    dbName,     \* Badger: the name stored in each directory
    kick,       \* sessions KickClient has picked and not yet closed
    down,       \* where the goroutine of the admin's restart is
    early,      \* history: running handlers started before the context was done
    dropped,    \* history: running handlers whose connection these two closed
    kicks, starts   \* bounded counters

loopVars  == <<ctx, ln, acc, held, main>>
connVars  == <<conn, hs, want>>
regVars   == <<topics, open, dbName>>
adminVars == <<kick, down, dropped, kicks>>
vars == <<loopVars, connVars, regVars, adminVars, wg, table, early, starts>>

Empty == [c \in {} |-> NoId]

Init ==
    /\ ctx = "live" /\ ln = "open" /\ acc = "accept" /\ held = NoConn
    /\ wg = 0 /\ main = "serve"
    /\ conn = [c \in Conns |-> "new"]
    /\ hs = [c \in Conns |-> "none"]
    /\ table = Empty
    /\ want = [c \in Conns |-> NoName]
    /\ topics = {}
    /\ open = [d \in Dirs |-> NoName]
    /\ dbName = [d \in Dirs |-> NoName]
    /\ kick = {} /\ down = "idle"
    /\ early = {} /\ dropped = {}
    /\ kicks = 0 /\ starts = 0

-----------------------------------------------------------------------------
(* The clients. *)

Dial(c) ==
    /\ conn[c] = "new"
    /\ ln = "open"
    /\ conn' = [conn EXCEPT ![c] = "queued"]
    /\ UNCHANGED <<loopVars, hs, want, regVars, adminVars, wg, table, early, starts>>

Leave(c) ==
    /\ conn[c] = "open"
    /\ conn' = [conn EXCEPT ![c] = "closed"]
    /\ UNCHANGED <<loopVars, hs, want, regVars, adminVars, wg, table, early, starts>>

-----------------------------------------------------------------------------
(* serveListener and ListenAndServe. *)

\* ln.Accept() returns a connection.
Accept(c) ==
    /\ acc = "accept" /\ ln = "open"
    /\ conn[c] = "queued"
    /\ conn' = [conn EXCEPT ![c] = "open"]
    /\ acc' = "spawn" /\ held' = c
    /\ UNCHANGED <<ctx, ln, main, hs, want, regVars, adminVars, wg, table, early, starts>>

\* s.wg.Add(1) and go func(): the handler is counted before it starts.
Spawn ==
    /\ acc = "spawn"
    /\ wg' = wg + 1
    /\ hs' = [hs EXCEPT ![held] = "register"]
    /\ early' = IF ctx = "live" THEN early \cup {held} ELSE early
    /\ acc' = "accept" /\ held' = NoConn
    /\ UNCHANGED <<ctx, ln, main, conn, want, regVars, adminVars, table, starts>>

\* Accept fails because the listener is closed: the loop waits for the handlers.
AcceptFails ==
    /\ acc = "accept" /\ ln = "closed"
    /\ acc' = "wait"
    /\ UNCHANGED <<ctx, ln, held, main, connVars, regVars, adminVars, wg, table, early, starts>>

LoopReturns ==
    /\ acc = "wait" /\ wg = 0
    /\ acc' = "exit"
    /\ UNCHANGED <<ctx, ln, held, main, connVars, regVars, adminVars, wg, table, early, starts>>

\* SIGTERM
Signal ==
    /\ ctx = "live"
    /\ ctx' = "done"
    /\ UNCHANGED <<ln, acc, held, main, connVars, regVars, adminVars, wg, table, early, starts>>

\* <-ctx.Done(); ln.Close(): connections not yet accepted are refused.
CloseListener ==
    /\ ctx = "done" /\ ln = "open"
    /\ ln' = "closed"
    /\ conn' = [c \in Conns |-> IF conn[c] = "queued" THEN "closed" ELSE conn[c]]
    /\ UNCHANGED <<ctx, acc, held, main, hs, want, regVars, adminVars, wg, table, early, starts>>

\* Mutant: the return does not wait for the handlers.
MainSelects_NoWait ==
    /\ main = "serve"
    /\ ctx = "done"
    /\ main' = "close"
    /\ UNCHANGED <<ctx, ln, acc, held, connVars, regVars, adminVars, wg, table, early, starts>>

\* ListenAndServe's select: the context is done, or the accept loop has returned.
MainSelects ==
    /\ main = "serve"
    /\ \/ ctx = "done" /\ main' = "wait"
       \/ acc = "exit" /\ main' = "close"
    /\ UNCHANGED <<ctx, ln, acc, held, connVars, regVars, adminVars, wg, table, early, starts>>

\* s.wg.Wait() returns.
MainWaited ==
    /\ main = "wait" /\ wg = 0
    /\ main' = "close"
    /\ UNCHANGED <<ctx, ln, acc, held, connVars, regVars, adminVars, wg, table, early, starts>>

\* main's deferred registry.Close(): every store is closed, the map stays.
CloseRegistry ==
    /\ main = "close"
    /\ main' = "exit"
    /\ open' = [d \in Dirs |-> NoName]
    /\ UNCHANGED <<ctx, ln, acc, held, connVars, topics, dbName, adminVars, wg,
                   table, early, starts>>

-----------------------------------------------------------------------------
(* A handler: registerSession, session.Handle, unregisterSession, wg.Done. *)

\* registerSession
Register(c) ==
    /\ hs[c] = "register"
    /\ table' = [x \in DOMAIN table \cup {c} |-> IF x = c THEN NoId ELSE table[x]]
    /\ hs' = [hs EXCEPT ![c] = "connect"]
    /\ UNCHANGED <<loopVars, conn, want, regVars, adminVars, wg, early, starts>>

\* handleConnect: updateSessionIdentity and CONNACK, or the CONNECT is refused.
HandleConnect(c) ==
    /\ hs[c] = "connect"
    /\ conn[c] = "open"
    /\ \/ /\ table' = [table EXCEPT ![c] = ClientOf[c]]
          /\ hs' = [hs EXCEPT ![c] = "loop"]
       \/ /\ hs' = [hs EXCEPT ![c] = "closing"]
          /\ UNCHANGED table
    /\ UNCHANGED <<loopVars, conn, want, regVars, adminVars, wg, early, starts>>

\* The head of Handle's loop looks at the context, then blocks in ReadPacket.
Loop(c) ==
    /\ hs[c] = "loop"
    /\ hs' = [hs EXCEPT ![c] = IF ctx = "done" THEN "closing" ELSE "read"]
    /\ UNCHANGED <<loopVars, conn, want, regVars, adminVars, wg, table, early, starts>>

\* A PUBLISH or SUBSCRIBE: GetOrCreate finds the topic under the read lock, or
\* goes on to create it.
Packet(c, n) ==
    /\ hs[c] = "read"
    /\ conn[c] = "open"
    /\ IF n \in topics
       THEN hs' = [hs EXCEPT ![c] = "loop"] /\ UNCHANGED want
       ELSE hs' = [hs EXCEPT ![c] = "create"] /\ want' = [want EXCEPT ![c] = n]
    /\ UNCHANGED <<loopVars, conn, regVars, adminVars, wg, table, early, starts>>

\* topic.New: Badger opens the directory unless another topic holds it, and the
\* name is written into it.
NewTopic(n) ==
    /\ open[DirOf[n]] = NoName
    /\ open' = [open EXCEPT ![DirOf[n]] = n]
    /\ dbName' = [dbName EXCEPT ![DirOf[n]] = n]
    /\ topics' = topics \cup {n}

\* topic.New fails by itself and closes the store again: it cannot be opened, the
\* name cannot be written, or, with the name written, the offsets cannot be read.
NewFails(n) ==
    /\ DirOf[n] \in Unreadable
    /\ open[DirOf[n]] = NoName
    /\ dbName' \in {dbName, [dbName EXCEPT ![DirOf[n]] = n]}
    /\ UNCHANGED <<topics, open>>

\* Mutant: GetOrCreate does not look again under the write lock.
Create_NoRecheck(c) ==
    /\ hs[c] = "create"
    /\ \/ NewTopic(want[c]) /\ hs' = [hs EXCEPT ![c] = "loop"]
       \/ NewFails(want[c]) /\ hs' = [hs EXCEPT ![c] = "closing"]
       \/ /\ open[DirOf[want[c]]] # NoName
          /\ hs' = [hs EXCEPT ![c] = "closing"]
          /\ UNCHANGED regVars
    /\ want' = [want EXCEPT ![c] = NoName]
    /\ UNCHANGED <<loopVars, conn, adminVars, wg, table, early, starts>>

\* GetOrCreate under the write lock: someone else was faster, or the topic is
\* created, or New fails, because another topic holds the directory or by itself,
\* and the error ends the session.
Create(c) ==
    /\ hs[c] = "create"
    /\ \/ want[c] \in topics /\ hs' = [hs EXCEPT ![c] = "loop"] /\ UNCHANGED regVars
       \/ /\ want[c] \notin topics
          /\ NewTopic(want[c])
          /\ hs' = [hs EXCEPT ![c] = "loop"]
       \/ /\ want[c] \notin topics
          /\ open[DirOf[want[c]]] # NoName
          /\ hs' = [hs EXCEPT ![c] = "closing"]
          /\ UNCHANGED regVars
       \/ /\ want[c] \notin topics
          /\ NewFails(want[c])
          /\ hs' = [hs EXCEPT ![c] = "closing"]
    /\ want' = [want EXCEPT ![c] = NoName]
    /\ UNCHANGED <<loopVars, conn, adminVars, wg, table, early, starts>>

\* ReadPacket fails: the connection is closed, by whichever side.
ReadFails(c) ==
    /\ hs[c] \in {"connect", "read"}
    /\ conn[c] = "closed"
    /\ hs' = [hs EXCEPT ![c] = "closing"]
    /\ UNCHANGED <<loopVars, conn, want, regVars, adminVars, wg, table, early, starts>>

\* Handle's deferred cleanup closes the connection.
HandleEnds(c) ==
    /\ hs[c] = "closing"
    /\ conn' = [conn EXCEPT ![c] = "closed"]
    /\ hs' = [hs EXCEPT ![c] = "unregister"]
    /\ UNCHANGED <<loopVars, want, regVars, adminVars, wg, table, early, starts>>

\* Mutant: the session stays in the table.
Unregister_Kept(c) ==
    /\ hs[c] = "unregister"
    /\ hs' = [hs EXCEPT ![c] = "done"]
    /\ UNCHANGED <<loopVars, conn, want, regVars, adminVars, wg, table, early, starts>>

\* unregisterSession
Unregister(c) ==
    /\ hs[c] = "unregister"
    /\ table' = [x \in DOMAIN table \ {c} |-> table[x]]
    /\ hs' = [hs EXCEPT ![c] = "done"]
    /\ UNCHANGED <<loopVars, conn, want, regVars, adminVars, wg, early, starts>>

\* Mutant: the wait group is not told.
Done_Forgotten(c) ==
    /\ hs[c] = "done"
    /\ hs' = [hs EXCEPT ![c] = "ended"]
    /\ early' = early \ {c} /\ dropped' = dropped \ {c}
    /\ UNCHANGED <<loopVars, conn, want, regVars, kick, down, kicks, wg, table, starts>>

\* s.wg.Done()
Done(c) ==
    /\ hs[c] = "done"
    /\ wg' = wg - 1
    /\ hs' = [hs EXCEPT ![c] = "ended"]
    /\ early' = early \ {c} /\ dropped' = dropped \ {c}
    /\ UNCHANGED <<loopVars, conn, want, regVars, kick, down, kicks, table, starts>>

-----------------------------------------------------------------------------
(* The operations for an administrator: KickClient, which the package      *)
(* exports and nothing here calls yet, and the restart of the admin server.*)

\* KickClient: under sessMu it picks the sessions of a client.
KickPick(id) ==
    /\ kicks + starts < MaxActs /\ kick = {}
    /\ kicks' = kicks + 1
    /\ kick' = {c \in DOMAIN table : table[c] = id}
    /\ UNCHANGED <<loopVars, connVars, regVars, down, dropped, wg, table, early, starts>>

Shut(S) ==
    /\ conn' = [c \in Conns |-> IF c \in S THEN "closed" ELSE conn[c]]
    /\ dropped' = dropped \cup {c \in S : hs[c] # "ended"}

\* Without the lock it closes them, one after the other.
KickClose(c) ==
    /\ c \in kick
    /\ Shut({c})
    /\ kick' = kick \ {c}
    /\ UNCHANGED <<loopVars, hs, want, regVars, down, kicks, wg, table, early, starts>>

\* Mutant: only sessions that have said CONNECT are closed.
Shutdown_Connected ==
    /\ kicks + starts < MaxActs /\ down = "idle"
    /\ kicks' = kicks + 1
    /\ dropped' = dropped \cup DOMAIN table
    /\ conn' = [c \in Conns |-> IF c \in DOMAIN table /\ table[c] # NoId
                                THEN "closed" ELSE conn[c]]
    /\ down' = "wait"
    /\ UNCHANGED <<loopVars, hs, want, regVars, kick, wg, table, early, starts>>

\* handleRestart: Shutdown closes every registered session under sessMu, and
\* waits for the handlers. The listener stays open.
Shutdown ==
    /\ kicks + starts < MaxActs /\ down = "idle"
    /\ kicks' = kicks + 1
    /\ Shut(DOMAIN table)
    /\ down' = "wait"
    /\ UNCHANGED <<loopVars, hs, want, regVars, kick, wg, table, early, starts>>

ShutdownReturns ==
    /\ down = "wait" /\ wg = 0
    /\ down' = "idle"
    /\ UNCHANGED <<loopVars, connVars, regVars, kick, dropped, kicks, wg, table, early, starts>>

-----------------------------------------------------------------------------
(* The process ends and starts again: after main returned, or at any other *)
(* point (a crash, or log.Fatal when a listener fails).                    *)

\* Mutant: topics are opened on demand only.
Load_Nothing ==
    /\ topics' = {}
    /\ open' = [d \in Dirs |-> NoName]
    /\ UNCHANGED dbName

\* Registry.Load: every directory is opened under the name stored in it; one that
\* cannot be loaded is skipped.
Load ==
    /\ \E skip \in SUBSET Unreadable :
            /\ topics' = {dbName[d] : d \in Dirs \ skip} \ {NoName}
            /\ open' = [d \in Dirs |-> IF d \in skip THEN NoName ELSE dbName[d]]
    /\ UNCHANGED dbName

Start ==
    /\ kicks + starts < MaxActs
    /\ starts' = starts + 1
    /\ Load
    /\ ctx' = "live" /\ ln' = "open" /\ acc' = "accept" /\ held' = NoConn
    /\ wg' = 0 /\ main' = "serve"
    /\ conn' = [c \in Conns |-> IF conn[c] = "new" THEN "new" ELSE "closed"]
    /\ hs' = [c \in Conns |-> IF hs[c] = "none" THEN "none" ELSE "ended"]
    /\ table' = Empty
    /\ want' = [c \in Conns |-> NoName]
    /\ kick' = {} /\ down' = "idle"
    /\ early' = {} /\ dropped' = {}
    /\ UNCHANGED kicks

-----------------------------------------------------------------------------

Handler(c) ==
    \/ Register(c) \/ Loop(c) \/ Create(c)
    \/ ReadFails(c) \/ HandleEnds(c) \/ Unregister(c) \/ Done(c)

AcceptLoop == (\E c \in Conns : Accept(c)) \/ Spawn \/ AcceptFails \/ LoopReturns
Main == MainSelects \/ MainWaited \/ CloseRegistry
Admin == (\E c \in Conns : KickClose(c)) \/ ShutdownReturns

Next ==
    \/ \E c \in Conns : Dial(c) \/ Leave(c) \/ HandleConnect(c) \/ Handler(c)
    \/ \E c \in Conns, n \in Names : Packet(c, n)
    \/ AcceptLoop \/ CloseListener \/ Main
    \/ Signal
    \/ Admin \/ Shutdown
    \/ \E id \in ClientIds : KickPick(id)
    \/ Start

\* Every goroutine that can run does; clients, signals and the administrator act
\* when they like. The code gives no more than the Go scheduler.
Fairness ==
    /\ \A c \in Conns : WF_vars(Handler(c))
    /\ WF_vars(AcceptLoop)
    /\ WF_vars(CloseListener)
    /\ WF_vars(Main)
    /\ WF_vars(Admin)

Spec == Init /\ [][Next]_vars /\ Fairness

-----------------------------------------------------------------------------
(* Properties. *)

Counted == {"register", "connect", "loop", "read", "create", "closing",
            "unregister", "done"}

\* Type invariant. The wait group counts the handlers that run, and the session
\* table holds the ones between registerSession and unregisterSession.
ServerTypeOK ==
    /\ ctx \in {"live", "done"} /\ ln \in {"open", "closed"}
    /\ acc \in {"accept", "spawn", "wait", "exit"}
    /\ held \in Conns \cup {NoConn} /\ (acc = "spawn" <=> held # NoConn)
    /\ main \in {"serve", "wait", "close", "exit"}
    /\ conn \in [Conns -> {"new", "queued", "open", "closed"}]
    /\ hs \in [Conns -> Counted \cup {"none", "ended"}]
    /\ wg = Cardinality({c \in Conns : hs[c] \in Counted})
    /\ DOMAIN table = {c \in Conns : hs[c] \in Counted \ {"register", "done"}}
    /\ \A c \in DOMAIN table : table[c] \in ClientIds \cup {NoId}
    /\ want \in [Conns -> Names \cup {NoName}]
    /\ topics \subseteq Names
    /\ open \in [Dirs -> Names \cup {NoName}] /\ dbName \in [Dirs -> Names \cup {NoName}]
    /\ kick \subseteq Conns /\ early \subseteq Conns /\ dropped \subseteq Conns
    /\ down \in {"idle", "wait"}
    /\ kicks \in 0 .. MaxActs /\ starts \in 0 .. MaxActs

\* main closes the topic stores only when every handler that had started before
\* SIGTERM is through: none of them finds its topic closed under it.
DrainedBeforeClose ==
    main \in {"close", "exit"} => early = {}

\* Two sessions that ask for a new topic at the same time both get it: GetOrCreate
\* ends a session only when another topic of the registry has the directory, or
\* when nobody has it and the store itself fails; never because the topic itself
\* was created between the two looks.
NoSpuriousRefusal ==
    [][\A c \in Conns : hs[c] = "create" /\ hs'[c] = "closing"
            => \/ \E m \in topics \ {want[c]} : DirOf[m] = DirOf[want[c]]
               \/ DirOf[want[c]] \in Unreadable /\ open[DirOf[want[c]]] = NoName]_vars

\* Until main has closed the stores, a directory keeps the topic it was created
\* for, over restarts: no other name that maps to the same directory takes its
\* messages over.
StoreKeepsName ==
    [][\A d \in Dirs : main # "exit" /\ dbName[d] # NoName => dbName'[d] = dbName[d]]_vars

\* After SIGTERM the process ends, once no client keeps its connection open.
ExitsWhenClientsLeave ==
    <>[](ctx = "done" /\ \A c \in Conns : conn[c] # "open") => <>(main = "exit")

\* Every session that KickClient picked, or that was registered when the admin
\* server's restart called Shutdown, ends, wherever its handler was at the time.
DroppedEnd == \A c \in Conns : c \in dropped ~> hs[c] = "ended"
=============================================================================
