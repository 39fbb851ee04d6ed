---------------------------- MODULE ServerProofs ----------------------------
(***************************************************************************)
(* Theorems about Server, for any number of connections, names and         *)
(* directories: what the wait group and the session table hold, that main  *)
(* closes the stores after the handlers that started before SIGTERM, and   *)
(* what GetOrCreate and Registry.Load make of directories that names share.*)
(***************************************************************************)
EXTENDS Server, FiniteSetTheorems, TLAPS

-----------------------------------------------------------------------------
(* The inductive invariants. *)

Running == {c \in Conns : hs[c] \in Counted}

\* The wait group counts the handlers that run.
CountInv == wg = Cardinality(Running)

\* ServerTypeOK without the count.
ShapeInv ==
    /\ ctx \in {"live", "done"} /\ ln \in {"open", "closed"}
    /\ acc \in {"accept", "spawn", "wait", "exit"}
    /\ held \in Conns \cup {NoConn} /\ (acc = "spawn" <=> held # NoConn)
    /\ main \in {"serve", "wait", "close", "exit"}
    /\ conn \in [Conns -> {"new", "queued", "open", "closed"}]
    /\ hs \in [Conns -> Counted \cup {"none", "ended"}]
    /\ want \in [Conns -> Names \cup {NoName}]
    /\ kick \subseteq Conns /\ early \subseteq Conns /\ dropped \subseteq Conns
    /\ down \in {"idle", "wait"}
    /\ kicks \in 0 .. MaxActs /\ starts \in 0 .. MaxActs

\* The session table, and the registry with its directories.
TableInv ==
    /\ DOMAIN table = {c \in Conns : hs[c] \in Counted \ {"register", "done"}}
    /\ \A c \in DOMAIN table : table[c] \in ClientIds \cup {NoId}

RegistryInv ==
    /\ topics \subseteq Names
    /\ open \in [Dirs -> Names \cup {NoName}]
    /\ dbName \in [Dirs -> Names \cup {NoName}]

\* A connection has no handler before the accept loop starts one, so the wait
\* group counts each handler once; a handler that creates has a name to create.
StartInv ==
    /\ \A c \in Conns : conn[c] \in {"new", "queued"} => hs[c] = "none"
    /\ acc = "spawn" => hs[held] = "none" /\ conn[held] \in {"open", "closed"}
    /\ \A c \in Conns : hs[c] = "create" => want[c] \in Names

TypeInv == ShapeInv /\ TableInv /\ RegistryInv /\ StartInv /\ CountInv

\* The stages of the shutdown, and the handlers that are still to be waited for.
DrainInv ==
    /\ ln = "closed" => ctx = "done"
    /\ acc \in {"wait", "exit"} => ln = "closed"
    /\ main # "serve" => ctx = "done"
    /\ early \subseteq Running
    /\ acc = "exit" => early = {}
    /\ DrainedBeforeClose

\* A directory that is open is held by a topic of the registry whose directory
\* it is, and every name stored in a directory maps to that directory.
HolderInv ==
    \A d \in Dirs :
        /\ open[d] # NoName => open[d] \in topics /\ DirOf[open[d]] = d
        /\ dbName[d] # NoName => DirOf[dbName[d]] = d

\* Until main closes the stores a directory with a name is open under that name,
\* unless the last start could not load it.
LoadedInv ==
    main # "exit" =>
        \A d \in Dirs : dbName[d] # NoName => open[d] = dbName[d] \/ d \in Unreadable

-----------------------------------------------------------------------------
(* The wait group and the session table. *)

\* Every step keeps the shapes, the session table and the places of the handlers.
LEMMA ShapeStep ==
    ASSUME TypeInv, [Next]_vars
    PROVE  ShapeInv' /\ TableInv' /\ RegistryInv' /\ StartInv'
<1> DEFINE Kept == ShapeInv /\ TableInv /\ RegistryInv /\ StartInv
<1> SUFFICES Kept'
  OBVIOUS
<1> USE ServerAssumption DEF TypeInv, ShapeInv, TableInv, RegistryInv, StartInv, Counted, vars,
            loopVars, connVars, regVars, adminVars
<1>1. ASSUME NEW c \in Conns, Dial(c) PROVE Kept'
  BY <1>1 DEF Dial
<1>2. ASSUME NEW c \in Conns, Leave(c) PROVE Kept'
  BY <1>2 DEF Leave
<1>3. ASSUME NEW c \in Conns, HandleConnect(c) PROVE Kept'
  <2>1. ShapeInv' /\ RegistryInv' /\ StartInv'
    BY <1>3 DEF HandleConnect
  <2>2. ClientOf[c] \in ClientIds
    BY DEF ClientIds
  <2>3. ASSUME table' = [table EXCEPT ![c] = ClientOf[c]], hs' = [hs EXCEPT ![c] = "loop"]
        PROVE  TableInv'
    <3>1. DOMAIN table' = DOMAIN table
      BY <2>3
    <3>2. \A x \in DOMAIN table : table'[x] = IF x = c THEN ClientOf[c] ELSE table[x]
      BY <2>3
    <3> QED BY <1>3, <2>2, <2>3, <3>1, <3>2 DEF HandleConnect
  <2>4. ASSUME UNCHANGED table, hs' = [hs EXCEPT ![c] = "closing"]
        PROVE  TableInv'
    BY <1>3, <2>4 DEF HandleConnect
  <2> QED BY <1>3, <2>1, <2>3, <2>4 DEF HandleConnect
<1>4. ASSUME NEW c \in Conns, Register(c) PROVE Kept'
  BY <1>4 DEF Register
<1>5. ASSUME NEW c \in Conns, Loop(c) PROVE Kept'
  BY <1>5 DEF Loop
<1>6. ASSUME NEW c \in Conns, Create(c) PROVE Kept'
  BY <1>6 DEF Create, NewTopic, NewFails
<1>7. ASSUME NEW c \in Conns, ReadFails(c) PROVE Kept'
  BY <1>7 DEF ReadFails
<1>8. ASSUME NEW c \in Conns, HandleEnds(c) PROVE Kept'
  BY <1>8 DEF HandleEnds
<1>9. ASSUME NEW c \in Conns, Unregister(c) PROVE Kept'
  BY <1>9 DEF Unregister
<1>10. ASSUME NEW c \in Conns, Done(c) PROVE Kept'
  BY <1>10 DEF Done
<1>11. ASSUME NEW c \in Conns, NEW n \in Names, Packet(c, n) PROVE Kept'
  BY <1>11 DEF Packet
<1>12. ASSUME NEW c \in Conns, Accept(c) PROVE Kept'
  BY <1>12 DEF Accept
<1>13. ASSUME Spawn PROVE Kept'
  <2>1. held \in Conns /\ hs[held] = "none"
    BY <1>13 DEF Spawn
  <2>2. ShapeInv'
    BY <1>13, <2>1 DEF Spawn
  <2>3. TableInv'
    BY <1>13, <2>1 DEF Spawn
  <2>4. RegistryInv' /\ StartInv'
    BY <1>13, <2>1 DEF Spawn
  <2> QED BY <2>2, <2>3, <2>4
<1>14. ASSUME AcceptFails PROVE Kept'
  BY <1>14 DEF AcceptFails
<1>15. ASSUME LoopReturns PROVE Kept'
  BY <1>15 DEF LoopReturns
<1>16. ASSUME CloseListener PROVE Kept'
  BY <1>16 DEF CloseListener
<1>17. ASSUME MainSelects PROVE Kept'
  BY <1>17 DEF MainSelects
<1>18. ASSUME MainWaited PROVE Kept'
  BY <1>18 DEF MainWaited
<1>19. ASSUME CloseRegistry PROVE Kept'
  BY <1>19 DEF CloseRegistry
<1>20. ASSUME Signal PROVE Kept'
  BY <1>20 DEF Signal
<1>21. ASSUME NEW c \in Conns, KickClose(c) PROVE Kept'
  BY <1>21 DEF KickClose, Shut
<1>22. ASSUME ShutdownReturns PROVE Kept'
  BY <1>22 DEF ShutdownReturns
<1>23. ASSUME Shutdown PROVE Kept'
  BY <1>23 DEF Shutdown, Shut
<1>24. ASSUME NEW id \in ClientIds, KickPick(id) PROVE Kept'
  BY <1>24 DEF KickPick
<1>25. ASSUME Start PROVE Kept'
  <2>1. ShapeInv'
    BY <1>25 DEF Start
  <2>2. TableInv'
    BY <1>25 DEF Start, Empty
  <2>3. RegistryInv'
    BY <1>25 DEF Start, Load
  <2>4. StartInv'
    BY <1>25 DEF Start
  <2> QED BY <2>1, <2>2, <2>3, <2>4
<1>26. ASSUME UNCHANGED vars PROVE Kept'
  BY <1>26 DEF vars
<1> QED
  BY <1>1, <1>2, <1>3, <1>4, <1>5, <1>6, <1>7, <1>8, <1>9, <1>10, <1>11, <1>12, <1>13,
     <1>14, <1>15, <1>16, <1>17, <1>18, <1>19, <1>20, <1>21, <1>22, <1>23, <1>24, <1>25, <1>26
     DEF Next, Handler, AcceptLoop, Main, Admin

\* Add(1) and Done change the count by the one handler that starts or ends, and no
\* other step starts or ends one.
LEMMA CountStep ==
    ASSUME TypeInv, [Next]_vars
    PROVE  CountInv'
<1>0. IsFiniteSet(Running)
  BY FS_Subset, ServerAssumption DEF Running
<1> USE DEF TypeInv, ShapeInv, CountInv
<1>1. ASSUME UNCHANGED wg, Running' = Running PROVE CountInv'
  BY <1>1
<1>2. ASSUME NEW c \in Conns, NEW p \in Counted, NEW q \in Counted, UNCHANGED wg,
             hs[c] = p, hs' = [hs EXCEPT ![c] = q]
      PROVE  CountInv'
  BY <1>1, <1>2 DEF Running
<1>3. ASSUME UNCHANGED <<wg, hs>> PROVE CountInv'
  BY <1>1, <1>3 DEF Running
<1>4. CASE Spawn
  <2>1. held \in Conns /\ hs[held] = "none"
    BY <1>4, ServerAssumption DEF Spawn, StartInv
  <2>2. Running' = Running \cup {held} /\ held \notin Running
    BY <1>4, <2>1 DEF Spawn, Running, Counted
  <2> QED BY <1>0, <1>4, <2>2, FS_AddElement DEF Spawn
<1>5. ASSUME NEW c \in Conns, Done(c) PROVE CountInv'
  <2>1. Running' = Running \ {c} /\ c \in Running
    BY <1>5 DEF Done, Running, Counted
  <2> QED BY <1>0, <1>5, <2>1, FS_RemoveElement DEF Done
<1>6. CASE Start
  <2>1. Running' = {} /\ wg' = 0
    BY <1>6 DEF Start, Running, Counted
  <2> QED BY <2>1, FS_EmptySet
<1>7. ASSUME NEW c \in Conns,
             HandleConnect(c) \/ Register(c) \/ Loop(c) \/ Create(c) \/ ReadFails(c)
                \/ HandleEnds(c) \/ Unregister(c)
      PROVE  CountInv'
  <2>1. UNCHANGED wg /\ hs[c] \in Counted
    BY <1>7 DEF HandleConnect, Register, Loop, Create, ReadFails, HandleEnds, Unregister, Counted
  <2>2. \E q \in Counted : hs' = [hs EXCEPT ![c] = q]
    BY <1>7 DEF HandleConnect, Register, Loop, Create, ReadFails, HandleEnds, Unregister, Counted
  <2> QED BY <1>2, <2>1, <2>2
<1>8. ASSUME NEW c \in Conns, NEW n \in Names, Packet(c, n) PROVE CountInv'
  <2>1. UNCHANGED wg /\ hs[c] \in Counted
    BY <1>8 DEF Packet, Counted
  <2>2. \E q \in Counted : hs' = [hs EXCEPT ![c] = q]
    BY <1>8 DEF Packet, Counted
  <2> QED BY <1>2, <2>1, <2>2
<1> USE <1>3 DEF loopVars, connVars, regVars, adminVars
<1>9. ASSUME NEW c \in Conns, Dial(c) \/ Leave(c) \/ Accept(c) \/ KickClose(c)
      PROVE  CountInv'
  BY <1>9 DEF Dial, Leave, Accept, KickClose
<1>10. ASSUME AcceptFails \/ LoopReturns \/ CloseListener \/ MainSelects \/ MainWaited
                \/ CloseRegistry \/ Signal
       PROVE  CountInv'
  BY <1>10 DEF AcceptFails, LoopReturns, CloseListener, MainSelects, MainWaited, CloseRegistry,
               Signal
<1>11. ASSUME ShutdownReturns \/ Shutdown \/ (\E id \in ClientIds : KickPick(id))
       PROVE  CountInv'
  BY <1>11 DEF ShutdownReturns, Shutdown, KickPick
<1>12. CASE UNCHANGED vars
  BY <1>12 DEF vars
<1> QED
  BY <1>4, <1>5, <1>6, <1>7, <1>8, <1>9, <1>10, <1>11, <1>12
     DEF Next, Handler, AcceptLoop, Main, Admin

\* A process without connections starts there.
LEMMA InitTypes == Init => TypeInv
<1> SUFFICES ASSUME Init PROVE TypeInv
  OBVIOUS
<1>1. ShapeInv /\ RegistryInv /\ StartInv
  BY ServerAssumption DEF Init, ShapeInv, RegistryInv, StartInv
<1>2. TableInv
  BY DEF Init, TableInv, Empty, Counted
<1>3. CountInv
  <2>1. Running = {}
    BY DEF Init, Running, Counted
  <2> QED BY <2>1, FS_EmptySet DEF Init, CountInv
<1> QED BY <1>1, <1>2, <1>3 DEF TypeInv

\* Every step of the server keeps the types and the count of the wait group.
LEMMA TypeStep == TypeInv /\ [Next]_vars => TypeInv'
BY ShapeStep, CountStep DEF TypeInv

\* At every moment the wait group counts the handlers that run and the session table
\* holds those between registerSession and unregisterSession, whatever the listener,
\* the administrator and restarts of the process do.
THEOREM ServerTypes == Spec => []ServerTypeOK
<1>1. TypeInv => ServerTypeOK
  BY DEF TypeInv, ShapeInv, TableInv, RegistryInv, CountInv, Running, ServerTypeOK
<1> QED BY <1>1, InitTypes, TypeStep, PTL DEF Spec

-----------------------------------------------------------------------------
(* The shutdown. *)

\* Main gets past its wait only when no early handler is left, and none is added then.
LEMMA DrainStep ==
    ASSUME TypeInv, DrainInv, [Next]_vars
    PROVE  DrainInv'
<1>0. wg = 0 => Running = {}
  BY FS_EmptySet, FS_Subset, ServerAssumption DEF TypeInv, CountInv, Running
<1> USE DEF TypeInv, ShapeInv, StartInv, DrainInv, DrainedBeforeClose, Running, Counted, vars,
            loopVars, connVars, regVars, adminVars
<1>1. ASSUME NEW c \in Conns, Dial(c) PROVE DrainInv'
  BY <1>1 DEF Dial
<1>2. ASSUME NEW c \in Conns, Leave(c) PROVE DrainInv'
  BY <1>2 DEF Leave
<1>3. ASSUME NEW c \in Conns, HandleConnect(c) PROVE DrainInv'
  BY <1>3 DEF HandleConnect
<1>4. ASSUME NEW c \in Conns, Register(c) PROVE DrainInv'
  BY <1>4 DEF Register
<1>5. ASSUME NEW c \in Conns, Loop(c) PROVE DrainInv'
  BY <1>5 DEF Loop
<1>6. ASSUME NEW c \in Conns, Create(c) PROVE DrainInv'
  BY <1>6 DEF Create, NewTopic, NewFails
<1>7. ASSUME NEW c \in Conns, ReadFails(c) PROVE DrainInv'
  BY <1>7 DEF ReadFails
<1>8. ASSUME NEW c \in Conns, HandleEnds(c) PROVE DrainInv'
  BY <1>8 DEF HandleEnds
<1>9. ASSUME NEW c \in Conns, Unregister(c) PROVE DrainInv'
  BY <1>9 DEF Unregister
<1>10. ASSUME NEW c \in Conns, Done(c) PROVE DrainInv'
  BY <1>10 DEF Done
<1>11. ASSUME NEW c \in Conns, NEW n \in Names, Packet(c, n) PROVE DrainInv'
  BY <1>11 DEF Packet
<1>12. ASSUME NEW c \in Conns, Accept(c) PROVE DrainInv'
  BY <1>12 DEF Accept
<1>13. ASSUME Spawn PROVE DrainInv'
  BY <1>13, ServerAssumption DEF Spawn
<1>14. ASSUME AcceptFails PROVE DrainInv'
  BY <1>14 DEF AcceptFails
<1>15. ASSUME LoopReturns PROVE DrainInv'
  BY <1>0, <1>15 DEF LoopReturns
<1>16. ASSUME CloseListener PROVE DrainInv'
  BY <1>16 DEF CloseListener
<1>17. ASSUME MainSelects PROVE DrainInv'
  BY <1>17 DEF MainSelects
<1>18. ASSUME MainWaited PROVE DrainInv'
  BY <1>0, <1>18 DEF MainWaited
<1>19. ASSUME CloseRegistry PROVE DrainInv'
  BY <1>19 DEF CloseRegistry
<1>20. ASSUME Signal PROVE DrainInv'
  BY <1>20 DEF Signal
<1>21. ASSUME NEW c \in Conns, KickClose(c) PROVE DrainInv'
  BY <1>21 DEF KickClose, Shut
<1>22. ASSUME ShutdownReturns PROVE DrainInv'
  BY <1>22 DEF ShutdownReturns
<1>23. ASSUME Shutdown PROVE DrainInv'
  BY <1>23 DEF Shutdown, Shut
<1>24. ASSUME NEW id \in ClientIds, KickPick(id) PROVE DrainInv'
  BY <1>24 DEF KickPick
<1>25. ASSUME Start PROVE DrainInv'
  BY <1>25 DEF Start, Load
<1>26. ASSUME UNCHANGED vars PROVE DrainInv'
  BY <1>26 DEF vars
<1> QED
  BY <1>1, <1>2, <1>3, <1>4, <1>5, <1>6, <1>7, <1>8, <1>9, <1>10, <1>11, <1>12, <1>13,
     <1>14, <1>15, <1>16, <1>17, <1>18, <1>19, <1>20, <1>21, <1>22, <1>23, <1>24, <1>25, <1>26
     DEF Next, Handler, AcceptLoop, Main, Admin

\* main closes the topic stores only after every handler that had started before
\* SIGTERM, for any number of connections: both ways to the close pass a wait group
\* that counts them, and after the signal no handler joins them.
THEOREM ServerDrains == Spec => []DrainedBeforeClose
<1>1. Init => DrainInv
  BY DEF Init, DrainInv, DrainedBeforeClose
<1>2. DrainInv => DrainedBeforeClose
  BY DEF DrainInv
<1> QED BY <1>1, <1>2, DrainStep, InitTypes, TypeStep, PTL DEF Spec

-----------------------------------------------------------------------------
(* The registry: topics, their directories and the names stored in them. *)

\* Only Create, the close of the registry and a start of the process touch them.
LEMMA RegistrySteps ==
    ASSUME [Next]_vars
    PROVE  \/ \E c \in Conns : Create(c)
           \/ CloseRegistry
           \/ Start
           \/ UNCHANGED <<topics, open, dbName>> /\ (main' = "exit" <=> main = "exit")
<1> USE DEF loopVars, connVars, regVars, adminVars
<1>1. ASSUME NEW c \in Conns,
             Dial(c) \/ Leave(c) \/ HandleConnect(c) \/ Register(c) \/ Loop(c) \/ ReadFails(c)
                \/ HandleEnds(c) \/ Unregister(c) \/ Done(c) \/ Accept(c) \/ KickClose(c)
                \/ (\E n \in Names : Packet(c, n))
      PROVE  UNCHANGED <<topics, open, dbName, main>>
  BY <1>1 DEF Dial, Leave, HandleConnect, Register, Loop, ReadFails, HandleEnds, Unregister,
              Done, Accept, KickClose, Packet
<1>2. ASSUME Spawn \/ AcceptFails \/ LoopReturns \/ CloseListener \/ Signal
                \/ ShutdownReturns \/ Shutdown \/ (\E id \in ClientIds : KickPick(id))
      PROVE  UNCHANGED <<topics, open, dbName, main>>
  BY <1>2 DEF Spawn, AcceptFails, LoopReturns, CloseListener, Signal, ShutdownReturns, Shutdown,
              KickPick
<1>3. ASSUME MainSelects \/ MainWaited
      PROVE  UNCHANGED <<topics, open, dbName>> /\ main # "exit" /\ main' # "exit"
  BY <1>3 DEF MainSelects, MainWaited
<1>4. CASE UNCHANGED vars
  BY <1>4 DEF vars
<1> QED
  BY <1>1, <1>2, <1>3, <1>4 DEF Next, Handler, AcceptLoop, Main, Admin

\* What Create does to them: nothing, or one directory that nobody held gets a name,
\* which New leaves behind also when it fails after writing it.
LEMMA CreateCases ==
    ASSUME TypeInv, NEW c \in Conns, Create(c)
    PROVE  /\ want[c] \in Names /\ DirOf[want[c]] \in Dirs
           /\ UNCHANGED main
           /\ NewTopic(want[c]) \/ NewFails(want[c]) \/ UNCHANGED <<topics, open, dbName>>
BY DEF TypeInv, StartInv, Create, Dirs, regVars, loopVars

\* A directory is opened under a name that belongs to it, by the topic of that name.
LEMMA HolderStep ==
    ASSUME TypeInv, HolderInv, [Next]_vars
    PROVE  HolderInv'
<1> USE DEF TypeInv, RegistryInv
<1>1. ASSUME NEW c \in Conns, Create(c) PROVE HolderInv'
  <2>1. CASE NewTopic(want[c])
    BY <1>1, <2>1, CreateCases DEF NewTopic, HolderInv
  <2>2. CASE UNCHANGED <<topics, open, dbName>>
    BY <2>2 DEF HolderInv
  <2>3. CASE NewFails(want[c])
    BY <1>1, <2>3, CreateCases DEF NewFails, HolderInv
  <2> QED BY <1>1, <2>1, <2>2, <2>3, CreateCases
<1>2. CASE CloseRegistry
  BY <1>2 DEF CloseRegistry, HolderInv
<1>3. CASE Start
  BY <1>3 DEF Start, Load, HolderInv
<1>4. CASE UNCHANGED <<topics, open, dbName>>
  BY <1>4 DEF HolderInv
<1> QED BY <1>1, <1>2, <1>3, <1>4, RegistrySteps

\* The registry is empty and no directory has a name.
LEMMA InitHolders == Init => HolderInv
BY DEF Init, HolderInv

\* GetOrCreate ends a session only when another topic of the registry has the
\* directory, or when nobody has it open and the store fails by itself: never because
\* another session created the same topic between the look under the read lock and
\* the one under the write lock.
THEOREM ServerNoSpuriousRefusal == Spec => NoSpuriousRefusal
<1> DEFINE Refused(c) == hs[c] = "create" /\ hs'[c] = "closing"
           Taken(c) == \/ \E m \in topics \ {want[c]} : DirOf[m] = DirOf[want[c]]
                       \/ DirOf[want[c]] \in Unreadable /\ open[DirOf[want[c]]] = NoName
<1>1. ASSUME TypeInv, HolderInv, NEW c \in Conns, Create(c), Refused(c) PROVE Taken(c)
  <2>1. want[c] \notin topics /\ (open[DirOf[want[c]]] # NoName \/ NewFails(want[c]))
    BY <1>1 DEF Create, TypeInv, ShapeInv
  <2>2. want[c] \in Names /\ DirOf[want[c]] \in Dirs
    BY <1>1, CreateCases
  <2> QED BY <1>1, <2>1, <2>2 DEF HolderInv, NewFails
<1>2. ASSUME TypeInv, Next, NEW c \in Conns, Refused(c) PROVE Create(c)
  <2> USE DEF TypeInv, ShapeInv, loopVars, connVars, regVars, adminVars
  <2>1. ASSUME NEW x \in Conns, Handler(x) \/ HandleConnect(x) \/ (\E n \in Names : Packet(x, n))
        PROVE  x = c /\ Create(x)
    BY <1>2, <2>1 DEF Handler, HandleConnect, Register, Loop, ReadFails, HandleEnds, Unregister,
                      Done, Create, Packet
  <2>2. hs' # hs /\ ~Spawn /\ ~Start
    BY <1>2 DEF Spawn, Start
  <2>3. ASSUME NEW x \in Conns, Dial(x) \/ Leave(x) \/ Accept(x) \/ KickClose(x) PROVE FALSE
    BY <2>2, <2>3 DEF Dial, Leave, Accept, KickClose
  <2>4. ~AcceptFails /\ ~LoopReturns /\ ~CloseListener /\ ~Main
    BY <2>2 DEF AcceptFails, LoopReturns, CloseListener, Main, MainSelects, MainWaited,
                CloseRegistry
  <2>5. ~Signal /\ ~ShutdownReturns /\ ~Shutdown /\ \A id \in ClientIds : ~KickPick(id)
    BY <2>2 DEF Signal, ShutdownReturns, Shutdown, KickPick
  <2> QED BY <1>2, <2>1, <2>2, <2>3, <2>4, <2>5 DEF Next, AcceptLoop, Admin
<1>3. TypeInv /\ HolderInv /\ [Next]_vars => [\A c \in Conns : Refused(c) => Taken(c)]_vars
  BY <1>1, <1>2
<1> QED
  BY <1>3, InitTypes, TypeStep, InitHolders, HolderStep, PTL DEF Spec, NoSpuriousRefusal

\* Whoever opens a directory stores the name, and a start opens every directory it
\* can read.
LEMMA LoadedStep ==
    ASSUME TypeInv, LoadedInv, [Next]_vars
    PROVE  LoadedInv'
<1> USE DEF TypeInv, RegistryInv
<1>1. ASSUME NEW c \in Conns, Create(c) PROVE LoadedInv'
  <2>1. CASE NewTopic(want[c])
    BY <1>1, <2>1, CreateCases DEF NewTopic, LoadedInv
  <2>2. CASE UNCHANGED <<topics, open, dbName>>
    BY <1>1, <2>2, CreateCases DEF LoadedInv
  <2>3. CASE NewFails(want[c])
    BY <1>1, <2>3, CreateCases DEF NewFails, LoadedInv
  <2> QED BY <1>1, <2>1, <2>2, <2>3, CreateCases
<1>2. CASE CloseRegistry
  BY <1>2 DEF CloseRegistry, LoadedInv
<1>3. CASE Start
  BY <1>3 DEF Start, Load, LoadedInv
<1>4. CASE UNCHANGED <<topics, open, dbName>> /\ (main' = "exit" <=> main = "exit")
  BY <1>4 DEF LoadedInv
<1> QED BY <1>1, <1>2, <1>3, <1>4, RegistrySteps

\* A directory keeps the topic it was created for until main has closed the stores,
\* over crashes and restarts, when a directory whose store may fail belongs to one
\* name: Badger's lock refuses every other name of a directory that is open, and only
\* one that was skipped, or that New closed again, is not open while the broker serves.
THEOREM ServerStoreKeepsName ==
    ASSUME \A d \in Unreadable : \A m, n \in Names : DirOf[m] = d /\ DirOf[n] = d => m = n
    PROVE  Spec => StoreKeepsName
<1> DEFINE Keeps == \A d \in Dirs : main # "exit" /\ dbName[d] # NoName => dbName'[d] = dbName[d]
<1>1. ASSUME TypeInv, HolderInv, LoadedInv, [Next]_vars PROVE Keeps
  <2> USE <1>1 DEF TypeInv, RegistryInv
  <2>1. ASSUME NEW c \in Conns, Create(c) PROVE Keeps
    <3>1. CASE NewTopic(want[c]) \/ NewFails(want[c])
      <4>1. SUFFICES ASSUME NEW d \in Dirs, main # "exit", dbName[d] # NoName
                     PROVE  dbName'[d] = dbName[d]
        OBVIOUS
      <4>2. want[c] \in Names /\ DirOf[want[c]] \in Dirs
        BY <2>1, CreateCases
      <4>3. CASE d # DirOf[want[c]]
        BY <3>1, <4>3 DEF NewTopic, NewFails
      <4>4. CASE d = DirOf[want[c]]
        <5>1. d \in Unreadable
          BY <3>1, <4>1, <4>4 DEF NewTopic, NewFails, LoadedInv
        <5>2. dbName[d] \in Names /\ DirOf[dbName[d]] = d
          BY <4>1 DEF HolderInv
        <5>3. dbName[d] = want[c]
          BY <4>2, <4>4, <5>1, <5>2
        <5> QED BY <3>1, <4>2, <4>4, <5>3 DEF NewTopic, NewFails
      <4> QED BY <4>3, <4>4
    <3> QED BY <2>1, <3>1, CreateCases
  <2>2. CASE CloseRegistry
    BY <2>2 DEF CloseRegistry
  <2>3. CASE Start
    BY <2>3 DEF Start, Load
  <2> QED BY <2>1, <2>2, <2>3, RegistrySteps
<1>2. Init => LoadedInv
  BY DEF Init, LoadedInv
<1>3. TypeInv /\ HolderInv /\ LoadedInv /\ [Next]_vars => [Keeps]_vars
  BY <1>1
<1> QED
  BY <1>2, <1>3, InitTypes, TypeStep, InitHolders, HolderStep, LoadedStep, PTL
     DEF Spec, StoreKeepsName
=============================================================================
