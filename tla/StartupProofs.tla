----------------------------- MODULE StartupProofs -----------------------------
(* Proofs of the types of Startup and of its two safety properties, for every *)
(* number of test runs and crashes.                                           *)
EXTENDS Startup, FiniteSetTheorems, TLAPS

-----------------------------------------------------------------------------
(* The inductive invariant *)

\* the threads run only between lifespan's start and its end
ThreadsLive ==
    /\ script["risk"] \notin {"serving", "stopping"} => \A t \in Threads : pc[t] = "none"
    /\ script["risk"] = "serving" => pc["main"] = "none"

\* the lock is held between the two checks and the connection
LockHeld == \A t \in Threads : pc[t] \in {"recheck", "connect"} <=> lock = t

\* whoever connects has seen that there is no connection, and nobody has one
\* before it is cached
ConnectionCached ==
    /\ \A t \in Threads : pc[t] = "connect" => connection = None
    /\ \A t \in Threads : held[t] # None => held[t] = connection
    /\ open \subseteq {connection}

\* a script that has gone on from its tables has created them, and the Auth
\* Service goes on when the others serve
TablesFirst ==
    /\ \A h \in Hosts :
          script[h] \in {"broker", "risk", "mfa", "tests", "serving", "stopping"}
             => h \in tables
    /\ script["auth"] \in {"mfa", "tests", "serving", "stopping"} => "risk" \in tables
    /\ script["auth"] \in {"tests", "serving", "stopping"} => "mfa" \in tables
    /\ script["auth"] # "broker"

\* a script that has run its tests too often is over
TestsLeft == script["auth"] = "exited" \/ failed < MaxTests

StartupInv ==
    /\ TypeOK
    /\ TestsLeft
    /\ ThreadsLive
    /\ LockHeld
    /\ ConnectionCached
    /\ TablesFirst

-----------------------------------------------------------------------------
(* The databases, RabbitMQ and the scripts *)

LEMMA OutsideKeeps ==
    ASSUME StartupInv, (\E h \in Hosts : PostgresUp(h)) \/ RabbitUp \/ RabbitCrashes
    PROVE  StartupInv'
<1>1. UNCHANGED <<scripts, pc, broker>>
  BY DEF PostgresUp, RabbitUp, RabbitCrashes
<1>2. open' \subseteq open
  BY DEF PostgresUp, RabbitUp, RabbitCrashes
<1>3. TypeOK'
  <2>1. /\ postgres' \subseteq Hosts
        /\ rabbit' \in {"down", "epmd", "up"}
        /\ crashes' \in 0..MaxCrashes
    BY CountAssumption
    DEF StartupInv, TypeOK, PostgresUp, RabbitUp, RabbitCrashes, CountAssumption
  <2>2. QED
    BY <1>1, <1>2, <2>1 DEF StartupInv, TypeOK, scripts, broker
<1>4. QED
  BY <1>1, <1>2, <1>3
  DEF StartupInv, TestsLeft, ThreadsLive, LockHeld, ConnectionCached, TablesFirst,
      scripts, broker

(* A script that waits or creates tables does not start or stop threads. *)
LEMMA WaitedKeeps ==
    ASSUME StartupInv, NEW h \in Hosts, Waited(h)
    PROVE  StartupInv'
<1>1. /\ script[h] \in {"db", "broker", "risk", "mfa"}
      /\ script' = [script EXCEPT ![h] = AfterWait(h)]
      /\ AfterWait(h) \in {"tables", "mfa", "tests"}
      /\ UNCHANGED <<postgres, rabbit, tables, failed, pc, lock, connection, held,
                     open, crashes>>
  BY DEF Waited, Ready, AfterWait, broker
<1>2. TypeOK'
  BY <1>1 DEF StartupInv, TypeOK
<1>3. TestsLeft' /\ ThreadsLive' /\ LockHeld' /\ ConnectionCached'
  BY <1>1 DEF StartupInv, TypeOK, TestsLeft, ThreadsLive, LockHeld, ConnectionCached, Hosts
<1>4. TablesFirst'
  BY <1>1 DEF StartupInv, TypeOK, TablesFirst, Waited, Ready, AfterWait, Hosts
<1>5. QED
  BY <1>2, <1>3, <1>4 DEF StartupInv

LEMMA CreateTablesKeeps ==
    ASSUME StartupInv, NEW h \in Hosts, CreateTables(h)
    PROVE  StartupInv'
<1>1. /\ script[h] = "tables"
      /\ UNCHANGED <<postgres, rabbit, failed, pc, lock, connection, held, open,
                     crashes>>
      /\ \/ /\ tables' = tables \cup {h}
            /\ script' = [script EXCEPT ![h] = AfterTables(h)]
         \/ /\ script' = [script EXCEPT ![h] = "exited"]
            /\ tables' = tables
  BY DEF CreateTables, FailedTables, broker
<1>2. AfterTables(h) \in {"risk", "serving", "broker"}
  BY DEF AfterTables, Hosts
<1>3. TypeOK'
  BY <1>1, <1>2 DEF StartupInv, TypeOK
<1>4. TestsLeft' /\ LockHeld' /\ ConnectionCached'
  BY <1>1 DEF StartupInv, TypeOK, TestsLeft, LockHeld, ConnectionCached, Hosts
<1>5. ThreadsLive'
  BY <1>1 DEF StartupInv, TypeOK, ThreadsLive, AfterTables, Hosts
<1>6. TablesFirst'
  BY <1>1 DEF StartupInv, TypeOK, TablesFirst, AfterTables, Hosts
<1>7. QED
  BY <1>3, <1>4, <1>5, <1>6 DEF StartupInv

LEMMA TestsKeep ==
    ASSUME StartupInv, NEW h \in Hosts, TestsPass(h) \/ TestsFail(h) \/ Shutdown(h)
    PROVE  StartupInv'
<1>1. CASE TestsPass(h)
  <2>1. TypeOK'
    BY <1>1 DEF StartupInv, TypeOK, TestsPass, Threads, broker
  <2>2. TestsLeft' /\ LockHeld' /\ ConnectionCached' /\ ThreadsLive'
    BY <1>1
    DEF StartupInv, TypeOK, TestsLeft, LockHeld, ConnectionCached, ThreadsLive,
        TestsPass, Hosts, Threads, broker
  <2>3. TablesFirst'
    BY <1>1 DEF StartupInv, TypeOK, TablesFirst, TestsPass, Hosts
  <2>4. QED
    BY <2>1, <2>2, <2>3 DEF StartupInv
<1>2. CASE TestsFail(h)
  <2>1. TypeOK' /\ TestsLeft'
    BY <1>2, CountAssumption
    DEF StartupInv, TypeOK, TestsLeft, TestsFail, LastTest, Hosts, broker, CountAssumption
  <2>2. LockHeld' /\ ConnectionCached' /\ ThreadsLive' /\ TablesFirst'
    BY <1>2
    DEF StartupInv, TypeOK, LockHeld, ConnectionCached, ThreadsLive, TablesFirst,
        TestsFail, Hosts, broker
  <2>3. QED
    BY <2>1, <2>2 DEF StartupInv
<1>3. CASE Shutdown(h)
  <2>1. TypeOK' /\ TestsLeft'
    BY <1>3 DEF StartupInv, TypeOK, TestsLeft, Shutdown, Hosts, Threads, broker
  <2>2. LockHeld' /\ ConnectionCached' /\ ThreadsLive'
    BY <1>3
    DEF StartupInv, TypeOK, LockHeld, ConnectionCached, ThreadsLive, Shutdown, Hosts,
        Threads, broker
  <2>3. TablesFirst'
    BY <1>3 DEF StartupInv, TypeOK, TablesFirst, Shutdown, Hosts
  <2>4. QED
    BY <2>1, <2>2, <2>3 DEF StartupInv
<1>4. QED
  BY <1>1, <1>2, <1>3

LEMMA ProcessEndsKeeps ==
    ASSUME StartupInv, ProcessEnds
    PROVE  StartupInv'
<1>1. TypeOK' /\ TestsLeft'
  BY DEF StartupInv, TypeOK, TestsLeft, ProcessEnds, Hosts
<1>2. LockHeld' /\ ConnectionCached' /\ ThreadsLive'
  BY NoneAssumption
  DEF StartupInv, TypeOK, LockHeld, ConnectionCached, ThreadsLive, ProcessEnds, Hosts,
      NoneAssumption
<1>3. TablesFirst'
  BY DEF StartupInv, TypeOK, TablesFirst, ProcessEnds, Hosts
<1>4. QED
  BY <1>1, <1>2, <1>3 DEF StartupInv

-----------------------------------------------------------------------------
(* The two threads in RabbitBroker *)

LEMMA ThreadKeeps ==
    ASSUME StartupInv, NEW t \in Threads, ThreadNext(t)
    PROVE  StartupInv'
<1>1. UNCHANGED <<postgres, rabbit, scripts, crashes>>
  BY DEF ThreadNext, Check, Acquire, Recheck, Connect
<1>2. TestsLeft' /\ TablesFirst'
  BY <1>1 DEF StartupInv, TestsLeft, TablesFirst, scripts
<1>3. ThreadsLive'
  <2>1. pc[t] # "none" /\ \A s \in Threads \ {t} : pc'[s] = pc[s]
    BY DEF StartupInv, TypeOK, ThreadNext, Check, Acquire, Recheck, Connect
  <2>2. QED
    BY <1>1, <2>1 DEF StartupInv, ThreadsLive, Threads, scripts
<1>4. TypeOK' /\ LockHeld' /\ ConnectionCached'
  <2>1. CASE Check(t)
    BY <2>1, <1>1
    DEF StartupInv, TypeOK, LockHeld, ConnectionCached, Check, scripts, broker
  <2>2. CASE Acquire(t)
    BY <2>2, <1>1, NoneAssumption
    DEF StartupInv, TypeOK, LockHeld, ConnectionCached, Acquire, scripts, broker,
        NoneAssumption
  <2>3. CASE Recheck(t)
    BY <2>3, <1>1, NoneAssumption
    DEF StartupInv, TypeOK, LockHeld, ConnectionCached, Recheck, AfterLock, scripts,
        broker, NoneAssumption
  <2>4. CASE Connect(t)
    BY <2>4, <1>1, NoneAssumption
    DEF StartupInv, TypeOK, LockHeld, ConnectionCached, Connect, Released, scripts,
        broker, NoneAssumption
  <2>5. QED
    BY <2>1, <2>2, <2>3, <2>4 DEF ThreadNext
<1>5. QED
  BY <1>2, <1>3, <1>4 DEF StartupInv

LEMMA UseKeeps ==
    ASSUME StartupInv, Consume \/ ConsumerLost \/ Stop
    PROVE  StartupInv'
<1>1. UNCHANGED <<postgres, rabbit, scripts, broker, open, crashes>>
  BY DEF Consume, ConsumerLost, Stop
<1>2. /\ pc' \in [Threads -> {"none", "check", "lock", "recheck", "connect", "use",
                              "consuming", "returned", "raised"}]
      /\ \A t \in Threads : pc'[t] = "none" <=> pc[t] = "none"
      /\ \A t \in Threads : pc'[t] \in {"recheck", "connect"}
                                <=> pc[t] \in {"recheck", "connect"}
      /\ \A t \in Threads : pc'[t] = "connect" => pc[t] = "connect"
  <2>1. CASE Consume
    BY <2>1 DEF StartupInv, TypeOK, Consume, Threads
  <2>2. CASE ConsumerLost
    BY <2>2 DEF StartupInv, TypeOK, ConsumerLost, Threads
  <2>3. CASE Stop
    BY <2>3 DEF StartupInv, TypeOK, Stop, Threads
  <2>4. QED
    BY <2>1, <2>2, <2>3
<1>3. TypeOK'
  BY <1>1, <1>2 DEF StartupInv, TypeOK, scripts, broker
<1>4. TestsLeft' /\ ThreadsLive' /\ TablesFirst'
  BY <1>1, <1>2 DEF StartupInv, TestsLeft, ThreadsLive, TablesFirst, Threads, scripts
<1>5. LockHeld' /\ ConnectionCached'
  BY <1>1, <1>2 DEF StartupInv, LockHeld, ConnectionCached, broker
<1>6. QED
  BY <1>3, <1>4, <1>5 DEF StartupInv

-----------------------------------------------------------------------------
(* Every step *)

LEMMA StartupInvariant == Spec => []StartupInv
<1>1. Init => StartupInv
  BY CountAssumption, NoneAssumption
  DEF Init, StartupInv, TypeOK, TestsLeft, ThreadsLive, LockHeld, ConnectionCached,
      TablesFirst, Hosts, Threads, CountAssumption, NoneAssumption
<1>2. ASSUME StartupInv, [Next]_vars
      PROVE  StartupInv'
  <2>1. CASE UNCHANGED vars
    BY <1>2, <2>1
    DEF StartupInv, TypeOK, TestsLeft, ThreadsLive, LockHeld, ConnectionCached,
        TablesFirst, vars, scripts, broker
  <2>2. CASE \E h \in Hosts : PostgresUp(h) \/ ScriptNext(h) \/ Shutdown(h)
    BY <1>2, <2>2, OutsideKeeps, WaitedKeeps, CreateTablesKeeps, TestsKeep DEF ScriptNext
  <2>3. CASE \E t \in Threads : ThreadNext(t)
    BY <1>2, <2>3, ThreadKeeps
  <2>4. CASE RabbitUp \/ RabbitCrashes
    BY <1>2, <2>4, OutsideKeeps
  <2>5. CASE Consume \/ ConsumerLost \/ Stop
    BY <1>2, <2>5, UseKeeps
  <2>6. CASE ProcessEnds
    BY <1>2, <2>6, ProcessEndsKeeps
  <2>7. QED
    BY <1>2, <2>1, <2>2, <2>3, <2>4, <2>5, <2>6 DEF Next
<1>3. QED
  BY <1>1, <1>2, PTL DEF Spec

(* Every variable keeps its shape: among it, the test runs of the Auth         *)
(* Service never exceed their number (entrypoint.sh).                          *)
THEOREM TypeCorrect == Spec => []TypeOK
<1>1. StartupInv => TypeOK
  BY DEF StartupInv
<1>2. QED
  BY <1>1, StartupInvariant, PTL

(* However the two threads interleave, RabbitBroker opens one connection, and  *)
(* who has one has the cached one (get_connection).                            *)
THEOREM Connections == Spec => []OneConnection
<1>1. ASSUME StartupInv
      PROVE  OneConnection
  <2>1. Cardinality(open) <= 1
    <3>1. open = {} \/ open = {connection}
      BY <1>1 DEF StartupInv, ConnectionCached
    <3>2. Cardinality({}) = 0 /\ Cardinality({connection}) = 1
      BY FS_EmptySet, FS_Singleton
    <3>3. QED
      BY <3>1, <3>2
  <2>2. QED
    BY <1>1, <2>1 DEF StartupInv, ConnectionCached, OneConnection
<1>2. QED
  BY <1>1, StartupInvariant, PTL

(* The Auth Service is tested, and serves, only when the three databases have  *)
(* their tables (entrypoint.sh of the three services).                         *)
THEOREM Readiness == Spec => []CalledWhenReady
<1>1. ASSUME StartupInv
      PROVE  CalledWhenReady
  BY <1>1 DEF StartupInv, TypeOK, TablesFirst, CalledWhenReady, Hosts
<1>2. QED
  BY <1>1, StartupInvariant, PTL
===============================================================================
