------------------------------- MODULE Startup --------------------------------
(***************************************************************************)
(* From docker-compose up to the end of the Risk Engine: the entrypoint.sh *)
(* of the three services, which wait for databases, ports and tests, and   *)
(* the two threads of the Risk Engine that share RabbitBroker: the         *)
(* consumer, started by lifespan, and the main thread in stop().           *)
(*                                                                         *)
(* What is tested when is not modelled, only that a test run passes or     *)
(* fails, and what it cannot pass without.                                 *)
(***************************************************************************)
EXTENDS Naturals, FiniteSets

CONSTANTS
    MaxTests,    \* test runs that the script of the Auth Service allows
    MaxCrashes,  \* bound on the crashes of RabbitMQ
    None

ASSUME CountAssumption == MaxTests \in Nat \ {0} /\ MaxCrashes \in Nat

Hosts   == {"auth", "mfa", "risk"}
Threads == {"consumer", "main"}

ASSUME NoneAssumption == None \notin Threads

VARIABLES
    postgres,    \* hosts whose database accepts connections
    rabbit,      \* RabbitMQ: its ports 4369 (epmd) and 5672 (AMQP) open in turn
    script,      \* script[h]: where the entrypoint.sh of host h is
    tables,      \* hosts whose tables exist
    failed,      \* test runs of the Auth Service that have failed
    pc,          \* pc[t]: where thread t of the Risk Engine is
    lock,        \* who holds RabbitBroker._lock, or None
    connection,  \* RabbitBroker._connection: who has opened it, or None
    held,        \* held[t]: what get_connection has returned to thread t
    open,        \* connections that RabbitMQ knows, by who has opened them
    crashes      \* crashes of RabbitMQ so far

scripts == <<script, tables, failed>>
broker  == <<lock, connection, held>>
vars    == <<postgres, rabbit, scripts, pc, broker, open, crashes>>

(***************************************************************************)
(* A script waits for its database ("db"), creates the tables ("tables"),  *)
(* waits for port 4369 ("broker"), 8001 ("risk") or 8002 ("mfa"), runs the *)
(* tests and becomes the server, which for the Risk Engine ends in the     *)
(* lifespan's shutdown ("stopping").  A thread reads _connection           *)
(* ("check"), waits for the lock ("lock"), reads again ("recheck"),        *)
(* connects and uses the connection ("use"), the consumer for good.        *)
(***************************************************************************)
TypeOK ==
    /\ postgres \subseteq Hosts
    /\ rabbit \in {"down", "epmd", "up"}
    /\ script \in [Hosts -> {"db", "tables", "broker", "risk", "mfa", "tests",
                             "serving", "stopping", "exited"}]
    /\ tables \subseteq Hosts
    /\ failed \in 0..MaxTests
    /\ pc \in [Threads -> {"none", "check", "lock", "recheck", "connect", "use",
                           "consuming", "returned", "raised"}]
    /\ {lock, connection} \subseteq Threads \cup {None}
    /\ held \in [Threads -> Threads \cup {None}]
    /\ open \subseteq Threads
    /\ crashes \in 0..MaxCrashes

Init ==
    /\ postgres = {}
    /\ rabbit = "down"
    /\ script = [h \in Hosts |-> "db"]
    /\ tables = {}
    /\ failed = 0
    /\ pc = [t \in Threads |-> "none"]
    /\ lock = None
    /\ connection = None
    /\ held = [t \in Threads |-> None]
    /\ open = {}
    /\ crashes = 0

-----------------------------------------------------------------------------
(* Helpers; each operator named ...Bug is a plausible slip in the definition *)
(* that follows it, and nothing refers to it.                                *)

\* whether what the script of host h waits for is there
Ready(h) ==
    CASE script[h] = "db"     -> h \in postgres
      [] script[h] = "broker" -> rabbit # "down"
      [] script[h] = "risk"   -> script["risk"] = "serving"
      [] script[h] = "mfa"    -> script["mfa"] = "serving"
      [] OTHER                -> FALSE

\* where a script goes on that has waited
AfterWait(h) ==
    CASE script[h] = "db"   -> "tables"
      [] script[h] = "risk" -> "mfa"
      [] OTHER              -> "tests"

AfterTablesBug(h) ==    \* the Risk Engine and the MFA Handler wait for each other
    CASE h = "auth" -> "risk" [] h = "mfa" -> "risk" [] h = "risk" -> "mfa"
\* and one that has created its tables
AfterTables(h) ==
    CASE h = "auth" -> "risk" [] h = "mfa" -> "serving" [] h = "risk" -> "broker"

FailedTablesBug(h) ==   \* without set -e
    AfterTables(h)
\* and one that has not
FailedTables(h) == "exited"

LastTestBug(h) ==       \* tries again for ever
    h = "risk"
\* whether a test run that fails ends the script
LastTest(h) == h = "risk" \/ failed = MaxTests - 1

AfterLockBug(t) ==      \* does not read _connection again
    "connect"
\* what the holder of the lock does
AfterLock(t) == IF connection = None THEN "connect" ELSE "use"

ReleasedBug ==          \* released by hand, after the connection is there
    lock
\* the lock when connecting raises: "with" has released it
Released == None

-----------------------------------------------------------------------------
(* Databases and RabbitMQ *)

PostgresUp(h) ==
    /\ h \notin postgres
    /\ postgres' = postgres \cup {h}
    /\ UNCHANGED <<rabbit, scripts, pc, broker, open, crashes>>

RabbitUp ==
    /\ \/ rabbit = "down" /\ rabbit' = "epmd"
       \/ rabbit = "epmd" /\ rabbit' = "up"
    /\ UNCHANGED <<postgres, scripts, pc, broker, open, crashes>>

RabbitCrashes ==
    /\ rabbit # "down"
    /\ crashes < MaxCrashes
    /\ crashes' = crashes + 1
    /\ rabbit' = "down"
    /\ open' = {}
    /\ UNCHANGED <<postgres, scripts, pc, broker>>

-----------------------------------------------------------------------------
(* entrypoint.sh *)

Waited(h) ==
    /\ Ready(h)
    /\ script' = [script EXCEPT ![h] = AfterWait(h)]
    /\ UNCHANGED <<postgres, rabbit, tables, failed, pc, broker, open, crashes>>

CreateTables(h) ==
    /\ script[h] = "tables"
    /\ \/ /\ tables' = tables \cup {h}
          /\ script' = [script EXCEPT ![h] = AfterTables(h)]
       \/ /\ script' = [script EXCEPT ![h] = FailedTables(h)]
          /\ UNCHANGED tables
    /\ UNCHANGED <<postgres, rabbit, failed, pc, broker, open, crashes>>

\* those of the Auth Service log in, and publish a login that fails.  The Risk
\* Engine's lifespan starts the consumer thread
TestsPass(h) ==
    /\ script[h] = "tests"
    /\ h = "auth" => /\ script["risk"] = "serving"
                     /\ script["mfa"] = "serving"
                     /\ rabbit = "up"
    /\ script' = [script EXCEPT ![h] = "serving"]
    /\ pc' = IF h = "risk" THEN [pc EXCEPT !["consumer"] = "check"] ELSE pc
    /\ UNCHANGED <<postgres, rabbit, tables, failed, broker, open, crashes>>

TestsFail(h) ==
    /\ script[h] = "tests"
    /\ script' = IF LastTest(h) THEN [script EXCEPT ![h] = "exited"] ELSE script
    /\ failed' = IF h = "auth" THEN failed + 1 ELSE failed
    /\ UNCHANGED <<postgres, rabbit, tables, pc, broker, open, crashes>>

\* the container is stopped; the Risk Engine's lifespan calls stop()
Shutdown(h) ==
    /\ script[h] = "serving"
    /\ script' = [script EXCEPT ![h] = IF h = "risk" THEN "stopping" ELSE "exited"]
    /\ pc' = IF h = "risk" THEN [pc EXCEPT !["main"] = "check"] ELSE pc
    /\ UNCHANGED <<postgres, rabbit, tables, failed, broker, open, crashes>>

\* the process ends, the daemon thread with it
ProcessEnds ==
    /\ script["risk"] = "stopping"
    /\ pc["main"] \in {"returned", "raised"}
    /\ script' = [script EXCEPT !["risk"] = "exited"]
    /\ pc' = [t \in Threads |-> "none"]
    /\ lock' = None
    /\ connection' = None
    /\ held' = [t \in Threads |-> None]
    /\ open' = {}
    /\ UNCHANGED <<postgres, rabbit, tables, failed, crashes>>

-----------------------------------------------------------------------------
(* RabbitBroker *)

\* get_connection without the lock
Check(t) ==
    /\ pc[t] = "check"
    /\ pc' = [pc EXCEPT ![t] = IF connection = None THEN "lock" ELSE "use"]
    /\ held' = [held EXCEPT ![t] = connection]
    /\ UNCHANGED <<postgres, rabbit, scripts, lock, connection, open, crashes>>

Acquire(t) ==
    /\ pc[t] = "lock"
    /\ lock = None
    /\ lock' = t
    /\ pc' = [pc EXCEPT ![t] = "recheck"]
    /\ UNCHANGED <<postgres, rabbit, scripts, connection, held, open, crashes>>

Recheck(t) ==
    /\ pc[t] = "recheck"
    /\ pc' = [pc EXCEPT ![t] = AfterLock(t)]
    /\ IF AfterLock(t) = "use"
       THEN lock' = None /\ held' = [held EXCEPT ![t] = connection]
       ELSE UNCHANGED <<lock, held>>
    /\ UNCHANGED <<postgres, rabbit, scripts, connection, open, crashes>>

\* BlockingConnection, tried once: it needs port 5672
Connect(t) ==
    /\ pc[t] = "connect"
    /\ \/ /\ rabbit = "up"
          /\ connection' = t
          /\ open' = open \cup {t}
          /\ held' = [held EXCEPT ![t] = t]
          /\ lock' = None
          /\ pc' = [pc EXCEPT ![t] = "use"]
       \/ /\ rabbit # "up"
          /\ lock' = Released
          /\ pc' = [pc EXCEPT ![t] = "raised"]
          /\ UNCHANGED <<connection, held, open>>
    /\ UNCHANGED <<postgres, rabbit, scripts, crashes>>

\* consume goes into its loop, if the connection is still one
Consume ==
    /\ pc["consumer"] = "use"
    /\ pc' = [pc EXCEPT !["consumer"] =
           IF held["consumer"] \in open THEN "consuming" ELSE "raised"]
    /\ UNCHANGED <<postgres, rabbit, scripts, broker, open, crashes>>

\* and start_consuming raises when it is not any more
ConsumerLost ==
    /\ pc["consumer"] = "consuming"
    /\ held["consumer"] \notin open
    /\ pc' = [pc EXCEPT !["consumer"] = "raised"]
    /\ UNCHANGED <<postgres, rabbit, scripts, broker, open, crashes>>

\* stop opens a channel of its own, on which nobody consumes, and closes it.
\* pika's connections are not for two threads: if the consumer is on it, either
\* may fail
Stop ==
    /\ pc["main"] = "use"
    /\ \/ /\ held["main"] \in open
          /\ pc' = [pc EXCEPT !["main"] = "returned"]
       \/ /\ held["main"] \notin open \/ pc["consumer"] = "consuming"
          /\ pc' = [pc EXCEPT !["main"] = "raised"]
       \/ /\ held["main"] \in open /\ pc["consumer"] = "consuming"
          /\ pc' = [pc EXCEPT !["main"] = "returned", !["consumer"] = "raised"]
    /\ UNCHANGED <<postgres, rabbit, scripts, broker, open, crashes>>

-----------------------------------------------------------------------------
ScriptNext(h) ==
    Waited(h) \/ CreateTables(h) \/ TestsPass(h) \/ TestsFail(h)

ThreadNext(t) ==
    Check(t) \/ Acquire(t) \/ Recheck(t) \/ Connect(t)

Next ==
    \/ \E h \in Hosts : PostgresUp(h) \/ ScriptNext(h) \/ Shutdown(h)
    \/ \E t \in Threads : ThreadNext(t)
    \/ RabbitUp \/ RabbitCrashes
    \/ Consume \/ ConsumerLost \/ Stop \/ ProcessEnds

Spec == Init /\ [][Next]_vars

(***************************************************************************)
(* Processes and threads run, databases and RabbitMQ come up, connecting   *)
(* and test runs end one way or the other.  Nothing makes a container stop *)
(* or RabbitMQ crash.                                                      *)
(***************************************************************************)
Fairness ==
    /\ \A h \in Hosts : WF_vars(PostgresUp(h)) /\ WF_vars(ScriptNext(h))
    /\ \A t \in Threads : WF_vars(ThreadNext(t))
    /\ WF_vars(RabbitUp)
    /\ WF_vars(Consume) /\ WF_vars(ConsumerLost)
    /\ WF_vars(Stop) /\ WF_vars(ProcessEnds)

FairSpec == Spec /\ Fairness

-----------------------------------------------------------------------------
(* Properties *)

\* RabbitBroker opens one connection, and whoever has got one has got the one
\* that is cached: also when the Risk Engine is stopped while its consumer is
\* still connecting (get_connection).
OneConnection ==
    /\ Cardinality(open) <= 1
    /\ \A t \in Threads : held[t] # None => held[t] = connection

\* Once the tests of the Auth Service run, or it serves, the tables of all
\* three databases are there: it waits for two ports, which open after the
\* scripts behind them have created theirs (the three entrypoint.sh).
CalledWhenReady ==
    script["auth"] \in {"tests", "serving"} => tables = Hosts

\* The scripts do not wait for each other for ever: each serves or gives up,
\* or, of the Auth Service, one of the two it waits for has gone (the three
\* entrypoint.sh).
StartupEnds ==
    LET Over(h) == script[h] \in {"serving", "stopping", "exited"}
        Gone(h) == script[h] \in {"stopping", "exited"}
    IN /\ <>Over("risk") /\ <>Over("mfa")
       /\ <>(Over("auth") \/ Gone("risk") \/ Gone("mfa"))

\* The shutdown of the Risk Engine ends, whatever the consumer thread is doing
\* with the lock or the connection, and whether RabbitMQ is there or not
\* (lifespan, RabbitBroker.stop).
ShutdownEnds == (script["risk"] = "stopping") ~> (script["risk"] = "exited")

-----------------------------------------------------------------------------
(* What the repository says of itself and the code does not do *)

\* "Wait for RabbitMQ connection" (entrypoint.sh of the Risk Engine): a Risk
\* Engine that serves comes to consume logins, unless it is stopped.
ServingConsumes ==
    (script["risk"] = "serving") ~>
        (pc["consumer"] = "consuming" \/ script["risk"] # "serving")
===============================================================================
