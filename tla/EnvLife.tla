------------------------------ MODULE EnvLife ------------------------------
(***************************************************************************)
(* The life of an environment: ShoreEnv's init, start, load, stop, close,  *)
(* restart and statistics (shore_env.cpp, tpcb_env.cpp) as the commands    *)
(* kits and restore call them (kits_cmd.cpp, restore_cmd.cpp), with the    *)
(* workers and clients that live in it and the files that outlive it.      *)
(*                                                                         *)
(* The main thread runs a command, which is a sequence of steps.  A second *)
(* thread, the shell, may call the rest of db_iface ("Interface of basic   *)
(* shell commands for dbs"); no command of the repository does.  A command *)
(* may be killed at any step; the next one finds what it left on disk.     *)
(*                                                                         *)
(* Two threads meet in the mutexes _init_mutex, _load_mutex and            *)
(* _statmap_mutex, which are variables here, and in the flags, which the   *)
(* code reads and writes without them.  How a worker gets its requests is  *)
(* the subject of TrxWorker and how a load proceeds that of Loader.  Here  *)
(* a worker serves the clients that wait for it, one batch at a time, and  *)
(* may go to sleep over one; a step of the load may end the program.       *)
(***************************************************************************)
EXTENDS Naturals, Sequences, FiniteSets

CONSTANTS
  WorkerCnt,    \* db-workers
  NumThreads,   \* --threads, the clients
  MaxCommands,  \* commands that are run one after the other
  MaxCalls      \* bound: calls of the shell during a command, each at most once

ASSUME EnvLifeAssumption ==
  /\ WorkerCnt \in Nat \ {0}
  /\ NumThreads \in Nat \ {0}
  /\ MaxCommands \in Nat
  /\ MaxCalls \in Nat

Workers == 0 .. WorkerCnt - 1
Clients == 0 .. NumThreads - 1
Callers == {"main", "shell"}
Free == "free"

\* What a command is: its name, --load, whether it has a --duration, or else --trxs, which
\* may be "few", fewer than --threads, or neither, and of the restore command ~--eager and
\* --backup.  Kits without a number runs no benchmark; a restore always runs it, and then
\* has 0, which is few.
Commands == {c \in [name : {"kits", "restore"}, load : BOOLEAN,
                    bench : {"none", "few", "trxs", "time"},
                    archive : BOOLEAN, backup : BOOLEAN] :
               IF c.name = "kits"
               THEN ~c.archive /\ ~c.backup /\ (c.bench = "few" => NumThreads > 1)
               ELSE c.bench # "none"}

VARIABLES
  cmd,          \* the command
  status,       \* "idle", "up" or how it ended: "exit", "killed", "abort" or "wild"
  left,         \* how many more commands are run
  todo,         \* todo[c]: the steps caller c has still to make
  calls,        \* history: what the shell has called
  opened,       \* history: how often the storage manager was started in this command
  initialized,  \* _initialized
  loaded,       \* _loaded
  dbc,          \* _dbc
  pssm,         \* _pssm: "null", "open" or "deleted"
  measure,      \* _measure
  initMx,       \* who holds _init_mutex
  loadMx,       \* who holds _load_mutex
  statMx,       \* who holds _statmap_mutex
  pool,         \* pool[i]: element i of _workers and the place of its thread
  statmap,      \* _statmap: the workers whose counters it points to
  client,       \* client[k]: where client k is
  failer,       \* where the failure thread of the restore command is
  disk          \* the database on disk: "none", "empty", "tables" or "full"

\* trxsPerThread is 0.
NoShare == cmd.bench = "few"

flags   == <<initialized, loaded, dbc, pssm, measure>>
mutexes == <<initMx, loadMx, statMx>>
threads == <<pool, statmap, client, failer>>
command == <<cmd, left>>
history == <<calls, opened>>
vars == <<command, status, todo, history, flags, mutexes, threads, disk>>

-----------------------------------------------------------------------------
StartSteps == <<"start_sm", "mount", "fids", "workers">>
StopSteps == <<"stop", "join">>
CloseSteps == StopSteps \o <<"close_sm">>
\* restart(): what its calls return is ignored, and conf() only prints.
RestartSteps == StopSteps \o StartSteps

When(cond, steps) == IF cond THEN steps ELSE <<>>

\* KitsCommand::run() and RestoreCmd::run(); init() is the first part of each.
Program(c) ==
  <<"init", "emptyPath">> \o StartSteps
  \o When(c.load, <<"load", "create_tables", "load_data">>)
  \o When(c.name = "restore", When(c.archive, <<"archiveLog">>)
                              \o When(c.backup, <<"take_backup">>)
                              \o <<"forkFailure">>)
  \o When(c.bench # "none",
          <<"reset_stats", "forkClients", "measure", "print_throughput", "joinClients">>)
  \o When(c.name = "restore", <<"joinFailure">>)
  \o CloseSteps \o <<"exit">>

\* The calls of the shell.
CallSteps == [
  statistics |-> <<"statistics", "statistics2">>,
  checkpoint |-> <<"checkpoint">>,
  stop       |-> StopSteps,
  close      |-> CloseSteps,
  restart    |-> RestartSteps]

\* The steps there are.
Steps == {
  "init", "emptyPath", "start_sm", "mount", "fids", "workers",
  "load", "create_tables", "load_data",
  "archiveLog", "take_backup", "forkFailure", "joinFailure",
  "reset_stats", "forkClients", "measure", "print_throughput", "joinClients",
  "stop", "join", "close_sm", "exit",
  "statistics", "statistics2", "checkpoint"}

\* What is left of a caller's steps after the next one; and without a whole call,
\* which has returned at its first step.
Rest(c) == Tail(todo[c])
Without(c, steps) == SubSeq(todo[c], Len(steps) + 1, Len(todo[c]))

At(c, step) == status = "up" /\ todo[c] # <<>> /\ Head(todo[c]) = step
Goes(c, steps) == todo' = [todo EXCEPT ![c] = steps]

\* An assertion or W_COERCE ends the program; so may the use of what was deleted.
EndsIn(how) ==
  /\ status' = how
  /\ UNCHANGED <<command, todo, history, flags, mutexes, threads, disk>>

\* A worker's thread: it begins, waits for input and serves it, is about to sleep, sleeps
\* in condex_sleep(), and leaves; its owner deletes it.
WorkerStates ==
  {"none", "init", "active", "drowsy", "asleep", "fini", "stopped", "deleted"}

TypeOK ==
  /\ cmd \in Commands
  /\ status \in {"idle", "up", "exit", "killed", "abort", "wild"}
  /\ left \in 0 .. MaxCommands
  /\ todo \in [Callers -> Seq(Steps)]
  /\ calls \subseteq DOMAIN CallSteps
  /\ opened \in Nat
  /\ initialized \in BOOLEAN /\ loaded \in BOOLEAN
  /\ dbc \in {"UNDEF", "STOPPED"}
  /\ pssm \in {"null", "open", "deleted"}
  /\ measure \in {"UNDEF", "MEASURE", "PAUSE", "DONE"}
  /\ initMx \in Callers \cup {Free} /\ loadMx \in Callers \cup {Free}
  /\ statMx \in Callers \cup {Free}
  /\ pool \in [Workers -> WorkerStates]
  /\ statmap \in SUBSET Workers
  /\ client \in [Clients -> {"none", "new", "wait", "served", "stuck", "done"}]
  /\ failer \in {"none", "sleep", "done"}
  /\ disk \in {"none", "empty", "tables", "full"}

Init ==
  /\ cmd = [name |-> "kits", load |-> FALSE, bench |-> "none",
            archive |-> FALSE, backup |-> FALSE]
  /\ status = "idle"
  /\ left = MaxCommands
  /\ todo = [c \in Callers |-> <<>>]
  /\ calls = {} /\ opened = 0
  /\ initialized = FALSE /\ loaded = FALSE
  /\ dbc = "UNDEF" /\ pssm = "null" /\ measure = "UNDEF"
  /\ initMx = Free /\ loadMx = Free /\ statMx = Free
  /\ pool = [i \in Workers |-> "none"]
  /\ statmap = {}
  /\ client = [k \in Clients |-> "none"]
  /\ failer = "none"
  /\ disk = "none"

\* A command is typed in when the last one is over, however it ended; its environment is
\* new (the constructor of ShoreEnv).
TypeCommand ==
  /\ status # "up" /\ left > 0
  /\ left' = left - 1
  /\ cmd' \in Commands
  /\ status' = "up"
  /\ todo' = [main |-> Program(cmd'), shell |-> <<>>]
  /\ calls' = {} /\ opened' = 0
  /\ initialized' = FALSE /\ loaded' = FALSE
  /\ dbc' = "UNDEF" /\ pssm' = "null" /\ measure' = "UNDEF"
  /\ initMx' = Free /\ loadMx' = Free /\ statMx' = Free
  /\ pool' = [i \in Workers |-> "none"]
  /\ statmap' = {}
  /\ client' = [k \in Clients |-> "none"]
  /\ failer' = "none"
  /\ UNCHANGED disk

\* The process is killed: what is committed on disk stays.
Kill ==
  /\ status = "up"
  /\ left > 0
  /\ EndsIn("killed")

-----------------------------------------------------------------------------
(* init, start and load *)

\* ShoreEnv::init(): the configuration is read unless the environment is initialized.
InitEnv(c) ==
  /\ At(c, "init") /\ initMx = Free
  /\ Goes(c, Rest(c))
  /\ UNCHANGED <<command, status, history, flags, mutexes, threads, disk>>

\* initShoreEnv(): with --load the logs and the database file are deleted.
EnsureEmptyPath(c) ==
  /\ At(c, "emptyPath")
  /\ disk' = IF cmd.load THEN "none" ELSE disk
  /\ Goes(c, Rest(c))
  /\ UNCHANGED <<command, status, history, flags, mutexes, threads>>

\* start_sm(): the storage manager is started, or start() fails.
StartSm(c) ==
  /\ At(c, "start_sm")
  /\ IF initialized
     THEN Goes(c, Without(c, StartSteps)) /\ UNCHANGED <<pssm, opened>>
     ELSE Goes(c, Rest(c)) /\ pssm' = "open" /\ opened' = opened + 1
  /\ UNCHANGED <<command, status, calls, initialized, loaded, dbc, measure, mutexes,
                 threads, disk>>

\* Mutant of Mount: a new volume counts as loaded.
MountLoaded(c) ==
  /\ At(c, "mount") /\ loadMx = Free
  /\ IF cmd.load THEN disk' = "empty" ELSE UNCHANGED disk
  /\ loaded' = TRUE
  /\ Goes(c, Rest(c))
  /\ UNCHANGED <<command, status, history, initialized, dbc, pssm, measure, mutexes, threads>>

\* start_sm(), under _load_mutex: with _clobber the volume and its catalog are created
\* and the database is not loaded; without, the volume has to be there and the database
\* is taken to be loaded.  A volume that is there already when it is to be created (the
\* shell has closed and restarted the environment) may be refused or formatted again.
Mount(c) ==
  /\ At(c, "mount") /\ loadMx = Free
  /\ \/ /\ cmd.load = (disk # "none") \* refused
        /\ EndsIn("abort")
     \/ /\ cmd.load \/ disk # "none"
        /\ disk' = IF cmd.load THEN "empty" ELSE disk
        /\ loaded' = ~cmd.load
        /\ Goes(c, Rest(c))
        /\ UNCHANGED <<command, status, history, initialized, dbc, pssm, measure, mutexes,
                       threads>>

\* start(): without _clobber the tables' store ids are read from the catalog
\* (load_and_register_fids), where they have to be; then post_init() and conf().
RegisterFids(c) ==
  /\ At(c, "fids")
  /\ IF ~cmd.load /\ disk = "empty"
     THEN EndsIn("abort")
     ELSE /\ Goes(c, Rest(c))
          /\ UNCHANGED <<command, status, history, flags, mutexes, threads, disk>>

\* start(): the environment counts as initialized, and the workers are forked.  There is
\* an assertion that the vector is empty; a release, which has none, goes on with the old
\* workers before the new ones, and that is not modelled.
ForkWorkers(c) ==
  /\ At(c, "workers")
  /\ IF \E i \in Workers : pool[i] # "none"
     THEN EndsIn("abort")
     ELSE /\ initialized' = TRUE
          /\ pool' = [i \in Workers |-> "init"]
          /\ Goes(c, Rest(c))
          /\ UNCHANGED <<command, status, history, loaded, dbc, pssm, measure, mutexes,
                         statmap, client, failer, disk>>

LoadSteps == <<"load", "create_tables", "load_data">>

\* load() takes _load_mutex for the whole load, and returns if it finds it done.
Load(c) ==
  /\ At(c, "load") /\ loadMx = Free
  /\ IF loaded
     THEN Goes(c, Without(c, LoadSteps)) /\ UNCHANGED loadMx
     ELSE Goes(c, Rest(c)) /\ loadMx' = c
  /\ UNCHANGED <<command, status, history, flags, initMx, statMx, threads, disk>>

\* An error in a step of the load, W_COERCE or W_FATAL of a thread that is joined; and the
\* use of the storage manager that the shell has deleted.
LoadFails(c) ==
  /\ At(c, "create_tables") \/ At(c, "load_data")
  /\ IF pssm = "open" THEN EndsIn("abort") ELSE EndsIn("wild")

\* The creator commits the tables before it adds the first rows.  (An error in those ends
\* the program with the tables on disk, as one of a builder in LoadData.)
CreateTables(c) ==
  /\ At(c, "create_tables") /\ pssm = "open"
  /\ disk' = "tables"
  /\ measure' = "MEASURE"
  /\ Goes(c, Rest(c))
  /\ UNCHANGED <<command, status, history, initialized, loaded, dbc, pssm, mutexes, threads>>

\* The builders have come to their ends and are joined (module Loader).
LoadData(c) ==
  /\ At(c, "load_data") /\ pssm = "open"
  /\ disk' = "full"
  /\ measure' = "PAUSE"
  /\ loaded' = TRUE
  /\ loadMx' = Free
  /\ Goes(c, Rest(c))
  /\ UNCHANGED <<command, status, history, initialized, dbc, pssm, initMx, statMx, threads>>

-----------------------------------------------------------------------------
(* stop, close and statistics *)

\* Worker i, if there is one, is told something: a push, or to stop.  Who finds it asleep
\* wakes it; one that is about to sleep has looked already and will not notice.
Told(workers, i) ==
  [j \in Workers |-> IF j = i /\ workers[j] = "asleep" THEN "active" ELSE workers[j]]

\* stop() takes _init_mutex and tells the first worker to stop.  If it was stopped before,
\* ever, it returns 0 at once; if it was not started it fails, and then close() returns too.
Stop(c) ==
  /\ At(c, "stop") /\ initMx = Free
  /\ IF dbc # "STOPPED" /\ initialized
     THEN initMx' = c /\ pool' = Told(pool, 0) /\ Goes(c, Rest(c))
     ELSE /\ UNCHANGED <<initMx, pool>>
          /\ Goes(c, IF dbc # "STOPPED" /\ Len(todo[c]) > 2 /\ todo[c][3] = "close_sm"
                     THEN Without(c, CloseSteps) ELSE Without(c, StopSteps))
  /\ UNCHANGED <<command, status, history, flags, loadMx, statMx, statmap, client, failer, disk>>

\* Mutants of Join: the mutex is kept, for close_sm(); the workers are told to stop and not joined.
JoinKeepsMutex(c) ==
  /\ At(c, "join")
  /\ IF \A i \in Workers : pool[i] \in {"none", "deleted"}
     THEN pool' = [i \in Workers |-> "none"] /\ dbc' = "STOPPED" /\ Goes(c, Rest(c))
     ELSE /\ \E i \in Workers : /\ pool[i] = "stopped"
                                /\ pool' = Told([pool EXCEPT ![i] = "deleted"], i + 1)
          /\ UNCHANGED <<dbc, todo>>
  /\ UNCHANGED <<command, status, history, initialized, loaded, pssm, measure, mutexes,
                 statmap, client, failer, disk>>

JoinNobody(c) ==
  /\ At(c, "join")
  /\ dbc' = "STOPPED"
  /\ initMx' = Free
  /\ Goes(c, Rest(c))
  /\ UNCHANGED <<command, status, history, initialized, loaded, pssm, measure, loadMx,
                 statMx, threads, disk>>

\* It joins the worker that was told and deletes it, and tells the next one; after the last
\* it clears the vector.
Join(c) ==
  /\ At(c, "join")
  /\ \/ /\ \E i \in Workers :
             /\ pool[i] = "stopped" /\ \A j \in 0 .. i - 1 : pool[j] = "deleted"
             /\ pool' = Told([pool EXCEPT ![i] = "deleted"], i + 1)
        /\ UNCHANGED <<dbc, initMx, todo>>
     \/ /\ \A i \in Workers : pool[i] \in {"none", "deleted"}
        /\ pool' = [i \in Workers |-> "none"]
        /\ dbc' = "STOPPED"
        /\ initMx' = Free
        /\ Goes(c, Rest(c))
  /\ UNCHANGED <<command, status, history, initialized, loaded, pssm, measure, loadMx,
                 statMx, statmap, client, failer, disk>>

\* close_sm(), under _init_mutex: _pssm is deleted, and keeps its value.
CloseSm(c) ==
  /\ At(c, "close_sm") /\ initMx = Free
  /\ IF pssm = "deleted"
     THEN EndsIn("wild")
     ELSE /\ pssm' = IF pssm = "open" THEN "deleted" ELSE pssm
          /\ initialized' = FALSE
          /\ Goes(c, Rest(c))
          /\ UNCHANGED <<command, status, history, loaded, dbc, measure, mutexes, threads,
                         disk>>

\* ShoreTPCBEnv::statistics() sums the counters of the threads in _statmap, and keeps its
\* mutex while ShoreEnv::statistics() takes _init_mutex.
Statistics(c) ==
  /\ At(c, "statistics") /\ statMx = Free
  /\ statMx' = c
  /\ Goes(c, Rest(c))
  /\ UNCHANGED <<command, status, history, flags, initMx, loadMx, threads, disk>>

EnvStatistics(c) ==
  /\ At(c, "statistics2") /\ initMx = Free
  /\ statMx' = Free
  /\ Goes(c, Rest(c))
  /\ UNCHANGED <<command, status, history, flags, initMx, loadMx, threads, disk>>

\* checkpoint() calls the storage manager without a look at anything.
Checkpoint(c) ==
  /\ At(c, "checkpoint")
  /\ IF pssm # "open" THEN EndsIn("wild")
     ELSE /\ Goes(c, Rest(c))
          /\ UNCHANGED <<command, status, history, flags, mutexes, threads, disk>>

\* The shell's next call, once the command has started its environment (and, to bound
\* the model, in the last command).
ShellCall(call) ==
  /\ status = "up"
  /\ todo["shell"] = <<>>
  /\ call \notin calls /\ Cardinality(calls) < MaxCalls /\ left = 0
  /\ \A i \in 1 .. Len(todo["main"]) : todo["main"][i] # "workers"
  /\ calls' = calls \cup {call}
  /\ Goes("shell", CallSteps[call])
  /\ UNCHANGED <<command, status, opened, flags, mutexes, threads, disk>>

-----------------------------------------------------------------------------
(* The rest of the commands *)

\* RestoreCmd::run(): the log is archived, a backup taken, and the thread forked that
\* will mark the volume as failed.
PrepareRestore(c) ==
  /\ At(c, "archiveLog") \/ At(c, "take_backup") \/ At(c, "forkFailure")
  /\ IF pssm # "open" /\ ~At(c, "forkFailure")
     THEN EndsIn("wild")
     ELSE /\ failer' = IF At(c, "forkFailure") THEN "sleep" ELSE failer
          /\ Goes(c, Rest(c))
          /\ UNCHANGED <<command, status, history, flags, mutexes, pool, statmap, client, disk>>

\* FailureThread::run(): w_assert0 that the volume is there, and mark it.
FailVolume ==
  /\ status = "up" /\ failer = "sleep"
  /\ IF pssm # "open"
     THEN EndsIn("wild")
     ELSE /\ failer' = "done"
          /\ UNCHANGED <<command, status, todo, history, flags, mutexes, pool, statmap,
                         client, disk>>

JoinFailure(c) ==
  /\ At(c, "joinFailure") /\ failer = "done"
  /\ Goes(c, Rest(c))
  /\ UNCHANGED <<command, status, history, flags, mutexes, threads, disk>>

\* reset_stats() before the clients run, and print_throughput() when the time is over or,
\* in a run of a number of transactions, at once: both read the map of counters.
ReadStats(c) ==
  /\ At(c, "reset_stats") \/ At(c, "print_throughput")
  /\ statMx = Free
  /\ measure' = IF At(c, "reset_stats") THEN "MEASURE" ELSE "DONE"
  /\ Goes(c, Rest(c))
  /\ UNCHANGED <<command, status, history, initialized, loaded, dbc, pssm, mutexes, threads,
                 disk>>

WorkerOf(k) == k % WorkerCnt

\* The clients are created, each with worker(_id), and forked.
ForkClients(c) ==
  /\ At(c, "forkClients")
  /\ IF \E k \in Clients : pool[WorkerOf(k)] \in {"none", "deleted"}
     THEN EndsIn("wild")
     ELSE /\ client' = [k \in Clients |-> "new"]
          /\ Goes(c, Rest(c))
          /\ UNCHANGED <<command, status, history, flags, mutexes, pool, statmap, failer, disk>>

\* A time-bound run sleeps for --duration.
Measure(c) ==
  /\ At(c, "measure")
  /\ Goes(c, Rest(c))
  /\ UNCHANGED <<command, status, history, flags, mutexes, threads, disk>>

\* Mutant of JoinClients: not joined.
JoinNone(c) ==
  /\ At(c, "joinClients")
  /\ Goes(c, Rest(c))
  /\ UNCHANGED <<command, status, history, flags, mutexes, threads, disk>>

JoinClients(c) ==
  /\ At(c, "joinClients")
  /\ \A k \in Clients : client[k] = "done"
  /\ Goes(c, Rest(c))
  /\ UNCHANGED <<command, status, history, flags, mutexes, threads, disk>>

Exit(c) == At(c, "exit") /\ EndsIn("exit")

Call(c) ==
  \/ InitEnv(c) \/ EnsureEmptyPath(c) \/ StartSm(c) \/ Mount(c) \/ RegisterFids(c)
  \/ ForkWorkers(c) \/ Load(c) \/ LoadFails(c) \/ CreateTables(c) \/ LoadData(c)
  \/ Stop(c) \/ Join(c) \/ CloseSm(c) \/ Statistics(c) \/ EnvStatistics(c) \/ Checkpoint(c)
  \/ PrepareRestore(c) \/ JoinFailure(c) \/ ReadStats(c) \/ ForkClients(c)
  \/ Measure(c) \/ JoinClients(c) \/ Exit(c)

-----------------------------------------------------------------------------
(* Workers and clients *)

\* stop() is at this worker: it was told to stop and is being joined.
ToldToStop(i) ==
  /\ \E c \in Callers : At(c, "join")
  /\ \A j \in 0 .. i - 1 : pool[j] = "deleted"

\* base_worker_t::work(): env_thread_init(), then the requests, until it is told to stop,
\* then env_thread_fini(); both take _statmap_mutex.
WorkerInit(i) ==
  /\ status = "up" /\ pool[i] = "init" /\ statMx = Free
  /\ pool' = [pool EXCEPT ![i] = "active"]
  /\ statmap' = statmap \cup {i}
  /\ UNCHANGED <<command, status, todo, history, flags, mutexes, client, failer, disk>>

Waiting(i) == {k \in Clients : WorkerOf(k) = i /\ client[k] = "wait"}

\* The worker serves a client, which needs the storage manager.
Serve(i) ==
  /\ status = "up" /\ pool[i] = "active"
  /\ \E k \in Waiting(i) :
       IF pssm # "open"
       THEN EndsIn("wild")
       ELSE /\ client' = [client EXCEPT ![k] = "served"]
            /\ UNCHANGED <<command, status, todo, history, flags, mutexes, pool, statmap,
                           failer, disk>>

\* wait_for_input(): it has seen neither a request nor the word to stop, and will sleep.
WorkerLooks(i) ==
  /\ status = "up" /\ pool[i] = "active" /\ Waiting(i) = {} /\ ~ToldToStop(i)
  /\ pool' = [pool EXCEPT ![i] = "drowsy"]
  /\ UNCHANGED <<command, status, todo, history, flags, mutexes, statmap, client, failer, disk>>

\* condex_sleep() exchanges any working state for SLEEP, also one that was set since.
WorkerSleeps(i) ==
  /\ status = "up" /\ pool[i] = "drowsy"
  /\ pool' = [pool EXCEPT ![i] = "asleep"]
  /\ UNCHANGED <<command, status, todo, history, flags, mutexes, statmap, client, failer, disk>>

\* One that is told before it has looked at its state for the first time never does any.
WorkerStop(i) ==
  /\ status = "up" /\ pool[i] \in {"init", "active"} /\ ToldToStop(i)
  /\ pool' = [pool EXCEPT ![i] = IF pool[i] = "init" THEN "stopped" ELSE "fini"]
  /\ UNCHANGED <<command, status, todo, history, flags, mutexes, statmap, client, failer, disk>>

\* Mutant of WorkerFini: the thread's counters stay in the map.
WorkerFiniStays(i) ==
  /\ status = "up" /\ pool[i] = "fini" /\ statMx = Free
  /\ pool' = [pool EXCEPT ![i] = "stopped"]
  /\ UNCHANGED <<command, status, todo, history, flags, mutexes, statmap, client, failer, disk>>

WorkerFini(i) ==
  /\ status = "up" /\ pool[i] = "fini" /\ statMx = Free
  /\ pool' = [pool EXCEPT ![i] = "stopped"]
  /\ statmap' = statmap \ {i}
  /\ UNCHANGED <<command, status, todo, history, flags, mutexes, client, failer, disk>>

\* A client submits its first batch; and, once it is served, the next one, in a run of a
\* number of transactions if some are left, in a time-bound one until the measurement is
\* done.  (Of the two batches in flight of the latter this is the last.)
Submit(k) ==
  /\ status = "up"
  /\ \/ client[k] = "new" /\ ~NoShare
     \/ client[k] = "served" /\ (cmd.bench = "time" => measure # "DONE")
  /\ IF pool[WorkerOf(k)] \in {"none", "deleted"}
     THEN EndsIn("wild")
     ELSE /\ client' = [client EXCEPT ![k] = "wait"]
          /\ pool' = Told(pool, WorkerOf(k))
          /\ UNCHANGED <<command, status, todo, history, flags, mutexes, statmap, failer, disk>>

\* One whose share is 0 submits nothing and waits for it: assertions of submit_batch() and
\* condex_pair::wait() end the program, and a release, which has none, never signals it.
WaitForNothing(k) ==
  /\ status = "up" /\ client[k] = "new" /\ NoShare
  /\ \/ EndsIn("abort")
     \/ /\ client' = [client EXCEPT ![k] = "stuck"]
        /\ UNCHANGED <<command, status, todo, history, flags, mutexes, pool, statmap, failer,
                       disk>>

\* Its last batch is served.
ClientDone(k) ==
  /\ status = "up" /\ client[k] = "served"
  /\ cmd.bench = "time" => measure = "DONE"
  /\ client' = [client EXCEPT ![k] = "done"]
  /\ UNCHANGED <<command, status, todo, history, flags, mutexes, pool, statmap, failer, disk>>

Worker(i) ==
  \/ WorkerInit(i) \/ Serve(i) \/ WorkerLooks(i) \/ WorkerSleeps(i)
  \/ WorkerStop(i) \/ WorkerFini(i)
Client(k) == Submit(k) \/ WaitForNothing(k) \/ ClientDone(k)

Next ==
  \/ TypeCommand \/ Kill \/ FailVolume
  \/ \E c \in Callers : Call(c)
  \/ \E call \in DOMAIN CallSteps : ShellCall(call)
  \/ \E i \in Workers : Worker(i)
  \/ \E k \in Clients : Client(k)

Spec == Init /\ [][Next]_vars

(***************************************************************************)
(* The operating system schedules every thread; a mutex is free again      *)
(* after finitely many steps of its holder, or never.  None of this says   *)
(* that a client is served or a worker stops: one that sleeps over it has  *)
(* no step.  A run of a number of transactions has a last batch, so that a *)
(* client that is served again and again is once served that one.          *)
(***************************************************************************)
FairSpec ==
  /\ Spec
  /\ \A c \in Callers : WF_vars(Call(c))
  /\ WF_vars(FailVolume)
  /\ \A i \in Workers : WF_vars(Worker(i))
  /\ \A k \in Clients : WF_vars(Client(k)) /\ SF_vars(ClientDone(k))

-----------------------------------------------------------------------------
(* Properties *)

\* What the shell may have done to the environment under the command's feet.
Called(some) == calls \cap some # {}
Reshaped == Called({"stop", "close", "restart"})

\* A command on its own never uses a storage manager or a worker that is deleted: finish()
\* follows the join of all who use it, and close() that of the workers.  Of the shell's
\* other calls only a checkpoint, which looks at nothing, may come too late.  It ends early
\* for want of a database, by an error in its load, which leaves no whole database, or by
\* the assertion of a client that has no share, and for no other reason: none of its own
\* calls finds the flags, the workers or the disk in a state that it refuses.
CommandsAreSafe ==
  /\ status = "wild" => Reshaped \/ Called({"checkpoint"})
  /\ status = "abort" =>
       \/ Reshaped
       \/ ~cmd.load /\ disk \in {"none", "empty"}
       \/ cmd.load /\ disk \in {"empty", "tables"}
       \/ NoShare /\ \E k \in Clients : client[k] = "new"

\* Workers have a storage manager under them, whatever the shell calls, unless the
\* environment was closed and opened again: stop() joins no worker then, since nothing
\* ever resets DBC_STOPPED, and close_sm() deletes the storage manager they use.
WorkersHaveAStore ==
  opened <= 1 /\ (\E i \in Workers : pool[i] \notin {"none", "stopped", "deleted"}) =>
    pssm = "open"

\* A database that counts as loaded is whole, or the command did not load it and finds
\* what a load that was killed has left.
LoadedIsWhole ==
  status = "up" /\ initialized /\ loaded =>
    disk = "full" \/ (disk = "tables" /\ ~cmd.load)

\* The map of statistics has only the counters of threads that live: they are
\* thread-local, and whoever sums them up reads freed memory otherwise.
StatmapIsLive == \A i \in statmap : pool[i] \in {"active", "drowsy", "asleep", "fini"}

\* The ways a command may hang: a client that has no share waits for nothing; a worker
\* sleeps over a batch or over the word to stop; statistics() holds _statmap_mutex and
\* waits for _init_mutex, while stop() holds that and joins a worker that needs the other.
Overslept == \E i \in Workers : pool[i] = "asleep" /\ (Waiting(i) # {} \/ ToldToStop(i))
MutexesCrossed == \E c, d \in Callers : At(c, "join") /\ At(d, "statistics2")
Hung == Overslept \/ MutexesCrossed \/ \E k \in Clients : client[k] = "stuck"

\* A command ends, whatever fails in it, or it hangs in one of these ways, unless the shell
\* takes its workers away: mutexes, joins and sleeps hold it up in no other.
CommandEnds == status = "up" ~> (status # "up" \/ Reshaped \/ Hung)

=============================================================================
