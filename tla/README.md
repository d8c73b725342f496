# A verification project for zapps

zapps is a set of command-line programs around the Zero storage manager:
benchmarks (`kits`), log inspection (`loginspect`) and restore experiments
(`restore`).  Zero itself is not part of the repository.  The core that zapps
itself implements is the *kits* runtime: a benchmark command starts an environment
(`ShoreEnv`), which forks transaction workers; client threads submit batches of
transaction requests to the worker's queue; the worker runs them against the
storage manager and tells the client when the last request of a batch is done.

## 1. Inventory

| part | state | operations | interacts with |
|---|---|---|---|
| condex, condex_pair (`util/condex.h`) | signal and wait counters; taken, wanted, waited | signal, wait; please_take_one, take_one, wait | client (waits), worker (signals) |
| worker (`trx_worker.*`, `shore_worker.cpp`) | `_control`, `_ws`, `_notify`, request in hand | work, _work_ACTIVE_impl, _serve_action, _work_STOPPED_impl, condex_sleep, set_ws, stop | queue, environment, clients |
| queue (`srmwqueue`) | two vectors, read position, `_empty`, lock | push, pop, wait_for_input | many clients write, one worker reads |
| requests (`reqs.*`) | client's condex, transaction | notify_client | worker, client |
| clients (`shore_client.*`, `tpcb_client.*`) | `_cp`, trx counter | run_xcts, submit_batch, submit_one | queue, environment's measure |
| command (`kits_cmd.*`) | options | run, runBenchmark, finish | environment, clients |
| environment (`shore_env.*`) | `_initialized`, `_loaded`, `_measure`, `_dbc`, counters, workers | init, start, load, stop, close, restart | storage manager, workers |
| TPC-B loader (`tpcb_env.cpp`) | loaders, their key ranges | create_tables, load_data, builder's work | storage manager |
| TPC-B transactions (`tpcb_xct.cpp`) | per-thread statistics | run_one_xct, account update, micro-benchmarks | table manager, environment |
| table manager, rows (`table_man.*`, `row.*`, `field.*`) | tuple formats | add, update, delete, probe; load, format | storage manager |
| pools (`stl_pool.cpp`, `row_cache.h`) | thread-local free lists | alloc, free | all threads |
| threads (`thread.*`) | thread pool's counters | start, stop, condition waits | all threads |
| skewer, inputs (`skewer.*`, `tpcb_input.*`) | intervals | set, reset, get_input | clients, workers |
| variables (`envvar.*`, `confparser.*`) | cache over a file | getVar, setVar, refresh | everything |
| daemons (`daemons.*`) | activity flags | checkpointer, index loader, abort, crash | storage manager |
| storage manager threads (`basethread.*`) | current transaction, mount queue | begin, commit, mount | storage manager |
| scanners (`scanner.*`, `iterator.*`) | block positions, page ring | scan, next, produce | handlers of `loginspect` |

What is hard here is the hand-over between clients, queue and worker: no lock covers
the queue's flag, the worker's state and its condition variable together, and the
main thread stops the worker and frees the clients at the end.  PROJECT.json lists
every hazard at the line where it bites, with the properties about it.

What makes each part correct:

- *queue and worker*: requests are served once and in the order of submission; a swap
  never reads past a vector; a worker that sleeps is woken up by the next push and by
  the stop; nothing is left in the queue at the stop.
- *clients and condexes*: a wait returns only for a batch served to its end; two
  outstanding batches never share a condex; no request survives its client.
- *loader*: every account is created exactly once, whatever the number of loaders.
- *environment*: start, load, stop, close and restart in any order the commands allow
  leave the flags and the storage manager consistent.
- *statistics*: every attempt is counted as committed, failed or deadlocked; the map of
  counters has those of living threads.
- *rows*: a tuple read back is the tuple written; indexes agree after a failed step.
- *pools*: a block, a tuple or a place is in one hand at a time, and none is lost.
- *scanners*: every record reaches the handlers once, in the order of the log.
- *inputs and options*: a transaction asks for rows that the load has made.

## 2. The modules

| module | models |
|---|---|
| `Condex` | the two condition variables of `util/condex.h` as operators on records |
| `TrxWorker` | the worker, its queue, the clients and the main thread, one action for each access to shared state |
| `BatchService` | what the clients are promised: one FIFO queue, whole batches, an orderly close |
| `TrxWorkerProofs` | theorems about the worker's sleep, its two vectors, batches and condexes, and the refinement of `BatchService` |
| `MCTrxWorker` | `TrxWorkerProofs` for TLC, and a claim of two comments that the code does not keep |
| `Loader` | the load of a TPC-B database: the table creator, then the parallel builders |
| `RowFormat` | a tuple on disk: format, load and format_key for the TPC-B tables |
| `TpcbXct` | the account update under its wrapper, its locks and failures, the counters and the print of the throughput |
| `EnvLife` | the life of an environment: kits and restore commands one after the other, killed at any step, with workers, clients, mutexes and a shell |
| `Workload` | from the options to the rows a transaction asks for |
| `ThreadPool` | the pool of `thread.cpp` under its mutexes and conditions |
| `QueuePool` | the blocks of `stl_pool.cpp` under the two vectors of a worker's queue |
| `TpcbTuples` | the cached tuples and the buffers of the TPC-B transactions |
| `TableIndex` | a table with a primary and a secondary index, and the catalog of its stores |
| `RowCodec` | rows with fields of any type: set, get, format, load and keys |
| `Skew` | the ranges of a skewer, set, reset and drawn from |
| `EnvVar` | the configuration file, its parser and the variables kept over it |
| `LogScan` | the log scanners under logcat, agglog and verifylog |
| `Parts` | `Workload` and the eight modules from `ThreadPool` on, composed |
| `MCParts` | the small instances of `Parts` for TLC |
| `LoaderProofs`, `TpcbXctProofs`, `EnvLifeProofs` | theorems about the load, the transactions and the environment |
| `RowCodecProofs`, `LogScanProofs` | theorems about these two parts |
| `PartsProofs` | theorems about the other parts, and those two lifted to `Parts` |
| `Lemmas` | induction over numbers and finite sets; what the folds of the community modules compute |

`TrxWorker` uses `Condex` and, under the refinement mapping at its end, instantiates
`BatchService`.  `Loader` stands alone: the load is over before the clients start
(`runBenchmarkSpec`).  `TpcbXct` extends `RowFormat`; it is the inside of the step
`ServeAction` of `TrxWorker`, several workers of which run against one database.
`EnvLife` is the frame around all three: its steps "load" and "forkClients" are what
`Loader` and `TrxWorker` look into, and its workers serve a client in one step.

The parts that `Parts` instantiates keep state of their own and share none with each
other: a behaviour of `Parts` is one of a part, its *subject*, while the variables of the
others stay.  That checks them in one run without the product of their states.

### TrxWorker

Every thread has a program counter (`wpc`, `cpc[c]`, `mpc`).  An action ends where a
thread has made one access to state that another thread may touch:

- *worker*: `WorkSwitch`, `ActiveLoop` (two reads of `_control`), `SetLoop` (the
  exchange of `_ws`), `Pop`, then inside `wait_for_input` `CheckEmpty`,
  `CheckControl`, `CanContinue` and `CanContinueLoop` (the two reads of `_ws` in
  can_continue), `CondexSleep` (the exchange to SLEEP), `CondexWait`, `CondexWake`,
  `SwapVectors`; then `ServeAction`, `NotifyClient`; finally `WorkStopped`.
- *client*: `Push` (building the request and the locked section of push),
  `ClientSetWs` (the exchange), `ClientSignal`, `BatchWait`, `BatchDone`, and the
  loop of a time-bound run, `ExitLoop` and `ReplaceBatch`.
- *main thread*: `StartWorker`, `RunBenchmark` or `SkipBenchmark`, `EndMeasurement`,
  `JoinClients`, `SetStopped`, `StopCheck`, `StopSignal`, `JoinWorker`.

`writers` and `readers` are the two vectors (`readers` from the read position on),
`empty` the flag, `notify` the worker's condex, `pair[c]` the client's condexes.
`served` counts the requests of each client that were run and is history: no guard
reads it.

Abstractions: a transaction is one step, committed or aborted (either way
notify_client follows).  Whether a begin_xct fails is not modelled: W_COERCE ends the
program then.  The fences of x86 make every exchange sequentially consistent; plain
reads of `_empty`, `_control` and `_ws` are actions of their own, so that everything
others do may fall between them.  The worker's own set_ws merges the exchange with
the signal, since nobody else waits on `_notify`.  COMMIT_Q is never set, PAUSED is
never seen by a forked worker (start() precedes fork()), and a worker is never linked
behind another one.  shore.conf has one worker; several share nothing in this model.
The measurement state MST_PAUSE belongs to the load, which comes before.

### Loader

The main thread (`mpc`) runs `CreateTables`, `ForkLoaders` and `JoinLoaders`; the
creator (thread -1) and the builders (0 and up) have a place `tpc[t]` each.  `BeginXct`
opens the transaction of xct_populate_db; `AddBranches` is the creator's first one,
which holds the branches and tellers; `AddAccount` adds one account of a chunk,
`CommitXct` commits the chunk and advances the loop of `table_creator_t::work` or
`table_builder_t::work`; `RetryXct` is a deadlock or the end of the log space, after
which the builder runs the chunk again; `DuplicateKey` is the error that W_COERCE and
W_FATAL turn into the end of the program.  `step[t]` is the loop variable of thread t,
`next[t]` how much of the chunk it has added, `own[t]` the rows of its open transaction.

`sf` and `loaders` are variables that Init chooses among the options, so that one run
compares them; create_tables may lower `loaders` (`LoadersToUse`).  The chunk's first
account is a long that populate_db_input_t keeps in an int: `AsInt` wraps it.

The storage manager is outside the repository.  Of it the model assumes what the code
relies on: an insert of a key that is there fails, an insert of a key that an open
transaction of another thread added waits, an abort takes the rows of its transaction
back.  Left out: the progress counter of the builders, the binding to processors,
`--threads 0` (the division fails) and a begin_xct that fails.

### RowFormat and TpcbXct

`RowFormat` counts in cells of four bytes, an SQL_INT one, an SQL_FLOAT two; a cell of a
number is told from the cells of other numbers, so that a double read from the wrong
offset shows.  A garbled balance is one value, `Garbled`: what it is on a given machine
does not matter.

A worker's place in the wrapper is `wpc[w]`: "idle", "run" (with `step[w]`, its place in
xct_acct_update), "failed" (the failure not yet counted), "abort", "notify",
"measure", "att", "com" (the three accesses to `_measure` and the environment's
counters).  A call of the storage manager is one action: it waits until no other worker
holds a conflicting lock (`Granted`), or fails: `NotFound`, `Duplicate`, `Deadlock`
(a cycle of waits), `SmError` (anything else, the commit included).  The main thread's
`ReadCounter` reads one counter of one thread, as _get_stats does while the workers run.

Assumed of the storage manager: shared locks for find_assoc, exclusive ones for
create_assoc and overwrite_assoc, held to the end of the transaction, and an abort that
restores what the transaction changed; overwrite_assoc replaces as many bytes as its last
parameter says.  Left out: a commit that fails half-way, begin_xct failures (the worker
ends the program), the micro-benchmarks, padding fields (`CFG_HACK`), the flusher
(`CFG_FLUSHER`), neither of which the build defines.  TPC-B has no nullable field and none of
variable length.

### EnvLife

A command is a sequence of steps (`Program`), as run() of `KitsCommand` or `RestoreCmd`
calls the environment, with the choices its options make; `todo["main"]` is what is
left of it.  `At(c, step)` guards the action of a step, `Goes` moves on, and `Without`
drops the rest of a call that returns at once.  The fields of `ShoreEnv` have their names
(`initialized`, `loaded`, `dbc`, `pssm`, `measure`); a mutex is who holds it, and is a
variable where another thread may meet it.  `disk` outlives a command: "none", "empty"
(a volume and its catalog), "tables" (the creator has committed), "full".

`TypeCommand` starts the next command, whatever the options; `Kill` ends one at any step.
A failed assertion, W_COERCE or w_assert0 ends it as "abort"; the use of something deleted
as "wild".  The assertions are those of a debug build: a release goes on, as where the workers are
forked while `_workers` is not empty (shore_env.cpp:552), and would have both
generations of them, which is not modelled.

What may go wrong in a command's own threads is part of the model, each in one step of what
another module looks into:

- a step of the load may fail (`LoadFails`): W_COERCE and W_FATAL of the creator and the builders
  (tpcb_env.cpp:302-307, 370) end the program, as in the load of 5 branches by 4 loaders that
  `ClaimSegmentsAreDisjoint` shows, and leave a database that is empty or not whole;
- a worker (`Worker(i)`) enters the map of statistics, serves the clients that wait for it, stops
  and leaves the map; when it has seen neither a request nor the word to stop it is "drowsy"
  (`WorkerLooks`) and then "asleep" (`WorkerSleeps`).  Who tells it something wakes it when it is
  asleep (`Told`); told while it is drowsy, it sleeps over it, as `ClaimWorkerLeavesItsSleep` shows;
- a client (`Client(k)`) is "new", waits, is served, and submits again or is done.  Where the
  transactions are fewer than the clients (`bench` is "few", or a restore that has no number), each
  has a share of 0 and waits for what it never submitted (`WaitForNothing`): an assertion in a
  debug build, "stuck" in a release, as in `ClaimWaitsOnlyForTaken`.

`FailVolume` is the failure thread of the restore command.

The second caller, the shell, stands for db_iface ("Interface of basic shell commands for
dbs").  Nothing in the repository calls its statistics, checkpoint, stop or restart but
close(), so that the properties except what it disturbs, and say exactly what that is.  It makes each
call at most once in a command.
It was worth modelling because it shows what the interface does not promise:

- restart() stops and starts an environment whose `_initialized` only close() clears:
  start_sm() refuses, and the workers stay away;
- `_dbc` is never set back from DBC_STOPPED: after close() and a second start, stop()
  returns at once, and close_sm() deletes the storage manager under its workers;
- close_sm() keeps `_pssm`, so that a second close of a restarted environment may delete
  twice;
- statistics() and stop() take `_statmap_mutex` and `_init_mutex` in opposite orders, the
  latter through the worker it joins.

### The parts

*Workload* follows the options through set_sf, set_qf, upd_worker_cnt, the load and
runBenchmarkSpec to the inputs of the transactions.  Nothing on disk says how many branches
there are; `--queried_sf` is both factors; with a value of 0 or less they keep what the
memory held (`Unset`).  A failed assertion ends the command or, in a release (the default
build), is not there; a division by zero always ends it.  LOCAL_TPCB is 100, so that the
remote branch of create_acct_update_input is unreachable.

*ThreadPool*: a thread starts in the pool, takes the mutex, waits at a gate or opens it, and
ends; whenever it would block in the operating system it leaves the pool and enters it again.
A signal wakes one sleeper, who may find the slot taken.

*QueuePool*: a vector of the queue doubles its array; one of one element comes from the pool,
longer ones from the heap.  ~trx_worker_t empties its guards by hand, in the order that
`DeleteQueue` and `DeletePool` have.

*TpcbTuples*: which buffer each step of each transaction uses, over tuples that a cache
gives out with the pointers of their last user.  The account update and the load keep
to their own; every micro-benchmark uses a key buffer that it never set, and the branch ones
a name of an index ("B_INDEX") and a third field that do not exist.  In a release they read
or write memory that is not theirs; the account mix never gets there.

*TableIndex*: transactions that run one at a time, abort at the first error, and reach a row
through either index.  A probe of the secondary index does not load the row, so that a
caller deletes only what it probed by the primary one or has just added.  TPC-B has no
secondary index; the code for it is the table manager's own.

*RowCodec*: three kinds of fields in cells; which may be null and which are the key is part
of the schema.  The null flags are bytes of bits, and the two macros are translated as they are:
SET_NULL_FLAG is an "and" on a cleared byte and sets nothing, so that a null is written as the
value that the field had before and is read back as that value, which `FieldsReadBack` states; the
comments of format() and load() (table_man.cpp:161, 253) mean a null to be marked and read as one.
No table of the repository has a nullable field. format() and size() reckon n / 8 + 1 bytes of
flags for n nullable fields, setup() (n - 1) / 8 + 1. load() passes over key fields without
moving its offsets, and the size leaves out null variable strings that are written all the same;
the property is about the fields whose place both sides reckon alike (`InPlace`), and
`ClaimProbeLoadsRow` about the others. A null in a primary key, whose field is not nullable in
any schema here, is left out. MAX_INT and MAX_SMALLINT are 1<<31 and 1<<15 and become negative
in a field, so that max_key() is below every positive key (min_key and max_key have no caller).

*Skew*: ranges with a random start, that go on at the lower end, with areas of 1 to 100 (a chaotic
reset draws any of them).  Nothing calls
set_skew, start_load_imbalance or reset_skew.  get_input divides by the number of ranges
outside, which may be none, and `input` is "crash" then.

*EnvVar*: the parser's lines and the map over them.  The line EndConfigFile ends the file, wherever it
is.  A file may end without a newline: the getline() that fails then leaves what was read before,
and text in the last line is appended to its value twice.  A refresh puts the file's value over one
that was set, unless the file's is empty.

*LogScan*: partitions in blocks, records across blocks, a filter of kinds, handlers that
count.  What the log manager promises, that a partition ends with a skip record, is an
assumption on `Contents`; so is that it numbers them from 1, so that 0 can stand for the -1
that `pnum` has before the first file.  The option `-n` of logcat is read and not used.

### Bounds

*TrxWorker.*  `NumThreads` 2 (1 where one client suffices for a claim): the protocol
treats the clients alike, and two of them give every pair of concurrent pushes.
`Loops` 0 and 1: the worker goes to sleep at once or after one more look; more looks
repeat the same reads (the value of shore.conf is 20).  A time-bound run submits 2 or 3
batches for each client (`MaxBatches`, a bound of the model: the code goes on until the
measurement ends, which here may happen at any time); three batches reuse the first
slot of condex_pair.  Batches have 1 request there, and 2 and 1 in `TrxWorkerTrxs`,
where the whole run is finite without a bound.

*Loader.*  2 accounts and 2 tellers for each branch, chunks of 2, 1 to 8 branches, 1 to 3
threads: fewer branches than threads, segments of one chunk, of several, and of one and
a half, threads that do not divide the accounts.  An int has 24 values, so that 6
branches (12 accounts) just fit and 8 do not.

*TpcbXct.*  Two workers share three requests (`MaxTrxs`): one serves two or more while the
other is in the middle of one, and two workers meet in every pair of calls.  One branch
was loaded, with a teller and an account, and two are queried (`--queried_sf`), so that
transactions conflict or find nothing.  The clock has two seconds (`MaxTime`): updates in
the same second and in different ones.  The two claims take one request and two accounts,
since a row that is all zeros reads the same from any offset.

*EnvLife.*  Two workers and a client, two commands: the second finds what the first, perhaps
killed, has left.  The shell makes two calls, in the last command only: two suffice for a
close and a restart, for a stop during statistics, and for each alone; a first command that
a shell disturbs leaves nothing on disk that a killed one does not.  With one client kits itself
never has fewer transactions than clients, but a restore without a number has; the second worker
has no client and sleeps over the stop only.  The run has 823,830 distinct states.

*Parts* (the constants are in `MCParts`).  Three threads and two places; a pool of two blocks
under vectors of up to five requests, so that arrays come from the pool and the heap; three
transactions after each other, so that a tuple is used by one that did not set what its
predecessor did; partitions of up to five records over blocks of three cells; two keys and
two values of each secondary field, three operations a transaction; skewers of up to five
numbers with one to several spots; files of up to three lines of each kind and longer ones, with a
newline at the end and without;
options at their limits (no branches, no clients, more clients than the array has, fewer
transactions than clients, no workers); rows of two and three fields, with variable strings
before and after the key, null or not, and keys of each type.

### Fairness

`TrxWorker!FairSpec` assumes weak fairness of the worker, of every client and of the
main thread: they are threads of the operating system, which schedules them
preemptively, and no lock is held from one action to the next.  The duration of a
time-bound run ends (`::sleep`), so EndMeasurement belongs to the main thread.

`Loader!FairSpec` assumes weak fairness of the main thread, the creator and each
builder, for the same reason.  A retry counts as a step: nothing in the code bounds the
retries, and `LoadEnds` therefore excepts runs that are aborted for ever.

`EnvLife!FairSpec` assumes weak fairness of both callers, each worker, each client and the
failure thread: each is a thread of the operating system.  That says nothing of a client that
waits: a worker that sleeps over its batch, or over the stop, has no step, and `CommandEnds`
names this, the clients without a share and the crossed mutexes (`Hung`) as the only ways in which a
command hangs.  Strong fairness of `ClientDone` stands for the counter of transactions that the
model leaves out: a client that is served again and again is once served its last batch (in
run_xcts the loop ends after trxsPerThread of them; a time-bound client that is served after the
measurement is done can only be done).  It does not make a worker serve anybody.  The shell need not
call anything.

`ThreadPool!Fairness` is weak fairness of each thread's own steps; timeouts and spurious
wake-ups need not happen.  The other parts have no liveness to promise: they are called.

## 3. The runs

| run | question |
|---|---|
| `TrxWorkerTime` | a time-bound run, two clients, up to three batches each: the safety invariants, the refinement of `BatchService`, and that the run ends unless one of two lost wake-ups happens |
| `TrxWorkerTrxs` | batches of two and one, a worker that never spins: a wait means that the whole batch was served, the inductive invariant of the proofs holds, and the batch service is implemented |
| `ClaimWorkerLeavesItsSleep` | refuted: comments of wait_for_input (a worker does not sleep over a request or a stop) |
| `ClaimWaitsOnlyForTaken` | refuted: the assertion of condex_pair, with fewer transactions than clients |
| `Loader` | every account exactly once, whatever the threads and retries; a load that goes wrong does not go unnoticed; the load ends |
| `ClaimSegmentsAreDisjoint` | refuted: comment of create_tables (what the load needs in order not to fail) |
| `TpcbXct` | two workers, conflicts, deadlocks, duplicates, missing rows and failures at any call: clients, counters, history and locks agree |
| `ClaimProbeLoadsRow` | refuted: comment of load() (the inverse of format()) |
| `ClaimUpdateIsStored` | refuted: comment of update_tuple() |
| `EnvLife` | two commands of any options, a kill at any step, shell calls, a load that fails, clients without a share, workers that sleep over a batch: who uses the storage manager and the workers finds them, a command ends early only for reasons that are named, loaded means whole, commands end or hang in one of three ways |
| `Parts` | each part in all its behaviours |
| `ClaimGroupsAreIntervals` | refuted: the text of agglog's option interval |

Deadlock is not checked: the programs end, and the worker may hang in a lost wake-up;
`OnlyLostWakeupsHang` says that there is no other way to stop, and `CommandEnds`,
`LoadEnds` and `ThreadsEnd` say it for the others.

What the properties guard against:

- `QueueIsFIFO`, `SwapFindsWork`: served, in hand, read and written requests, one after
  the other, are what each client submitted, in its order; a swap of the vectors always
  finds a request (pop reads past the end otherwise).
- `SleeperIsMarked`: a worker that waits without a signal under way has `_ws` SLEEP, the
  mark by which clients and the stop know that they have to signal.
- `WaitMeansBatchServed`, `SlotsNotShared`, `NoRequestOutlivesClient`, `WaitsOnlyForTaken`:
  the reuse of two condexes for a stream of batches, and requests that point into
  a client.
- `NothingLeftAtStop`: the worker's last look at its queue misses nothing.
- `PushWakesWorker`, `StopWakesSleeper`: the exchange of `_ws` decides who signals, and
  the one who found SLEEP does.
- `NoDuplicateKey`, `ChunksAreWhole`, `BuildersAreBuffered`: the arithmetic of creator and
  builders fits together and survives retries, where the chunk divides the segments
  (`WellSized`).  `LoadedIsComplete` holds without that condition.
- `ReportIsClose`: the throughput that is printed while transactions run is off by those in
  flight and by the failures during the print, and by no more.  (The difference is unsigned
  in the code; with failures in between it may lie below zero.)
- `EnvCountersAgree`: two sets of counters, one of threads and one of the environment,
  counted at different places of the wrapper and on all its paths.
- `ClientSeesTheEnd`, `OneRowPerCommit`: a failure at any call is aborted before the client
  hears of it, and the history has a row for each commit and for nothing else.
- `OnlyUpgradesDeadlock`: the order of the tables keeps all cycles of waits out but those of
  two probes that both upgrade their lock.
- `CommandsAreSafe`, `WorkersHaveAStore`: the order of joins in finish(), stop() and close(),
  seen from the threads that are joined, and the reasons a command has to end early.
- `CommandEnds`: mutexes, joins and sleeps of the main thread, the shell, workers and clients; besides
  the ways to hang that `Hung` names there is none.
- `LoadedIsWhole`: two flags, two mutexes and a disk that outlives the process.
- `StatmapIsLive`: a map of pointers into the thread-local data of workers.
- `PoolIsBounded`, `ThreadsEnd`: a counter, its condition and mutexes outside of it.
- `BlocksInOnePlace`: free slots and two arrays that are swapped and reallocated.
- `OnlyMicroBenchmarksStray`: pointers that stay in a cached tuple.
- `ScanIsTheLog`: blocks, files, halves of records and a filter, against the records.
- `IndexesAgree`: two indexes, changed one after the other, with a failure at any call.
- `FieldsReadBack`: four walks over the fields (format, load, format_key, load_key) and the
  length that a fifth, size(), reckons; no field is null after a load, and its value is that of
  the tuple that was stored.
- `RangesDivide`: the special cases of _add_interval and _set_intervals.
- `ReadsAgree`, `FileIsParsed`: a cache, and a parser that reads ahead, also past the end.
- `AsksForWhatIsThere`: ids computed by the load, the clients and the inputs.

### What the refuted claims show

*WorkerLeavesItsSleep.*  The worker reads `_empty` (true), `_control` (ACTIVE) and `_ws`
(LOOP); a client then pushes, exchanges `_ws` from LOOP to INPUT_Q and, since it was not
SLEEP, signals nobody; condex_sleep exchanges INPUT_Q for SLEEP and the worker waits over
a request.  It stays there until another client pushes: with one client, or when all
wait, the program hangs.  The stop has the same window: stop() sets STOPPED after the
worker's read of `_control` and finds `_ws` not SLEEP, and the join in
ShoreEnv::stop never returns.  The comment of condex_sleep describes a compare with
WS_LOOP that the exchange does not make.

*WaitsOnlyForTaken.*  Transactions divided among clients lose the remainder, and a share of
zero makes a client wait for a batch that it never submitted: an assertion in a debug
build, a wait without end in a release build.

*SegmentsAreDisjoint.*  The number of loaders divides the number of accounts, but the
chunk of 10000 need not divide a segment: with 5 branches and 4 threads a segment
has 125000 accounts, the last chunk of each builder reaches into the next segment, and
the duplicate key ends the load.

*ProbeLoadsRow.*  format() writes all fields one after the other.  index_probe calls load()
with the primary index, and load() skips the key fields before it advances the offset: the
account's branch id is read from the bytes of its own id, its balance from the branch id
and the first half of the balance.

*UpdateIsStored.*  update_tuple() passes the buffer of the last probe, offset 0 and length 0:
no byte is written, and it does not format the tuple.  An account update changes its
history only; balances stay what the load made them.

*GroupsAreIntervals.*  `currentTick` of agglog's handler has no initial value: with anything
but 0 in it the first group is longer or shorter than the interval, and with more than the
interval no line but the last is printed.

## 4. The proofs

TLC checks the small instances above; the theorems hold for every value of the constants.
They assume nothing of the constants but the named assumptions of the modules
(`ConstantsAssumption`, `LoaderAssumption`, `IntAssumption`, `EnvLifeAssumption`, `TpcbAssumption`, and those
of the parts, which `Parts` gathers), and TLC evaluates these in every run.  Each of them follows
from an inductive invariant: it holds initially, each action keeps it (a step of the proof
for each action, and one for each conjunct the action can disturb), and it implies the property.

### The worker and its queue (`TrxWorkerProofs`, first part)

`TypeCorrect` (`[]TypeOK`), `SleeperMarked` (`[]SleeperIsMarked`) and `SwapSound`
(`[]SwapFindsWork`) follow from `IInv`, the conjunction of

- `TypeInv` and `BatchInv`: types, with `req` of length one exactly where the worker holds
  a request, and `left` positive where a client submits;
- `PhaseInv` and `CountInv`: the worker's condex has as many signals as waits except
  between a wait and its wake-up, where it lacks at most one; what the worker's place
  says about `_control` and `_ws`;
- `MarkInv`: SleeperIsMarked, strengthened by where a signal may still come from (a client
  at "signal", the main thread at "stopsignal");
- `QueueInv`: `_empty` is true exactly if the writers' vector is empty, and the readers'
  vector is empty wherever the worker looks for input.

SleeperIsMarked alone is not inductive: that a signal sent wakes the worker needs the
counters of the condex, and that the main thread's signal does not add to a client's
needs that all clients are over by then.

### Batches and the batch service (`TrxWorkerProofs`, second part)

`QueueFIFO`, `WaitsMeanService`, `SlotsAreOwned`, `ClientsAreDone` and `StopFindsNothing` are
the other safety invariants of `TrxWorker`; `Implementation` is its refinement of
`BatchService`.  They need `FullInv`, that is `IInv` and `BatchesInv`, which
`TrxWorkerTrxs` checks with TLC:

- `FifoInv`: what is in hand, read and written holds, in order, each client's requests from
  the first that was not served to the last that was submitted;
- `MarkedInv`: those that carry a condex are those that end a batch, and the k-th batch of a
  client has slot k - 1 modulo 2;
- `PairInv`: the signals and the waits of a pair alternate between its slots;
- `HandInv`: the signal about to be sent is the next one of its client;
- `RoundInv` and `ProgressInv`: how many batches a client is ahead of its waits, by where it
  is, and how far it is in the one it submits;
- `LedgerInv`: the requests served are the completed batches and a part of the next one,
  and no wait has returned before its batch was announced.

The argument for the slots: the client is at most two batches ahead of its waits (RoundInv),
so that of the requests on their way at most two carry a condex, which follow one another
(LedgerInv, FifoInv) and so have different slots (MarkedInv).  The exception is a client
without a share of the transactions (`ClaimWaitsOnlyForTaken`): it waits for a batch it
never submits.  The refinement is proved for each action in turn: Push is a
submission, ServeAction a service, BatchDone a return; the others change nothing that the
service sees.

### The load (`LoaderProofs`)

`NoKeyIsAddedTwice`, `ChunksAreAlwaysWhole`, `BuildersAreAlwaysBuffered` and `EveryLoadIsComplete`
state the invariants of the run.

*Where the sizes fit* (`WellSized`: the chunk divides the segments and an int numbers the accounts)
the invariant says which accounts are in the table: the first chunks of the segments
that the creator has been to, the part of its segment that each builder has committed, and
what is open (`AccountsInv`, `OwnInv`), while `PlaceInv` says where the threads are and that
builders move by whole chunks.  The first lemmas are arithmetic: quotients and remainders,
chunks that do not overlap, segments that add up to the accounts.

*Where they do not fit* the load does not end (`WrongIsNoticed`).  `SizesClash` finds a chunk that
cannot be made, since it clashes with one that the creator has made before it:

- the chunk does not divide the segments: the last chunk of the first segment has the first account
  of the second, a key that the creator has added (`ClashWithSecond`);
- the accounts are more than 2^31: a chunk begins with a number that has become negative, and
  xct_populate_db() takes it for the turn of the branches, which are there (`ClashWithOverflow`);
- a segment is more than 2^31: the first turn of the creator, -1, wraps around to a positive
  number; it makes accounts in place of the branches, and another chunk has their keys
  (`ClashWithFirst`).

`WrongInv` holds for all sizes: open rows are in the table and in no two transactions (`RowsInv`), what the
creator has committed stays (`CreatedInv`), and hence no thread is past a chunk that clashes
(`StuckInv`).  The second case needs `IntAssumption`, which is about the constants of the code:
were the number 2^31 in the last chunk of a branch, and not its first account, then a load of
that many branches by several loaders could end with negative account ids.

### The environment (`EnvLifeProofs`)

`StatmapAlwaysLive`, `WorkersAlwaysHaveAStore`, `CommandsAlwaysSafe` and `LoadedAlwaysWhole` hold for
every number of workers, clients, commands and shell calls, and for all options.  A step of a
program is known by its name and its rank and not by its position: no program has a step
twice, so what is left of it is a set of steps in a known order (`ShapeInv`).  The invariant
says what is true until a step was made, or from then on: `StartInv` until the workers are
forked (nobody else runs), `StopInv` afterwards (the storage manager is open until the
environment was stopped, and a stopped one has no workers), `DiskInv` what a command
finds and what it has made, `QuietInv` what an environment that the shell leaves alone has until
its own stop.  So none of a command's own steps is refused: it ends early only where the
model lets an error in (`LoadFails`, `WaitForNothing`) or finds no database, and `DiskInv` says
that what a failed load leaves is never whole.

### The transactions (`TpcbXctProofs`)

`RowsMatchCommits`, `ClientIsFree`, `EnvIsConsistent`, `ReportStaysClose` and
`OnlyUpdatesDeadlock` are all the safety properties of `TpcbXct`, for any number of workers,
any factors, deltas and requests.  The sums over the workers are `MapThenSumSet`, so
the module first proves what it computes: that changing one summand changes the sum by as
much (`SumOf` and the lemmas on it, by induction over finite sets with WFMin).  The invariant
relates every counter to where its worker is: an attempt counted by the thread but not yet by
the environment (`AttOf`, `ComOf`), a worker between the two halves of inc_trx_com
(`HalfOf`); and, for the report, how much of each thread has been read and by how much it may
still change (`LowOf`, `HighOf`).  TLC checked this invariant on the instance of the run before it was
proved.

The deadlocks: a worker holds locks only of tables that it has passed (`LocksInv`), so whoever
it waits for, other than for an update, is farther on in the order of the tables; a cycle of
waits without an update would go up for ever.  `InCycle` says that a worker is in a
set of workers that is closed under waiting, so the one of them that is farthest on gives
the contradiction.

### The parts (`PartsProofs`)

A behaviour of `Parts` is one of its subject.  What `RowCodecProofs` and `LogScanProofs` prove
(see below) is lifted by that to the composition (`CodecSpec`, `ScanSpec`); the others are proved
in place, each by an invariant of its part:

- `PoolBounded`, `MonitorAlwaysExclusive`: the mutex is held by who is inside the monitor, and
  given up by a wait (`MutexInv`);
- `IndexesAlwaysAgree`: a transaction that has not failed leaves the indexes in agreement
  (`AgreeInv`), one that has puts back what it found (`BeforeInv`); `KnownInv` is what a
  caller knows of the row in its tuple;
- `BlocksAreInOnePlace`: an invariant of the pool and two arrays (`PoolOK`): a block is free
  or under one vector, and the counters are what the vectors hold; the pool and its
  vectors are changed one array at a time, and each lemma is about one change;
- `ReadersAgree`: what was read of a variable is what the map holds of it (`ReadsInv`), where
  an empty default is read and not kept;
- `AsksForRowsThatExist`: `--queried_sf` sets both factors, so the branch a client stays at and
  the branches its inputs are drawn from are of those that the load makes (`WorkInv`);
- `WorkloadsNeverStray`: while a transaction of the workload runs, the tuple of each table
  points to its own buffers (`TuplesInv`), and each step of the workload fits in them
  (`StepsFit`); what a micro-benchmark has left in a tuple is set anew before it is used.
- `RangesAlwaysDivide`: the spots are one to four ranges in ascending order (`Ascending`) and
  the outside is the gaps between them, which FlattenSeq puts together; what this
  recursive function computes on a sequence of ranges is proved by induction over the numbers
  (`Induct` of `Lemmas`, from WFMin), and the rest is arithmetic of intervals, for spots that overlap or that go on
  at the lower end, and for every area from 1 to 100;
- `FileAlwaysParsed`: the parser is a FoldLeft, and `ParseSteps` shows, again by induction, that it
  passes through one state for each line; `Parsed` says what that state is after m lines, and
  `LineParsed` that each kind of line keeps it.  The lines are those of the file before its
  sentry, and the last one again where the file has no newline at its end.

### The rows (`RowCodecProofs`)

`RowsReadBack` states `FieldsReadBack` for every schema of any number of columns of the three
kinds, nullable or not, key (and then not nullable) or not, of any size; of the schemas it assumes that they are finite
sequences of well formed columns (`RowCodecAssumption`).  The argument:

- the model adds up the sizes of fields with FoldSet and walks over them with FoldLeft.  `SumExists`
  to `SumRemoves` (of `Lemmas`, by induction over finite sets) and `WalkExists`, `WalkSteps` (over numbers) show
  that the recursive functions behind these are there and what one more element does to them;
- *where the fields are.*  A tuple is flags, fixed part, slots of the lengths, variable part.
  `Inside` and `Apart` say that each field has its bytes within the row and no two fields share one,
  and `PartsAre`, `FixedAtIs`, `VarAtIs`, `KeyAtIs` that these are the places format() and format_key()
  write to;
- *what format() leaves.*  `PutUpTo` is the invariant of its walk: the fields up to the m-th are in
  their places and the lengths yet to come are zero; `AllPut` is its end;
- *what load() reads.*  `LoadedTo` is the invariant of its walk: after i fields those before it have
  the values that were written, and its offsets are those of format() as long as no field of the key
  has come by, which is what `InPlace` says; `NoFlag` says that no null flag is set, since they
  are cleared bytes and SET_NULL_FLAG adds no bit (`FlagsIn`), so that load() passes over no null;
- *the length.*  format() allocates a byte more for the flags than it uses when the last one is full
  (`RoomOf` against `FlagsOf`), and lets the null variable strings out of its sum; a row is cut off
  there (`CutOff`), behind the fields that are in place;
- the index entry (format_key, load_key) has offsets of its own, apart by the same sums;
- a fixed string comes back whole since what is behind its end is zeros (`ZerosBehind`).

`CodecInv` puts them together: what is on disk was put there from `written`, and what was loaded
was read from that.

### The scan (`LogScanProofs`)

`LogIsScanned` states `ScanIsTheLog` for logs of any number of partitions with any records, for
blocks of any size, for any runs of an archive and any interval.  The argument:

- *the cells.*  The cells of a partition are its records flattened; `LaidOut` says where each
  record is among them (`CellsLaidOut`, by induction over the records);
- *the states of the scanner* (`ReadInv`).  i records of the file were handed on, and the
  scanner is before the next one (`AtRecord`), has kept the first half of it (`half`), or has read
  the skip (`Ended`).  The block is the cells from there to `fpos`, so a record that is cut
  by the end of a block is neither lost nor handed on twice;
- *what was handed on* is always the records up to some record (`Upto`), or those of the first files
  (`Whole`), in their order (`Ascending`).  These sets have no gaps, hence nothing is missing,
  and `EndInv` says that the last of them is the log;
- *what agglog counts* (`CountInv`): of each kind, what was printed and what is in `counts` are together
  as many as the records handed on.

### Only model-checked

- liveness (`OnlyLostWakeupsHang`, `PushWakesWorker`, `StopWakesSleeper`, `LoadEnds`,
  `CommandEnds`, `ThreadsEnd`): out of the prover's reach.

## 5. Not modelled, and the plan

Not modelled, since no behaviour of their own is in them: the Mersenne twister, the Zipfian
distribution, tracing, guards, decimals and clocks (third-party helpers), the text of
options and printing, binding to processors, and the storage manager itself, of which each
module states what it assumes.

Not modelled, since nothing runs them:

- `PageIterator` (`base/iterator.cpp`): no object of it is ever made, and its ring of blocks
  belongs to the storage manager;
- the daemons (`daemons.cpp`): the places that made a checkpointer are commented out;
- `basethread_t`'s mount queue and transactions: no caller;
- PAUSED and RECOVERY of a worker, add_index_entry, delete_index_entry, and what returns
  "not implemented".

Every safety property of the runs is stated by a theorem; what is left to TLC is liveness.
