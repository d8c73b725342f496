------------------------------ MODULE TrxWorker ------------------------------
(***************************************************************************)
(* One transaction worker of the baseline system, the clients that submit  *)
(* batches of requests to it, and the main thread that starts the worker,  *)
(* runs the benchmark and stops the worker.                                *)
(*                                                                         *)
(*  - the worker: base_worker_t::work() and trx_worker_t::_work_ACTIVE_impl *)
(*    (shore_worker.cpp, trx_worker.cpp), with the queue srmwqueue it owns *)
(*    and the condex _notify it sleeps on (trx_worker.h);                  *)
(*  - a client: base_client_t::run_xcts, submit_batch and submit_one       *)
(*    (shore_client.cpp, tpcb_client.cpp), with its condex_pair _cp;       *)
(*  - the main thread: KitsCommand::run, ShoreEnv::start and ShoreEnv::stop.*)
(*                                                                         *)
(* Each action ends where a thread has made one access to state that       *)
(* another thread may touch: one locked section, one read of _empty,       *)
(* _control or _ws, one atomic exchange of _ws, one signal or one wait.    *)
(* shore.conf has db-workers = 1, so every client uses the one worker; with *)
(* more workers the clients are divided among them and share nothing here. *)
(***************************************************************************)
EXTENDS Integers, Sequences, Condex

CONSTANTS
  NumThreads,   \* --threads: the number of clients
  MeasureType,  \* "NUM_OF_TRXS" (--trxs) or "TIME_DUR" (--duration)
  NumTrxs,      \* --trxs: the transactions to execute, all clients together
  MaxBatch,     \* run_xcts' max_batch, 100000 in the code
  BatchSize,    \* db-cl-batchsz, the batch of a time-bound run
  Loops,        \* db-worker-queueloops: spins before the worker sleeps
  MaxBatches    \* bound of the model: batches one client of a time-bound run submits

ASSUME ConstantsAssumption ==
  /\ NumThreads \in Nat \ {0}
  /\ MeasureType \in {"NUM_OF_TRXS", "TIME_DUR"}
  /\ NumTrxs \in Nat
  /\ MaxBatch \in Nat \ {0}
  /\ BatchSize \in Nat \ {0}
  /\ Loops \in Nat
  /\ MaxBatches \in Nat \ {0, 1}

Clients == 0 .. NumThreads - 1

TimeBound == MeasureType = "TIME_DUR"

\* The share of the transactions one client is given.
TrxsPerThread == NumTrxs \div NumThreads

NoCondex == -1  \* a request whose result carries no condex

Requests == [client : Clients, id : Nat, notify : Slots \cup {NoCondex}]

VARIABLES
  \* the worker's shared state
  control,   \* _control: "PAUSED", "ACTIVE" or "STOPPED"
  ws,        \* _ws, the working state
  notify,    \* _notify, the condex the worker sleeps on
  \* the queue
  writers,   \* _for_writers
  readers,   \* what _for_readers still holds from _read_pos on
  empty,     \* _empty
  \* the worker's own state
  wpc,       \* where the worker is
  loopcnt,   \* wait_for_input's spin counter
  req,       \* the request in hand, a sequence of at most one
  \* the clients, one entry each
  cpc,       \* where the client is
  pair,      \* _cp
  left,      \* requests of the current batch not yet submitted
  cnt,       \* trx_cnt: requests submitted
  leaving,   \* the client left the loop of a time-bound run
  \* the main thread
  mpc,       \* where the main thread is
  measure,   \* the environment's measurement state
  \* history
  served     \* how many requests of each client the worker has run

workerVars == <<wpc, loopcnt, req>>
queueVars  == <<writers, readers, empty>>
clientVars == <<cpc, pair, left, cnt, leaving>>
mainVars   == <<mpc, measure>>
vars == <<control, ws, notify, queueVars, workerVars, clientVars, mainVars, served>>

-----------------------------------------------------------------------------
(***************************************************************************)
(* Types.                                                                  *)
(***************************************************************************)
WorkerLabels ==
  {"unborn", "switch", "active", "setloop", "pop", "empty", "control", "finish",
   "cancontinue", "canloop", "sleep", "wait", "blocked", "swap", "serve", "notify", "stopped",
   "exited"}

ClientLabels ==
  {"unborn", "submit", "setws", "signal", "wait", "blocked", "check", "exited"}

MainLabels ==
  {"start", "run", "measuring", "join", "stop", "stopcheck", "stopsignal",
   "stopjoin", "end"}

TypeOK ==
  /\ control \in {"PAUSED", "ACTIVE", "STOPPED"}
  /\ ws \in {"UNDEF", "LOOP", "SLEEP", "INPUT_Q", "FINISHED"}
  /\ notify \in Condexes
  /\ writers \in Seq(Requests)
  /\ readers \in Seq(Requests)
  /\ empty \in BOOLEAN
  /\ wpc \in WorkerLabels
  /\ loopcnt \in Nat
  /\ req \in Seq(Requests)
  /\ cpc \in [Clients -> ClientLabels]
  /\ pair \in [Clients -> CondexPairs]
  /\ left \in [Clients -> Nat]
  /\ cnt \in [Clients -> Nat]
  /\ leaving \in [Clients -> BOOLEAN]
  /\ mpc \in MainLabels
  /\ measure \in {"UNDEF", "MEASURE", "DONE"}
  /\ served \in [Clients -> Nat]

-----------------------------------------------------------------------------
Init ==
  /\ control = "PAUSED"
  /\ ws = "UNDEF"
  /\ notify = NewCondex
  /\ writers = <<>>
  /\ readers = <<>>
  /\ empty = TRUE
  /\ wpc = "unborn"
  /\ loopcnt = 0
  /\ req = <<>>
  /\ cpc = [c \in Clients |-> "unborn"]
  /\ pair = [c \in Clients |-> NewCondexPair]
  /\ left = [c \in Clients |-> 0]
  /\ cnt = [c \in Clients |-> 0]
  /\ leaving = [c \in Clients |-> FALSE]
  /\ mpc = "start"
  /\ measure = "UNDEF"
  /\ served = [c \in Clients |-> 0]

(***************************************************************************)
(* set_ws as the worker itself calls it.  The compare-and-exchange loop is *)
(* one atomic exchange; the wake-up that follows when the old state was    *)
(* SLEEP only adds to a counter nobody but the worker waits on, so it is   *)
(* taken with the exchange.  (The test for COMMIT_Q is left out: no code   *)
(* sets that state.)                                                       *)
(***************************************************************************)
WorkerSetWs(new) ==
  /\ ws' = new
  /\ notify' = IF ws = "SLEEP" THEN Signal(notify) ELSE notify

-----------------------------------------------------------------------------
(***************************************************************************)
(* The worker.                                                             *)
(***************************************************************************)
\* work(): one turn of the state machine.
WorkSwitch ==
  /\ wpc = "switch"
  /\ wpc' = IF control = "ACTIVE" THEN "active" ELSE "stopped"
  /\ UNCHANGED <<control, ws, notify, queueVars, loopcnt, req, clientVars, mainVars, served>>

\* Mutant of ActiveLoop: the loop never ends.
ActiveForever ==
  /\ wpc = "active"
  /\ wpc' = "setloop"
  /\ UNCHANGED <<control, ws, notify, queueVars, loopcnt, req, clientVars, mainVars, served>>

\* _work_ACTIVE_impl(): the loop's test, back to work() when it fails.
ActiveLoop ==
  /\ wpc = "active"
  /\ wpc' = IF control = "ACTIVE" THEN "setloop" ELSE "switch"
  /\ UNCHANGED <<control, ws, notify, queueVars, loopcnt, req, clientVars, mainVars, served>>

\* _work_ACTIVE_impl(): set_ws(WS_LOOP).
SetLoop ==
  /\ wpc = "setloop"
  /\ WorkerSetWs("LOOP")
  /\ wpc' = "pop"
  /\ UNCHANGED <<control, queueVars, loopcnt, req, clientVars, mainVars, served>>

\* Mutant of Pop: serves the newest request of the vector first.
PopNewest ==
  /\ wpc = "pop"
  /\ IF readers # <<>>
     THEN /\ req' = <<readers[Len(readers)]>>
          /\ readers' = SubSeq(readers, 1, Len(readers) - 1)
          /\ wpc' = "serve"
          /\ UNCHANGED loopcnt
     ELSE /\ wpc' = "empty"
          /\ loopcnt' = 0
          /\ UNCHANGED <<req, readers>>
  /\ UNCHANGED <<control, ws, notify, writers, empty, clientVars, mainVars, served>>

\* pop(): the next request of the readers' vector, or wait_for_input() if none.
Pop ==
  /\ wpc = "pop"
  /\ IF readers # <<>>
     THEN /\ req' = <<Head(readers)>>
          /\ readers' = Tail(readers)
          /\ wpc' = "serve"
          /\ UNCHANGED loopcnt
     ELSE /\ wpc' = "empty"
          /\ loopcnt' = 0
          /\ UNCHANGED <<req, readers>>
  /\ UNCHANGED <<control, ws, notify, writers, empty, clientVars, mainVars, served>>

\* wait_for_input(): while (_empty).
CheckEmpty ==
  /\ wpc = "empty"
  /\ wpc' = IF empty THEN "control" ELSE "swap"
  /\ UNCHANGED <<control, ws, notify, queueVars, loopcnt, req, clientVars, mainVars, served>>

\* wait_for_input() 2: is the worker still active?
CheckControl ==
  /\ wpc = "control"
  /\ wpc' = IF control = "ACTIVE" THEN "cancontinue" ELSE "finish"
  /\ UNCHANGED <<control, ws, notify, queueVars, loopcnt, req, clientVars, mainVars, served>>

\* wait_for_input() 2: set_ws(WS_FINISHED), and pop() returns NULL.
SetFinished ==
  /\ wpc = "finish"
  /\ WorkerSetWs("FINISHED")
  /\ wpc' = "active"
  /\ UNCHANGED <<control, queueVars, loopcnt, req, clientVars, mainVars, served>>

\* wait_for_input() 4: spin again, or sleep.
SpinOrSleep ==
  /\ loopcnt' = loopcnt + 1
  /\ wpc' = IF loopcnt + 1 > Loops THEN "sleep" ELSE "empty"

\* wait_for_input() 3: can_continue() reads _ws up to twice; a push between the two
\* reads makes it false, and pop() returns NULL.
CanContinue ==
  /\ wpc = "cancontinue"
  /\ IF ws = "INPUT_Q"
     THEN SpinOrSleep
     ELSE wpc' = "canloop" /\ UNCHANGED loopcnt
  /\ UNCHANGED <<control, ws, notify, queueVars, req, clientVars, mainVars, served>>

CanContinueLoop ==
  /\ wpc = "canloop"
  /\ IF ws = "LOOP"
     THEN SpinOrSleep
     ELSE wpc' = "active" /\ UNCHANGED loopcnt
  /\ UNCHANGED <<control, ws, notify, queueVars, req, clientVars, mainVars, served>>

\* condex_sleep(): the exchange takes any old state to SLEEP.
CondexSleep ==
  /\ wpc = "sleep"
  /\ ws' = "SLEEP"
  /\ wpc' = "wait"
  /\ UNCHANGED <<control, notify, queueVars, loopcnt, req, clientVars, mainVars, served>>

\* condex_sleep(): _notify.wait(), first its count, then its return; the result
\* of condex_sleep, 1, becomes the spin counter.
CondexWait ==
  /\ wpc = "wait"
  /\ notify' = StartWait(notify)
  /\ wpc' = "blocked"
  /\ UNCHANGED <<control, ws, queueVars, loopcnt, req, clientVars, mainVars, served>>

CondexWake ==
  /\ wpc = "blocked"
  /\ MayReturn(notify)
  /\ loopcnt' = 1
  /\ wpc' = "empty"
  /\ UNCHANGED <<control, ws, notify, queueVars, req, clientVars, mainVars, served>>

\* Mutants of SwapVectors: the writers' vector is copied and not swapped; _empty is
\* not set again.
CopyVectors ==
  /\ wpc = "swap"
  /\ readers' = writers
  /\ empty' = TRUE
  /\ wpc' = "pop"
  /\ UNCHANGED <<control, ws, notify, writers, loopcnt, req, clientVars, mainVars, served>>

SwapWithoutReset ==
  /\ wpc = "swap"
  /\ readers' = writers
  /\ writers' = <<>>
  /\ wpc' = "pop"
  /\ UNCHANGED <<control, ws, notify, empty, loopcnt, req, clientVars, mainVars, served>>

\* wait_for_input(): under the lock, the two vectors change roles.  The readers'
\* vector is erased first; pop() then reads its first entry.
SwapVectors ==
  /\ wpc = "swap"
  /\ readers' = writers
  /\ writers' = <<>>
  /\ empty' = TRUE
  /\ wpc' = "pop"
  /\ UNCHANGED <<control, ws, notify, loopcnt, req, clientVars, mainVars, served>>

\* _serve_action(): the transaction begins, runs, and commits or aborts.
ServeAction ==
  /\ wpc = "serve"
  /\ LET c == Head(req).client
     IN  served' = [served EXCEPT ![c] = @ + 1]
  /\ wpc' = "notify"
  /\ UNCHANGED <<control, ws, notify, queueVars, loopcnt, req, clientVars, mainVars>>

\* notify_client(), at the end of run_one_xct whatever the outcome; the request is
\* then destroyed.
NotifyClient ==
  /\ wpc = "notify"
  /\ LET r == Head(req)
     IN  pair' = IF r.notify = NoCondex
                 THEN pair
                 ELSE [pair EXCEPT ![r.client] = SignalSlot(@, r.notify)]
  /\ req' = <<>>
  /\ wpc' = "active"
  /\ UNCHANGED <<control, ws, notify, queueVars, loopcnt, cpc, left, cnt, leaving, mainVars, served>>

\* _pre_STOP_impl(): the read position passes over both vectors, to abort what is there.
PreStop == readers' = <<>>

\* _work_STOPPED_impl(): no transaction is attached to the thread and no worker is
\* linked behind it; work() returns.
WorkStopped ==
  /\ wpc = "stopped"
  /\ PreStop
  /\ wpc' = "exited"
  /\ UNCHANGED <<control, ws, notify, writers, empty, loopcnt, req, clientVars, mainVars, served>>

Worker ==
  \/ WorkSwitch \/ ActiveLoop \/ SetLoop \/ Pop
  \/ CheckEmpty \/ CheckControl \/ SetFinished
  \/ CanContinue \/ CanContinueLoop
  \/ CondexSleep \/ CondexWait \/ CondexWake \/ SwapVectors
  \/ ServeAction \/ NotifyClient \/ WorkStopped

-----------------------------------------------------------------------------
(***************************************************************************)
(* A client.                                                               *)
(***************************************************************************)
\* The size of the batch that starts after n submitted requests.  A run of a
\* number of transactions submits at most MaxBatch at a time.
BatchLen(n) ==
  IF TimeBound THEN BatchSize
  ELSE IF TrxsPerThread - n > MaxBatch THEN MaxBatch ELSE TrxsPerThread - n

\* submit_batch(): its loop, which an empty batch leaves at once, after which
\* run_xcts waits for the batch.
StartBatch(c) ==
  /\ left' = [left EXCEPT ![c] = BatchLen(cnt[c])]
  /\ cpc' = [cpc EXCEPT ![c] = IF BatchLen(cnt[c]) = 0 THEN "wait" ELSE "submit"]

\* Mutants of AfterEnqueue: the batch loop runs once too often; three batches are
\* submitted before the first wait.
AfterEnqueueOnceMore(c) ==
  IF left[c] >= 0
  THEN cpc' = [cpc EXCEPT ![c] = "submit"] /\ UNCHANGED left
  ELSE cpc' = [cpc EXCEPT ![c] = "wait"] /\ UNCHANGED left

AfterEnqueueThree(c) ==
  IF left[c] > 0
  THEN cpc' = [cpc EXCEPT ![c] = "submit"] /\ UNCHANGED left
  ELSE IF TimeBound /\ pair[c].requested \in {1, 2}
       THEN StartBatch(c)
       ELSE cpc' = [cpc EXCEPT ![c] = "wait"] /\ UNCHANGED left

\* What follows an enqueued request: the rest of the batch; in a time-bound run the
\* second of the first two batches; or the wait for the oldest batch.
AfterEnqueue(c) ==
  IF left[c] > 0
  THEN cpc' = [cpc EXCEPT ![c] = "submit"] /\ UNCHANGED left
  ELSE IF TimeBound /\ pair[c].requested = 1
       THEN StartBatch(c)
       ELSE cpc' = [cpc EXCEPT ![c] = "wait"] /\ UNCHANGED left

\* Mutant of Push: the first request of a batch takes the condex.
PushFirstNotifies(c) ==
  /\ cpc[c] = "submit"
  /\ LET p == IF left[c] = BatchLen(cnt[c]) THEN PleaseTakeOne(pair[c]) ELSE pair[c]
         r == [client |-> c, id |-> cnt[c],
               notify |-> IF CanTakeOne(p) THEN TakenSlot(p) ELSE NoCondex]
     IN  /\ writers' = Append(writers, r)
         /\ pair' = [pair EXCEPT ![c] = IF CanTakeOne(p) THEN TakeOne(p) ELSE p]
  /\ empty' = FALSE
  /\ cnt' = [cnt EXCEPT ![c] = @ + 1]
  /\ left' = [left EXCEPT ![c] = @ - 1]
  /\ cpc' = [cpc EXCEPT ![c] = "setws"]
  /\ UNCHANGED <<control, ws, notify, readers, workerVars, leaving, mainVars, served>>

\* submit_one(): the last request of a batch takes the condex; the request is built
\* and pushed under the queue's lock.  init() sets _thres to 0, so the pusher always
\* goes on to set_ws.
Push(c) ==
  /\ cpc[c] = "submit"
  /\ LET p == IF left[c] = 1 THEN PleaseTakeOne(pair[c]) ELSE pair[c]
         r == [client |-> c, id |-> cnt[c],
               notify |-> IF CanTakeOne(p) THEN TakenSlot(p) ELSE NoCondex]
     IN  /\ writers' = Append(writers, r)
         /\ pair' = [pair EXCEPT ![c] = IF CanTakeOne(p) THEN TakeOne(p) ELSE p]
  /\ empty' = FALSE
  /\ cnt' = [cnt EXCEPT ![c] = @ + 1]
  /\ left' = [left EXCEPT ![c] = @ - 1]
  /\ cpc' = [cpc EXCEPT ![c] = "setws"]
  /\ UNCHANGED <<control, ws, notify, readers, workerVars, leaving, mainVars, served>>

\* Mutant of ClientSetWs: the old state is not looked at, so nobody is woken up.
ClientSetWsNoWakeup(c) ==
  /\ cpc[c] = "setws"
  /\ ws' = "INPUT_Q"
  /\ AfterEnqueue(c)
  /\ UNCHANGED <<control, notify, queueVars, workerVars, pair, cnt, leaving, mainVars, served>>

\* push(): set_ws(WS_INPUT_Q), which wakes the worker up if it was asleep.
ClientSetWs(c) ==
  /\ cpc[c] = "setws"
  /\ ws' = "INPUT_Q"
  /\ IF ws = "SLEEP"
     THEN cpc' = [cpc EXCEPT ![c] = "signal"] /\ UNCHANGED left
     ELSE AfterEnqueue(c)
  /\ UNCHANGED <<control, notify, queueVars, workerVars, pair, cnt, leaving, mainVars, served>>

\* set_ws(): condex_wakeup().
ClientSignal(c) ==
  /\ cpc[c] = "signal"
  /\ notify' = Signal(notify)
  /\ AfterEnqueue(c)
  /\ UNCHANGED <<control, ws, queueVars, workerVars, pair, cnt, leaving, mainVars, served>>

\* _cp->wait() is called...
BatchWait(c) ==
  /\ cpc[c] = "wait"
  /\ pair' = [pair EXCEPT ![c] = StartPairWait(@)]
  /\ cpc' = [cpc EXCEPT ![c] = "blocked"]
  /\ UNCHANGED <<control, ws, notify, queueVars, workerVars, left, cnt, leaving, mainVars, served>>

\* ... and returns.
BatchDone(c) ==
  /\ cpc[c] = "blocked"
  /\ MayReturnPair(pair[c])
  /\ IF TimeBound
     THEN /\ cpc' = [cpc EXCEPT ![c] = IF leaving[c] THEN "exited" ELSE "check"]
          /\ UNCHANGED left
     ELSE IF cnt[c] < TrxsPerThread
          THEN StartBatch(c)
          ELSE cpc' = [cpc EXCEPT ![c] = "exited"] /\ UNCHANGED left
  /\ UNCHANGED <<control, ws, notify, queueVars, workerVars, pair, cnt, leaving, mainVars, served>>

\* Mutant of ExitLoop: the client ends without the wait for its last batch.
ExitLoopAtOnce(c) ==
  /\ cpc[c] = "check"
  /\ measure = "DONE"
  /\ leaving' = [leaving EXCEPT ![c] = TRUE]
  /\ cpc' = [cpc EXCEPT ![c] = "exited"]
  /\ UNCHANGED <<control, ws, notify, queueVars, workerVars, pair, left, cnt, mainVars, served>>

\* The loop of a time-bound run: the measurement is over and the client waits for
\* its last batch, or it submits a replacement batch.
ExitLoop(c) ==
  /\ cpc[c] = "check"
  /\ measure = "DONE"
  /\ leaving' = [leaving EXCEPT ![c] = TRUE]
  /\ cpc' = [cpc EXCEPT ![c] = "wait"]
  /\ UNCHANGED <<control, ws, notify, queueVars, workerVars, pair, left, cnt, mainVars, served>>

ReplaceBatch(c) ==
  /\ cpc[c] = "check"
  /\ measure # "DONE"
  /\ pair[c].requested < MaxBatches  \* bound of the model
  /\ StartBatch(c)
  /\ UNCHANGED <<control, ws, notify, queueVars, workerVars, pair, cnt, leaving, mainVars, served>>

Client(c) ==
  \/ Push(c) \/ ClientSetWs(c) \/ ClientSignal(c)
  \/ BatchWait(c) \/ BatchDone(c) \/ ExitLoop(c) \/ ReplaceBatch(c)

-----------------------------------------------------------------------------
(***************************************************************************)
(* The main thread.                                                        *)
(***************************************************************************)
\* ShoreEnv::start(): start(), whose is_sleeping() is false before the fork, and
\* fork() of the worker.
StartWorker ==
  /\ mpc = "start"
  /\ control' = "ACTIVE"
  /\ wpc' = "switch"
  /\ mpc' = "run"
  /\ UNCHANGED <<ws, notify, queueVars, loopcnt, req, clientVars, measure, served>>

\* KitsCommand::runBenchmarkSpec(): measurement starts and the clients are forked.
RunBenchmark ==
  /\ mpc = "run"
  /\ NumTrxs > 0 \/ TimeBound
  /\ measure' = "MEASURE"
  /\ left' = [c \in Clients |-> BatchLen(0)]
  /\ cpc' = [c \in Clients |-> IF BatchLen(0) = 0 THEN "wait" ELSE "submit"]
  /\ mpc' = "measuring"
  /\ UNCHANGED <<control, ws, notify, queueVars, workerVars, pair, cnt, leaving, served>>

\* KitsCommand::run() of a command that only loads, without --trxs and --duration
\* whatever the constants say: on to finish().
SkipBenchmark ==
  /\ mpc = "run"
  /\ mpc' = "stop"
  /\ UNCHANGED <<control, ws, notify, queueVars, workerVars, clientVars, measure, served>>

\* runBenchmarkSpec(): the time is over, or at once when trxs are counted.
EndMeasurement ==
  /\ mpc = "measuring"
  /\ measure' = "DONE"
  /\ mpc' = "join"
  /\ UNCHANGED <<control, ws, notify, queueVars, workerVars, clientVars, served>>

\* Mutant of JoinClients: the clients are not joined.
ForgetClients ==
  /\ mpc = "join"
  /\ mpc' = "stop"
  /\ UNCHANGED <<control, ws, notify, queueVars, workerVars, clientVars, measure, served>>

JoinClients ==
  /\ mpc = "join"
  /\ \A c \in Clients : cpc[c] = "exited"
  /\ mpc' = "stop"
  /\ UNCHANGED <<control, ws, notify, queueVars, workerVars, clientVars, measure, served>>

\* base_worker_t::stop(): set_control(WC_STOPPED), allowed from ACTIVE...
SetStopped ==
  /\ mpc = "stop"
  /\ control' = "STOPPED"
  /\ mpc' = "stopcheck"
  /\ UNCHANGED <<ws, notify, queueVars, workerVars, clientVars, measure, served>>

\* Mutant of StopCheck: stop() leaves a sleeping worker asleep.
StopUnseen ==
  /\ mpc = "stopcheck"
  /\ mpc' = "stopjoin"
  /\ UNCHANGED <<control, ws, notify, queueVars, workerVars, clientVars, measure, served>>

\* ... is_sleeping()...
StopCheck ==
  /\ mpc = "stopcheck"
  /\ mpc' = IF ws = "SLEEP" THEN "stopsignal" ELSE "stopjoin"
  /\ UNCHANGED <<control, ws, notify, queueVars, workerVars, clientVars, measure, served>>

\* ... and the signal.
StopSignal ==
  /\ mpc = "stopsignal"
  /\ notify' = Signal(notify)
  /\ mpc' = "stopjoin"
  /\ UNCHANGED <<control, ws, queueVars, workerVars, clientVars, measure, served>>

\* ShoreEnv::stop(): the worker is joined and deleted.
JoinWorker ==
  /\ mpc = "stopjoin"
  /\ wpc = "exited"
  /\ mpc' = "end"
  /\ UNCHANGED <<control, ws, notify, queueVars, workerVars, clientVars, measure, served>>

Main ==
  \/ StartWorker \/ RunBenchmark \/ SkipBenchmark \/ EndMeasurement
  \/ JoinClients \/ SetStopped \/ StopCheck \/ StopSignal \/ JoinWorker

-----------------------------------------------------------------------------
Next ==
  \/ Worker
  \/ \E c \in Clients : Client(c)
  \/ Main

Spec == Init /\ [][Next]_vars

(***************************************************************************)
(* The threads are scheduled preemptively by the operating system, and no  *)
(* lock is held from one action to the next: a thread that can go on does. *)
(***************************************************************************)
Fairness ==
  /\ WF_vars(Worker)
  /\ \A c \in Clients : WF_vars(Client(c))
  /\ WF_vars(Main)

FairSpec == Spec /\ Fairness

-----------------------------------------------------------------------------
(***************************************************************************)
(* Safety.                                                                 *)
(***************************************************************************)
\* The requests enqueued and not run yet, in the order the worker will run them.
Pending == (IF wpc = "serve" THEN req ELSE <<>>) \o readers \o writers

\* The queue of two vectors is a FIFO queue that loses and repeats nothing: the
\* requests of a client that were submitted and not run are exactly the ones
\* enqueued, in the order they were submitted (srmwqueue's push, pop and the swap in
\* wait_for_input).
QueueIsFIFO ==
  \A c \in Clients :
    LET mine == {i \in DOMAIN Pending : Pending[i].client = c}
    IN  /\ {Pending[i].id : i \in mine} = served[c] .. cnt[c] - 1
        /\ \A i, j \in mine : i < j => Pending[i].id < Pending[j].id

\* The swap happens only when the writers' vector holds a request, so pop() never
\* dereferences end(), and only when the readers' vector was read to its end, so
\* erasing it loses nothing (wait_for_input, pop).
SwapFindsWork ==
  wpc = "swap" => writers # <<>> /\ readers = <<>>

\* The worker is asleep: it counted, or is about to count, a wait that no signal
\* answers yet.
Asleep ==
  \/ wpc = "wait" /\ notify.signals = notify.waits
  \/ wpc = "blocked" /\ ~MayReturn(notify)

\* A sleeping worker is always marked SLEEP, or exactly one client saw the mark and
\* is about to signal: whoever pushes next will wake it up, and nobody's signal is
\* spent on a worker that is not asleep (set_ws, condex_sleep, condex_wakeup).
SleeperIsMarked ==
  LET signallers == {c \in Clients : cpc[c] = "signal"}
  IN  /\ Asleep => (ws = "SLEEP" <=> signallers = {})
      /\ \A c, d \in signallers : c = d
      /\ signallers # {} => Asleep

\* How many calls of _cp->wait() of client c have returned.
Returned(c) == pair[c].waited - (IF cpc[c] = "blocked" THEN 1 ELSE 0)

\* The requests client c submits in its first n batches.
FirstBatches(n) ==
  IF TimeBound THEN n * BatchSize
  ELSE IF n * MaxBatch > TrxsPerThread THEN TrxsPerThread ELSE n * MaxBatch

\* When the n-th wait of a client has returned, every request of its first n batches
\* has been run (submit_batch gives the condex to the last request only; the worker
\* serves in order and notifies after the transaction).
WaitMeansBatchServed ==
  \A c \in Clients : served[c] >= FirstBatches(Returned(c))

\* Two requests in flight never share a condex, and a condex in flight holds no
\* signal the client has not consumed: with the two slots of condex_pair a client
\* may have two batches outstanding and never a third (take_one, run_xcts).
SlotsNotShared ==
  LET flight == (IF wpc = "notify" THEN req ELSE <<>>) \o Pending
  IN  \A i \in DOMAIN flight :
        flight[i].notify # NoCondex =>
          /\ LET w == pair[flight[i].client].wait[flight[i].notify]
             IN  w.signals <= w.waits
          /\ \A j \in DOMAIN flight \ {i} :
               flight[j].client = flight[i].client => flight[j].notify # flight[i].notify

\* The assertion of condex_pair::wait(): a client waits only for a batch whose
\* condex was taken (w_assert1(_waited < _requested), compiled out of a release).
WaitsOnlyForTaken ==
  \A c \in Clients : cpc[c] = "wait" => Outstanding(pair[c]) > 0

\* No request outlives its client: once the thread of a client is over, which lets
\* the main thread delete the client and its condexes, the queue holds no request of
\* it and the worker is not about to signal one of its condexes.
NoRequestOutlivesClient ==
  \A c \in Clients :
    cpc[c] = "exited" =>
      /\ \A i \in DOMAIN Pending : Pending[i].client # c
      /\ wpc = "notify" /\ Head(req).client = c => Head(req).notify = NoCondex

\* _pre_STOP_impl finds no request to abort: it would pass abort_one_trx the
\* transaction of a request that never began one, NULL.
NothingLeftAtStop ==
  wpc = "stopped" => readers = <<>> /\ writers = <<>>

-----------------------------------------------------------------------------
(***************************************************************************)
(* Liveness.                                                               *)
(***************************************************************************)
\* The worker sleeps although requests wait and every pusher is past its set_ws: the
\* exchange of condex_sleep overwrote the INPUT_Q of the push.
Stranded ==
  /\ Asleep
  /\ writers # <<>>
  /\ ws = "SLEEP"
  /\ \A c \in Clients : cpc[c] # "setws"

\* The worker sleeps although it was told to stop: stop() looked at _ws before
\* condex_sleep set it.
StopMissed ==
  /\ Asleep
  /\ control = "STOPPED"
  /\ mpc = "stopjoin"

\* Only the two lost wake-ups can keep the program from ending: every run ends, with
\* all batches waited for and the worker joined, or is stuck for ever with the worker
\* asleep over a non-empty queue or over a stop.
OnlyLostWakeupsHang ==
  <>(mpc = "end") \/ <>[](Stranded \/ StopMissed)

\* stop() wakes up and ends a worker that is asleep when it looks: only one that is
\* still on its way to sleep can miss the stop.
StopWakesSleeper ==
  (mpc = "stopcheck" /\ Asleep) ~> mpc = "end"

\* A push always wakes the worker up, from a lost wake-up too: when a client is about
\* to set INPUT_Q the worker leaves its sleep.
PushWakesWorker ==
  (Asleep /\ \E c \in Clients : cpc[c] \in {"setws", "signal"}) ~> ~Asleep

-----------------------------------------------------------------------------
(***************************************************************************)
(* The worker implements the batch service: its two vectors are one FIFO   *)
(* queue, and a batch is completed by the run of its last request, which   *)
(* its condex announces later.                                             *)
(***************************************************************************)
SignalsOf(c) == pair[c].wait[0].signals + pair[c].wait[1].signals

Announcing(c) ==
  wpc = "notify" /\ Head(req).client = c /\ Head(req).notify # NoCondex

Service == INSTANCE BatchService WITH
  Clients   <- Clients,
  queue     <- [i \in DOMAIN Pending |->
                  [client |-> Pending[i].client, last |-> Pending[i].notify # NoCondex]],
  completed <- [c \in Clients |-> SignalsOf(c) + (IF Announcing(c) THEN 1 ELSE 0)],
  returned  <- [c \in Clients |-> Returned(c)],
  open      <- wpc # "exited"

\* Clients, queue, worker and condexes together are the batch service: a wait returns
\* only for a batch that was run to its last request, in the order of submission, and
\* the worker ends only when nothing is owed to anybody.
ImplementsBatchService == Service!Spec
=============================================================================
