------------------------------ MODULE Workload ------------------------------
(***************************************************************************)
(* What the options of a command make of the environment, and what the     *)
(* transactions of its benchmark ask for: the part of KitsCommand,         *)
(* ShoreEnv, the TPC-B client and create_*_input that decides which rows   *)
(* are read and written.                                                   *)
(*                                                                         *)
(* Nothing on disk says how many branches there are: a command believes    *)
(* its own option.  Branches are numbered from 0 in the tables and from 1  *)
(* in the clients, where 0 is any of them.                                 *)
(*                                                                         *)
(* A failed assertion ends the command, or is not there in a release; a    *)
(* division by zero always ends it.                                        *)
(***************************************************************************)
EXTENDS Integers

CONSTANTS
  Tellers,    \* TPCB_TELLERS_PER_BRANCH, 10
  Accounts,   \* TPCB_ACCOUNTS_PER_BRANCH, 100000
  MaxThreads, \* MAX_NUM_OF_THR, 1000
  Options,    \* the options of the command, and db-workers of its configuration file
  Databases,  \* how many branches earlier commands may have left
  Unset       \* what a factor may hold that nobody has written

WorkloadAssumption ==
  /\ Tellers \in Nat \ {0} /\ Accounts \in Nat \ {0} /\ MaxThreads \in Nat
  /\ \A o \in Options : /\ o.queried_sf \in Int
                        /\ {o.num_threads, o.num_trxs, o.duration, o.workers} \subseteq Nat
                        /\ {o.load, o.spread, o.dbfile} \subseteq BOOLEAN
  /\ Databases \subseteq Nat /\ Unset \subseteq Nat

VARIABLES
  opt,        \* the options, as they were given
  step,       \* where the main thread is; "down" once the command has failed
  sf, qf,     \* _scaling_factor, _queried_factor
  workerCnt,  \* _worker_cnt
  branches,   \* the branches of the database
  clients,    \* a record for each client thread
  asked       \* the input of the transaction that was made last

vars == <<opt, step, sf, qf, workerCnt, branches, clients, asked>>

Nothing == [client |-> -1, b_id |-> -1, t_id |-> -1, a_id |-> -1]

TypeOK ==
  /\ opt \in Options
  /\ step \in {"options", "init", "start", "load", "benchmark", "running", "down"}
  /\ sf \in Nat /\ qf \in Nat /\ workerCnt \in Nat /\ branches \in Nat
  /\ \A i \in DOMAIN clients : clients[i] \in [selid : Nat, notrxs : Nat, worker : Nat]
  /\ asked \in [client : Int, b_id : Int, t_id : Int, a_id : Int]

Init ==
  /\ opt \in Options
  /\ step = "options"
  /\ sf \in Unset /\ qf \in Unset
  /\ workerCnt = 0
  /\ branches \in Databases
  /\ clients = <<>>
  /\ asked = Nothing

\* What follows an assertion.
After(asserted, next) == IF asserted THEN {next} ELSE {next, "down"}
Fails == step' = "down" /\ UNCHANGED <<opt, sf, qf, workerCnt, branches, clients, asked>>

-----------------------------------------------------------------------------
SetSf(f) == IF f > 0 THEN sf' = f ELSE UNCHANGED sf
SetQf(f) == IF f > 0 /\ f <= sf' THEN qf' = f ELSE UNCHANGED qf

\* loadOptions() refuses an empty name of the database file.
NoDbFile ==
  /\ step = "options" /\ ~opt.dbfile
  /\ Fails

\* initShoreEnv(): the one option is both factors.
InitShoreEnv ==
  /\ step = "options" /\ opt.dbfile
  /\ step' = "init"
  /\ SetSf(opt.queried_sf) /\ SetQf(opt.queried_sf)
  /\ UNCHANGED <<opt, workerCnt, branches, clients, asked>>

UpdWorkerCnt == workerCnt' = opt.workers

\* init(): configure_sm() ends with the number of workers.
ConfigureSm ==
  /\ step = "init"
  /\ UpdWorkerCnt
  /\ step' \in After(opt.workers # 0, "start")
  /\ UNCHANGED <<opt, sf, qf, branches, clients, asked>>

\* start(): with --load the database is empty; else post_init() rereads the variables,
\* and the padding it may do is an empty function.
Start ==
  /\ step = "start"
  /\ UpdWorkerCnt
  /\ branches' = IF opt.load THEN 0 ELSE branches
  /\ step' \in After(opt.workers # 0, IF opt.load THEN "load" ELSE "benchmark")
  /\ UNCHANGED <<opt, sf, qf, clients, asked>>

\* create_tables() with a factor of 0, or with no loaders.
CannotDivide == sf = 0 \/ opt.num_threads = 0
LoadFails == step = "load" /\ CannotDivide /\ Fails

\* load() makes sf branches (module Loader, which has the case that it aborts).
Load ==
  /\ step = "load" /\ ~CannotDivide
  /\ branches' = sf
  /\ step' = "benchmark"
  /\ UNCHANGED <<opt, sf, qf, workerCnt, clients, asked>>

\* run(): whether there is a benchmark.
Measured == opt.num_trxs > 0 \/ opt.duration > 0
\* The branches that the clients are spread over.
QueriedSf == IF opt.queried_sf <= 0 THEN sf ELSE opt.queried_sf

\* Mutant of WhId: the client's branch is counted from 0, as the tables do.
WhIdFromZero(i, q) == IF opt.spread THEN i % q ELSE 0

\* The branch a client is told to stay at.
WhId(i, q) == IF opt.spread THEN (i % q) + 1 ELSE 0

\* runBenchmarkSpec() divides by the number of clients, and each client by the branches
\* and by the workers.  The array of clients is of a fixed size: a client that is
\* written past it may end the command.
BenchmarkFails ==
  /\ step = "benchmark" /\ Measured
  /\ \/ opt.duration = 0 /\ opt.num_threads = 0
     \/ opt.num_threads > 0 /\ ((opt.spread /\ QueriedSf = 0) \/ workerCnt = 0)
     \/ opt.num_threads > MaxThreads
  /\ Fails

\* runBenchmarkSpec() makes and forks the clients.
RunBenchmark ==
  /\ step = "benchmark" /\ Measured
  /\ opt.duration > 0 \/ opt.num_threads # 0
  /\ opt.num_threads > 0 => workerCnt # 0 /\ (opt.spread => QueriedSf # 0)
  /\ LET q == QueriedSf
         share == IF opt.duration > 0 THEN 0 ELSE opt.num_trxs \div opt.num_threads
     IN  /\ clients' = [i \in 0 .. opt.num_threads - 1 |->
                         [selid |-> WhId(i, q), notrxs |-> share, worker |-> i % workerCnt]]
         /\ step' \in After(opt.num_threads > 0 => q > 0 /\ (share # 0 \/ opt.duration > 0),
                            "running")
  /\ UNCHANGED <<opt, sf, qf, workerCnt, branches, asked>>

-----------------------------------------------------------------------------
\* UZRand(): any number from low to high; setZipf() is never called.
UZRand(low, high) == low .. high

\* The branches of create_*_input(): the client's, or any that is queried.
Branches(specificBr) == IF specificBr > 0 THEN {specificBr - 1} ELSE UZRand(0, qf - 1)

\* The inputs of the transactions: every account is of its branch, LOCAL_TPCB being 100.
AcctUpdateInput(b) ==
  {[b_id |-> b, t_id |-> b * Tellers + t, a_id |-> b * Accounts + a] :
     t \in UZRand(0, Tellers - 1), a \in UZRand(0, Accounts - 1)}
MbenchInsertOnlyInput(b) ==
  {[b_id |-> b, t_id |-> -1, a_id |-> b * Accounts + a] :
     a \in UZRand(0, Accounts - 1)}
MbenchDeleteOnlyInput(b) == MbenchInsertOnlyInput(b)
MbenchProbeOnlyInput(b) == MbenchInsertOnlyInput(b)
MbenchInsertDeleteInput(b) == MbenchInsertOnlyInput(b)
MbenchInsertProbeInput(b) == MbenchInsertOnlyInput(b)
MbenchDeleteProbeInput(b) == MbenchDeleteOnlyInput(b)
MbenchMixInput(b) == MbenchInsertOnlyInput(b)

Inputs(b) ==
  UNION {AcctUpdateInput(b), MbenchInsertOnlyInput(b), MbenchDeleteOnlyInput(b),
         MbenchProbeOnlyInput(b), MbenchInsertDeleteInput(b), MbenchInsertProbeInput(b),
         MbenchDeleteProbeInput(b), MbenchMixInput(b)}

\* run_*(): the input of a transaction of client i.
Ask(i) ==
  /\ step = "running"
  /\ \E b \in Branches(clients[i].selid) : \E in \in Inputs(b) :
       asked' = [client |-> i, b_id |-> in.b_id, t_id |-> in.t_id, a_id |-> in.a_id]
  /\ step' \in After(qf > 0, "running")
  /\ UNCHANGED <<opt, sf, qf, workerCnt, branches, clients>>

\* With a factor of 0 there is no branch to draw.
AskFails(i) ==
  /\ step = "running" /\ Branches(clients[i].selid) = {}
  /\ Fails

Next ==
  \/ NoDbFile \/ InitShoreEnv \/ ConfigureSm \/ Start \/ LoadFails \/ Load
  \/ BenchmarkFails \/ RunBenchmark
  \/ \E i \in DOMAIN clients : Ask(i) \/ AskFails(i)

Spec == Init /\ [][Next]_vars

-----------------------------------------------------------------------------
\* A transaction asks for what the database has, and for rows of one branch, when the
\* option is a number of branches that a load has made: so its probes find their rows.
\* Clients that are spread ask for branches of their own, in turn.
AsksForWhatIsThere ==
  asked # Nothing /\ opt.queried_sf \in 1 .. branches =>
    /\ asked.b_id \in 0 .. branches - 1
    /\ asked.t_id # -1 => asked.t_id \div Tellers = asked.b_id
    /\ asked.a_id \div Accounts = asked.b_id
    /\ opt.spread => asked.b_id = asked.client % opt.queried_sf

=============================================================================
