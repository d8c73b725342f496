------------------------------- MODULE TpcbXct -------------------------------
(***************************************************************************)
(* The account update of TPC-B as the workers run it: the wrapper          *)
(* run_acct_update (shore_env.h), xct_acct_update (tpcb_xct.cpp) with the  *)
(* table manager's probe, update and add (table_man.cpp), the counters of  *)
(* threads and environment, and the print of the throughput.               *)
(*                                                                         *)
(* The storage manager is external.  A probe takes a shared lock on the    *)
(* key, update and add an exclusive one; a lock is held until the end of   *)
(* the transaction; a call that closes a cycle of waits fails with a       *)
(* deadlock; any call may fail; an abort takes everything back.            *)
(***************************************************************************)
EXTENDS RowFormat, FiniteSets

CONSTANTS
  NumWorkers,         \* db-workers
  ScalingFactor,      \* the branches that were loaded
  QueriedFactor,      \* --queried_sf of the benchmark
  TellersPerBranch,   \* TPCB_TELLERS_PER_BRANCH
  AccountsPerBranch,  \* TPCB_ACCOUNTS_PER_BRANCH
  Deltas,             \* what an update may add
  MaxTrxs,            \* bound: how many requests the workers serve
  MaxTime,            \* bound: the last second of the clock
  Garbled             \* a balance that was not read from a balance's bytes

ASSUME TpcbAssumption ==
  /\ NumWorkers \in Nat \ {0}
  /\ ScalingFactor \in Nat \ {0}
  /\ QueriedFactor \in Nat \ {0}
  /\ TellersPerBranch \in Nat \ {0}
  /\ AccountsPerBranch \in Nat \ {0}
  /\ Deltas \subseteq Int /\ IsFiniteSet(Deltas)
  /\ MaxTrxs \in Nat
  /\ MaxTime \in Nat \ {0}

Workers == 1 .. NumWorkers
BalanceTables == {"branch", "teller", "account"}

VARIABLES
  rows,      \* the tuples of the three balance tables, on disk, by id
  history,   \* the keys of the history table, on disk
  clock,     \* time(NULL)
  wpc,       \* where each worker is in the wrapper
  step,      \* its place in the transaction
  input,     \* acct_update_input_t
  tuple,     \* the tuple it has in memory
  locks,     \* its locks: table, key and mode
  undo,      \* the balance tables as its transaction found them, what it changed
  added,     \* the history rows of its transaction
  err,       \* how its transaction failed, or "ok"
  my_stats,  \* the thread-local counters
  env_stats, \* the environment's counters
  measure,   \* _measure
  mpc,       \* how many counters print_throughput() has read, then "done"
  report,    \* the sums it prints
  committed, \* history: transactions each worker committed
  before     \* history: commits and failures when the print began

db == <<rows, history, locks, undo, added>>
stats == <<my_stats, env_stats>>
main == <<measure, mpc, report, before>>
vars == <<db, clock, wpc, step, input, tuple, err, stats, main, committed>>

\* Mutant of AcctUpdate: first all probes, then all updates.
AcctUpdateDeferred ==
  << <<"probe", "account">>, <<"stamp", "history">>, <<"add", "history">>,
     <<"probe", "teller">>, <<"probe", "branch">>,
     <<"update", "account">>, <<"update", "teller">>, <<"update", "branch">> >>

\* The calls of xct_acct_update, in its order.
AcctUpdate ==
  << <<"probe", "account">>, <<"update", "account">>,
     <<"stamp", "history">>, <<"add", "history">>,
     <<"probe", "teller">>, <<"update", "teller">>,
     <<"probe", "branch">>, <<"update", "branch">> >>

NoInput == [b |-> 0, t |-> 0, a |-> 0, delta |-> 0]

Init ==
  /\ rows = [table \in BalanceTables |->
       CASE table = "branch" ->
              [b \in 0 .. ScalingFactor - 1 |->
                 Format("branch", <<Cells(b, IntSize), Cells(0, FloatSize)>>)]
         [] table = "teller" ->
              [t \in 0 .. ScalingFactor * TellersPerBranch - 1 |->
                 Format("teller", <<Cells(t, IntSize), Cells(t \div TellersPerBranch, IntSize),
                                    Cells(0, FloatSize)>>)]
         [] table = "account" ->
              [a \in 0 .. ScalingFactor * AccountsPerBranch - 1 |->
                 Format("account", <<Cells(a, IntSize), Cells(a \div AccountsPerBranch, IntSize),
                                     Cells(0, FloatSize)>>)]]
  /\ history = {}
  /\ clock = 1
  /\ wpc = [w \in Workers |-> "idle"]
  /\ step = [w \in Workers |-> 1]
  /\ input = [w \in Workers |-> NoInput]
  /\ tuple = [w \in Workers |-> <<>>]
  /\ locks = [w \in Workers |-> {}]
  /\ undo = [w \in Workers |-> <<>>]
  /\ added = [w \in Workers |-> {}]
  /\ err = [w \in Workers |-> "ok"]
  /\ my_stats = [w \in Workers |-> [attempted |-> 0, failed |-> 0, deadlocked |-> 0]]
  /\ env_stats = [att |-> 0, com |-> 0]
  /\ measure = "MEASURE"
  /\ mpc = 0
  /\ report = [attempted |-> 0, failed |-> 0, deadlocked |-> 0]
  /\ committed = [w \in Workers |-> 0]
  /\ before = [committed |-> 0, failures |-> 0]

-----------------------------------------------------------------------------
(***************************************************************************)
(* The storage manager.                                                    *)
(***************************************************************************)
Op(w) == AcctUpdate[step[w]][1]
Table(w) == AcctUpdate[step[w]][2]
InXct(w) == wpc[w] = "run" /\ step[w] <= Len(AcctUpdate)

\* The id that the transaction looks up in a balance table.
Id(w, table) ==
  CASE table = "branch" -> input[w].b
    [] table = "teller" -> input[w].t
    [] table = "account" -> input[w].a

\* The lock that the next call needs: a key, and whether the lock is exclusive.
NeedsLock(w) == InXct(w) /\ Op(w) # "stamp"
NextLock(w) ==
  IF Op(w) = "add"
  THEN [table |-> "history", key |-> FormatKey("history", tuple[w]), excl |-> TRUE]
  ELSE [table |-> Table(w), key |-> Cells(Id(w, Table(w)), IntSize), excl |-> Op(w) = "update"]

Conflict(l, m) == l.table = m.table /\ l.key = m.key /\ (l.excl \/ m.excl)

WaitsFor(w, v) ==
  v # w /\ NeedsLock(w) /\ \E l \in locks[v] : Conflict(l, NextLock(w))
Granted(w) == \A v \in Workers : ~WaitsFor(w, v)

\* Waits that go round: following them from w leads back to w, that is, every set that has
\* whom w waits for, and whom its members wait for, has w.
InCycle(w) ==
  \A C \in SUBSET Workers :
    (\A u \in C \cup {w}, v \in Workers : WaitsFor(u, v) => v \in C) => w \in C

\* overwrite_assoc(): elen cells of a tuple are replaced, from offset on.
Overwrite(old, new, offset, elen) ==
  [k \in DOMAIN old |-> IF offset < k /\ k <= offset + elen THEN new[k - offset] ELSE old[k]]

Fail(w, e) ==
  /\ err' = [err EXCEPT ![w] = e]
  /\ wpc' = [wpc EXCEPT ![w] = "failed"]
  /\ UNCHANGED <<db, clock, step, input, tuple, stats, main, committed>>

\* The call that would close a cycle of waits, or finds itself in one, fails.
Deadlock(w) ==
  /\ NeedsLock(w)
  /\ InCycle(w)
  /\ Fail(w, "deadlock")

\* Any call, the commit too, may fail for a reason of the storage manager.
SmError(w) ==
  /\ wpc[w] = "run"
  /\ Fail(w, "other")

Proceed(w) ==
  /\ step' = [step EXCEPT ![w] = @ + 1]
  /\ UNCHANGED <<clock, wpc, input, err, stats, main, committed>>

-----------------------------------------------------------------------------
(***************************************************************************)
(* The transaction.                                                        *)
(***************************************************************************)
\* create_acct_update_input(): a teller and an account of the branch that the client is
\* bound to, or of any one.
Inputs ==
  {[b |-> b, t |-> b * TellersPerBranch + t, a |-> b * AccountsPerBranch + a, delta |-> d] :
     b \in 0 .. QueriedFactor - 1, t \in 0 .. TellersPerBranch - 1,
     a \in 0 .. AccountsPerBranch - 1, d \in Deltas}

Attempts == MapThenSumSet(LAMBDA w : my_stats[w].attempted, Workers)

\* A request is served: the transaction begins, the wrapper counts an attempt.
Begin(w) ==
  /\ wpc[w] = "idle"
  /\ Attempts < MaxTrxs
  /\ input' \in {[input EXCEPT ![w] = in] : in \in Inputs}
  /\ my_stats' = [my_stats EXCEPT ![w].attempted = @ + 1]
  /\ wpc' = [wpc EXCEPT ![w] = "run"]
  /\ UNCHANGED <<db, clock, step, tuple, err, env_stats, main, committed>>

\* index_probe(): a tuple of the table is read into memory.
Probe(w) ==
  LET table == Table(w)
      id    == Id(w, table)
      empty == [i \in DOMAIN Desc[table].sizes |->
                  Cells(IF i = 1 THEN id ELSE 0, Desc[table].sizes[i])]
  IN  /\ InXct(w) /\ Op(w) = "probe" /\ Granted(w)
      /\ id \in DOMAIN rows[table]
      /\ tuple' = [tuple EXCEPT ![w] = Load(table, empty, rows[table][id])]
      /\ locks' = [locks EXCEPT ![w] = @ \cup {NextLock(w)}]
      /\ Proceed(w)
      /\ UNCHANGED <<rows, history, undo, added, my_stats, env_stats>>

\* index_probe(): se_TUPLE_NOT_FOUND.
NotFound(w) ==
  /\ InXct(w) /\ Op(w) = "probe" /\ Granted(w)
  /\ Id(w, Table(w)) \notin DOMAIN rows[Table(w)]
  /\ Fail(w, "notfound")

\* The balance of the tuple plus delta.
Updated(w) ==
  LET bal == BalanceOf(Table(w))
      old == tuple[w][bal]
  IN  [tuple[w] EXCEPT ![bal] =
         Cells(IF IsNumber(old) THEN old[1][1] + input[w].delta ELSE Garbled, FloatSize)]

\* get_value(), set_value(), and update_tuple(), which overwrites no cell of the tuple.
Update(w) ==
  LET table == Table(w)
      id    == Id(w, table)
      data  == rows[table][id]
  IN  /\ InXct(w) /\ Op(w) = "update" /\ Granted(w)
      /\ tuple' = [tuple EXCEPT ![w] = Updated(w)]
      /\ rows' = [rows EXCEPT ![table][id] = Overwrite(data, data, 0, 0)]
      /\ undo' = [undo EXCEPT ![w] = @ @@ (<<table, id>> :> data)]
      /\ locks' = [locks EXCEPT ![w] = @ \cup {NextLock(w)}]
      /\ Proceed(w)
      /\ UNCHANGED <<history, added, my_stats, env_stats>>

\* The fields of the history tuple, with the time of day.
Stamp(w) ==
  /\ InXct(w) /\ Op(w) = "stamp"
  /\ tuple' = [tuple EXCEPT ![w] =
       <<Cells(input[w].b, IntSize), Cells(input[w].t, IntSize), Cells(input[w].a, IntSize),
         Cells(input[w].delta, FloatSize), Cells(clock, FloatSize)>>]
  /\ Proceed(w)
  /\ UNCHANGED <<db, my_stats, env_stats>>

\* add_tuple(): create_assoc() in the primary index, the only one of the table.
AddTuple(w) ==
  LET key == FormatKey("history", tuple[w])
  IN  /\ InXct(w) /\ Op(w) = "add" /\ Granted(w)
      /\ key \notin history
      /\ history' = history \cup {key}
      /\ added' = [added EXCEPT ![w] = @ \cup {key}]
      /\ locks' = [locks EXCEPT ![w] = @ \cup {NextLock(w)}]
      /\ Proceed(w)
      /\ UNCHANGED <<rows, undo, tuple, my_stats, env_stats>>

\* Mutant of Duplicate: a row that is there is passed over.
DuplicateIgnored(w) ==
  /\ InXct(w) /\ Op(w) = "add" /\ Granted(w)
  /\ FormatKey("history", tuple[w]) \in history
  /\ Proceed(w)
  /\ UNCHANGED <<db, tuple, my_stats, env_stats>>

\* add_tuple(): the key is there, the same update in the same second.
Duplicate(w) ==
  /\ InXct(w) /\ Op(w) = "add" /\ Granted(w)
  /\ FormatKey("history", tuple[w]) \in history
  /\ Fail(w, "duplicate")

\* The transaction ends: the storage manager lets its locks go, the tuples go back to
\* their caches.
Release(w) ==
  /\ locks' = [locks EXCEPT ![w] = {}]
  /\ undo' = [undo EXCEPT ![w] = <<>>]
  /\ added' = [added EXCEPT ![w] = {}]
  /\ tuple' = [tuple EXCEPT ![w] = <<>>]
  /\ input' = [input EXCEPT ![w] = NoInput]
  /\ step' = [step EXCEPT ![w] = 1]

\* The wrapper commits.
Commit(w) ==
  /\ wpc[w] = "run"
  /\ step[w] > Len(AcctUpdate)
  /\ Release(w)
  /\ committed' = [committed EXCEPT ![w] = @ + 1]
  /\ wpc' = [wpc EXCEPT ![w] = "notify"]
  /\ UNCHANGED <<rows, history, clock, err, stats, main>>

\* Mutants of CountFailure: the failed transaction is not aborted; a deadlock is
\* counted among the failures too.
CountFailureOnly(w) ==
  /\ wpc[w] = "failed"
  /\ my_stats' = [my_stats EXCEPT ![w].failed = @ + 1]
  /\ wpc' = [wpc EXCEPT ![w] = "notify"]
  /\ UNCHANGED <<db, clock, step, input, tuple, err, env_stats, main, committed>>

CountDeadlockTwice(w) ==
  /\ wpc[w] = "failed"
  /\ my_stats' = [my_stats EXCEPT
       ![w].failed = @ + 1,
       ![w].deadlocked = IF err[w] = "deadlock" THEN @ + 1 ELSE @]
  /\ wpc' = [wpc EXCEPT ![w] = "abort"]
  /\ UNCHANGED <<db, clock, step, input, tuple, err, env_stats, main, committed>>

\* The wrapper counts the failure, a deadlock or another one,
CountFailure(w) ==
  /\ wpc[w] = "failed"
  /\ my_stats' = IF err[w] = "deadlock"
                 THEN [my_stats EXCEPT ![w].deadlocked = @ + 1]
                 ELSE [my_stats EXCEPT ![w].failed = @ + 1]
  /\ wpc' = [wpc EXCEPT ![w] = "abort"]
  /\ UNCHANGED <<db, clock, step, input, tuple, err, env_stats, main, committed>>

\* then aborts,
Abort(w) ==
  /\ wpc[w] = "abort"
  /\ rows' = [table \in BalanceTables |->
       [id \in DOMAIN rows[table] |->
          IF <<table, id>> \in DOMAIN undo[w] THEN undo[w][<<table, id>>] ELSE rows[table][id]]]
  /\ history' = history \ added[w]
  /\ Release(w)
  /\ wpc' = [wpc EXCEPT ![w] = "notify"]
  /\ UNCHANGED <<clock, err, stats, main, committed>>

\* and, as after a commit, notifies the client.
NotifyClient(w) ==
  /\ wpc[w] = "notify"
  /\ wpc' = [wpc EXCEPT ![w] = "measure"]
  /\ UNCHANGED <<db, clock, step, input, tuple, err, stats, main, committed>>

Return(w) ==
  /\ wpc' = [wpc EXCEPT ![w] = "idle"]
  /\ err' = [err EXCEPT ![w] = "ok"]

\* The environment counts only while it measures.
CheckMeasure(w) ==
  /\ wpc[w] = "measure"
  /\ IF measure = "MEASURE"
     THEN wpc' = [wpc EXCEPT ![w] = "att"] /\ UNCHANGED err
     ELSE Return(w)
  /\ UNCHANGED <<db, clock, step, input, tuple, stats, main, committed>>

\* Mutant of IncTrxAtt: an attempt that failed is not counted.
IncTrxAttIfCommitted(w) ==
  /\ wpc[w] = "att"
  /\ IF err[w] = "ok"
     THEN /\ env_stats' = [env_stats EXCEPT !.att = @ + 1]
          /\ wpc' = [wpc EXCEPT ![w] = "com"] /\ UNCHANGED err
     ELSE Return(w) /\ UNCHANGED env_stats
  /\ UNCHANGED <<db, clock, step, input, tuple, my_stats, main, committed>>

\* inc_trx_att(), or the first half of inc_trx_com().
IncTrxAtt(w) ==
  /\ wpc[w] = "att"
  /\ env_stats' = [env_stats EXCEPT !.att = @ + 1]
  /\ IF err[w] = "ok"
     THEN wpc' = [wpc EXCEPT ![w] = "com"] /\ UNCHANGED err
     ELSE Return(w)
  /\ UNCHANGED <<db, clock, step, input, tuple, my_stats, main, committed>>

\* The second half of inc_trx_com().
IncTrxCom(w) ==
  /\ wpc[w] = "com"
  /\ env_stats' = [env_stats EXCEPT !.com = @ + 1]
  /\ Return(w)
  /\ UNCHANGED <<db, clock, step, input, tuple, my_stats, main, committed>>

Worker(w) ==
  \/ Begin(w) \/ Probe(w) \/ NotFound(w) \/ Update(w) \/ Stamp(w) \/ AddTuple(w)
  \/ Duplicate(w) \/ Deadlock(w) \/ SmError(w) \/ Commit(w) \/ CountFailure(w)
  \/ Abort(w) \/ NotifyClient(w) \/ CheckMeasure(w) \/ IncTrxAtt(w) \/ IncTrxCom(w)

-----------------------------------------------------------------------------
(***************************************************************************)
(* The main thread at the end of the measurement.                          *)
(***************************************************************************)
Counters == <<"attempted", "failed", "deadlocked">>
NumReads == NumWorkers * Len(Counters)

Committed == MapThenSumSet(LAMBDA w : committed[w], Workers)
Failures == MapThenSumSet(LAMBDA w : my_stats[w].failed + my_stats[w].deadlocked, Workers)

\* _get_stats(): one counter of one thread, while the threads go on counting.
ReadCounter ==
  /\ mpc < NumReads
  /\ LET w == 1 + (mpc \div Len(Counters))
         c == Counters[1 + (mpc % Len(Counters))]
     IN  report' = [report EXCEPT ![c] = @ + my_stats[w][c]]
  /\ before' = IF mpc = 0 THEN [committed |-> Committed, failures |-> Failures] ELSE before
  /\ mpc' = mpc + 1
  /\ UNCHANGED <<db, clock, wpc, step, input, tuple, err, stats, measure, committed>>

\* print_throughput() is over; the measurement ends.
SetDone ==
  /\ mpc = NumReads
  /\ measure' = "DONE"
  /\ mpc' = mpc + 1
  /\ UNCHANGED <<db, clock, wpc, step, input, tuple, err, stats, report, before, committed>>

Tick ==
  /\ clock < MaxTime
  /\ clock' = clock + 1
  /\ UNCHANGED <<db, wpc, step, input, tuple, err, stats, main, committed>>

Next ==
  \/ \E w \in Workers : Worker(w)
  \/ ReadCounter \/ SetDone \/ Tick

Spec == Init /\ [][Next]_vars

-----------------------------------------------------------------------------
(***************************************************************************)
(* Properties.                                                             *)
(***************************************************************************)
HasLayout(t, table) ==
  /\ Len(t) = Len(Desc[table].sizes)
  /\ \A i \in DOMAIN t : Len(t[i]) = Desc[table].sizes[i]

\* Every variable has its type, and a tuple in memory always has the fields of one of the
\* tables, whatever path the transaction took to where it is.
TypeOK ==
  /\ DOMAIN rows = BalanceTables
  /\ \A table \in BalanceTables : \A id \in DOMAIN rows[table] :
       Len(rows[table][id]) = FoldFunction(+, 0, Desc[table].sizes)
  /\ clock \in 1 .. MaxTime
  /\ wpc \in [Workers -> {"idle", "run", "failed", "abort", "notify", "measure", "att", "com"}]
  /\ step \in [Workers -> 1 .. Len(AcctUpdate) + 1]
  /\ input \in [Workers -> Inputs \cup {NoInput}]
  /\ \A w \in Workers : tuple[w] = <<>> \/ \E table \in DOMAIN Desc : HasLayout(tuple[w], table)
  /\ \A w \in Workers : added[w] \subseteq history
  /\ err \in [Workers -> {"ok", "deadlock", "other", "notfound", "duplicate"}]
  /\ my_stats \in [Workers -> [attempted : Nat, failed : Nat, deadlocked : Nat]]
  /\ env_stats \in [att : Nat, com : Nat]
  /\ measure \in {"MEASURE", "DONE"}
  /\ mpc \in 0 .. NumReads + 1
  /\ report \in [attempted : Nat, failed : Nat, deadlocked : Nat]
  /\ committed \in [Workers -> Nat]

\* The committed transactions that print_throughput() reports (attempted less failed less
\* deadlocked, summed thread by thread while the threads run) are too many by the
\* transactions in flight at most, and too few by the failures during the print at most.
ReportIsClose ==
  mpc >= NumReads =>
    LET reported == report.attempted - report.failed - report.deadlocked
    IN  /\ reported <= Committed + NumWorkers
        /\ reported >= before.committed - (Failures - before.failures)

\* The environment's counters agree with those of the threads whenever no transaction
\* runs and the measurement goes on; at no time has it more commits than attempts.
EnvCountersAgree ==
  /\ env_stats.com <= env_stats.att
  /\ measure = "MEASURE" /\ (\A w \in Workers : wpc[w] = "idle") =>
       env_stats = [att |-> Attempts, com |-> Attempts - Failures]

\* When the client is notified its transaction is over: it holds no lock that could stop
\* the client's next request, and nothing of it can still be taken back.
ClientSeesTheEnd ==
  \A w \in Workers : wpc[w] \in {"measure", "att", "com", "idle"} =>
    locks[w] = {} /\ undo[w] = <<>> /\ added[w] = {}

\* Each committed account update, and no other, leaves a row of its own in the history.
OneRowPerCommit ==
  Cardinality(history \ UNION {added[w] : w \in Workers}) = Committed

\* The transaction takes account, history, teller, branch in this order: without an update
\* behind its own shared lock no transaction is in a cycle of waits.
OnlyUpgradesDeadlock ==
  \A w \in Workers : NeedsLock(w) /\ InCycle(w) => Op(w) = "update"

LastCall(w) == AcctUpdate[step[w] - 1]

\* load() is the inverse of format(): the tuple that a probe has read is the row that is
\* stored.  (The @warning of both functions.)
ProbeLoadsRow ==
  \A w \in Workers : wpc[w] = "run" /\ step[w] > 1 =>
    LET table == LastCall(w)[2]
    IN  LastCall(w)[1] = "probe" => Format(table, tuple[w]) = rows[table][Id(w, table)]

\* update_tuple() "updates a tuple from a table": a row that a transaction has added
\* something to is another one than it found.
UpdateIsStored ==
  \A w \in Workers : wpc[w] = "run" /\ step[w] > 1 /\ input[w].delta # 0 =>
    LET table == LastCall(w)[2]
        id    == Id(w, table)
    IN  LastCall(w)[1] = "update" => rows[table][id] # undo[w][<<table, id>>]
=============================================================================
