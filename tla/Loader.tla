------------------------------- MODULE Loader -------------------------------
(***************************************************************************)
(* The load of a TPC-B database: ShoreTPCBEnv::create_tables, load_data,   *)
(* the table creator and the parallel table builders (tpcb_env.cpp), and   *)
(* the transaction they run, xct_populate_db (tpcb_xct.cpp).               *)
(*                                                                         *)
(* The creator runs first and alone: it creates the tables, the branches   *)
(* and tellers, and the first chunk of accounts of every segment.  Then    *)
(* one builder per segment creates the rest of it, a chunk for each        *)
(* transaction.  A builder whose transaction is aborted by a deadlock or   *)
(* for lack of log space runs it again; any other error ends the program.  *)
(*                                                                         *)
(* The storage manager is external: an insert adds a key to the index,     *)
(* fails if the key is there, and waits if an open transaction of another  *)
(* thread inserted it; an abort takes the inserted keys back.              *)
(***************************************************************************)
EXTENDS Integers, FiniteSetsExt

CONSTANTS
  ScalingFactors,     \* what --queried_sf may be: the number of branches
  ThreadOptions,      \* what --threads may be
  AccountsPerBranch,  \* TPCB_ACCOUNTS_PER_BRANCH, 100000
  TellersPerBranch,   \* TPCB_TELLERS_PER_BRANCH, 10
  ChunkSize,          \* TPCB_ACCOUNTS_CREATED_PER_POP_XCT, 10000
  IntRange            \* how many values an int has, 2^32

ASSUME LoaderAssumption ==
  /\ ScalingFactors \subseteq Nat \ {0}
  /\ ThreadOptions \subseteq Nat \ {0}
  /\ AccountsPerBranch \in Nat \ {0}
  /\ TellersPerBranch \in Nat \ {0}
  /\ ChunkSize \in Nat \ {0}
  /\ AccountsPerBranch % ChunkSize = 0
  /\ IntRange \in Nat \ {0} /\ IntRange % 2 = 0

\* The first number that is not an int begins a chunk or is not in the last chunk of its
\* branch: 2147483648 is the account 83648 of a branch whose last chunk begins with 90000.
ASSUME IntAssumption ==
  LET overflow == IntRange \div 2
  IN  /\ ChunkSize <= overflow
      /\ \/ overflow % ChunkSize = 0
         \/ overflow % AccountsPerBranch < AccountsPerBranch - ChunkSize

Creator == -1
Builders == UNION {0 .. n - 1 : n \in ThreadOptions}
LoadThreads == Builders \cup {Creator}

VARIABLES
  sf,        \* _scaling_factor
  loaders,   \* _loaders_to_use
  mpc,       \* where load() is: "tables", "creator", "load", "loaded" or "fatal"
  tpc,       \* where each thread is: "unborn", "begin", "populate" or "done"
  step,      \* the thread's loop variable: segments of the creator, accounts of a builder
  next,      \* accounts the open transaction has added
  own,       \* the accounts it added
  accounts,  \* the keys of the account table
  branches,  \* the keys of the branch table
  tellers    \* the teller table, a set of <<teller, branch>>

options == <<sf, loaders>>
tables  == <<accounts, branches, tellers>>
vars == <<options, mpc, tpc, step, next, own, tables>>

TypeOK ==
  /\ sf \in ScalingFactors
  /\ loaders \in Nat \ {0}
  /\ mpc \in {"tables", "creator", "load", "loaded", "fatal"}
  /\ tpc \in [LoadThreads -> {"unborn", "begin", "populate", "done"}]
  /\ step \in [LoadThreads -> Int]
  /\ next \in [LoadThreads -> 0 .. ChunkSize]
  /\ own \in [LoadThreads -> SUBSET Int]
  /\ accounts \in SUBSET Int
  /\ branches \in SUBSET Nat
  /\ tellers \in SUBSET (Nat \X Nat)

Init ==
  /\ sf \in ScalingFactors
  /\ loaders \in ThreadOptions
  /\ mpc = "tables"
  /\ tpc = [t \in LoadThreads |-> "unborn"]
  /\ step = [t \in LoadThreads |-> 0]
  /\ next = [t \in LoadThreads |-> 0]
  /\ own = [t \in LoadThreads |-> {}]
  /\ accounts = {}
  /\ branches = {}
  /\ tellers = {}

-----------------------------------------------------------------------------
TotalAccounts == sf * AccountsPerBranch

\* create_tables() lowers the number of loaders to the number of branches, or until
\* it divides the number of accounts.
LoadersToUse ==
  IF sf < loaders
  THEN sf
  ELSE Max({n \in 1 .. loaders : TotalAccounts % n = 0})

AcctsPerWorker == TotalAccounts \div loaders

\* Mutants of Start and Count: the builder adds the creator's chunk again; it leaves
\* out the last chunk of its segment.
StartOfSegment(t) == AcctsPerWorker * t
CountOneLess == AcctsPerWorker - 2 * ChunkSize

\* The builder of a segment starts after the chunk that the creator made.
Start(t) == AcctsPerWorker * t + ChunkSize
Count == AcctsPerWorker - ChunkSize

\* populate_db_input_t keeps the first account of a chunk, a long, in an int.
AsInt(n) == ((n + IntRange \div 2) % IntRange) - IntRange \div 2

\* create_tables() forks the creator, whose loop starts at -1 (the branches).
CreateTables ==
  /\ mpc = "tables"
  /\ loaders' = LoadersToUse
  /\ mpc' = "creator"
  /\ tpc' = [tpc EXCEPT ![Creator] = "begin"]
  /\ step' = [step EXCEPT ![Creator] = -1]
  /\ UNCHANGED <<sf, next, own, tables>>

\* The first account of the transaction thread t runs.
FirstId(t) ==
  IF t = Creator THEN AsInt(step[t] * AcctsPerWorker) ELSE AsInt(Start(t) + step[t])

\* The account it adds next: a chunk is added from its last account to its first.
NextId(t) == AsInt(FirstId(t) + (ChunkSize - next[t] - 1))

BeginXct(t) ==
  /\ tpc[t] = "begin"
  /\ tpc' = [tpc EXCEPT ![t] = "populate"]
  /\ next' = [next EXCEPT ![t] = 0]
  /\ UNCHANGED <<options, mpc, step, own, tables>>

\* Mutants of CommitAndGoOn: the creator passes over the last segment; a builder goes
\* over the same chunk again.
CommitAndGoOnShort(t) ==
  LET after == IF t = Creator THEN step[t] + 1 ELSE step[t] + ChunkSize
      limit == IF t = Creator THEN loaders - 1 ELSE Count
  IN  /\ own' = [own EXCEPT ![t] = {}]
      /\ step' = [step EXCEPT ![t] = after]
      /\ tpc' = [tpc EXCEPT ![t] = IF after < limit THEN "begin" ELSE "done"]

CommitAndStay(t) ==
  /\ own' = [own EXCEPT ![t] = {}]
  /\ step' = [step EXCEPT ![t] = IF t = Creator THEN @ + 1 ELSE @]
  /\ tpc' = [tpc EXCEPT ![t] =
                IF t = Creator /\ step[t] + 1 = loaders THEN "done" ELSE "begin"]

\* The transaction is committed and the loop of the creator or the builder goes on.
CommitAndGoOn(t) ==
  LET after == IF t = Creator THEN step[t] + 1 ELSE step[t] + ChunkSize
      limit == IF t = Creator THEN loaders ELSE Count
  IN  /\ own' = [own EXCEPT ![t] = {}]
      /\ step' = [step EXCEPT ![t] = after]
      /\ tpc' = [tpc EXCEPT ![t] = IF after < limit THEN "begin" ELSE "done"]

\* xct_populate_db() with a negative first account: branches and tellers, a
\* transaction that only the creator runs, and so a single step.
AddBranches(t) ==
  /\ tpc[t] = "populate"
  /\ FirstId(t) < 0
  /\ branches = {}
  /\ branches' = 0 .. sf - 1
  /\ tellers' = {<<i, i \div TellersPerBranch>> : i \in 0 .. sf * TellersPerBranch - 1}
  /\ CommitAndGoOn(t)
  /\ UNCHANGED <<options, mpc, next, accounts>>

\* xct_populate_db(): one account of the chunk.
AddAccount(t) ==
  /\ tpc[t] = "populate"
  /\ FirstId(t) >= 0
  /\ next[t] < ChunkSize
  /\ NextId(t) \notin accounts
  /\ accounts' = accounts \cup {NextId(t)}
  /\ own' = [own EXCEPT ![t] = @ \cup {NextId(t)}]
  /\ next' = [next EXCEPT ![t] = @ + 1]
  /\ UNCHANGED <<options, mpc, tpc, step, branches, tellers>>

\* xct_populate_db(): the commit of a whole chunk.
CommitXct(t) ==
  /\ tpc[t] = "populate"
  /\ FirstId(t) >= 0
  /\ next[t] = ChunkSize
  /\ CommitAndGoOn(t)
  /\ UNCHANGED <<options, mpc, next, tables>>

\* Mutant of DuplicateKey: a key that is there is passed over.
SkipDuplicate(t) ==
  /\ tpc[t] = "populate"
  /\ FirstId(t) >= 0
  /\ next[t] < ChunkSize
  /\ NextId(t) \in accounts \ UNION {own[s] : s \in LoadThreads \ {t}}
  /\ next' = [next EXCEPT ![t] = @ + 1]
  /\ UNCHANGED <<options, mpc, tpc, step, own, tables>>

\* Mutant of DuplicateKey: so are branches that are there.
SkipAllDuplicates(t) ==
  \/ SkipDuplicate(t)
  \/ /\ tpc[t] = "populate"
     /\ FirstId(t) < 0
     /\ branches # {}
     /\ CommitAndGoOn(t)
     /\ UNCHANGED <<options, mpc, next, tables>>

\* A key that is there already: W_COERCE and W_FATAL end the program.
DuplicateKey(t) ==
  /\ tpc[t] = "populate"
  /\ IF FirstId(t) < 0
     THEN branches # {}
     ELSE /\ next[t] < ChunkSize
          /\ NextId(t) \in accounts \ UNION {own[s] : s \in LoadThreads \ {t}}
  /\ mpc' = "fatal"
  /\ UNCHANGED <<options, tpc, step, next, own, tables>>

\* Mutant of RetryXct: the transaction is not aborted.
RetryWithoutAbort(t) ==
  /\ t \in Builders
  /\ tpc[t] = "populate"
  /\ own' = [own EXCEPT ![t] = {}]
  /\ tpc' = [tpc EXCEPT ![t] = "begin"]
  /\ UNCHANGED <<options, mpc, step, next, tables>>

\* CHECK_XCT_RETURN: a deadlock or no log space: the transaction is aborted and the
\* chunk is run again.
RetryXct(t) ==
  /\ t \in Builders
  /\ tpc[t] = "populate"
  /\ accounts' = accounts \ own[t]
  /\ own' = [own EXCEPT ![t] = {}]
  /\ tpc' = [tpc EXCEPT ![t] = "begin"]
  /\ UNCHANGED <<options, mpc, step, next, branches, tellers>>

LoadThread(t) ==
  /\ mpc # "fatal"
  /\ BeginXct(t) \/ AddBranches(t) \/ AddAccount(t) \/ CommitXct(t)
     \/ DuplicateKey(t) \/ RetryXct(t)

\* The builders that load_data() forks.
Loaders == 0 .. loaders - 1

\* create_tables() joins the creator; load_data() forks a builder for each segment.
ForkLoaders ==
  /\ mpc = "creator"
  /\ tpc[Creator] = "done"
  /\ mpc' = "load"
  /\ tpc' = [t \in LoadThreads |->
               IF t \in Loaders THEN IF 0 < Count THEN "begin" ELSE "done" ELSE tpc[t]]
  /\ UNCHANGED <<options, step, next, own, tables>>

\* load_data() joins them all.
JoinLoaders ==
  /\ mpc = "load"
  /\ \A t \in Loaders : tpc[t] = "done"
  /\ mpc' = "loaded"
  /\ UNCHANGED <<options, tpc, step, next, own, tables>>

Next ==
  \/ CreateTables \/ ForkLoaders \/ JoinLoaders
  \/ \E t \in LoadThreads : LoadThread(t)

Spec == Init /\ [][Next]_vars

(***************************************************************************)
(* The threads are scheduled by the operating system, and an insert that   *)
(* waits for a key goes on when the key's transaction ends.                *)
(***************************************************************************)
FairSpec ==
  /\ Spec
  /\ WF_vars(CreateTables \/ ForkLoaders \/ JoinLoaders)
  /\ \A t \in LoadThreads : WF_vars(LoadThread(t))

-----------------------------------------------------------------------------
(***************************************************************************)
(* Properties.  All accounts are created in chunks that fit if the chunk   *)
(* divides the segments and an int can number the accounts, which the code *)
(* does not see to.                                                        *)
(***************************************************************************)
EvenSegments == AcctsPerWorker % ChunkSize = 0
IdsFit == TotalAccounts <= IntRange \div 2
WellSized == EvenSegments /\ IdsFit

\* No thread adds a key that is there, which would end the program: the creator's
\* chunks and the builders' segments are disjoint (table_creator_t::work, load_data),
\* and an aborted chunk leaves no rows behind (table_builder_t::work).
NoDuplicateKey == WellSized => mpc # "fatal"

\* When load_data() has joined the builders, the database is what the scaling factor
\* says, whatever the sizes: every account once, no other, and each branch with its
\* tellers.  A load that goes wrong never goes unnoticed.
LoadedIsComplete ==
  mpc = "loaded" =>
    /\ accounts = 0 .. TotalAccounts - 1
    /\ branches = {a \div AccountsPerBranch : a \in accounts}
    /\ \A b \in branches : Cardinality({p \in tellers : p[2] = b}) = TellersPerBranch

Committed == accounts \ UNION {own[t] : t \in LoadThreads}

\* The committed accounts are whole chunks, however often a chunk was retried: a load
\* that ends early never leaves part of one (xct_populate_db commits at its end).
ChunksAreWhole ==
  WellSized =>
    \A a \in Committed :
      LET first == a - (a % ChunkSize)
      IN  (first .. first + ChunkSize - 1) \subseteq Committed

\* "Create 10k accounts in each partition to buffer workers from each other": between
\* the open rows of two builders there is always a committed account, so that they
\* never insert next to each other (table_creator_t::work).
BuildersAreBuffered ==
  \A s, t \in Loaders :
    s < t => \A a \in own[s], b \in own[t] :
               WellSized => \E k \in Committed : a < k /\ k < b

\* The load ends, and fails if the sizes are wrong, unless transactions are aborted for
\* ever (load_data joins every builder; no builder waits for another one).
LoadEnds ==
  \/ <>(mpc = IF WellSized THEN "loaded" ELSE "fatal")
  \/ []<><<\E t \in Builders : RetryXct(t)>>_vars

-----------------------------------------------------------------------------
\* "number of accounts must be multiple of number of loaders, otherwise load will fail"
\* (create_tables): with that seen to and ids that fit, the load should not fail.
SegmentsAreDisjoint == IdsFit => mpc # "fatal"
=============================================================================
