----------------------------- MODULE TpcbTuples -----------------------------
(***************************************************************************)
(* The tuples and buffers of the TPC-B transactions (tpcb_xct.cpp), as one *)
(* worker runs one transaction after the other.                            *)
(*                                                                         *)
(* A transaction takes a tuple of each table it uses from a cache of the   *)
(* thread, makes the tuple point to buffers on its own stack, and gives    *)
(* the tuple back when it returns, at its end or at the first step that    *)
(* fails.  The cache clears the values of a tuple but not its pointers, so *)
(* a tuple keeps those of the transaction that had it last.                *)
(*                                                                         *)
(* What the steps do to the database is the subject of TpcbXct.  The       *)
(* storage manager may fail any of them.  Assertions are off, as in the    *)
(* default build.                                                          *)
(***************************************************************************)
EXTENDS Naturals, Sequences, FiniteSets

CONSTANT MaxTrx   \* bound: transactions run

TpcbTuplesAssumption == MaxTrx \in Nat

Tables == {"branch", "teller", "account", "history"}

\* The schemas without CFG_HACK: the fields of a table, the largest size of a row, with
\* the byte that table_desc_t::maxsize() adds for nulls, and the name of the index.
Fields   == [branch |-> 2, teller |-> 3, account |-> 3, history |-> 5]
MaxSize  == [branch |-> 13, teller |-> 17, account |-> 17, history |-> 29]
IndexName == [branch |-> "BRANCH", teller |-> "TELLER", account |-> "ACCOUNT",
              history |-> "HISTORY"]

\* A step of a transaction: the operation of the table manager, its table, the name of
\* the index it asks for, and the fields of the tuple that are set before it.
Do(op, table, index, sets) == [op |-> op, table |-> table, index |-> index, sets |-> sets]
Probe(table, index) == Do("probe", table, index, {0})
Add(table, fields)  == Do("add", table, IndexName[table], fields)
Update(table, f)    == Do("update", table, IndexName[table], {f})
Delete(table)       == Do("delete", table, IndexName[table], {})

AcctUpdateSteps ==
  << Probe("account", "ACCOUNT"), Update("account", 2),
     Add("history", 0 .. 4),
     Probe("teller", "TELLER"), Update("teller", 2),
     Probe("branch", "BRANCH"), Update("branch", 1) >>

\* The branch transactions set a third field, the padding of CFG_HACK, and ask for an
\* index that no table has.
AddBranch   == Add("branch", 0 .. 2)
ProbeBranch == Probe("branch", "B_INDEX")

Steps == [
  acct_update          |-> AcctUpdateSteps,
  populate_tables      |-> <<Add("branch", 0 .. 1), Add("teller", 0 .. 2)>>,
  populate_accounts    |-> <<Add("account", 0 .. 2)>>,
  mbench_insert_only   |-> <<Add("account", 0 .. 2)>>,
  mbench_delete_only   |-> <<Probe("account", "ACCOUNT"), Delete("account")>>,
  mbench_probe_only    |-> <<Probe("account", "ACCOUNT")>>,
  mbench_insert_delete |-> <<AddBranch, Delete("branch")>>,
  mbench_insert_probe  |-> <<AddBranch, ProbeBranch>>,
  mbench_delete_probe  |-> <<ProbeBranch, Delete("branch")>>,
  mbench_mix           |-> <<AddBranch, ProbeBranch, Delete("branch")>>]

Kinds == DOMAIN Steps

Workload == {"acct_update", "populate_tables", "populate_accounts"}
MicroBenchmarks == Kinds \ Workload

\* The tables a transaction takes a tuple of, and the one whose rows its buffers fit.
Uses(k) == IF k \in Workload THEN Tables ELSE {Steps[k][i].table : i \in 1 .. Len(Steps[k])}
SizedFor(k) == IF k = "acct_update" THEN "history" ELSE "account"

Null == 0

VARIABLES
  made,   \* made[tb]: how many tuples the thread's cache of table tb has constructed
  free,   \* free[tb]: those it has
  held,   \* held[tb]: the one the transaction holds, or Null
  rep,    \* rep[tb][n]: the transaction whose buffer _rep of tuple n points to, or Null
  key,    \* key[tb][n]: the same of _rep_key
  trx,    \* how many transactions were begun
  kind,   \* what the current one is, or "none"
  step,   \* its next step
  wild    \* what of it used memory that is not its own

vars == <<made, free, held, rep, key, trx, kind, step, wild>>

TypeOK ==
  /\ made \in [Tables -> 0 .. MaxTrx]
  /\ free \in [Tables -> SUBSET (1 .. MaxTrx)]
  /\ held \in [Tables -> 0 .. MaxTrx]
  /\ rep \in [Tables -> [1 .. MaxTrx -> 0 .. MaxTrx]]
  /\ key \in [Tables -> [1 .. MaxTrx -> 0 .. MaxTrx]]
  /\ trx \in 0 .. MaxTrx
  /\ kind \in Kinds \cup {"none"}
  /\ step \in Nat
  /\ wild \subseteq {"rep", "key", "field", "index", "size", "dead"}

Init ==
  /\ made = [tb \in Tables |-> 0]
  /\ free = [tb \in Tables |-> {}]
  /\ held = [tb \in Tables |-> Null]
  /\ rep = [tb \in Tables |-> [n \in 1 .. MaxTrx |-> Null]]
  /\ key = rep
  /\ trx = 0 /\ kind = "none" /\ step = 1
  /\ wild = {}

\* get_tuple(): a free tuple, or a new one, whose pointers are null.
Borrowed(tb) == IF free[tb] = {} THEN {made[tb] + 1} ELSE free[tb]

\* The tables whose tuples a transaction makes point to its buffers.
SetsRep(k) == Uses(k)

\* Mutant of SetsKey: the key buffer of the history's tuple is forgotten.
SetsKeyButHistory(k) == IF k \in Workload THEN Uses(k) \ {"history"} ELSE {}

SetsKey(k) == IF k \in Workload THEN Uses(k) ELSE {}

PointsTo(ptr, tables, got) ==
  [tb \in Tables |-> IF tb \in tables THEN [ptr[tb] EXCEPT ![got[tb]] = trx + 1] ELSE ptr[tb]]

Begin(k) ==
  /\ kind = "none" /\ trx < MaxTrx
  /\ \E got \in [Uses(k) -> 1 .. MaxTrx] :
       /\ \A tb \in Uses(k) : got[tb] \in Borrowed(tb)
       /\ held' = [tb \in Tables |-> IF tb \in Uses(k) THEN got[tb] ELSE Null]
       /\ made' = [tb \in Tables |-> IF tb \in Uses(k) /\ got[tb] > made[tb] THEN got[tb] ELSE made[tb]]
       /\ free' = [tb \in Tables |-> free[tb] \ {held'[tb]}]
       /\ rep' = PointsTo(rep, SetsRep(k), got)
       /\ key' = PointsTo(key, SetsKey(k), got)
  /\ kind' = k /\ trx' = trx + 1 /\ step' = 1 /\ wild' = {}

\* What a step reads or writes that is not the transaction's: a buffer of one that has
\* returned or none, a value past the last field, the index that is not found, or what
\* follows a buffer that is too small.  A delete formats secondary keys into _rep, and
\* there are none.
Strays(s) ==
  LET n == held[s.table]
  IN (IF s.op # "delete" /\ rep[s.table][n] # trx THEN {"rep"} ELSE {})
     \cup (IF key[s.table][n] # trx THEN {"key"} ELSE {})
     \cup (IF \E f \in s.sets : f >= Fields[s.table] THEN {"field"} ELSE {})
     \cup (IF s.index # IndexName[s.table] THEN {"index"} ELSE {})
     \cup (IF MaxSize[s.table] > MaxSize[SizedFor(kind)] THEN {"size"} ELSE {})

Due == Steps[kind][step]
Runs == kind # "none" /\ "dead" \notin wild

\* The next step uses memory that is not the transaction's and the program dies...
Stray ==
  /\ Runs /\ Strays(Due) # {}
  /\ wild' = Strays(Due) \cup {"dead"}
  /\ UNCHANGED <<made, free, held, rep, key, trx, kind, step>>

\* ... or it goes on: the buffer of a transaction that has returned may still look like
\* one, and what lies behind the last value is memory.
GoesOn == Strays(Due) \subseteq {"key", "field"} /\ key[Due.table][held[Due.table]] # Null

\* A step succeeds and the next one is due, or the transaction returns, after its last
\* step or one that failed; ~tuple_guard and the label done give its tuples back.
NextStep ==
  /\ Runs /\ GoesOn /\ step < Len(Steps[kind])
  /\ step' = step + 1
  /\ wild' = wild \cup Strays(Due)
  /\ UNCHANGED <<made, free, held, rep, key, trx, kind>>

Return ==
  /\ Runs /\ GoesOn
  /\ free' = [tb \in Tables |-> free[tb] \cup ({held[tb]} \ {Null})]
  /\ held' = [tb \in Tables |-> Null]
  /\ kind' = "none"
  /\ UNCHANGED <<made, rep, key, trx, step, wild>>

Next == (\E k \in Kinds : Begin(k)) \/ Stray \/ Return \/ NextStep

Spec == Init /\ [][Next]_vars

-----------------------------------------------------------------------------
\* The account update and the load use their own buffers and the fields that are there, in
\* whatever state the transactions before them left the tuples; only micro-benchmarks stray, for
\* none of them sets _rep_key.  The tuples are given back whichever step fails: a cache
\* never has to construct a second one.
OnlyMicroBenchmarksStray ==
  /\ kind \in Workload => wild = {}
  /\ \A tb \in Tables : free[tb] \cup ({held[tb]} \ {Null}) = 1 .. made[tb] /\ made[tb] <= 1
=============================================================================
