----------------------------- MODULE TableIndex -----------------------------
(***************************************************************************)
(* A table with a primary and one secondary index: index_probe, add_tuple, *)
(* delete_tuple and update_tuple of table_man_t, in transactions whose     *)
(* caller aborts at the first error, and the catalog the storage           *)
(* identifiers of the indexes are kept in.                                 *)
(*                                                                         *)
(* A primary entry is the row without its key; a secondary entry is the    *)
(* key of the row.  The storage manager is external: a store refuses a key *)
(* it has, and an abort puts back what was there.  Its key locks make      *)
(* transactions serial, and here one runs at a time.                       *)
(*                                                                         *)
(* A caller deletes or updates the row that its last probe of the primary  *)
(* index has loaded, or that it has just added.                            *)
(***************************************************************************)
EXTENDS Naturals, FiniteSets, Functions

CONSTANTS
  Keys,     \* the values of the field of the primary index
  Seconds,  \* the values of the field of the secondary index
  Datas,    \* the values of the other field
  MaxOps    \* bound: operations of a transaction

TableIndexAssumption == MaxOps \in Nat

Indexes == {"TABLE", "SECOND"}   \* their names; the primary one has the table's
Rows == [second : Seconds, data : Datas]
Empty == <<>>
Null == 0                        \* stid_t::null
Junk == [second |-> Null, data |-> Null]

VARIABLES
  stores,   \* stores[s]: the entries of the store with identifier s
  catalog,  \* the entries of the catalog: from names to identifiers
  stid,     \* _stid of each index, in memory
  before,   \* what an abort puts back
  trx,      \* "none", "running" or "failed"
  ops,      \* the operations of the transaction
  key,      \* the fields of the tuple: of the primary index, ...
  row,      \* ... and the others
  rep,      \* what is in _rep
  known     \* whether the caller knows that the fields are those of a stored row

stored == <<stores, catalog>>
tuple == <<key, row, rep, known>>
vars == <<stores, catalog, stid, before, trx, ops, tuple>>

TypeOK ==
  /\ DOMAIN stores \subseteq Nat \ {Null}
  /\ DOMAIN catalog \subseteq Indexes
  /\ stid \in [Indexes -> Nat]
  /\ trx \in {"none", "running", "failed"} /\ ops \in 0 .. MaxOps
  /\ key \in Keys /\ row \in Rows /\ rep \in Rows \cup {Junk} /\ known \in BOOLEAN

Init ==
  /\ stores = Empty /\ catalog = Empty /\ before = <<Empty, Empty>>
  /\ stid = [i \in Indexes |-> Null]
  /\ trx = "none" /\ ops = 0
  /\ key \in Keys /\ row \in Rows
  /\ rep = Junk /\ known = FALSE

With(store, k, value) == [x \in DOMAIN store \cup {k} |-> IF x = k THEN value ELSE store[x]]
Without(store, k) == Restrict(store, DOMAIN store \ {k})

-----------------------------------------------------------------------------
\* create_physical_table() in its transaction: a store for each index and its entry in
\* the catalog, the primary index first.
CreateTable ==
  /\ trx = "none" /\ catalog = Empty
  /\ stores' = [s \in {1, 2} |-> Empty]
  /\ catalog' = [i \in Indexes |-> IF i = "TABLE" THEN 1 ELSE 2]
  /\ stid' = catalog'
  /\ UNCHANGED <<before, trx, ops, tuple>>

\* index_desc_t::load_stid(): the identifier is looked up by the name of the index.
LoadStid(i) == catalog[i]

\* A new process: the descriptors are made again and load_stids() is called for the table.
Reopen ==
  /\ trx = "none" /\ catalog # Empty
  /\ stid' = [i \in Indexes |-> LoadStid(i)]
  /\ \E k \in Keys, r \in Rows : key' = k /\ row' = r
  /\ rep' = Junk /\ known' = FALSE
  /\ UNCHANGED <<stored, before, trx, ops>>

Begin ==
  /\ trx = "none" /\ stid["TABLE"] # Null
  /\ trx' = "running" /\ ops' = 0
  /\ before' = <<stores, catalog>>
  /\ known' = FALSE   \* tuples are not kept from one transaction to the next
  /\ UNCHANGED <<stored, stid, key, row, rep>>

Operation == trx = "running" /\ ops < MaxOps /\ ops' = ops + 1 /\ UNCHANGED <<catalog, stid, before>>

Primary == stores[stid["TABLE"]]
Secondary == stores[stid["SECOND"]]
Put(primary, secondary) ==
  stores' = [stores EXCEPT ![stid["TABLE"]] = primary, ![stid["SECOND"]] = secondary]

\* An error of an operation: the caller returns it at once, and gives the tuple back.
Fail == trx' = "failed" /\ known' = FALSE
Done == UNCHANGED trx

\* The caller sets the fields of the tuple.
SetValues ==
  /\ trx = "running"
  /\ \E k \in Keys, r \in Rows : key' = k /\ row' = r
  /\ known' = FALSE
  /\ UNCHANGED <<stored, stid, before, trx, ops, rep>>

\* Mutant of Probe: the fields stay as the caller set them.
ProbeWithoutLoad ==
  /\ Operation
  /\ IF key \in DOMAIN Primary
       THEN rep' = Primary[key] /\ known' = TRUE /\ Done
       ELSE Fail /\ UNCHANGED rep
  /\ UNCHANGED <<stores, key, row>>

\* index_probe() of the primary index: it loads the fields that are not in the key.
Probe ==
  /\ Operation
  /\ IF key \in DOMAIN Primary
       THEN rep' = Primary[key] /\ row' = rep' /\ known' = TRUE /\ Done
       ELSE Fail /\ UNCHANGED <<rep, row>>
  /\ UNCHANGED <<stores, key>>

\* index_probe() of the secondary index: the row is read into _rep and not loaded, and
\* the key that was read stays in _rep_key.
ProbeSecond ==
  /\ Operation
  /\ IF row.second \in DOMAIN Secondary /\ Secondary[row.second] \in DOMAIN Primary
       THEN rep' = Primary[Secondary[row.second]] /\ known' = FALSE /\ Done
       ELSE Fail /\ UNCHANGED rep
  /\ UNCHANGED <<stores, key, row>>

\* add_tuple(): the primary entry, and then the secondary one, whose key is built in
\* _rep.  A secondary key that is there makes it fail after the row is in.
Add ==
  /\ Operation
  /\ IF key \in DOMAIN Primary
       THEN Fail /\ rep' = row /\ UNCHANGED stores
       ELSE /\ rep' = Junk
            /\ IF row.second \in DOMAIN Secondary
                 THEN Fail /\ Put(With(Primary, key, row), Secondary)
                 ELSE /\ Put(With(Primary, key, row), With(Secondary, row.second, key))
                      /\ known' = TRUE /\ Done
  /\ UNCHANGED <<key, row>>

\* delete_tuple(): the whole secondary entry, and then the primary one.
Delete ==
  /\ known
  /\ Operation
  /\ rep' = Junk
  /\ IF row.second \notin DOMAIN Secondary THEN Fail /\ UNCHANGED stores
     ELSE IF key \notin DOMAIN Primary
     THEN Fail /\ Put(Primary, Without(Secondary, row.second))
     ELSE /\ Put(Without(Primary, key), Without(Secondary, row.second))
          /\ known' = FALSE /\ Done
  /\ UNCHANGED <<key, row>>

\* update_tuple(): it writes what is in _rep, after a probe the row as it was read.  No
\* caller updates a row that it has just added.
Update ==
  /\ known /\ rep # Junk
  /\ Operation
  /\ IF key \in DOMAIN Primary
       THEN Put(With(Primary, key, rep), Secondary) /\ Done /\ UNCHANGED known
       ELSE Fail /\ UNCHANGED stores
  /\ UNCHANGED <<key, row, rep>>

\* The wrapper of the transaction: it commits, or it aborts after an error.
Commit ==
  /\ trx = "running"
  /\ trx' = "none" /\ known' = FALSE
  /\ UNCHANGED <<stored, stid, before, ops, key, row, rep>>

\* ... with abort_xct().
Abort ==
  /\ trx = "failed"
  /\ trx' = "none"
  /\ stores' = before[1] /\ catalog' = before[2]
  /\ UNCHANGED <<stid, before, ops, tuple>>

Next ==
  \/ CreateTable \/ Reopen \/ Begin \/ SetValues \/ Probe \/ ProbeSecond
  \/ Add \/ Delete \/ Update \/ Commit \/ Abort

Spec == Init /\ [][Next]_vars

-----------------------------------------------------------------------------
\* When no transaction runs, each row is found by its secondary key and each secondary
\* entry leads to the row that has it: although add_tuple can fail between the two
\* indexes, delete_tuple destroys whatever the secondary key leads to, and rows are
\* deleted by the fields the caller's tuple has at that time.
IndexesAgree ==
  trx = "none" /\ catalog # Empty =>
    LET primary == stores[catalog["TABLE"]]
        secondary == stores[catalog["SECOND"]]
    IN /\ \A k \in DOMAIN primary :
            primary[k].second \in DOMAIN secondary /\ secondary[primary[k].second] = k
       /\ \A s \in DOMAIN secondary :
            secondary[s] \in DOMAIN primary /\ primary[secondary[s]].second = s

=============================================================================
