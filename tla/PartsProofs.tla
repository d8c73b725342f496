---------------------------- MODULE PartsProofs ----------------------------
(***************************************************************************)
(* Proofs about the parts.  A behaviour of Parts has one subject, and is a *)
(* behaviour of that part: so what is proved of the part (in LogScanProofs *)
(* and RowCodecProofs, and below by an invariant of the part) holds of the *)
(* composition, whichever subjects there are.                              *)
(***************************************************************************)
EXTENDS Parts, Lemmas

Is(s) == subject = s

\* The subject stays, so a property of the form "the subject is s implies I" is invariant if
\* it holds initially and is kept by the steps of s.
LEMMA SubjectStays ==
  ASSUME NEW s, [Next]_vars
  PROVE  Is(s)' <=> Is(s)
  BY DEF Next, vars, ThreadsStep, QueueStep, TuplesStep, ScanStep, IndexStep, SkewedStep,
     EnvStep, WorkStep, CodecStep, Is

-----------------------------------------------------------------------------
(***************************************************************************)
(* The rows of a table and the scan of a log, by their modules' theorems.  *)
(***************************************************************************)
LEMMA CodecSpec == Spec => []~Is("codec") \/ Codec!Spec
  <1>1. Init /\ Is("codec") => Codec!Init
    BY DEF Init, Is
  <1>2. [Next]_vars /\ Is("codec") => Is("codec")' /\ [Codec!Next]_(Codec!vars)
    BY DEF Next, vars, ThreadsStep, QueueStep, TuplesStep, ScanStep, IndexStep, SkewedStep,
       EnvStep, WorkStep, CodecStep, Codec!vars, rcVars, Is
  <1>3. [Next]_vars /\ ~Is("codec") => ~Is("codec")'
    BY SubjectStays
  <1> QED
    BY <1>1, <1>2, <1>3, PTL DEF Spec, Codec!Spec

LEMMA ScanSpec == Spec => []~Is("scan") \/ Scan!Spec
  <1>1. Init /\ Is("scan") => Scan!Init
    BY DEF Init, Is
  <1>2. [Next]_vars /\ Is("scan") => Is("scan")' /\ [Scan!Next]_(Scan!vars)
    BY DEF Next, vars, ThreadsStep, QueueStep, TuplesStep, ScanStep, IndexStep, SkewedStep,
       EnvStep, WorkStep, CodecStep, Scan!vars, lsVars, Scan!input, Scan!agg, Is
  <1>3. [Next]_vars /\ ~Is("scan") => ~Is("scan")'
    BY SubjectStays
  <1> QED
    BY <1>1, <1>2, <1>3, PTL DEF Spec, Scan!Spec

\* A row is read back with the values it was stored with, whatever the schema: every field
\* of the key from the index entry, and from the record those that are where load() looks
\* for them.  Its nulls are lost: SET_NULL_FLAG sets nothing.  What is stored is as long as
\* size() says.
THEOREM FieldsAlwaysReadBack == Spec => []FieldsReadBack
  <1>1. ~Is("codec") => FieldsReadBack
    BY DEF Is, FieldsReadBack
  <1>2. Codec!FieldsReadBack => FieldsReadBack
    BY DEF FieldsReadBack
  <1>3. Codec!Spec => []Codec!FieldsReadBack
    BY CodecAssumption, Codec!RowsReadBack
  <1> QED
    BY <1>1, <1>2, <1>3, CodecSpec, PTL

\* The handlers of a log scan are given the records of the log, each once and in their order,
\* and all of them by the time the scan is done, whatever the size of a block; and the lines
\* agglog prints add up to the records of its types (BlockScanner::run, AggregateHandler).
THEOREM LogAlwaysScanned == Spec => []ScanIsTheLog
  <1>1. ~Is("scan") => ScanIsTheLog
    BY DEF Is, ScanIsTheLog
  <1>2. Scan!ScanIsTheLog => ScanIsTheLog
    BY DEF ScanIsTheLog
  <1>3. Scan!Spec => []Scan!ScanIsTheLog
    BY ScanAssumption, Scan!LogIsScanned
  <1> QED
    BY <1>1, <1>2, <1>3, ScanSpec, PTL

-----------------------------------------------------------------------------
(***************************************************************************)
(* The threads of a pool: the mutex of the monitor has one holder, who may *)
(* be asleep in the pool.                                                  *)
(***************************************************************************)
\* A thread has the mutex in the monitor, until pthread_cond_wait gives it back, and from
\* the return of pthread_mutex_lock to its admission to the pool.
HasMutex(t) ==
  \/ tpPlace[t] \in {"critical", "leaving"}
  \/ tpPlace[t] \in {"start", "asleep"} /\ tpGoal[t] = "critical"

MutexInv == \A t \in PoolThreads : HasMutex(t) <=> tpMutex = t

\* _active counts the threads inside.
Bounded ==
  /\ tpActive = Cardinality({t \in PoolThreads : tpPlace[t] \in Pool!Inside})
  /\ tpActive <= PoolMaxActive

LEMMA PoolIs ==
  /\ IsFiniteSet(PoolThreads) /\ Pool!Free \notin PoolThreads /\ PoolOpener \in PoolThreads
  /\ PoolMaxActive \in Nat \ {0}
  BY PoolAssumption DEF Pool!ThreadPoolAssumption, Pool!IsFiniteSet, IsFiniteSet

LEMMA BoundedSuffices == Bounded => Pool!PoolIsBounded
  BY DEF Bounded, Pool!PoolIsBounded, Pool!Cardinality, Cardinality

\* The inductive invariant.
PoolInv == Pool!TypeOK /\ Bounded /\ MutexInv

-----------------------------------------------------------------------------
\* The threads inside after one comes in, and after one goes out.
LEMMA OneMoreInside ==
  ASSUME NEW S, IsFiniteSet(S), NEW A \in SUBSET S, NEW t \in S, t \notin A
  PROVE  Cardinality(A \cup {t}) = Cardinality(A) + 1
  <1>1. IsFiniteSet(A)
    BY FS_Subset
  <1> QED
    BY <1>1, FS_AddElement

LEMMA OneLessInside ==
  ASSUME NEW S, IsFiniteSet(S), NEW A \in SUBSET S, NEW t \in A
  PROVE  /\ Cardinality(A) \in Nat \ {0}
         /\ Cardinality(A \ {t}) = Cardinality(A) - 1
  <1>1. IsFiniteSet(A)
    BY FS_Subset
  <1>2. Cardinality(A) \in Nat /\ Cardinality(A) # 0
    BY <1>1, FS_CardinalityType, FS_EmptySet
  <1> QED
    BY <1>1, <1>2, FS_RemoveElement

\* A step that takes no thread in or out.
LEMMA SameInside ==
  ASSUME Bounded, UNCHANGED tpActive,
         \A t \in PoolThreads : tpPlace'[t] \in Pool!Inside <=> tpPlace[t] \in Pool!Inside
  PROVE  Bounded'
  <1>1. {t \in PoolThreads : tpPlace'[t] \in Pool!Inside} = {t \in PoolThreads : tpPlace[t] \in Pool!Inside}
    OBVIOUS
  <1> QED
    BY <1>1 DEF Bounded, Pool!Inside

\* stop() of a thread that runs: the pool has one less, whomever it signals.
LEMMA StopBounds ==
  ASSUME Pool!TypeOK, Bounded,
         NEW t \in PoolThreads, tpPlace[t] \in Pool!Inside,
         NEW to \in Pool!Places \ Pool!Inside, Pool!Stop(t, to)
  PROVE  /\ tpActive' \in Nat
         /\ tpPlace' \in [PoolThreads -> Pool!Places]
         /\ Bounded'
         /\ tpPlace'[t] = to
         /\ \A u \in PoolThreads \ {t} :
              \/ tpPlace'[u] = tpPlace[u]
              \/ tpPlace[u] = "asleep" /\ tpPlace'[u] = "start"
  <1> DEFINE A == {u \in PoolThreads : tpPlace[u] \in Pool!Inside}
             A1 == {u \in PoolThreads : tpPlace'[u] \in Pool!Inside}
  <1>1. /\ tpPlace' \in [PoolThreads -> Pool!Places]
        /\ tpPlace'[t] = to
        /\ \A u \in PoolThreads \ {t} :
             \/ tpPlace'[u] = tpPlace[u]
             \/ tpPlace[u] = "asleep" /\ tpPlace'[u] = "start"
    <2>1. CASE tpPlace' = [tpPlace EXCEPT ![t] = to]
      BY <2>1 DEF Pool!TypeOK, Pool!Places, Pool!Inside
    <2>2. CASE \E u \in {u \in PoolThreads : tpPlace[u] = "asleep"} :
                 tpPlace' = [tpPlace EXCEPT ![t] = to, ![u] = "start"]
      <3>1. PICK u \in PoolThreads : /\ tpPlace[u] = "asleep"
                                     /\ tpPlace' = [tpPlace EXCEPT ![t] = to, ![u] = "start"]
        BY <2>2
      <3>2. u # t
        BY <3>1 DEF Pool!Inside
      <3> QED
        BY <3>1, <3>2 DEF Pool!TypeOK, Pool!Places, Pool!Inside
    <2> QED
      BY <2>1, <2>2 DEF Pool!Stop
  <1>2. A1 = A \ {t}
    BY <1>1 DEF Pool!Inside
  <1>3. tpActive = Cardinality(A) /\ tpActive <= PoolMaxActive
    BY DEF Bounded
  <1>4. Cardinality(A) \in Nat \ {0} /\ Cardinality(A1) = Cardinality(A) - 1
    BY <1>2, OneLessInside, PoolIs
  <1>5. tpActive' = tpActive - 1
    BY DEF Pool!Stop
  <1>6. tpActive' \in Nat /\ tpActive' = Cardinality(A1) /\ tpActive' <= PoolMaxActive
    BY <1>3, <1>4, <1>5, PoolIs
  <1> QED
    BY <1>1, <1>6 DEF Bounded, Pool!Inside

\* The mutex where a step moves no thread in or out of those that have it.
LEMMA SameHolder ==
  ASSUME MutexInv, UNCHANGED tpMutex,
         \A t \in PoolThreads : HasMutex(t)' <=> HasMutex(t)
  PROVE  MutexInv'
  BY DEF MutexInv

-----------------------------------------------------------------------------
LEMMA PoolInvInit == Pool!Init => PoolInv
  <1> SUFFICES ASSUME Pool!Init
               PROVE  PoolInv
    OBVIOUS
  <1>1. Pool!TypeOK
    BY DEF Pool!Init, Pool!TypeOK, Pool!Places, Pool!Inside
  <1>2. {t \in PoolThreads : tpPlace[t] \in Pool!Inside} = {}
    BY DEF Pool!Init, Pool!Inside
  <1>3. Bounded
    BY <1>2, FS_EmptySet, PoolIs DEF Pool!Init, Bounded
  <1>4. MutexInv
    BY PoolIs DEF Pool!Init, MutexInv, HasMutex
  <1> QED
    BY <1>1, <1>3, <1>4 DEF PoolInv

LEMMA PoolInvNext == PoolInv /\ [Pool!Next]_(Pool!vars) => PoolInv'
  <1> SUFFICES ASSUME PoolInv, [Pool!Next]_(Pool!vars)
               PROVE  PoolInv'
    OBVIOUS
  <1> USE DEF PoolInv, Pool!Places, Pool!Inside
  <1>1. ASSUME NEW t \in PoolThreads, Pool!Start(t)
        PROVE  PoolInv'
    <2> DEFINE A == {u \in PoolThreads : tpPlace[u] \in {"work", "critical", "finish"}}
               A1 == {u \in PoolThreads : tpPlace'[u] \in {"work", "critical", "finish"}}
    <2>1. Pool!TypeOK'
      BY <1>1 DEF Pool!Start, Pool!TypeOK
    <2>2. Bounded'
      <3>1. CASE tpActive = PoolMaxActive
        BY <1>1, <3>1, SameInside DEF Pool!Start, Pool!TypeOK
      <3>2. CASE tpActive # PoolMaxActive
        <4>1. A1 = A \cup {t} /\ t \notin A
          BY <1>1, <3>2 DEF Pool!Start, Pool!TypeOK
        <4>2. Cardinality(A1) = Cardinality(A) + 1
          BY <4>1, OneMoreInside, PoolIs
        <4>3. tpActive' = tpActive + 1
          BY <1>1, <3>2 DEF Pool!Start
        <4>4. tpActive = Cardinality(A) /\ tpActive <= PoolMaxActive
          BY DEF Bounded
        <4>5. tpActive' = Cardinality(A1) /\ tpActive' <= PoolMaxActive
          BY <3>2, <4>2, <4>3, <4>4, PoolIs DEF Pool!TypeOK
        <4> QED
          BY <4>5 DEF Bounded
      <3> QED
        BY <3>1, <3>2
    <2>3. MutexInv'
      BY <1>1, SameHolder DEF Pool!Start, Pool!TypeOK, HasMutex
    <2> QED
      BY <2>1, <2>2, <2>3
  <1>2. ASSUME NEW t \in PoolThreads, Pool!TryLock(t)
        PROVE  PoolInv'
    <2>1. Pool!TypeOK'
      BY <1>2 DEF Pool!TryLock, Pool!TypeOK
    <2>2. Bounded'
      BY <1>2, SameInside DEF Pool!TryLock, Pool!TypeOK
    <2>3. MutexInv'
      BY <1>2, PoolIs DEF Pool!TryLock, Pool!TypeOK, MutexInv, HasMutex
    <2> QED
      BY <2>1, <2>2, <2>3
  <1>3. ASSUME NEW t \in PoolThreads, Pool!LeaveToLock(t)
        PROVE  PoolInv'
    <2>1. Pool!Stop(t, "blocked")
      BY <1>3 DEF Pool!LeaveToLock
    <2>2. Pool!TypeOK' /\ Bounded'
      BY <1>3, <2>1, StopBounds DEF Pool!LeaveToLock, Pool!TypeOK
    <2>3. \A u \in PoolThreads : HasMutex(u)' <=> HasMutex(u)
      BY <1>3, <2>1, StopBounds DEF Pool!LeaveToLock, Pool!TypeOK, HasMutex
    <2> QED
      BY <1>3, <2>2, <2>3, SameHolder DEF Pool!LeaveToLock
  <1>4. ASSUME NEW t \in PoolThreads, Pool!Acquire(t)
        PROVE  PoolInv'
    <2>1. Pool!TypeOK'
      BY <1>4 DEF Pool!Acquire, Pool!TypeOK
    <2>2. Bounded'
      BY <1>4, SameInside DEF Pool!Acquire, Pool!TypeOK
    <2>3. MutexInv'
      BY <1>4, PoolIs DEF Pool!Acquire, Pool!TypeOK, MutexInv, HasMutex
    <2> QED
      BY <2>1, <2>2, <2>3
  <1>5. ASSUME NEW t \in PoolThreads, Pool!LeaveToWait(t)
        PROVE  PoolInv'
    <2>1. Pool!Stop(t, "leaving")
      BY <1>5 DEF Pool!LeaveToWait
    <2>2. Pool!TypeOK' /\ Bounded'
      BY <1>5, <2>1, StopBounds DEF Pool!LeaveToWait, Pool!TypeOK
    <2>3. \A u \in PoolThreads : HasMutex(u)' <=> HasMutex(u)
      BY <1>5, <2>1, StopBounds DEF Pool!LeaveToWait, Pool!TypeOK, HasMutex
    <2> QED
      BY <1>5, <2>2, <2>3, SameHolder DEF Pool!LeaveToWait
  <1>6. ASSUME NEW t \in PoolThreads, Pool!Wait(t)
        PROVE  PoolInv'
    <2>1. Pool!TypeOK'
      BY <1>6 DEF Pool!Wait, Pool!TypeOK
    <2>2. Bounded'
      BY <1>6, SameInside DEF Pool!Wait, Pool!TypeOK
    <2>3. MutexInv'
      BY <1>6, PoolIs DEF Pool!Wait, Pool!TypeOK, MutexInv, HasMutex
    <2> QED
      BY <2>1, <2>2, <2>3
  <1>7. ASSUME NEW t \in PoolThreads, t # PoolOpener, Pool!Unlock(t)
        PROVE  PoolInv'
    <2>1. Pool!TypeOK'
      BY <1>7 DEF Pool!Unlock, Pool!TypeOK
    <2>2. Bounded'
      BY <1>7, SameInside DEF Pool!Unlock, Pool!TypeOK
    <2>3. MutexInv'
      BY <1>7, PoolIs DEF Pool!Unlock, Pool!TypeOK, MutexInv, HasMutex
    <2> QED
      BY <2>1, <2>2, <2>3
  <1>8. ASSUME NEW t \in PoolThreads, Pool!Finish(t)
        PROVE  PoolInv'
    <2>1. Pool!Stop(t, "done")
      BY <1>8 DEF Pool!Finish
    <2>2. Pool!TypeOK' /\ Bounded'
      BY <1>8, <2>1, StopBounds DEF Pool!Finish, Pool!TypeOK
    <2>3. \A u \in PoolThreads : HasMutex(u)' <=> HasMutex(u)
      BY <1>8, <2>1, StopBounds DEF Pool!Finish, Pool!TypeOK, HasMutex
    <2> QED
      BY <1>8, <2>2, <2>3, SameHolder DEF Pool!Finish
  <1>9. ASSUME Pool!Open
        PROVE  PoolInv'
    <2>1. PoolOpener \in PoolThreads
      BY PoolIs
    <2>2. Pool!TypeOK'
      BY <1>9 DEF Pool!Open, Pool!TypeOK
    <2>3. \A u \in PoolThreads : tpPlace'[u] \in Pool!Inside <=> tpPlace[u] \in Pool!Inside
      BY <1>9, <2>1 DEF Pool!Open, Pool!TypeOK
    <2>4. Bounded'
      BY <1>9, <2>3, SameInside DEF Pool!Open
    <2>5. MutexInv'
      BY <1>9, <2>1, PoolIs DEF Pool!Open, Pool!TypeOK, MutexInv, HasMutex
    <2> QED
      BY <2>2, <2>4, <2>5
  <1>10. ASSUME NEW t \in PoolThreads, Pool!WakeUp(t) \/ Pool!TimeOut(t)
         PROVE  PoolInv'
    <2>1. Pool!TypeOK'
      BY <1>10 DEF Pool!WakeUp, Pool!TimeOut, Pool!TypeOK
    <2>2. Bounded'
      BY <1>10, SameInside DEF Pool!WakeUp, Pool!TimeOut, Pool!TypeOK
    <2>3. MutexInv'
      BY <1>10, SameHolder DEF Pool!WakeUp, Pool!TimeOut, Pool!TypeOK, HasMutex
    <2> QED
      BY <2>1, <2>2, <2>3
  <1>11. CASE UNCHANGED Pool!vars
    BY <1>11 DEF Pool!vars, Pool!TypeOK, Bounded, MutexInv, HasMutex
  <1> QED
    BY <1>1, <1>2, <1>3, <1>4, <1>5, <1>6, <1>7, <1>8, <1>9, <1>10, <1>11
    DEF Pool!Next, Pool!Step, Pool!Unlock

\* The invariant of the part is one of the composition.
LEMMA PoolInvHolds == Spec => [](Is("threads") => PoolInv)
  <1> DEFINE I == Is("threads") => PoolInv
  <1>1. Init => I
    BY PoolInvInit DEF Init, Is
  <1>2. I /\ [Next]_vars => I'
    <2> SUFFICES ASSUME I, [Next]_vars, Is("threads") PROVE PoolInv'
      BY SubjectStays
    <2>1. PoolInv /\ [Pool!Next]_(Pool!vars)
      BY DEF Next, vars, ThreadsStep, QueueStep, TuplesStep, ScanStep, IndexStep, SkewedStep,
         EnvStep, WorkStep, CodecStep, Pool!vars, tpVars, Is
    <2> QED
      BY <2>1, PoolInvNext
  <1> QED
    BY <1>1, <1>2, PTL DEF Spec

\* A thread pool counts the threads it has admitted, and admits at most _max_active, whoever
\* takes a free slot (thread_pool::start and stop).
THEOREM PoolBounded == Spec => []PoolIsBounded
  <1>1. (Is("threads") => PoolInv) => PoolIsBounded
    BY BoundedSuffices DEF Is, PoolInv, PoolIsBounded
  <1> QED
    BY <1>1, PoolInvHolds, PTL

\* The monitor that thread_mutex_lock() and thread_cond_wait() make together with the pool
\* is one: a thread that comes back to it through the pool still has the mutex.
MonitorIsExclusive ==
  subject = "threads" =>
    \A t, u \in PoolThreads : tpPlace[t] = "critical" /\ tpPlace[u] = "critical" => t = u

THEOREM MonitorAlwaysExclusive == Spec => []MonitorIsExclusive
  <1>1. (Is("threads") => PoolInv) => MonitorIsExclusive
    BY DEF Is, PoolInv, MutexInv, HasMutex, MonitorIsExclusive
  <1> QED
    BY <1>1, PoolInvHolds, PTL

-----------------------------------------------------------------------------
(***************************************************************************)
(* The indexes of a table.                                                 *)
(***************************************************************************)
\* The stores of the two indexes, with the entries they may have.
Tables(st) ==
  /\ DOMAIN st = {1, 2}
  /\ st[1] \in [DOMAIN st[1] -> Index!Rows] /\ DOMAIN st[1] \subseteq IndexKeys
  /\ st[2] \in [DOMAIN st[2] -> IndexKeys] /\ DOMAIN st[2] \subseteq IndexSeconds

\* Their entries lead to each other.
Agree(primary, secondary) ==
  /\ \A k \in DOMAIN primary :
       primary[k].second \in DOMAIN secondary /\ secondary[primary[k].second] = k
  /\ \A s \in DOMAIN secondary :
       secondary[s] \in DOMAIN primary /\ primary[secondary[s]].second = s

\* Before the table is created and after; the identifiers in memory are those of the
\* catalog.
Created == tiCatalog = [i \in Index!Indexes |-> IF i = "TABLE" THEN 1 ELSE 2]
TableInv ==
  /\ tiTrx \in {"none", "running", "failed"} /\ tiOps \in 0 .. IndexMaxOps
  /\ tiKey \in IndexKeys /\ tiRow \in Index!Rows /\ tiRep \in Index!Rows \cup {Index!Junk} /\ tiKnown \in BOOLEAN
  /\ \/ /\ tiCatalog = Index!Empty /\ tiStores = Index!Empty /\ tiTrx = "none"
        /\ tiStid = [i \in Index!Indexes |-> Index!Null]
     \/ Created /\ tiStid = tiCatalog /\ Tables(tiStores)

\* A transaction that has not failed has left the indexes in agreement, ...
AgreeInv == tiTrx # "failed" /\ Created => Agree(tiStores[1], tiStores[2])

\* ... and one that has will put back what it found.
BeforeInv ==
  tiTrx # "none" => /\ tiBefore[2] = tiCatalog
                    /\ Tables(tiBefore[1]) /\ Agree(tiBefore[1][1], tiBefore[1][2])

\* What the caller knows of the row in its tuple: the row is stored, with the secondary
\* key that the tuple has, and so is what update_tuple() would write.
KnownInv ==
  tiKnown => /\ tiTrx = "running"
             /\ tiKey \in DOMAIN tiStores[1]
             /\ tiStores[1][tiKey].second = tiRow.second
             /\ tiRep # Index!Junk => tiRep.second = tiRow.second

\* The inductive invariant.
IndexInv == TableInv /\ AgreeInv /\ BeforeInv /\ KnownInv

-----------------------------------------------------------------------------
LEMMA IndexBound == IndexMaxOps \in Nat
  BY IndexAssumption DEF Index!TableIndexAssumption

\* The bound of a transaction.
LEMMA OpsBounded ==
  ASSUME tiOps \in 0 .. IndexMaxOps, Index!Operation
  PROVE  tiOps' \in 0 .. IndexMaxOps
  BY IndexBound DEF Index!Operation

\* add_tuple() that comes to its end, delete_tuple() that does, and update_tuple() of a row
\* whose secondary key stays.
LEMMA AddAgrees ==
  ASSUME NEW p, p \in [DOMAIN p -> Index!Rows], NEW s, s \in [DOMAIN s -> IndexKeys], Agree(p, s),
         NEW k \in IndexKeys \ DOMAIN p, NEW r \in Index!Rows, r.second \notin DOMAIN s
  PROVE  Agree(Index!With(p, k, r), Index!With(s, r.second, k))
  <1> DEFINE q == Index!With(p, k, r)
             t == Index!With(s, r.second, k)
  <1>1. DOMAIN q = DOMAIN p \cup {k} /\ \A x \in DOMAIN p : q[x] = p[x]
    BY DEF Index!With
  <1>2. DOMAIN t = DOMAIN s \cup {r.second} /\ \A x \in DOMAIN s : t[x] = s[x]
    BY DEF Index!With
  <1>3. q[k] = r /\ t[r.second] = k
    BY DEF Index!With
  <1> HIDE DEF q, t
  <1>4. Agree(q, t)
    BY <1>1, <1>2, <1>3 DEF Agree
  <1> QED
    BY <1>4 DEF q, t

LEMMA DeleteAgrees ==
  ASSUME NEW p, p \in [DOMAIN p -> Index!Rows], NEW s, s \in [DOMAIN s -> IndexKeys], Agree(p, s),
         NEW k \in DOMAIN p
  PROVE  Agree(Index!Without(p, k), Index!Without(s, p[k].second))
  <1> DEFINE q == Index!Without(p, k)
             t == Index!Without(s, p[k].second)
  <1>1. DOMAIN q = DOMAIN p \ {k} /\ \A x \in DOMAIN q : q[x] = p[x]
    BY DEF Index!Without, Index!Restrict
  <1>2. DOMAIN t = DOMAIN s \ {p[k].second} /\ \A x \in DOMAIN t : t[x] = s[x]
    BY DEF Index!Without, Index!Restrict
  <1> HIDE DEF q, t
  <1>3. Agree(q, t)
    BY <1>1, <1>2 DEF Agree
  <1> QED
    BY <1>3 DEF q, t

LEMMA UpdateAgrees ==
  ASSUME NEW p, p \in [DOMAIN p -> Index!Rows], NEW s, s \in [DOMAIN s -> IndexKeys], Agree(p, s),
         NEW k \in DOMAIN p, NEW r \in Index!Rows, r.second = p[k].second
  PROVE  Agree(Index!With(p, k, r), s)
  <1> DEFINE q == Index!With(p, k, r)
  <1>1. DOMAIN q = DOMAIN p /\ \A x \in DOMAIN p \ {k} : q[x] = p[x]
    BY DEF Index!With
  <1>2. q[k] = r
    BY DEF Index!With
  <1> HIDE DEF q
  <1>3. Agree(q, s)
    BY <1>1, <1>2 DEF Agree
  <1> QED
    BY <1>3 DEF q

\* An operation writes into the two stores of the table.
LEMMA PutStores ==
  ASSUME Created, tiStid = tiCatalog, Tables(tiStores), NEW p, NEW s, Index!Put(p, s)
  PROVE  DOMAIN tiStores' = {1, 2} /\ tiStores'[1] = p /\ tiStores'[2] = s
  <1>1. tiStid["TABLE"] = 1 /\ tiStid["SECOND"] = 2
    BY DEF Created, Index!Indexes
  <1> QED
    BY <1>1 DEF Index!Put, Tables

LEMMA Entries ==
  ASSUME Created, tiStid = tiCatalog
  PROVE  Index!Primary = tiStores[1] /\ Index!Secondary = tiStores[2]
  BY DEF Created, Index!Indexes, Index!Primary, Index!Secondary

-----------------------------------------------------------------------------
\* A transaction runs only on a table.
LEMMA TableIsThere ==
  ASSUME IndexInv, tiTrx # "none" \/ tiCatalog # Index!Empty \/ tiStid["TABLE"] # Index!Null
  PROVE  Created /\ tiStid = tiCatalog /\ Tables(tiStores)
  BY DEF IndexInv, TableInv, Index!Indexes

LEMMA IndexInvInit == Index!Init => IndexInv
  <1> SUFFICES ASSUME Index!Init
               PROVE  IndexInv
    OBVIOUS
  <1>0. tiOps \in 0 .. IndexMaxOps
    BY IndexBound DEF Index!Init
  <1>1. TableInv
    BY <1>0 DEF Index!Init, TableInv
  <1>2. ~Created
    BY DEF Index!Init, Created, Index!Empty, Index!Indexes
  <1>3. AgreeInv /\ BeforeInv /\ KnownInv
    BY <1>2 DEF Index!Init, AgreeInv, BeforeInv, KnownInv
  <1> QED
    BY <1>1, <1>3 DEF IndexInv

\* The operations of a transaction that write: in each, the stores keep their types, and
\* agree unless the transaction fails.
LEMMA AddInv ==
  ASSUME IndexInv, Index!Add
  PROVE  IndexInv'
  <1>1. Created /\ tiStid = tiCatalog /\ Tables(tiStores) /\ tiTrx = "running"
    BY TableIsThere DEF Index!Add, Index!Operation
  <1>2. Index!Primary = tiStores[1] /\ Index!Secondary = tiStores[2]
    BY <1>1, Entries
  <1>3. Agree(tiStores[1], tiStores[2])
    BY <1>1 DEF IndexInv, AgreeInv
  <1>4. UNCHANGED <<tiCatalog, tiStid, tiBefore, tiKey, tiRow>> /\ tiOps' \in 0 .. IndexMaxOps
    BY OpsBounded DEF Index!Add, Index!Operation, IndexInv, TableInv
  <1>5. tiRow.second \in IndexSeconds /\ tiRow \in Index!Rows /\ tiKey \in IndexKeys
    BY DEF IndexInv, TableInv, Index!Rows
  <1>6. CASE tiKey \in DOMAIN Index!Primary
    <2>1. UNCHANGED tiStores /\ tiRep' = tiRow /\ tiTrx' = "failed" /\ tiKnown' = FALSE
      BY <1>6 DEF Index!Add, Index!Fail
    <2> QED
      BY <1>1, <1>4, <2>1 DEF IndexInv, TableInv, AgreeInv, BeforeInv, KnownInv, Created
  <1>7. CASE tiKey \notin DOMAIN Index!Primary /\ tiRow.second \in DOMAIN Index!Secondary
    <2>1. /\ Index!Put(Index!With(Index!Primary, tiKey, tiRow), Index!Secondary)
          /\ tiRep' = Index!Junk /\ tiTrx' = "failed" /\ tiKnown' = FALSE
      BY <1>7 DEF Index!Add, Index!Fail
    <2>2. DOMAIN tiStores' = {1, 2} /\ tiStores'[1] = Index!With(tiStores[1], tiKey, tiRow) /\ tiStores'[2] = tiStores[2]
      BY <1>1, <1>2, <2>1, PutStores
    <2>3. Tables(tiStores)'
      BY <1>1, <1>5, <2>2 DEF Tables, Index!With
    <2> QED
      BY <1>1, <1>4, <2>1, <2>3 DEF IndexInv, TableInv, AgreeInv, BeforeInv, KnownInv, Created
  <1>8. CASE tiKey \notin DOMAIN Index!Primary /\ tiRow.second \notin DOMAIN Index!Secondary
    <2>1. /\ Index!Put(Index!With(Index!Primary, tiKey, tiRow), Index!With(Index!Secondary, tiRow.second, tiKey))
          /\ tiRep' = Index!Junk /\ tiTrx' = tiTrx /\ tiKnown' = TRUE
      BY <1>8 DEF Index!Add, Index!Done
    <2>2. /\ DOMAIN tiStores' = {1, 2} /\ tiStores'[1] = Index!With(tiStores[1], tiKey, tiRow)
          /\ tiStores'[2] = Index!With(tiStores[2], tiRow.second, tiKey)
      BY <1>1, <1>2, <2>1, PutStores
    <2>3. Tables(tiStores)'
      BY <1>1, <1>5, <2>2 DEF Tables, Index!With
    <2>3a. tiKey \in DOMAIN tiStores'[1]
      BY <2>2 DEF Index!With
    <2>3b. tiStores'[1][tiKey] = tiRow
      BY <2>2 DEF Index!With
    <2>4. Agree(tiStores'[1], tiStores'[2])
      BY <1>1, <1>2, <1>3, <1>5, <1>8, <2>2, AddAgrees DEF Tables
    <2> QED
      BY <1>1, <1>4, <2>1, <2>3, <2>3a, <2>3b, <2>4 DEF IndexInv, TableInv, AgreeInv, BeforeInv, KnownInv, Created
  <1> QED
    BY <1>6, <1>7, <1>8

LEMMA DeleteInv ==
  ASSUME IndexInv, Index!Delete
  PROVE  IndexInv'
  <1>1. Created /\ tiStid = tiCatalog /\ Tables(tiStores) /\ tiTrx = "running"
    BY TableIsThere DEF Index!Delete, Index!Operation
  <1>2. Index!Primary = tiStores[1] /\ Index!Secondary = tiStores[2]
    BY <1>1, Entries
  <1>3. Agree(tiStores[1], tiStores[2])
    BY <1>1 DEF IndexInv, AgreeInv
  <1>4. UNCHANGED <<tiCatalog, tiStid, tiBefore, tiKey, tiRow>> /\ tiOps' \in 0 .. IndexMaxOps /\ tiRep' = Index!Junk
    BY OpsBounded DEF Index!Delete, Index!Operation, IndexInv, TableInv
  <1>5. tiKey \in DOMAIN tiStores[1] /\ tiStores[1][tiKey].second = tiRow.second
    BY DEF Index!Delete, IndexInv, KnownInv
  <1>6. tiRow.second \in DOMAIN Index!Secondary
    BY <1>2, <1>3, <1>5 DEF Agree
  <1>7. /\ Index!Put(Index!Without(Index!Primary, tiKey), Index!Without(Index!Secondary, tiRow.second))
        /\ tiKnown' = FALSE /\ tiTrx' = tiTrx
    BY <1>2, <1>5, <1>6 DEF Index!Delete, Index!Done
  <1>8. /\ DOMAIN tiStores' = {1, 2} /\ tiStores'[1] = Index!Without(tiStores[1], tiKey)
        /\ tiStores'[2] = Index!Without(tiStores[2], tiRow.second)
    BY <1>1, <1>2, <1>7, PutStores
  <1>9. Tables(tiStores)'
    BY <1>1, <1>8 DEF Tables, Index!Without, Index!Restrict
  <1>10. Agree(tiStores'[1], tiStores'[2])
    BY <1>1, <1>3, <1>5, <1>8, DeleteAgrees DEF Tables
  <1> QED
    BY <1>1, <1>4, <1>7, <1>9, <1>10 DEF IndexInv, TableInv, AgreeInv, BeforeInv, KnownInv, Created

LEMMA UpdateInv ==
  ASSUME IndexInv, Index!Update
  PROVE  IndexInv'
  <1>1. Created /\ tiStid = tiCatalog /\ Tables(tiStores) /\ tiTrx = "running"
    BY TableIsThere DEF Index!Update, Index!Operation
  <1>2. Index!Primary = tiStores[1] /\ Index!Secondary = tiStores[2]
    BY <1>1, Entries
  <1>3. Agree(tiStores[1], tiStores[2])
    BY <1>1 DEF IndexInv, AgreeInv
  <1>4. UNCHANGED <<tiCatalog, tiStid, tiBefore, tiKey, tiRow, tiRep>> /\ tiOps' \in 0 .. IndexMaxOps
    BY OpsBounded DEF Index!Update, Index!Operation, IndexInv, TableInv
  <1>5. /\ tiKey \in DOMAIN tiStores[1] /\ tiStores[1][tiKey].second = tiRow.second
        /\ tiRep \in Index!Rows /\ tiRep.second = tiRow.second
    BY DEF Index!Update, IndexInv, KnownInv, TableInv
  <1>6. Index!Put(Index!With(Index!Primary, tiKey, tiRep), Index!Secondary) /\ UNCHANGED <<tiKnown, tiTrx>>
    BY <1>2, <1>5 DEF Index!Update, Index!Done
  <1>7. DOMAIN tiStores' = {1, 2} /\ tiStores'[1] = Index!With(tiStores[1], tiKey, tiRep) /\ tiStores'[2] = tiStores[2]
    BY <1>1, <1>2, <1>6, PutStores
  <1>8. tiKey \in DOMAIN tiStores'[1]
    BY <1>7 DEF Index!With
  <1>8a. tiStores'[1][tiKey] = tiRep
    BY <1>7 DEF Index!With
  <1>9. Tables(tiStores)'
    BY <1>1, <1>5, <1>7 DEF Tables, Index!With
  <1>10. Agree(tiStores'[1], tiStores'[2])
    BY <1>1, <1>3, <1>5, <1>7, UpdateAgrees DEF Tables
  <1> QED
    BY <1>1, <1>4, <1>5, <1>6, <1>8, <1>8a, <1>9, <1>10
    DEF IndexInv, TableInv, AgreeInv, BeforeInv, KnownInv, Created

LEMMA IndexInvNext == IndexInv /\ [Index!Next]_(Index!vars) => IndexInv'
  <1> SUFFICES ASSUME IndexInv, [Index!Next]_(Index!vars)
               PROVE  IndexInv'
    OBVIOUS
  <1>1. CASE Index!CreateTable
    <2>1. Created' /\ tiStid' = tiCatalog' /\ tiTrx' = "none" /\ UNCHANGED <<tiOps, Index!tuple>>
      BY <1>1 DEF Index!CreateTable, Created, IndexInv, TableInv
    <2>2. DOMAIN tiStores' = {1, 2} /\ tiStores'[1] = <<>> /\ tiStores'[2] = <<>>
      BY <1>1 DEF Index!CreateTable, Index!Empty
    <2>3. DOMAIN tiStores'[1] = {} /\ DOMAIN tiStores'[2] = {}
      BY <2>2
    <2>4. Tables(tiStores)'
      BY <2>2, <2>3 DEF Tables
    <2>5. Agree(tiStores'[1], tiStores'[2])
      BY <2>3 DEF Agree
    <2>6. ~tiKnown
      BY <1>1 DEF Index!CreateTable, IndexInv, KnownInv
    <2> QED
      BY <2>1, <2>4, <2>5, <2>6 DEF IndexInv, TableInv, AgreeInv, BeforeInv, KnownInv, Index!tuple
  <1>2. CASE Index!Reopen
    <2>1. Created /\ tiStid = tiCatalog /\ Tables(tiStores) /\ tiTrx = "none"
      BY <1>2, TableIsThere DEF Index!Reopen
    <2>2. tiStid' = [i \in Index!Indexes |-> tiCatalog[i]] /\ UNCHANGED <<tiStores, tiCatalog, tiBefore, tiTrx, tiOps>>
      BY <1>2 DEF Index!Reopen, Index!LoadStid, Index!stored
    <2>3. tiStid' = tiCatalog'
      BY <2>1, <2>2 DEF Created
    <2>4. tiKey' \in IndexKeys /\ tiRow' \in Index!Rows /\ tiRep' = Index!Junk /\ tiKnown' = FALSE
      BY <1>2 DEF Index!Reopen
    <2> QED
      BY <2>1, <2>2, <2>3, <2>4 DEF IndexInv, TableInv, AgreeInv, BeforeInv, KnownInv, Created
  <1>3. CASE Index!Begin
    <2>1. Created /\ tiStid = tiCatalog /\ Tables(tiStores) /\ tiTrx = "none"
      BY <1>3, TableIsThere DEF Index!Begin
    <2>2. /\ UNCHANGED <<tiStores, tiCatalog, tiStid, tiKey, tiRow, tiRep>>
          /\ tiTrx' = "running" /\ tiOps' = 0 /\ tiKnown' = FALSE /\ tiBefore' = <<tiStores, tiCatalog>>
      BY <1>3 DEF Index!Begin, Index!stored
    <2>3. Agree(tiStores[1], tiStores[2])
      BY <2>1 DEF IndexInv, AgreeInv
    <2>4. tiOps' \in 0 .. IndexMaxOps
      BY <2>2, IndexBound
    <2>5. Tables(tiStores)' /\ Created' /\ tiStid' = tiCatalog' /\ Agree(tiStores'[1], tiStores'[2])
      BY <2>1, <2>2, <2>3 DEF Created, Tables
    <2>6. BeforeInv'
      BY <2>1, <2>2, <2>3 DEF BeforeInv, Tables
    <2> QED
      BY <2>1, <2>2, <2>4, <2>5, <2>6 DEF IndexInv, TableInv, AgreeInv, KnownInv
  <1>4. CASE Index!SetValues
    <2>1. Created /\ tiStid = tiCatalog /\ Tables(tiStores) /\ tiTrx = "running"
      BY <1>4, TableIsThere DEF Index!SetValues
    <2> QED
      BY <1>4, <2>1 DEF Index!SetValues, IndexInv, TableInv, AgreeInv, BeforeInv, KnownInv, Created, Index!stored
  <1>5. CASE Index!Probe
    <2>1. Created /\ tiStid = tiCatalog /\ Tables(tiStores) /\ tiTrx = "running"
      BY <1>5, TableIsThere DEF Index!Probe, Index!Operation
    <2>2. Index!Primary = tiStores[1]
      BY <2>1, Entries
    <2>3. UNCHANGED <<tiCatalog, tiStid, tiBefore, tiStores, tiKey>> /\ tiOps' \in 0 .. IndexMaxOps
      BY <1>5, OpsBounded DEF Index!Probe, Index!Operation, IndexInv, TableInv
    <2>4. CASE tiKey \in DOMAIN Index!Primary
      <3>1. tiRep' = tiStores[1][tiKey] /\ tiRow' = tiRep' /\ tiKnown' = TRUE /\ tiTrx' = tiTrx
        BY <1>5, <2>2, <2>4 DEF Index!Probe, Index!Done
      <3>2. tiRep' \in Index!Rows
        BY <2>1, <2>2, <2>4, <3>1 DEF Tables
      <3> QED
        BY <2>1, <2>2, <2>3, <2>4, <3>1, <3>2
        DEF IndexInv, TableInv, AgreeInv, BeforeInv, KnownInv, Created
    <2>5. CASE tiKey \notin DOMAIN Index!Primary
      <3>1. tiTrx' = "failed" /\ tiKnown' = FALSE /\ UNCHANGED <<tiRep, tiRow>>
        BY <1>5, <2>5 DEF Index!Probe, Index!Fail
      <3> QED
        BY <2>1, <2>3, <3>1 DEF IndexInv, TableInv, AgreeInv, BeforeInv, KnownInv, Created
    <2> QED
      BY <2>4, <2>5
  <1>6. CASE Index!ProbeSecond
    <2>1. Created /\ tiStid = tiCatalog /\ Tables(tiStores) /\ tiTrx = "running"
      BY <1>6, TableIsThere DEF Index!ProbeSecond, Index!Operation
    <2>2. Index!Primary = tiStores[1] /\ Index!Secondary = tiStores[2]
      BY <2>1, Entries
    <2>3. /\ UNCHANGED <<tiCatalog, tiStid, tiBefore, tiStores, tiKey, tiRow>> /\ tiOps' \in 0 .. IndexMaxOps
          /\ tiKnown' = FALSE /\ tiTrx' \in {"running", "failed"}
      BY <1>6, <2>1, OpsBounded DEF Index!ProbeSecond, Index!Operation, IndexInv, TableInv, Index!Fail, Index!Done
    <2>4. tiRep' \in Index!Rows \cup {Index!Junk}
      BY <1>6, <2>1, <2>2 DEF Index!ProbeSecond, IndexInv, TableInv, Tables
    <2> QED
      BY <2>1, <2>3, <2>4 DEF IndexInv, TableInv, AgreeInv, BeforeInv, KnownInv, Created
  <1>7. CASE Index!Add
    BY <1>7, AddInv
  <1>8. CASE Index!Delete
    BY <1>8, DeleteInv
  <1>9. CASE Index!Update
    BY <1>9, UpdateInv
  <1>10. CASE Index!Commit
    <2>1. Created /\ tiStid = tiCatalog /\ Tables(tiStores) /\ tiTrx = "running"
      BY <1>10, TableIsThere DEF Index!Commit
    <2> QED
      BY <1>10, <2>1 DEF Index!Commit, IndexInv, TableInv, AgreeInv, BeforeInv, KnownInv, Created, Index!stored
  <1>11. CASE Index!Abort
    <2>1. Created /\ tiStid = tiCatalog /\ tiTrx = "failed"
      BY <1>11, TableIsThere DEF Index!Abort
    <2>2. /\ UNCHANGED <<tiStid, tiOps, tiKey, tiRow, tiRep, tiKnown>> /\ tiTrx' = "none" /\ ~tiKnown
          /\ tiStores' = tiBefore[1] /\ tiCatalog' = tiCatalog
      BY <1>11, <2>1 DEF Index!Abort, Index!tuple, IndexInv, KnownInv, BeforeInv
    <2>3. Tables(tiBefore[1]) /\ Agree(tiBefore[1][1], tiBefore[1][2])
      BY <2>1 DEF IndexInv, BeforeInv
    <2>4. Tables(tiStores)' /\ Agree(tiStores'[1], tiStores'[2])
      BY <2>2, <2>3 DEF Tables
    <2> QED
      BY <2>1, <2>2, <2>4 DEF IndexInv, TableInv, AgreeInv, BeforeInv, KnownInv, Created
  <1>12. CASE UNCHANGED Index!vars
    BY <1>12 DEF Index!vars, Index!stored, Index!tuple, IndexInv, TableInv, AgreeInv, BeforeInv, KnownInv, Created, Tables
  <1> QED
    BY <1>1, <1>2, <1>3, <1>4, <1>5, <1>6, <1>7, <1>8, <1>9, <1>10, <1>11, <1>12 DEF Index!Next


LEMMA IndexInvSuffices == IndexInv => Index!IndexesAgree
  <1> SUFFICES ASSUME IndexInv, tiTrx = "none", tiCatalog # Index!Empty
               PROVE  Index!IndexesAgree
    BY DEF Index!IndexesAgree
  <1>1. tiCatalog["TABLE"] = 1 /\ tiCatalog["SECOND"] = 2 /\ Created
    BY TableIsThere DEF Created, Index!Indexes
  <1> QED
    BY <1>1 DEF IndexInv, AgreeInv, Agree, Index!IndexesAgree

\* Between transactions the rows of a table and its secondary index lead to each other,
\* whatever add_tuple(), delete_tuple() and update_tuple() do in transactions that abort at
\* the first error.
THEOREM IndexesAlwaysAgree == Spec => []IndexesAgree
  <1> DEFINE I == Is("index") => IndexInv
  <1>1. Init => I
    BY IndexInvInit DEF Init, Is
  <1>2. I /\ [Next]_vars => I'
    <2> SUFFICES ASSUME I, [Next]_vars, Is("index") PROVE IndexInv'
      BY SubjectStays
    <2>1. IndexInv /\ [Index!Next]_(Index!vars)
      BY DEF Next, vars, ThreadsStep, QueueStep, TuplesStep, ScanStep, IndexStep, SkewedStep,
         EnvStep, WorkStep, CodecStep, Index!vars, Index!tuple, Index!stored, tiVars, Is
    <2> QED
      BY <2>1, IndexInvNext
  <1>3. I => IndexesAgree
    BY IndexInvSuffices DEF Is, IndexesAgree
  <1> QED
    BY <1>1, <1>2, <1>3, PTL DEF Spec

-----------------------------------------------------------------------------
(***************************************************************************)
(* The variables of the environment.                                       *)
(***************************************************************************)

\* What has been read of a variable is what the map has; of one that is not in the map
\* nothing has been read, or the empty default that is not kept.
ReadsInv ==
  /\ evReads = [p \in EnvParams |-> evReads[p]]
  /\ \A p \in EnvParams :
       \/ p \in DOMAIN evEvm /\ evReads[p] \subseteq {evEvm[p]}
       \/ p \notin DOMAIN evEvm /\ EnvDefault[p] = <<>> /\ evReads[p] \subseteq {<<>>}
       \/ p \notin DOMAIN evEvm /\ evReads[p] = {}

EnvInv == Is("env") => ReadsInv

LEMMA SameCardinality == ASSUME NEW S PROVE Env!Cardinality(S) = Cardinality(S)
  BY DEF Env!Cardinality, Cardinality

LEMMA EnvInvStep == EnvInv /\ [Next]_vars => EnvInv'
  <1> SUFFICES ASSUME EnvInv, [Next]_vars, Is("env") PROVE ReadsInv'
    BY SubjectStays DEF EnvInv
  <1>0. ReadsInv
    BY DEF EnvInv
  <1>1. CASE UNCHANGED <<evReads, evEvm>>
    BY <1>0, <1>1 DEF ReadsInv
  <1>2. ASSUME NEW p \in EnvParams, Env!GetVar(p) PROVE ReadsInv'
    <2> DEFINE value == IF p \in DOMAIN evEvm THEN evEvm[p]
                        ELSE IF EnvDefault[p] = <<>> THEN <<>> ELSE Env!FileValue(p, EnvDefault[p])
    <2>1. /\ evReads' = [evReads EXCEPT ![p] = @ \cup {value}]
          /\ evEvm' = IF p \in DOMAIN evEvm \/ EnvDefault[p] = <<>> THEN evEvm
                                                                  ELSE Env!With(evEvm, p, value)
      BY <1>2 DEF Env!GetVar
    <2>2. evReads' = [q \in EnvParams |-> evReads'[q]]
      BY <2>1, <1>0 DEF ReadsInv
    <2>3. evReads'[p] = evReads[p] \cup {value}
          /\ \A q \in EnvParams : q # p => evReads'[q] = evReads[q]
      BY <2>1, <1>0 DEF ReadsInv
    <2>4. CASE p \in DOMAIN evEvm \/ EnvDefault[p] = <<>>
      <3>1. evEvm' = evEvm
        BY <2>1, <2>4
      <3> QED
        BY <3>1, <2>2, <2>3, <2>4, <1>0 DEF ReadsInv
    <2>5. CASE ~(p \in DOMAIN evEvm \/ EnvDefault[p] = <<>>)
      <3> HIDE DEF value
      <3>1. evEvm' = Env!With(evEvm, p, value)
        BY <2>1, <2>5
      <3>2. /\ DOMAIN evEvm' = DOMAIN evEvm \cup {p}
            /\ evEvm'[p] = value
            /\ \A q \in DOMAIN evEvm : q # p => evEvm'[q] = evEvm[q]
        BY <3>1 DEF Env!With
      <3> QED
        BY <3>2, <2>2, <2>3, <2>5, <1>0 DEF ReadsInv
    <2> QED
      BY <2>4, <2>5
  <1>3. ASSUME NEW p \in EnvParams, NEW v, Env!SetVar(p, v) PROVE ReadsInv'
    <2>1. /\ evEvm' = Env!With(evEvm, p, v)
          /\ evReads' = [q \in EnvParams |-> IF q \in {p} THEN {} ELSE evReads[q]]
      BY <1>3 DEF Env!SetVar, Env!Written
    <2>2. /\ DOMAIN evEvm' = DOMAIN evEvm \cup {p}
          /\ evEvm'[p] = v
          /\ \A q \in DOMAIN evEvm : q # p => evEvm'[q] = evEvm[q]
      BY <2>1 DEF Env!With
    <2> QED
      BY <2>1, <2>2, <1>0 DEF ReadsInv
  <1>4. ASSUME Env!RefreshVars PROVE ReadsInv'
    <2>1. DOMAIN evEvm' = DOMAIN evEvm
      BY <1>4 DEF Env!RefreshVars
    <2>2. evReads' = [q \in EnvParams |-> IF q \in DOMAIN evEvm THEN {} ELSE evReads[q]]
      BY <1>4 DEF Env!RefreshVars, Env!Written
    <2> QED
      BY <2>1, <2>2, <1>0 DEF ReadsInv
  <1>5. ASSUME Env!SetConfFile PROVE ReadsInv'
    BY <1>5, <1>1 DEF Env!SetConfFile
  <1> QED
    BY <1>1, <1>2, <1>3, <1>4, <1>5 DEF Next, vars, evVars, ThreadsStep, QueueStep, TuplesStep,
       ScanStep, IndexStep, SkewedStep, EnvStep, WorkStep, CodecStep, Env!Next, Is

\* All who read a variable see one value until it is set or refreshed, whatever the files
\* hold (envVar::getVar).
THEOREM ReadersAgree == Spec => []ReadsAgree
  <1>1. Init => EnvInv
    BY DEF Init, EnvInv, ReadsInv, Is, Env!Init
  <1>2. EnvInv => ReadsAgree
    <2> SUFFICES ASSUME ReadsInv, NEW p \in EnvParams PROVE Cardinality(evReads[p]) <= 1
      BY SameCardinality DEF EnvInv, Is, ReadsAgree, Env!ReadsAgree
    <2>1. PICK v : evReads[p] \subseteq {v}
      BY DEF ReadsInv
    <2>2. evReads[p] = {} \/ evReads[p] = {v}
      BY <2>1
    <2> QED
      <3>1. Cardinality({}) = 0 /\ Cardinality({v}) = 1
        BY FS_EmptySet, FS_Singleton
      <3>2. Cardinality(evReads[p]) \in {0, 1}
        BY <2>2, <3>1
      <3> QED
        BY <3>2
  <1> QED
    BY <1>1, <1>2, EnvInvStep, PTL DEF Spec

-----------------------------------------------------------------------------
(***************************************************************************)
(* The memory of a worker's queue.  An operation takes or gives back the   *)
(* arrays of the two vectors one at a time: so the invariant is a          *)
(* statement about the pool and two arrays, which each of the lemmas below *)
(* changes in one of them.                                                 *)
(***************************************************************************)
ArrayOK(a) ==
  /\ a \in Queue!Arrays
  /\ a.size = 0 <=> a.from = "none"
  /\ a.from = "pool" => a.block \in Queue!Blocks

\* The blocks two arrays hold, and how many of them are of a kind.
BlocksOf(w, r) == {x.block : x \in {y \in {w, r} : y.from = "pool"}}
One(a, f) == IF a.from = f THEN 1 ELSE 0

\* The blocks that are free or in B are those of the storage, each once.
Placed(s, u, B) ==
  /\ s \in [1 .. QueueSize -> Queue!Blocks]
  /\ u \in 0 .. QueueSize
  /\ \A i, j \in u + 1 .. QueueSize : s[i] = s[j] => i = j
  /\ \A i \in u + 1 .. QueueSize : s[i] \notin B
  /\ \A b \in Queue!Blocks : b \in B \/ \E i \in u + 1 .. QueueSize : s[i] = b
  /\ B \subseteq Queue!Blocks

\* m_used and m_overflow count what the vectors w and r hold.
PoolOK(s, u, o, w, r) ==
  /\ ArrayOK(w) /\ ArrayOK(r)
  /\ Placed(s, u, BlocksOf(w, r))
  /\ w.from = "pool" /\ r.from = "pool" => w.block # r.block
  /\ u = One(w, "pool") + One(r, "pool")
  /\ o = One(w, "overflow") + One(r, "overflow")

QueueInv ==
  /\ qpArray \in [Queue!Vectors -> Queue!Arrays]
  /\ PoolOK(qpSlots, qpUsed, qpOverflow, qpArray["writers"], qpArray["readers"])
  /\ ~qpQueue => \A v \in Queue!Vectors : qpArray[v] = Queue!None
  /\ ~qpPool => ~qpQueue

\* The block on top of the free slots is taken.
LEMMA BlockTaken ==
  ASSUME NEW s, NEW u, NEW B, Placed(s, u, B), u < QueueSize
  PROVE  /\ s[u + 1] \in Queue!Blocks /\ s[u + 1] \notin B
         /\ Placed(s, u + 1, B \cup {s[u + 1]})
  <1>1. u \in Nat /\ QueueSize \in Nat /\ u + 1 \in 1 .. QueueSize /\ u + 1 \in u + 1 .. QueueSize
    BY QueueAssumption DEF Queue!QueuePoolAssumption, Placed
  <1>2. /\ u + 1 \in 0 .. QueueSize
        /\ \A i \in (u + 1) + 1 .. QueueSize : i \in u + 1 .. QueueSize /\ i # u + 1
    BY <1>1
  <1>3. \A i \in u + 1 .. QueueSize : i = u + 1 \/ i \in (u + 1) + 1 .. QueueSize
    BY <1>1
  <1> QED
    BY <1>1, <1>2, <1>3 DEF Placed

\* A block goes back to the top of the slots.
LEMMA BlockReturned ==
  ASSUME NEW s, NEW u, NEW B, Placed(s, u, B), u # 0, NEW b \in B
  PROVE  Placed([s EXCEPT ![u] = b], u - 1, B \ {b})
  <1>1. u \in Nat /\ QueueSize \in Nat /\ u \in 1 .. QueueSize /\ u - 1 \in 0 .. QueueSize
    BY QueueAssumption DEF Queue!QueuePoolAssumption, Placed
  <1>2. \A i \in (u - 1) + 1 .. QueueSize : i = u \/ (i # u /\ i \in u + 1 .. QueueSize)
    BY <1>1
  <1>3. \A i \in u + 1 .. QueueSize :
          i # u /\ i \in (u - 1) + 1 .. QueueSize /\ i \in 1 .. QueueSize
    BY <1>1
  <1>4. u \in (u - 1) + 1 .. QueueSize
    BY <1>1
  <1> DEFINE t == [s EXCEPT ![u] = b]
  <1>5. /\ t \in [1 .. QueueSize -> Queue!Blocks] /\ t[u] = b
        /\ \A i \in 1 .. QueueSize : i # u => t[i] = s[i]
    BY <1>1 DEF Placed
  <1> HIDE DEF t
  <1>6. Placed(t, u - 1, B \ {b})
    BY <1>1, <1>2, <1>3, <1>4, <1>5 DEF Placed
  <1> QED
    BY <1>6 DEF t

LEMMA OneIsNat == ASSUME NEW a, NEW f PROVE One(a, f) \in {0, 1}
  BY DEF One

LEMMA PoolSwapped ==
  ASSUME NEW s, NEW u, NEW o, NEW w, NEW r, PoolOK(s, u, o, w, r)
  PROVE  PoolOK(s, u, o, r, w)
  <1>1. BlocksOf(w, r) = BlocksOf(r, w)
    BY DEF BlocksOf
  <1>2. \A f : One(w, f) + One(r, f) = One(r, f) + One(w, f)
    BY OneIsNat
  <1> QED
    BY <1>1, <1>2 DEF PoolOK

\* A vector has another array, and neither is the pool's.
LEMMA ArrayReplaced ==
  ASSUME NEW s, NEW u, NEW o, NEW w, NEW r, PoolOK(s, u, o, w, r),
         w.from \notin {"pool", "overflow"},
         NEW a, ArrayOK(a), a.from \notin {"pool", "overflow"}
  PROVE  PoolOK(s, u, o, a, r)
  <1>1. BlocksOf(a, r) = BlocksOf(w, r)
    BY DEF BlocksOf
  <1>2. \A f \in {"pool", "overflow"} : One(a, f) = One(w, f)
    BY DEF One
  <1> QED
    BY <1>1, <1>2 DEF PoolOK

\* Pool::Deallocate() of the array of a vector.
LEMMA ArrayReturned ==
  ASSUME NEW s, NEW u, NEW o, NEW w, NEW r, PoolOK(s, u, o, w, r)
  PROVE  PoolOK(Queue!SlotsAfter(s, u, w), Queue!UsedAfter(u, w), o - Queue!Overflowing(w),
                Queue!None, r)
  <1>0. /\ ArrayOK(Queue!None)
        /\ Queue!None.from = "none"
    BY DEF ArrayOK, Queue!None, Queue!Arrays
  <1>1. CASE w.from = "pool"
    <2>1. w.block \in BlocksOf(w, r)
      BY <1>1 DEF BlocksOf
    <2>2. u # 0
      <3>1. u = 1 + One(r, "pool")
        BY <1>1 DEF PoolOK, One
      <3> QED
        BY <3>1, OneIsNat
    <2>3. BlocksOf(Queue!None, r) = BlocksOf(w, r) \ {w.block}
      BY <1>0, <1>1 DEF BlocksOf, PoolOK
    <2>4. Placed([s EXCEPT ![u] = w.block], u - 1, BlocksOf(Queue!None, r))
      <3>1. Placed(s, u, BlocksOf(w, r))
        BY DEF PoolOK
      <3>2. Placed([s EXCEPT ![u] = w.block], u - 1, BlocksOf(w, r) \ {w.block})
        BY <2>1, <2>2, <3>1, BlockReturned
      <3> QED
        BY <2>3, <3>2
    <2>5. /\ u - 1 = One(Queue!None, "pool") + One(r, "pool")
          /\ o - 0 = One(Queue!None, "overflow") + One(r, "overflow")
      <3>1. /\ u = One(w, "pool") + One(r, "pool")
            /\ o = One(w, "overflow") + One(r, "overflow")
        BY DEF PoolOK
      <3>2. /\ One(w, "pool") = 1 /\ One(w, "overflow") = 0
            /\ One(Queue!None, "pool") = 0 /\ One(Queue!None, "overflow") = 0
        BY <1>0, <1>1 DEF One
      <3>3. One(r, "pool") \in {0, 1} /\ One(r, "overflow") \in {0, 1}
        BY OneIsNat
      <3> QED
        BY ONLY <3>1, <3>2, <3>3
    <2>6. /\ Queue!SlotsAfter(s, u, w) = [s EXCEPT ![u] = w.block]
          /\ Queue!UsedAfter(u, w) = u - 1
          /\ Queue!Overflowing(w) = 0
      BY <1>1 DEF Queue!SlotsAfter, Queue!UsedAfter, Queue!Overflowing
    <2> QED
      BY <1>0, <2>4, <2>5, <2>6 DEF PoolOK
  <1>2. CASE w.from # "pool"
    <2>1. BlocksOf(Queue!None, r) = BlocksOf(w, r)
      BY <1>0, <1>2 DEF BlocksOf
    <2>2. /\ u = One(Queue!None, "pool") + One(r, "pool")
          /\ o - Queue!Overflowing(w) = One(Queue!None, "overflow") + One(r, "overflow")
      <3>1. /\ u = One(w, "pool") + One(r, "pool")
            /\ o = One(w, "overflow") + One(r, "overflow")
        BY DEF PoolOK
      <3>2. /\ One(w, "pool") = 0 /\ One(w, "overflow") = Queue!Overflowing(w)
            /\ One(Queue!None, "pool") = 0 /\ One(Queue!None, "overflow") = 0
        BY <1>0, <1>2 DEF One, Queue!Overflowing
      <3>3. One(r, "pool") \in {0, 1} /\ One(r, "overflow") \in {0, 1}
            /\ One(w, "overflow") \in {0, 1}
        BY OneIsNat
      <3> QED
        BY ONLY <3>1, <3>2, <3>3
    <2>3. Queue!SlotsAfter(s, u, w) = s /\ Queue!UsedAfter(u, w) = u
      BY <1>2 DEF Queue!SlotsAfter, Queue!UsedAfter
    <2> QED
      BY <1>0, <2>1, <2>2, <2>3 DEF PoolOK
  <1> QED
    BY <1>1, <1>2

\* Pool::Allocate() of the first array of a vector.
LEMMA ArrayAllocated ==
  ASSUME NEW o, NEW w, NEW r, PoolOK(qpSlots, qpUsed, o, w, r), w.from = "none"
  PROVE  /\ qpUsed < QueueSize => PoolOK(qpSlots, qpUsed + 1, o, Queue!Allocated, r)
         /\ ~(qpUsed < QueueSize) => PoolOK(qpSlots, qpUsed, o + 1, Queue!Allocated, r)
  <1> DEFINE a == Queue!Allocated
  <1>0. QueueSize \in Nat /\ Queue!Blocks \subseteq Nat
    BY QueueAssumption DEF Queue!QueuePoolAssumption, Queue!Blocks
  <1>1. ASSUME qpUsed < QueueSize PROVE PoolOK(qpSlots, qpUsed + 1, o, a, r)
    <2>1. /\ a.from = "pool" /\ a.block = qpSlots[qpUsed + 1] /\ a.size = 1
          /\ a = [from |-> "pool", block |-> qpSlots[qpUsed + 1], size |-> 1]
      BY <1>1 DEF Queue!Allocated
    <2> HIDE DEF a
    <2>2. /\ a.block \in Queue!Blocks /\ a.block \notin BlocksOf(w, r)
          /\ Placed(qpSlots, qpUsed + 1, BlocksOf(w, r) \cup {a.block})
      BY <1>1, <2>1, BlockTaken DEF PoolOK
    <2>3. BlocksOf(a, r) = BlocksOf(w, r) \cup {a.block}
      BY <2>1 DEF BlocksOf
    <2>4. ArrayOK(a)
      <3>1. a \in Queue!Arrays
        BY <2>1, <2>2, <1>0 DEF Queue!Arrays
      <3> QED
        BY <2>1, <2>2, <3>1 DEF ArrayOK
    <2>5. r.from = "pool" => a.block # r.block
      BY <2>2 DEF BlocksOf
    <2>6. /\ qpUsed + 1 = One(a, "pool") + One(r, "pool")
          /\ o = One(a, "overflow") + One(r, "overflow")
      <3>1. /\ qpUsed = One(w, "pool") + One(r, "pool")
            /\ o = One(w, "overflow") + One(r, "overflow")
        BY DEF PoolOK
      <3>2. /\ One(w, "pool") = 0 /\ One(w, "overflow") = 0
            /\ One(a, "pool") = 1 /\ One(a, "overflow") = 0
        BY <2>1 DEF One
      <3>3. One(r, "pool") \in {0, 1} /\ One(r, "overflow") \in {0, 1}
        BY OneIsNat
      <3> QED
        BY ONLY <3>1, <3>2, <3>3
    <2> QED
      BY <2>2, <2>3, <2>4, <2>5, <2>6 DEF PoolOK
  <1>2. ASSUME ~(qpUsed < QueueSize) PROVE PoolOK(qpSlots, qpUsed, o + 1, a, r)
    <2>1. /\ a.from = "overflow" /\ a.size = 1
          /\ a = [from |-> "overflow", block |-> 0, size |-> 1]
      BY <1>2 DEF Queue!Allocated
    <2> HIDE DEF a
    <2>2. BlocksOf(a, r) = BlocksOf(w, r)
      BY <2>1 DEF BlocksOf
    <2>3. ArrayOK(a)
      <3>1. a \in Queue!Arrays
        BY <2>1 DEF Queue!Arrays
      <3>2. a.size # 0 /\ a.from # "none" /\ a.from # "pool"
        BY <2>1
      <3> QED
        BY <3>1, <3>2 DEF ArrayOK
    <2>4. /\ qpUsed = One(a, "pool") + One(r, "pool")
          /\ o + 1 = One(a, "overflow") + One(r, "overflow")
      <3>1. /\ qpUsed = One(w, "pool") + One(r, "pool")
            /\ o = One(w, "overflow") + One(r, "overflow")
        BY DEF PoolOK
      <3>2. /\ One(w, "pool") = 0 /\ One(w, "overflow") = 0
            /\ One(a, "pool") = 0 /\ One(a, "overflow") = 1
        BY <2>1 DEF One
      <3>3. One(r, "pool") \in {0, 1} /\ One(r, "overflow") \in {0, 1}
        BY OneIsNat
      <3> QED
        BY ONLY <3>1, <3>2, <3>3
    <2> QED
      BY <2>1, <2>2, <2>3, <2>4 DEF PoolOK
  <1> QED
    BY <1>1, <1>2

LEMMA QueueInvStep ==
  ASSUME QueueInv, [Queue!Next]_(Queue!vars)
  PROVE  QueueInv'
  <1> DEFINE w == qpArray["writers"]
             r == qpArray["readers"]
  <1>0. PoolOK(qpSlots, qpUsed, qpOverflow, w, r)
    BY DEF QueueInv
  <1>1. CASE UNCHANGED Queue!vars
    BY <1>1 DEF QueueInv, Queue!vars
  <1>2. ASSUME Queue!Push("writers") PROVE QueueInv'
    <2>1. UNCHANGED <<qpQueue, qpPool>> /\ qpQueue
      BY <1>2 DEF Queue!Push
    <2>2. SUFFICES /\ qpArray' \in [Queue!Vectors -> Queue!Arrays]
                   /\ PoolOK(qpSlots', qpUsed', qpOverflow',
                             qpArray'["writers"], qpArray'["readers"])
      BY <2>1, <1>0 DEF QueueInv
    <2>3. CASE qpLength["writers"] < w.size
      <3>1. UNCHANGED <<qpSlots, qpUsed, qpOverflow, qpArray>>
        BY <1>2, <2>3 DEF Queue!Push
      <3> QED
        BY <3>1, <1>0 DEF QueueInv
    <2>4. CASE ~(qpLength["writers"] < w.size) /\ w.size = 0
      <3>1. /\ qpArray' = [qpArray EXCEPT !["writers"] = Queue!Allocated]
            /\ IF qpUsed < QueueSize THEN qpUsed' = qpUsed + 1 /\ UNCHANGED qpOverflow
                                     ELSE qpOverflow' = qpOverflow + 1 /\ UNCHANGED qpUsed
            /\ UNCHANGED qpSlots
        BY <1>2, <2>4 DEF Queue!Push
      <3>2. w.from = "none"
        BY <1>0, <2>4 DEF PoolOK, ArrayOK
      <3>3. PoolOK(qpSlots', qpUsed', qpOverflow', Queue!Allocated, r)
        BY <1>0, <3>1, <3>2, ArrayAllocated
      <3>4. Queue!Allocated \in Queue!Arrays
        BY <3>3 DEF PoolOK, ArrayOK
      <3>5. /\ qpArray' \in [Queue!Vectors -> Queue!Arrays]
            /\ qpArray'["writers"] = Queue!Allocated /\ qpArray'["readers"] = r
        BY <3>1, <3>4 DEF QueueInv, Queue!Vectors
      <3> QED
        BY <3>3, <3>5
    <2>5. CASE ~(qpLength["writers"] < w.size) /\ w.size # 0
      <3> DEFINE h == Queue!Heap(2 * w.size)
      <3>1. /\ qpArray' = [qpArray EXCEPT !["writers"] = h]
            /\ qpSlots' = Queue!SlotsAfter(qpSlots, qpUsed, w)
            /\ qpUsed' = Queue!UsedAfter(qpUsed, w)
            /\ qpOverflow' = qpOverflow - Queue!Overflowing(w)
        BY <1>2, <2>5 DEF Queue!Push
      <3>2. w.size \in Nat
        BY <1>0 DEF PoolOK, ArrayOK, Queue!Arrays
      <3>3. /\ h = [from |-> "heap", block |-> 0, size |-> 2 * w.size] /\ h.from = "heap"
            /\ h.size = 2 * w.size /\ 2 * w.size \in Nat /\ 2 * w.size # 0
        BY <2>5, <3>2 DEF Queue!Heap
      <3> HIDE DEF h
      <3>4. h \in Queue!Arrays
        BY <3>3 DEF Queue!Arrays
      <3>5. ArrayOK(h)
        BY <3>3, <3>4 DEF ArrayOK
      <3>6. PoolOK(qpSlots', qpUsed', qpOverflow', Queue!None, r)
        BY <1>0, <3>1, ArrayReturned
      <3>7. PoolOK(qpSlots', qpUsed', qpOverflow', h, r)
        BY <3>3, <3>5, <3>6, ArrayReplaced DEF Queue!None
      <3>8. /\ qpArray' \in [Queue!Vectors -> Queue!Arrays]
            /\ qpArray'["writers"] = h /\ qpArray'["readers"] = r
        BY <3>1, <3>4 DEF QueueInv, Queue!Vectors
      <3> QED
        BY <3>7, <3>8
    <2> QED
      BY <2>3, <2>4, <2>5
  <1>3. ASSUME Queue!Swap PROVE QueueInv'
    <2>1. PoolOK(qpSlots, qpUsed, qpOverflow, r, w)
      BY <1>0, PoolSwapped
    <2>2. qpArray' = [writers |-> r, readers |-> w]
          /\ UNCHANGED <<qpSlots, qpUsed, qpOverflow, qpQueue, qpPool>> /\ qpQueue
      BY <1>3 DEF Queue!Swap
    <2>3. qpArray'["writers"] = r /\ qpArray'["readers"] = w
      BY <2>2
    <2>4. r \in Queue!Arrays /\ w \in Queue!Arrays
      BY <1>0 DEF PoolOK, ArrayOK
    <2>5. qpArray' \in [Queue!Vectors -> Queue!Arrays]
      BY <2>2, <2>4 DEF Queue!Vectors
    <2> QED
      BY <2>1, <2>2, <2>3, <2>5 DEF QueueInv
  <1>4. ASSUME Queue!DeleteQueue PROVE QueueInv'
    <2>1. /\ qpSlots' = Queue!SlotsAfter(Queue!SlotsAfter(qpSlots, qpUsed, r),
                                      Queue!UsedAfter(qpUsed, r), w)
          /\ qpUsed' = Queue!UsedAfter(Queue!UsedAfter(qpUsed, r), w)
          /\ qpOverflow' = qpOverflow - Queue!Overflowing(r) - Queue!Overflowing(w)
          /\ qpArray' = [v \in Queue!Vectors |-> Queue!None]
          /\ qpPool' = qpPool /\ qpQueue' = FALSE /\ qpQueue
      BY <1>4 DEF Queue!DeleteQueue
    <2>2. PICK s1, u1, o1 : /\ s1 = Queue!SlotsAfter(qpSlots, qpUsed, r)
                            /\ u1 = Queue!UsedAfter(qpUsed, r)
                            /\ o1 = qpOverflow - Queue!Overflowing(r)
      OBVIOUS
    <2>3. PoolOK(s1, u1, o1, w, Queue!None)
      BY <1>0, <2>2, PoolSwapped, ArrayReturned
    <2>4. PoolOK(qpSlots', qpUsed', qpOverflow', Queue!None, Queue!None)
      BY <2>1, <2>2, <2>3, ArrayReturned
    <2>5. Queue!None \in Queue!Arrays
      BY <2>4 DEF PoolOK, ArrayOK
    <2>6. /\ qpArray' \in [Queue!Vectors -> Queue!Arrays]
          /\ \A v \in Queue!Vectors : qpArray'[v] = Queue!None
          /\ qpArray'["writers"] = Queue!None /\ qpArray'["readers"] = Queue!None
      BY <2>1, <2>5 DEF Queue!Vectors
    <2> QED
      BY <2>1, <2>4, <2>6 DEF QueueInv
  <1>5. ASSUME Queue!DeletePool PROVE QueueInv'
    BY <1>5 DEF Queue!DeletePool, QueueInv
  <1> QED
    BY <1>1, <1>2, <1>3, <1>4, <1>5 DEF Queue!Next

\* Each block of the pool of a worker's queue is in one vector or free, and the pool is
\* there as long as a vector holds one (Pool::Allocate, Pool::Deallocate, ~trx_worker_t).
THEOREM BlocksAreInOnePlace == Spec => []BlocksInOnePlace
  <1> DEFINE Inv == Is("queue") => QueueInv
  <1>1. Init => Inv
    <2> SUFFICES ASSUME Queue!Init PROVE QueueInv
      BY DEF Init, Is
    <2>0. QueueSize \in Nat
      BY QueueAssumption DEF Queue!QueuePoolAssumption
    <2>1. /\ ArrayOK(Queue!None) /\ Queue!None.from = "none"
          /\ Queue!None \in Queue!Arrays
      BY DEF ArrayOK, Queue!None, Queue!Arrays
    <2>2. /\ qpArray \in [Queue!Vectors -> Queue!Arrays]
          /\ qpArray["writers"] = Queue!None /\ qpArray["readers"] = Queue!None
      BY <2>1 DEF Queue!Init, Queue!Vectors
    <2>3. /\ BlocksOf(Queue!None, Queue!None) = {}
          /\ \A f \in {"pool", "overflow"} : One(Queue!None, f) = 0
      BY <2>1 DEF BlocksOf, One
    <2>4. Placed(qpSlots, qpUsed, {})
      <3>1. /\ qpSlots \in [1 .. QueueSize -> Queue!Blocks]
            /\ \A i \in 1 .. QueueSize : qpSlots[i] = i - 1
        BY <2>0 DEF Queue!Init, Queue!Blocks
      <3>2. \A b \in Queue!Blocks : b + 1 \in 1 .. QueueSize /\ qpSlots[b + 1] = b
        BY <2>0, <3>1 DEF Queue!Blocks
      <3>3. qpUsed = 0 /\ qpUsed + 1 = 1
        BY DEF Queue!Init
      <3> QED
        BY <2>0, <3>1, <3>2, <3>3 DEF Placed
    <2>5. /\ Placed(qpSlots, qpUsed, BlocksOf(Queue!None, Queue!None))
          /\ qpUsed = One(Queue!None, "pool") + One(Queue!None, "pool")
          /\ qpOverflow = One(Queue!None, "overflow") + One(Queue!None, "overflow")
      BY <2>3, <2>4 DEF Queue!Init
    <2>6. PoolOK(qpSlots, qpUsed, qpOverflow, qpArray["writers"], qpArray["readers"])
      BY <2>1, <2>2, <2>5 DEF PoolOK
    <2> QED
      BY <2>2, <2>6 DEF QueueInv, Queue!Init
  <1>2. Inv /\ [Next]_vars => Inv'
    <2> SUFFICES ASSUME QueueInv, [Next]_vars, Is("queue") PROVE QueueInv'
      BY SubjectStays
    <2>1. [Queue!Next]_(Queue!vars)
      BY DEF Next, vars, ThreadsStep, QueueStep, TuplesStep, ScanStep, IndexStep, SkewedStep,
         EnvStep, WorkStep, CodecStep, Queue!vars, qpVars, Is
    <2> QED
      BY <2>1, QueueInvStep
  <1>3. Inv => BlocksInOnePlace
    <2> SUFFICES ASSUME QueueInv PROVE Queue!BlocksInOnePlace
      BY DEF BlocksInOnePlace, Is
    <2> DEFINE w == qpArray["writers"]
               r == qpArray["readers"]
               B == {qpArray[v].block : v \in Queue!Held}
    <2>1. PoolOK(qpSlots, qpUsed, qpOverflow, w, r)
      BY DEF QueueInv
    <2>2. B = BlocksOf(w, r)
      BY DEF Queue!Held, Queue!Vectors, BlocksOf
    <2>3. \A v, u \in Queue!Held : v # u => qpArray[v].block # qpArray[u].block
      BY <2>1 DEF Queue!Held, Queue!Vectors, PoolOK
    <2>4. Placed(qpSlots, qpUsed, B)
      BY <2>1, <2>2 DEF PoolOK
    <2> HIDE DEF B
    <2>5. /\ QueueSize \in Nat /\ qpUsed \in Nat
          /\ \A i \in qpUsed + 1 .. QueueSize : i \in 1 .. QueueSize
      BY <2>4, QueueAssumption DEF Placed, Queue!QueuePoolAssumption
    <2>6. /\ \A i, j \in qpUsed + 1 .. QueueSize : qpSlots[i] = qpSlots[j] => i = j
          /\ Queue!FreeBlocks \cup B = Queue!Blocks
          /\ Queue!FreeBlocks \cap B = {}
      BY <2>4, <2>5 DEF Placed, Queue!FreeBlocks
    <2>7. ASSUME ~qpPool PROVE qpUsed = 0 /\ qpOverflow = 0
      <3>1. w.from = "none" /\ r.from = "none"
        BY <2>7 DEF QueueInv, Queue!None, Queue!Vectors
      <3> QED
        BY <2>1, <3>1 DEF PoolOK, One
    <2> QED
      BY <2>3, <2>6, <2>7 DEF Queue!BlocksInOnePlace, B
  <1> QED
    BY <1>1, <1>2, <1>3, PTL DEF Spec

-----------------------------------------------------------------------------
(***************************************************************************)
(* What the transactions ask for.                                          *)
(***************************************************************************)
LEMMA DivPos == ASSUME NEW n \in Nat \ {0}, NEW x \in Nat
  PROVE x = n * (x \div n) + (x % n) /\ x % n \in 0 .. n - 1 /\ x \div n \in Int
  OBVIOUS

\* What a client's account number is divided into.
LEMMA DivOf == ASSUME NEW n \in Nat \ {0}, NEW b \in Nat, NEW a \in 0 .. n - 1
  PROVE (b * n + a) \div n = b
  <1> DEFINE x == b * n + a
             q == x \div n
             r == x % n
  <1>1. x \in Nat
    OBVIOUS
  <1>2. x = n * q + r /\ r \in 0 .. n - 1 /\ q \in Int
    BY <1>1, DivPos
  <1>3. x = b * n + a
    OBVIOUS
  <1> HIDE DEF q, r, x
  <1>4. n * (q - b) = a - r
    BY <1>2, <1>3
  <1>5. a - r < n /\ r - a < n
    BY <1>2
  <1>6. CASE q - b >= 1
    <2>1. n * (q - b) >= n
      BY <1>6, <1>2
    <2> QED
      BY <2>1, <1>4, <1>5, <1>2
  <1>7. CASE q - b <= -1
    <2>1. n * (q - b) <= -n
      BY <1>7, <1>2
    <2> QED
      BY <2>1, <1>4, <1>5, <1>2
  <1> QED
    BY <1>6, <1>7, <1>2 DEF q, x

QueriedByOption == wlOpt.queried_sf > 0 => wlSf = wlOpt.queried_sf /\ wlQf = wlOpt.queried_sf

\* The branch a client stays at is its own; 0 is any.
SelidOK(i) ==
  /\ i \in Nat
  /\ wlOpt.queried_sf > 0 =>
       wlClients[i].selid = IF wlOpt.spread THEN (i % wlOpt.queried_sf) + 1 ELSE 0

\* From initShoreEnv() on both factors are what the option says, so the clients are spread
\* over what the load makes; nothing is asked before the clients run.
WorkInv ==
  /\ wlOpt \in WorkOptions /\ wlBranches \in Nat /\ wlSf \in Nat
  /\ wlStep \in {"options", "init", "start", "load", "benchmark", "running", "down"}
  /\ wlStep \notin {"options", "down"} => QueriedByOption
  /\ wlStep = "running" => \A i \in DOMAIN wlClients : SelidOK(i)
  /\ wlStep \notin {"running", "down"} => wlAsked = Work!Nothing
  /\ Work!AsksForWhatIsThere

\* The input of a transaction of branch b.
LEMMA InputOfBranch ==
  ASSUME NEW b \in Nat, NEW in \in Work!Inputs(b)
  PROVE  /\ in.b_id = b
         /\ in.a_id \div WorkAccounts = b
         /\ in.t_id # -1 => in.t_id \div WorkTellers = b
  <1>1. WorkAccounts \in Nat \ {0} /\ WorkTellers \in Nat \ {0}
    BY WorkAssumption DEF Work!WorkloadAssumption
  <1>2. PICK a \in 0 .. WorkAccounts - 1 :
          /\ in.b_id = b /\ in.a_id = b * WorkAccounts + a
          /\ in.t_id = -1 \/ \E t \in 0 .. WorkTellers - 1 : in.t_id = b * WorkTellers + t
    <2>1. CASE in \in Work!AcctUpdateInput(b)
      BY <2>1 DEF Work!AcctUpdateInput, Work!UZRand
    <2>2. CASE in \in Work!MbenchInsertOnlyInput(b)
      BY <2>2 DEF Work!MbenchInsertOnlyInput, Work!UZRand
    <2> QED
      BY <2>1, <2>2 DEF Work!Inputs, Work!MbenchDeleteOnlyInput, Work!MbenchProbeOnlyInput,
         Work!MbenchInsertDeleteInput, Work!MbenchInsertProbeInput, Work!MbenchDeleteProbeInput,
         Work!MbenchMixInput
  <1>3. in.a_id \div WorkAccounts = b
    BY <1>1, <1>2, DivOf
  <1>4. ASSUME in.t_id # -1 PROVE in.t_id \div WorkTellers = b
    BY <1>1, <1>2, <1>4, DivOf
  <1> QED
    BY <1>2, <1>3, <1>4

LEMMA WorkInvStep ==
  ASSUME WorkInv, [Work!Next]_(Work!vars)
  PROVE  WorkInv'
  <1>0. /\ wlOpt \in WorkOptions /\ wlOpt.queried_sf \in Int /\ wlOpt.spread \in BOOLEAN
        /\ wlOpt.num_threads \in Nat
    BY WorkAssumption DEF WorkInv, Work!WorkloadAssumption
  <1>1. CASE UNCHANGED Work!vars
    BY <1>1 DEF WorkInv, QueriedByOption, SelidOK, Work!vars, Work!AsksForWhatIsThere
  <1>2. ASSUME Work!Fails PROVE WorkInv'
    BY <1>2 DEF WorkInv, Work!Fails, Work!AsksForWhatIsThere
  <1>3. ASSUME Work!InitShoreEnv PROVE WorkInv'
    <2>1. QueriedByOption'
      BY <1>3, <1>0 DEF Work!InitShoreEnv, Work!SetSf, Work!SetQf, QueriedByOption
    <2>2. wlSf' \in Nat
      BY <1>3, <1>0 DEF WorkInv, Work!InitShoreEnv, Work!SetSf
    <2> QED
      BY <1>3, <2>1, <2>2 DEF WorkInv, Work!InitShoreEnv, Work!AsksForWhatIsThere
  <1>4. ASSUME Work!ConfigureSm PROVE WorkInv'
    BY <1>4 DEF WorkInv, Work!ConfigureSm, Work!After, QueriedByOption, Work!AsksForWhatIsThere
  <1>5. ASSUME Work!Start PROVE WorkInv'
    BY <1>5 DEF WorkInv, Work!Start, Work!After, QueriedByOption, Work!AsksForWhatIsThere
  <1>6. ASSUME Work!Load PROVE WorkInv'
    BY <1>6 DEF WorkInv, Work!Load, QueriedByOption, Work!AsksForWhatIsThere
  <1>7. ASSUME Work!RunBenchmark PROVE WorkInv'
    <2> DEFINE q == Work!QueriedSf
               share == IF wlOpt.duration > 0 THEN 0 ELSE wlOpt.num_trxs \div wlOpt.num_threads
    <2>1. /\ wlClients' = [i \in 0 .. wlOpt.num_threads - 1 |->
               [selid |-> Work!WhId(i, q), notrxs |-> share, worker |-> i % wlWorkerCnt]]
          /\ wlStep = "benchmark" /\ wlStep' \in {"running", "down"}
          /\ UNCHANGED <<wlOpt, wlSf, wlQf, wlWorkerCnt, wlBranches, wlAsked>>
      BY <1>7 DEF Work!RunBenchmark, Work!After
    <2> HIDE DEF share
    <2>2. ASSUME NEW i \in DOMAIN wlClients' PROVE SelidOK(i)'
      <3>1. i \in Nat /\ wlClients'[i].selid = Work!WhId(i, q)
        BY <2>1, <1>0
      <3>2. wlOpt.queried_sf > 0 => q = wlOpt.queried_sf
        BY <1>0 DEF Work!QueriedSf
      <3> QED
        BY <2>1, <3>1, <3>2 DEF SelidOK, Work!WhId
    <2> QED
      BY <2>1, <2>2 DEF WorkInv, QueriedByOption, Work!AsksForWhatIsThere
  <1>8. ASSUME NEW i \in DOMAIN wlClients, Work!Ask(i) PROVE WorkInv'
    <2>0. PICK b \in Work!Branches(wlClients[i].selid) : \E in \in Work!Inputs(b) :
            wlAsked' = [client |-> i, b_id |-> in.b_id, t_id |-> in.t_id, a_id |-> in.a_id]
      BY <1>8 DEF Work!Ask
    <2>1. PICK in \in Work!Inputs(b) :
            wlAsked' = [client |-> i, b_id |-> in.b_id, t_id |-> in.t_id, a_id |-> in.a_id]
      BY <2>0
    <2>2. /\ wlStep = "running" /\ wlStep' \in {"running", "down"}
          /\ UNCHANGED <<wlOpt, wlSf, wlQf, wlWorkerCnt, wlBranches, wlClients>>
      BY <1>8 DEF Work!Ask, Work!After
    <2>3. SelidOK(i) /\ QueriedByOption
      BY <2>2 DEF WorkInv
    <2>4. ASSUME wlOpt.queried_sf \in 1 .. wlBranches
          PROVE  /\ b \in 0 .. wlBranches - 1
                 /\ wlOpt.spread => b = i % wlOpt.queried_sf
      <3>1. wlQf = wlOpt.queried_sf /\ i \in Nat /\ wlBranches \in Nat /\ wlOpt.queried_sf > 0
        BY <2>3, <2>4, <1>0 DEF QueriedByOption, SelidOK, WorkInv
      <3>2. CASE wlOpt.spread
        <4>1. i % wlOpt.queried_sf \in 0 .. wlOpt.queried_sf - 1
          BY <3>1, <1>0, DivPos
        <4>2. wlClients[i].selid = (i % wlOpt.queried_sf) + 1
          BY <2>3, <3>1, <3>2 DEF SelidOK
        <4>3. b = (i % wlOpt.queried_sf) + 1 - 1
          BY <2>0, <4>1, <4>2 DEF Work!Branches
        <4> QED
          BY <2>4, <3>1, <4>1, <4>3, <1>0
      <3>3. CASE ~wlOpt.spread
        <4>1. wlClients[i].selid = 0
          BY <2>3, <3>1, <3>3 DEF SelidOK
        <4>2. b \in 0 .. wlQf - 1
          BY <2>0, <4>1 DEF Work!Branches, Work!UZRand
        <4> QED
          BY <2>4, <3>1, <3>3, <4>2, <1>0
      <3> QED
        BY <3>2, <3>3
    <2>5. Work!AsksForWhatIsThere'
      <3> SUFFICES ASSUME wlOpt.queried_sf \in 1 .. wlBranches
                   PROVE  /\ wlAsked'.b_id \in 0 .. wlBranches - 1
                          /\ wlAsked'.t_id # -1 => wlAsked'.t_id \div WorkTellers = wlAsked'.b_id
                          /\ wlAsked'.a_id \div WorkAccounts = wlAsked'.b_id
                          /\ wlOpt.spread => wlAsked'.b_id = wlAsked'.client % wlOpt.queried_sf
        BY <2>2 DEF Work!AsksForWhatIsThere
      <3>1. b \in Nat
        BY <2>4 DEF WorkInv
      <3>2. /\ in.b_id = b
            /\ in.a_id \div WorkAccounts = b
            /\ in.t_id # -1 => in.t_id \div WorkTellers = b
        BY <2>1, <3>1, InputOfBranch
      <3> QED
        BY <2>1, <2>4, <3>2
    <2> QED
      BY <2>2, <2>5 DEF WorkInv, QueriedByOption, SelidOK
  <1>9. ASSUME Work!NoDbFile \/ Work!LoadFails \/ Work!BenchmarkFails
               \/ \E i \in DOMAIN wlClients : Work!AskFails(i)
        PROVE  Work!Fails
    BY <1>9 DEF Work!NoDbFile, Work!LoadFails, Work!BenchmarkFails, Work!AskFails
  <1> QED
    BY <1>1, <1>2, <1>3, <1>4, <1>5, <1>6, <1>7, <1>8, <1>9 DEF Work!Next

\* Transactions ask for rows that a load has made, and of one branch (runBenchmarkSpec,
\* create_*_input): for every number of clients, branches, tellers and accounts.
THEOREM AsksForRowsThatExist == Spec => []AsksForWhatIsThere
  <1> DEFINE Inv == Is("work") => WorkInv
  <1>1. Init => Inv
    <2> SUFFICES ASSUME Work!Init PROVE WorkInv
      BY DEF Init, Is
    <2> QED
      BY WorkAssumption DEF WorkInv, Work!Init, Work!AsksForWhatIsThere, Work!WorkloadAssumption
  <1>2. Inv /\ [Next]_vars => Inv'
    <2> SUFFICES ASSUME WorkInv, [Next]_vars, Is("work") PROVE WorkInv'
      BY SubjectStays
    <2>1. [Work!Next]_(Work!vars)
      BY DEF Next, vars, ThreadsStep, QueueStep, TuplesStep, ScanStep, IndexStep, SkewedStep,
         EnvStep, WorkStep, CodecStep, Work!vars, wlVars, Is
    <2> QED
      BY <2>1, WorkInvStep
  <1>3. Inv => AsksForWhatIsThere
    BY DEF AsksForWhatIsThere, Is, WorkInv
  <1> QED
    BY <1>1, <1>2, <1>3, PTL DEF Spec

-----------------------------------------------------------------------------
(***************************************************************************)
(* The tuples and buffers of the transactions.                             *)
(***************************************************************************)
\* A step of the account update or the load: of a table, by the index it has, that sets the
\* fields it has, with buffers that its rows fit in.
Fits(k, s) ==
  /\ s.table \in Tuples!Tables
  /\ s.index = Tuples!IndexName[s.table]
  /\ \A f \in s.sets : f \in Nat /\ f < Tuples!Fields[s.table]
  /\ Tuples!MaxSize[s.table] <= Tuples!MaxSize[Tuples!SizedFor(k)]

LEMMA TableFacts ==
  /\ "branch" \in Tuples!Tables /\ "teller" \in Tuples!Tables
  /\ "account" \in Tuples!Tables /\ "history" \in Tuples!Tables
  /\ Tuples!Fields["branch"] = 2 /\ Tuples!Fields["teller"] = 3
  /\ Tuples!Fields["account"] = 3 /\ Tuples!Fields["history"] = 5
  /\ Tuples!MaxSize["branch"] = 13 /\ Tuples!MaxSize["teller"] = 17
  /\ Tuples!MaxSize["account"] = 17 /\ Tuples!MaxSize["history"] = 29
  /\ Tuples!SizedFor("acct_update") = "history"
  /\ Tuples!SizedFor("populate_tables") = "account"
  /\ Tuples!SizedFor("populate_accounts") = "account"
  /\ Tuples!IndexName["account"] = "ACCOUNT" /\ Tuples!IndexName["branch"] = "BRANCH"
  /\ Tuples!IndexName["teller"] = "TELLER"
  BY DEF Tuples!Tables, Tuples!Fields, Tuples!MaxSize, Tuples!SizedFor, Tuples!IndexName

LEMMA StepsFit ==
  ASSUME NEW k \in Tuples!Workload, NEW i \in 1 .. Len(Tuples!Steps[k])
  PROVE  Fits(k, Tuples!Steps[k][i])
  <1>1. CASE k = "acct_update"
    <2> DEFINE fits(s) == Fits("acct_update", s)
    <2>1. fits(Tuples!Probe("account", "ACCOUNT"))
      BY TableFacts DEF fits, Fits, Tuples!Probe, Tuples!Do
    <2>2. fits(Tuples!Update("account", 2))
      BY TableFacts DEF fits, Fits, Tuples!Update, Tuples!Do
    <2>3. fits(Tuples!Add("history", 0 .. 4))
      BY TableFacts DEF fits, Fits, Tuples!Add, Tuples!Do
    <2>4. fits(Tuples!Probe("teller", "TELLER"))
      BY TableFacts DEF fits, Fits, Tuples!Probe, Tuples!Do
    <2>5. fits(Tuples!Update("teller", 2))
      BY TableFacts DEF fits, Fits, Tuples!Update, Tuples!Do
    <2>6. fits(Tuples!Probe("branch", "BRANCH"))
      BY TableFacts DEF fits, Fits, Tuples!Probe, Tuples!Do
    <2>7. fits(Tuples!Update("branch", 1))
      BY TableFacts DEF fits, Fits, Tuples!Update, Tuples!Do
    <2> HIDE DEF fits
    <2>8. Tuples!Steps["acct_update"] = Tuples!AcctUpdateSteps
      BY DEF Tuples!Steps
    <2>9. \A j \in 1 .. Len(Tuples!AcctUpdateSteps) : fits(Tuples!AcctUpdateSteps[j])
      BY <2>1, <2>2, <2>3, <2>4, <2>5, <2>6, <2>7 DEF Tuples!AcctUpdateSteps
    <2> QED
      BY <1>1, <2>8, <2>9 DEF fits
  <1>2. CASE k = "populate_tables"
    <2> DEFINE fits(s) == Fits("populate_tables", s)
    <2>1. fits(Tuples!Add("branch", 0 .. 1))
      BY TableFacts DEF fits, Fits, Tuples!Add, Tuples!Do
    <2>2. fits(Tuples!Add("teller", 0 .. 2))
      BY TableFacts DEF fits, Fits, Tuples!Add, Tuples!Do
    <2> HIDE DEF fits
    <2>3. Tuples!Steps["populate_tables"] =
            <<Tuples!Add("branch", 0 .. 1), Tuples!Add("teller", 0 .. 2)>>
      BY DEF Tuples!Steps
    <2> QED
      BY <1>2, <2>1, <2>2, <2>3 DEF fits
  <1>3. CASE k = "populate_accounts"
    <2> DEFINE fits(s) == Fits("populate_accounts", s)
    <2>1. fits(Tuples!Add("account", 0 .. 2))
      BY TableFacts DEF fits, Fits, Tuples!Add, Tuples!Do
    <2> HIDE DEF fits
    <2>2. Tuples!Steps["populate_accounts"] = <<Tuples!Add("account", 0 .. 2)>>
      BY DEF Tuples!Steps
    <2> QED
      BY <1>3, <2>1, <2>2 DEF fits
  <1> QED
    BY <1>1, <1>2, <1>3 DEF Tuples!Workload
\* A table's cache has one tuple at most, which is free or held.
CacheOK(tb) ==
  \/ ttMade[tb] = 0 /\ ttFree[tb] = {} /\ ttHeld[tb] = 0
  \/ ttMade[tb] = 1 /\ ttFree[tb] = {1} /\ ttHeld[tb] = 0
  \/ ttMade[tb] = 1 /\ ttFree[tb] = {} /\ ttHeld[tb] = 1

\* The tuple of the table points to the buffers of the transaction that runs.
PointsToOwn(tb) == ttHeld[tb] = 1 /\ ttRep[tb][1] = ttTrx /\ ttKey[tb][1] = ttTrx

TuplesInv ==
  /\ ttTrx \in Nat
  /\ ttRep \in [Tuples!Tables -> [1 .. TupleMaxTrx -> Nat]]
  /\ ttKey \in [Tuples!Tables -> [1 .. TupleMaxTrx -> Nat]]
  /\ \A tb \in Tuples!Tables : CacheOK(tb)
  /\ ttKind = "none" => \A tb \in Tuples!Tables : ttHeld[tb] = 0
  /\ ttKind \in Tuples!Workload =>
       /\ \A tb \in Tuples!Tables : PointsToOwn(tb)
       /\ ttWild = {}
       /\ ttStep \in 1 .. Len(Tuples!Steps[ttKind])

\* With buffers of its own for every table, a transaction of the workload does not stray.
LEMMA WorkloadKeepsToItsOwn ==
  ASSUME TuplesInv, ttKind \in Tuples!Workload
  PROVE  Tuples!Strays(Tuples!Due) = {}
  <1> DEFINE s == Tuples!Due
  <1>1. Fits(ttKind, s)
    BY StepsFit DEF TuplesInv, Tuples!Due
  <1> HIDE DEF s
  <1>2. PointsToOwn(s.table)
    BY <1>1 DEF Fits, TuplesInv
  <1>3. /\ ttRep[s.table][ttHeld[s.table]] = ttTrx
        /\ ttKey[s.table][ttHeld[s.table]] = ttTrx
    BY <1>2 DEF PointsToOwn
  <1>4. ~ \E f \in s.sets : f >= Tuples!Fields[s.table]
    <2>1. s.table \in Tuples!Tables /\ Tuples!Fields[s.table] \in Nat
      BY <1>1 DEF Fits, Tuples!Tables, Tuples!Fields
    <2> QED
      BY <1>1, <2>1 DEF Fits
  <1>5. ~(Tuples!MaxSize[s.table] > Tuples!MaxSize[Tuples!SizedFor(ttKind)])
    <2>1. s.table \in Tuples!Tables /\ Tuples!MaxSize[s.table] \in Nat
      BY <1>1 DEF Fits, Tuples!Tables, Tuples!MaxSize
    <2>2. Tuples!MaxSize[Tuples!SizedFor(ttKind)] \in Nat
      BY DEF Tuples!SizedFor, Tuples!MaxSize
    <2> QED
      BY <1>1, <2>1, <2>2 DEF Fits
  <1>6. s.index = Tuples!IndexName[s.table]
    BY <1>1 DEF Fits
  <1> QED
    BY <1>3, <1>4, <1>5, <1>6 DEF Tuples!Strays, s

LEMMA BeginKeepsTuplesInv ==
  ASSUME TuplesInv, NEW k \in Tuples!Kinds, Tuples!Begin(k)
  PROVE  TuplesInv'
  <1>1. PICK got \in [Tuples!Uses(k) -> 1 .. TupleMaxTrx] :
          /\ \A tb \in Tuples!Uses(k) : got[tb] \in Tuples!Borrowed(tb)
          /\ ttHeld' = [tb \in Tuples!Tables |-> IF tb \in Tuples!Uses(k) THEN got[tb] ELSE 0]
          /\ ttMade' = [tb \in Tuples!Tables |->
                 IF tb \in Tuples!Uses(k) /\ got[tb] > ttMade[tb] THEN got[tb] ELSE ttMade[tb]]
          /\ ttFree' = [tb \in Tuples!Tables |-> ttFree[tb] \ {ttHeld'[tb]}]
          /\ ttRep' = Tuples!PointsTo(ttRep, Tuples!SetsRep(k), got)
          /\ ttKey' = Tuples!PointsTo(ttKey, Tuples!SetsKey(k), got)
    BY DEF Tuples!Begin, Tuples!Null
  <1>2. /\ ttKind = "none" /\ ttKind' = k /\ ttTrx' = ttTrx + 1 /\ ttStep' = 1 /\ ttWild' = {}
        /\ ttTrx \in Nat /\ ttTrx + 1 \in Nat
    BY DEF Tuples!Begin, TuplesInv
  <1>3. ASSUME NEW tb \in Tuples!Tables, tb \in Tuples!Uses(k)
        PROVE  got[tb] = 1 /\ 1 \in 1 .. TupleMaxTrx
    <2>1. CacheOK(tb) /\ ttHeld[tb] = 0
      BY <1>2 DEF TuplesInv
    <2>2. got[tb] \in Tuples!Borrowed(tb) /\ got[tb] \in 1 .. TupleMaxTrx
      BY <1>1, <1>3
    <2> QED
      BY <2>1, <2>2 DEF CacheOK, Tuples!Borrowed
  <1>4. ASSUME NEW tb \in Tuples!Tables PROVE CacheOK(tb)'
    <2>1. CacheOK(tb) /\ ttHeld[tb] = 0
      BY <1>2 DEF TuplesInv
    <2>2. CASE tb \in Tuples!Uses(k)
      <3>1. got[tb] = 1
        BY <1>3, <2>2
      <3>2. /\ ttHeld'[tb] = 1 /\ ttFree'[tb] = ttFree[tb] \ {1}
            /\ ttMade'[tb] = IF 1 > ttMade[tb] THEN 1 ELSE ttMade[tb]
        BY <1>1, <2>2, <3>1
      <3> QED
        BY <2>1, <3>2 DEF CacheOK
    <2>3. CASE tb \notin Tuples!Uses(k)
      <3>1. /\ ttHeld'[tb] = 0 /\ ttFree'[tb] = ttFree[tb] \ {0} /\ ttMade'[tb] = ttMade[tb]
        BY <1>1, <2>3
      <3> QED
        BY <2>1, <3>1 DEF CacheOK
    <2> QED
      BY <2>2, <2>3
  <1>5. ASSUME NEW ptr \in [Tuples!Tables -> [1 .. TupleMaxTrx -> Nat]],
               NEW T, T \subseteq Tuples!Uses(k)
        PROVE  /\ Tuples!PointsTo(ptr, T, got) \in [Tuples!Tables -> [1 .. TupleMaxTrx -> Nat]]
               /\ \A tb \in Tuples!Tables :
                    tb \in T => Tuples!PointsTo(ptr, T, got)[tb][1] = ttTrx + 1
    BY <1>2, <1>3, <1>5 DEF Tuples!PointsTo
  <1>6. Tuples!SetsRep(k) \subseteq Tuples!Uses(k) /\ Tuples!SetsKey(k) \subseteq Tuples!Uses(k)
    BY DEF Tuples!SetsRep, Tuples!SetsKey
  <1>7. /\ ttRep' \in [Tuples!Tables -> [1 .. TupleMaxTrx -> Nat]]
        /\ \A tb \in Tuples!Tables : tb \in Tuples!SetsRep(k) => ttRep'[tb][1] = ttTrx + 1
    BY <1>1, <1>5, <1>6 DEF TuplesInv
  <1>8. /\ ttKey' \in [Tuples!Tables -> [1 .. TupleMaxTrx -> Nat]]
        /\ \A tb \in Tuples!Tables : tb \in Tuples!SetsKey(k) => ttKey'[tb][1] = ttTrx + 1
    BY <1>1, <1>5, <1>6 DEF TuplesInv
  <1>9. ASSUME k \in Tuples!Workload
        PROVE  /\ \A tb \in Tuples!Tables : PointsToOwn(tb)'
               /\ 1 \in 1 .. Len(Tuples!Steps[k])
    <2>1. \A tb \in Tuples!Tables :
            tb \in Tuples!Uses(k) /\ tb \in Tuples!SetsRep(k) /\ tb \in Tuples!SetsKey(k)
      BY <1>9 DEF Tuples!Uses, Tuples!SetsRep, Tuples!SetsKey
    <2>2. \A tb \in Tuples!Tables : ttHeld'[tb] = 1
      BY <1>1, <1>3, <2>1
    <2>3. 1 \in 1 .. Len(Tuples!Steps[k])
      <3>1. Len(Tuples!Steps["acct_update"]) = 7
        BY DEF Tuples!Steps, Tuples!AcctUpdateSteps
      <3>2. Len(Tuples!Steps["populate_tables"]) = 2
        BY DEF Tuples!Steps
      <3>3. Len(Tuples!Steps["populate_accounts"]) = 1
        BY DEF Tuples!Steps
      <3>4. Len(Tuples!Steps[k]) \in {7, 2, 1}
        BY <1>9, <3>1, <3>2, <3>3 DEF Tuples!Workload
      <3>5. \A n \in {7, 2, 1} : 1 \in 1 .. n
        OBVIOUS
      <3> QED
        BY <3>4, <3>5
    <2> QED
      BY <1>2, <1>7, <1>8, <2>1, <2>2, <2>3 DEF PointsToOwn
  <1>10. k # "none"
    BY DEF Tuples!Kinds, Tuples!Steps
  <1> QED
    BY <1>2, <1>4, <1>7, <1>8, <1>9, <1>10 DEF TuplesInv

LEMMA TuplesInvStep ==
  ASSUME TuplesInv, [Tuples!Next]_(Tuples!vars)
  PROVE  TuplesInv'
  <1>1. CASE UNCHANGED Tuples!vars
    BY <1>1 DEF TuplesInv, CacheOK, PointsToOwn, Tuples!vars
  <1>2. ASSUME NEW k \in Tuples!Kinds, Tuples!Begin(k) PROVE TuplesInv'
    BY <1>2, BeginKeepsTuplesInv
  <1>3. ASSUME Tuples!Stray PROVE TuplesInv'
    <2>1. ttKind \notin Tuples!Workload
      BY <1>3, WorkloadKeepsToItsOwn DEF Tuples!Stray
    <2> QED
      BY <1>3, <2>1 DEF Tuples!Stray, TuplesInv, CacheOK
  <1>4. ASSUME Tuples!NextStep PROVE TuplesInv'
    <2>1. /\ UNCHANGED <<ttMade, ttFree, ttHeld, ttRep, ttKey, ttTrx, ttKind>>
          /\ ttStep < Len(Tuples!Steps[ttKind]) /\ ttStep' = ttStep + 1
          /\ ttWild' = ttWild \cup Tuples!Strays(Tuples!Due)
      BY <1>4 DEF Tuples!NextStep
    <2>2. ASSUME ttKind \in Tuples!Workload
          PROVE  ttWild' = {} /\ ttStep' \in 1 .. Len(Tuples!Steps[ttKind])
      <3>1. ttWild' = {}
        BY <2>1, <2>2, WorkloadKeepsToItsOwn DEF TuplesInv
      <3>2. Len(Tuples!Steps[ttKind]) \in Nat
        BY <2>2 DEF Tuples!Workload, Tuples!Steps, Tuples!AcctUpdateSteps
      <3>3. ttStep \in 1 .. Len(Tuples!Steps[ttKind])
        BY <2>2 DEF TuplesInv
      <3> QED
        BY <2>1, <3>1, <3>2, <3>3
    <2> QED
      BY <2>1, <2>2 DEF TuplesInv, CacheOK, PointsToOwn
  <1>5. ASSUME Tuples!Return PROVE TuplesInv'
    <2>1. /\ ttFree' = [tb \in Tuples!Tables |-> ttFree[tb] \cup ({ttHeld[tb]} \ {0})]
          /\ ttHeld' = [tb \in Tuples!Tables |-> 0]
          /\ ttKind' = "none"
          /\ UNCHANGED <<ttMade, ttRep, ttKey, ttTrx, ttStep, ttWild>>
      BY <1>5 DEF Tuples!Return, Tuples!Null
    <2>2. ASSUME NEW tb \in Tuples!Tables PROVE CacheOK(tb)'
      <3>1. CacheOK(tb)
        BY DEF TuplesInv
      <3>2. /\ ttFree'[tb] = ttFree[tb] \cup ({ttHeld[tb]} \ {0}) /\ ttHeld'[tb] = 0
            /\ ttMade'[tb] = ttMade[tb]
        BY <2>1
      <3> QED
        BY <3>1, <3>2 DEF CacheOK
    <2>3. "none" \notin Tuples!Workload
      BY DEF Tuples!Workload
    <2> QED
      BY <2>1, <2>2, <2>3 DEF TuplesInv
  <1> QED
    BY <1>1, <1>2, <1>3, <1>4, <1>5 DEF Tuples!Next

\* The account update and the load use their own buffers and the fields that are there,
\* and every table's cache makes one tuple, whatever the order of the transactions and
\* whichever of their steps fail: only micro-benchmarks stray.
THEOREM WorkloadsNeverStray == Spec => []OnlyMicroBenchmarksStray
  <1> DEFINE Inv == Is("tuples") => TuplesInv
  <1>1. Init => Inv
    <2> SUFFICES ASSUME Tuples!Init PROVE TuplesInv
      BY DEF Init, Is
    <2>1. \A tb \in Tuples!Tables : ttMade[tb] = 0 /\ ttFree[tb] = {} /\ ttHeld[tb] = 0
      BY DEF Tuples!Init, Tuples!Null
    <2>2. /\ ttRep = [tb \in Tuples!Tables |-> [n \in 1 .. TupleMaxTrx |-> 0]] /\ ttKey = ttRep
          /\ ttTrx = 0 /\ ttKind = "none" /\ "none" \notin Tuples!Workload
      BY DEF Tuples!Init, Tuples!Null, Tuples!Workload
    <2> QED
      BY <2>1, <2>2 DEF TuplesInv, CacheOK
  <1>2. Inv /\ [Next]_vars => Inv'
    <2> SUFFICES ASSUME TuplesInv, [Next]_vars, Is("tuples") PROVE TuplesInv'
      BY SubjectStays
    <2>1. [Tuples!Next]_(Tuples!vars)
      BY DEF Next, vars, ThreadsStep, QueueStep, TuplesStep, ScanStep, IndexStep, SkewedStep,
         EnvStep, WorkStep, CodecStep, Tuples!vars, ttVars, Is
    <2> QED
      BY <2>1, TuplesInvStep
  <1>3. Inv => OnlyMicroBenchmarksStray
    <2> SUFFICES ASSUME TuplesInv PROVE Tuples!OnlyMicroBenchmarksStray
      BY DEF OnlyMicroBenchmarksStray, Is
    <2>1. ASSUME NEW tb \in Tuples!Tables
          PROVE  ttFree[tb] \cup ({ttHeld[tb]} \ {0}) = 1 .. ttMade[tb] /\ ttMade[tb] <= 1
      <3>1. CacheOK(tb)
        BY DEF TuplesInv
      <3>2. 1 .. 0 = {} /\ 1 .. 1 = {1}
        OBVIOUS
      <3> QED
        BY <3>1, <3>2 DEF CacheOK
    <2> QED
      BY <2>1 DEF TuplesInv, Tuples!OnlyMicroBenchmarksStray, Tuples!Null
  <1> QED
    BY <1>1, <1>2, <1>3, PTL DEF Spec

-----------------------------------------------------------------------------
(***************************************************************************)
(* The ranges of a skewer.  Spots are ascending ranges, one after the      *)
(* other; what _set_intervals() makes of them are the gaps, put together   *)
(* by FlattenSeq, a recursive function of the community modules: what it   *)
(* computes is proved by induction over the length, for a set of numbers.  *)
(***************************************************************************)
Members(s) == {s[i] : i \in 1 .. Len(s)}

LEMMA MembersOfConcat ==
  ASSUME NEW S, NEW s \in Seq(S), NEW t \in Seq(S)
  PROVE  s \o t \in Seq(S) /\ Members(s \o t) = Members(s) \cup Members(t)
  <1>1. /\ s \o t \in Seq(S) /\ Len(s \o t) = Len(s) + Len(t)
        /\ Len(s) \in Nat /\ Len(t) \in Nat
        /\ \A i \in 1 .. Len(s) + Len(t) :
             (s \o t)[i] = IF i <= Len(s) THEN s[i] ELSE t[i - Len(s)]
    OBVIOUS
  <1>2. \A i \in 1 .. Len(s) : i \in 1 .. Len(s) + Len(t) /\ (s \o t)[i] = s[i]
    BY <1>1
  <1>3. \A i \in 1 .. Len(t) : i + Len(s) \in 1 .. Len(s) + Len(t) /\ (s \o t)[i + Len(s)] = t[i]
    BY <1>1
  <1>4. \A i \in 1 .. Len(s) + Len(t) : ~(i <= Len(s)) => i - Len(s) \in 1 .. Len(t)
    BY <1>1
  <1> QED
    BY <1>1, <1>2, <1>3, <1>4 DEF Members

LEMMA Flattened ==
  ASSUME NEW S, NEW f \in Seq(Seq(S)), Len(f) # 0
  PROVE  /\ Skewed!FlattenSeq(f) \in Seq(S)
         /\ Members(Skewed!FlattenSeq(f)) = UNION {Members(f[i]) : i \in 1 .. Len(f)}
  <1> DEFINE n == Len(f)
             g == CHOOSE g : FlatRec(f, n, g)
  <1>1. n \in Nat \ {0}
    OBVIOUS
  <1>2. Skewed!FlattenSeq(f) = g[n]
    BY DEF Skewed!FlattenSeq, FlatRec, FlatBody
  <1>3. FlatRec(f, n, g)
    BY <1>1, FlatExists
  <1> HIDE DEF g
  <1>4. \A i \in 1 .. n : g[i] = FlatBody(f, g, i)
    BY <1>3 DEF FlatRec
  <1>5. \A i \in 1 .. n : f[i] \in Seq(S)
    OBVIOUS
  <1> HIDE DEF n
  <1> DEFINE N == {m \in Nat : m \in 1 .. n => /\ g[m] \in Seq(S)
                                              /\ Members(g[m]) = UNION {Members(f[i]) : i \in 1 .. m}}
  <1>6. 1 \in N
    <2>1. 1 \in 1 .. n /\ g[1] = f[1]
      BY <1>1, <1>4 DEF FlatBody
    <2>2. UNION {Members(f[i]) : i \in 1 .. 1} = Members(f[1])
      OBVIOUS
    <2> QED
      BY <1>5, <2>1, <2>2
  <1>7. ASSUME NEW m \in N, m # 0 PROVE m + 1 \in N
    <2>0. SUFFICES ASSUME m + 1 \in 1 .. n
                   PROVE  /\ g[m + 1] \in Seq(S)
                          /\ Members(g[m + 1]) = UNION {Members(f[i]) : i \in 1 .. m + 1}
      OBVIOUS
    <2>1. m \in 1 .. n /\ m \in Nat
      BY <1>1, <1>7, <2>0
    <2>2. g[m] \in Seq(S) /\ Members(g[m]) = UNION {Members(f[i]) : i \in 1 .. m}
      BY <2>1
    <2>3. g[m + 1] = g[m] \o f[m + 1]
      <3>1. (m + 1) - 1 = m /\ m + 1 # 1
        BY <2>1
      <3>2. g[m + 1] = FlatBody(f, g, m + 1)
        BY <1>4, <2>0
      <3> QED
        BY <3>1, <3>2 DEF FlatBody
    <2>4. g[m + 1] \in Seq(S) /\ Members(g[m + 1]) = Members(g[m]) \cup Members(f[m + 1])
      BY <1>5, <2>0, <2>2, <2>3, MembersOfConcat
    <2>5. 1 .. m + 1 = 1 .. m \cup {m + 1}
      BY <2>1
    <2> QED
      BY <2>2, <2>4, <2>5
  <1> HIDE DEF N
  <1>8. n \in N
    BY <1>1, <1>6, <1>7, Induct
  <1>9. n \in 1 .. n
    BY <1>1
  <1> QED
    BY <1>2, <1>8, <1>9 DEF N, n

-----------------------------------------------------------------------------
Spans == [l : Int, u : Int]

\* Ranges of numbers up to `up', each one not below its predecessor at both ends.
Ascending(r, up) ==
  /\ r \in Seq(Spans) /\ Len(r) # 0
  /\ \A i \in 1 .. Len(r) : 0 <= r[i].l /\ r[i].l <= r[i].u /\ r[i].u <= up
  /\ \A i, j \in 1 .. Len(r) : i <= j => r[i].l <= r[j].l /\ r[i].u <= r[j].u

LEMMA AreSpans ==
  ASSUME NEW r, NEW up, Ascending(r, up), NEW i \in 1 .. Len(r)
  PROVE  r[i].l \in Int /\ r[i].u \in Int
  <1>1. r[i] \in Spans
    BY DEF Ascending
  <1> QED
    BY <1>1 DEF Spans

\* What is below the first range, and what is above the i-th one and below the next.
Below(r) ==
  IF r[1].l > Skewed!lower THEN <<Skewed!Span(Skewed!lower, r[1].l - 1)>> ELSE <<>>
Gap(r, i) ==
  IF i < Len(r)
  THEN IF r[i].u + 1 < r[i + 1].l
         THEN <<Skewed!Span(r[i].u + 1, r[i + 1].l - 1)>> ELSE <<>>
  ELSE IF r[i].u < skUpper THEN <<Skewed!Span(r[i].u + 1, skUpper)>> ELSE <<>>
Top(r, i) == IF i < Len(r) THEN r[i + 1].l - 1 ELSE skUpper

LEMMA FewMembers ==
  /\ Members(<<>>) = {} /\ <<>> \in Seq(Spans)
  /\ \A x \in Spans : Members(<<x>>) = {x} /\ <<x>> \in Seq(Spans)
  <1>1. \A x : Len(<<x>>) = 1 /\ <<x>>[1] = x
    OBVIOUS
  <1>2. Len(<<>>) = 0
    OBVIOUS
  <1>3. 1 .. 1 = {1} /\ 1 .. 0 = {}
    OBVIOUS
  <1> QED
    BY <1>1, <1>2, <1>3 DEF Members

LEMMA MembersOfGaps ==
  ASSUME skUpper \in Nat, NEW r, Ascending(r, skUpper)
  PROVE  /\ Below(r) \in Seq(Spans)
         /\ \A x : x \in Members(Below(r)) <=> 0 <= r[1].l - 1 /\ x = Skewed!Span(0, r[1].l - 1)
         /\ \A i \in 1 .. Len(r) :
              /\ Gap(r, i) \in Seq(Spans)
              /\ \A x : x \in Members(Gap(r, i)) <=>
                   r[i].u + 1 <= Top(r, i) /\ x = Skewed!Span(r[i].u + 1, Top(r, i))
  <1>1. PICK n \in Nat \ {0} : n = Len(r)
    BY DEF Ascending
  <1>2. \A i \in 1 .. n : r[i].l \in Int /\ r[i].u \in Int
    BY <1>1, AreSpans
  <1>3. \A a, b \in Int : Skewed!Span(a, b) \in Spans
    BY DEF Spans, Skewed!Span
  <1>4. 1 \in 1 .. n
    BY <1>1
  <1>5. \A i \in 1 .. n : i < n => i + 1 \in 1 .. n
    BY <1>1
  <1>6. /\ Below(r) \in Seq(Spans)
        /\ \A x : x \in Members(Below(r)) <=> 0 <= r[1].l - 1 /\ x = Skewed!Span(0, r[1].l - 1)
    <2>1. r[1].l > 0 <=> 0 <= r[1].l - 1
      BY <1>2, <1>4
    <2>2. Skewed!Span(0, r[1].l - 1) \in Spans
      BY <1>2, <1>3, <1>4
    <2> QED
      BY <2>1, <2>2, FewMembers DEF Below, Skewed!lower
  <1>7. ASSUME NEW i \in 1 .. n
        PROVE  /\ Gap(r, i) \in Seq(Spans)
               /\ \A x : x \in Members(Gap(r, i)) <=>
                    r[i].u + 1 <= Top(r, i) /\ x = Skewed!Span(r[i].u + 1, Top(r, i))
    <2>1. CASE i < n
      <3>1. r[i].u + 1 < r[i + 1].l <=> r[i].u + 1 <= r[i + 1].l - 1
        BY <1>2, <1>5, <2>1
      <3>2. Skewed!Span(r[i].u + 1, r[i + 1].l - 1) \in Spans
        BY <1>2, <1>3, <1>5, <2>1
      <3> QED
        BY <1>1, <2>1, <3>1, <3>2, FewMembers DEF Gap, Top
    <2>2. CASE ~(i < n)
      <3>1. r[i].u < skUpper <=> r[i].u + 1 <= skUpper
        BY <1>2
      <3>2. Skewed!Span(r[i].u + 1, skUpper) \in Spans
        BY <1>2, <1>3
      <3> QED
        BY <1>1, <2>2, <3>1, <3>2, FewMembers DEF Gap, Top
    <2> QED
      BY <2>1, <2>2
  <1> QED
    BY <1>1, <1>6, <1>7

\* What _set_intervals() makes of ascending ranges: a sequence of the gaps that there are.
LEMMA MembersOfOutside ==
  ASSUME skUpper \in Nat, NEW r, Ascending(r, skUpper)
  PROVE  /\ Skewed!Outside(r) \in Seq(Spans)
         /\ Members(Skewed!Outside(r)) =
              Members(Below(r)) \cup UNION {Members(Gap(r, i)) : i \in 1 .. Len(r)}
  <1>1. PICK n \in Nat \ {0} : n = Len(r)
    BY DEF Ascending
  <1> DEFINE f == [i \in 1 .. n |-> Gap(r, i)]
  <1>2. Skewed!Outside(r) = Below(r) \o Skewed!FlattenSeq(f)
    BY <1>1 DEF Skewed!Outside, Below, Gap
  <1>3. f \in Seq(Seq(Spans)) /\ Len(f) = n /\ \A i \in 1 .. n : f[i] = Gap(r, i)
    BY <1>1, MembersOfGaps
  <1> HIDE DEF f
  <1>4. /\ Skewed!FlattenSeq(f) \in Seq(Spans)
        /\ Members(Skewed!FlattenSeq(f)) = UNION {Members(f[i]) : i \in 1 .. n}
    BY <1>3, Flattened
  <1>5. UNION {Members(f[i]) : i \in 1 .. n} = UNION {Members(Gap(r, i)) : i \in 1 .. n}
    BY <1>3
  <1>6. Below(r) \in Seq(Spans)
    BY MembersOfGaps
  <1> DEFINE g == Skewed!FlattenSeq(f)
  <1>7. g \in Seq(Spans)
    BY <1>4
  <1> HIDE DEF g
  <1>8. Below(r) \o g \in Seq(Spans) /\ Members(Below(r) \o g) = Members(Below(r)) \cup Members(g)
    BY <1>6, <1>7, MembersOfConcat
  <1> QED
    BY <1>1, <1>2, <1>4, <1>5, <1>8 DEF g

LEMMA OutsideDivides ==
  ASSUME skUpper \in Nat, NEW r, Ascending(r, skUpper), NEW o, o = Skewed!Outside(r)
  PROVE  /\ \A ranges \in {r, o} : \A i \in DOMAIN ranges : ranges[i].l <= ranges[i].u
         /\ Skewed!Numbers(r) \cap Skewed!Numbers(o) = {}
         /\ Skewed!Numbers(r) \cup Skewed!Numbers(o) = 0 .. skUpper
  <1>1. PICK n \in Nat \ {0} : n = Len(r)
    BY DEF Ascending
  <1>2. DOMAIN r = 1 .. n
    BY <1>1 DEF Ascending
  <1>3. \A i \in 1 .. n : /\ r[i].l \in Int /\ r[i].u \in Int
                          /\ 0 <= r[i].l /\ r[i].l <= r[i].u /\ r[i].u <= skUpper
    BY <1>1, AreSpans DEF Ascending
  <1>4. \A i, j \in 1 .. n : i <= j => r[i].l <= r[j].l /\ r[i].u <= r[j].u
    BY <1>1 DEF Ascending
  <1>5. \A i \in 1 .. n : Top(r, i) \in Int
    BY <1>1, <1>3 DEF Top
  <1>6. \A x : x \in Members(o) <=>
          \/ 0 <= r[1].l - 1 /\ x = Skewed!Span(0, r[1].l - 1)
          \/ \E i \in 1 .. n : r[i].u + 1 <= Top(r, i) /\ x = Skewed!Span(r[i].u + 1, Top(r, i))
    BY <1>1, MembersOfOutside, MembersOfGaps
  <1>7. /\ \A i \in DOMAIN o : o[i] \in Members(o)
        /\ \A x \in Members(o) : \E i \in DOMAIN o : x = o[i]
    BY MembersOfOutside DEF Members
  <1>8. \A x \in Members(o) : x.l <= x.u
    BY <1>6 DEF Skewed!Span
  <1>9. 1 \in 1 .. n /\ n \in 1 .. n
    BY <1>1
  <1>10. ASSUME NEW k
         PROVE  k \in Skewed!Numbers(o) <=>
                  \/ k \in 0 .. r[1].l - 1
                  \/ \E i \in 1 .. n : k \in r[i].u + 1 .. Top(r, i)
    <2>1. k \in Skewed!Numbers(o) <=> \E x \in Members(o) : k \in x.l .. x.u
      BY <1>7 DEF Skewed!Numbers
    <2>2. \A a, b : Skewed!Span(a, b).l = a /\ Skewed!Span(a, b).u = b
      BY DEF Skewed!Span
    <2>3. r[1].l - 1 \in Int /\ (k \in 0 .. r[1].l - 1 => 0 <= r[1].l - 1)
      BY <1>3, <1>9
    <2>4. \A i \in 1 .. n : k \in r[i].u + 1 .. Top(r, i) => r[i].u + 1 <= Top(r, i)
      BY <1>3, <1>5
    <2>5. ASSUME NEW x \in Members(o), k \in x.l .. x.u
          PROVE  k \in 0 .. r[1].l - 1 \/ \E i \in 1 .. n : k \in r[i].u + 1 .. Top(r, i)
      BY <1>6, <2>2, <2>5
    <2>6. k \in 0 .. r[1].l - 1 => \E x \in Members(o) : k \in x.l .. x.u
      <3> DEFINE x == Skewed!Span(0, r[1].l - 1)
      <3>1. x.l = 0 /\ x.u = r[1].l - 1
        BY <2>2
      <3>2. 0 <= r[1].l - 1 => x \in Members(o)
        BY <1>6
      <3> HIDE DEF x
      <3> QED
        BY <2>3, <3>1, <3>2
    <2>7. ASSUME NEW i \in 1 .. n, k \in r[i].u + 1 .. Top(r, i)
          PROVE  \E x \in Members(o) : k \in x.l .. x.u
      <3> DEFINE x == Skewed!Span(r[i].u + 1, Top(r, i))
      <3>1. x.l = r[i].u + 1 /\ x.u = Top(r, i)
        BY <2>2
      <3>2. x \in Members(o)
        BY <1>6, <2>4, <2>7
      <3> HIDE DEF x
      <3> QED
        BY <2>7, <3>1, <3>2
    <2> QED
      BY <2>1, <2>5, <2>6, <2>7
  <1>11. \A k : k \in Skewed!Numbers(r) <=> \E i \in 1 .. n : k \in r[i].l .. r[i].u
    BY <1>2 DEF Skewed!Numbers
  <1>12. \A ranges \in {r, o} : \A i \in DOMAIN ranges : ranges[i].l <= ranges[i].u
    BY <1>2, <1>3, <1>7, <1>8
  <1>13. ASSUME NEW k, NEW i \in 1 .. n, k \in r[i].l .. r[i].u, k \in Skewed!Numbers(o)
         PROVE  FALSE
    <2>1. k \in Int /\ r[i].l <= k /\ k <= r[i].u
      BY <1>3, <1>13
    <2>2. CASE k \in 0 .. r[1].l - 1
      <3>1. r[1].l <= r[i].l /\ k <= r[1].l - 1 /\ r[1].l \in Int /\ r[i].l \in Int
        BY <1>3, <1>4, <1>9, <2>2
      <3> QED
        BY ONLY <2>1, <3>1
    <2>3. ASSUME NEW j \in 1 .. n, k \in r[j].u + 1 .. Top(r, j) PROVE FALSE
      <3>1. r[j].u + 1 <= k /\ k <= Top(r, j) /\ r[j].u \in Int /\ r[i].u \in Int /\ r[i].l \in Int
        BY <1>3, <1>5, <2>3
      <3>2. CASE i <= j
        <4>1. r[i].u <= r[j].u
          BY <1>4, <3>2
        <4> QED
          BY ONLY <2>1, <3>1, <4>1
      <3>3. CASE ~(i <= j)
        <4>1. j < n /\ j + 1 \in 1 .. n /\ j + 1 <= i
          BY <1>1, <3>3
        <4>2. r[j + 1].l <= r[i].l /\ Top(r, j) = r[j + 1].l - 1 /\ r[j + 1].l \in Int
          BY <1>1, <1>3, <1>4, <4>1 DEF Top
        <4> QED
          BY ONLY <2>1, <3>1, <4>2
      <3> QED
        BY <3>2, <3>3
    <2> QED
      BY <1>10, <1>13, <2>2, <2>3
  <1>14. ASSUME NEW k \in 0 .. skUpper, k \notin Skewed!Numbers(r), k \notin Skewed!Numbers(o)
         PROVE  FALSE
    <2> DEFINE N == {i \in Nat \ {0} : i <= n => r[i].u < k}
    <2>0. k \in Int /\ 0 <= k /\ k <= skUpper
      OBVIOUS
    <2>1. \A i \in 1 .. n : r[i].l <= k => r[i].u < k
      BY <1>3, <1>11, <1>14, <2>0
    <2>2. 1 \in N
      <3>1. r[1].l <= k
        BY <1>3, <1>9, <1>10, <1>14, <2>0
      <3> QED
        BY <1>9, <2>1, <3>1
    <2>3. ASSUME NEW i \in N \cap (Nat \ {0}) PROVE i + 1 \in N
      <3> SUFFICES ASSUME i + 1 <= n PROVE r[i + 1].u < k
        OBVIOUS
      <3>1. i \in 1 .. n /\ i + 1 \in 1 .. n /\ i < n
        BY <1>1
      <3>2. r[i].u < k /\ k \notin r[i].u + 1 .. Top(r, i)
        BY <1>10, <1>14, <2>3, <3>1
      <3>3. Top(r, i) = r[i + 1].l - 1 /\ r[i + 1].l \in Int /\ r[i].u \in Int
        BY <1>1, <1>3, <3>1 DEF Top
      <3>4. r[i + 1].l <= k
        BY ONLY <2>0, <3>2, <3>3
      <3> QED
        BY <2>1, <3>1, <3>4
    <2> HIDE DEF N
    <2>4. n \in N
      BY <2>2, <2>3, Induct
    <2>5. r[n].u < k
      BY <1>1, <2>4 DEF N
    <2>6. Top(r, n) = skUpper
      BY <1>1 DEF Top
    <2>7. k \in r[n].u + 1 .. Top(r, n)
      BY <1>3, <1>9, <2>0, <2>5, <2>6
    <2> QED
      BY <1>9, <1>10, <1>14, <2>7
  <1>15. ASSUME NEW k, k \in Skewed!Numbers(r) \/ k \in Skewed!Numbers(o) PROVE k \in 0 .. skUpper
    <2>1. CASE k \in Skewed!Numbers(r)
      BY <1>3, <1>11, <2>1
    <2>2. CASE k \in 0 .. r[1].l - 1
      BY <1>3, <1>9, <2>2
    <2>3. ASSUME NEW i \in 1 .. n, k \in r[i].u + 1 .. Top(r, i) PROVE k \in 0 .. skUpper
      <3>1. Top(r, i) <= skUpper
        BY <1>1, <1>3 DEF Top
      <3>2. 0 <= r[i].u /\ r[i].u \in Int /\ Top(r, i) \in Int
        BY <1>3, <1>5
      <3> QED
        BY <2>3, <3>1, <3>2
    <2> QED
      BY <1>10, <1>15, <2>1, <2>2, <2>3
  <1> QED
    BY <1>11, <1>12, <1>13, <1>14, <1>15

\* Sequences of one to four ranges.
Proper(x, up) == 0 <= x.l /\ x.l <= x.u /\ x.u <= up
Follows(x, y) == x.l <= y.l /\ x.u <= y.u

LEMMA AscendingOne ==
  ASSUME NEW up \in Nat, NEW x \in Spans,
         Proper(x, up),
         NEW t, t = <<x>>
  PROVE  Ascending(t, up)
  <1>1. x.l \in Int /\ x.u \in Int
    BY DEF Spans
  <1>2. Len(t) = 1 /\ t[1] = x
    OBVIOUS
  <1>3. t \in Seq(Spans)
    OBVIOUS
  <1> QED
    BY <1>1, <1>2, <1>3 DEF Ascending, Proper, Follows

LEMMA AscendingTwo ==
  ASSUME NEW up \in Nat, NEW x \in Spans, NEW y \in Spans,
         Proper(x, up), Proper(y, up), Follows(x, y),
         NEW t, t = <<x, y>>
  PROVE  Ascending(t, up)
  <1>1. x.l \in Int /\ x.u \in Int /\ y.l \in Int /\ y.u \in Int
    BY DEF Spans
  <1>2. Len(t) = 2 /\ t[1] = x /\ t[2] = y
    OBVIOUS
  <1>3. t \in Seq(Spans)
    OBVIOUS
  <1> QED
    BY <1>1, <1>2, <1>3 DEF Ascending, Proper, Follows

LEMMA AscendingThree ==
  ASSUME NEW up \in Nat, NEW x \in Spans, NEW y \in Spans, NEW z \in Spans,
         Proper(x, up), Proper(y, up), Proper(z, up), Follows(x, y), Follows(y, z),
         NEW t, t = <<x, y, z>>
  PROVE  Ascending(t, up)
  <1>1. x.l \in Int /\ x.u \in Int /\ y.l \in Int /\ y.u \in Int /\ z.l \in Int /\ z.u \in Int
    BY DEF Spans
  <1>2. Len(t) = 3 /\ t[1] = x /\ t[2] = y /\ t[3] = z
    OBVIOUS
  <1>3. t \in Seq(Spans)
    OBVIOUS
  <1> QED
    BY <1>1, <1>2, <1>3 DEF Ascending, Proper, Follows

LEMMA AscendingFour ==
  ASSUME NEW up \in Nat, NEW x \in Spans, NEW y \in Spans, NEW z \in Spans, NEW v \in Spans,
         Proper(x, up), Proper(y, up), Proper(z, up), Proper(v, up), Follows(x, y), Follows(y, z), Follows(z, v),
         NEW t, t = <<x, y, z, v>>
  PROVE  Ascending(t, up)
  <1>1. x.l \in Int /\ x.u \in Int /\ y.l \in Int /\ y.u \in Int /\ z.l \in Int /\ z.u \in Int /\ v.l \in Int /\ v.u \in Int
    BY DEF Spans
  <1>2. Len(t) = 4 /\ t[1] = x /\ t[2] = y /\ t[3] = z /\ t[4] = v
    OBVIOUS
  <1>3. t \in Seq(Spans)
    OBVIOUS
  <1> QED
    BY <1>1, <1>2, <1>3 DEF Ascending, Proper, Follows

LEMMA AppendToOne ==
  ASSUME NEW S, NEW x \in S, NEW v \in S PROVE Append(<<x>>, v) = <<x, v>>
  <1>1. PICK a : a = <<x, v>>
    OBVIOUS
  <1>2. PICK b : b = Append(<<x>>, v)
    OBVIOUS
  <1>3. a \in Seq(S) /\ Len(a) = 2 /\ a[1] = x /\ a[2] = v
    BY <1>1
  <1>4. b \in Seq(S) /\ Len(b) = 2 /\ b[1] = x /\ b[2] = v
    BY <1>2
  <1>5. a = [i \in 1 .. 2 |-> a[i]] /\ b = [i \in 1 .. 2 |-> b[i]]
    BY ONLY <1>3, <1>4
  <1>6. \A i \in 1 .. 2 : i = 1 \/ i = 2
    OBVIOUS
  <1>7. a = b
    BY ONLY <1>3, <1>4, <1>5, <1>6
  <1> QED
    BY <1>1, <1>2, <1>7

LEMMA AppendToThree ==
  ASSUME NEW S, NEW x \in S, NEW y \in S, NEW z \in S, NEW v \in S
  PROVE  Append(<<x, y, z>>, v) = <<x, y, z, v>>
  <1>1. PICK a : a = <<x, y, z, v>>
    OBVIOUS
  <1>2. PICK b : b = Append(<<x, y, z>>, v)
    OBVIOUS
  <1>3. a \in Seq(S) /\ Len(a) = 4 /\ a[1] = x /\ a[2] = y /\ a[3] = z /\ a[4] = v
    BY <1>1
  <1>4. b \in Seq(S) /\ Len(b) = 4 /\ b[1] = x /\ b[2] = y /\ b[3] = z /\ b[4] = v
    BY <1>2
  <1>5. a = [i \in 1 .. 4 |-> a[i]] /\ b = [i \in 1 .. 4 |-> b[i]]
    BY ONLY <1>3, <1>4
  <1>6. \A i \in 1 .. 4 : i = 1 \/ i = 2 \/ i = 3 \/ i = 4
    OBVIOUS
  <1>7. a = b
    BY ONLY <1>3, <1>4, <1>5, <1>6
  <1> QED
    BY <1>1, <1>2, <1>7

\* Where a spot of h numbers starts, and what it consists of, if it goes on at the lower
\* end and if it does not.
StartOf(l, h) == IF l = skUpper /\ l + h - 1 > skUpper THEN l - 1 ELSE l
Low(m, h) == Skewed!Span(0, m + h - skUpper - 2)
High(m) == Skewed!Span(m + 1, skUpper)
Whole(m, h) == Skewed!Span(m, m + h - 1)

LEMMA StartFacts ==
  ASSUME skUpper \in Nat, NEW h \in 1 .. skUpper + 1, NEW l \in 0 .. skUpper
  PROVE  /\ StartOf(l, h) \in 0 .. skUpper
         /\ StartOf(l, h) + h - 1 > skUpper => StartOf(l, h) < skUpper
  BY DEF StartOf

LEMMA StartsAscend ==
  ASSUME skUpper \in Nat, NEW h \in 1 .. skUpper + 1, NEW l \in 0 .. skUpper, NEW k \in l .. skUpper
  PROVE  /\ StartOf(l, h) <= StartOf(k, h)
         /\ StartOf(l, h) + h - 1 > skUpper => StartOf(k, h) + h - 1 > skUpper
  BY DEF StartOf

LEMMA ArePieces ==
  ASSUME skUpper \in Nat, NEW h \in 1 .. skUpper + 1, NEW m \in 0 .. skUpper
  PROVE  /\ Low(m, h) \in Spans /\ Low(m, h).l = 0 /\ Low(m, h).u = m + h - skUpper - 2
         /\ High(m) \in Spans /\ High(m).l = m + 1 /\ High(m).u = skUpper
         /\ Whole(m, h) \in Spans /\ Whole(m, h).l = m /\ Whole(m, h).u = m + h - 1
  BY DEF Low, High, Whole, Skewed!Span, Spans

\* What _add_interval() makes of r with a spot that starts at m.
AddedIs(new, r, m, h) ==
  /\ m + h - 1 <= skUpper => new = Append(r, Whole(m, h))
  /\ m + h - 1 > skUpper /\ Len(r) = 0 => new = <<Low(m, h), High(m)>>
  /\ m + h - 1 > skUpper /\ Len(r) = 1 => new = <<Low(m, h), r[1], High(m)>>
  /\ m + h - 1 > skUpper /\ Len(r) = 2 /\ ~(r[1].u > Low(m, h).u) =>
       new = IF r[2].l < m + 1 THEN Append(<<r[1], Low(m, h), r[2]>>, High(m))
                               ELSE <<r[1], Low(m, h), High(m), r[2]>>

LEMMA Added ==
  ASSUME skUpper \in Nat, NEW h \in 1 .. skUpper + 1, NEW l \in 0 .. skUpper, NEW r,
         NEW m, m = StartOf(l, h), NEW v, v = l + h
  PROVE  AddedIs(Skewed!AddInterval(r, l, v), r, m, h)
  <1> DEFINE special == l = skUpper /\ (l + h) - 1 > skUpper
             u == IF special THEN (l + h) - 1 ELSE l + h
  <1>1. m = (IF special THEN l - 1 ELSE l) /\ m \in Int
    BY DEF StartOf
  <1>2. u = m + h /\ u \in Int
    BY <1>1
  <1>3. (u - skUpper) - 2 + 0 = m + h - skUpper - 2
    BY ONLY <1>1, <1>2, skUpper \in Nat, h \in 1 .. skUpper + 1
  <1>4. Skewed!Span(Skewed!lower, u - skUpper - 2 + Skewed!lower) = Low(m, h)
    BY <1>3 DEF Low, Skewed!lower
  <1> DEFINE low == Low(m, h)
             high == High(m)
             three == IF r[1].u > low.u THEN <<low>> \o r ELSE <<r[1], low, r[2]>>
  <1>5. Skewed!AddInterval(r, l, v) =
          CASE u - 1 <= skUpper -> Append(r, Skewed!Span(m, u - 1))
            [] u - 1 > skUpper /\ Len(r) = 1 -> <<low, r[1], high>>
            [] u - 1 > skUpper /\ Len(r) = 2 ->
                 IF three[3].l < m + 1 THEN Append(three, high)
                                       ELSE <<three[1], three[2], high, three[3]>>
            [] OTHER -> <<low, high>>
    BY <1>1, <1>4 DEF Skewed!AddInterval, High
  <1> HIDE DEF u
  <1>6. u - 1 = m + h - 1
    BY ONLY <1>1, <1>2, skUpper \in Nat, h \in 1 .. skUpper + 1
  <1>7. Skewed!Span(m, u - 1) = Whole(m, h)
    BY <1>6 DEF Whole
  <1>8. ~(r[1].u > low.u) => three = <<r[1], low, r[2]>>
    OBVIOUS
  <1>9. \A x, y, z : <<x, y, z>>[1] = x /\ <<x, y, z>>[2] = y /\ <<x, y, z>>[3] = z
    OBVIOUS
  <1>10. m + h - 1 <= skUpper <=> ~(m + h - 1 > skUpper)
    BY <1>1
  <1> HIDE DEF special, low, high, three
  <1>11. CASE m + h - 1 <= skUpper
    <2>1. Skewed!AddInterval(r, l, v) = Append(r, Whole(m, h))
      BY <1>5, <1>7, <1>6, <1>10, <1>11
    <2> QED
      BY <1>10, <1>11, <2>1 DEF AddedIs
  <1>12. CASE m + h - 1 > skUpper
    <2>1. ~(u - 1 <= skUpper) /\ u - 1 > skUpper
      BY <1>6, <1>10, <1>12
    <2>2. Len(r) = 0 => Skewed!AddInterval(r, l, v) = <<low, high>>
      BY <1>5, <2>1
    <2>3. Len(r) = 1 => Skewed!AddInterval(r, l, v) = <<low, r[1], high>>
      BY <1>5, <2>1
    <2>4. Len(r) = 2 => Skewed!AddInterval(r, l, v) =
            IF three[3].l < m + 1 THEN Append(three, high)
                                  ELSE <<three[1], three[2], high, three[3]>>
      BY <1>5, <2>1
    <2>5. Len(r) = 2 /\ ~(r[1].u > low.u) => Skewed!AddInterval(r, l, v) =
            IF r[2].l < m + 1 THEN Append(<<r[1], low, r[2]>>, high)
                              ELSE <<r[1], low, high, r[2]>>
      BY <1>8, <1>9, <2>4
    <2> QED
      BY <1>10, <1>12, <2>2, <2>3, <2>5 DEF AddedIs, low, high
  <1> QED
    BY <1>10, <1>11, <1>12 DEF AddedIs

\* A spot alone: one range, or two when it goes on at the lower end.
LEMMA OneSpot ==
  ASSUME skUpper \in Nat, NEW h \in 1 .. skUpper + 1, NEW l \in 0 .. skUpper,
         NEW m, m = StartOf(l, h), NEW v, v = l + h,
         NEW one, one = Skewed!AddInterval(<<>>, l, v)
  PROVE  /\ m + h - 1 <= skUpper => one = <<Whole(m, h)>>
         /\ m + h - 1 > skUpper => one = <<Low(m, h), High(m)>>
         /\ Ascending(one, skUpper)
  <1>1. m \in 0 .. skUpper /\ (m + h - 1 > skUpper => m < skUpper)
    BY StartFacts
  <1>2. m \in Int /\ h \in Int /\ 1 <= h /\ h <= skUpper + 1 /\ 0 <= m
    BY <1>1
  <1>3. PICK whole \in Spans : whole = Whole(m, h) /\ whole.l = m /\ whole.u = m + h - 1
    BY <1>1, ArePieces
  <1>4. PICK low \in Spans : low = Low(m, h) /\ low.l = 0 /\ low.u = m + h - skUpper - 2
    BY <1>1, ArePieces
  <1>5. PICK high \in Spans : high = High(m) /\ high.l = m + 1 /\ high.u = skUpper
    BY <1>1, ArePieces
  <1>6. PICK r : r = <<>>
    OBVIOUS
  <1>7. Len(r) = 0 /\ Append(r, whole) = <<whole>>
    BY <1>6
  <1>8. /\ m + h - 1 <= skUpper => one = Append(r, Whole(m, h))
        /\ m + h - 1 > skUpper /\ Len(r) = 0 => one = <<Low(m, h), High(m)>>
    <2>1. AddedIs(Skewed!AddInterval(r, l, v), r, m, h)
      BY Added
    <2> QED
      BY <1>6, <2>1 DEF AddedIs
  <1>9. CASE m + h - 1 <= skUpper
    <2>1. one = <<whole>>
      BY <1>3, <1>6, <1>7, <1>8, <1>9
    <2>2. m <= m + h - 1
      BY ONLY <1>2
    <2>3. Proper(whole, skUpper)
      BY <1>2, <1>3, <1>9, <2>2 DEF Proper
    <2>4. Ascending(one, skUpper)
      BY <2>1, <2>3, AscendingOne
    <2> QED
      BY <1>2, <1>3, <1>9, <2>1, <2>4
  <1>10. CASE m + h - 1 > skUpper
    <2>1. one = <<low, high>>
      BY <1>4, <1>5, <1>6, <1>7, <1>8, <1>10
    <2>2. /\ 0 <= m + h - skUpper - 2 /\ m + 1 <= skUpper /\ 0 <= m + 1
          /\ m + h - skUpper - 2 <= skUpper
      BY ONLY <1>1, <1>2, <1>10, skUpper \in Nat
    <2>3. Proper(low, skUpper) /\ Proper(high, skUpper) /\ Follows(low, high)
      BY <1>2, <1>4, <1>5, <2>2 DEF Proper, Follows
    <2>4. Ascending(one, skUpper)
      BY <2>1, <2>3, AscendingTwo
    <2> QED
      BY <1>2, <1>4, <1>5, <1>10, <2>1, <2>4
  <1> QED
    BY <1>2, <1>9, <1>10

\* Two spots, the second one not below the first: two to four ranges.
LEMMA TwoSpots ==
  ASSUME skUpper \in Nat, NEW h \in 1 .. skUpper + 1, NEW l \in 0 .. skUpper, NEW k \in l .. skUpper,
         NEW u, u = l + h, NEW v, v = k + h,
         NEW two, two = Skewed!AddInterval(Skewed!AddInterval(<<>>, l, u), k, v)
  PROVE  Ascending(two, skUpper)
  <1>1. k \in 0 .. skUpper
    OBVIOUS
  <1>2. PICK m : m = StartOf(l, h)
    OBVIOUS
  <1>3. PICK n : n = StartOf(k, h)
    OBVIOUS
  <1>4. PICK one : one = Skewed!AddInterval(<<>>, l, u)
    OBVIOUS
  <1>5. /\ m \in 0 .. skUpper /\ n \in 0 .. skUpper
        /\ m + h - 1 > skUpper => m < skUpper
        /\ n + h - 1 > skUpper => n < skUpper
    BY <1>1, <1>2, <1>3, StartFacts
  <1>6. m <= n /\ (m + h - 1 > skUpper => n + h - 1 > skUpper)
    BY <1>2, <1>3, StartsAscend
  <1>7. /\ m \in Int /\ n \in Int /\ h \in Int /\ 1 <= h /\ h <= skUpper + 1
        /\ 0 <= m /\ 0 <= n /\ m <= skUpper /\ n <= skUpper
    BY <1>5
  <1>8. PICK whole \in Spans : whole = Whole(m, h) /\ whole.l = m /\ whole.u = m + h - 1
    BY <1>5, ArePieces
  <1>9. PICK low \in Spans : low = Low(m, h) /\ low.l = 0 /\ low.u = m + h - skUpper - 2
    BY <1>5, ArePieces
  <1>10. PICK high \in Spans : high = High(m) /\ high.l = m + 1 /\ high.u = skUpper
    BY <1>5, ArePieces
  <1>11. PICK whole2 \in Spans : whole2 = Whole(n, h) /\ whole2.l = n /\ whole2.u = n + h - 1
    BY <1>5, ArePieces
  <1>12. PICK low2 \in Spans : low2 = Low(n, h) /\ low2.l = 0 /\ low2.u = n + h - skUpper - 2
    BY <1>5, ArePieces
  <1>13. PICK high2 \in Spans : high2 = High(n) /\ high2.l = n + 1 /\ high2.u = skUpper
    BY <1>5, ArePieces
  <1>14. /\ m + h - 1 <= skUpper => one = <<whole>>
         /\ m + h - 1 > skUpper => one = <<low, high>>
    BY <1>2, <1>4, <1>8, <1>9, <1>10, OneSpot
  <1>15. two = Skewed!AddInterval(one, k, v)
    BY <1>4
  <1>16. /\ n + h - 1 <= skUpper => two = Append(one, whole2)
         /\ n + h - 1 > skUpper /\ Len(one) = 1 => two = <<low2, one[1], high2>>
         /\ n + h - 1 > skUpper /\ Len(one) = 2 /\ ~(one[1].u > low2.u) =>
              two = IF one[2].l < n + 1 THEN Append(<<one[1], low2, one[2]>>, high2)
                                        ELSE <<one[1], low2, high2, one[2]>>
    <2>1. AddedIs(Skewed!AddInterval(one, k, v), one, n, h)
      BY <1>1, <1>3, Added
    <2> QED
      BY <1>11, <1>12, <1>13, <1>15, <2>1 DEF AddedIs
  <1>17. CASE m + h - 1 <= skUpper
    <2>1. one = <<whole>>
      BY <1>14, <1>17
    <2>2. Len(one) = 1 /\ one[1] = whole
      BY <2>1
    <2>5. Append(<<whole>>, whole2) = <<whole, whole2>>
      BY AppendToOne
    <2>3. CASE n + h - 1 <= skUpper
      <3>1. two = <<whole, whole2>>
        BY <1>16, <2>1, <2>3, <2>5
      <3>2. m <= m + h - 1 /\ n <= n + h - 1 /\ m + h - 1 <= n + h - 1
        BY ONLY <1>6, <1>7
      <3> QED
        <4>1. Proper(whole, skUpper) /\ Proper(whole2, skUpper) /\ Follows(whole, whole2)
          BY <1>6, <1>7, <1>8, <1>11, <1>17, <2>3, <3>2 DEF Proper, Follows
        <4> QED
          BY <3>1, <4>1, AscendingTwo
    <2>4. CASE n + h - 1 > skUpper
      <3>1. two = <<low2, whole, high2>>
        BY <1>16, <2>2, <2>4
      <3>2. /\ 0 <= n + h - skUpper - 2 /\ n + h - skUpper - 2 <= m + h - 1
            /\ m <= m + h - 1 /\ m <= n + 1 /\ n + 1 <= skUpper
        BY ONLY <1>5, <1>6, <1>7, <2>4, skUpper \in Nat
      <3> QED
        <4>1. /\ Proper(low2, skUpper) /\ Proper(whole, skUpper) /\ Proper(high2, skUpper)
              /\ Follows(low2, whole) /\ Follows(whole, high2)
          BY <1>7, <1>8, <1>12, <1>13, <1>17, <3>2 DEF Proper, Follows
        <4> QED
          BY <3>1, <4>1, AscendingThree
    <2> QED
      BY <1>7, <2>3, <2>4
  <1>18. CASE m + h - 1 > skUpper
    <2>1. one = <<low, high>> /\ n + h - 1 > skUpper
      BY <1>6, <1>14, <1>18
    <2>2. Len(one) = 2 /\ one[1] = low /\ one[2] = high
      BY <2>1
    <2>3. /\ 0 <= m + h - skUpper - 2 /\ m + h - skUpper - 2 <= n + h - skUpper - 2
          /\ n + h - skUpper - 2 <= skUpper /\ 0 <= m + 1
          /\ m + 1 <= n + 1 /\ n + 1 <= skUpper /\ m + 1 <= skUpper
          /\ ~(m + h - skUpper - 2 > n + h - skUpper - 2)
          /\ (~(m + 1 < n + 1) => n + 1 <= m + 1)
      BY ONLY <1>5, <1>6, <1>7, <1>18, <2>1, skUpper \in Nat
    <2>4. two = IF m + 1 < n + 1 THEN Append(<<low, low2, high>>, high2)
                                 ELSE <<low, low2, high2, high>>
      BY <1>9, <1>10, <1>12, <1>16, <2>1, <2>2, <2>3
    <2>5. Append(<<low, low2, high>>, high2) = <<low, low2, high, high2>>
      BY AppendToThree
    <2>6. CASE m + 1 < n + 1
      <3>1. two = <<low, low2, high, high2>>
        BY <2>4, <2>5, <2>6
      <3> QED
        <4>1. /\ Proper(low, skUpper) /\ Proper(low2, skUpper)
              /\ Proper(high, skUpper) /\ Proper(high2, skUpper)
              /\ Follows(low, low2) /\ Follows(low2, high) /\ Follows(high, high2)
          BY <1>9, <1>10, <1>12, <1>13, <2>3, <1>7 DEF Proper, Follows
        <4> QED
          BY <3>1, <4>1, AscendingFour
    <2>7. CASE ~(m + 1 < n + 1)
      <3>1. two = <<low, low2, high2, high>>
        BY <2>4, <2>7
      <3> QED
        <4>1. /\ Proper(low, skUpper) /\ Proper(low2, skUpper)
              /\ Proper(high2, skUpper) /\ Proper(high, skUpper)
              /\ Follows(low, low2) /\ Follows(low2, high2) /\ Follows(high2, high)
          BY <1>9, <1>10, <1>12, <1>13, <2>3, <2>7, <1>7 DEF Proper, Follows
        <4> QED
          BY <3>1, <4>1, AscendingFour
    <2> QED
      BY <2>6, <2>7
  <1> QED
    BY <1>7, <1>17, <1>18

\* A spot has one number at least and no more than there are, as _area is 100 at most.
LEMMA SpotSize ==
  ASSUME skUpper \in Nat, NEW a \in SkewAreas
  PROVE  /\ Skewed!Size = skUpper + 1
         /\ Skewed!CeilDiv(Skewed!Size * a, 100) \in 1 .. skUpper + 1
         /\ Skewed!CeilDiv(Skewed!Size * a, 200) \in 1 .. skUpper + 1
  <1>1. a \in 1 .. 100
    BY SkewedAssumption DEF Skewed!SkewAssumption
  <1>2. PICK s \in Nat : s = skUpper + 1 /\ s >= 1
    OBVIOUS
  <1>3. Skewed!Size = s
    BY <1>2 DEF Skewed!Size, Skewed!lower
  <1>4. s * a >= s /\ s * a <= s * 100 /\ s * a \in Nat
    <2>1. s * a - s = s * (a - 1) /\ s * 100 - s * a = s * (100 - a)
      BY <1>1
    <2>2. s * (a - 1) >= 0 /\ s * (100 - a) >= 0
      BY <1>1
    <2>3. s * a \in Nat /\ s * 100 \in Nat /\ s * (a - 1) \in Int /\ s * (100 - a) \in Int
      BY <1>1
    <2> QED
      BY <2>1, <2>2, <2>3
  <1>5. PICK p \in Nat : p = s * a
    BY <1>4
  <1>6. p >= s /\ p <= 100 * s
    BY <1>4, <1>5
  <1>7. (p + 100 - 1) \div 100 \in 1 .. s /\ (p + 200 - 1) \div 200 \in 1 .. s
    BY ONLY <1>2, <1>6, s \in Nat, p \in Nat
  <1> QED
    BY <1>2, <1>3, <1>5, <1>7 DEF Skewed!CeilDiv

LEMMA IntervalsDivide ==
  ASSUME skUpper \in Nat, NEW a \in SkewAreas, Skewed!SetIntervals(a), skUpper' = skUpper
  PROVE  Skewed!RangesDivide'
  <1>1. Ascending(skSpots', skUpper)
    <2>1. Skewed!lower = 0
      BY DEF Skewed!lower
    <2>2. CASE \E l \in Skewed!lower .. skUpper :
                 skSpots' = Skewed!AddInterval(<<>>, l, l + Skewed!CeilDiv(Skewed!Size * a, 100))
      <3>1. PICK h \in 1 .. skUpper + 1 : h = Skewed!CeilDiv(Skewed!Size * a, 100)
        BY SpotSize
      <3>2. PICK l \in 0 .. skUpper : skSpots' = Skewed!AddInterval(<<>>, l, l + h)
        BY <2>1, <2>2, <3>1
      <3> QED
        BY <3>2, OneSpot
    <2>3. CASE LET half == Skewed!CeilDiv(Skewed!Size * a, 200)
               IN \E l \in Skewed!lower .. skUpper : \E l2 \in l .. skUpper :
                    skSpots' = Skewed!AddInterval(Skewed!AddInterval(<<>>, l, l + half), l2, l2 + half)
      <3>1. PICK h \in 1 .. skUpper + 1 : h = Skewed!CeilDiv(Skewed!Size * a, 200)
        BY SpotSize
      <3>2. PICK l \in 0 .. skUpper : \E l2 \in l .. skUpper :
              skSpots' = Skewed!AddInterval(Skewed!AddInterval(<<>>, l, l + h), l2, l2 + h)
        BY <2>1, <2>3, <3>1
      <3>3. PICK l2 \in l .. skUpper :
              skSpots' = Skewed!AddInterval(Skewed!AddInterval(<<>>, l, l + h), l2, l2 + h)
        BY <3>2
      <3> QED
        BY <3>3, TwoSpots
    <2> QED
      BY <2>2, <2>3 DEF Skewed!SetIntervals
  <1>2. skOutside' = Skewed!Outside(skSpots')
    BY DEF Skewed!SetIntervals
  <1>3. PICK r : r = skSpots'
    OBVIOUS
  <1>4. PICK o : o = skOutside'
    OBVIOUS
  <1>5. /\ \A ranges \in {r, o} : \A i \in DOMAIN ranges : ranges[i].l <= ranges[i].u
        /\ Skewed!Numbers(r) \cap Skewed!Numbers(o) = {}
        /\ Skewed!Numbers(r) \cup Skewed!Numbers(o) = 0 .. skUpper
    BY <1>1, <1>2, <1>3, <1>4, OutsideDivides
  <1> QED
    BY <1>3, <1>4, <1>5 DEF Skewed!RangesDivide, Skewed!lower, Skewed!Numbers

\* A skewer that has a type has an area that makes spots; its ranges divide its numbers.
SkewInv ==
  /\ skUpper \in Nat
  /\ skType # "none" => skArea \in SkewAreas
  /\ Skewed!RangesDivide

LEMMA SkewInvStep ==
  ASSUME Is("skew") => SkewInv, [Next]_vars
  PROVE  (Is("skew") => SkewInv)'
  <1> SUFFICES ASSUME SkewInv, [Next]_vars, Is("skew") PROVE SkewInv'
    BY SubjectStays
  <1>1. ASSUME UNCHANGED <<skUpper, skSpots, skOutside>>
        PROVE  Skewed!RangesDivide'
    BY <1>1 DEF SkewInv, Skewed!RangesDivide, Skewed!Numbers, Skewed!lower
  <1>2. CASE UNCHANGED <<skUpper, skType, skArea, skSpots, skOutside>>
    BY <1>1, <1>2 DEF SkewInv
  <1>3. ASSUME NEW a \in SkewAreas, Skewed!SetIntervals(a), UNCHANGED skUpper
        PROVE  Skewed!RangesDivide'
    BY <1>3, IntervalsDivide DEF SkewInv
  <1>4. ASSUME NEW a \in SkewAreas, NEW p \in SkewLoads, NEW t, Skewed!SetSkew(a, p, t)
        PROVE  SkewInv'
    BY <1>3, <1>4 DEF SkewInv, Skewed!SetSkew, Skewed!Set
  <1>5. CASE Skewed!StartLoadImbalance
    <2>1. CASE skUsed
      <3>1. Skewed!Reset /\ skType # "none" /\ UNCHANGED <<skUpper, skType>>
        BY <1>5, <2>1 DEF Skewed!StartLoadImbalance
      <3>2. skArea' \in SkewAreas
        BY <3>1 DEF Skewed!Reset, SkewInv
      <3>3. PICK a \in SkewAreas : a = skArea'
        BY <3>2
      <3>4. Skewed!SetIntervals(a)
        BY <3>1, <3>3 DEF Skewed!Reset, Skewed!SetIntervals
      <3> QED
        BY <1>3, <3>1, <3>2, <3>4 DEF SkewInv
    <2>2. CASE ~skUsed
      <3>1. UNCHANGED <<skUpper, skType, skArea, skSpots, skOutside>>
        BY <1>5, <2>2 DEF Skewed!StartLoadImbalance, Skewed!FirstUse
      <3> QED
        BY <1>2, <3>1
    <2> QED
      BY <2>1, <2>2
  <1>6. CASE Skewed!ResetSkew
    <2>1. skSpots' = <<>> /\ skOutside' = <<>> /\ UNCHANGED <<skUpper, skArea, skType>>
      BY <1>6 DEF Skewed!ResetSkew, Skewed!Clear
    <2>2. DOMAIN <<>> = {}
      OBVIOUS
    <2>3. Skewed!RangesDivide'
      BY <2>1, <2>2 DEF Skewed!RangesDivide, Skewed!Numbers
    <2> QED
      BY <2>1, <2>3 DEF SkewInv
  <1>7. CASE Skewed!SetAlarm
    BY <1>2, <1>7 DEF Skewed!SetAlarm
  <1>8. CASE Skewed!GetInput
    BY <1>2, <1>8 DEF Skewed!GetInput
  <1> QED
    BY <1>2, <1>4, <1>5, <1>6, <1>7, <1>8 DEF Next, vars, skVars, ThreadsStep, QueueStep,
       TuplesStep, ScanStep, IndexStep, SkewedStep, EnvStep, WorkStep, CodecStep, Skewed!Next, Is

\* Wherever the spots of a skewer start, whether they overlap or go on at the lower end, and
\* whatever its size and area: every range has a number, and each number is in a spot or
\* outside, and not in both (skewer_t::_add_interval, _set_intervals).
THEOREM RangesAlwaysDivide == Spec => []RangesDivide
  <1> DEFINE Inv == Is("skew") => SkewInv
  <1>1. Init => Inv
    <2> SUFFICES ASSUME Skewed!Init PROVE SkewInv
      BY DEF Init, Is
    <2>1. DOMAIN <<>> = {}
      OBVIOUS
    <2>2. Skewed!RangesDivide
      BY <2>1 DEF Skewed!Init, Skewed!RangesDivide, Skewed!Numbers
    <2> QED
      BY <2>2, SkewedAssumption DEF Skewed!Init, Skewed!SkewAssumption, SkewInv
  <1>2. Inv => RangesDivide
    BY DEF SkewInv, Is, RangesDivide
  <1>3. Inv /\ [Next]_vars => Inv'
    BY SkewInvStep
  <1> HIDE DEF Inv
  <1> QED
    BY <1>1, <1>2, <1>3, PTL DEF Spec

-----------------------------------------------------------------------------
(***************************************************************************)
(* The configuration file.  FoldLeft is a recursive function on the sets   *)
(* of lines, which takes the last one of a set off: it exists, and on the  *)
(* first m lines it is the state of the parser after them.                 *)
(***************************************************************************)
LEMMA InductFromZero ==
  ASSUME NEW N, 0 \in N, \A n \in N \cap Nat : n + 1 \in N
  PROVE  Nat \subseteq N
  <1>1. 1 \in N
    BY 0 + 1 = 1, 0 \in Nat
  <1>2. Nat \ {0} \subseteq N
    BY <1>1, Induct
  <1> QED
    BY <1>2

LEMMA MaxOfNumbers ==
  ASSUME NEW n \in Nat, NEW s \in SUBSET (1 .. n), s # {}
  PROVE  Env!Max(s) \in s /\ \A y \in s : y <= Env!Max(s)
  <1> DEFINE N == {m \in Nat : \A t \in SUBSET (1 .. m) : t # {} => \E x \in t : \A y \in t : x >= y}
  <1>1. 0 \in N
    <2>1. 1 .. 0 = {}
      OBVIOUS
    <2> QED
      BY <2>1
  <1>2. ASSUME NEW m \in N \cap Nat PROVE m + 1 \in N
    <2> SUFFICES ASSUME NEW t \in SUBSET (1 .. m + 1), t # {}
                 PROVE  \E x \in t : \A y \in t : x >= y
      OBVIOUS
    <2>1. CASE m + 1 \in t
      BY <2>1
    <2>2. CASE m + 1 \notin t
      <3>1. t \in SUBSET (1 .. m)
        BY <2>2
      <3> QED
        BY <3>1
    <2> QED
      BY <2>1, <2>2
  <1> HIDE DEF N
  <1>3. n \in N
    BY <1>1, <1>2, InductFromZero
  <1>4. \E x \in s : \A y \in s : x >= y
    BY <1>3 DEF N
  <1>5. Env!Max(s) \in s /\ \A y \in s : Env!Max(s) >= y
    BY <1>4 DEF Env!Max
  <1> QED
    BY <1>5

ParserAtStart == [at |-> <<>>, map |-> <<>>, over |-> FALSE]
ParseBody(c, g, s) ==
  IF s = {} THEN ParserAtStart
  ELSE Env!ParseLine(g[s \ {Env!Max(s)}], c[Env!Max(s)])
ParseRec(c, S, g) == g = [s \in SUBSET S |-> ParseBody(c, g, s)]

LEMMA WithoutLast ==
  ASSUME NEW m \in Nat, NEW s \in SUBSET (1 .. m + 1), s # {}
  PROVE  s \ {Env!Max(s)} \in SUBSET (1 .. m)
  <1>1. Env!Max(s) \in s /\ \A y \in s : y <= Env!Max(s)
    BY m + 1 \in Nat, MaxOfNumbers
  <1>2. ASSUME NEW y \in s, y # Env!Max(s) PROVE y \in 1 .. m
    <2>1. y \in 1 .. m + 1 /\ Env!Max(s) \in 1 .. m + 1 /\ y <= Env!Max(s)
      BY <1>1
    <2> QED
      BY <1>2, <2>1
  <1> QED
    BY <1>2

LEMMA ParseExists ==
  ASSUME NEW c, NEW n \in Nat
  PROVE  \E g : ParseRec(c, 1 .. n, g)
  <1> DEFINE N == {m \in Nat : \E g : ParseRec(c, 1 .. m, g)}
  <1>1. 0 \in N
    <2> DEFINE g == [s \in SUBSET (1 .. 0) |-> ParserAtStart]
    <2>1. \A s \in SUBSET (1 .. 0) : s = {}
      OBVIOUS
    <2>2. g = [s \in SUBSET (1 .. 0) |-> ParseBody(c, g, s)]
      BY <2>1 DEF ParseBody
    <2> HIDE DEF g
    <2>3. ParseRec(c, 1 .. 0, g)
      BY <2>2 DEF ParseRec
    <2> QED
      BY <2>3
  <1>2. ASSUME NEW m \in N \cap Nat PROVE m + 1 \in N
    <2>1. PICK g : ParseRec(c, 1 .. m, g)
      OBVIOUS
    <2>2. g = [s \in SUBSET (1 .. m) |-> ParseBody(c, g, s)]
      BY <2>1 DEF ParseRec
    <2> DEFINE h == [s \in SUBSET (1 .. m + 1) |-> ParseBody(c, g, s)]
    <2>3. \A s \in SUBSET (1 .. m) : s \in SUBSET (1 .. m + 1)
      OBVIOUS
    <2>4. \A s \in SUBSET (1 .. m) : h[s] = g[s]
      BY <2>2, <2>3
    <2> HIDE DEF h
    <2>5. ASSUME NEW s \in SUBSET (1 .. m + 1)
          PROVE  ParseBody(c, h, s) = ParseBody(c, g, s)
      <3>1. CASE s = {}
        BY <3>1 DEF ParseBody
      <3>2. CASE s # {}
        <4>1. s \ {Env!Max(s)} \in SUBSET (1 .. m)
          BY <3>2, WithoutLast
        <4> QED
          BY <2>4, <3>2, <4>1 DEF ParseBody
      <3> QED
        BY <3>1, <3>2
    <2>6. h = [s \in SUBSET (1 .. m + 1) |-> ParseBody(c, h, s)]
      BY <2>5 DEF h
    <2>7. ParseRec(c, 1 .. m + 1, h)
      BY <2>6 DEF ParseRec
    <2> QED
      BY <2>7
  <1> HIDE DEF N
  <1>3. n \in N
    BY <1>1, <1>2, InductFromZero
  <1> QED
    BY <1>3 DEF N

\* The states of the parser, line by line.
ParseStates(c, n, st) ==
  /\ st[0] = ParserAtStart
  /\ \A m \in 0 .. n - 1 : st[m + 1] = Env!ParseLine(st[m], c[m + 1])

LEMMA ParseSteps ==
  ASSUME NEW f, NEW c, c = Env!LinesRead(f), NEW n \in Nat, DOMAIN c = 1 .. n
  PROVE  \E st : ParseStates(c, n, st) /\ Env!Parse(f) = st[n].map
  <1> DEFINE g == CHOOSE g : ParseRec(c, 1 .. n, g)
  <1>1. Env!Parse(f) = g[1 .. n].map
    BY DEF Env!Parse, Env!FoldLeft, Env!MapThenFoldSet, ParseRec, ParseBody, ParserAtStart
  <1>2. ParseRec(c, 1 .. n, g)
    BY ParseExists
  <1> HIDE DEF g
  <1>3. \A s \in SUBSET (1 .. n) : g[s] = ParseBody(c, g, s)
    BY <1>2 DEF ParseRec
  <1> DEFINE st == [m \in 0 .. n |-> g[1 .. m]]
  <1>4. st[0] = ParserAtStart
    <2>1. 1 .. 0 = {} /\ 0 \in 0 .. n
      OBVIOUS
    <2> QED
      BY <1>3, <2>1 DEF ParseBody
  <1>5. ASSUME NEW m \in 0 .. n - 1 PROVE st[m + 1] = Env!ParseLine(st[m], c[m + 1])
    <2>1. m + 1 \in 0 .. n /\ m \in 0 .. n /\ m + 1 \in 1 .. m + 1 /\ m + 1 \in Nat /\ m \in Nat
      OBVIOUS
    <2>2. 1 .. m + 1 \in SUBSET (1 .. n) /\ 1 .. m + 1 # {}
      BY <2>1
    <2>3. Env!Max(1 .. m + 1) \in 1 .. m + 1 /\ m + 1 <= Env!Max(1 .. m + 1)
      BY <2>1, <2>2, MaxOfNumbers
    <2>4. Env!Max(1 .. m + 1) = m + 1
      BY <2>1, <2>3
    <2>5. (1 .. m + 1) \ {m + 1} = 1 .. m
      BY <2>1
    <2>6. g[1 .. m + 1] = Env!ParseLine(g[1 .. m], c[m + 1])
      BY <1>3, <2>2, <2>4, <2>5 DEF ParseBody
    <2> QED
      BY <2>1, <2>6
  <1>6. st[n] = g[1 .. n]
    OBVIOUS
  <1> HIDE DEF st
  <1>7. ParseStates(c, n, st)
    BY <1>4, <1>5 DEF ParseStates
  <1> QED
    BY <1>1, <1>6, <1>7

\* The lines of a key among the first m that come before the sentry, the last of them, and
\* the text that follows it: lines up to the m-th with nothing but text and comments in
\* between.
IsOver(c, m) == \E j \in 1 .. m : c[j].kind = "sentry"
KeyLinesOf(c, m, k) == {i \in 1 .. m : c[i].kind = "key" /\ c[i].key = k /\ ~IsOver(c, i)}
LastOf(c, m, k) == Env!Max(KeyLinesOf(c, m, k))
GoesOn(c, l, j) == \A i \in l + 1 .. j : c[i].kind \in {"text", "comment"}
TextsOf(c, l, m) == {j \in 1 .. m : j > l /\ GoesOn(c, l, j) /\ c[j].kind = "text"}
TextOf(c, l, m) == [i \in 1 .. Cardinality(TextsOf(c, l, m)) |-> "text"]
ValueOf(c, l, m) == c[l].value \o TextOf(c, l, m)

LEMMA NoTextYet ==
  ASSUME NEW c, NEW l \in Nat
  PROVE  GoesOn(c, l, l) /\ TextsOf(c, l, l) = {}
  <1>1. l + 1 .. l = {}
    OBVIOUS
  <1>2. \A j \in 1 .. l : ~(j > l)
    OBVIOUS
  <1> QED
    BY <1>1, <1>2 DEF GoesOn, TextsOf

\* Another line ends the text, is skipped, or adds to it.
LEMMA NextLine ==
  ASSUME NEW c, NEW m \in Nat, NEW l \in 0 .. m
  PROVE  /\ GoesOn(c, l, m + 1) <=> GoesOn(c, l, m) /\ c[m + 1].kind \in {"text", "comment"}
         /\ ~GoesOn(c, l, m) \/ c[m + 1].kind # "text" => TextsOf(c, l, m + 1) = TextsOf(c, l, m)
         /\ GoesOn(c, l, m) /\ c[m + 1].kind = "text" =>
              TextsOf(c, l, m + 1) = TextsOf(c, l, m) \cup {m + 1}
  <1>1. l + 1 .. m + 1 = (l + 1 .. m) \cup {m + 1}
    OBVIOUS
  <1>2. GoesOn(c, l, m + 1) <=> GoesOn(c, l, m) /\ c[m + 1].kind \in {"text", "comment"}
    BY <1>1 DEF GoesOn
  <1>3. 1 .. m + 1 = (1 .. m) \cup {m + 1} /\ m + 1 > l
    OBVIOUS
  <1>4. TextsOf(c, l, m + 1) =
          TextsOf(c, l, m)
            \cup {j \in {m + 1} : j > l /\ GoesOn(c, l, j) /\ c[j].kind = "text"}
    BY <1>3 DEF TextsOf
  <1> QED
    BY <1>2, <1>3, <1>4

LEMMA TextsAreFinite ==
  ASSUME NEW c, NEW m \in Nat, NEW l
  PROVE  /\ IsFiniteSet(TextsOf(c, l, m)) /\ Cardinality(TextsOf(c, l, m)) \in Nat
         /\ m + 1 \notin TextsOf(c, l, m)
  <1>1. TextsOf(c, l, m) \subseteq 1 .. m
    BY DEF TextsOf
  <1>2. IsFiniteSet(1 .. m)
    BY FS_Interval
  <1>3. m + 1 \notin 1 .. m
    OBVIOUS
  <1> QED
    BY <1>1, <1>2, <1>3, FS_Subset, FS_CardinalityType

\* A value and what is added to it are sequences of strings.
Strings == STRING \cup {"text"}

LEMMA ValueStarts ==
  ASSUME NEW c, NEW l \in Nat, c[l].value \in Seq(Strings)
  PROVE  ValueOf(c, l, l) = c[l].value
  <1>1. Cardinality(TextsOf(c, l, l)) = 0
    BY NoTextYet, FS_EmptySet
  <1>2. TextOf(c, l, l) = <<>>
    BY <1>1 DEF TextOf
  <1> QED
    BY <1>2 DEF ValueOf

LEMMA ValueGrows ==
  ASSUME NEW c, NEW m \in Nat, NEW l \in 0 .. m, c[l].value \in Seq(Strings),
         GoesOn(c, l, m), c[m + 1].kind = "text"
  PROVE  ValueOf(c, l, m + 1) = ValueOf(c, l, m) \o <<"text">>
  <1>1. PICK k \in Nat : k = Cardinality(TextsOf(c, l, m))
    BY TextsAreFinite
  <1>2. Cardinality(TextsOf(c, l, m + 1)) = k + 1
    <2>1. TextsOf(c, l, m + 1) = TextsOf(c, l, m) \cup {m + 1}
      BY NextLine
    <2> QED
      BY <1>1, <2>1, TextsAreFinite, FS_AddElement
  <1>3. PICK w : w = "text"
    OBVIOUS
  <1>4. w \in Strings
    BY <1>3 DEF Strings
  <1>5. PICK s \in Seq(Strings) : s = TextOf(c, l, m) /\ Len(s) = k /\ \A i \in 1 .. k : s[i] = w
    <2>1. PICK s : s = [i \in 1 .. k |-> w]
      OBVIOUS
    <2>2. s \in Seq(Strings) /\ Len(s) = k /\ \A i \in 1 .. k : s[i] = w
      BY <1>1, <1>4, <2>1
    <2>3. s = TextOf(c, l, m)
      BY <1>1, <1>3, <2>1 DEF TextOf
    <2> QED
      BY <2>2, <2>3
  <1>9. PICK t \in Seq(Strings) : t = TextOf(c, l, m + 1) /\ Len(t) = k + 1 /\ \A i \in 1 .. k + 1 : t[i] = w
    <2>1. PICK t : t = [i \in 1 .. k + 1 |-> w]
      OBVIOUS
    <2>2. t \in Seq(Strings) /\ Len(t) = k + 1 /\ \A i \in 1 .. k + 1 : t[i] = w
      BY <1>1, <1>4, <2>1
    <2>3. t = TextOf(c, l, m + 1)
      BY <1>2, <1>3, <2>1 DEF TextOf
    <2> QED
      BY <2>2, <2>3
  <1>10. PICK x \in Seq(Strings) : x = <<w>> /\ Len(x) = 1 /\ x[1] = w
    <2>1. PICK x : x = <<w>>
      OBVIOUS
    <2>2. x \in Seq(Strings) /\ Len(x) = 1 /\ x[1] = w
      BY <1>4, <2>1
    <2> QED
      BY <2>1, <2>2
  <1>6. t = s \o x
    BY <1>1, <1>5, <1>9, <1>10
  <1>7. PICK v \in Seq(Strings) : v = c[l].value
    OBVIOUS
  <1>8. v \o (s \o x) = (v \o s) \o x
    OBVIOUS
  <1> QED
    BY <1>3, <1>5, <1>6, <1>7, <1>8, <1>9, <1>10 DEF ValueOf

\* A file of n lines, as EnvVarAssumption has them.
IsFile(c, n) ==
  /\ DOMAIN c = 1 .. n
  /\ \A i \in 1 .. n :
       /\ c[i].kind \in {"blank", "comment", "text", "sentry", "key"}
       /\ c[i].kind = "key" => c[i].key \in EnvParams
       /\ c[i].kind = "text" => c[i].value = <<"text">>
       /\ c[i].value \in Seq(Strings)

\* What the parser has made of m lines: the value of each key is the one of its last line
\* with the text up to now, and it goes on if nothing has ended it.
Parsed(c, m, at, map, over) ==
  /\ over = IsOver(c, m)
  /\ over => at = <<>>
  /\ at = <<>> \/ \E k \in EnvParams : at = <<k>>
  /\ DOMAIN map = {k \in EnvParams : KeyLinesOf(c, m, k) # {}}
  /\ \A k \in EnvParams : at = <<k>> => k \in DOMAIN map
  /\ \A k \in DOMAIN map : at = <<k>> <=> GoesOn(c, LastOf(c, m, k), m)
  /\ \A k \in DOMAIN map : map[k] = ValueOf(c, LastOf(c, m, k), m)

LEMMA LastIs ==
  ASSUME NEW c, NEW m \in Nat, NEW k, KeyLinesOf(c, m, k) # {}
  PROVE  LastOf(c, m, k) \in 1 .. m
  <1>1. KeyLinesOf(c, m, k) \in SUBSET (1 .. m)
    BY DEF KeyLinesOf
  <1>2. LastOf(c, m, k) \in KeyLinesOf(c, m, k)
    BY <1>1, MaxOfNumbers DEF LastOf
  <1> QED
    BY <1>1, <1>2

LEMMA OneMoreLine ==
  ASSUME NEW c, NEW m \in Nat
  PROVE  IsOver(c, m + 1) <=> IsOver(c, m) \/ c[m + 1].kind = "sentry"
  <1>1. 1 .. m + 1 = (1 .. m) \cup {m + 1}
    OBVIOUS
  <1> QED
    BY <1>1 DEF IsOver

LEMMA OtherLine ==
  ASSUME NEW c, NEW m \in Nat, NEW k, ~(c[m + 1].kind = "key" /\ c[m + 1].key = k) \/ IsOver(c, m)
  PROVE  KeyLinesOf(c, m + 1, k) = KeyLinesOf(c, m, k) /\ LastOf(c, m + 1, k) = LastOf(c, m, k)
  <1>1. 1 .. m + 1 = (1 .. m) \cup {m + 1}
    OBVIOUS
  <1>2. KeyLinesOf(c, m + 1, k) = KeyLinesOf(c, m, k)
    BY <1>1, OneMoreLine DEF KeyLinesOf
  <1> QED
    BY <1>2 DEF LastOf

LEMMA KeyLine ==
  ASSUME NEW c, NEW m \in Nat, NEW k, c[m + 1].kind = "key", c[m + 1].key = k, ~IsOver(c, m)
  PROVE  KeyLinesOf(c, m + 1, k) # {} /\ LastOf(c, m + 1, k) = m + 1
  <1>1. m + 1 \in KeyLinesOf(c, m + 1, k) /\ KeyLinesOf(c, m + 1, k) \in SUBSET (1 .. m + 1)
    BY OneMoreLine DEF KeyLinesOf
  <1>2. /\ LastOf(c, m + 1, k) \in KeyLinesOf(c, m + 1, k)
        /\ m + 1 <= LastOf(c, m + 1, k)
    BY <1>1, m + 1 \in Nat, MaxOfNumbers DEF LastOf
  <1>3. LastOf(c, m + 1, k) \in 1 .. m + 1
    BY <1>1, <1>2
  <1> QED
    BY <1>1, <1>2, <1>3

ParserState(at, map, over) == [at |-> at, map |-> map, over |-> over]

\* What each kind of line does to the state of the parser.
LEMMA ParseKey ==
  ASSUME NEW at, NEW map, NEW line, line.kind = "key"
  PROVE  Env!ParseLine(ParserState(at, map, FALSE), line) =
           ParserState(<<line.key>>, Env!With(map, line.key, line.value), FALSE)
  BY DEF Env!ParseLine, ParserState

LEMMA ParseText ==
  ASSUME NEW at, at # <<>>, NEW map, NEW line, line.kind = "text"
  PROVE  Env!ParseLine(ParserState(at, map, FALSE), line) =
           ParserState(at, Env!With(map, at[1], map[at[1]] \o line.value), FALSE)
  BY DEF Env!ParseLine, ParserState

LEMMA ParseEnd ==
  ASSUME NEW at, NEW map, NEW line
  PROVE  /\ line.kind = "blank" =>
              Env!ParseLine(ParserState(at, map, FALSE), line) = ParserState(<<>>, map, FALSE)
         /\ line.kind = "sentry" =>
              Env!ParseLine(ParserState(at, map, FALSE), line) = ParserState(<<>>, map, TRUE)
  BY DEF Env!ParseLine, ParserState

LEMMA ParseOn ==
  ASSUME NEW at, NEW map, NEW over \in BOOLEAN, NEW line,
         over \/ line.kind = "comment" \/ (line.kind = "text" /\ at = <<>>)
  PROVE  Env!ParseLine(ParserState(at, map, over), line) = ParserState(at, map, over)
  BY DEF Env!ParseLine, ParserState

LEMMA LineParsed ==
  ASSUME NEW n \in Nat, NEW c, IsFile(c, n), NEW m \in 0 .. n - 1,
         NEW at, NEW map, NEW over, Parsed(c, m, at, map, over)
  PROVE  \E at2, map2, over2 :
           /\ Env!ParseLine(ParserState(at, map, over), c[m + 1]) = ParserState(at2, map2, over2)
           /\ Parsed(c, m + 1, at2, map2, over2)
  <1> DEFINE line == c[m + 1]
             L(k) == LastOf(c, m, k)
             next == Env!ParseLine(ParserState(at, map, over), line)
  <1>1. m \in Nat /\ m + 1 \in 1 .. n
    OBVIOUS
  <1>2. /\ line.kind \in {"blank", "comment", "text", "sentry", "key"}
        /\ line.kind = "key" => line.key \in EnvParams
        /\ line.kind = "text" => line.value = <<"text">>
        /\ line.value \in Seq(Strings)
    BY <1>1 DEF IsFile
  <1>3. \A k \in DOMAIN map : /\ L(k) \in 0 .. m /\ L(k) \in Nat /\ c[L(k)].value \in Seq(Strings)
                              /\ k \in EnvParams
    <2> TAKE k \in DOMAIN map
    <2>1. L(k) \in 1 .. m /\ k \in EnvParams
      BY <1>1, LastIs DEF Parsed
    <2>2. L(k) \in 1 .. n /\ L(k) \in 0 .. m /\ L(k) \in Nat
      BY <1>1, <2>1
    <2> QED
      BY <2>1, <2>2 DEF IsFile
  <1>4. \A x, y : <<x>> = <<y>> => x = y
    OBVIOUS
  <1>5. \A x : <<x>> # <<>> /\ <<x>>[1] = x
    OBVIOUS
  \* Nothing but a line of a key changes the lines of keys.
  <1>6. line.kind # "key" \/ over =>
          \A k : KeyLinesOf(c, m + 1, k) = KeyLinesOf(c, m, k) /\ LastOf(c, m + 1, k) = L(k)
    BY <1>1, OtherLine DEF Parsed
  <1>7. \A k \in DOMAIN map :
          /\ GoesOn(c, L(k), m + 1) <=> GoesOn(c, L(k), m) /\ line.kind \in {"text", "comment"}
          /\ ~GoesOn(c, L(k), m) \/ line.kind # "text" =>
               ValueOf(c, L(k), m + 1) = ValueOf(c, L(k), m)
          /\ GoesOn(c, L(k), m) /\ line.kind = "text" =>
               ValueOf(c, L(k), m + 1) = ValueOf(c, L(k), m) \o <<"text">>
    <2> TAKE k \in DOMAIN map
    <2>1. L(k) \in 0 .. m /\ L(k) \in Nat /\ c[L(k)].value \in Seq(Strings)
      BY <1>3
    <2>2. PICK l \in 0 .. m : l = L(k)
      BY <2>1
    <2>3. /\ GoesOn(c, l, m + 1) <=> GoesOn(c, l, m) /\ line.kind \in {"text", "comment"}
          /\ ~GoesOn(c, l, m) \/ line.kind # "text" => TextsOf(c, l, m + 1) = TextsOf(c, l, m)
      BY <1>1, NextLine
    <2>4. ~GoesOn(c, l, m) \/ line.kind # "text" => ValueOf(c, l, m + 1) = ValueOf(c, l, m)
      BY <2>3 DEF ValueOf, TextOf
    <2>5. GoesOn(c, l, m) /\ line.kind = "text" => ValueOf(c, l, m + 1) = ValueOf(c, l, m) \o <<"text">>
      BY <1>1, <2>1, <2>2, ValueGrows
    <2> HIDE DEF line, L
    <2> QED
      BY <2>2, <2>3, <2>4, <2>5
  <1>8. Parsed(c, m, at, map, over)
    OBVIOUS
  <1>13. over \in BOOLEAN /\ IsOver(c, m + 1) \in BOOLEAN /\ (IsOver(c, m + 1) <=> over \/ line.kind = "sentry")
    BY <1>1, OneMoreLine DEF Parsed, IsOver
  <1> HIDE DEF L
  <1>9. CASE ~over /\ line.kind = "key"
    <2> DEFINE p == line.key
               map2 == Env!With(map, p, line.value)
    <2>1. next = ParserState(<<p>>, map2, FALSE)
      <3>1. over = FALSE
        BY <1>9, <1>13
      <3>2. PICK x : x = line /\ x.kind = "key"
        BY <1>9
      <3>3. Env!ParseLine(ParserState(at, map, FALSE), x) =
              ParserState(<<x.key>>, Env!With(map, x.key, x.value), FALSE)
        BY <3>2, ParseKey
      <3>4. next = Env!ParseLine(ParserState(at, map, FALSE), x)
        BY <3>1, <3>2
      <3> HIDE DEF line, next
      <3> QED
        BY <3>2, <3>3, <3>4
    <2>2. KeyLinesOf(c, m + 1, p) # {} /\ LastOf(c, m + 1, p) = m + 1
      BY <1>1, <1>9, KeyLine DEF Parsed
    <2>3. \A k : k # p => KeyLinesOf(c, m + 1, k) = KeyLinesOf(c, m, k) /\ LastOf(c, m + 1, k) = L(k)
      BY <1>1, OtherLine DEF L
    <2>4. GoesOn(c, m + 1, m + 1)
      BY <1>1, m + 1 \in Nat, NoTextYet
    <2>5. ValueOf(c, m + 1, m + 1) = line.value
      BY <1>1, <1>2, m + 1 \in Nat, ValueStarts
    <2>6. p \in EnvParams
      BY <1>2, <1>9
    <2> HIDE DEF line, p, next
    <2>7. /\ DOMAIN map2 = DOMAIN map \cup {p} /\ map2[p] = line.value
          /\ \A q \in DOMAIN map : q # p => map2[q] = map[q]
      <3>1. PICK v : v = line.value
        OBVIOUS
      <3>2. PICK m2 : m2 = map2
        OBVIOUS
      <3>3. m2 = Env!With(map, p, v)
        BY <3>1, <3>2
      <3>4. /\ DOMAIN m2 = DOMAIN map \cup {p} /\ m2[p] = v
            /\ \A q \in DOMAIN map : q # p => m2[q] = map[q]
        BY <3>3 DEF Env!With
      <3> HIDE DEF map2
      <3> QED
        BY <3>1, <3>2, <3>4
    <2> HIDE DEF map2
    <2>8. DOMAIN map2 = {k \in EnvParams : KeyLinesOf(c, m + 1, k) # {}}
      BY <1>8, <2>2, <2>3, <2>6, <2>7 DEF Parsed
    <2>9. \A k \in DOMAIN map2 : <<p>> = <<k>> <=> GoesOn(c, LastOf(c, m + 1, k), m + 1)
      BY <1>4, <1>7, <1>9, <2>2, <2>3, <2>4, <2>7
    <2>10. \A k \in DOMAIN map2 : map2[k] = ValueOf(c, LastOf(c, m + 1, k), m + 1)
      <3> TAKE k \in DOMAIN map2
      <3>1. CASE k = p
        BY <2>2, <2>5, <2>7, <3>1
      <3>2. CASE k # p
        <4>1. k \in DOMAIN map /\ map2[k] = map[k]
          BY <2>7, <3>2
        <4>2. ValueOf(c, L(k), m + 1) = ValueOf(c, L(k), m)
          BY <1>7, <1>9, <4>1
        <4>3. map[k] = ValueOf(c, L(k), m)
          BY <1>8, <4>1 DEF Parsed, L
        <4> QED
          BY <2>3, <3>2, <4>1, <4>2, <4>3
      <3> QED
        BY <3>1, <3>2
    <2>11. \A k \in EnvParams : <<p>> = <<k>> => k \in DOMAIN map2
      BY <1>4, <2>7
    <2>12. Parsed(c, m + 1, <<p>>, map2, FALSE)
      BY <1>9, <1>13, <2>6, <2>8, <2>9, <2>10, <2>11 DEF Parsed
    <2> QED
      BY <2>1, <2>12 DEF next, line
  <1>10. CASE ~over /\ line.kind = "text" /\ at # <<>>
    <2>1. PICK p \in EnvParams : at = <<p>>
      BY <1>8, <1>10 DEF Parsed
    <2> DEFINE map2 == Env!With(map, p, map[p] \o <<"text">>)
    <2>2. at[1] = p
      BY <2>1
    <2>4. next = ParserState(at, map2, FALSE)
      BY <1>2, <1>10, <1>13, <2>2, over = FALSE, ParseText
    <2> HIDE DEF line, next
    <2>5. p \in DOMAIN map
      BY <1>8, <2>1 DEF Parsed
    <2>6. /\ DOMAIN map2 = DOMAIN map \cup {p} /\ map2[p] = map[p] \o <<"text">>
          /\ \A q \in DOMAIN map : q # p => map2[q] = map[q]
      <3>1. PICK v : v = map[p] \o <<"text">>
        OBVIOUS
      <3>2. PICK m2 : m2 = map2
        OBVIOUS
      <3>3. m2 = Env!With(map, p, v)
        BY <3>1, <3>2
      <3>4. /\ DOMAIN m2 = DOMAIN map \cup {p} /\ m2[p] = v
            /\ \A q \in DOMAIN map : q # p => m2[q] = map[q]
        BY <3>3 DEF Env!With
      <3> HIDE DEF map2
      <3> QED
        BY <3>1, <3>2, <3>4
    <2> HIDE DEF map2
    <2>7. DOMAIN map2 = DOMAIN map
      BY <2>5, <2>6
    <2>8. \A k : KeyLinesOf(c, m + 1, k) = KeyLinesOf(c, m, k) /\ LastOf(c, m + 1, k) = L(k)
      BY <1>6, <1>10
    <2>9. \A k \in DOMAIN map : at = <<k>> <=> GoesOn(c, L(k), m)
      BY <1>8 DEF Parsed, L
    <2>10. \A k \in DOMAIN map : map[k] = ValueOf(c, L(k), m)
      BY <1>8 DEF Parsed, L
    <2>11. \A k \in DOMAIN map2 : at = <<k>> <=> GoesOn(c, LastOf(c, m + 1, k), m + 1)
      BY <1>7, <1>10, <2>7, <2>8, <2>9
    <2>12. \A k \in DOMAIN map : GoesOn(c, L(k), m) <=> k = p
      BY <1>4, <2>1, <2>9
    <2>13. \A k \in DOMAIN map2 : map2[k] = ValueOf(c, LastOf(c, m + 1, k), m + 1)
      BY <1>7, <1>10, <2>5, <2>6, <2>7, <2>8, <2>10, <2>12
    <2>14. Parsed(c, m + 1, at, map2, FALSE)
      BY <1>8, <1>10, <1>13, <2>7, <2>8, <2>11, <2>13 DEF Parsed
    <2> QED
      BY <2>4, <2>14 DEF next, line
  <1>11. CASE ~over /\ line.kind \in {"blank", "sentry"}
    <2>2. PICK over2 \in BOOLEAN :
            next = ParserState(<<>>, map, over2) /\ (over2 <=> line.kind = "sentry")
      <3>1. over = FALSE
        BY <1>11, <1>13
      <3>2. next = Env!ParseLine(ParserState(at, map, FALSE), line)
        BY <3>1
      <3>3. /\ line.kind = "blank" => next = ParserState(<<>>, map, FALSE)
            /\ line.kind = "sentry" => next = ParserState(<<>>, map, TRUE)
        BY <3>2, ParseEnd
      <3> HIDE DEF line, next
      <3> QED
        BY <1>11, <3>3
    <2>9. over2 = IsOver(c, m + 1)
      BY <1>11, <1>13, <2>2
    <2> HIDE DEF line, next
    <2>3. \A k : KeyLinesOf(c, m + 1, k) = KeyLinesOf(c, m, k) /\ LastOf(c, m + 1, k) = L(k)
      BY <1>6, <1>11
    <2>4. \A k \in DOMAIN map : map[k] = ValueOf(c, L(k), m)
      BY <1>8 DEF Parsed, L
    <2>5. \A k \in DOMAIN map : ~GoesOn(c, LastOf(c, m + 1, k), m + 1)
      BY <1>7, <1>11, <2>3
    <2>6. \A k \in DOMAIN map : map[k] = ValueOf(c, LastOf(c, m + 1, k), m + 1)
      BY <1>7, <1>11, <2>3, <2>4
    <2>7. Parsed(c, m + 1, <<>>, map, over2)
      BY <1>5, <1>8, <2>3, <2>5, <2>6, <2>9 DEF Parsed
    <2> QED
      BY <2>2, <2>7 DEF next, line
  <1>12. CASE over \/ line.kind = "comment" \/ (line.kind = "text" /\ at = <<>>)
    <2>1. next = ParserState(at, map, over)
      <3>1. over \in BOOLEAN
        BY <1>13
      <3> HIDE DEF line
      <3> QED
        BY <1>12, <3>1, ParseOn DEF next
    <2>8. over = IsOver(c, m + 1) /\ (over => at = <<>>)
      BY <1>8, <1>12, <1>13 DEF Parsed
    <2> HIDE DEF line, next
    <2>2. \A k : KeyLinesOf(c, m + 1, k) = KeyLinesOf(c, m, k) /\ LastOf(c, m + 1, k) = L(k)
      BY <1>6, <1>12
    <2>3. \A k \in DOMAIN map : at = <<k>> <=> GoesOn(c, L(k), m)
      BY <1>8 DEF Parsed, L
    <2>4. \A k \in DOMAIN map : map[k] = ValueOf(c, L(k), m)
      BY <1>8 DEF Parsed, L
    <2>5. \A k \in DOMAIN map : at = <<k>> <=> GoesOn(c, LastOf(c, m + 1, k), m + 1)
      BY <1>5, <1>7, <1>12, <2>2, <2>3, <2>8
    <2>6. \A k \in DOMAIN map : map[k] = ValueOf(c, LastOf(c, m + 1, k), m + 1)
      BY <1>5, <1>7, <1>12, <2>2, <2>3, <2>4, <2>8
    <2>7. Parsed(c, m + 1, at, map, over)
      BY <1>8, <2>2, <2>5, <2>6, <2>8 DEF Parsed
    <2> QED
      BY <2>1, <2>7 DEF next, line
  <1> QED
    BY <1>2, <1>9, <1>10, <1>11, <1>12

\* After the last line a file of n lines is parsed.
LEMMA AllLinesParsed ==
  ASSUME NEW n \in Nat, NEW c, IsFile(c, n), NEW st, ParseStates(c, n, st)
  PROVE  \E at, map, over : st[n] = ParserState(at, map, over) /\ Parsed(c, n, at, map, over)
  <1> DEFINE After(m) == \E at, map, over : st[m] = ParserState(at, map, over) /\ Parsed(c, m, at, map, over)
             N == {m \in Nat : m <= n => After(m)}
  <1>1. After(0)
    <2>1. st[0] = ParserState(<<>>, <<>>, FALSE)
      BY DEF ParseStates, ParserAtStart, ParserState
    <2>2. IsOver(c, 0) = FALSE /\ \A k : KeyLinesOf(c, 0, k) = {}
      BY 1 .. 0 = {} DEF KeyLinesOf, IsOver
    <2>3. DOMAIN <<>> = {} /\ \A x : <<>> # <<x>>
      OBVIOUS
    <2>4. Parsed(c, 0, <<>>, <<>>, FALSE)
      BY <2>2, <2>3 DEF Parsed
    <2> QED
      BY <2>1, <2>4
  <1> HIDE DEF After
  <1>2. 0 \in N
    BY <1>1
  <1>3. ASSUME NEW m \in N \cap Nat PROVE m + 1 \in N
    <2> SUFFICES ASSUME m + 1 <= n PROVE After(m + 1)
      OBVIOUS
    <2>1. m \in 0 .. n - 1 /\ m <= n
      OBVIOUS
    <2>2. PICK at, map, over : st[m] = ParserState(at, map, over) /\ Parsed(c, m, at, map, over)
      BY <2>1 DEF After
    <2>3. PICK at2, map2, over2 :
            /\ Env!ParseLine(ParserState(at, map, over), c[m + 1]) = ParserState(at2, map2, over2)
            /\ Parsed(c, m + 1, at2, map2, over2)
      BY <2>1, <2>2, LineParsed
    <2>4. st[m + 1] = Env!ParseLine(st[m], c[m + 1])
      BY <2>1 DEF ParseStates
    <2> QED
      BY <2>2, <2>3, <2>4 DEF After
  <1> HIDE DEF N
  <1>4. n \in N
    BY <1>2, <1>3, InductFromZero
  <1>5. After(n)
    BY <1>4 DEF N
  <1> QED
    BY <1>5 DEF After

\* The files of the assumption have that form.
LEMMA FilesOfAssumption ==
  ASSUME NEW f \in EnvContents \cup EnvOthers, NEW c, c = f.lines
  PROVE  /\ f.ended \in BOOLEAN /\ (f.ended \/ Len(c) > 0)
         /\ c \in Seq(Env!Lines)
         /\ \E n \in Nat : IsFile(c, n)
  <1>1. /\ c \in Seq(Env!Lines)
        /\ f.ended \in BOOLEAN /\ (f.ended \/ Len(c) > 0)
        /\ \A i \in DOMAIN c :
             \/ c[i] \in {Env!Blank, Env!Comment, Env!Text, Env!Sentry}
             \/ c[i].kind = "key" /\ c[i].key \in EnvParams
    BY EnvAssumption DEF Env!EnvVarAssumption
  <1>2. PICK n \in Nat : DOMAIN c = 1 .. n /\ \A i \in 1 .. n : c[i] \in Env!Lines
    <2>1. Len(c) \in Nat /\ DOMAIN c = 1 .. Len(c) /\ \A i \in 1 .. Len(c) : c[i] \in Env!Lines
      BY <1>1
    <2> QED
      BY <2>1
  <1>3. ASSUME NEW i \in 1 .. n
        PROVE  /\ c[i].kind \in {"blank", "comment", "text", "sentry", "key"}
               /\ c[i].kind = "key" => c[i].key \in EnvParams
               /\ c[i].kind = "text" => c[i].value = <<"text">>
               /\ c[i].value \in Seq(Strings)
    <2>1. c[i] \in Env!Lines
      BY <1>2
    <2>2. c[i].kind \in {"blank", "comment", "text", "sentry", "key"} /\ c[i].value \in Seq(STRING)
      BY <2>1 DEF Env!Lines
    <2>3. c[i].value \in Seq(Strings)
      <3>1. PICK v \in Seq(STRING) : v = c[i].value
        BY <2>2
      <3>2. Len(v) \in Nat /\ v \in [1 .. Len(v) -> STRING]
        OBVIOUS
      <3>3. v \in [1 .. Len(v) -> Strings]
        BY <3>2 DEF Strings
      <3>4. v \in Seq(Strings)
        <4> HIDE DEF Strings
        <4> QED
          BY <3>2, <3>3
      <3> QED
        BY <3>1, <3>4
    <2>4. /\ c[i] = Env!Blank \/ c[i] = Env!Comment \/ c[i] = Env!Text \/ c[i] = Env!Sentry
               \/ (c[i].kind = "key" /\ c[i].key \in EnvParams)
      BY <1>1, <1>2
    <2>5. /\ Env!Blank.kind = "blank" /\ Env!Comment.kind = "comment"
          /\ Env!Text.kind = "text" /\ Env!Text.value = <<"text">>
          /\ Env!Sentry.kind = "sentry"
      BY DEF Env!Blank, Env!Comment, Env!Text, Env!Sentry
    <2> QED
      BY <2>2, <2>3, <2>4, <2>5
  <1>4. IsFile(c, n)
    BY <1>2, <1>3 DEF IsFile
  <1> QED
    BY <1>1, <1>4

\* The lines the parser reads: those of the file, of which the last may be there again.
LEMMA LinesOfFile ==
  ASSUME NEW f \in EnvContents \cup EnvOthers, NEW ls, ls = f.lines, NEW c, c = Env!LinesRead(f)
  PROVE  \E n \in Nat :
           /\ IsFile(ls, n)
           /\ \/ /\ c = ls
                 /\ f.ended \/ (n > 0 /\ ls[n].kind # "text")
              \/ /\ ~f.ended /\ n > 0 /\ ls[n].kind = "text"
                 /\ IsFile(c, n + 1) /\ c[n + 1] = ls[n] /\ \A i \in 1 .. n : c[i] = ls[i]
  <1>1. /\ f.ended \in BOOLEAN /\ (f.ended \/ Len(ls) > 0)
        /\ ls \in Seq(Env!Lines)
    BY FilesOfAssumption
  <1>2. PICK n \in Nat : IsFile(ls, n)
    BY FilesOfAssumption
  <1>3. Len(ls) = n
    <2>1. Len(ls) \in Nat /\ DOMAIN ls = 1 .. Len(ls)
      BY <1>1
    <2> QED
      BY <1>2, <2>1 DEF IsFile
  <1>4. ~f.ended => n > 0
    BY <1>1, <1>3
  <1>5. CASE f.ended \/ ls[n].kind # "text"
    <2>1. c = ls
      BY <1>3, <1>5 DEF Env!LinesRead, Env!Last
    <2> QED
      BY <1>2, <1>4, <1>5, <2>1
  <1>6. CASE ~f.ended /\ ls[n].kind = "text"
    <2>1. c = Append(ls, ls[n])
      BY <1>3, <1>6 DEF Env!LinesRead, Env!Last
    <2>2. n \in 1 .. n /\ ls[n] \in Env!Lines
      BY <1>1, <1>3, <1>4, <1>6
    <2>3. DOMAIN c = 1 .. n + 1 /\ c[n + 1] = ls[n] /\ \A i \in 1 .. n : c[i] = ls[i]
      BY <1>1, <1>3, <2>1, <2>2
    <2>4. \A i \in 1 .. n + 1 : \E k \in 1 .. n : c[i] = ls[k]
      <3>1. \A i \in 1 .. n + 1 : i \in 1 .. n \/ i = n + 1
        OBVIOUS
      <3> QED
        BY <2>2, <2>3, <3>1
    <2>5. IsFile(c, n + 1)
      BY <1>2, <2>3, <2>4 DEF IsFile
    <2> QED
      BY <1>2, <1>4, <1>6, <2>3, <2>5
  <1> QED
    BY <1>5, <1>6

\* The last text again is one more text of the value that it belongs to, if there is one.
LEMMA TextAgain ==
  ASSUME NEW ls, NEW n \in Nat, n > 0, ls[n].kind = "text",
         NEW c, c[n + 1] = ls[n], \A i \in 1 .. n : c[i] = ls[i],
         NEW k, KeyLinesOf(ls, n, k) # {}
  PROVE  /\ KeyLinesOf(c, n + 1, k) = KeyLinesOf(ls, n, k)
         /\ Cardinality(TextsOf(c, LastOf(ls, n, k), n + 1)) =
              Cardinality(TextsOf(ls, LastOf(ls, n, k), n))
                + (IF n \in TextsOf(ls, LastOf(ls, n, k), n) THEN 1 ELSE 0)
  <1>1. \A i \in 1 .. n : IsOver(c, i) <=> IsOver(ls, i)
    <2>1. \A i \in 1 .. n : 1 .. i \subseteq 1 .. n
      OBVIOUS
    <2> QED
      BY <2>1 DEF IsOver
  <1>2. KeyLinesOf(c, n, k) = KeyLinesOf(ls, n, k)
    BY <1>1 DEF KeyLinesOf
  <1>3. KeyLinesOf(c, n + 1, k) = KeyLinesOf(ls, n, k)
    BY <1>2, OtherLine
  <1>4. PICK l \in 1 .. n : l = LastOf(ls, n, k)
    BY LastIs
  <1>5. /\ \A j \in 1 .. n : GoesOn(c, l, j) <=> GoesOn(ls, l, j)
    <2>1. \A j \in 1 .. n : l + 1 .. j \subseteq 1 .. n
      BY <1>4
    <2> QED
      BY <2>1 DEF GoesOn
  <1>6. TextsOf(c, l, n) = TextsOf(ls, l, n)
    BY <1>5 DEF TextsOf
  <1>7. l # n
    <2>1. l \in KeyLinesOf(ls, n, k)
      <3>1. KeyLinesOf(ls, n, k) \in SUBSET (1 .. n)
        BY DEF KeyLinesOf
      <3> QED
        BY <1>4, <3>1, MaxOfNumbers DEF LastOf
    <2>2. ls[l].kind = "key"
      BY <2>1 DEF KeyLinesOf
    <2> QED
      BY <2>2
  <1>8. n \in TextsOf(ls, l, n) <=> GoesOn(c, l, n)
    BY <1>4, <1>5, <1>7 DEF TextsOf
  <1>9. l \in 0 .. n /\ c[n + 1].kind = "text"
    BY <1>4
  <1>10. /\ ~GoesOn(c, l, n) => TextsOf(c, l, n + 1) = TextsOf(c, l, n)
         /\ GoesOn(c, l, n) => TextsOf(c, l, n + 1) = TextsOf(c, l, n) \cup {n + 1}
    BY <1>9, NextLine
  <1>11. /\ IsFiniteSet(TextsOf(c, l, n)) /\ Cardinality(TextsOf(c, l, n)) \in Nat
         /\ n + 1 \notin TextsOf(c, l, n)
    BY TextsAreFinite
  <1>12. GoesOn(c, l, n) => Cardinality(TextsOf(c, l, n + 1)) = Cardinality(TextsOf(c, l, n)) + 1
    BY <1>10, <1>11, FS_AddElement
  <1> QED
    BY <1>3, <1>4, <1>6, <1>8, <1>10, <1>11, <1>12

LEMMA EveryFileIsParsed ==
  ASSUME evFile \in EnvContents \cup EnvOthers, evContents = Env!Parse(evFile)
  PROVE  Env!FileIsParsed
  <1>1. PICK ls, c : ls = evFile.lines /\ c = Env!LinesRead(evFile)
    OBVIOUS
  <1>2. PICK n \in Nat :
           /\ IsFile(ls, n)
           /\ \/ /\ c = ls
                 /\ evFile.ended \/ (n > 0 /\ ls[n].kind # "text")
              \/ /\ ~evFile.ended /\ n > 0 /\ ls[n].kind = "text"
                 /\ IsFile(c, n + 1) /\ c[n + 1] = ls[n] /\ \A i \in 1 .. n : c[i] = ls[i]
    BY <1>1, LinesOfFile
  <1>3. DOMAIN ls = 1 .. n /\ Len(ls) = n
    <2>1. ls \in Seq(Env!Lines)
      BY <1>1, FilesOfAssumption
    <2>2. Len(ls) \in Nat /\ DOMAIN ls = 1 .. Len(ls)
      BY <2>1
    <2> QED
      BY <1>2, <2>2 DEF IsFile
  <1> DEFINE Again(l) == IF n \in TextsOf(ls, l, n) /\ ~evFile.ended THEN 1 ELSE 0
             Lst(k) == LastOf(ls, n, k)
  \* The parser's last state is about the lines it has read.
  <1>4. PICK m, map :
          /\ m \in Nat /\ evContents = map
          /\ DOMAIN map = {k \in EnvParams : KeyLinesOf(c, m, k) # {}}
          /\ \A k \in DOMAIN map : map[k] = ValueOf(c, LastOf(c, m, k), m)
          /\ \A k : KeyLinesOf(ls, n, k) # {} =>
               /\ Cardinality(TextsOf(c, Lst(k), m)) = Cardinality(TextsOf(ls, Lst(k), n)) + Again(Lst(k))
               /\ c[Lst(k)] = ls[Lst(k)]
          /\ \A k : KeyLinesOf(c, m, k) = KeyLinesOf(ls, n, k)
    <2>1. ASSUME NEW m \in Nat, IsFile(c, m)
          PROVE  \E map : /\ evContents = map
                          /\ DOMAIN map = {k \in EnvParams : KeyLinesOf(c, m, k) # {}}
                          /\ \A k \in DOMAIN map : map[k] = ValueOf(c, LastOf(c, m, k), m)
      <3>1. PICK st : ParseStates(c, m, st) /\ Env!Parse(evFile) = st[m].map
        BY <1>1, <2>1, ParseSteps DEF IsFile
      <3>2. PICK at, map, over : st[m] = ParserState(at, map, over) /\ Parsed(c, m, at, map, over)
        BY <2>1, <3>1, AllLinesParsed
      <3>3. evContents = map
        BY <3>1, <3>2 DEF ParserState
      <3> QED
        BY <3>2, <3>3 DEF Parsed
    <2>2. CASE c = ls /\ (evFile.ended \/ (n > 0 /\ ls[n].kind # "text"))
      <3>1. \A k : Again(Lst(k)) = 0
        BY <2>2 DEF TextsOf
      <3>2. \A k : Cardinality(TextsOf(ls, Lst(k), n)) \in Nat
        BY TextsAreFinite
      <3>3. \A k : Cardinality(TextsOf(ls, Lst(k), n)) = Cardinality(TextsOf(ls, Lst(k), n)) + Again(Lst(k))
        <4> HIDE DEF Again, Lst
        <4> QED
          BY <3>1, <3>2
      <3>4. PICK map : /\ evContents = map
                       /\ DOMAIN map = {k \in EnvParams : KeyLinesOf(c, n, k) # {}}
                       /\ \A k \in DOMAIN map : map[k] = ValueOf(c, LastOf(c, n, k), n)
        BY <1>2, <2>1, <2>2
      <3> HIDE DEF Again, Lst
      <3> QED
        BY <2>2, <3>3, <3>4
    <2>3. CASE /\ ~evFile.ended /\ n > 0 /\ ls[n].kind = "text"
               /\ IsFile(c, n + 1) /\ c[n + 1] = ls[n] /\ \A i \in 1 .. n : c[i] = ls[i]
      <3>1. n + 1 \in Nat
        OBVIOUS
      <3>2. \A k : KeyLinesOf(ls, n, k) # {} =>
              /\ KeyLinesOf(c, n + 1, k) = KeyLinesOf(ls, n, k)
              /\ Cardinality(TextsOf(c, Lst(k), n + 1)) = Cardinality(TextsOf(ls, Lst(k), n)) + Again(Lst(k))
        BY <2>3, TextAgain
      <3>3. \A k : KeyLinesOf(ls, n, k) # {} => c[Lst(k)] = ls[Lst(k)]
        BY <2>3, LastIs
      <3>4. \A k : KeyLinesOf(c, n + 1, k) = KeyLinesOf(ls, n, k)
        <4>1. \A i \in 1 .. n : IsOver(c, i) <=> IsOver(ls, i)
          <5>1. \A i \in 1 .. n : 1 .. i \subseteq 1 .. n
            OBVIOUS
          <5> QED
            BY <2>3, <5>1 DEF IsOver
        <4>2. \A k : KeyLinesOf(c, n, k) = KeyLinesOf(ls, n, k)
          BY <2>3, <4>1 DEF KeyLinesOf
        <4> QED
          BY <2>3, <4>2, OtherLine
      <3> HIDE DEF Again, Lst
      <3> QED
        BY <2>1, <2>3, <3>1, <3>2, <3>3, <3>4
    <2> QED
      BY <1>2, <2>2, <2>3
  <1>7. \A k : Env!KeyLines(k) = KeyLinesOf(ls, n, k)
    BY <1>1, <1>3 DEF Env!KeyLines, KeyLinesOf, IsOver
  <1>8. ASSUME NEW k, KeyLinesOf(ls, n, k) # {}
        PROVE  Env!LastValue(k) = ValueOf(c, LastOf(c, m, k), m)
    <2>1. PICK l : l = LastOf(ls, n, k)
      OBVIOUS
    <2> DEFINE goesOn == {j \in DOMAIN evFile.lines :
                            j > l /\ \A i \in l + 1 .. j : evFile.lines[i].kind \in {"text", "comment"}}
               texts == {j \in goesOn : evFile.lines[j].kind = "text"}
               again == IF Len(evFile.lines) \in texts /\ ~evFile.ended THEN 1 ELSE 0
    <2>2. texts = TextsOf(ls, l, n)
      BY <1>1, <1>3 DEF TextsOf, GoesOn
    <2>3. l = Env!Max(Env!KeyLines(k))
      BY <1>7, <2>1 DEF LastOf
    <2>4. Env!LastValue(k) = evFile.lines[l].value \o [i \in 1 .. Env!Cardinality(texts) + again |-> "text"]
      BY <2>3 DEF Env!LastValue
    <2>5. again = Again(l)
      BY <1>1, <1>3, <2>2
    <2> HIDE DEF texts, again, Again
    <2>6. Env!Cardinality(texts) + again = Cardinality(TextsOf(c, l, m))
      BY <1>4, <1>8, <2>1, <2>2, <2>5, SameCardinality
    <2>7. l = LastOf(c, m, k)
      BY <1>4, <2>1 DEF LastOf
    <2>8. Env!LastValue(k) = ValueOf(c, l, m)
      BY <1>1, <1>4, <1>8, <2>1, <2>4, <2>6 DEF ValueOf, TextOf
    <2> QED
      BY <2>7, <2>8
  <1> QED
    BY <1>4, <1>7, <1>8 DEF Env!FileIsParsed

\* However many lines a configuration file has, and in whatever order: a key has the value
\* of its last line before the sentry, with the text up to the next blank line, key or
\* sentry, where the text at the end of a file without a last newline counts twice
\* (ConfigFile's operator>>).
THEOREM FileAlwaysParsed == Spec => []FileIsParsed
  <1> DEFINE Inv == Is("env") => /\ evFile \in EnvContents \cup EnvOthers
                                 /\ evContents = Env!Parse(evFile)
  <1>1. Init => Inv
    BY DEF Init, Is, Env!Init
  <1>2. Inv => FileIsParsed
    BY EveryFileIsParsed DEF Is, FileIsParsed
  <1>3. Inv /\ [Next]_vars => Inv'
    <2> SUFFICES ASSUME evFile \in EnvContents \cup EnvOthers, evContents = Env!Parse(evFile),
                        [Next]_vars, Is("env")
                 PROVE  evFile' \in EnvContents \cup EnvOthers /\ evContents' = Env!Parse(evFile')
      BY SubjectStays
    <2>1. Env!Next \/ UNCHANGED <<evFile, evContents>>
      BY DEF Next, vars, evVars, ThreadsStep, QueueStep, TuplesStep, ScanStep, IndexStep,
         SkewedStep, EnvStep, WorkStep, CodecStep, Is
    <2>2. CASE UNCHANGED <<evFile, evContents>>
      BY <2>2
    <2>3. CASE Env!SetConfFile
      BY <2>3 DEF Env!SetConfFile
    <2>4. CASE Env!Next /\ ~Env!SetConfFile
      BY <2>4 DEF Env!Next, Env!GetVar, Env!SetVar, Env!RefreshVars
    <2> QED
      BY <2>1, <2>2, <2>3, <2>4
  <1> HIDE DEF Inv
  <1> QED
    BY <1>1, <1>2, <1>3, PTL DEF Spec

=============================================================================
