--------------------------- MODULE TpcbXctProofs ---------------------------
(***************************************************************************)
(* What holds of the TPC-B transactions for any number of workers, any     *)
(* scaling factors, any deltas and however many requests are served.       *)
(*                                                                         *)
(* The counters of the threads are summed with MapThenSumSet: the first    *)
(* lemmas say what this recursive function of the community modules        *)
(* computes.                                                               *)
(***************************************************************************)
EXTENDS TpcbXct, FiniteSetTheorems, WellFoundedInduction, TLAPS

-----------------------------------------------------------------------------
(***************************************************************************)
(* Induction over naturals and over finite sets, for a set of numbers and  *)
(* a set of sets.                                                          *)
(***************************************************************************)

\* A set of naturals that is not empty has a least member.
LEMMA NatMin ==
  ASSUME NEW T \in SUBSET Nat, T # {}
  PROVE  \E x \in T : \A y \in T : x <= y
  <1>1. PICK x \in T : \A y \in T : ~(<<y, x>> \in OpToRel(<, Nat))
    BY NatLessThanWellFounded, WFMin
  <1>2. \A y \in T : ~(y < x)
    BY <1>1 DEF OpToRel
  <1> QED
    BY <1>2

LEMMA NatInduct ==
  ASSUME NEW N \in SUBSET Nat, 0 \in N, \A n \in N : n + 1 \in N
  PROVE  N = Nat
  <1> DEFINE T == Nat \ N
  <1>1. SUFFICES ASSUME T # {} PROVE FALSE
    OBVIOUS
  <1>2. PICK m \in T : \A y \in T : m <= y
    BY <1>1, NatMin
  <1>3. m # 0 /\ m - 1 \in Nat /\ m - 1 < m
    BY <1>2
  <1>4. m - 1 \in N
    BY <1>2, <1>3
  <1>5. (m - 1) + 1 \in N
    BY <1>4
  <1> QED
    BY <1>2, <1>3, <1>5

\* The member of a set that MapThenSumSet takes first.
Pick(s) == CHOOSE x \in s : TRUE

LEMMA PickIn ==
  ASSUME NEW s, s # {}
  PROVE  Pick(s) \in s
  BY DEF Pick

LEMMA SetInduct ==
  ASSUME NEW S, IsFiniteSet(S), NEW P, {} \in P,
         \A s \in SUBSET S : s # {} /\ s \ {Pick(s)} \in P => s \in P
  PROVE  SUBSET S \subseteq P
  <1> DEFINE N == {n \in Nat : \A s \in SUBSET S : Cardinality(s) <= n => s \in P}
  <1>1. \A s \in SUBSET S : IsFiniteSet(s) /\ Cardinality(s) \in Nat
    BY FS_Subset, FS_CardinalityType
  <1>2. 0 \in N
    <2>1. ASSUME NEW s \in SUBSET S, Cardinality(s) <= 0 PROVE s = {}
      BY <1>1, <2>1, FS_EmptySet
    <2> QED
      BY <2>1
  <1>3. ASSUME NEW n \in N PROVE n + 1 \in N
    <2> SUFFICES ASSUME NEW s \in SUBSET S, Cardinality(s) <= n + 1, s # {}
                 PROVE  s \in P
      OBVIOUS
    <2>1. Pick(s) \in s /\ IsFiniteSet(s) /\ Cardinality(s) \in Nat
      BY <1>1, PickIn
    <2>2. Cardinality(s \ {Pick(s)}) = Cardinality(s) - 1
      BY <2>1, FS_RemoveElement
    <2>3. s \ {Pick(s)} \in P
      BY <1>3, <2>1, <2>2
    <2> QED
      BY <2>3
  <1>4. N = Nat
    <2> HIDE DEF N
    <2>1. N \in SUBSET Nat
      BY DEF N
    <2> QED
      BY <1>2, <1>3, <2>1, NatInduct
  <1> QED
    BY <1>1, <1>4

-----------------------------------------------------------------------------
(***************************************************************************)
(* The sum of a function over a finite set, as MapThenSumSet computes it.  *)
(***************************************************************************)
SumBody(f, g, s) == IF s = {} THEN 0 ELSE f[Pick(s)] + g[s \ {Pick(s)}]
SumRec(f, S, g) == g = [s \in SUBSET S |-> SumBody(f, g, s)]
SumOf(f, S) == (CHOOSE g : SumRec(f, S, g))[S]

\* What such a function says, step by step.
IsSum(f, S, g) ==
  /\ SumRec(f, S, g) /\ SumOf(f, S) = g[S]
  /\ g[{}] = 0
  /\ \A s \in SUBSET S : s # {} => /\ Pick(s) \in S /\ Pick(s) \in s
                                   /\ s \ {Pick(s)} \in SUBSET S
                                   /\ g[s] = f[Pick(s)] + g[s \ {Pick(s)}]

\* The recursive function is there.
LEMMA SumExists ==
  ASSUME NEW f, NEW S, IsFiniteSet(S)
  PROVE  \E g : SumRec(f, S, g)
  <1> DEFINE Small(n) == {s \in SUBSET S : Cardinality(s) <= n}
             N == {n \in Nat : \E g : g = [s \in Small(n) |-> SumBody(f, g, s)]}
  <1>1. \A s \in SUBSET S : IsFiniteSet(s) /\ Cardinality(s) \in Nat
    BY FS_Subset, FS_CardinalityType
  <1>2. 0 \in N
    <2> DEFINE g == [s \in Small(0) |-> 0]
    <2>1. \A s \in Small(0) : s = {}
      BY <1>1, FS_EmptySet
    <2>2. \A s \in Small(0) : SumBody(f, g, s) = 0
      BY <2>1 DEF SumBody
    <2>3. g = [s \in Small(0) |-> SumBody(f, g, s)]
      BY <2>2
    <2> QED
      BY <2>3
  <1>3. ASSUME NEW n \in N PROVE n + 1 \in N
    <2>1. PICK g : g = [s \in Small(n) |-> SumBody(f, g, s)]
      OBVIOUS
    <2> DEFINE h == [s \in Small(n + 1) |-> SumBody(f, g, s)]
    <2>2. \A s \in Small(n) : s \in Small(n + 1)
      BY <1>1
    <2>3. \A s \in Small(n) : h[s] = g[s]
      BY <2>1, <2>2
    <2>4. ASSUME NEW s \in Small(n + 1), s # {}
          PROVE  s \ {Pick(s)} \in Small(n)
      <3>1. Pick(s) \in s /\ IsFiniteSet(s) /\ Cardinality(s) \in Nat
        BY <1>1, <2>4, PickIn
      <3>2. Cardinality(s \ {Pick(s)}) = Cardinality(s) - 1
        BY <3>1, FS_RemoveElement
      <3> QED
        BY <3>1, <3>2
    <2> HIDE DEF Small, h
    <2>5. \A s \in Small(n + 1) : SumBody(f, h, s) = SumBody(f, g, s)
      BY <2>3, <2>4 DEF SumBody
    <2>6. h = [s \in Small(n + 1) |-> SumBody(f, h, s)]
      BY <2>5 DEF h
    <2>7. n + 1 \in Nat
      BY <1>3
    <2> QED
      BY <2>6, <2>7
  <1>4. N = Nat
    <2> HIDE DEF N
    <2>1. N \in SUBSET Nat
      BY DEF N
    <2> QED
      BY <1>2, <1>3, <2>1, NatInduct
  <1>5. Cardinality(S) \in Nat /\ Small(Cardinality(S)) = SUBSET S
    BY <1>1, FS_Subset
  <1>6. Cardinality(S) \in N
    BY <1>4, <1>5
  <1> QED
    BY <1>5, <1>6 DEF SumRec

\* There is only one.
LEMMA SumUnique ==
  ASSUME NEW f, NEW S, IsFiniteSet(S), NEW g, SumRec(f, S, g), NEW h, SumRec(f, S, h)
  PROVE  g[S] = h[S]
  <1> DEFINE P == {s \in SUBSET S : g[s] = h[s]}
  <1>1. \A s \in SUBSET S : g[s] = SumBody(f, g, s) /\ h[s] = SumBody(f, h, s)
    BY DEF SumRec
  <1>2. {} \in P
    BY <1>1 DEF SumBody
  <1>3. \A s \in SUBSET S : s # {} /\ s \ {Pick(s)} \in P => s \in P
    BY <1>1 DEF SumBody
  <1>4. SUBSET S \subseteq P
    <2> HIDE DEF P
    <2> QED
      BY <1>2, <1>3, SetInduct
  <1> QED
    BY <1>4

\* What the sum is of.
LEMMA SumIs ==
  ASSUME NEW f, NEW S, IsFiniteSet(S)
  PROVE  \E g : IsSum(f, S, g)
  <1> DEFINE g == CHOOSE g : SumRec(f, S, g)
  <1>1. SumRec(f, S, g)
    BY SumExists
  <1>2. SumOf(f, S) = g[S]
    BY DEF SumOf
  <1> HIDE DEF g
  <1>3. \A s \in SUBSET S : g[s] = SumBody(f, g, s)
    BY <1>1 DEF SumRec
  <1>4. g[{}] = 0
    BY <1>3 DEF SumBody
  <1>5. \A s \in SUBSET S : s # {} => /\ Pick(s) \in S /\ Pick(s) \in s
                                      /\ s \ {Pick(s)} \in SUBSET S
                                      /\ g[s] = f[Pick(s)] + g[s \ {Pick(s)}]
    BY <1>3, PickIn DEF SumBody
  <1> QED
    BY <1>1, <1>2, <1>4, <1>5 DEF IsSum

LEMMA SumType ==
  ASSUME NEW S, IsFiniteSet(S), NEW f \in [S -> Int]
  PROVE  SumOf(f, S) \in Int
  <1>1. PICK g : IsSum(f, S, g)
    BY SumIs
  <1> DEFINE P == {s \in SUBSET S : g[s] \in Int}
  <1>2. {} \in P
    BY <1>1 DEF IsSum
  <1>3. \A s \in SUBSET S : s # {} /\ s \ {Pick(s)} \in P => s \in P
    BY <1>1 DEF IsSum
  <1>4. SUBSET S \subseteq P
    <2> HIDE DEF P
    <2> QED
      BY <1>2, <1>3, SetInduct
  <1> QED
    BY <1>1, <1>4 DEF IsSum

\* A sum of sums, ...
LEMMA SumAdds ==
  ASSUME NEW S, IsFiniteSet(S), NEW f \in [S -> Int], NEW h \in [S -> Int],
         NEW k \in [S -> Int], \A x \in S : k[x] = f[x] + h[x]
  PROVE  SumOf(k, S) = SumOf(f, S) + SumOf(h, S)
    <1>1. PICK a : IsSum(f, S, a)
    BY SumIs
  <1>2. PICK b : IsSum(h, S, b)
    BY SumIs
  <1>3. PICK c : IsSum(k, S, c)
    BY SumIs
  <1> DEFINE P == {s \in SUBSET S : a[s] \in Int /\ b[s] \in Int /\ c[s] = a[s] + b[s]}
  <1>4. {} \in P
    BY <1>1, <1>2, <1>3 DEF IsSum
  <1>5. ASSUME NEW s \in SUBSET S, s # {}, s \ {Pick(s)} \in P
        PROVE  s \in P
    <2>1. /\ Pick(s) \in S /\ a[s] = f[Pick(s)] + a[s \ {Pick(s)}]
          /\ b[s] = h[Pick(s)] + b[s \ {Pick(s)}] /\ c[s] = k[Pick(s)] + c[s \ {Pick(s)}]
      BY <1>1, <1>2, <1>3, <1>5 DEF IsSum
    <2>2. f[Pick(s)] \in Int /\ h[Pick(s)] \in Int /\ k[Pick(s)] = f[Pick(s)] + h[Pick(s)]
      BY <2>1
    <2> QED
      BY <1>5, <2>1, <2>2
  <1>6. SUBSET S \subseteq P
    <2> HIDE DEF P
    <2> QED
      BY <1>4, <1>5, SetInduct
  <1> QED
    BY <1>1, <1>2, <1>3, <1>6 DEF IsSum

\* ... of smaller numbers, ...
LEMMA SumMono ==
  ASSUME NEW S, IsFiniteSet(S), NEW f \in [S -> Int], NEW h \in [S -> Int],
         \A x \in S : f[x] <= h[x]
  PROVE  SumOf(f, S) <= SumOf(h, S)
    <1>1. PICK a : IsSum(f, S, a)
    BY SumIs
  <1>2. PICK b : IsSum(h, S, b)
    BY SumIs
  <1> DEFINE P == {s \in SUBSET S : a[s] \in Int /\ b[s] \in Int /\ a[s] <= b[s]}
  <1>4. {} \in P
    BY <1>1, <1>2 DEF IsSum
  <1>5. ASSUME NEW s \in SUBSET S, s # {}, s \ {Pick(s)} \in P
        PROVE  s \in P
    <2>1. /\ Pick(s) \in S /\ a[s] = f[Pick(s)] + a[s \ {Pick(s)}]
          /\ b[s] = h[Pick(s)] + b[s \ {Pick(s)}]
      BY <1>1, <1>2, <1>5 DEF IsSum
    <2>2. f[Pick(s)] \in Int /\ h[Pick(s)] \in Int /\ f[Pick(s)] <= h[Pick(s)]
      BY <2>1
    <2> QED
      BY <1>5, <2>1, <2>2
  <1>6. SUBSET S \subseteq P
    <2> HIDE DEF P
    <2> QED
      BY <1>4, <1>5, SetInduct
  <1> QED
    BY <1>1, <1>2, <1>6 DEF IsSum

\* ... of one number that changes, ...
LEMMA SumChanges ==
  ASSUME NEW S, IsFiniteSet(S), NEW f \in [S -> Int], NEW h \in [S -> Int],
         NEW w \in S, \A x \in S \ {w} : h[x] = f[x]
  PROVE  SumOf(h, S) = SumOf(f, S) + (h[w] - f[w])
  <1> DEFINE d == h[w] - f[w]
  <1>1. PICK a : IsSum(f, S, a)
    BY SumIs
  <1>2. PICK b : IsSum(h, S, b)
    BY SumIs
  <1> DEFINE P == {s \in SUBSET S : /\ a[s] \in Int
                                    /\ w \in s => b[s] = a[s] + d
                                    /\ w \notin s => b[s] = a[s]}
  <1>4. {} \in P
    BY <1>1, <1>2 DEF IsSum
  <1>5. ASSUME NEW s \in SUBSET S, s # {}, s \ {Pick(s)} \in P
        PROVE  s \in P
    <2>1. /\ Pick(s) \in S /\ Pick(s) \in s /\ a[s] = f[Pick(s)] + a[s \ {Pick(s)}]
          /\ b[s] = h[Pick(s)] + b[s \ {Pick(s)}]
      BY <1>1, <1>2, <1>5 DEF IsSum
    <2>2. f[Pick(s)] \in Int /\ f[w] \in Int /\ h[w] \in Int
          /\ (Pick(s) # w => h[Pick(s)] = f[Pick(s)])
      BY <2>1
    <2>3. /\ a[s \ {Pick(s)}] \in Int
          /\ w \in s \ {Pick(s)} => b[s \ {Pick(s)}] = a[s \ {Pick(s)}] + d
          /\ w \notin s \ {Pick(s)} => b[s \ {Pick(s)}] = a[s \ {Pick(s)}]
      BY <1>5
    <2>4. CASE Pick(s) = w
      BY <2>1, <2>2, <2>3, <2>4
    <2>5. CASE Pick(s) # w
      BY <2>1, <2>2, <2>3, <2>5
    <2> QED
      BY <2>4, <2>5
  <1>6. SUBSET S \subseteq P
    <2> HIDE DEF P
    <2> QED
      BY <1>4, <1>5, SetInduct
  <1> QED
    BY <1>1, <1>2, <1>6 DEF IsSum

\* ... and of ones.
LEMMA SumOfOnes ==
  ASSUME NEW S, IsFiniteSet(S), NEW f \in [S -> Int], \A x \in S : f[x] = 1
  PROVE  SumOf(f, S) = Cardinality(S)
  <1>1. PICK g : IsSum(f, S, g)
    BY SumIs
  <1> DEFINE P == {s \in SUBSET S : g[s] = Cardinality(s)}
  <1>2. {} \in P
    BY <1>1, FS_EmptySet DEF IsSum
  <1>3. ASSUME NEW s \in SUBSET S, s # {}, s \ {Pick(s)} \in P
        PROVE  s \in P
    <2>1. IsFiniteSet(s) /\ Cardinality(s) \in Nat /\ Pick(s) \in s /\ Pick(s) \in S
      BY <1>3, FS_Subset, FS_CardinalityType, PickIn
    <2>2. Cardinality(s \ {Pick(s)}) = Cardinality(s) - 1
      BY <2>1, FS_RemoveElement
    <2>3. g[s] = 1 + g[s \ {Pick(s)}]
      BY <1>1, <1>3, <2>1 DEF IsSum
    <2> QED
      BY <1>3, <2>1, <2>2, <2>3
  <1>4. SUBSET S \subseteq P
    <2> HIDE DEF P
    <2> QED
      BY <1>2, <1>3, SetInduct
  <1> QED
    BY <1>1, <1>4 DEF IsSum

LEMMA SumOfZeros ==
  ASSUME NEW S, IsFiniteSet(S), NEW f \in [S -> Int], \A x \in S : f[x] = 0
  PROVE  SumOf(f, S) = 0
  <1>1. SumOf(f, S) = SumOf(f, S) + SumOf(f, S)
    <2>1. \A x \in S : f[x] = f[x] + f[x]
      OBVIOUS
    <2> QED
      BY <2>1, SumAdds
  <1>2. PICK n \in Int : n = SumOf(f, S)
    BY SumType
  <1>3. n = n + n
    BY <1>1, <1>2
  <1>4. n = 0
    BY ONLY n \in Int, <1>3
  <1> QED
    BY <1>2, <1>4

\* The sums of the model.
AttemptedOf(ms) == [w \in Workers |-> ms[w].attempted]
FailedOf(ms) == [w \in Workers |-> ms[w].failed + ms[w].deadlocked]

LEMMA WorkersFinite == IsFiniteSet(Workers) /\ Cardinality(Workers) = NumWorkers
  <1>1. NumWorkers \in Nat \ {0}
    BY TpcbAssumption
  <1>2. 1 \in Int /\ NumWorkers \in Int /\ NumWorkers - 1 + 1 = NumWorkers /\ ~(1 > NumWorkers)
    BY <1>1
  <1> QED
    BY <1>2, FS_Interval DEF Workers

LEMMA AttemptsIsSum == Attempts = SumOf(AttemptedOf(my_stats), Workers)
  <1> DEFINE Eq(g) == g = [s \in SUBSET Workers |->
                        IF s = {} THEN 0
                        ELSE my_stats[CHOOSE x \in s : TRUE].attempted
                               + g[s \ {CHOOSE x \in s : TRUE}]]
  <1>1. Attempts = (CHOOSE g : Eq(g))[Workers]
    BY DEF Attempts, MapThenSumSet, MapThenFoldSet
  <1>2. \A g : Eq(g) <=> SumRec(AttemptedOf(my_stats), Workers, g)
    <2>1. \A s \in SUBSET Workers : s # {} =>
            AttemptedOf(my_stats)[Pick(s)] = my_stats[CHOOSE x \in s : TRUE].attempted
      BY PickIn DEF AttemptedOf, Pick
    <2> QED
      BY <2>1 DEF SumRec, SumBody, Pick
  <1>3. \E g : SumRec(AttemptedOf(my_stats), Workers, g)
    BY SumExists, WorkersFinite
  <1> HIDE DEF Eq
  <1>4. Eq(CHOOSE g : Eq(g))
    BY <1>2, <1>3
  <1>5. SumRec(AttemptedOf(my_stats), Workers, CHOOSE g : Eq(g))
    BY <1>2, <1>4
  <1>6. PICK h : /\ SumRec(AttemptedOf(my_stats), Workers, h)
                 /\ SumOf(AttemptedOf(my_stats), Workers) = h[Workers]
    BY SumIs, WorkersFinite DEF IsSum
  <1> QED
    BY <1>1, <1>5, <1>6, SumUnique, WorkersFinite

LEMMA FailuresIsSum == Failures = SumOf(FailedOf(my_stats), Workers)
  <1> DEFINE Eq(g) == g = [s \in SUBSET Workers |->
                        IF s = {} THEN 0
                        ELSE (my_stats[CHOOSE x \in s : TRUE].failed
                               + my_stats[CHOOSE x \in s : TRUE].deadlocked)
                               + g[s \ {CHOOSE x \in s : TRUE}]]
  <1>1. Failures = (CHOOSE g : Eq(g))[Workers]
    BY DEF Failures, MapThenSumSet, MapThenFoldSet
  <1>2. \A g : Eq(g) <=> SumRec(FailedOf(my_stats), Workers, g)
    <2>1. \A s \in SUBSET Workers : s # {} =>
            FailedOf(my_stats)[Pick(s)] = my_stats[CHOOSE x \in s : TRUE].failed
                                            + my_stats[CHOOSE x \in s : TRUE].deadlocked
      BY PickIn DEF FailedOf, Pick
    <2> QED
      BY <2>1 DEF SumRec, SumBody, Pick
  <1>3. \E g : SumRec(FailedOf(my_stats), Workers, g)
    BY SumExists, WorkersFinite
  <1> HIDE DEF Eq
  <1>4. Eq(CHOOSE g : Eq(g))
    BY <1>2, <1>3
  <1>5. SumRec(FailedOf(my_stats), Workers, CHOOSE g : Eq(g))
    BY <1>2, <1>4
  <1>6. PICK h : /\ SumRec(FailedOf(my_stats), Workers, h)
                 /\ SumOf(FailedOf(my_stats), Workers) = h[Workers]
    BY SumIs, WorkersFinite DEF IsSum
  <1> QED
    BY <1>1, <1>5, <1>6, SumUnique, WorkersFinite

LEMMA CommittedIsSum == Committed = SumOf(committed, Workers)
  BY DEF Committed, MapThenSumSet, MapThenFoldSet, SumOf, SumRec, SumBody, Pick

\* And in the next state.
LEMMA NextSums ==
  /\ Attempts' = SumOf(AttemptedOf(my_stats'), Workers)
  /\ Failures' = SumOf(FailedOf(my_stats'), Workers)
  /\ Committed' = SumOf(committed', Workers)
  <1>1. (Attempts = SumOf(AttemptedOf(my_stats), Workers))'
    BY AttemptsIsSum, PTL
  <1>2. (Failures = SumOf(FailedOf(my_stats), Workers))'
    BY FailuresIsSum, PTL
  <1>3. (Committed = SumOf(committed, Workers))'
    BY CommittedIsSum, PTL
  <1> QED
    BY <1>1, <1>2, <1>3

-----------------------------------------------------------------------------
(***************************************************************************)
(* The inductive invariant.                                                *)
(***************************************************************************)

\* Where a worker is in the wrapper.
Ends == {"notify", "measure", "att", "com", "idle"}
TypeInv ==
  /\ wpc \in [Workers -> {"run", "failed", "abort"} \cup Ends]
  /\ step \in [Workers -> 1 .. Len(AcctUpdate) + 1]
  /\ err \in [Workers -> {"ok", "deadlock", "other", "notfound", "duplicate"}]
  /\ my_stats \in [Workers -> [attempted : Nat, failed : Nat, deadlocked : Nat]]
  /\ env_stats \in [att : Nat, com : Nat]
  /\ measure \in {"MEASURE", "DONE"}
  /\ mpc \in 0 .. NumReads + 1
  /\ report \in [attempted : Nat, failed : Nat, deadlocked : Nat]
  /\ committed \in [Workers -> Nat]
  /\ before \in [committed : Int, failures : Int]
  /\ DOMAIN locks = Workers /\ DOMAIN undo = Workers /\ DOMAIN added = Workers
  /\ IsFiniteSet(history)

\* What a worker has of its transaction, and what it remembers of a failure.
WorkerInv(w) ==
  /\ wpc[w] \in Ends => step[w] = 1 /\ locks[w] = {} /\ undo[w] = <<>>
  /\ wpc[w] \in {"failed", "abort"} => err[w] # "ok"
  /\ wpc[w] \in {"run", "com", "idle"} => err[w] = "ok"

\* The locks of a transaction are those of the calls it has made.
LocksInv(w) ==
  \A l \in locks[w] : \E i \in 1 .. step[w] - 1 :
    l.table = AcctUpdate[i][2] /\ AcctUpdate[i][1] # "stamp"

\* The row a transaction has added, once it has, is in the history and nobody else's.
RowsInv ==
  /\ \A w \in Workers : IF step[w] > 4 THEN \E k \in history : added[w] = {k} ELSE added[w] = {}
  /\ \A v, w \in Workers : v # w => added[v] \cap added[w] = {}

\* The counters of a thread.
Running(w) == IF wpc[w] \in {"run", "failed"} THEN 1 ELSE 0
CountsInv(w) ==
  my_stats[w].attempted = committed[w] + my_stats[w].failed + my_stats[w].deadlocked + Running(w)

\* The attempts that a thread has counted and the environment will; the commits; ...
Late(w) == IF wpc[w] \in {"idle", "com"} THEN 0 ELSE 1
LateCom(w) ==
  IF wpc[w] \in {"run", "failed"} \/ (wpc[w] \in Ends \ {"idle"} /\ err[w] = "ok") THEN 1 ELSE 0
AttOf == [w \in Workers |-> my_stats[w].attempted - Late(w)]
ComOf == [w \in Workers |-> my_stats[w].attempted - (my_stats[w].failed + my_stats[w].deadlocked) - LateCom(w)]
\* ... and the workers between the two halves of inc_trx_com().
HalfOf == [w \in Workers |-> IF wpc[w] = "com" THEN 1 ELSE 0]
EnvInv ==
  /\ env_stats.com + SumOf(HalfOf, Workers) <= env_stats.att
  /\ measure = "MEASURE" => /\ env_stats.att = SumOf(AttOf, Workers)
                            /\ env_stats.com = SumOf(ComOf, Workers)

\* How many counters of thread w print_throughput() has read: none, one, two or all.
ReadOf(w) == mpc - 3 * (w - 1)
\* What it may still report of a thread, at least and at most.
LowOf == [w \in Workers |->
  IF ReadOf(w) <= 0 THEN my_stats[w].attempted
  ELSE IF ReadOf(w) = 1 THEN 0
  ELSE IF ReadOf(w) = 2 THEN my_stats[w].failed
  ELSE my_stats[w].failed + my_stats[w].deadlocked]
HighOf == [w \in Workers |->
  IF ReadOf(w) <= 0 THEN 0
  ELSE IF ReadOf(w) = 1 THEN committed[w] + 1 + my_stats[w].failed + my_stats[w].deadlocked
  ELSE IF ReadOf(w) = 2 THEN committed[w] + 1 + my_stats[w].deadlocked
  ELSE committed[w] + 1]
Reported == report.attempted - report.failed - report.deadlocked
ReportInv ==
  /\ mpc = 0 => Reported = 0
  /\ mpc > 0 => Reported + SumOf(LowOf, Workers) >= before.committed + before.failures
  /\ Reported <= SumOf(HighOf, Workers)

PerWorker == \A w \in Workers : WorkerInv(w) /\ LocksInv(w) /\ CountsInv(w)
Inv ==
  /\ TypeInv /\ PerWorker
  /\ RowsInv /\ OneRowPerCommit
  /\ EnvInv /\ ReportInv

-----------------------------------------------------------------------------
(***************************************************************************)
(* The calls of a transaction, and what a step of a worker leaves alone.   *)
(***************************************************************************)
LEMMA CallsAre ==
  /\ Len(AcctUpdate) = 8
  /\ AcctUpdate[1] = <<"probe", "account">> /\ AcctUpdate[2] = <<"update", "account">>
  /\ AcctUpdate[3] = <<"stamp", "history">> /\ AcctUpdate[4] = <<"add", "history">>
  /\ AcctUpdate[5] = <<"probe", "teller">> /\ AcctUpdate[6] = <<"update", "teller">>
  /\ AcctUpdate[7] = <<"probe", "branch">> /\ AcctUpdate[8] = <<"update", "branch">>
  BY DEF AcctUpdate

LEMMA CountersAre ==
  /\ Len(Counters) = 3 /\ NumReads = 3 * NumWorkers /\ NumReads \in Nat
  /\ Counters[1] = "attempted" /\ Counters[2] = "failed" /\ Counters[3] = "deadlocked"
  <1>1. /\ Len(Counters) = 3
        /\ Counters[1] = "attempted" /\ Counters[2] = "failed" /\ Counters[3] = "deadlocked"
    BY DEF Counters
  <1>2. NumWorkers \in Nat
    BY TpcbAssumption
  <1>3. NumReads = NumWorkers * 3
    BY <1>1 DEF NumReads
  <1> QED
    BY <1>1, <1>2, <1>3

\* A call that is made: the next step of the same transaction.
Call(w) == Probe(w) \/ Update(w) \/ Stamp(w) \/ AddTuple(w)
\* One that fails.
Failing(w) == NotFound(w) \/ Duplicate(w) \/ Deadlock(w) \/ SmError(w)

LEMMA CallFrame ==
  ASSUME TypeInv, NEW w \in Workers, Call(w)
  PROVE  /\ wpc[w] = "run" /\ step[w] \in 1 .. 8
         /\ step' = [step EXCEPT ![w] = @ + 1]
         /\ UNCHANGED <<clock, wpc, input, err, stats, main, committed>>
  <1>1. InXct(w) /\ Proceed(w) /\ UNCHANGED stats
    BY DEF Call, Probe, Update, Stamp, AddTuple, stats
  <1> QED
    BY <1>1, CallsAre DEF InXct, Proceed, TypeInv

LEMMA FailFrame ==
  ASSUME NEW w \in Workers, Failing(w)
  PROVE  /\ wpc[w] = "run"
         /\ \E e \in {"deadlock", "other", "notfound", "duplicate"} :
              err' = [err EXCEPT ![w] = e]
         /\ wpc' = [wpc EXCEPT ![w] = "failed"]
         /\ UNCHANGED <<db, clock, step, input, tuple, stats, main, committed>>
  BY DEF Failing, NotFound, Duplicate, Deadlock, SmError, Fail, NeedsLock, InXct

LEMMA TypeCall ==
  ASSUME TypeInv, NEW w \in Workers, Call(w)
  PROVE  TypeInv'
  <1>1. /\ step[w] \in 1 .. 8 /\ step' = [step EXCEPT ![w] = @ + 1]
        /\ UNCHANGED <<clock, wpc, input, err, stats, main, committed>>
    BY CallFrame
  <1>2. step' \in [Workers -> 1 .. Len(AcctUpdate) + 1]
    <2>1. Len(AcctUpdate) = 8 /\ step[w] + 1 \in 1 .. 8 + 1
      BY <1>1, CallsAre
    <2> QED
      BY <1>1, <2>1 DEF TypeInv
  <1>3. DOMAIN locks' = Workers /\ DOMAIN undo' = Workers /\ DOMAIN added' = Workers
    <2>1. DOMAIN locks = Workers /\ DOMAIN undo = Workers /\ DOMAIN added = Workers
      BY DEF TypeInv
    <2>2. CASE Probe(w)
      BY <2>1, <2>2 DEF Probe
    <2>3. CASE Update(w)
      BY <2>1, <2>3 DEF Update
    <2>4. CASE Stamp(w)
      BY <2>1, <2>4 DEF Stamp, db
    <2>5. CASE AddTuple(w)
      BY <2>1, <2>5 DEF AddTuple
    <2> QED
      BY <2>2, <2>3, <2>4, <2>5 DEF Call
  <1>4. IsFiniteSet(history')
    <2>1. IsFiniteSet(history)
      BY DEF TypeInv
    <2>2. CASE Probe(w) \/ Update(w) \/ Stamp(w)
      BY <2>1, <2>2 DEF Probe, Update, Stamp, db
    <2>3. CASE AddTuple(w)
      <3>1. PICK key : history' = history \cup {key}
        BY <2>3 DEF AddTuple
      <3> QED
        BY <2>1, <3>1, FS_AddElement
    <2> QED
      BY <2>2, <2>3 DEF Call
  <1> QED
    BY <1>1, <1>2, <1>3, <1>4 DEF TypeInv, stats, main

LEMMA TypeFail ==
  ASSUME TypeInv, NEW w \in Workers, Failing(w)
  PROVE  TypeInv'
  <1>1. /\ wpc' = [wpc EXCEPT ![w] = "failed"]
        /\ UNCHANGED <<db, clock, step, input, tuple, stats, main, committed>>
    BY FailFrame
  <1>2. PICK e \in {"deadlock", "other", "notfound", "duplicate"} :
          err' = [err EXCEPT ![w] = e]
    BY FailFrame
  <1> QED
    BY <1>1, <1>2 DEF TypeInv, Ends, db, stats, main

\* The other steps of a worker.
LEMMA TypeOther ==
  ASSUME TypeInv, NEW w \in Workers,
         Begin(w) \/ CountFailure(w) \/ NotifyClient(w) \/ CheckMeasure(w) \/ IncTrxAtt(w)
           \/ IncTrxCom(w)
  PROVE  TypeInv'
  <1>0. \A m \in [attempted : Nat, failed : Nat, deadlocked : Nat] :
          /\ [m EXCEPT !.attempted = @ + 1] \in [attempted : Nat, failed : Nat, deadlocked : Nat]
          /\ [m EXCEPT !.failed = @ + 1] \in [attempted : Nat, failed : Nat, deadlocked : Nat]
          /\ [m EXCEPT !.deadlocked = @ + 1] \in [attempted : Nat, failed : Nat, deadlocked : Nat]
    OBVIOUS
  <1>1. CASE Begin(w)
    <2>1. my_stats' = [my_stats EXCEPT ![w] = [my_stats[w] EXCEPT !.attempted = @ + 1]]
      BY <1>1 DEF Begin
    <2>2. my_stats' \in [Workers -> [attempted : Nat, failed : Nat, deadlocked : Nat]]
      BY <1>0, <2>1 DEF TypeInv
    <2> QED
      BY <1>1, <2>2 DEF TypeInv, Begin, Ends, db, main
  <1>2. CASE CountFailure(w)
    <2>1. \/ my_stats' = [my_stats EXCEPT ![w] = [my_stats[w] EXCEPT !.failed = @ + 1]]
          \/ my_stats' = [my_stats EXCEPT ![w] = [my_stats[w] EXCEPT !.deadlocked = @ + 1]]
      BY <1>2 DEF CountFailure
    <2>2. PICK m \in [attempted : Nat, failed : Nat, deadlocked : Nat] :
            my_stats' = [my_stats EXCEPT ![w] = m]
      <3>1. my_stats[w] \in [attempted : Nat, failed : Nat, deadlocked : Nat]
        BY DEF TypeInv
      <3> QED
        BY <1>0, <2>1, <3>1
    <2>3. my_stats' \in [Workers -> [attempted : Nat, failed : Nat, deadlocked : Nat]]
      BY <2>2 DEF TypeInv
    <2> QED
      BY <1>2, <2>3 DEF TypeInv, CountFailure, Ends, db, main
  <1>3. CASE NotifyClient(w)
    BY <1>3 DEF TypeInv, NotifyClient, Ends, db, stats, main
  <1>4. CASE CheckMeasure(w)
    BY <1>4 DEF TypeInv, CheckMeasure, Return, Ends, db, stats, main
  <1>5. CASE IncTrxAtt(w)
    <2>1. env_stats' = [env_stats EXCEPT !.att = @ + 1] /\ env_stats \in [att : Nat, com : Nat]
      BY <1>5 DEF TypeInv, IncTrxAtt
    <2>2. env_stats' \in [att : Nat, com : Nat]
      BY <2>1
    <2> QED
      BY <1>5, <2>2 DEF TypeInv, IncTrxAtt, Return, Ends, db, main
  <1>6. CASE IncTrxCom(w)
    <2>1. env_stats' = [env_stats EXCEPT !.com = @ + 1] /\ env_stats \in [att : Nat, com : Nat]
      BY <1>6 DEF TypeInv, IncTrxCom
    <2>2. env_stats' \in [att : Nat, com : Nat]
      BY <2>1
    <2> QED
      BY <1>6, <2>2 DEF TypeInv, IncTrxCom, Return, Ends, db, main
  <1> QED
    BY <1>1, <1>2, <1>3, <1>4, <1>5, <1>6

LEMMA TypeEnd ==
  ASSUME TypeInv, NEW w \in Workers, Commit(w) \/ Abort(w)
  PROVE  TypeInv'
  <1>1. /\ Release(w) /\ wpc' = [wpc EXCEPT ![w] = "notify"]
        /\ UNCHANGED <<err, stats, main>>
    BY DEF Commit, Abort
  <1>2. /\ DOMAIN locks' = Workers /\ DOMAIN undo' = Workers /\ DOMAIN added' = Workers
        /\ step' \in [Workers -> 1 .. Len(AcctUpdate) + 1]
    <2>1. 1 \in 1 .. Len(AcctUpdate) + 1
      BY CallsAre
    <2> QED
      BY <1>1, <2>1 DEF TypeInv, Release
  <1>3. IsFiniteSet(history')
    <2>1. \E a : history' = history \ a \/ history' = history
      BY DEF Commit, Abort
    <2> QED
      BY <2>1, FS_Subset DEF TypeInv
  <1>4. committed' \in [Workers -> Nat]
    <2>1. CASE Commit(w)
      <3>1. committed' = [committed EXCEPT ![w] = @ + 1] /\ committed \in [Workers -> Nat]
        BY <2>1 DEF Commit, TypeInv
      <3> QED
        BY ONLY <3>1, w \in Workers
    <2>2. CASE Abort(w)
      BY <2>2 DEF Abort, TypeInv
    <2> QED
      BY <2>1, <2>2
  <1> QED
    BY <1>1, <1>2, <1>3, <1>4 DEF TypeInv, Ends, stats, main

\* What the workers keep to themselves stays when another one makes a step.
LEMMA OthersStay ==
  ASSUME TypeInv, NEW w \in Workers, Worker(w), NEW v \in Workers \ {w}
  PROVE  /\ wpc'[v] = wpc[v] /\ step'[v] = step[v] /\ err'[v] = err[v]
         /\ my_stats'[v] = my_stats[v] /\ committed'[v] = committed[v]
         /\ locks'[v] = locks[v] /\ undo'[v] = undo[v] /\ added'[v] = added[v]
         /\ UNCHANGED main
  <1>1. /\ wpc \in [Workers -> {"run", "failed", "abort"} \cup Ends]
        /\ DOMAIN step = Workers /\ DOMAIN err = Workers /\ DOMAIN my_stats = Workers
        /\ DOMAIN committed = Workers /\ DOMAIN locks = Workers /\ DOMAIN undo = Workers
        /\ DOMAIN added = Workers /\ v \in Workers /\ v # w
    BY DEF TypeInv
  <1>2. CASE Call(w)
    <2>1. /\ step' = [step EXCEPT ![w] = @ + 1]
          /\ UNCHANGED <<wpc, err, stats, main, committed>>
      BY <1>2, CallFrame
    <2>2. locks'[v] = locks[v] /\ undo'[v] = undo[v] /\ added'[v] = added[v]
      <3>1. CASE Probe(w)
        BY <1>1, <3>1 DEF Probe
      <3>2. CASE Update(w)
        BY <1>1, <3>2 DEF Update
      <3>3. CASE Stamp(w)
        BY <1>1, <3>3 DEF Stamp, db
      <3>4. CASE AddTuple(w)
        BY <1>1, <3>4 DEF AddTuple
      <3> QED
        BY <1>2, <3>1, <3>2, <3>3, <3>4 DEF Call
    <2> QED
      BY <1>1, <2>1, <2>2 DEF stats
  <1>3. CASE Failing(w)
    <2>1. /\ wpc' = [wpc EXCEPT ![w] = "failed"]
          /\ \E e : err' = [err EXCEPT ![w] = e]
          /\ UNCHANGED <<db, step, stats, main, committed>>
      BY <1>3, FailFrame
    <2> QED
      BY <1>1, <2>1 DEF stats, db
  <1>4. CASE Begin(w)
    BY <1>1, <1>4 DEF Begin, db
  <1>5. CASE Commit(w)
    BY <1>1, <1>5 DEF Commit, Release, stats
  <1>6. CASE CountFailure(w)
    BY <1>1, <1>6 DEF CountFailure, db
  <1>7. CASE Abort(w)
    BY <1>1, <1>7 DEF Abort, Release, stats
  <1>8. CASE NotifyClient(w)
    BY <1>1, <1>8 DEF NotifyClient, db, stats
  <1>9. CASE CheckMeasure(w)
    BY <1>1, <1>9 DEF CheckMeasure, Return, db, stats
  <1>10. CASE IncTrxAtt(w)
    BY <1>1, <1>10 DEF IncTrxAtt, Return, db
  <1>11. CASE IncTrxCom(w)
    BY <1>1, <1>11 DEF IncTrxCom, Return, db
  <1> QED
    BY <1>2, <1>3, <1>4, <1>5, <1>6, <1>7, <1>8, <1>9, <1>10, <1>11 DEF Worker, Call, Failing

LEMMA TypeWorker ==
  ASSUME TypeInv, NEW w \in Workers, Worker(w)
  PROVE  TypeInv'
  <1>1. Call(w) => TypeInv'
    BY TypeCall
  <1>2. Failing(w) => TypeInv'
    BY TypeFail
  <1>3. Begin(w) \/ CountFailure(w) \/ NotifyClient(w) \/ CheckMeasure(w) \/ IncTrxAtt(w)
           \/ IncTrxCom(w) => TypeInv'
    BY TypeOther
  <1>4. Commit(w) \/ Abort(w) => TypeInv'
    BY TypeEnd
  <1> QED
    BY <1>1, <1>2, <1>3, <1>4 DEF Worker, Call, Failing

-----------------------------------------------------------------------------
(***************************************************************************)
(* A worker and its transaction.                                           *)
(***************************************************************************)
LEMMA WorkerFrame ==
  ASSUME NEW v \in Workers, wpc'[v] = wpc[v], step'[v] = step[v], err'[v] = err[v],
         my_stats'[v] = my_stats[v], committed'[v] = committed[v],
         locks'[v] = locks[v], undo'[v] = undo[v],
         WorkerInv(v) /\ LocksInv(v) /\ CountsInv(v)
  PROVE  WorkerInv(v)' /\ LocksInv(v)' /\ CountsInv(v)'
  BY DEF WorkerInv, LocksInv, CountsInv, Running

LEMMA CallInv ==
  ASSUME TypeInv, NEW w \in Workers, Call(w), WorkerInv(w) /\ LocksInv(w) /\ CountsInv(w)
  PROVE  WorkerInv(w)' /\ LocksInv(w)' /\ CountsInv(w)'
  <1>1. /\ wpc[w] = "run" /\ step[w] \in 1 .. 8
        /\ step' = [step EXCEPT ![w] = @ + 1]
        /\ UNCHANGED <<wpc, err, stats, committed>>
    BY CallFrame
  <1>2. step'[w] = step[w] + 1
    BY <1>1 DEF TypeInv
  <1>3. WorkerInv(w)'
    BY <1>1 DEF WorkerInv, Ends
  <1>4. CountsInv(w)'
    BY <1>1 DEF CountsInv, Running, stats
  <1>5. ASSUME NEW l \in locks'[w], l \notin locks[w]
        PROVE  l.table = AcctUpdate[step[w]][2] /\ AcctUpdate[step[w]][1] # "stamp"
    <2>1. DOMAIN locks = Workers /\ ~Stamp(w)
      BY <1>5 DEF TypeInv, Stamp, db
    <2>2. locks'[w] = locks[w] \cup {NextLock(w)} /\ Op(w) \in {"probe", "update", "add"}
      BY <2>1 DEF Call, Probe, Update, AddTuple
    <2>3. l = NextLock(w)
      BY <1>5, <2>2
    <2>4. CASE Op(w) = "add"
      <3>1. step[w] = 4
        BY <1>1, <2>4, CallsAre DEF Op
      <3>2. NextLock(w).table = "history"
        BY <2>4 DEF NextLock
      <3> QED
        BY <2>3, <3>1, <3>2, CallsAre
    <2>5. CASE Op(w) # "add"
      BY <2>2, <2>3, <2>5 DEF NextLock, Op, Table
    <2> QED
      BY <2>4, <2>5
  <1>6. LocksInv(w)'
    <2> SUFFICES ASSUME NEW l \in locks'[w]
                 PROVE  \E i \in 1 .. step'[w] - 1 :
                          l.table = AcctUpdate[i][2] /\ AcctUpdate[i][1] # "stamp"
      BY DEF LocksInv
    <2>1. CASE l \in locks[w]
      <3>1. PICK i \in 1 .. step[w] - 1 :
              l.table = AcctUpdate[i][2] /\ AcctUpdate[i][1] # "stamp"
        BY <2>1 DEF LocksInv
      <3>2. i \in 1 .. step'[w] - 1
        BY <1>1, <1>2
      <3> QED
        BY <3>1, <3>2
    <2>2. CASE l \notin locks[w]
      <3>1. step[w] \in 1 .. step'[w] - 1
        BY <1>1, <1>2
      <3> QED
        BY <1>5, <2>2, <3>1
    <2> QED
      BY <2>1, <2>2
  <1> QED
    BY <1>3, <1>4, <1>6

LEMMA OtherStepsInv ==
  ASSUME TypeInv, NEW w \in Workers, Worker(w), ~Call(w),
         WorkerInv(w) /\ LocksInv(w) /\ CountsInv(w)
  PROVE  WorkerInv(w)' /\ LocksInv(w)' /\ CountsInv(w)'
  <1>0. /\ DOMAIN wpc = Workers /\ DOMAIN step = Workers /\ DOMAIN err = Workers
        /\ DOMAIN my_stats = Workers /\ DOMAIN committed = Workers
        /\ DOMAIN locks = Workers /\ DOMAIN undo = Workers
        /\ my_stats[w] \in [attempted : Nat, failed : Nat, deadlocked : Nat]
        /\ committed[w] \in Nat
    BY DEF TypeInv
  <1>1. CASE Failing(w)
    <2>1. /\ wpc[w] = "run" /\ wpc'[w] = "failed" /\ err'[w] # "ok"
          /\ UNCHANGED <<db, step, stats, committed>>
      BY <1>0, <1>1, FailFrame
    <2> QED
      BY <2>1 DEF WorkerInv, LocksInv, CountsInv, Running, Ends, db, stats
  <1>2. CASE Begin(w)
    <2>1. /\ wpc[w] = "idle" /\ wpc'[w] = "run"
          /\ my_stats'[w] = [my_stats[w] EXCEPT !.attempted = @ + 1]
          /\ UNCHANGED <<locks, undo, step, err, committed>>
      BY <1>0, <1>2 DEF Begin, db
    <2>2. /\ my_stats'[w].attempted = my_stats[w].attempted + 1
          /\ my_stats'[w].failed = my_stats[w].failed
          /\ my_stats'[w].deadlocked = my_stats[w].deadlocked
      BY <1>0, <2>1
    <2>3. WorkerInv(w)' /\ LocksInv(w)'
      BY <2>1 DEF WorkerInv, LocksInv, Ends
    <2>4. CountsInv(w)'
      BY <1>0, <2>1, <2>2 DEF CountsInv, Running
    <2> QED
      BY <2>3, <2>4
  <1>3. CASE Commit(w) \/ Abort(w)
    <2>1. /\ wpc'[w] = "notify" /\ step'[w] = 1 /\ locks'[w] = {} /\ undo'[w] = <<>>
          /\ UNCHANGED <<err, stats>>
      BY <1>0, <1>3 DEF Commit, Abort, Release
    <2>2. WorkerInv(w)' /\ LocksInv(w)'
      BY <2>1 DEF WorkerInv, LocksInv, Ends
    <2>3. CountsInv(w)'
      <3>1. CASE Commit(w)
        <4>1. wpc[w] = "run" /\ committed'[w] = committed[w] + 1
          BY <1>0, <3>1 DEF Commit
        <4> QED
          BY <1>0, <2>1, <4>1 DEF CountsInv, Running, stats
      <3>2. CASE Abort(w)
        <4>1. wpc[w] = "abort" /\ committed' = committed
          BY <3>2 DEF Abort
        <4> QED
          BY <2>1, <4>1 DEF CountsInv, Running, stats
      <3> QED
        BY <1>3, <3>1, <3>2
    <2> QED
      BY <2>2, <2>3
  <1>4. CASE CountFailure(w)
    <2>1. /\ wpc[w] = "failed" /\ wpc'[w] = "abort"
          /\ \/ my_stats'[w] = [my_stats[w] EXCEPT !.deadlocked = @ + 1]
             \/ my_stats'[w] = [my_stats[w] EXCEPT !.failed = @ + 1]
          /\ UNCHANGED <<locks, undo, step, err, committed>>
      BY <1>0, <1>4 DEF CountFailure, db
    <2>2. /\ my_stats'[w].attempted = my_stats[w].attempted
          /\ my_stats'[w].failed + my_stats'[w].deadlocked
               = my_stats[w].failed + my_stats[w].deadlocked + 1
          /\ my_stats'[w].failed \in Nat /\ my_stats'[w].deadlocked \in Nat
      BY <1>0, <2>1
    <2>3. WorkerInv(w)' /\ LocksInv(w)'
      BY <2>1 DEF WorkerInv, LocksInv, Ends
    <2>4. CountsInv(w)'
      BY <1>0, <2>1, <2>2 DEF CountsInv, Running
    <2> QED
      BY <2>3, <2>4
  <1>5. CASE NotifyClient(w) \/ CheckMeasure(w) \/ IncTrxAtt(w) \/ IncTrxCom(w)
    <2>1. /\ wpc[w] \in Ends \ {"idle"} /\ wpc'[w] \in Ends
          /\ UNCHANGED <<locks, undo, step, my_stats, committed>>
      BY <1>0, <1>5 DEF NotifyClient, CheckMeasure, IncTrxAtt, IncTrxCom, Return, Ends, db, stats
    <2>2. wpc'[w] \in {"run", "com", "idle"} => err'[w] = "ok"
      BY <1>0, <1>5 DEF NotifyClient, CheckMeasure, IncTrxAtt, IncTrxCom, Return
    <2> QED
      BY <2>1, <2>2 DEF WorkerInv, LocksInv, CountsInv, Running, Ends
  <1> QED
    BY <1>1, <1>2, <1>3, <1>4, <1>5 DEF Worker, Call, Failing

LEMMA PerWorkerStep ==
  ASSUME TypeInv, PerWorker, NEW w \in Workers, Worker(w)
  PROVE  PerWorker'
  <1>1. WorkerInv(w)' /\ LocksInv(w)' /\ CountsInv(w)'
    BY CallInv, OtherStepsInv DEF PerWorker
  <1>2. ASSUME NEW v \in Workers, v # w
        PROVE  WorkerInv(v)' /\ LocksInv(v)' /\ CountsInv(v)'
    BY <1>2, OthersStay, WorkerFrame DEF PerWorker
  <1> QED
    BY <1>1, <1>2 DEF PerWorker

-----------------------------------------------------------------------------
(***************************************************************************)
(* The rows of the history.                                                *)
(***************************************************************************)

\* The rows of transactions that have not ended, and the sum of their counts.
InFlight == UNION {added[w] : w \in Workers}

LEMMA RowsFrame ==
  ASSUME RowsInv, OneRowPerCommit, UNCHANGED <<history, added, committed>>,
         \A v \in Workers : (step'[v] > 4) <=> (step[v] > 4)
  PROVE  RowsInv' /\ OneRowPerCommit'
  <1>1. RowsInv'
    BY DEF RowsInv
  <1>2. Committed' = Committed
    BY NextSums, CommittedIsSum
  <1> QED
    BY <1>1, <1>2 DEF OneRowPerCommit

LEMMA AddTupleRows ==
  ASSUME TypeInv, RowsInv, OneRowPerCommit, NEW w \in Workers, AddTuple(w)
  PROVE  RowsInv' /\ OneRowPerCommit'
  <1>1. Call(w)
    BY DEF Call
  <1>2. step[w] = 4 /\ step'[w] = 5
    <2>1. Op(w) = "add"
      BY DEF AddTuple
    <2> QED
      BY <1>1, <2>1, CallFrame, CallsAre DEF Op, TypeInv
  <1>3. added[w] = {}
    BY <1>2 DEF RowsInv
  <1>4. PICK key : key \notin history /\ history' = history \cup {key} /\ added'[w] = {key}
    BY <1>3 DEF AddTuple, TypeInv
  <1>5. \A v \in Workers \ {w} : added'[v] = added[v] /\ step'[v] = step[v]
    BY OthersStay DEF Worker
  <1>6. \A v \in Workers : added[v] \subseteq history
    BY DEF RowsInv
  <1>7. RowsInv'
    <2>1. ASSUME NEW v \in Workers
          PROVE  IF step'[v] > 4 THEN \E k \in history' : added'[v] = {k} ELSE added'[v] = {}
      BY <1>2, <1>4, <1>5 DEF RowsInv
    <2>2. ASSUME NEW u \in Workers, NEW v \in Workers, u # v
          PROVE  added'[u] \cap added'[v] = {}
      BY <1>4, <1>5, <1>6, <2>2 DEF RowsInv
    <2> QED
      BY <2>1, <2>2 DEF RowsInv
  <1>8. history' \ InFlight' = history \ InFlight
    <2>1. ASSUME NEW x PROVE x \in InFlight' <=> x = key \/ x \in InFlight
      <3>1. x \in InFlight <=> \E v \in Workers : x \in added[v]
        BY DEF InFlight
      <3>2. x \in InFlight' <=> \E v \in Workers : x \in added'[v]
        BY DEF InFlight
      <3> QED
        BY <1>3, <1>4, <1>5, <3>1, <3>2
    <2> QED
      BY <1>4, <2>1
  <1>9. Committed' = Committed
    BY NextSums, CommittedIsSum, <1>1, CallFrame
  <1> QED
    BY <1>7, <1>8, <1>9 DEF OneRowPerCommit, InFlight

LEMMA CommitRows ==
  ASSUME TypeInv, RowsInv, OneRowPerCommit, NEW w \in Workers, Commit(w)
  PROVE  RowsInv' /\ OneRowPerCommit'
  <1>1. /\ step[w] > 8 /\ step'[w] = 1 /\ added'[w] = {} /\ history' = history
        /\ committed' = [committed EXCEPT ![w] = @ + 1]
    BY CallsAre DEF Commit, Release, TypeInv
  <1>2. PICK k \in history : added[w] = {k}
    <2>1. step[w] > 4
      BY <1>1 DEF TypeInv
    <2> QED
      BY <2>1 DEF RowsInv
  <1>3. \A v \in Workers \ {w} : added'[v] = added[v] /\ step'[v] = step[v]
    BY OthersStay DEF Worker
  <1>4. RowsInv'
    <2>1. ASSUME NEW v \in Workers
          PROVE  IF step'[v] > 4 THEN \E x \in history' : added'[v] = {x} ELSE added'[v] = {}
      BY <1>1, <1>3 DEF RowsInv
    <2>2. ASSUME NEW u \in Workers, NEW v \in Workers, u # v
          PROVE  added'[u] \cap added'[v] = {}
      BY <1>1, <1>3, <2>2 DEF RowsInv
    <2> QED
      BY <2>1, <2>2 DEF RowsInv
  <1>5. history' \ InFlight' = (history \ InFlight) \cup {k} /\ k \notin history \ InFlight
    <2>1. ASSUME NEW x PROVE x \in InFlight' <=> x # k /\ x \in InFlight
      <3>1. x \in InFlight <=> \E v \in Workers : x \in added[v]
        BY DEF InFlight
      <3>2. x \in InFlight' <=> \E v \in Workers : x \in added'[v]
        BY DEF InFlight
      <3>3. \A v \in Workers \ {w} : k \notin added[v]
        BY <1>2 DEF RowsInv
      <3> QED
        BY <1>1, <1>2, <1>3, <3>1, <3>2, <3>3
    <2>2. k \in InFlight
      BY <1>2 DEF InFlight
    <2> QED
      BY <1>1, <1>2, <2>1, <2>2
  <1>6. Cardinality(history' \ InFlight') = Cardinality(history \ InFlight) + 1
    <2>1. IsFiniteSet(history \ InFlight)
      BY FS_Subset DEF TypeInv
    <2> QED
      BY <1>5, <2>1, FS_AddElement
  <1>7. Committed' = Committed + 1
    <2>1. committed \in [Workers -> Int] /\ committed' \in [Workers -> Int]
      BY <1>1 DEF TypeInv
    <2>2. SumOf(committed', Workers) = SumOf(committed, Workers) + (committed'[w] - committed[w])
      <3>1. \A v \in Workers \ {w} : committed'[v] = committed[v]
        BY <1>1, <2>1
      <3> QED
        BY <2>1, <3>1, SumChanges, WorkersFinite
    <2>3. committed'[w] - committed[w] = 1
      BY <1>1 DEF TypeInv
    <2> QED
      BY <2>2, <2>3, NextSums, CommittedIsSum
  <1> QED
    BY <1>4, <1>6, <1>7 DEF OneRowPerCommit, InFlight

LEMMA AbortRows ==
  ASSUME TypeInv, RowsInv, OneRowPerCommit, NEW w \in Workers, Abort(w)
  PROVE  RowsInv' /\ OneRowPerCommit'
  <1>1. /\ step'[w] = 1 /\ added'[w] = {} /\ history' = history \ added[w]
        /\ committed' = committed
    BY DEF Abort, Release, TypeInv
  <1>2. \A v \in Workers \ {w} : /\ added'[v] = added[v] /\ step'[v] = step[v]
                                 /\ added[v] \cap added[w] = {}
    BY OthersStay DEF Worker, RowsInv
  <1>3. RowsInv'
    <2>1. ASSUME NEW v \in Workers
          PROVE  IF step'[v] > 4 THEN \E x \in history' : added'[v] = {x} ELSE added'[v] = {}
      <3>1. CASE v = w
        BY <1>1, <3>1
      <3>2. CASE v # w /\ step[v] > 4
        <4>1. PICK x \in history : added[v] = {x}
          BY <3>2 DEF RowsInv
        <4> QED
          BY <1>1, <1>2, <3>2, <4>1
      <3>3. CASE v # w /\ ~(step[v] > 4)
        BY <1>2, <3>3 DEF RowsInv
      <3> QED
        BY <3>1, <3>2, <3>3
    <2>2. ASSUME NEW u \in Workers, NEW v \in Workers, u # v
          PROVE  added'[u] \cap added'[v] = {}
      BY <1>1, <1>2, <2>2 DEF RowsInv
    <2> QED
      BY <2>1, <2>2 DEF RowsInv
  <1>4. history' \ InFlight' = history \ InFlight
    <2>1. ASSUME NEW x PROVE x \in InFlight <=> x \in InFlight' \/ x \in added[w]
      <3>1. x \in InFlight <=> \E v \in Workers : x \in added[v]
        BY DEF InFlight
      <3>2. x \in InFlight' <=> \E v \in Workers : x \in added'[v]
        BY DEF InFlight
      <3> QED
        BY <1>1, <1>2, <3>1, <3>2
    <2> QED
      BY <1>1, <2>1
  <1>5. Committed' = Committed
    BY <1>1, NextSums, CommittedIsSum
  <1> QED
    BY <1>3, <1>4, <1>5 DEF OneRowPerCommit, InFlight

LEMMA RowsStep ==
  ASSUME TypeInv, RowsInv, OneRowPerCommit, NEW w \in Workers, Worker(w)
  PROVE  RowsInv' /\ OneRowPerCommit'
  <1>1. CASE AddTuple(w) \/ Commit(w) \/ Abort(w)
    BY <1>1, AddTupleRows, CommitRows, AbortRows
  <1>2. CASE Probe(w) \/ Update(w) \/ Stamp(w)
    <2>1. Call(w) /\ Op(w) # "add" /\ UNCHANGED <<history, added>>
      BY <1>2 DEF Call, Probe, Update, Stamp, db
    <2>2. /\ step[w] \in 1 .. 8 /\ step' = [step EXCEPT ![w] = @ + 1] /\ step[w] # 4
          /\ committed' = committed
      BY <2>1, CallFrame, CallsAre DEF Op
    <2>3. ASSUME NEW v \in Workers PROVE (step'[v] > 4) <=> (step[v] > 4)
      <3>1. step'[v] = IF v = w THEN step[v] + 1 ELSE step[v]
        BY <2>2 DEF TypeInv
      <3> QED
        BY <2>2, <3>1
    <2> QED
      BY <2>1, <2>2, <2>3, RowsFrame
  <1>3. CASE Failing(w)
    <2>1. UNCHANGED <<history, added, committed, step>>
      BY <1>3, FailFrame DEF db
    <2> QED
      BY <2>1, RowsFrame
  <1>4. CASE \/ Begin(w) \/ CountFailure(w) \/ NotifyClient(w) \/ CheckMeasure(w)
             \/ IncTrxAtt(w) \/ IncTrxCom(w)
    <2>1. UNCHANGED <<history, added, committed, step>>
      BY <1>4 DEF Begin, CountFailure, NotifyClient, CheckMeasure, IncTrxAtt, IncTrxCom, db
    <2> QED
      BY <2>1, RowsFrame
  <1> QED
    BY <1>1, <1>2, <1>3, <1>4 DEF Worker, Failing

-----------------------------------------------------------------------------
(***************************************************************************)
(* The environment's counters.                                             *)
(***************************************************************************)
LEMMA EnvTypes ==
  TypeInv =>
    AttOf \in [Workers -> Int] /\ ComOf \in [Workers -> Int] /\ HalfOf \in [Workers -> Int]
  <1> SUFFICES ASSUME TypeInv, NEW w \in Workers
               PROVE  /\ my_stats[w].attempted - Late(w) \in Int
                      /\ my_stats[w].attempted - (my_stats[w].failed + my_stats[w].deadlocked)
                           - LateCom(w) \in Int
    BY DEF AttOf, ComOf, HalfOf
  <1>1. my_stats[w] \in [attempted : Nat, failed : Nat, deadlocked : Nat]
    BY DEF TypeInv
  <1>2. Late(w) \in Int /\ LateCom(w) \in Int
    BY DEF Late, LateCom
  <1> QED
    BY <1>1, <1>2

LEMMA EnvTypesNext ==
  ASSUME TypeInv'
  PROVE  AttOf' \in [Workers -> Int] /\ ComOf' \in [Workers -> Int] /\ HalfOf' \in [Workers -> Int]
  <1>1. (TypeInv =>
          AttOf \in [Workers -> Int] /\ ComOf \in [Workers -> Int] /\ HalfOf \in [Workers -> Int])'
    BY EnvTypes, PTL
  <1> QED
    BY <1>1

\* A step of a worker changes its own terms of the sums.
LEMMA EnvChanges ==
  ASSUME TypeInv, NEW w \in Workers, Worker(w)
  PROVE  /\ SumOf(AttOf', Workers) = SumOf(AttOf, Workers) + (AttOf'[w] - AttOf[w])
         /\ SumOf(ComOf', Workers) = SumOf(ComOf, Workers) + (ComOf'[w] - ComOf[w])
         /\ SumOf(HalfOf', Workers) = SumOf(HalfOf, Workers) + (HalfOf'[w] - HalfOf[w])
  <1>1. AttOf \in [Workers -> Int] /\ ComOf \in [Workers -> Int] /\ HalfOf \in [Workers -> Int]
    BY EnvTypes
  <1>2. AttOf' \in [Workers -> Int] /\ ComOf' \in [Workers -> Int] /\ HalfOf' \in [Workers -> Int]
    BY TypeWorker, EnvTypesNext
  <1>3. ASSUME NEW v \in Workers \ {w}
        PROVE  AttOf'[v] = AttOf[v] /\ ComOf'[v] = ComOf[v] /\ HalfOf'[v] = HalfOf[v]
    <2>1. my_stats'[v] = my_stats[v] /\ wpc'[v] = wpc[v] /\ err'[v] = err[v]
      BY OthersStay
    <2> QED
      BY <2>1 DEF AttOf, ComOf, HalfOf, Late, LateCom
  <1> HIDE DEF AttOf, ComOf, HalfOf
  <1>4. SumOf(AttOf', Workers) = SumOf(AttOf, Workers) + (AttOf'[w] - AttOf[w])
    BY <1>1, <1>2, <1>3, SumChanges, WorkersFinite
  <1>5. SumOf(ComOf', Workers) = SumOf(ComOf, Workers) + (ComOf'[w] - ComOf[w])
    BY <1>1, <1>2, <1>3, SumChanges, WorkersFinite
  <1>6. SumOf(HalfOf', Workers) = SumOf(HalfOf, Workers) + (HalfOf'[w] - HalfOf[w])
    BY <1>1, <1>2, <1>3, SumChanges, WorkersFinite
  <1> QED
    BY <1>4, <1>5, <1>6

\* Those terms change with the environment's counters.
LEMMA EnvTerms ==
  ASSUME TypeInv, PerWorker, NEW w \in Workers, Worker(w)
  PROVE  /\ measure = "MEASURE" => /\ AttOf'[w] - AttOf[w] = env_stats'.att - env_stats.att
                                   /\ ComOf'[w] - ComOf[w] = env_stats'.com - env_stats.com
         /\ HalfOf'[w] - HalfOf[w] <= (env_stats'.att - env_stats.att)
                                        - (env_stats'.com - env_stats.com)
  <1>0. /\ DOMAIN wpc = Workers /\ DOMAIN err = Workers /\ DOMAIN my_stats = Workers
        /\ my_stats[w] \in [attempted : Nat, failed : Nat, deadlocked : Nat]
        /\ env_stats \in [att : Nat, com : Nat]
    BY DEF TypeInv
  <1>1. my_stats'[w] \in [attempted : Nat, failed : Nat, deadlocked : Nat]
    BY TypeWorker DEF TypeInv
  <1>2. /\ AttOf[w] = my_stats[w].attempted - Late(w)
        /\ ComOf[w] = my_stats[w].attempted - (my_stats[w].failed + my_stats[w].deadlocked)
                        - LateCom(w)
        /\ HalfOf[w] = IF wpc[w] = "com" THEN 1 ELSE 0
        /\ AttOf'[w] = my_stats'[w].attempted - Late(w)'
        /\ ComOf'[w] = my_stats'[w].attempted - (my_stats'[w].failed + my_stats'[w].deadlocked)
                         - LateCom(w)'
        /\ HalfOf'[w] = IF wpc'[w] = "com" THEN 1 ELSE 0
    BY DEF AttOf, ComOf, HalfOf
  <1>3. /\ wpc[w] \in {"failed", "abort"} => err[w] # "ok"
        /\ wpc[w] \in {"run", "com", "idle"} => err[w] = "ok"
    BY DEF PerWorker, WorkerInv
  <1>4. CASE Call(w)
    BY <1>0, <1>2, <1>4, CallFrame DEF stats, Late, LateCom
  <1>5. CASE Failing(w)
    <2>1. wpc[w] = "run" /\ wpc'[w] = "failed" /\ UNCHANGED stats
      BY <1>0, <1>5, FailFrame
    <2> QED
      BY <1>0, <1>2, <2>1 DEF stats, Late, LateCom, Ends
  <1>6. CASE Begin(w)
    <2>1. /\ wpc[w] = "idle" /\ wpc'[w] = "run" /\ env_stats' = env_stats
          /\ my_stats'[w] = [my_stats[w] EXCEPT !.attempted = @ + 1]
      BY <1>0, <1>6 DEF Begin
    <2>2. /\ my_stats'[w].attempted = my_stats[w].attempted + 1
          /\ my_stats'[w].failed = my_stats[w].failed
          /\ my_stats'[w].deadlocked = my_stats[w].deadlocked
      BY <1>0, <2>1
    <2>3. Late(w) = 0 /\ Late(w)' = 1 /\ LateCom(w) = 0 /\ LateCom(w)' = 1
      BY <2>1 DEF Late, LateCom, Ends
    <2> QED
      BY <1>0, <1>2, <2>1, <2>2, <2>3
  <1>7. CASE Commit(w)
    <2>1. wpc[w] = "run" /\ wpc'[w] = "notify" /\ err'[w] = "ok" /\ UNCHANGED stats
      BY <1>0, <1>3, <1>7 DEF Commit
    <2>2. Late(w) = 1 /\ Late(w)' = 1 /\ LateCom(w) = 1 /\ LateCom(w)' = 1
      BY <2>1 DEF Late, LateCom, Ends
    <2> QED
      BY <1>0, <1>2, <2>1, <2>2 DEF stats
  <1>8. CASE CountFailure(w)
    <2>1. /\ wpc[w] = "failed" /\ wpc'[w] = "abort" /\ env_stats' = env_stats
          /\ \/ my_stats'[w] = [my_stats[w] EXCEPT !.deadlocked = @ + 1]
             \/ my_stats'[w] = [my_stats[w] EXCEPT !.failed = @ + 1]
      BY <1>0, <1>8 DEF CountFailure
    <2>2. /\ my_stats'[w].attempted = my_stats[w].attempted
          /\ my_stats'[w].failed + my_stats'[w].deadlocked
               = my_stats[w].failed + my_stats[w].deadlocked + 1
      BY <1>0, <2>1
    <2>3. Late(w) = 1 /\ Late(w)' = 1 /\ LateCom(w) = 1 /\ LateCom(w)' = 0
      BY <2>1 DEF Late, LateCom, Ends
    <2> QED
      BY <1>0, <1>1, <1>2, <2>1, <2>2, <2>3
  <1>9. CASE Abort(w)
    <2>1. wpc[w] = "abort" /\ wpc'[w] = "notify" /\ err'[w] # "ok" /\ UNCHANGED stats
      BY <1>0, <1>3, <1>9 DEF Abort
    <2>2. Late(w) = 1 /\ Late(w)' = 1 /\ LateCom(w) = 0 /\ LateCom(w)' = 0
      BY <2>1 DEF Late, LateCom, Ends
    <2> QED
      BY <1>0, <1>2, <2>1, <2>2 DEF stats
  <1>10. CASE NotifyClient(w)
    <2>1. wpc[w] = "notify" /\ wpc'[w] = "measure" /\ err'[w] = err[w] /\ UNCHANGED stats
      BY <1>0, <1>10 DEF NotifyClient
    <2>2. Late(w) = 1 /\ Late(w)' = 1 /\ LateCom(w)' = LateCom(w) /\ LateCom(w) \in Int
      BY <2>1 DEF Late, LateCom, Ends
    <2> QED
      BY <1>0, <1>2, <2>1, <2>2 DEF stats
  <1>11. CASE CheckMeasure(w)
    <2>1. wpc[w] = "measure" /\ wpc'[w] \in {"att", "idle"} /\ UNCHANGED stats
      BY <1>0, <1>11 DEF CheckMeasure, Return
    <2>2. ASSUME measure = "MEASURE"
          PROVE  Late(w) = 1 /\ Late(w)' = 1 /\ LateCom(w)' = LateCom(w) /\ LateCom(w) \in Int
      <3>1. wpc'[w] = "att" /\ err' = err
        BY <1>0, <1>11, <2>2 DEF CheckMeasure
      <3> QED
        BY <2>1, <3>1 DEF Late, LateCom, Ends
    <2> QED
      BY <1>0, <1>2, <2>1, <2>2 DEF stats
  <1>12. CASE IncTrxAtt(w)
    <2>1. /\ wpc[w] = "att" /\ my_stats' = my_stats
          /\ env_stats' = [env_stats EXCEPT !.att = @ + 1]
          /\ \/ wpc'[w] = "com" /\ err[w] = "ok" /\ err'[w] = "ok"
             \/ wpc'[w] = "idle" /\ err[w] # "ok" /\ err'[w] = "ok"
      BY <1>0, <1>12 DEF IncTrxAtt, Return
    <2>2. env_stats'.att = env_stats.att + 1 /\ env_stats'.com = env_stats.com
      BY <1>0, <2>1
    <2>3. /\ Late(w) = 1 /\ Late(w)' = 0 /\ LateCom(w)' = LateCom(w) /\ LateCom(w) \in Int
          /\ HalfOf[w] = 0 /\ HalfOf'[w] \in 0 .. 1
      BY <1>2, <2>1 DEF Late, LateCom, Ends
    <2> QED
      BY <1>0, <1>2, <2>1, <2>2, <2>3
  <1>13. CASE IncTrxCom(w)
    <2>1. /\ wpc[w] = "com" /\ err[w] = "ok" /\ wpc'[w] = "idle" /\ my_stats' = my_stats
          /\ env_stats' = [env_stats EXCEPT !.com = @ + 1]
      BY <1>0, <1>3, <1>13 DEF IncTrxCom, Return
    <2>2. env_stats'.att = env_stats.att /\ env_stats'.com = env_stats.com + 1
      BY <1>0, <2>1
    <2>3. /\ Late(w) = 0 /\ Late(w)' = 0 /\ LateCom(w) = 1 /\ LateCom(w)' = 0
          /\ HalfOf[w] = 1 /\ HalfOf'[w] = 0
      BY <1>2, <2>1 DEF Late, LateCom, Ends
    <2> QED
      BY <1>0, <1>2, <2>1, <2>2, <2>3
  <1> QED
    BY <1>4, <1>5, <1>6, <1>7, <1>8, <1>9, <1>10, <1>11, <1>12, <1>13 DEF Worker, Call, Failing

LEMMA EnvStep ==
  ASSUME TypeInv, PerWorker, EnvInv, NEW w \in Workers, Worker(w)
  PROVE  EnvInv'
  <1> DEFINE a == AttOf'[w] - AttOf[w]
             c == ComOf'[w] - ComOf[w]
             h == HalfOf'[w] - HalfOf[w]
             A == SumOf(AttOf, Workers)
             C == SumOf(ComOf, Workers)
             H == SumOf(HalfOf, Workers)
  <1>1. a \in Int /\ c \in Int /\ h \in Int /\ A \in Int /\ C \in Int /\ H \in Int
    <2>1. AttOf \in [Workers -> Int] /\ ComOf \in [Workers -> Int] /\ HalfOf \in [Workers -> Int]
      BY EnvTypes
    <2>2. AttOf' \in [Workers -> Int] /\ ComOf' \in [Workers -> Int]
          /\ HalfOf' \in [Workers -> Int]
      BY TypeWorker, EnvTypesNext
    <2> HIDE DEF AttOf, ComOf, HalfOf
    <2>3. a \in Int /\ c \in Int /\ h \in Int
      BY <2>1, <2>2
    <2> QED
      BY <2>1, <2>3, SumType, WorkersFinite
  <1>2. /\ SumOf(AttOf', Workers) = A + a /\ SumOf(ComOf', Workers) = C + c
        /\ SumOf(HalfOf', Workers) = H + h
    BY EnvChanges
  <1>3. /\ measure = "MEASURE" => a = env_stats'.att - env_stats.att
                                  /\ c = env_stats'.com - env_stats.com
        /\ h <= (env_stats'.att - env_stats.att) - (env_stats'.com - env_stats.com)
    BY EnvTerms
  <1>4. /\ env_stats.com + H <= env_stats.att
        /\ measure = "MEASURE" => env_stats.att = A /\ env_stats.com = C
    BY DEF EnvInv
  <1>5. /\ env_stats.att \in Nat /\ env_stats.com \in Nat
        /\ env_stats'.att \in Nat /\ env_stats'.com \in Nat
    BY TypeWorker DEF TypeInv
  <1>6. measure' = measure
    <2>1. UNCHANGED measure
      BY DEF Worker, Begin, Probe, NotFound, Update, Stamp, AddTuple, Duplicate, Deadlock,
             SmError, Commit, CountFailure, Abort, NotifyClient, CheckMeasure, IncTrxAtt,
             IncTrxCom, Proceed, Fail, main
    <2> QED
      BY <2>1
  <1> HIDE DEF a, c, h, A, C, H
  <1>7. env_stats'.com + (H + h) <= env_stats'.att
    BY <1>1, <1>3, <1>4, <1>5
  <1>8. measure' = "MEASURE" => env_stats'.att = A + a /\ env_stats'.com = C + c
    BY <1>1, <1>3, <1>4, <1>5, <1>6
  <1> QED
    BY <1>2, <1>7, <1>8 DEF EnvInv

\* The main thread and the clock.
LEMMA EnvFrame ==
  ASSUME EnvInv, UNCHANGED <<wpc, err, my_stats, env_stats>>, measure' \in {measure, "DONE"}
  PROVE  EnvInv'
  <1>1. AttOf' = AttOf /\ ComOf' = ComOf /\ HalfOf' = HalfOf
    BY DEF AttOf, ComOf, HalfOf, Late, LateCom
  <1> QED
    BY <1>1 DEF EnvInv

-----------------------------------------------------------------------------
(***************************************************************************)
(* The print of the throughput.                                            *)
(***************************************************************************)
LEMMA ReportTypes ==
  TypeInv => /\ LowOf \in [Workers -> Int] /\ HighOf \in [Workers -> Int]
             /\ AttemptedOf(my_stats) \in [Workers -> Int]
             /\ FailedOf(my_stats) \in [Workers -> Int]
             /\ committed \in [Workers -> Int]
  <1> SUFFICES ASSUME TypeInv
               PROVE  /\ LowOf \in [Workers -> Int] /\ HighOf \in [Workers -> Int]
                      /\ AttemptedOf(my_stats) \in [Workers -> Int]
                      /\ FailedOf(my_stats) \in [Workers -> Int]
                      /\ committed \in [Workers -> Int]
    OBVIOUS
  <1>1. \A w \in Workers : /\ my_stats[w].attempted \in Int /\ my_stats[w].failed \in Int
                           /\ my_stats[w].deadlocked \in Int /\ committed[w] \in Int
    <2> SUFFICES ASSUME NEW w \in Workers
                 PROVE  /\ my_stats[w].attempted \in Int /\ my_stats[w].failed \in Int
                        /\ my_stats[w].deadlocked \in Int /\ committed[w] \in Int
      OBVIOUS
    <2>1. my_stats[w] \in [attempted : Nat, failed : Nat, deadlocked : Nat]
      BY DEF TypeInv
    <2> QED
      BY <2>1 DEF TypeInv
  <1>2. AttemptedOf(my_stats) \in [Workers -> Int] /\ FailedOf(my_stats) \in [Workers -> Int]
    BY <1>1 DEF AttemptedOf, FailedOf
  <1>3. committed \in [Workers -> Int]
    BY DEF TypeInv
  <1>4. LowOf \in [Workers -> Int]
    BY <1>1 DEF LowOf
  <1>5. HighOf \in [Workers -> Int]
    BY <1>1 DEF HighOf
  <1> QED
    BY <1>2, <1>3, <1>4, <1>5

LEMMA ReportTypesNext ==
  ASSUME TypeInv'
  PROVE  LowOf' \in [Workers -> Int] /\ HighOf' \in [Workers -> Int]
  <1>1. (TypeInv => /\ LowOf \in [Workers -> Int] /\ HighOf \in [Workers -> Int]
                    /\ AttemptedOf(my_stats) \in [Workers -> Int]
                    /\ FailedOf(my_stats) \in [Workers -> Int]
                    /\ committed \in [Workers -> Int])'
    BY ReportTypes, PTL
  <1> QED
    BY <1>1

\* A thread's counters never go back.
LEMMA CountersGrow ==
  ASSUME TypeInv, NEW w \in Workers, Worker(w), NEW v \in Workers
  PROVE  /\ my_stats[v].attempted <= my_stats'[v].attempted
         /\ my_stats[v].failed <= my_stats'[v].failed
         /\ my_stats[v].deadlocked <= my_stats'[v].deadlocked
         /\ committed[v] <= committed'[v]
  <1>0. /\ my_stats[v] \in [attempted : Nat, failed : Nat, deadlocked : Nat]
        /\ committed[v] \in Nat /\ DOMAIN my_stats = Workers /\ DOMAIN committed = Workers
    BY DEF TypeInv
  <1>1. CASE v # w
    BY <1>0, <1>1, OthersStay
  <1>2. CASE v = w /\ Begin(w)
    <2>1. committed' = committed /\ my_stats'[v] = [my_stats[v] EXCEPT !.attempted = @ + 1]
      BY <1>0, <1>2 DEF Begin
    <2> QED
      BY <1>0, <2>1
  <1>3. CASE v = w /\ CountFailure(w)
    <2>1. /\ committed' = committed
          /\ \/ my_stats'[v] = [my_stats[v] EXCEPT !.deadlocked = @ + 1]
             \/ my_stats'[v] = [my_stats[v] EXCEPT !.failed = @ + 1]
      BY <1>0, <1>3 DEF CountFailure
    <2> QED
      BY <1>0, <2>1
  <1>4. CASE v = w /\ Commit(w)
    <2>1. my_stats' = my_stats /\ committed'[v] = committed[v] + 1
      BY <1>0, <1>4 DEF Commit, stats
    <2> QED
      BY <1>0, <2>1
  <1>5. CASE ~Begin(w) /\ ~CountFailure(w) /\ ~Commit(w)
    <2>1. UNCHANGED <<my_stats, committed>>
      <3>1. CASE Call(w)
        BY <3>1, CallFrame DEF stats
      <3>2. CASE Failing(w)
        BY <3>2, FailFrame DEF stats
      <3>3. CASE Abort(w) \/ NotifyClient(w) \/ CheckMeasure(w) \/ IncTrxAtt(w) \/ IncTrxCom(w)
        BY <3>3 DEF Abort, NotifyClient, CheckMeasure, IncTrxAtt, IncTrxCom, stats
      <3> QED
        BY <1>5, <3>1, <3>2, <3>3 DEF Worker, Call, Failing
    <2> QED
      BY <1>0, <2>1
  <1> QED
    BY <1>1, <1>2, <1>3, <1>4, <1>5

\* So while the workers run, what may still be reported only grows.
LEMMA ReportWorker ==
  ASSUME TypeInv, ReportInv, NEW w \in Workers, Worker(w)
  PROVE  ReportInv'
  <1>1. UNCHANGED <<mpc, report, before>>
    BY DEF Worker, Begin, Probe, NotFound, Update, Stamp, AddTuple, Duplicate, Deadlock,
           SmError, Commit, CountFailure, Abort, NotifyClient, CheckMeasure, IncTrxAtt,
           IncTrxCom, Proceed, Fail, main
  <1>2. /\ LowOf \in [Workers -> Int] /\ HighOf \in [Workers -> Int]
        /\ LowOf' \in [Workers -> Int] /\ HighOf' \in [Workers -> Int]
    BY ReportTypes, ReportTypesNext, TypeWorker
  <1>3. ASSUME NEW v \in Workers
        PROVE  LowOf[v] <= LowOf'[v] /\ HighOf[v] <= HighOf'[v]
    <2>1. /\ my_stats[v] \in [attempted : Nat, failed : Nat, deadlocked : Nat]
          /\ my_stats'[v] \in [attempted : Nat, failed : Nat, deadlocked : Nat]
          /\ committed[v] \in Nat /\ committed'[v] \in Nat
      BY TypeWorker DEF TypeInv
    <2>2. /\ my_stats[v].attempted <= my_stats'[v].attempted
          /\ my_stats[v].failed <= my_stats'[v].failed
          /\ my_stats[v].deadlocked <= my_stats'[v].deadlocked
          /\ committed[v] <= committed'[v]
      BY CountersGrow
    <2>3. ReadOf(v)' = ReadOf(v)
      BY <1>1 DEF ReadOf
    <2> QED
      BY <2>1, <2>2, <2>3 DEF LowOf, HighOf
  <1> HIDE DEF LowOf, HighOf
  <1>4. /\ SumOf(LowOf, Workers) <= SumOf(LowOf', Workers)
        /\ SumOf(HighOf, Workers) <= SumOf(HighOf', Workers)
    BY <1>2, <1>3, SumMono, WorkersFinite
  <1>5. /\ SumOf(LowOf, Workers) \in Int /\ SumOf(LowOf', Workers) \in Int
        /\ SumOf(HighOf, Workers) \in Int /\ SumOf(HighOf', Workers) \in Int
    BY <1>2, SumType, WorkersFinite
  <1>6. Reported' = Reported /\ Reported \in Int
    <2>1. report \in [attempted : Nat, failed : Nat, deadlocked : Nat]
      BY DEF TypeInv
    <2> QED
      BY <1>1, <2>1 DEF Reported
  <1>7. before.committed \in Int /\ before.failures \in Int
    BY DEF TypeInv
  <1> HIDE DEF Reported
  <1> QED
    BY <1>1, <1>4, <1>5, <1>6, <1>7 DEF ReportInv

\* The counter that is read next is one of a worker.
LEMMA ReadsAre ==
  ASSUME TypeInv, mpc < NumReads
  PROVE  \E w \in Workers : /\ w = 1 + (mpc \div Len(Counters))
                            /\ ReadOf(w) = mpc % Len(Counters) /\ ReadOf(w) \in 0 .. 2
                            /\ \A v \in Workers : v < w => ReadOf(v) > 2
                            /\ \A v \in Workers : v > w => ReadOf(v) < 0
  <1>1. mpc \in Nat /\ NumWorkers \in Nat /\ mpc < 3 * NumWorkers
    BY CountersAre, TpcbAssumption DEF TypeInv
  <1> DEFINE q == mpc \div 3
             r == mpc % 3
  <1>2. q \in Nat /\ r \in 0 .. 2 /\ mpc = 3 * q + r
    BY <1>1
  <1> HIDE DEF q, r
  <1>3. 1 + q \in Workers
    BY <1>1, <1>2 DEF Workers
  <1>4. ReadOf(1 + q) = r
    BY <1>2 DEF ReadOf
  <1>5. \A v \in Workers : /\ v < 1 + q => ReadOf(v) > 2
                           /\ v > 1 + q => ReadOf(v) < 0
    BY <1>1, <1>2 DEF ReadOf, Workers
  <1>6. q = mpc \div Len(Counters) /\ r = mpc % Len(Counters)
    BY CountersAre DEF q, r
  <1> QED
    BY <1>2, <1>3, <1>4, <1>5, <1>6
\* Reading a counter adds it to the report.
LEMMA ReadAdds ==
  ASSUME TypeInv, ReadCounter, NEW w \in Workers, ReadOf(w) \in 0 .. 2,
         w = 1 + (mpc \div Len(Counters)), ReadOf(w) = mpc % Len(Counters)
  PROVE  \E c \in {"attempted", "failed", "deadlocked"} :
           /\ c = Counters[1 + ReadOf(w)]
           /\ report' = [report EXCEPT ![c] = @ + my_stats[w][c]]
  <1>1. PICK c : c = Counters[1 + (mpc % Len(Counters))]
    OBVIOUS
  <1>2. report' = [report EXCEPT ![c] = @ + my_stats[w][c]]
    BY <1>1 DEF ReadCounter
  <1>3. c = Counters[1 + ReadOf(w)]
    BY <1>1
  <1>4. 1 + ReadOf(w) \in {1, 2, 3}
    OBVIOUS
  <1>5. c \in {"attempted", "failed", "deadlocked"}
    BY <1>3, <1>4, CountersAre
  <1> QED
    BY <1>2, <1>3, <1>5

\* It moves from what may be reported to what is.
LEMMA ReadTerms ==
  ASSUME TypeInv, PerWorker, ReadCounter, NEW w \in Workers, ReadOf(w) \in 0 .. 2,
         w = 1 + (mpc \div Len(Counters)), ReadOf(w) = mpc % Len(Counters)
  PROVE  /\ LowOf'[w] - LowOf[w] + (Reported' - Reported) = 0
         /\ Reported' - Reported <= HighOf'[w] - HighOf[w]
         /\ LowOf[w] \in Int /\ LowOf'[w] \in Int /\ HighOf[w] \in Int /\ HighOf'[w] \in Int
  <1> DEFINE a == my_stats[w].attempted
             f == my_stats[w].failed
             d == my_stats[w].deadlocked
             m == committed[w]
  <1>1. /\ a \in Nat /\ f \in Nat /\ d \in Nat /\ m \in Nat
        /\ report \in [attempted : Nat, failed : Nat, deadlocked : Nat]
    <2>1. my_stats[w] \in [attempted : Nat, failed : Nat, deadlocked : Nat]
      BY DEF TypeInv
    <2> QED
      BY <2>1 DEF TypeInv
  <1>2. my_stats' = my_stats /\ committed' = committed /\ mpc' = mpc + 1
    BY DEF ReadCounter, stats
  <1>3. ReadOf(w)' = ReadOf(w) + 1
    <2>1. mpc \in Int /\ w \in Int
      BY DEF TypeInv, Workers
    <2>2. ReadOf(w)' = mpc' - 3 * (w - 1)
      BY DEF ReadOf
    <2>3. ReadOf(w) = mpc - 3 * (w - 1)
      BY DEF ReadOf
    <2> QED
      BY ONLY <1>2, <2>1, <2>2, <2>3
  <1>4. a = m + f + d + Running(w) /\ Running(w) \in 0 .. 1
    BY DEF PerWorker, CountsInv, Running
  <1>5. /\ LowOf[w] = IF ReadOf(w) <= 0 THEN a
                      ELSE IF ReadOf(w) = 1 THEN 0
                      ELSE IF ReadOf(w) = 2 THEN f ELSE f + d
        /\ LowOf'[w] = IF ReadOf(w)' <= 0 THEN a
                       ELSE IF ReadOf(w)' = 1 THEN 0
                       ELSE IF ReadOf(w)' = 2 THEN f ELSE f + d
    BY <1>2 DEF LowOf
  <1>6. /\ HighOf[w] = IF ReadOf(w) <= 0 THEN 0
                       ELSE IF ReadOf(w) = 1 THEN m + 1 + f + d
                       ELSE IF ReadOf(w) = 2 THEN m + 1 + d ELSE m + 1
        /\ HighOf'[w] = IF ReadOf(w)' <= 0 THEN 0
                        ELSE IF ReadOf(w)' = 1 THEN m + 1 + f + d
                        ELSE IF ReadOf(w)' = 2 THEN m + 1 + d ELSE m + 1
    BY <1>2 DEF HighOf
  <1>7. PICK c \in {"attempted", "failed", "deadlocked"} :
          /\ c = Counters[1 + ReadOf(w)]
          /\ report' = [report EXCEPT ![c] = @ + my_stats[w][c]]
    BY ReadAdds
  <1>8. CASE ReadOf(w) = 0
    <2>1. c = "attempted"
      BY <1>7, <1>8, CountersAre
    <2>2. Reported' - Reported = a
      BY <1>1, <1>7, <2>1, SMTT(30) DEF Reported
    <2>3. ReadOf(w)' = 1
      BY <1>3, <1>8
    <2>4. LowOf[w] = a /\ LowOf'[w] = 0 /\ HighOf[w] = 0 /\ HighOf'[w] = m + 1 + f + d
      BY <1>5, <1>6, <1>8, <2>3
    <2> HIDE DEF a, f, d, m
    <2> QED
      BY <1>1, <1>4, <2>2, <2>4
  <1>9. CASE ReadOf(w) = 1
    <2>1. c = "failed"
      BY <1>7, <1>9, CountersAre
    <2>2. Reported' - Reported = 0 - f
      BY <1>1, <1>7, <2>1, SMTT(30) DEF Reported
    <2>3. ReadOf(w)' = 2
      BY <1>3, <1>9
    <2>4. LowOf[w] = 0 /\ LowOf'[w] = f /\ HighOf[w] = m + 1 + f + d /\ HighOf'[w] = m + 1 + d
      BY <1>5, <1>6, <1>9, <2>3
    <2> HIDE DEF a, f, d, m
    <2> QED
      BY <1>1, <1>4, <2>2, <2>4
  <1>10. CASE ReadOf(w) = 2
    <2>1. c = "deadlocked"
      BY <1>7, <1>10, CountersAre
    <2>2. Reported' - Reported = 0 - d
      BY <1>1, <1>7, <2>1, SMTT(30) DEF Reported
    <2>3. ReadOf(w)' = 3
      BY <1>3, <1>10
    <2>4. LowOf[w] = f /\ LowOf'[w] = f + d /\ HighOf[w] = m + 1 + d /\ HighOf'[w] = m + 1
      BY <1>5, <1>6, <1>10, <2>3
    <2> HIDE DEF a, f, d, m
    <2> QED
      BY <1>1, <1>4, <2>2, <2>4
  <1> QED
    BY <1>8, <1>9, <1>10

LEMMA TypeRead ==
  ASSUME TypeInv, ReadCounter
  PROVE  TypeInv'
  <1>1. mpc < NumReads /\ mpc' = mpc + 1 /\ mpc \in Nat /\ NumReads \in Nat
    BY CountersAre DEF ReadCounter, TypeInv
  <1>2. PICK w \in Workers : w = 1 + (mpc \div Len(Counters)) /\ ReadOf(w) = mpc % Len(Counters)
                             /\ ReadOf(w) \in 0 .. 2
    BY <1>1, ReadsAre
  <1>3. my_stats[w] \in [attempted : Nat, failed : Nat, deadlocked : Nat]
    BY DEF TypeInv
  <1>4. PICK c \in {"attempted", "failed", "deadlocked"} :
          report' = [report EXCEPT ![c] = @ + my_stats[w][c]]
    BY <1>2, ReadAdds
  <1>5. report' \in [attempted : Nat, failed : Nat, deadlocked : Nat]
    <2>1. report \in [attempted : Nat, failed : Nat, deadlocked : Nat]
      BY DEF TypeInv
    <2> QED
      BY <1>3, <1>4, <2>1
  <1>6. before' \in [committed : Int, failures : Int]
    <2>1. Committed \in Int /\ Failures \in Int
      BY CommittedIsSum, FailuresIsSum, ReportTypes, SumType, WorkersFinite
    <2>2. before \in [committed : Int, failures : Int]
      BY DEF TypeInv
    <2> QED
      BY <2>1, <2>2 DEF ReadCounter
  <1>7. mpc' \in 0 .. NumReads + 1 /\ NumReads' = NumReads
    BY <1>1 DEF NumReads, Counters
  <1> QED
    BY <1>5, <1>6, <1>7 DEF ReadCounter, TypeInv, Ends, db, stats

LEMMA ReportRead ==
  ASSUME TypeInv, PerWorker, ReportInv, ReadCounter
  PROVE  ReportInv'
  <1>1. mpc < NumReads /\ mpc' = mpc + 1 /\ mpc \in Nat /\ my_stats' = my_stats
        /\ committed' = committed
    BY DEF ReadCounter, TypeInv, stats
  <1>2. PICK w \in Workers : /\ w = 1 + (mpc \div Len(Counters))
                             /\ ReadOf(w) = mpc % Len(Counters) /\ ReadOf(w) \in 0 .. 2
                             /\ \A v \in Workers : v < w => ReadOf(v) > 2
                             /\ \A v \in Workers : v > w => ReadOf(v) < 0
    BY <1>1, ReadsAre
  <1>3. /\ LowOf \in [Workers -> Int] /\ HighOf \in [Workers -> Int]
        /\ LowOf' \in [Workers -> Int] /\ HighOf' \in [Workers -> Int]
    BY ReportTypes, ReportTypesNext, TypeRead
  <1>4. ASSUME NEW v \in Workers \ {w}
        PROVE  LowOf'[v] = LowOf[v] /\ HighOf'[v] = HighOf[v]
    <2>1. v \in Int /\ w \in Int /\ (v < w \/ v > w)
      BY DEF Workers
    <2>2. ReadOf(v) \in Int /\ ReadOf(v)' = ReadOf(v) + 1
      BY <1>1, <2>1 DEF ReadOf
    <2>3. ReadOf(v) > 2 \/ ReadOf(v) < 0
      BY <1>2, <2>1
    <2> QED
      BY <1>1, <2>2, <2>3 DEF LowOf, HighOf
  <1>5. /\ LowOf'[w] - LowOf[w] + (Reported' - Reported) = 0
        /\ Reported' - Reported <= HighOf'[w] - HighOf[w]
        /\ LowOf[w] \in Int /\ LowOf'[w] \in Int /\ HighOf[w] \in Int /\ HighOf'[w] \in Int
    BY <1>2, ReadTerms
  <1>6. Reported \in Int /\ Reported' \in Int
    <2>1. /\ report \in [attempted : Nat, failed : Nat, deadlocked : Nat]
          /\ report' \in [attempted : Nat, failed : Nat, deadlocked : Nat]
      BY TypeRead DEF TypeInv
    <2> QED
      BY <2>1 DEF Reported
  <1> HIDE DEF LowOf, HighOf, Reported
  <1>7. /\ SumOf(LowOf', Workers) = SumOf(LowOf, Workers) + (LowOf'[w] - LowOf[w])
        /\ SumOf(HighOf', Workers) = SumOf(HighOf, Workers) + (HighOf'[w] - HighOf[w])
    BY <1>3, <1>4, SumChanges, WorkersFinite
  <1>8. SumOf(LowOf, Workers) \in Int /\ SumOf(HighOf, Workers) \in Int
    BY <1>3, SumType, WorkersFinite
  <1>9. Reported' <= SumOf(HighOf', Workers)
    BY <1>5, <1>6, <1>7, <1>8 DEF ReportInv
  <1>10. Reported' + SumOf(LowOf', Workers) = Reported + SumOf(LowOf, Workers)
    BY <1>5, <1>6, <1>7, <1>8
  <1>11. CASE mpc > 0
    <2>1. before' = before
      BY <1>11 DEF ReadCounter
    <2> QED
      BY <1>1, <1>9, <1>10, <1>11, <2>1 DEF ReportInv
  <1>12. CASE mpc = 0
    <2>1. before'.committed = Committed /\ before'.failures = Failures
      BY <1>12 DEF ReadCounter
    <2>2. Reported = 0
      BY <1>12 DEF ReportInv
    <2>3. SumOf(LowOf, Workers) >= SumOf(committed, Workers) + SumOf(FailedOf(my_stats), Workers)
      <3> DEFINE k == [v \in Workers |-> committed[v] + FailedOf(my_stats)[v]]
      <3>1. FailedOf(my_stats) \in [Workers -> Int] /\ committed \in [Workers -> Int]
        BY ReportTypes
      <3>2. k \in [Workers -> Int] /\ \A v \in Workers : k[v] = committed[v] + FailedOf(my_stats)[v]
        BY <3>1
      <3>3. ASSUME NEW v \in Workers PROVE k[v] <= LowOf[v]
        <4>1. my_stats[v].attempted
                = committed[v] + my_stats[v].failed + my_stats[v].deadlocked + Running(v)
              /\ Running(v) \in 0 .. 1
          BY DEF PerWorker, CountsInv, Running
        <4>2. /\ my_stats[v] \in [attempted : Nat, failed : Nat, deadlocked : Nat]
              /\ committed[v] \in Nat
          BY DEF TypeInv
        <4>3. ReadOf(v) <= 0
          BY <1>12, CountersAre DEF ReadOf, Workers
        <4>4. LowOf[v] = my_stats[v].attempted
          BY <4>3 DEF LowOf
        <4> QED
          BY <4>1, <4>2, <4>4 DEF FailedOf
      <3> HIDE DEF k
      <3>4. SumOf(k, Workers)
              = SumOf(committed, Workers) + SumOf(FailedOf(my_stats), Workers)
        BY <3>1, <3>2, SumAdds, WorkersFinite
      <3>5. SumOf(k, Workers) <= SumOf(LowOf, Workers)
        BY <1>3, <3>2, <3>3, SumMono, WorkersFinite
      <3>6. SumOf(k, Workers) \in Int
        BY <3>2, SumType, WorkersFinite
      <3> QED
        BY <1>8, <3>4, <3>5, <3>6
    <2>4. Committed + Failures \in Int
      BY CommittedIsSum, FailuresIsSum, ReportTypes, SumType, WorkersFinite
    <2>5. Reported' + SumOf(LowOf', Workers) >= before'.committed + before'.failures
      BY <1>8, <1>10, <2>1, <2>2, <2>3, <2>4, CommittedIsSum, FailuresIsSum
    <2> QED
      BY <1>1, <1>9, <2>5 DEF ReportInv
  <1> QED
    BY <1>1, <1>11, <1>12

\* Once everything is read, the end of the measurement changes nothing; nor does the clock.
LEMMA ReportFrame ==
  ASSUME TypeInv, ReportInv, SetDone \/ Tick
  PROVE  ReportInv'
  <1>1. UNCHANGED <<my_stats, committed, report, before>>
    BY DEF SetDone, Tick, stats, main
  <1>2. CASE Tick
    <2>1. mpc' = mpc
      BY <1>2 DEF Tick, main
    <2>2. LowOf' = LowOf /\ HighOf' = HighOf
      BY <1>1, <2>1 DEF LowOf, HighOf, ReadOf
    <2> QED
      BY <1>1, <2>1, <2>2 DEF ReportInv, Reported
  <1>3. CASE SetDone
    <2>1. mpc = 3 * NumWorkers /\ mpc' = mpc + 1 /\ NumWorkers \in Nat /\ NumWorkers > 0
      BY <1>3, CountersAre, TpcbAssumption DEF SetDone
    <2>2. \A v \in Workers : ReadOf(v) > 2 /\ ReadOf(v)' > 2 /\ ReadOf(v) \in Int /\ ReadOf(v)' \in Int
      BY <2>1 DEF ReadOf, Workers
    <2>3. LowOf' = LowOf /\ HighOf' = HighOf
      BY <1>1, <2>2 DEF LowOf, HighOf
    <2>4. mpc > 0 /\ mpc' > 0 /\ mpc' # 0
      BY <2>1
    <2> QED
      BY <1>1, <2>3, <2>4 DEF ReportInv, Reported
  <1> QED
    BY <1>2, <1>3

-----------------------------------------------------------------------------
(***************************************************************************)
(* The invariant holds.                                                    *)
(***************************************************************************)
LEMMA MainType ==
  ASSUME TypeInv, SetDone \/ Tick
  PROVE  TypeInv'
  <1>1. NumReads \in Nat /\ NumReads' = NumReads
    BY CountersAre DEF NumReads, Counters
  <1>2. CASE Tick
    BY <1>1, <1>2 DEF Tick, TypeInv, Ends, db, stats, main
  <1>3. CASE SetDone
    <2>1. mpc' \in 0 .. NumReads + 1
      BY <1>1, <1>3 DEF SetDone
    <2> QED
      BY <1>1, <1>3, <2>1 DEF SetDone, TypeInv, Ends, db, stats
  <1> QED
    BY <1>2, <1>3

LEMMA MainStep ==
  ASSUME Inv, ReadCounter \/ SetDone \/ Tick
  PROVE  Inv'
  <1>1. /\ UNCHANGED <<wpc, step, err, my_stats, env_stats, committed, locks, undo, added, history>>
        /\ measure' \in {measure, "DONE"}
    BY DEF ReadCounter, SetDone, Tick, db, stats, main
  <1>2. TypeInv'
    BY TypeRead, MainType DEF Inv
  <1>3. PerWorker'
    BY <1>1, WorkerFrame DEF Inv, PerWorker
  <1>4. RowsInv' /\ OneRowPerCommit'
    BY <1>1, RowsFrame DEF Inv
  <1>5. EnvInv'
    BY <1>1, EnvFrame DEF Inv
  <1>6. ReportInv'
    BY ReportRead, ReportFrame DEF Inv
  <1> QED
    BY <1>2, <1>3, <1>4, <1>5, <1>6 DEF Inv

LEMMA InitInv == Init => Inv
  <1> SUFFICES ASSUME Init PROVE Inv
    OBVIOUS
  <1>1. /\ wpc = [w \in Workers |-> "idle"] /\ step = [w \in Workers |-> 1]
        /\ err = [w \in Workers |-> "ok"] /\ committed = [w \in Workers |-> 0]
        /\ locks = [w \in Workers |-> {}] /\ undo = [w \in Workers |-> <<>>]
        /\ added = [w \in Workers |-> {}] /\ history = {}
        /\ my_stats = [w \in Workers |-> [attempted |-> 0, failed |-> 0, deadlocked |-> 0]]
        /\ env_stats = [att |-> 0, com |-> 0] /\ measure = "MEASURE" /\ mpc = 0
        /\ report = [attempted |-> 0, failed |-> 0, deadlocked |-> 0]
        /\ before = [committed |-> 0, failures |-> 0]
    BY DEF Init
  <1>2. TypeInv
    <2>1. 1 \in 1 .. Len(AcctUpdate) + 1 /\ 0 \in 0 .. NumReads + 1
      BY CallsAre, CountersAre
    <2>2. IsFiniteSet({})
      BY FS_EmptySet
    <2> QED
      BY <1>1, <2>1, <2>2 DEF TypeInv, Ends
  <1>3. PerWorker
    BY <1>1 DEF PerWorker, WorkerInv, LocksInv, CountsInv, Running
  <1>4. RowsInv
    BY <1>1 DEF RowsInv
  <1>5. OneRowPerCommit
    <2>1. SumOf(committed, Workers) = 0
      <3>1. committed \in [Workers -> Int] /\ \A w \in Workers : committed[w] = 0
        BY <1>1
      <3> QED
        BY <3>1, SumOfZeros, WorkersFinite
    <2>2. history \ UNION {added[w] : w \in Workers} = {}
      BY <1>1
    <2>3. Cardinality({}) = 0
      BY FS_EmptySet
    <2> QED
      BY <2>1, <2>2, <2>3, CommittedIsSum DEF OneRowPerCommit
  <1>6. EnvInv
    <2>1. AttOf \in [Workers -> Int] /\ ComOf \in [Workers -> Int] /\ HalfOf \in [Workers -> Int]
      BY <1>2, EnvTypes
    <2>2. \A w \in Workers : AttOf[w] = 0 /\ ComOf[w] = 0 /\ HalfOf[w] = 0
      BY <1>1 DEF AttOf, ComOf, HalfOf, Late, LateCom, Ends
    <2>3. /\ SumOf(AttOf, Workers) = 0 /\ SumOf(ComOf, Workers) = 0
          /\ SumOf(HalfOf, Workers) = 0
      BY <2>1, <2>2, SumOfZeros, WorkersFinite
    <2> QED
      BY <1>1, <2>3 DEF EnvInv
  <1>7. ReportInv
    <2>1. HighOf \in [Workers -> Int]
      BY <1>2, ReportTypes
    <2>2. \A w \in Workers : HighOf[w] = 0
      BY <1>1 DEF HighOf, ReadOf, Workers
    <2>3. SumOf(HighOf, Workers) = 0
      BY <2>1, <2>2, SumOfZeros, WorkersFinite
    <2> QED
      BY <1>1, <2>3 DEF ReportInv, Reported
  <1> QED
    BY <1>2, <1>3, <1>4, <1>5, <1>6, <1>7 DEF Inv

LEMMA StepInv == Inv /\ [Next]_vars => Inv'
  <1> SUFFICES ASSUME Inv, [Next]_vars PROVE Inv'
    OBVIOUS
  <1>1. ASSUME NEW w \in Workers, Worker(w) PROVE Inv'
    <2>1. TypeInv'
      BY <1>1, TypeWorker DEF Inv
    <2>2. PerWorker'
      BY <1>1, PerWorkerStep DEF Inv
    <2>3. RowsInv' /\ OneRowPerCommit'
      BY <1>1, RowsStep DEF Inv
    <2>4. EnvInv'
      BY <1>1, EnvStep DEF Inv
    <2>5. ReportInv'
      BY <1>1, ReportWorker DEF Inv
    <2> QED
      BY <2>1, <2>2, <2>3, <2>4, <2>5 DEF Inv
  <1>2. CASE ReadCounter \/ SetDone \/ Tick
    BY <1>2, MainStep
  <1>3. CASE UNCHANGED vars
    <2>1. UNCHANGED <<wpc, step, err, my_stats, env_stats, committed, locks, undo, added,
                      history, measure, mpc, report, before>>
      BY <1>3 DEF vars, db, stats, main
    <2>2. TypeInv'
      <3>1. NumReads' = NumReads
        BY DEF NumReads, Counters
      <3> QED
        BY <2>1, <3>1 DEF Inv, TypeInv, Ends
    <2>3. PerWorker'
      BY <2>1, WorkerFrame DEF Inv, PerWorker
    <2>4. RowsInv' /\ OneRowPerCommit'
      BY <2>1, RowsFrame DEF Inv
    <2>5. EnvInv'
      BY <2>1, EnvFrame DEF Inv
    <2>6. ReportInv'
      <3>1. LowOf' = LowOf /\ HighOf' = HighOf
        BY <2>1 DEF LowOf, HighOf, ReadOf
      <3> QED
        BY <2>1, <3>1 DEF Inv, ReportInv, Reported
    <2> QED
      BY <2>2, <2>3, <2>4, <2>5, <2>6 DEF Inv
  <1> QED
    BY <1>1, <1>2, <1>3 DEF Next

\* The types, what each worker holds and has counted, the rows, the counters of the
\* environment and the sums of the print hang together in every reachable state.
THEOREM Invariance == Spec => []Inv
  BY InitInv, StepInv, PTL DEF Spec

-----------------------------------------------------------------------------
(***************************************************************************)
(* What follows.                                                           *)
(***************************************************************************)

\* Each committed account update, and no other, leaves a row of its own in the history,
\* however many workers commit, fail and abort at once.
THEOREM RowsMatchCommits == Spec => []OneRowPerCommit
  <1>1. Inv => OneRowPerCommit
    BY DEF Inv
  <1> QED
    BY <1>1, Invariance, PTL

\* The wrapper notifies the client when its transaction holds nothing any more.
THEOREM ClientIsFree == Spec => []ClientSeesTheEnd
  <1>1. Inv => ClientSeesTheEnd
    <2> SUFFICES ASSUME Inv, NEW w \in Workers, wpc[w] \in {"measure", "att", "com", "idle"}
                 PROVE  locks[w] = {} /\ undo[w] = <<>> /\ added[w] = {}
      BY DEF ClientSeesTheEnd
    <2>1. step[w] = 1 /\ locks[w] = {} /\ undo[w] = <<>>
      BY DEF Inv, PerWorker, WorkerInv, Ends
    <2>2. added[w] = {}
      BY <2>1 DEF Inv, RowsInv
    <2> QED
      BY <2>1, <2>2
  <1> QED
    BY <1>1, Invariance, PTL

\* The environment's counters agree with the threads' when no transaction runs, and it
\* never has more commits than attempts, whichever workers stand between two increments.
THEOREM EnvIsConsistent == Spec => []EnvCountersAgree
  <1>1. Inv => EnvCountersAgree
    <2> SUFFICES ASSUME Inv PROVE EnvCountersAgree
      OBVIOUS
    <2>0. TypeInv /\ EnvInv
      BY DEF Inv
    <2>1. /\ AttOf \in [Workers -> Int] /\ ComOf \in [Workers -> Int]
          /\ HalfOf \in [Workers -> Int]
          /\ AttemptedOf(my_stats) \in [Workers -> Int] /\ FailedOf(my_stats) \in [Workers -> Int]
      BY <2>0, EnvTypes, ReportTypes
    <2>2. SumOf(HalfOf, Workers) >= 0
      <3> DEFINE z == [w \in Workers |-> 0]
      <3>1. z \in [Workers -> Int] /\ \A w \in Workers : z[w] = 0 /\ z[w] <= HalfOf[w]
        BY DEF HalfOf
      <3> HIDE DEF z
      <3>2. SumOf(z, Workers) = 0 /\ SumOf(z, Workers) <= SumOf(HalfOf, Workers)
        BY <2>1, <3>1, SumOfZeros, SumMono, WorkersFinite
      <3> QED
        BY <3>2, <2>1, SumType, WorkersFinite
    <2>3. env_stats.com <= env_stats.att
      <3>1. /\ env_stats.com \in Nat /\ env_stats.att \in Nat
            /\ env_stats.com + SumOf(HalfOf, Workers) <= env_stats.att
        BY <2>0 DEF TypeInv, EnvInv
      <3>2. SumOf(HalfOf, Workers) \in Int
        BY <2>1, SumType, WorkersFinite
      <3> QED
        BY <2>2, <3>1, <3>2
    <2>4. ASSUME measure = "MEASURE", \A w \in Workers : wpc[w] = "idle"
          PROVE  env_stats = [att |-> Attempts, com |-> Attempts - Failures]
      <3>1. env_stats.att = SumOf(AttOf, Workers) /\ env_stats.com = SumOf(ComOf, Workers)
        BY <2>0, <2>4 DEF EnvInv
      <3>2. ASSUME NEW w \in Workers
            PROVE  /\ AttOf[w] = AttemptedOf(my_stats)[w]
                   /\ AttemptedOf(my_stats)[w] = ComOf[w] + FailedOf(my_stats)[w]
        <4>1. my_stats[w] \in [attempted : Nat, failed : Nat, deadlocked : Nat]
          BY <2>0 DEF TypeInv
        <4>2. Late(w) = 0 /\ LateCom(w) = 0
          BY <2>4 DEF Late, LateCom, Ends
        <4> QED
          BY <4>1, <4>2 DEF AttOf, ComOf, AttemptedOf, FailedOf
      <3>3. AttOf = AttemptedOf(my_stats)
        BY <3>2 DEF AttOf, AttemptedOf
      <3>4. SumOf(AttemptedOf(my_stats), Workers)
              = SumOf(ComOf, Workers) + SumOf(FailedOf(my_stats), Workers)
        BY <2>1, <3>2, SumAdds, WorkersFinite
      <3>5. SumOf(ComOf, Workers) \in Int /\ SumOf(FailedOf(my_stats), Workers) \in Int
        BY <2>1, SumType, WorkersFinite
      <3>6. env_stats.att = Attempts /\ env_stats.com = Attempts - Failures
        BY <3>1, <3>3, <3>4, <3>5, AttemptsIsSum, FailuresIsSum
      <3>7. env_stats \in [att : Nat, com : Nat]
        BY <2>0 DEF TypeInv
      <3> QED
        BY <3>6, <3>7
    <2> QED
      BY <2>3, <2>4 DEF EnvCountersAgree
  <1> QED
    BY <1>1, Invariance, PTL

\* What print_throughput() reports while the threads run is off by the transactions in
\* flight at most on one side, and by the failures during the print on the other.
THEOREM ReportStaysClose == Spec => []ReportIsClose
  <1>1. Inv => ReportIsClose
    <2> SUFFICES ASSUME Inv, mpc >= NumReads
                 PROVE  /\ Reported <= Committed + NumWorkers
                        /\ Reported >= before.committed - (Failures - before.failures)
      BY DEF ReportIsClose, Reported
    <2>0. TypeInv /\ ReportInv
      BY DEF Inv
    <2>1. /\ mpc \in Nat /\ NumWorkers \in Nat /\ NumWorkers > 0 /\ mpc >= 3 * NumWorkers
          /\ before.committed \in Int /\ before.failures \in Int
      BY <2>0, CountersAre, TpcbAssumption DEF TypeInv
    <2>2. \A w \in Workers : ReadOf(w) \in Int /\ ReadOf(w) > 2
      BY <2>1 DEF ReadOf, Workers
    <2>3. /\ LowOf \in [Workers -> Int] /\ HighOf \in [Workers -> Int]
          /\ FailedOf(my_stats) \in [Workers -> Int] /\ committed \in [Workers -> Int]
      BY <2>0, ReportTypes
    <2>4. LowOf = FailedOf(my_stats)
      BY <2>2 DEF LowOf, FailedOf
    <2>5. SumOf(HighOf, Workers) = SumOf(committed, Workers) + NumWorkers
      <3> DEFINE ones == [w \in Workers |-> 1]
      <3>1. /\ ones \in [Workers -> Int] /\ \A w \in Workers : ones[w] = 1
            /\ \A w \in Workers : HighOf[w] = committed[w] + ones[w]
        BY <2>2 DEF HighOf
      <3> HIDE DEF ones, HighOf
      <3>2. SumOf(ones, Workers) = NumWorkers
        BY <3>1, SumOfOnes, WorkersFinite
      <3>3. SumOf(HighOf, Workers) = SumOf(committed, Workers) + SumOf(ones, Workers)
        <4>1. IsFiniteSet(Workers)
          BY WorkersFinite
        <4> QED
          BY ONLY <2>3, <3>1, <4>1, SumAdds, SMTT(30)
      <3> QED
        BY <3>2, <3>3
    <2>6. SumOf(FailedOf(my_stats), Workers) \in Int
      BY <2>3, SumType, WorkersFinite
    <2>7. Reported \in Int
      <3>1. report \in [attempted : Nat, failed : Nat, deadlocked : Nat]
        BY <2>0 DEF TypeInv
      <3> QED
        BY <3>1 DEF Reported
    <2>8. Reported <= Committed + NumWorkers
      BY <2>0, <2>5, CommittedIsSum DEF ReportInv
    <2>9. Reported + Failures >= before.committed + before.failures
      BY <2>0, <2>1, <2>4, FailuresIsSum DEF ReportInv
    <2>10. Reported >= before.committed - (Failures - before.failures)
      <3>1. Failures \in Int
        BY <2>6, FailuresIsSum
      <3> HIDE DEF Reported
      <3> QED
        BY <2>1, <2>7, <2>9, <3>1
    <2> QED
      BY <2>8, <2>10
  <1> QED
    BY <1>1, Invariance, PTL

\* Of the calls that lock, those of one table follow each other, and only an update comes
\* after another one.
LEMMA TablesAreOrdered ==
  ASSUME NEW i \in 1 .. 8, NEW s \in 1 .. 8, AcctUpdate[i][2] = AcctUpdate[s][2],
         AcctUpdate[i][1] # "stamp", AcctUpdate[s][1] # "stamp"
  PROVE  i >= s - 1 /\ (AcctUpdate[s][1] # "update" => i >= s)
  <1>1. /\ AcctUpdate[s][2] = "account" <=> s \in {1, 2}
        /\ AcctUpdate[s][2] = "history" <=> s \in {3, 4}
        /\ AcctUpdate[s][2] = "teller" <=> s \in {5, 6}
        /\ AcctUpdate[s][2] = "branch" <=> s \in {7, 8}
        /\ AcctUpdate[s][1] = "update" <=> s \in {2, 6, 8}
        /\ AcctUpdate[s][1] = "stamp" <=> s = 3
    BY CallsAre
  <1>2. /\ AcctUpdate[i][2] = "account" <=> i \in {1, 2}
        /\ AcctUpdate[i][2] = "history" <=> i \in {3, 4}
        /\ AcctUpdate[i][2] = "teller" <=> i \in {5, 6}
        /\ AcctUpdate[i][2] = "branch" <=> i \in {7, 8}
        /\ AcctUpdate[i][1] = "stamp" <=> i = 3
    BY CallsAre
  <1> QED
    BY <1>1, <1>2

\* A transaction waits for one that is as far as itself, or farther: farther unless it
\* waits to update.
LEMMA WaitsAreOrdered ==
  ASSUME TypeInv, PerWorker, NEW u \in Workers, NEW v \in Workers, WaitsFor(u, v)
  PROVE  step[v] >= step[u] /\ (Op(u) # "update" => step[v] > step[u])
  <1>1. step[u] \in 1 .. 8 /\ Op(u) # "stamp"
    BY CallsAre DEF WaitsFor, NeedsLock, InXct, TypeInv
  <1>2. PICK l \in locks[v] : l.table = NextLock(u).table
    BY DEF WaitsFor, Conflict
  <1>3. PICK i \in 1 .. step[v] - 1 : l.table = AcctUpdate[i][2] /\ AcctUpdate[i][1] # "stamp"
    BY <1>2 DEF PerWorker, LocksInv
  <1>4. step[v] \in 1 .. 9 /\ i \in 1 .. 8
    BY CallsAre DEF TypeInv
  <1>5. NextLock(u).table = AcctUpdate[step[u]][2]
    <2>1. CASE Op(u) = "add"
      <3>1. step[u] = 4
        BY <1>1, <2>1, CallsAre DEF Op
      <3>2. NextLock(u).table = "history"
        BY <2>1 DEF NextLock
      <3> QED
        BY <3>1, <3>2, CallsAre
    <2>2. CASE Op(u) # "add"
      BY <2>2 DEF NextLock, Table
    <2> QED
      BY <2>1, <2>2
  <1>6. i >= step[u] - 1 /\ (Op(u) # "update" => i >= step[u])
    <2>1. AcctUpdate[i][2] = AcctUpdate[step[u]][2]
      BY <1>2, <1>3, <1>5
    <2>2. AcctUpdate[step[u]][1] # "stamp"
      BY <1>1 DEF Op
    <2> QED
      BY <1>1, <1>3, <1>4, <2>1, <2>2, TablesAreOrdered DEF Op
  <1> QED
    BY <1>1, <1>3, <1>4, <1>6

\* Whoever waits to probe or to add a row is in no cycle of waits: all that it waits for,
\* and that these wait for, are farther in the same order of tables.
THEOREM OnlyUpdatesDeadlock == Spec => []OnlyUpgradesDeadlock
  <1>1. Inv => OnlyUpgradesDeadlock
    <2> SUFFICES ASSUME Inv, NEW w \in Workers, NeedsLock(w), InCycle(w), Op(w) # "update"
                 PROVE  FALSE
      BY DEF OnlyUpgradesDeadlock
    <2> DEFINE C == {v \in Workers : step[v] > step[w]}
    <2>1. ASSUME NEW u \in C \cup {w}, NEW v \in Workers, WaitsFor(u, v) PROVE v \in C
      <3>0. u \in Workers
        OBVIOUS
      <3>1. step[u] \in Nat /\ step[v] \in Nat /\ step[w] \in Nat /\ u \in Workers
        <4>1. step \in [Workers -> 1 .. 9]
          BY CallsAre DEF Inv, TypeInv
        <4> QED
          BY <3>0, <4>1
      <3>2. step[v] >= step[u] /\ (Op(u) # "update" => step[v] > step[u])
        BY <2>1, <3>1, WaitsAreOrdered DEF Inv
      <3>3. CASE u = w
        BY <3>1, <3>2, <3>3
      <3>4. CASE u \in C
        BY <3>1, <3>2, <3>4
      <3> QED
        BY <3>3, <3>4
    <2>2. w \in C
      <3>1. C \in SUBSET Workers
        OBVIOUS
      <3> HIDE DEF C
      <3> QED
        BY <2>1, <3>1 DEF InCycle
    <2>3. step[w] \in Nat
      BY CallsAre DEF Inv, TypeInv
    <2> QED
      BY <2>2, <2>3
  <1> QED
    BY <1>1, Invariance, PTL
=============================================================================
