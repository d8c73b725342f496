---------------------------- MODULE LoaderProofs ----------------------------
(***************************************************************************)
(* What holds of a load whatever the scaling factor, the number of loaders *)
(* and the sizes of a branch and of a chunk: no two threads add the same   *)
(* account, the committed accounts are whole chunks, the rows two builders *)
(* have open are apart, and a database that is loaded is complete.         *)
(*                                                                         *)
(* The inductive invariant of a load whose sizes fit (WellSized) says      *)
(* which accounts are in the table: the chunks that the creator has made,  *)
(* the part of its segment that each builder has, and the rows of the open *)
(* transactions.  A second one, for all sizes, says that no thread gets    *)
(* past a chunk that clashes with one of the creator's.                    *)
(***************************************************************************)
EXTENDS Loader, FiniteSetTheorems, WellFoundedInduction, TLAPS

\* The first account of segment i, and of the chunk that thread t makes next.
Seg(i) == AcctsPerWorker * i
First(t) == IF t = Creator THEN Seg(step[t]) ELSE Start(t) + step[t]

\* An account that a committed transaction of the creator or of a builder made.
Made(a) ==
  \/ \E i \in Loaders : i < step[Creator] /\ Seg(i) <= a /\ a < Seg(i) + ChunkSize
  \/ \E i \in Loaders : Start(i) <= a /\ a < Start(i) + step[i]

\* The rows of the open transaction of thread t.
Open(t) ==
  IF tpc[t] = "populate" /\ First(t) >= 0
  THEN First(t) + ChunkSize - next[t] .. First(t) + ChunkSize - 1
  ELSE {}

\* create_tables() has lowered the number of loaders to one that divides the accounts.
SizeInv ==
  /\ \E n \in ThreadOptions : loaders <= n
  /\ mpc # "tables" => loaders <= sf /\ TotalAccounts % loaders = 0

\* Before create_tables() nothing runs.
FreshInv ==
  mpc = "tables" =>
    /\ tpc = [t \in LoadThreads |-> "unborn"]
    /\ step = [t \in LoadThreads |-> 0]
    /\ own = [t \in LoadThreads |-> {}]
    /\ accounts = {} /\ branches = {} /\ tellers = {}

\* The place of the creator, of a builder that does not run yet and of one that does.
CreatorPlace ==
  /\ step[Creator] \in -1 .. loaders
  /\ tpc[Creator] = "done" <=> step[Creator] = loaders
  /\ tpc[Creator] # "unborn"
  /\ mpc # "creator" => tpc[Creator] = "done"

IdlePlace(t) == tpc[t] = "unborn" /\ step[t] = 0

BuilderPlace(t) ==
  /\ tpc[t] # "unborn"
  /\ step[t] \in 0 .. Count /\ step[t] % ChunkSize = 0
  /\ tpc[t] = "done" <=> step[t] = Count

PlaceInv ==
  /\ mpc \in {"creator", "load", "loaded"}
  /\ CreatorPlace
  /\ mpc = "loaded" => \A t \in Loaders : tpc[t] = "done"
  /\ \A t \in Builders :
       IF mpc = "creator" \/ t \notin Loaders THEN IdlePlace(t) ELSE BuilderPlace(t)

\* What is in the tables.
OwnInv == \A t \in LoadThreads : own[t] = Open(t)
AccountsInv ==
  \A a \in Int : a \in accounts <=> Made(a) \/ \E t \in LoadThreads : a \in own[t]
AllTellers == {<<i, i \div TellersPerBranch>> : i \in 0 .. sf * TellersPerBranch - 1}
BranchesInv ==
  /\ branches = IF step[Creator] = -1 THEN {} ELSE 0 .. sf - 1
  /\ tellers = IF step[Creator] = -1 THEN {} ELSE AllTellers

SafeInv ==
  mpc # "tables" /\ WellSized => PlaceInv /\ OwnInv /\ AccountsInv /\ BranchesInv

\* The inductive invariant.
Inv == TypeOK /\ SizeInv /\ FreshInv /\ SafeInv

-----------------------------------------------------------------------------
(***************************************************************************)
(* Arithmetic.                                                             *)
(***************************************************************************)

\* A set of naturals that is not empty has a least member.
LEMMA NatMin ==
  ASSUME NEW T \in SUBSET Nat, T # {}
  PROVE  \E x \in T : \A y \in T : x <= y
  <1>1. PICK x \in T : \A y \in T : ~(<<y, x>> \in OpToRel(<, Nat))
    BY NatLessThanWellFounded, WFMin
  <1>2. \A y \in T : ~(y < x)
    BY <1>1 DEF OpToRel
  <1> QED
    BY <1>2

\* Division with remainder.
LEMMA DivMod ==
  ASSUME NEW n \in Int, NEW d \in Nat \ {0}
  PROVE  /\ n \div d \in Int /\ n % d \in 0 .. d - 1
         /\ n = d * (n \div d) + (n % d)
  OBVIOUS

\* A multiple is at least one width away from a smaller one.
LEMMA Mono ==
  ASSUME NEW w \in Nat, NEW s \in Int, NEW t \in Int, s < t
  PROVE  w * s + w <= w * t
  <1>1. t = s + 1 + (t - s - 1) /\ t - s - 1 \in Nat
    OBVIOUS
  <1>2. PICK d \in Nat : t = s + 1 + d
    BY <1>1
  <1>3. w * t = w * s + w + w * d
    BY <1>2
  <1>4. w * d \in Nat
    OBVIOUS
  <1> QED
    BY <1>3, <1>4

\* Quotient and remainder are the only ones.
LEMMA DivModUnique ==
  ASSUME NEW d \in Nat \ {0}, NEW q \in Int, NEW r \in 0 .. d - 1
  PROVE  (d * q + r) \div d = q /\ (d * q + r) % d = r
  <1> DEFINE n == d * q + r
             p == n \div d
             m == n % d
  <1>1. n \in Int /\ p \in Int /\ m \in 0 .. d - 1 /\ n = d * p + m
    BY DivMod
  <1>2. d * p \in Int /\ d * q \in Int
    BY <1>1
  <1>3. ~(p < q)
    <2>1. SUFFICES ASSUME p < q PROVE FALSE
      OBVIOUS
    <2>2. d * p + d <= d * q
      BY <1>1, <2>1, Mono
    <2> QED
      BY <1>1, <1>2, <2>2
  <1>4. ~(q < p)
    <2>1. SUFFICES ASSUME q < p PROVE FALSE
      OBVIOUS
    <2>2. d * q + d <= d * p
      BY <1>1, <2>1, Mono
    <2> QED
      BY <1>1, <1>2, <2>2
  <1>5. p = q
    BY <1>1, <1>3, <1>4
  <1> QED
    BY <1>1, <1>2, <1>5

\* Multiples of c.
LEMMA MultipleMod ==
  ASSUME NEW c \in Nat \ {0}, NEW k \in Int
  PROVE  (c * k) % c = 0
  <1>1. 0 \in 0 .. c - 1 /\ c * k + 0 = c * k
    OBVIOUS
  <1> QED
    BY <1>1, DivModUnique

LEMMA MultipleOf ==
  ASSUME NEW c \in Nat \ {0}, NEW x \in Int, x % c = 0
  PROVE  \E k \in Int : x = c * k
  <1>1. x \div c \in Int /\ x = c * (x \div c) + (x % c)
    BY DivMod
  <1>2. c * (x \div c) \in Int
    BY <1>1
  <1>3. x = c * (x \div c)
    BY <1>1, <1>2
  <1> QED
    BY <1>1, <1>3

LEMMA MultiplesAdd ==
  ASSUME NEW c \in Nat \ {0}, NEW x \in Int, NEW y \in Int, x % c = 0, y % c = 0
  PROVE  (x + y) % c = 0 /\ (x - y) % c = 0
  <1>1. PICK p \in Int : x = c * p
    BY MultipleOf
  <1>2. PICK q \in Int : y = c * q
    BY MultipleOf
  <1>3. x + y = c * (p + q) /\ x - y = c * (p - q)
    BY <1>1, <1>2
  <1>4. p + q \in Int /\ p - q \in Int
    OBVIOUS
  <1> QED
    BY <1>3, <1>4, MultipleMod

\* Two multiples that differ are a chunk apart.
LEMMA MultiplesApart ==
  ASSUME NEW c \in Nat \ {0}, NEW x \in Int, NEW y \in Int, x % c = 0, y % c = 0, x < y
  PROVE  x + c <= y
  <1>1. PICK p \in Int : x = c * p
    BY MultipleOf
  <1>2. PICK q \in Int : y = c * q
    BY MultipleOf
  <1>3. ~(q <= p)
    <2>1. SUFFICES ASSUME q <= p PROVE FALSE
      OBVIOUS
    <2>2. CASE q = p
      BY <2>2, <1>1, <1>2
    <2>3. CASE q < p
      <3>1. c * q + c <= c * p
        BY <2>3, Mono
      <3> QED
        BY <3>1, <1>1, <1>2
    <2> QED
      BY <2>1, <2>2, <2>3
  <1>4. c * p + c <= c * q
    BY <1>3, Mono
  <1> QED
    BY <1>1, <1>2, <1>4

\* The chunk of an account between two multiples is between them too.
LEMMA ChunkWithin ==
  ASSUME NEW c \in Nat \ {0}, NEW x \in Int, NEW y \in Int, NEW a \in Int,
         x % c = 0, y % c = 0, x <= a, a < y
  PROVE  /\ a - (a % c) \in Int
         /\ x <= a - (a % c) /\ (a - (a % c)) + c <= y
         /\ a - (a % c) <= a /\ a < (a - (a % c)) + c
  <1> DEFINE m == a - (a % c)
  <1>1. a % c \in 0 .. c - 1 /\ m \in Int /\ m % c = 0
    <2>1. a % c \in 0 .. c - 1 /\ m = c * (a \div c) /\ a \div c \in Int
      BY DivMod
    <2> QED
      BY <2>1, MultipleMod
  <1>2. m <= a /\ a < m + c
    BY <1>1
  <1> HIDE DEF m
  <1>3. m < y
    BY <1>1, <1>2
  <1>4. m + c <= y
    BY <1>1, <1>3, MultiplesApart
  <1>5. ~(m < x)
    <2>1. SUFFICES ASSUME m < x PROVE FALSE
      OBVIOUS
    <2>2. m + c <= x
      BY <2>1, <1>1, MultiplesApart
    <2> QED
      BY <2>2, <1>1, <1>2
  <1> QED
    BY <1>1, <1>2, <1>4, <1>5 DEF m

-----------------------------------------------------------------------------
(***************************************************************************)
(* The number of loaders, and the segments.                                *)
(***************************************************************************)

\* What the state says of the numbers.
LEMMA Numbers ==
  ASSUME TypeOK
  PROVE  /\ sf \in Nat \ {0} /\ loaders \in Nat \ {0}
         /\ AccountsPerBranch \in Nat \ {0} /\ ChunkSize \in Nat \ {0}
         /\ TotalAccounts \in Nat \ {0} /\ AcctsPerWorker \in Nat
         /\ IntRange \in Nat /\ IntRange = 2 * (IntRange \div 2)
  <1>1. /\ sf \in Nat \ {0} /\ loaders \in Nat \ {0}
        /\ AccountsPerBranch \in Nat \ {0} /\ ChunkSize \in Nat \ {0}
        /\ IntRange \in Nat /\ IntRange % 2 = 0
    BY LoaderAssumption DEF TypeOK
  <1>2. \A x, y \in Nat \ {0} : x * y \in Nat \ {0} /\ x \div y \in Nat
    OBVIOUS
  <1>3. TotalAccounts \in Nat \ {0}
    BY <1>1, <1>2 DEF TotalAccounts
  <1>4. AcctsPerWorker \in Nat
    BY <1>1, <1>2, <1>3 DEF AcctsPerWorker
  <1>5. IntRange = 2 * (IntRange \div 2)
    BY <1>1
  <1> QED
    BY <1>1, <1>3, <1>4, <1>5

\* create_tables() finds a number of loaders: at most what was asked for, at most one
\* for each branch, and a divisor of the number of accounts.
LEMMA LoadersFit ==
  ASSUME TypeOK
  PROVE  /\ LoadersToUse \in Nat \ {0} /\ LoadersToUse <= loaders /\ LoadersToUse <= sf
         /\ TotalAccounts % LoadersToUse = 0
  <1>1. /\ sf \in Nat \ {0} /\ loaders \in Nat \ {0} /\ AccountsPerBranch \in Nat \ {0}
        /\ TotalAccounts \in Nat \ {0}
    BY Numbers
  <1>2. CASE sf < loaders
    <2>1. LoadersToUse = sf
      BY <1>2 DEF LoadersToUse
    <2>2. TotalAccounts % sf = 0
      BY <1>1, MultipleMod DEF TotalAccounts
    <2> QED
      BY <1>1, <1>2, <2>1, <2>2
  <1>3. CASE ~(sf < loaders)
    <2> DEFINE S == {n \in 1 .. loaders : TotalAccounts % n = 0}
               T == {loaders - n : n \in S}
    <2>1. 1 \in S
      <3>1. (1 * TotalAccounts) % 1 = 0 /\ 1 * TotalAccounts = TotalAccounts
        BY <1>1, MultipleMod
      <3> QED
        BY <1>1, <3>1
    <2>2. T \in SUBSET Nat /\ T # {}
      BY <1>1, <2>1
    <2>3. PICK m \in T : \A y \in T : m <= y
      BY <2>2, NatMin
    <2>4. PICK x \in S : m = loaders - x
      BY <2>3
    <2>5. \A y \in S : x >= y
      <3>1. SUFFICES ASSUME NEW y \in S PROVE x >= y
        OBVIOUS
      <3>2. loaders - y \in T
        OBVIOUS
      <3>3. m <= loaders - y
        BY <2>3, <3>2
      <3> QED
        BY <1>1, <2>4, <3>3
    <2>6. Max(S) \in S
      BY <2>5 DEF Max
    <2>7. LoadersToUse = Max(S)
      BY <1>3 DEF LoadersToUse
    <2> QED
      BY <1>1, <1>3, <2>6, <2>7
  <1> QED
    BY <1>2, <1>3

\* The segments lie one after the other and begin and end with whole chunks.
Geometry ==
  /\ AcctsPerWorker \in Nat /\ ChunkSize <= AcctsPerWorker
  /\ Count \in Nat /\ Count % ChunkSize = 0
  /\ \A i \in Int : Seg(i) \in Int
  /\ \A i \in Nat : Seg(i) \in Nat /\ Seg(i) % ChunkSize = 0
                    /\ Start(i) = Seg(i) + ChunkSize
  /\ \A i, j \in Nat : i < j => Seg(i) + AcctsPerWorker <= Seg(j)
  /\ \A i \in Loaders : Seg(i) + AcctsPerWorker <= TotalAccounts
  /\ Seg(0) = 0 /\ Seg(-1) = -AcctsPerWorker
  /\ TotalAccounts = Seg(loaders)

LEMMA SegmentsFit ==
  ASSUME TypeOK, SizeInv, WellSized, mpc # "tables"
  PROVE  Geometry
  <1> DEFINE W == AcctsPerWorker
             C == ChunkSize
  <1>1. /\ loaders \in Nat \ {0} /\ sf \in Nat \ {0} /\ C \in Nat \ {0} /\ W \in Nat
        /\ AccountsPerBranch \in Nat \ {0} /\ TotalAccounts \in Nat \ {0}
    BY Numbers
  <1>2. TotalAccounts = loaders * W
    BY <1>1 DEF SizeInv, AcctsPerWorker
  <1>3. W # 0
    <2>1. loaders * 0 = 0
      BY <1>1
    <2> QED
      BY <1>1, <1>2, <2>1
  <1>4. W % C = 0
    BY DEF WellSized, EvenSegments
  <1>5. C <= W
    <2>1. 0 % C = 0
      BY <1>1
    <2> QED
      BY <1>1, <1>3, <1>4, <2>1, MultiplesApart
  <1>6. Count \in Nat /\ Count % C = 0
    <2>1. C % C = 0
      BY <1>1
    <2> HIDE DEF W, C
    <2>2. W \in Int /\ C \in Int
      BY <1>1
    <2>3. (W - C) % C = 0
      BY ONLY <1>1, <1>4, <2>1, <2>2, MultiplesAdd
    <2>4. W - C \in Nat
      BY <1>1, <1>5
    <2> QED
      BY <2>3, <2>4 DEF Count, W, C
  <1> HIDE DEF W
  <1>7. \A i \in Int : Seg(i) \in Int
    BY <1>1 DEF Seg, W
  <1>8. ASSUME NEW i \in Nat
        PROVE  Seg(i) \in Nat /\ Seg(i) % C = 0 /\ Start(i) = Seg(i) + C
    <2> HIDE DEF C
    <2>0. W \in Int
      BY <1>1
    <2>1. PICK q \in Int : W = C * q
      BY ONLY <1>1, <1>4, <2>0, MultipleOf
    <2>2. q * i \in Int
      BY <2>1
    <2>3. W * i = C * (q * i)
      BY <1>1, <2>1
    <2>4. (W * i) % C = 0
      BY <1>1, <2>2, <2>3, MultipleMod
    <2>5. W * i \in Nat
      BY <1>1
    <2> QED
      BY <2>4, <2>5 DEF Seg, Start, W, C
  <1>9. ASSUME NEW i \in Nat, NEW j \in Nat, i < j
        PROVE  Seg(i) + W <= Seg(j)
    BY <1>1, <1>9, Mono DEF Seg, W
  <1>10. TotalAccounts = Seg(loaders)
    BY <1>1, <1>2 DEF Seg, W
  <1>11. ASSUME NEW i \in Loaders
         PROVE  Seg(i) + W <= TotalAccounts
    <2>1. i \in Nat /\ i < loaders /\ loaders \in Nat
      BY <1>1 DEF Loaders
    <2> QED
      BY <2>1, <1>9, <1>10
  <1>12. Seg(0) = 0 /\ Seg(-1) = -W
    BY <1>1 DEF Seg, W
  <1> QED
    BY <1>1, <1>5, <1>6, <1>7, <1>8, <1>9, <1>10, <1>11, <1>12 DEF Geometry, W

\* An account that an int can number is numbered by it.
LEMMA IdsKept ==
  ASSUME TypeOK, IdsFit, NEW n \in Int, -TotalAccounts <= n, n < TotalAccounts
  PROVE  AsInt(n) = n
  <1> DEFINE R == IntRange \div 2
  <1>1. /\ TotalAccounts \in Nat /\ TotalAccounts <= R /\ R \in Int
        /\ IntRange = 2 * R /\ IntRange \in Nat
    BY Numbers DEF IdsFit
  <1> HIDE DEF R
  <1>2. n + R \in 0 .. IntRange - 1 /\ IntRange \in Nat \ {0}
    BY <1>1
  <1>3. (n + R) % IntRange = n + R
    <2>1. IntRange * 0 + (n + R) = n + R
      BY <1>1
    <2> QED
      BY <1>2, <2>1, DivModUnique
  <1> QED
    BY <1>1, <1>3 DEF AsInt, R

-----------------------------------------------------------------------------
(***************************************************************************)
(* Where the threads are.                                                  *)
(***************************************************************************)

\* create_tables() has chosen the segments, and they are whole.
Sized == mpc # "tables" /\ WellSized

\* The creator before its first transaction, the creator at a segment, a builder at a
\* chunk of its segment.
AtBranches(t) ==
  t = Creator /\ mpc = "creator" /\ step[t] = -1 /\ First(t) = -AcctsPerWorker
AtSegment(t) ==
  /\ t = Creator /\ mpc = "creator"
  /\ step[t] \in Nat /\ step[t] \in Loaders /\ First(t) = Seg(step[t])
AtChunk(t) ==
  /\ t # Creator /\ mpc # "creator" /\ t \in Nat /\ t \in Loaders /\ t \in Builders
  /\ step[t] \in Nat /\ step[t] + ChunkSize <= Count
  /\ First(t) = Seg(t) + ChunkSize + step[t]

LEMMA ThreadsKinds ==
  ASSUME NEW t \in LoadThreads
  PROVE  /\ t # Creator => t \in Builders
         /\ t \in Builders => t \in Nat /\ t # Creator
         /\ t \in Int
  <1>1. \A n \in ThreadOptions : 0 .. n - 1 \subseteq Nat
    BY LoaderAssumption
  <1>2. Builders \subseteq Nat
    BY <1>1 DEF Builders
  <1> QED
    BY <1>2 DEF LoadThreads, Creator

\* The builders that load_data() forks are threads of the model.
LEMMA LoadersAreBuilders ==
  ASSUME TypeOK, SizeInv
  PROVE  Loaders \subseteq Builders /\ Builders \subseteq LoadThreads
         /\ Loaders \subseteq Nat /\ 0 \in Loaders /\ Creator \notin Loaders
         /\ Creator \in LoadThreads
  <1>1. PICK n \in ThreadOptions : loaders <= n
    BY DEF SizeInv
  <1>2. loaders \in Nat \ {0} /\ n \in Nat
    BY LoaderAssumption DEF TypeOK
  <1>3. Loaders \subseteq 0 .. n - 1
    BY <1>1, <1>2 DEF Loaders
  <1>4. Loaders \subseteq Nat /\ 0 \in Loaders /\ Creator \notin Loaders
    BY <1>2 DEF Loaders, Creator
  <1> QED
    BY <1>3, <1>4 DEF Builders, LoadThreads

LEMMA Safe ==
  ASSUME Inv, Sized
  PROVE  /\ TypeOK /\ SizeInv /\ Geometry /\ IdsFit
         /\ PlaceInv /\ OwnInv /\ AccountsInv /\ BranchesInv
         /\ loaders \in Nat \ {0} /\ ChunkSize \in Nat \ {0}
         /\ AcctsPerWorker \in Nat /\ TotalAccounts \in Nat /\ Count \in Nat
         /\ Count = AcctsPerWorker - ChunkSize
  <1>1. TypeOK /\ SizeInv /\ PlaceInv /\ OwnInv /\ AccountsInv /\ BranchesInv
    BY DEF Inv, SafeInv, Sized
  <1>2. Geometry /\ IdsFit
    BY <1>1, SegmentsFit DEF Sized, WellSized
  <1> QED
    BY <1>1, <1>2, Numbers DEF Geometry, Count

LEMMA ThreadAtWork ==
  ASSUME Inv, Sized, NEW t \in LoadThreads, tpc[t] \in {"begin", "populate"}
  PROVE  AtBranches(t) \/ AtSegment(t) \/ AtChunk(t)
  <1>1. /\ TypeOK /\ SizeInv /\ Geometry /\ PlaceInv
        /\ loaders \in Nat \ {0} /\ ChunkSize \in Nat \ {0} /\ AcctsPerWorker \in Nat
        /\ Count \in Nat /\ Count = AcctsPerWorker - ChunkSize
    BY Safe
  <1>2. CASE t = Creator
    <2>1. step[t] \in -1 .. loaders /\ step[t] # loaders /\ mpc = "creator"
      BY <1>1, <1>2 DEF PlaceInv, CreatorPlace
    <2>2. step[t] = -1 \/ (step[t] \in Nat /\ step[t] \in Loaders)
      BY <1>1, <2>1 DEF Loaders
    <2>3. First(t) = Seg(step[t]) /\ Seg(-1) = -AcctsPerWorker
      BY <1>1, <1>2 DEF First, Geometry
    <2> QED
      BY <1>2, <2>1, <2>2, <2>3 DEF AtBranches, AtSegment
  <1>3. CASE t # Creator
    <2>1. t \in Builders /\ t \in Nat
      BY <1>3, ThreadsKinds
    <2>2. mpc # "creator" /\ t \in Loaders /\ BuilderPlace(t)
      BY <1>1, <2>1 DEF PlaceInv, IdlePlace
    <2>3. step[t] \in Nat /\ step[t] < Count /\ step[t] % ChunkSize = 0
      BY <1>1, <2>2 DEF BuilderPlace
    <2>4. Count % ChunkSize = 0
      BY <1>1 DEF Geometry
    <2>5. step[t] + ChunkSize <= Count
      BY <1>1, <2>3, <2>4, MultiplesApart
    <2>6. First(t) = Seg(t) + ChunkSize + step[t]
      BY <1>1, <1>3, <2>1 DEF First, Geometry
    <2> QED
      BY <1>3, <2>1, <2>2, <2>3, <2>5, <2>6 DEF AtChunk
  <1> QED
    BY <1>2, <1>3

\* The accounts of the transaction a thread runs, and how an int numbers them.
Block(t) == First(t) .. First(t) + ChunkSize - 1

LEMMA Ids ==
  ASSUME Inv, Sized, NEW t \in LoadThreads, tpc[t] \in {"begin", "populate"}
  PROVE  /\ First(t) \in Int /\ FirstId(t) = First(t)
         /\ First(t) < 0 <=> AtBranches(t)
         /\ First(t) >= 0 => First(t) + ChunkSize <= TotalAccounts
         /\ next[t] \in 0 .. ChunkSize
         /\ First(t) >= 0 /\ next[t] < ChunkSize =>
              NextId(t) = First(t) + ChunkSize - next[t] - 1
  <1>1. /\ TypeOK /\ SizeInv /\ Geometry /\ IdsFit
        /\ loaders \in Nat \ {0} /\ ChunkSize \in Nat \ {0} /\ AcctsPerWorker \in Nat
        /\ TotalAccounts \in Nat
        /\ Count \in Nat /\ Count = AcctsPerWorker - ChunkSize
    BY Safe
  <1>2. ChunkSize <= AcctsPerWorker /\ AcctsPerWorker <= TotalAccounts
    <2>1. 0 \in Loaders
      BY <1>1, LoadersAreBuilders
    <2>2. Seg(0) + AcctsPerWorker <= TotalAccounts /\ Seg(0) = 0
      BY <1>1, <2>1 DEF Geometry
    <2> QED
      BY <1>1, <2>2 DEF Geometry
  <1>3. /\ First(t) \in Int /\ -AcctsPerWorker <= First(t)
        /\ First(t) < 0 <=> AtBranches(t)
        /\ First(t) >= 0 => First(t) + ChunkSize <= TotalAccounts
    <2>1. CASE AtBranches(t)
      BY <1>1, <1>2, <2>1 DEF AtBranches
    <2>2. CASE AtSegment(t)
      <3>1. /\ Seg(step[t]) \in Nat
            /\ Seg(step[t]) + AcctsPerWorker <= TotalAccounts
        BY <1>1, <2>2 DEF AtSegment, Geometry
      <3>2. ~AtBranches(t)
        BY <2>2 DEF AtSegment, AtBranches
      <3> QED
        BY <1>1, <1>2, <2>2, <3>1, <3>2 DEF AtSegment
    <2>3. CASE AtChunk(t)
      <3>1. /\ Seg(t) \in Nat /\ Seg(t) + AcctsPerWorker <= TotalAccounts
        BY <1>1, <2>3 DEF AtChunk, Geometry
      <3>2. ~AtBranches(t)
        BY <2>3 DEF AtChunk, AtBranches
      <3> QED
        BY <1>1, <1>2, <2>3, <3>1, <3>2 DEF AtChunk
    <2> QED
      BY <2>1, <2>2, <2>3, ThreadAtWork
  <1>4. FirstId(t) = First(t)
    <2>1. FirstId(t) = AsInt(First(t))
      <3>1. CASE t = Creator
        <4>1. step[t] * AcctsPerWorker = AcctsPerWorker * step[t]
          <5>1. step[t] \in Int
            BY <1>1 DEF TypeOK
          <5> QED
            BY <1>1, <5>1
        <4> QED
          BY <3>1, <4>1 DEF FirstId, First, Seg
      <3>2. CASE t # Creator
        BY <3>2 DEF FirstId, First
      <3> QED
        BY <3>1, <3>2
    <2>2. -TotalAccounts <= First(t) /\ First(t) < TotalAccounts
      BY <1>1, <1>2, <1>3
    <2> QED
      BY <1>1, <1>3, <2>1, <2>2, IdsKept
  <1>5. next[t] \in 0 .. ChunkSize
    BY <1>1 DEF TypeOK
  <1>6. ASSUME First(t) >= 0, next[t] < ChunkSize
        PROVE  NextId(t) = First(t) + ChunkSize - next[t] - 1
    <2> DEFINE n == First(t) + (ChunkSize - next[t] - 1)
    <2>1. n \in Int /\ -TotalAccounts <= n /\ n < TotalAccounts
      BY <1>1, <1>3, <1>5, <1>6
    <2>2. NextId(t) = AsInt(n)
      BY <1>4 DEF NextId
    <2>3. AsInt(n) = n
      BY <1>1, <2>1, IdsKept
    <2> QED
      BY <1>1, <1>3, <1>5, <2>2, <2>3
  <1> QED
    BY <1>3, <1>4, <1>5, <1>6

\* The rows of an open transaction are among its accounts.
LEMMA OpenInBlock ==
  ASSUME Inv, Sized, NEW t \in LoadThreads, NEW a \in Open(t)
  PROVE  /\ tpc[t] = "populate" /\ First(t) >= 0 /\ a \in Block(t) /\ a \in Nat
         /\ AtSegment(t) \/ AtChunk(t)
  <1>1. tpc[t] = "populate" /\ First(t) >= 0
        /\ a \in First(t) + ChunkSize - next[t] .. First(t) + ChunkSize - 1
    BY DEF Open
  <1>2. First(t) \in Int /\ next[t] \in 0 .. ChunkSize /\ ~AtBranches(t)
    BY <1>1, Ids
  <1>3. ChunkSize \in Nat \ {0}
    BY Safe
  <1> QED
    BY <1>1, <1>2, <1>3, ThreadAtWork DEF Block

\* Two transactions never add the same account, ...
LEMMA BlocksApart ==
  ASSUME Inv, Sized, NEW s \in LoadThreads, NEW t \in LoadThreads, s # t,
         tpc[s] = "populate", tpc[t] = "populate", First(s) >= 0, First(t) >= 0,
         NEW a \in Block(s)
  PROVE  a \notin Block(t)
  <1>1. /\ Geometry /\ ChunkSize \in Nat \ {0} /\ AcctsPerWorker \in Nat
        /\ Count = AcctsPerWorker - ChunkSize
    BY Safe
  <1>2. ~AtBranches(s) /\ ~AtBranches(t)
    BY Ids
  <1>3. AtChunk(s) /\ AtChunk(t)
    <2>1. (AtSegment(s) \/ AtChunk(s)) /\ (AtSegment(t) \/ AtChunk(t))
      BY <1>2, ThreadAtWork
    <2> QED
      BY <2>1 DEF AtSegment, AtChunk
  <1>4. /\ s \in Nat /\ t \in Nat /\ Seg(s) \in Nat /\ Seg(t) \in Nat
        /\ s < t => Seg(s) + AcctsPerWorker <= Seg(t)
        /\ t < s => Seg(t) + AcctsPerWorker <= Seg(s)
    BY <1>1, <1>3 DEF AtChunk, Geometry
  <1>5. s < t \/ t < s
    BY <1>4
  <1> QED
    BY <1>1, <1>3, <1>4, <1>5 DEF AtChunk, Block

\* ... nor one that a committed transaction made.
LEMMA BlockNotMade ==
  ASSUME Inv, Sized, NEW t \in LoadThreads, tpc[t] = "populate", First(t) >= 0,
         NEW a \in Block(t)
  PROVE  ~Made(a)
  <1>1. /\ TypeOK /\ SizeInv /\ Geometry /\ PlaceInv
        /\ ChunkSize \in Nat \ {0} /\ AcctsPerWorker \in Nat
        /\ Count \in Nat /\ Count = AcctsPerWorker - ChunkSize
    BY Safe
  <1>2. ~AtBranches(t) /\ First(t) \in Int
    BY Ids
  <1>3. Loaders \subseteq Builders /\ Loaders \subseteq Nat
    BY <1>1, LoadersAreBuilders
  <1>4. a \in Int /\ First(t) <= a /\ a < First(t) + ChunkSize
    BY <1>1, <1>2 DEF Block
  <1>5. CASE AtSegment(t)
    <2>1. \A i \in Loaders : step[i] = 0
      BY <1>1, <1>3, <1>5 DEF PlaceInv, AtSegment, IdlePlace
    <2>2. ASSUME NEW i \in Loaders, Start(i) <= a, a < Start(i) + step[i]
          PROVE  FALSE
      <3>1. Start(i) \in Int
        BY <1>1, <1>3, <2>2 DEF Geometry
      <3> QED
        BY <1>4, <2>1, <2>2, <3>1
    <2>3. ASSUME NEW i \in Loaders, i < step[Creator], a < Seg(i) + ChunkSize
          PROVE  FALSE
      <3>1. Seg(i) + AcctsPerWorker <= Seg(step[t]) /\ Seg(i) \in Nat
            /\ First(t) = Seg(step[t]) /\ Seg(step[t]) \in Nat
        BY <1>1, <1>3, <1>5, <2>3 DEF AtSegment, Geometry
      <3> QED
        BY <1>1, <1>4, <2>3, <3>1 DEF Geometry
    <2> QED
      BY <2>2, <2>3 DEF Made
  <1>6. CASE AtChunk(t)
    <2>1. /\ t \in Nat /\ Seg(t) \in Nat /\ First(t) = Seg(t) + ChunkSize + step[t]
          /\ step[t] \in Nat /\ step[t] + ChunkSize <= Count /\ mpc # "creator"
      BY <1>1, <1>6 DEF AtChunk, Geometry
    <2>2. ASSUME NEW i \in Loaders
          PROVE  /\ i \in Nat /\ Seg(i) \in Nat /\ Start(i) = Seg(i) + ChunkSize
                 /\ i < t => Seg(i) + AcctsPerWorker <= Seg(t)
                 /\ t < i => Seg(t) + AcctsPerWorker <= Seg(i)
                 /\ step[i] \in 0 .. Count /\ ChunkSize <= AcctsPerWorker
      BY <1>1, <1>3, <2>1, <2>2 DEF Geometry, PlaceInv, BuilderPlace
    <2>3. ASSUME NEW i \in Loaders, Seg(i) <= a, a < Seg(i) + ChunkSize
          PROVE  FALSE
      BY <1>1, <1>4, <2>1, <2>2, <2>3
    <2>4. ASSUME NEW i \in Loaders, Start(i) <= a, a < Start(i) + step[i]
          PROVE  FALSE
      <3>1. CASE i = t
        BY <1>1, <1>4, <2>1, <2>2, <2>4, <3>1
      <3>2. CASE i < t \/ t < i
        BY <1>1, <1>4, <2>1, <2>2, <2>4, <3>2
      <3> QED
        BY <2>1, <2>2, <3>1, <3>2
    <2> QED
      BY <2>3, <2>4 DEF Made
  <1> QED
    BY <1>2, <1>5, <1>6, ThreadAtWork

-----------------------------------------------------------------------------
(***************************************************************************)
(* The invariant is inductive.  First what needs no sizes: the types, the  *)
(* number of loaders, and that nothing runs before create_tables().        *)
(***************************************************************************)
LEMMA InitInv == Init => Inv
  <1> SUFFICES ASSUME Init PROVE Inv
    OBVIOUS
  <1>1. TypeOK
    BY LoaderAssumption DEF Init, TypeOK
  <1>2. SizeInv
    BY LoaderAssumption DEF Init, SizeInv
  <1>3. FreshInv /\ SafeInv
    BY DEF Init, FreshInv, SafeInv
  <1> QED
    BY <1>1, <1>2, <1>3 DEF Inv

LEMMA AnInt ==
  ASSUME NEW n \in Int
  PROVE  AsInt(n) \in Int
  <1>1. IntRange \in Nat \ {0}
    BY LoaderAssumption
  <1>2. \A m \in Int : m % IntRange \in Int
    BY <1>1
  <1>3. IntRange \div 2 \in Int
    BY <1>1
  <1>4. n + IntRange \div 2 \in Int
    BY <1>3
  <1> QED
    BY <1>2, <1>3, <1>4 DEF AsInt

LEMMA IdsAreInts ==
  ASSUME TypeOK, NEW t \in LoadThreads
  PROVE  FirstId(t) \in Int /\ NextId(t) \in Int
  <1>1. step[t] \in Int /\ next[t] \in Int /\ AcctsPerWorker \in Nat /\ ChunkSize \in Nat
        /\ t \in Int
    BY Numbers, ThreadsKinds DEF TypeOK
  <1>2. \A x, y \in Int : x * y \in Int
    OBVIOUS
  <1>3. Start(t) + step[t] \in Int /\ step[t] * AcctsPerWorker \in Int
    BY <1>1, <1>2 DEF Start
  <1>4. FirstId(t) \in Int
    BY <1>3, AnInt DEF FirstId
  <1>5. FirstId(t) + (ChunkSize - next[t] - 1) \in Int
    BY <1>1, <1>4
  <1> QED
    BY <1>4, <1>5, AnInt DEF NextId

LEMMA TypeCommit ==
  ASSUME TypeOK, NEW t \in LoadThreads, CommitAndGoOn(t)
  PROVE  /\ own' \in [LoadThreads -> SUBSET Int]
         /\ step' \in [LoadThreads -> Int]
         /\ tpc' \in [LoadThreads -> {"unborn", "begin", "populate", "done"}]
  <1>1. step[t] \in Int /\ ChunkSize \in Nat
    BY Numbers DEF TypeOK
  <1> QED
    BY <1>1 DEF TypeOK, CommitAndGoOn

LEMMA TypeThread ==
  ASSUME TypeOK, NEW t \in LoadThreads, LoadThread(t)
  PROVE  TypeOK'
  <1>1. ChunkSize \in Nat \ {0} /\ next[t] \in 0 .. ChunkSize /\ sf \in Nat \ {0}
    BY Numbers DEF TypeOK
  <1>2. CASE BeginXct(t)
    <2>1. 0 \in 0 .. ChunkSize
      BY <1>1
    <2> QED
      BY <1>2, <2>1 DEF TypeOK, BeginXct, options, tables
  <1>3. CASE AddBranches(t)
    <2>1. 0 .. sf - 1 \subseteq Nat
      BY <1>1
    <2>2. {<<i, i \div TellersPerBranch>> : i \in 0 .. sf * TellersPerBranch - 1}
            \subseteq Nat \X Nat
      <3>1. TellersPerBranch \in Nat \ {0}
        BY LoaderAssumption
      <3>2. sf * TellersPerBranch \in Nat
        BY <1>1, <3>1
      <3>3. \A i \in Nat : i \div TellersPerBranch \in Nat
        BY <3>1
      <3>4. 0 .. sf * TellersPerBranch - 1 \subseteq Nat
        BY <3>2
      <3> QED
        BY <3>3, <3>4
    <2>3. tellers' \in SUBSET (Nat \X Nat) /\ branches' \in SUBSET Nat
      BY <1>3, <2>1, <2>2 DEF AddBranches
    <2> QED
      BY <1>3, <2>3, TypeCommit DEF TypeOK, AddBranches, options
  <1>4. CASE AddAccount(t)
    <2>1. next[t] + 1 \in 0 .. ChunkSize
      BY <1>1, <1>4 DEF AddAccount
    <2>2. NextId(t) \in Int
      BY IdsAreInts
    <2> QED
      BY <1>4, <2>1, <2>2 DEF TypeOK, AddAccount, options
  <1>5. CASE CommitXct(t)
    BY <1>5, TypeCommit DEF TypeOK, CommitXct, options, tables
  <1>6. CASE DuplicateKey(t)
    BY <1>6 DEF TypeOK, DuplicateKey, options, tables
  <1>7. CASE RetryXct(t)
    BY <1>7 DEF TypeOK, RetryXct, options
  <1> QED
    BY <1>2, <1>3, <1>4, <1>5, <1>6, <1>7 DEF LoadThread

LEMMA TypeStep ==
  ASSUME TypeOK, Next
  PROVE  TypeOK'
  <1>1. CASE CreateTables
    <2>1. LoadersToUse \in Nat \ {0}
      BY LoadersFit
    <2>2. /\ tpc' \in [LoadThreads -> {"unborn", "begin", "populate", "done"}]
          /\ step' \in [LoadThreads -> Int]
      <3>1. /\ tpc \in [LoadThreads -> {"unborn", "begin", "populate", "done"}]
            /\ step \in [LoadThreads -> Int]
        BY DEF TypeOK
      <3>2. /\ tpc' = [tpc EXCEPT ![Creator] = "begin"]
            /\ step' = [step EXCEPT ![Creator] = -1]
        BY <1>1 DEF CreateTables
      <3>3. tpc' \in [LoadThreads -> {"unborn", "begin", "populate", "done"}]
        BY <3>1, <3>2
      <3>4. -1 \in Int
        OBVIOUS
      <3>5. step' \in [LoadThreads -> Int]
        BY <3>1, <3>2, <3>4
      <3> QED
        BY <3>3, <3>5
    <2>3. /\ loaders' = LoadersToUse /\ mpc' = "creator"
          /\ UNCHANGED <<sf, next, own, tables>>
      BY <1>1 DEF CreateTables
    <2> HIDE DEF TypeOK
    <2> QED
      BY <2>1, <2>2, <2>3 DEF TypeOK, tables
  <1>2. CASE ForkLoaders
    <2>1. tpc' \in [LoadThreads -> {"unborn", "begin", "populate", "done"}]
      BY <1>2 DEF TypeOK, ForkLoaders
    <2>2. mpc' = "load" /\ UNCHANGED <<options, step, next, own, tables>>
      BY <1>2 DEF ForkLoaders
    <2> QED
      BY <2>1, <2>2 DEF TypeOK, options, tables
  <1>3. CASE JoinLoaders
    BY <1>3 DEF TypeOK, JoinLoaders, options, tables
  <1> QED
    BY <1>1, <1>2, <1>3, TypeThread DEF Next

\* A thread runs only after create_tables(), and leaves the options alone.
LEMMA ThreadFrame ==
  ASSUME Inv, NEW t \in LoadThreads, LoadThread(t)
  PROVE  /\ mpc # "tables" /\ mpc' # "tables" /\ options' = options
         /\ tpc[t] \in {"begin", "populate"}
  <1>1. options' = options /\ (mpc' = mpc \/ mpc' = "fatal")
    BY DEF LoadThread, BeginXct, AddBranches, AddAccount, CommitXct, DuplicateKey,
           RetryXct, options
  <1>2. tpc[t] \in {"begin", "populate"}
    BY DEF LoadThread, BeginXct, AddBranches, AddAccount, CommitXct, DuplicateKey,
           RetryXct
  <1>3. mpc # "tables"
    BY <1>2 DEF Inv, FreshInv
  <1> QED
    BY <1>1, <1>2, <1>3

LEMMA SizesFrame ==
  ASSUME options' = options
  PROVE  /\ sf' = sf /\ loaders' = loaders /\ TotalAccounts' = TotalAccounts
         /\ AcctsPerWorker' = AcctsPerWorker /\ Count' = Count
         /\ WellSized' = WellSized /\ Loaders' = Loaders
         /\ \A i : Seg(i)' = Seg(i) /\ Start(i)' = Start(i)
  <1>1. sf' = sf /\ loaders' = loaders
    BY DEF options
  <1>2. TotalAccounts' = TotalAccounts /\ AcctsPerWorker' = AcctsPerWorker
    BY <1>1 DEF TotalAccounts, AcctsPerWorker
  <1>3. Count' = Count /\ Loaders' = Loaders /\ \A i : Seg(i)' = Seg(i) /\ Start(i)' = Start(i)
    BY <1>1, <1>2 DEF Count, Loaders, Seg, Start
  <1>4. EvenSegments' = EvenSegments /\ IdsFit' = IdsFit
    BY <1>2 DEF EvenSegments, IdsFit
  <1>5. WellSized' = WellSized
    BY <1>4 DEF WellSized
  <1> QED
    BY <1>1, <1>2, <1>3, <1>5

LEMMA SizeStep ==
  ASSUME Inv, Next
  PROVE  SizeInv' /\ FreshInv'
  <1> USE DEF Inv
  <1>1. CASE CreateTables
    <2>1. /\ LoadersToUse \in Nat \ {0} /\ LoadersToUse <= loaders /\ LoadersToUse <= sf
          /\ TotalAccounts % LoadersToUse = 0
      BY LoadersFit
    <2>2. loaders' = LoadersToUse /\ sf' = sf /\ mpc' = "creator"
      BY <1>1 DEF CreateTables
    <2>3. TotalAccounts' = TotalAccounts
      BY <2>2 DEF TotalAccounts
    <2>4. PICK n \in ThreadOptions : loaders <= n
      BY DEF SizeInv
    <2>5. loaders' <= n
      BY <2>1, <2>2, <2>4, LoaderAssumption DEF TypeOK
    <2> QED
      BY <2>1, <2>2, <2>3, <2>5 DEF SizeInv, FreshInv
  <1>2. CASE options' = options /\ mpc # "tables" /\ mpc' # "tables"
    <2>1. sf' = sf /\ loaders' = loaders /\ TotalAccounts' = TotalAccounts
      BY <1>2, SizesFrame
    <2> QED
      BY <1>2, <2>1 DEF SizeInv, FreshInv
  <1>3. CASE ForkLoaders \/ JoinLoaders
    <2>1. options' = options /\ mpc # "tables" /\ mpc' # "tables"
      BY <1>3 DEF ForkLoaders, JoinLoaders, options
    <2> QED
      BY <1>2, <2>1
  <1>4. CASE \E t \in LoadThreads : LoadThread(t)
    BY <1>2, <1>4, ThreadFrame
  <1> QED
    BY <1>1, <1>3, <1>4 DEF Next

-----------------------------------------------------------------------------
(***************************************************************************)
(* The steps of a sized load.                                              *)
(***************************************************************************)

\* A thread whose variables stay has the same open rows.
LEMMA OpenFrame ==
  ASSUME options' = options, NEW s \in LoadThreads,
         tpc'[s] = tpc[s], next'[s] = next[s], step'[s] = step[s]
  PROVE  First(s)' = First(s) /\ Open(s)' = Open(s)
  <1>1. First(s)' = First(s)
    BY SizesFrame DEF First
  <1> QED
    BY <1>1 DEF Open

\* So has the table of accounts, if no thread gets on.
LEMMA MadeFrame ==
  ASSUME options' = options, step' = step
  PROVE  \A a \in Int : Made(a)' <=> Made(a)
  BY SizesFrame DEF Made

LEMMA CommitMakes ==
  ASSUME Inv, Sized, NEW t \in LoadThreads, tpc[t] = "populate", options' = options,
         CommitAndGoOn(t), NEW a \in Int
  PROVE  Made(a)' <=> Made(a) \/ (First(t) >= 0 /\ a \in Block(t))
  <1>1. /\ TypeOK /\ SizeInv /\ Geometry
        /\ loaders \in Nat \ {0} /\ ChunkSize \in Nat \ {0} /\ AcctsPerWorker \in Nat
    BY Safe
  <1>2. /\ Creator \notin Loaders /\ Loaders \subseteq LoadThreads /\ Creator \in LoadThreads
        /\ Loaders \subseteq Nat
    BY <1>1, LoadersAreBuilders
  <1>3. Loaders' = Loaders /\ \A i : Seg(i)' = Seg(i) /\ Start(i)' = Start(i)
    BY SizesFrame
  <1>4. /\ step \in [LoadThreads -> Int]
        /\ step' = [step EXCEPT ![t] =
                      IF t = Creator THEN step[t] + 1 ELSE step[t] + ChunkSize]
    BY <1>1 DEF CommitAndGoOn, TypeOK
  <1>5. CASE AtBranches(t)
    <2>1. step'[Creator] = 0 /\ step[Creator] = -1 /\ \A i \in Loaders : step'[i] = step[i]
      BY <1>2, <1>4, <1>5 DEF AtBranches
    <2>2. \A i \in Loaders : ~(i < 0) /\ ~(i < -1)
      BY <1>2
    <2>3. First(t) < 0 /\ First(t) \in Int
      BY <1>5, Ids
    <2> QED
      BY <1>3, <2>1, <2>2, <2>3 DEF Made
  <1>6. CASE AtSegment(t)
    <2>1. /\ step'[Creator] = step[Creator] + 1 /\ step[Creator] \in Nat
          /\ step[Creator] \in Loaders /\ \A i \in Loaders : step'[i] = step[i]
      BY <1>2, <1>4, <1>6 DEF AtSegment
    <2>2. \A i \in Loaders : i < step'[Creator] <=> i < step[Creator] \/ i = step[Creator]
      BY <1>2, <2>1
    <2>3. First(t) = Seg(step[Creator]) /\ Seg(step[Creator]) \in Nat
      BY <1>1, <1>6, <2>1 DEF AtSegment, Geometry
    <2>4. First(t) >= 0 /\ (a \in Block(t) <=> Seg(step[Creator]) <= a
                                            /\ a < Seg(step[Creator]) + ChunkSize)
      BY <1>1, <2>3 DEF Block
    <2> QED
      BY <1>3, <2>1, <2>2, <2>4 DEF Made
  <1>7. CASE AtChunk(t)
    <2>1. /\ step'[Creator] = step[Creator] /\ step'[t] = step[t] + ChunkSize
          /\ \A i \in Loaders : i # t => step'[i] = step[i]
      BY <1>2, <1>4, <1>7 DEF AtChunk
    <2>2. /\ t \in Loaders /\ t \in Nat /\ step[t] \in Nat /\ Start(t) \in Nat
          /\ First(t) = Start(t) + step[t]
      <3>1. /\ t \in Loaders /\ t \in Nat /\ step[t] \in Nat
            /\ First(t) = Seg(t) + ChunkSize + step[t]
        BY <1>7 DEF AtChunk
      <3>2. Seg(t) \in Nat /\ Start(t) = Seg(t) + ChunkSize
        BY <1>1, <3>1 DEF Geometry
      <3> QED
        BY <1>1, <3>1, <3>2
    <2>3. First(t) >= 0 /\ (a \in Block(t) <=> Start(t) + step[t] <= a
                                            /\ a < Start(t) + step[t] + ChunkSize)
      BY <1>1, <2>2 DEF Block
    <2>4. (Start(t) <= a /\ a < Start(t) + step'[t])
            <=> (Start(t) <= a /\ a < Start(t) + step[t]) \/ a \in Block(t)
      BY <1>1, <2>1, <2>2, <2>3
    <2>5. \A i \in Loaders :
            (Start(i) <= a /\ a < Start(i) + step'[i])
              <=> (Start(i) <= a /\ a < Start(i) + step[i]) \/ (i = t /\ a \in Block(t))
      BY <2>1, <2>4
    <2> QED
      BY <1>3, <2>1, <2>2, <2>3, <2>5 DEF Made
  <1> QED
    BY <1>5, <1>6, <1>7, ThreadAtWork

LEMMA CommitPlaces ==
  ASSUME Inv, Sized, NEW t \in LoadThreads, tpc[t] = "populate", options' = options,
         mpc' = mpc, CommitAndGoOn(t)
  PROVE  PlaceInv'
  <1>1. /\ TypeOK /\ SizeInv /\ Geometry /\ PlaceInv
        /\ loaders \in Nat \ {0} /\ ChunkSize \in Nat \ {0} /\ Count \in Nat
    BY Safe
  <1>2. /\ Creator \notin Loaders /\ Loaders \subseteq LoadThreads /\ Creator \in LoadThreads
        /\ Builders \subseteq LoadThreads
    BY <1>1, LoadersAreBuilders
  <1>3. Loaders' = Loaders /\ Count' = Count /\ loaders' = loaders
    BY SizesFrame
  <1>4. /\ step \in [LoadThreads -> Int]
        /\ tpc \in [LoadThreads -> {"unborn", "begin", "populate", "done"}]
    BY <1>1 DEF TypeOK
  <1>5. Creator \notin Builders
    BY ThreadsKinds, <1>2
  <1>6. CASE t = Creator
    <2>1. step[t] \in -1 .. loaders - 1 /\ mpc = "creator"
      <3>1. AtBranches(t) \/ AtSegment(t)
        BY <1>6, ThreadAtWork DEF AtChunk
      <3> QED
        BY <1>1, <3>1 DEF AtBranches, AtSegment, Loaders
    <2>2. /\ step'[Creator] = step[Creator] + 1
          /\ tpc'[Creator] = IF step[Creator] + 1 < loaders THEN "begin" ELSE "done"
          /\ \A s \in Builders : step'[s] = step[s] /\ tpc'[s] = tpc[s]
      BY <1>2, <1>4, <1>5, <1>6 DEF CommitAndGoOn
    <2>3. CreatorPlace'
      BY <1>1, <1>3, <1>6, <2>1, <2>2 DEF CreatorPlace
    <2>4. \A s \in Builders : IdlePlace(s)'
      BY <1>1, <2>1, <2>2 DEF PlaceInv, IdlePlace
    <2> QED
      BY <2>1, <2>3, <2>4 DEF PlaceInv
  <1>7. CASE t # Creator
    <2>1. AtChunk(t)
      BY <1>7, ThreadAtWork DEF AtBranches, AtSegment
    <2>2. /\ t \in Builders /\ t \in Loaders /\ mpc # "creator" /\ BuilderPlace(t)
          /\ step[t] \in Nat /\ step[t] + ChunkSize <= Count
      BY <1>1, <2>1 DEF AtChunk, PlaceInv
    <2>3. /\ step'[t] = step[t] + ChunkSize
          /\ tpc'[t] = IF step[t] + ChunkSize < Count THEN "begin" ELSE "done"
          /\ step'[Creator] = step[Creator] /\ tpc'[Creator] = tpc[Creator]
          /\ \A s \in Builders : s # t => step'[s] = step[s] /\ tpc'[s] = tpc[s]
      BY <1>2, <1>4, <1>7 DEF CommitAndGoOn
    <2>4. CreatorPlace'
      BY <1>1, <1>3, <2>3 DEF PlaceInv, CreatorPlace
    <2>5. BuilderPlace(t)'
      <3>1. (step[t] + ChunkSize) % ChunkSize = 0
        <4>1. ChunkSize % ChunkSize = 0 /\ step[t] % ChunkSize = 0
          BY <1>1, <2>2 DEF BuilderPlace
        <4> HIDE DEF BuilderPlace
        <4>2. step[t] \in Int /\ ChunkSize \in Int
          BY <1>1, <2>2
        <4> QED
          BY ONLY <1>1, <4>1, <4>2, MultiplesAdd
      <3>2. step'[t] \in 0 .. Count
        BY <1>1, <2>2, <2>3
      <3>3. tpc'[t] # "unborn" /\ (tpc'[t] = "done" <=> step'[t] = Count)
        BY <1>1, <2>2, <2>3
      <3> QED
        BY <1>3, <2>3, <3>1, <3>2, <3>3 DEF BuilderPlace
    <2>6. \A s \in Builders :
            s # t => IdlePlace(s)' = IdlePlace(s) /\ BuilderPlace(s)' = BuilderPlace(s)
      BY <1>3, <2>3 DEF IdlePlace, BuilderPlace
    <2>7. mpc # "loaded"
      BY <1>1, <2>2 DEF PlaceInv
    <2> QED
      BY <1>1, <1>3, <2>2, <2>4, <2>5, <2>6, <2>7 DEF PlaceInv
  <1> QED
    BY <1>6, <1>7

\* A commit keeps the rows it has, all of them; the transaction with the branches has none.
LEMMA CommitKeeps ==
  ASSUME Inv, Sized, NEW t \in LoadThreads, tpc[t] = "populate", options' = options,
         next' = next, accounts' = accounts, CommitAndGoOn(t),
         First(t) >= 0 => next[t] = ChunkSize
  PROVE  OwnInv' /\ AccountsInv'
  <1>1. /\ TypeOK /\ OwnInv /\ AccountsInv /\ ChunkSize \in Nat \ {0}
    BY Safe
  <1>2. /\ own \in [LoadThreads -> SUBSET Int] /\ step \in [LoadThreads -> Int]
        /\ tpc \in [LoadThreads -> {"unborn", "begin", "populate", "done"}]
    BY <1>1 DEF TypeOK
  <1>3. First(t) \in Int
    BY Ids
  <1>4. /\ own'[t] = {} /\ tpc'[t] # "populate"
        /\ \A s \in LoadThreads : s # t => /\ own'[s] = own[s] /\ tpc'[s] = tpc[s]
                                           /\ step'[s] = step[s] /\ next'[s] = next[s]
    BY <1>2 DEF CommitAndGoOn
  <1>5. \A a \in Int : a \in own[t] <=> First(t) >= 0 /\ a \in Block(t)
    BY <1>1, <1>3 DEF OwnInv, Open, Block
  <1>6. OwnInv'
    <2>1. Open(t)' = {}
      BY <1>4 DEF Open
    <2>2. \A s \in LoadThreads : s # t => Open(s)' = Open(s)
      BY <1>4, OpenFrame
    <2> QED
      BY <1>1, <1>4, <2>1, <2>2 DEF OwnInv
  <1>7. AccountsInv'
    <2> SUFFICES ASSUME NEW a \in Int
                 PROVE  a \in accounts <=> Made(a)' \/ \E s \in LoadThreads : a \in own'[s]
      BY DEF AccountsInv
    <2>1. Made(a)' <=> Made(a) \/ a \in own[t]
      BY <1>5, CommitMakes
    <2>2. a \in accounts <=> Made(a) \/ \E s \in LoadThreads : a \in own[s]
      BY <1>1 DEF AccountsInv
    <2> QED
      BY <1>4, <2>1, <2>2
  <1> QED
    BY <1>6, <1>7

\* A step that leaves the program counters of main and the threads' places as they are,
\* but for a transaction that begins or is aborted.
LEMMA PlacesFrame ==
  ASSUME Inv, Sized, NEW t \in LoadThreads, options' = options, mpc' = mpc, step' = step,
         tpc[t] \in {"begin", "populate"},
         \E p \in {"begin", "populate"} : tpc' = [tpc EXCEPT ![t] = p]
  PROVE  PlaceInv'
  <1>1. TypeOK /\ PlaceInv /\ SizeInv
    BY Safe
  <1>2. Creator \in LoadThreads /\ Builders \subseteq LoadThreads /\ Loaders \subseteq Builders
    BY <1>1, LoadersAreBuilders
  <1>3. Loaders' = Loaders /\ Count' = Count /\ loaders' = loaders
    BY SizesFrame
  <1>4. \A s \in LoadThreads : /\ (tpc'[s] = "unborn") <=> (tpc[s] = "unborn")
                               /\ (tpc'[s] = "done") <=> (tpc[s] = "done")
    BY <1>1 DEF TypeOK
  <1>5. CreatorPlace'
    BY <1>1, <1>2, <1>3, <1>4 DEF PlaceInv, CreatorPlace
  <1>6. \A s \in Builders : IdlePlace(s)' <=> IdlePlace(s)
    BY <1>2, <1>4 DEF IdlePlace
  <1>7. \A s \in Builders : BuilderPlace(s)' <=> BuilderPlace(s)
    BY <1>2, <1>3, <1>4 DEF BuilderPlace
  <1> QED
    BY <1>1, <1>2, <1>3, <1>4, <1>5, <1>6, <1>7 DEF PlaceInv

LEMMA BeginIsSafe ==
  ASSUME Inv, Sized, NEW t \in LoadThreads, options' = options, BeginXct(t)
  PROVE  PlaceInv' /\ OwnInv' /\ AccountsInv' /\ BranchesInv'
  <1>1. /\ TypeOK /\ OwnInv /\ AccountsInv /\ BranchesInv /\ ChunkSize \in Nat \ {0}
        /\ Creator \in LoadThreads
    BY Safe, LoadersAreBuilders
  <1>2. /\ tpc[t] = "begin" /\ tpc' = [tpc EXCEPT ![t] = "populate"]
        /\ next' = [next EXCEPT ![t] = 0] /\ mpc' = mpc /\ step' = step /\ own' = own
        /\ accounts' = accounts /\ branches' = branches /\ tellers' = tellers
    BY DEF BeginXct, tables
  <1>3. PlaceInv'
    BY <1>2, PlacesFrame
  <1>4. \A s \in LoadThreads : s # t => Open(s)' = Open(s)
    <2>1. \A s \in LoadThreads : s # t => tpc'[s] = tpc[s] /\ next'[s] = next[s]
      BY <1>1, <1>2 DEF TypeOK
    <2> QED
      BY <1>2, <2>1, OpenFrame
  <1>5. own[t] = {} /\ Open(t)' = {}
    <2>1. own[t] = {}
      BY <1>1, <1>2 DEF OwnInv, Open
    <2>2. next'[t] = 0 /\ First(t)' = First(t) /\ First(t) \in Int
      <3>1. next'[t] = 0
        BY <1>1, <1>2 DEF TypeOK
      <3>2. First(t)' = First(t)
        BY <1>2, SizesFrame DEF First
      <3>3. First(t) \in Int
        BY <1>2, Ids
      <3> QED
        BY <3>1, <3>2, <3>3
    <2>3. First(t)' + ChunkSize - next'[t] .. First(t)' + ChunkSize - 1 = {}
      BY <1>1, <2>2
    <2> QED
      BY <2>1, <2>3 DEF Open
  <1>6. OwnInv'
    BY <1>1, <1>2, <1>4, <1>5 DEF OwnInv
  <1>7. AccountsInv'
    BY <1>1, <1>2, MadeFrame DEF AccountsInv
  <1>8. BranchesInv'
    BY <1>1, <1>2, SizesFrame DEF BranchesInv, AllTellers
  <1> QED
    BY <1>3, <1>6, <1>7, <1>8

LEMMA AddBranchesIsSafe ==
  ASSUME Inv, Sized, NEW t \in LoadThreads, options' = options, AddBranches(t)
  PROVE  PlaceInv' /\ OwnInv' /\ AccountsInv' /\ BranchesInv'
  <1>1. /\ tpc[t] = "populate" /\ FirstId(t) < 0 /\ CommitAndGoOn(t) /\ mpc' = mpc
        /\ next' = next /\ accounts' = accounts
        /\ branches' = 0 .. sf - 1 /\ tellers' = AllTellers
    BY DEF AddBranches, AllTellers
  <1>2. AtBranches(t) /\ First(t) < 0 /\ First(t) \in Int
    BY <1>1, Ids
  <1>3. PlaceInv'
    BY <1>1, CommitPlaces
  <1>4. OwnInv' /\ AccountsInv'
    BY <1>1, <1>2, CommitKeeps
  <1>5. step'[Creator] = 0
    BY <1>1, <1>2, Safe DEF AtBranches, CommitAndGoOn, TypeOK
  <1>6. BranchesInv'
    BY <1>1, <1>5, SizesFrame DEF BranchesInv, AllTellers
  <1> QED
    BY <1>3, <1>4, <1>6

LEMMA CommitIsSafe ==
  ASSUME Inv, Sized, NEW t \in LoadThreads, options' = options, CommitXct(t)
  PROVE  PlaceInv' /\ OwnInv' /\ AccountsInv' /\ BranchesInv'
  <1>1. /\ tpc[t] = "populate" /\ FirstId(t) >= 0 /\ next[t] = ChunkSize /\ mpc' = mpc
        /\ CommitAndGoOn(t) /\ next' = next /\ accounts' = accounts
        /\ branches' = branches /\ tellers' = tellers
    BY DEF CommitXct, tables
  <1>2. First(t) >= 0 /\ First(t) \in Int /\ ~AtBranches(t)
    BY <1>1, Ids
  <1>3. PlaceInv'
    BY <1>1, CommitPlaces
  <1>4. OwnInv' /\ AccountsInv'
    BY <1>1, <1>2, CommitKeeps
  <1>5. TypeOK /\ BranchesInv /\ ChunkSize \in Nat
    BY Safe
  <1>6. step'[Creator] = -1 <=> step[Creator] = -1
    <2>1. AtSegment(t) \/ AtChunk(t)
      BY <1>1, <1>2, ThreadAtWork
    <2>2. step \in [LoadThreads -> Int] /\ Creator \in LoadThreads
      BY <1>5 DEF TypeOK, LoadThreads
    <2>3. CASE AtSegment(t)
      BY <1>1, <2>2, <2>3 DEF AtSegment, CommitAndGoOn
    <2>4. CASE AtChunk(t)
      BY <1>1, <2>2, <2>4 DEF AtChunk, CommitAndGoOn
    <2> QED
      BY <2>1, <2>3, <2>4
  <1>7. BranchesInv'
    BY <1>1, <1>5, <1>6, SizesFrame DEF BranchesInv, AllTellers
  <1> QED
    BY <1>3, <1>4, <1>7

LEMMA AddAccountIsSafe ==
  ASSUME Inv, Sized, NEW t \in LoadThreads, options' = options, AddAccount(t)
  PROVE  PlaceInv' /\ OwnInv' /\ AccountsInv' /\ BranchesInv'
  <1> DEFINE k == NextId(t)
  <1>1. /\ tpc[t] = "populate" /\ FirstId(t) >= 0 /\ next[t] < ChunkSize /\ mpc' = mpc
        /\ accounts' = accounts \cup {k} /\ own' = [own EXCEPT ![t] = @ \cup {k}]
        /\ next' = [next EXCEPT ![t] = @ + 1]
        /\ tpc' = tpc /\ step' = step /\ branches' = branches /\ tellers' = tellers
    BY DEF AddAccount
  <1>2. /\ TypeOK /\ OwnInv /\ AccountsInv /\ BranchesInv /\ ChunkSize \in Nat \ {0}
        /\ own \in [LoadThreads -> SUBSET Int]
        /\ next \in [LoadThreads -> 0 .. ChunkSize]
        /\ tpc \in [LoadThreads -> {"unborn", "begin", "populate", "done"}]
    BY Safe DEF TypeOK
  <1>3. /\ First(t) >= 0 /\ First(t) \in Int /\ next[t] \in 0 .. ChunkSize
        /\ k = First(t) + ChunkSize - next[t] - 1
    BY <1>1, Ids
  <1> HIDE DEF k
  <1>4. PlaceInv'
    <2>1. tpc' = [tpc EXCEPT ![t] = "populate"]
      BY <1>1, <1>2
    <2> QED
      BY <1>1, <2>1, PlacesFrame
  <1>5. /\ own'[t] = own[t] \cup {k} /\ next'[t] = next[t] + 1
        /\ \A s \in LoadThreads : s # t => own'[s] = own[s] /\ next'[s] = next[s]
    BY <1>1, <1>2
  <1>6. Open(t)' = Open(t) \cup {k}
    <2>1. First(t)' = First(t)
      BY <1>1, SizesFrame DEF First
    <2>2. First(t) + ChunkSize - (next[t] + 1) .. First(t) + ChunkSize - 1
            = (First(t) + ChunkSize - next[t] .. First(t) + ChunkSize - 1) \cup {k}
      BY <1>2, <1>3
    <2> QED
      BY <1>1, <1>3, <1>5, <2>1, <2>2 DEF Open
  <1>7. OwnInv'
    <2>1. \A s \in LoadThreads : s # t => Open(s)' = Open(s)
      BY <1>1, <1>5, OpenFrame
    <2> QED
      BY <1>2, <1>5, <1>6, <2>1 DEF OwnInv
  <1>8. AccountsInv'
    <2> SUFFICES ASSUME NEW a \in Int
                 PROVE  a \in accounts' <=> Made(a)' \/ \E s \in LoadThreads : a \in own'[s]
      BY DEF AccountsInv
    <2>1. Made(a)' <=> Made(a)
      BY <1>1, MadeFrame
    <2>2. a \in accounts <=> Made(a) \/ \E s \in LoadThreads : a \in own[s]
      BY <1>2 DEF AccountsInv
    <2>3. (\E s \in LoadThreads : a \in own'[s])
            <=> (\E s \in LoadThreads : a \in own[s]) \/ a = k
      BY <1>5
    <2> QED
      BY <1>1, <2>1, <2>2, <2>3
  <1>9. BranchesInv'
    BY <1>1, <1>2, SizesFrame DEF BranchesInv, AllTellers
  <1> QED
    BY <1>4, <1>7, <1>8, <1>9

\* No thread finds its key in the table.
LEMMA NoDuplicate ==
  ASSUME Inv, Sized, NEW t \in LoadThreads, DuplicateKey(t)
  PROVE  FALSE
  <1>1. tpc[t] = "populate"
    BY DEF DuplicateKey
  <1>2. /\ First(t) \in Int /\ FirstId(t) = First(t) /\ next[t] \in 0 .. ChunkSize
        /\ First(t) < 0 <=> AtBranches(t)
    BY <1>1, Ids
  <1>3. /\ OwnInv /\ AccountsInv /\ BranchesInv /\ ChunkSize \in Nat
    BY Safe
  <1>4. CASE First(t) < 0
    <2>1. branches = {}
      BY <1>2, <1>3, <1>4 DEF AtBranches, BranchesInv
    <2> QED
      BY <1>2, <1>4, <2>1 DEF DuplicateKey
  <1>5. CASE First(t) >= 0
    <2> DEFINE k == NextId(t)
    <2>1. /\ next[t] < ChunkSize
          /\ k \in accounts \ UNION {own[s] : s \in LoadThreads \ {t}}
      BY <1>2, <1>5 DEF DuplicateKey
    <2>2. k = First(t) + ChunkSize - next[t] - 1
      BY <1>1, <1>5, <2>1, Ids
    <2> HIDE DEF k
    <2>3. k \in Int /\ k \in Block(t)
      BY <1>2, <1>3, <2>1, <2>2 DEF Block
    <2>4. ~Made(k)
      BY <1>1, <1>5, <2>3, BlockNotMade
    <2>5. k \in own[t]
      BY <1>3, <2>1, <2>3, <2>4 DEF AccountsInv
    <2>6. k \notin Open(t)
      BY <1>2, <1>3, <2>1, <2>2 DEF Open
    <2> QED
      BY <1>3, <2>5, <2>6 DEF OwnInv
  <1> QED
    BY <1>2, <1>4, <1>5

LEMMA RetryIsSafe ==
  ASSUME Inv, Sized, NEW t \in LoadThreads, options' = options, RetryXct(t)
  PROVE  PlaceInv' /\ OwnInv' /\ AccountsInv' /\ BranchesInv'
  <1>1. /\ tpc[t] = "populate" /\ mpc' = mpc /\ step' = step /\ next' = next
        /\ accounts' = accounts \ own[t] /\ own' = [own EXCEPT ![t] = {}]
        /\ tpc' = [tpc EXCEPT ![t] = "begin"] /\ branches' = branches /\ tellers' = tellers
    BY DEF RetryXct
  <1>2. /\ OwnInv /\ AccountsInv /\ BranchesInv
        /\ own \in [LoadThreads -> SUBSET Int]
        /\ tpc \in [LoadThreads -> {"unborn", "begin", "populate", "done"}]
    BY Safe DEF TypeOK
  <1>3. PlaceInv'
    BY <1>1, PlacesFrame
  <1>4. /\ own'[t] = {} /\ tpc'[t] = "begin"
        /\ \A s \in LoadThreads : s # t => own'[s] = own[s] /\ tpc'[s] = tpc[s]
    BY <1>1, <1>2
  <1>5. OwnInv'
    <2>1. Open(t)' = {}
      BY <1>4 DEF Open
    <2>2. \A s \in LoadThreads : s # t => Open(s)' = Open(s)
      BY <1>1, <1>4, OpenFrame
    <2> QED
      BY <1>2, <1>4, <2>1, <2>2 DEF OwnInv
  <1>6. ASSUME NEW a \in own[t]
        PROVE  ~Made(a) /\ \A s \in LoadThreads : s # t => a \notin own[s]
    <2>1. First(t) >= 0 /\ a \in Block(t)
      BY <1>2, OpenInBlock DEF OwnInv
    <2>2. ~Made(a)
      BY <1>1, <2>1, BlockNotMade
    <2>3. ASSUME NEW s \in LoadThreads, s # t, a \in own[s] PROVE FALSE
      <3>1. tpc[s] = "populate" /\ First(s) >= 0 /\ a \in Block(s)
        BY <1>2, <2>3, OpenInBlock DEF OwnInv
      <3> QED
        BY <1>1, <2>1, <2>3, <3>1, BlocksApart
    <2> QED
      BY <2>2, <2>3
  <1>7. AccountsInv'
    <2> SUFFICES ASSUME NEW a \in Int
                 PROVE  a \in accounts' <=> Made(a)' \/ \E s \in LoadThreads : a \in own'[s]
      BY DEF AccountsInv
    <2>1. Made(a)' <=> Made(a)
      BY <1>1, MadeFrame
    <2>2. a \in accounts <=> Made(a) \/ \E s \in LoadThreads : a \in own[s]
      BY <1>2 DEF AccountsInv
    <2> QED
      BY <1>1, <1>4, <1>6, <2>1, <2>2
  <1>8. BranchesInv'
    BY <1>1, <1>2, SizesFrame DEF BranchesInv, AllTellers
  <1> QED
    BY <1>3, <1>5, <1>7, <1>8

LEMMA ThreadIsSafe ==
  ASSUME Inv, NEW t \in LoadThreads, LoadThread(t)
  PROVE  SafeInv'
  <1>1. mpc # "tables" /\ options' = options
    BY ThreadFrame
  <1> SUFFICES ASSUME WellSized'
               PROVE  PlaceInv' /\ OwnInv' /\ AccountsInv' /\ BranchesInv'
    BY DEF SafeInv
  <1>2. Sized
    BY <1>1, SizesFrame DEF Sized
  <1> QED
    BY <1>1, <1>2, BeginIsSafe, AddBranchesIsSafe, AddAccountIsSafe, CommitIsSafe,
       NoDuplicate, RetryIsSafe DEF LoadThread

LEMMA CreateIsSafe ==
  ASSUME Inv, Next, CreateTables
  PROVE  SafeInv'
  <1>1. /\ mpc = "tables" /\ mpc' = "creator" /\ loaders' = LoadersToUse
        /\ tpc' = [tpc EXCEPT ![Creator] = "begin"]
        /\ step' = [step EXCEPT ![Creator] = -1]
        /\ own' = own /\ accounts' = accounts /\ branches' = branches /\ tellers' = tellers
    BY DEF CreateTables, tables
  <1>2. /\ TypeOK /\ tpc = [t \in LoadThreads |-> "unborn"]
        /\ step = [t \in LoadThreads |-> 0] /\ own = [t \in LoadThreads |-> {}]
        /\ accounts = {} /\ branches = {} /\ tellers = {}
    BY <1>1 DEF Inv, FreshInv
  <1>3. TypeOK' /\ SizeInv'
    BY TypeStep, SizeStep DEF Inv
  <1>4. /\ Loaders' \subseteq Builders /\ Builders \subseteq LoadThreads
        /\ Loaders' \subseteq Nat /\ Creator \in LoadThreads
    <2>1. (Loaders \subseteq Builders)' /\ (Loaders \subseteq Nat)'
      BY <1>3, LoadersAreBuilders, PTL
    <2>2. Builders \subseteq LoadThreads /\ Creator \in LoadThreads
      BY DEF LoadThreads
    <2> QED
      BY <2>1, <2>2
  <1>5. loaders' \in Nat \ {0}
    BY <1>3 DEF TypeOK
  <1>6. Creator \notin Builders
    BY <1>4, ThreadsKinds
  <1>7. /\ step'[Creator] = -1 /\ tpc'[Creator] = "begin"
        /\ \A t \in Builders : step'[t] = 0 /\ tpc'[t] = "unborn"
    BY <1>1, <1>2, <1>4, <1>6
  <1>8. PlaceInv'
    <2>1. CreatorPlace'
      BY <1>1, <1>5, <1>7 DEF CreatorPlace
    <2>2. \A t \in Builders : IdlePlace(t)'
      BY <1>7 DEF IdlePlace
    <2> QED
      BY <1>1, <2>1, <2>2 DEF PlaceInv
  <1>9. OwnInv'
    <2>1. \A t \in LoadThreads : tpc'[t] # "populate" /\ own'[t] = {}
      BY <1>1, <1>2
    <2> QED
      BY <2>1 DEF OwnInv, Open
  <1>10. ASSUME WellSized' PROVE AccountsInv'
    <2>1. Geometry'
      <3>1. (mpc # "tables")'
        BY <1>1
      <3> QED
        BY <1>3, <1>10, <3>1, SegmentsFit, PTL
    <2>2. ASSUME NEW a \in Int, Made(a)' PROVE FALSE
      <3>1. \A i \in Loaders' : ~(i < -1) /\ Start(i)' \in Int
        BY <1>4, <2>1, LoaderAssumption DEF Geometry
      <3> QED
        BY <1>4, <1>7, <2>2, <3>1 DEF Made
    <2>3. \A t \in LoadThreads : own'[t] = {}
      BY <1>1, <1>2
    <2> QED
      BY <1>1, <1>2, <2>2, <2>3 DEF AccountsInv
  <1>11. BranchesInv'
    BY <1>1, <1>2, <1>7 DEF BranchesInv
  <1> QED
    BY <1>8, <1>9, <1>10, <1>11 DEF SafeInv

LEMMA ForkIsSafe ==
  ASSUME Inv, Sized, ForkLoaders, options' = options
  PROVE  PlaceInv' /\ OwnInv' /\ AccountsInv' /\ BranchesInv'
  <1>1. /\ mpc = "creator" /\ tpc[Creator] = "done" /\ mpc' = "load"
        /\ tpc' = [t \in LoadThreads |->
               IF t \in Loaders THEN IF 0 < Count THEN "begin" ELSE "done" ELSE tpc[t]]
        /\ step' = step /\ next' = next /\ own' = own
        /\ accounts' = accounts /\ branches' = branches /\ tellers' = tellers
    BY DEF ForkLoaders, tables
  <1>2. /\ TypeOK /\ SizeInv /\ PlaceInv /\ OwnInv /\ AccountsInv /\ BranchesInv
        /\ Count \in Nat /\ ChunkSize \in Nat \ {0}
    BY Safe
  <1>3. /\ Loaders \subseteq Builders /\ Builders \subseteq LoadThreads
        /\ Creator \notin Loaders /\ Creator \in LoadThreads
    BY <1>2, LoadersAreBuilders
  <1>4. Loaders' = Loaders /\ Count' = Count /\ loaders' = loaders
    BY SizesFrame
  <1>5. PlaceInv'
    <2>1. CreatorPlace'
      BY <1>1, <1>2, <1>3, <1>4 DEF PlaceInv, CreatorPlace
    <2>2. ASSUME NEW t \in Builders, t \notin Loaders PROVE IdlePlace(t)'
      BY <1>1, <1>2, <1>3, <2>2 DEF PlaceInv, IdlePlace
    <2>3. ASSUME NEW t \in Loaders PROVE BuilderPlace(t)'
      <3>1. step[t] = 0 /\ 0 % ChunkSize = 0
        BY <1>1, <1>2, <1>3 DEF PlaceInv, IdlePlace
      <3>2. tpc'[t] = IF 0 < Count THEN "begin" ELSE "done"
        BY <1>1, <1>3
      <3> QED
        BY <1>1, <1>2, <1>4, <3>1, <3>2 DEF BuilderPlace
    <2> QED
      BY <1>1, <1>4, <2>1, <2>2, <2>3 DEF PlaceInv
  <1>6. OwnInv'
    <2>1. ASSUME NEW t \in LoadThreads PROVE tpc[t] # "populate" /\ tpc'[t] # "populate"
      <3>1. CASE t = Creator
        BY <1>1, <1>3, <3>1
      <3>2. CASE t # Creator
        <4>1. tpc[t] = "unborn"
          BY <1>1, <1>2, <3>2, ThreadsKinds DEF PlaceInv, IdlePlace
        <4> QED
          BY <1>1, <4>1
      <3> QED
        BY <3>1, <3>2
    <2> QED
      BY <1>1, <1>2, <2>1 DEF OwnInv, Open
  <1>7. AccountsInv'
    BY <1>1, <1>2, MadeFrame DEF AccountsInv
  <1>8. BranchesInv'
    BY <1>1, <1>2, SizesFrame DEF BranchesInv, AllTellers
  <1> QED
    BY <1>5, <1>6, <1>7, <1>8

LEMMA JoinIsSafe ==
  ASSUME Inv, Sized, JoinLoaders, options' = options
  PROVE  PlaceInv' /\ OwnInv' /\ AccountsInv' /\ BranchesInv'
  <1>1. /\ mpc = "load" /\ mpc' = "loaded" /\ \A t \in Loaders : tpc[t] = "done"
        /\ tpc' = tpc /\ step' = step /\ next' = next /\ own' = own
        /\ accounts' = accounts /\ branches' = branches /\ tellers' = tellers
    BY DEF JoinLoaders, tables
  <1>2. PlaceInv /\ OwnInv /\ AccountsInv /\ BranchesInv
    BY Safe
  <1>3. Loaders' = Loaders /\ Count' = Count /\ loaders' = loaders
    BY SizesFrame
  <1>4. PlaceInv'
    BY <1>1, <1>2, <1>3 DEF PlaceInv, CreatorPlace, IdlePlace, BuilderPlace
  <1>5. OwnInv'
    BY <1>1, <1>2, OpenFrame DEF OwnInv
  <1>6. AccountsInv'
    BY <1>1, <1>2, MadeFrame DEF AccountsInv
  <1>7. BranchesInv'
    BY <1>1, <1>2, SizesFrame DEF BranchesInv, AllTellers
  <1> QED
    BY <1>4, <1>5, <1>6, <1>7

LEMMA StepInv ==
  ASSUME Inv, [Next]_vars
  PROVE  Inv'
  <1>1. CASE Next
    <2>1. TypeOK' /\ SizeInv' /\ FreshInv'
      BY <1>1, TypeStep, SizeStep DEF Inv
    <2>2. CASE CreateTables
      BY <1>1, <2>1, <2>2, CreateIsSafe DEF Inv
    <2>3. CASE ForkLoaders \/ JoinLoaders
      <3>1. options' = options /\ mpc # "tables"
        BY <2>3 DEF ForkLoaders, JoinLoaders, options
      <3>2. SUFFICES ASSUME WellSized'
                     PROVE  PlaceInv' /\ OwnInv' /\ AccountsInv' /\ BranchesInv'
        BY <2>1 DEF Inv, SafeInv
      <3>3. Sized
        BY <3>1, <3>2, SizesFrame DEF Sized
      <3> QED
        BY <2>3, <3>1, <3>3, ForkIsSafe, JoinIsSafe
    <2>4. CASE \E t \in LoadThreads : LoadThread(t)
      BY <2>1, <2>4, ThreadIsSafe DEF Inv
    <2> QED
      BY <1>1, <2>2, <2>3, <2>4 DEF Next
  <1>2. CASE UNCHANGED vars
    <2>1. /\ options' = options /\ mpc' = mpc /\ tpc' = tpc /\ step' = step /\ next' = next
          /\ own' = own /\ accounts' = accounts /\ branches' = branches /\ tellers' = tellers
          /\ sf' = sf /\ loaders' = loaders
      BY <1>2 DEF vars, options, tables
    <2>2. TypeOK' /\ SizeInv' /\ FreshInv'
      BY <2>1, SizesFrame DEF Inv, TypeOK, SizeInv, FreshInv
    <2>3. SUFFICES ASSUME (mpc # "tables")', WellSized'
                   PROVE  PlaceInv' /\ OwnInv' /\ AccountsInv' /\ BranchesInv'
      BY <2>2 DEF Inv, SafeInv
    <2>4. Sized
      BY <2>1, <2>3, SizesFrame DEF Sized
    <2>5. PlaceInv /\ OwnInv /\ AccountsInv /\ BranchesInv
      BY <2>4, Safe
    <2>6. PlaceInv'
      BY <2>1, <2>5, SizesFrame DEF PlaceInv, CreatorPlace, IdlePlace, BuilderPlace
    <2>7. OwnInv' /\ AccountsInv' /\ BranchesInv'
      BY <2>1, <2>5, OpenFrame, MadeFrame, SizesFrame
         DEF OwnInv, AccountsInv, BranchesInv, AllTellers
    <2> QED
      BY <2>6, <2>7
  <1> QED
    BY <1>1, <1>2

\* The invariant holds of every state of a load.
THEOREM Invariance == Spec => []Inv
  BY InitInv, StepInv, PTL DEF Spec

-----------------------------------------------------------------------------
(***************************************************************************)
(* What follows from it.                                                   *)
(***************************************************************************)

\* No thread of a load whose sizes fit adds a key that is there, however the threads
\* interleave and however often chunks are retried.
THEOREM NoKeyIsAddedTwice == Spec => []NoDuplicateKey
  <1>1. Inv => NoDuplicateKey
    <2> SUFFICES ASSUME Inv, WellSized, mpc = "fatal" PROVE FALSE
      BY DEF NoDuplicateKey
    <2>1. Sized
      BY DEF Sized
    <2> QED
      BY <2>1, Safe DEF PlaceInv
  <1> QED
    BY <1>1, Invariance, PTL

\* The committed accounts are those that the creator and the builders made.
LEMMA CommittedIsMade ==
  ASSUME Inv, Sized
  PROVE  \A a \in Int : a \in Committed <=> Made(a)
  <1> SUFFICES ASSUME NEW a \in Int PROVE a \in Committed <=> Made(a)
    OBVIOUS
  <1>1. AccountsInv /\ OwnInv
    BY Safe
  <1>2. ASSUME Made(a), NEW t \in LoadThreads, a \in own[t] PROVE FALSE
    <2>1. a \in Open(t)
      BY <1>1, <1>2 DEF OwnInv
    <2>2. tpc[t] = "populate" /\ First(t) >= 0 /\ a \in Block(t)
      BY <2>1, OpenInBlock
    <2> QED
      BY <1>2, <2>2, BlockNotMade
  <1> QED
    BY <1>1, <1>2 DEF AccountsInv, Committed

\* Before create_tables() there is no account.
LEMMA NothingCommitted ==
  ASSUME Inv, mpc = "tables"
  PROVE  Committed = {} /\ \A t \in LoadThreads : own[t] = {}
  BY DEF Inv, FreshInv, Committed

\* At every moment the committed accounts are whole chunks.
THEOREM ChunksAreAlwaysWhole == Spec => []ChunksAreWhole
  <1>1. ASSUME Inv, WellSized, NEW a \in Committed
        PROVE  (a - (a % ChunkSize) .. a - (a % ChunkSize) + ChunkSize - 1) \subseteq Committed
    <2>1. Sized
      BY <1>1, NothingCommitted DEF Sized
    <2>2. /\ TypeOK /\ SizeInv /\ Geometry /\ PlaceInv
          /\ ChunkSize \in Nat \ {0} /\ Count \in Nat
      BY <1>1, <2>1, Safe
    <2>3. a \in Int
      BY <2>2 DEF Committed, TypeOK
    <2>4. /\ Loaders \subseteq Nat /\ Loaders \subseteq Builders
      BY <2>2, LoadersAreBuilders
    <2>5. SUFFICES ASSUME NEW b \in a - (a % ChunkSize) .. a - (a % ChunkSize) + ChunkSize - 1
                   PROVE  Made(b)
      <3>1. a - (a % ChunkSize) \in Int
        BY <2>2, <2>3, DivMod
      <3>2. a - (a % ChunkSize) .. a - (a % ChunkSize) + ChunkSize - 1 \subseteq Int
        BY <2>2, <3>1
      <3> QED
        BY <1>1, <2>1, <2>5, <3>2, CommittedIsMade
    <2>6. ASSUME NEW x \in Int, NEW y \in Int, x % ChunkSize = 0, y % ChunkSize = 0,
                 x <= a, a < y
          PROVE  x <= b /\ b < y /\ b \in Int
      <3> DEFINE f == a - (a % ChunkSize)
      <3>1. f \in Int /\ x <= f /\ f + ChunkSize <= y
        BY <2>2, <2>3, <2>6, ChunkWithin
      <3>2. b \in f .. f + ChunkSize - 1
        BY <2>5
      <3> HIDE DEF f
      <3> QED
        BY <2>2, <2>6, <3>1, <3>2
    <2>7. ASSUME NEW i \in Loaders
          PROVE  /\ Seg(i) \in Int /\ Seg(i) % ChunkSize = 0
                 /\ Start(i) = Seg(i) + ChunkSize /\ Start(i) \in Int
                 /\ Start(i) % ChunkSize = 0
      <3>1. /\ Seg(i) \in Nat /\ Seg(i) % ChunkSize = 0
            /\ Start(i) = Seg(i) + ChunkSize
        BY <2>2, <2>4 DEF Geometry
      <3>2. ChunkSize % ChunkSize = 0
        BY <2>2
      <3>3. Seg(i) \in Int /\ ChunkSize \in Int
        BY <2>2, <3>1
      <3>4. (Seg(i) + ChunkSize) % ChunkSize = 0
        BY ONLY <2>2, <3>1, <3>2, <3>3, MultiplesAdd
      <3> QED
        BY <2>2, <3>1, <3>4
    <2>8. Made(a)
      BY <1>1, <2>1, <2>3, CommittedIsMade
    <2>9. ASSUME NEW i \in Loaders, i < step[Creator], Seg(i) <= a, a < Seg(i) + ChunkSize
          PROVE  Made(b)
      <3>1. Seg(i) <= b /\ b < Seg(i) + ChunkSize
        BY <2>2, <2>6, <2>7, <2>9
      <3> QED
        BY <2>9, <3>1 DEF Made
    <2>10. ASSUME NEW i \in Loaders, Start(i) <= a, a < Start(i) + step[i]
           PROVE  Made(b)
      <3>1. step[i] \in Nat /\ step[i] % ChunkSize = 0
        <4>1. 0 % ChunkSize = 0
          BY <2>2
        <4> QED
          BY <2>2, <2>4, <4>1 DEF PlaceInv, IdlePlace, BuilderPlace
      <3>2. (Start(i) + step[i]) % ChunkSize = 0 /\ Start(i) + step[i] \in Int
        <4>1. Start(i) \in Int /\ step[i] \in Int /\ Start(i) % ChunkSize = 0
          BY <2>7, <3>1
        <4> QED
          BY ONLY <2>2, <3>1, <4>1, MultiplesAdd
      <3>3. Start(i) <= b /\ b < Start(i) + step[i]
        BY <2>6, <2>7, <2>10, <3>2
      <3> QED
        BY <3>3 DEF Made
    <2> QED
      BY <2>8, <2>9, <2>10 DEF Made
  <1>2. Inv => ChunksAreWhole
    BY <1>1 DEF ChunksAreWhole
  <1> QED
    BY <1>2, Invariance, PTL

\* Between the open rows of two builders lies the chunk the creator made at the start of
\* the second one's segment.
THEOREM BuildersAreAlwaysBuffered == Spec => []BuildersAreBuffered
  <1>1. ASSUME Inv, WellSized, NEW s \in Loaders, NEW t \in Loaders, s < t,
               NEW a \in own[s], NEW b \in own[t]
        PROVE  \E k \in Committed : a < k /\ k < b
    <2>0. TypeOK /\ SizeInv
      BY <1>1 DEF Inv
    <2>1. /\ Loaders \subseteq Nat /\ Loaders \subseteq LoadThreads /\ Creator \notin Loaders
      BY <2>0, LoadersAreBuilders
    <2>2. Sized
      BY <1>1, <2>1, NothingCommitted DEF Sized
    <2>3. /\ Geometry /\ PlaceInv /\ OwnInv /\ loaders \in Nat \ {0}
          /\ ChunkSize \in Nat \ {0} /\ AcctsPerWorker \in Nat
          /\ Count = AcctsPerWorker - ChunkSize
      BY <1>1, <2>2, Safe
    <2>4. AtChunk(s) /\ a \in Block(s) /\ AtChunk(t) /\ b \in Block(t)
      <3>1. a \in Open(s) /\ b \in Open(t)
        BY <1>1, <2>1, <2>3 DEF OwnInv
      <3> QED
        BY <1>1, <2>1, <2>2, <3>1, OpenInBlock DEF AtSegment
    <2>5. /\ s \in Nat /\ t \in Nat /\ Seg(s) \in Nat /\ Seg(t) \in Nat
          /\ Seg(s) + AcctsPerWorker <= Seg(t)
      BY <1>1, <2>1, <2>3 DEF Geometry
    <2>6. a < Seg(t)
      BY <2>3, <2>4, <2>5 DEF AtChunk, Block
    <2>7. Seg(t) < b
      BY <2>3, <2>4, <2>5 DEF AtChunk, Block
    <2>8. Made(Seg(t))
      <3>1. step[Creator] = loaders /\ t < loaders
        BY <2>3, <2>4 DEF PlaceInv, CreatorPlace, AtChunk, Loaders
      <3> QED
        BY <2>3, <2>5, <3>1 DEF Made
    <2>9. Seg(t) \in Committed
      <3>1. Seg(t) \in Int
        BY <2>5
      <3> QED
        BY <1>1, <2>2, <2>8, <3>1, CommittedIsMade
    <2> QED
      BY <2>6, <2>7, <2>9
  <1>2. Inv => BuildersAreBuffered
    BY <1>1 DEF BuildersAreBuffered
  <1> QED
    BY <1>2, Invariance, PTL

\* The accounts that the creator and the builders make are all accounts of the branches.
LEMMA AllIsMade ==
  ASSUME Inv, Sized, mpc = "loaded"
  PROVE  \A a \in Int : Made(a) <=> 0 <= a /\ a < TotalAccounts
  <1>1. /\ TypeOK /\ SizeInv /\ Geometry /\ PlaceInv /\ loaders \in Nat \ {0}
        /\ ChunkSize \in Nat \ {0} /\ AcctsPerWorker \in Nat /\ TotalAccounts \in Nat
        /\ Count = AcctsPerWorker - ChunkSize
    BY Safe
  <1>2. Loaders \subseteq Nat /\ Loaders \subseteq Builders
    BY <1>1, LoadersAreBuilders
  <1>3. step[Creator] = loaders /\ \A i \in Loaders : i < loaders /\ step[i] = Count
    BY <1>1, <1>2 DEF PlaceInv, CreatorPlace, BuilderPlace, Loaders
  <1>4. \A i \in Loaders : /\ Seg(i) \in Nat /\ Start(i) = Seg(i) + ChunkSize
                           /\ Seg(i) + AcctsPerWorker <= TotalAccounts
                           /\ ChunkSize <= AcctsPerWorker
    BY <1>1, <1>2 DEF Geometry
  <1>5. ASSUME NEW a \in Int, Made(a)
        PROVE  0 <= a /\ a < TotalAccounts
    BY <1>1, <1>3, <1>4, <1>5 DEF Made
  <1>6. ASSUME NEW a \in Int, 0 <= a, a < TotalAccounts
        PROVE  Made(a)
    <2> DEFINE W == AcctsPerWorker
               i == a \div W
               m == a % W
    <2>1. W \in Nat \ {0}
      BY <1>1 DEF Geometry
    <2>2. i \in Nat /\ m \in 0 .. W - 1 /\ a = W * i + m
      <3>1. i \in Int /\ m \in 0 .. W - 1 /\ a = W * i + m
        BY <2>1, DivMod
      <3>2. i \in Nat
        BY <1>6, <2>1
      <3> QED
        BY <3>1, <3>2
    <2> HIDE DEF i, m
    <2>3. Seg(i) = W * i /\ Seg(i) \in Nat
      BY <1>1, <2>2 DEF Seg, Geometry
    <2> HIDE DEF W
    <2>4. Seg(i) <= a /\ a < Seg(i) + W
      BY <2>1, <2>2, <2>3
    <2>5. i \in Loaders
      <3>1. TotalAccounts = Seg(loaders) /\ Seg(loaders) \in Nat
            /\ (loaders < i => Seg(loaders) + W <= Seg(i))
        BY <1>1, <2>2 DEF Geometry, W
      <3>2. i < loaders
        BY <1>1, <1>6, <2>1, <2>2, <2>3, <2>4, <3>1
      <3> QED
        BY <1>1, <2>2, <3>2 DEF Loaders
    <2>6. CASE a < Seg(i) + ChunkSize
      BY <1>3, <2>4, <2>5, <2>6 DEF Made
    <2>7. CASE ~(a < Seg(i) + ChunkSize)
      <3>1. Start(i) <= a /\ a < Start(i) + step[i]
        BY <1>1, <1>3, <1>4, <2>3, <2>4, <2>5, <2>7 DEF W
      <3> QED
        BY <2>5, <3>1 DEF Made
    <2> QED
      BY <2>6, <2>7
  <1> QED
    BY <1>5, <1>6

\* A quotient is below q if the number is below q times the divisor.
LEMMA QuotientBelow ==
  ASSUME NEW d \in Nat \ {0}, NEW q \in Nat, NEW n \in Nat, n < d * q
  PROVE  n \div d \in 0 .. q - 1
  <1> DEFINE p == n \div d
  <1>1. p \in Nat /\ n = d * p + (n % d) /\ n % d \in 0 .. d - 1
    <2>1. p \in Nat
      OBVIOUS
    <2> QED
      BY <2>1, DivMod
  <1>2. d * p <= n /\ d * p \in Nat /\ d * q \in Nat
    BY <1>1
  <1> HIDE DEF p
  <1>3. ~(q <= p)
    <2>1. SUFFICES ASSUME q <= p PROVE FALSE
      OBVIOUS
    <2>2. CASE q = p
      BY <1>2, <2>2
    <2>3. CASE q < p
      <3>1. d * q + d <= d * p
        BY <1>1, <2>3, Mono
      <3> QED
        BY <1>1, <1>2, <3>1
    <2> QED
      BY <1>1, <2>1, <2>2, <2>3
  <1> QED
    BY <1>1, <1>3 DEF p

\* Each branch of a database with all tellers has as many as it should.
LEMMA TellersOfBranch ==
  ASSUME sf \in Nat \ {0}, NEW b \in 0 .. sf - 1
  PROVE  Cardinality({p \in AllTellers : p[2] = b}) = TellersPerBranch
  <1> DEFINE T == TellersPerBranch
             I == T * b .. T * b + T - 1
             P == {p \in AllTellers : p[2] = b}
             f == [i \in I |-> <<i, b>>]
  <1>1. T \in Nat \ {0} /\ b \in Nat /\ sf \in Nat
    BY LoaderAssumption
  <1>2. T * b \in Nat /\ T * b + T <= T * sf /\ T * sf \in Nat /\ T * sf = sf * T
    <2>1. b < sf /\ b \in Int /\ sf \in Int
      OBVIOUS
    <2>2. T * b + T <= T * sf
      BY <1>1, <2>1, Mono
    <2> QED
      BY <1>1, <2>2
  <1>3. ASSUME NEW i \in Nat
        PROVE  i \div T = b <=> i \in I
    <2>1. i = T * (i \div T) + (i % T) /\ i % T \in 0 .. T - 1
      BY <1>1, DivMod
    <2>2. CASE i \div T = b
      BY <1>1, <1>2, <2>1, <2>2
    <2>3. CASE i \in I
      <3>1. i - T * b \in 0 .. T - 1 /\ i = T * b + (i - T * b) /\ b \in Int
        BY <1>1, <1>2, <2>3
      <3> HIDE DEF T
      <3>2. (T * b + (i - T * b)) \div T = b
        BY <1>1, <3>1, DivModUnique
      <3> QED
        BY <2>3, <3>1, <3>2
    <2> QED
      BY <2>2, <2>3
  <1>4. P = {<<i, b>> : i \in I}
    <2>1. AllTellers = {<<i, i \div T>> : i \in 0 .. T * sf - 1}
      BY <1>2 DEF AllTellers
    <2> HIDE DEF T, I
    <2>2. I \subseteq 0 .. T * sf - 1 /\ 0 .. T * sf - 1 \subseteq Nat
      BY <1>1, <1>2 DEF I
    <2>3. ASSUME NEW p \in P PROVE p \in {<<i, b>> : i \in I}
      <3>1. PICK i \in 0 .. T * sf - 1 : p = <<i, i \div T>>
        BY <2>1
      <3>2. i \div T = b /\ i \in Nat
        BY <2>2, <3>1
      <3> QED
        BY <1>3, <3>1, <3>2
    <2>4. ASSUME NEW i \in I PROVE <<i, b>> \in P
      <3>1. i \in 0 .. T * sf - 1 /\ i \in Nat /\ i \div T = b
        BY <1>3, <2>2
      <3> QED
        BY <2>1, <3>1
    <2> QED
      BY <2>3, <2>4
  <1>5. IsFiniteSet(I) /\ Cardinality(I) = T
    <2> DEFINE x == T * b
               y == T * b + T - 1
    <2>1. x \in Int /\ y \in Int /\ y - x + 1 = T /\ ~(x > y)
      BY <1>1, <1>2
    <2> HIDE DEF x, y, T
    <2>2. IsFiniteSet(x .. y) /\ Cardinality(x .. y) = IF x > y THEN 0 ELSE y - x + 1
      BY ONLY <2>1, FS_Interval
    <2> QED
      BY <2>1, <2>2 DEF x, y
  <1> HIDE DEF P, I, T
  <1>6. f \in Bijection(I, P)
    <2>1. f \in [I -> P] /\ \A x, y \in I : f[x] = f[y] => x = y
      BY <1>4
    <2>2. \A p \in P : \E i \in I : f[i] = p
      BY <1>4
    <2> HIDE DEF f
    <2> QED
      BY <2>1, <2>2 DEF Bijection, Injection, Surjection, IsInjective
  <1>7. Cardinality(P) = Cardinality(I)
    <2>1. ExistsBijection(I, P)
      BY <1>6 DEF ExistsBijection
    <2> QED
      BY <1>5, <2>1, FS_Bijection
  <1> QED
    BY <1>5, <1>7 DEF P, T

\* A load whose sizes fit ends with every account, once, no other, and each branch with
\* its tellers.
THEOREM SizedLoadIsComplete == Spec => [](WellSized => LoadedIsComplete)
  <1>1. ASSUME Inv, WellSized, mpc = "loaded"
        PROVE  /\ accounts = 0 .. TotalAccounts - 1
               /\ branches = {a \div AccountsPerBranch : a \in accounts}
               /\ \A b \in branches :
                    Cardinality({p \in tellers : p[2] = b}) = TellersPerBranch
    <2>1. Sized
      BY <1>1 DEF Sized
    <2>2. /\ TypeOK /\ SizeInv /\ PlaceInv /\ OwnInv /\ AccountsInv /\ BranchesInv
          /\ TotalAccounts \in Nat /\ loaders \in Nat \ {0}
      BY <1>1, <2>1, Safe
    <2>3. sf \in Nat \ {0} /\ AccountsPerBranch \in Nat \ {0}
      BY <2>2, Numbers
    <2>4. \A t \in LoadThreads : tpc[t] # "populate"
      <3>1. Loaders \subseteq Builders
        BY <2>2, LoadersAreBuilders
      <3> QED
        BY <1>1, <2>2, <3>1, ThreadsKinds DEF PlaceInv, CreatorPlace, IdlePlace
    <2>5. \A a \in Int : a \in accounts <=> Made(a)
      BY <2>2, <2>4 DEF OwnInv, Open, AccountsInv
    <2>6. accounts = 0 .. TotalAccounts - 1
      <3>1. accounts \subseteq Int
        BY <2>2 DEF TypeOK
      <3>2. \A a \in Int : a \in accounts <=> 0 <= a /\ a < TotalAccounts
        BY <1>1, <2>1, <2>5, AllIsMade
      <3>3. \A a \in Int : a \in 0 .. TotalAccounts - 1 <=> 0 <= a /\ a < TotalAccounts
        BY <2>2
      <3>4. 0 .. TotalAccounts - 1 \subseteq Int
        OBVIOUS
      <3> QED
        BY <3>1, <3>2, <3>3, <3>4
    <2>7. branches = 0 .. sf - 1 /\ tellers = AllTellers
      BY <1>1, <2>2 DEF PlaceInv, CreatorPlace, BranchesInv
    <2>8. branches = {a \div AccountsPerBranch : a \in accounts}
      <3> DEFINE B == AccountsPerBranch
      <3>1. TotalAccounts = B * sf
        BY <2>3 DEF TotalAccounts
      <3> HIDE DEF B
      <3>2. ASSUME NEW a \in accounts PROVE a \div B \in 0 .. sf - 1
        <4>1. a \in Nat /\ a < B * sf
          BY <2>2, <2>6, <3>1, <3>2
        <4>2. B \in Nat \ {0} /\ sf \in Nat
          BY <2>3 DEF B
        <4> QED
          BY ONLY <4>1, <4>2, QuotientBelow
      <3>3. ASSUME NEW b \in 0 .. sf - 1 PROVE \E a \in accounts : b = a \div B
        <4>1. B \in Nat \ {0} /\ b \in Int /\ sf \in Int /\ b < sf /\ b \in Nat
          BY <2>3 DEF B
        <4>2. B * b + B <= B * sf
          BY <4>1, Mono
        <4>3. B * b \in Nat /\ B * sf \in Nat
          BY <2>3, <4>1
        <4>4. B * b \in 0 .. TotalAccounts - 1
          BY <3>1, <4>1, <4>2, <4>3
        <4>5. 0 \in 0 .. B - 1 /\ B * b + 0 = B * b
          BY <4>1, <4>3
        <4>6. (B * b) \div B = b
          BY <4>1, <4>5, DivModUnique
        <4> QED
          BY <2>6, <4>4, <4>6
      <3> QED
        BY <2>7, <3>2, <3>3 DEF B
    <2> QED
      BY <2>3, <2>6, <2>7, <2>8, TellersOfBranch
  <1>2. Inv => (WellSized => LoadedIsComplete)
    BY <1>1 DEF LoadedIsComplete
  <1> QED
    BY <1>2, Invariance, PTL

-----------------------------------------------------------------------------
(***************************************************************************)
(* Sizes that do not fit.  Some chunk clashes with one that the creator    *)
(* made before: it has a key of that one, or begins with a number that has *)
(* become negative, when the branches are there.  No thread gets past it.  *)
(***************************************************************************)

\* The first account of the chunk that thread t makes at s, its keys, and those that the
\* open transaction of thread t has added.
FirstOf(t, s) == IF t = Creator THEN AsInt(s * AcctsPerWorker) ELSE AsInt(Start(t) + s)
KeysOf(t, s) == {AsInt(FirstOf(t, s) + j) : j \in 0 .. ChunkSize - 1}
Added(t) ==
  IF tpc[t] = "populate" /\ FirstId(t) >= 0
  THEN {AsInt(FirstId(t) + j) : j \in ChunkSize - next[t] .. ChunkSize - 1}
  ELSE {}

RowsInv ==
  /\ \A t \in LoadThreads : own[t] = Added(t) /\ own[t] \subseteq accounts
  /\ \A t, u \in LoadThreads : t # u => own[t] \cap own[u] = {}

\* The program goes on.
Running == mpc \in {"creator", "load", "loaded"}

AtWorkPlace(t) ==
  /\ tpc[t] # "unborn"
  /\ step[t] \in Nat /\ step[t] % ChunkSize = 0
  /\ tpc[t] = "done" <=> step[t] >= Count

PlacesInv ==
  Running =>
    /\ CreatorPlace
    /\ mpc = "loaded" => \A t \in Loaders : tpc[t] = "done"
    /\ \A t \in Builders :
         IF mpc = "creator" \/ t \notin Loaders THEN IdlePlace(t) ELSE AtWorkPlace(t)

\* What the creator has made stays.
Kept(n) ==
  IF FirstOf(Creator, n) < 0 THEN branches # {} ELSE KeysOf(Creator, n) \subseteq Committed
CreatedInv == Running => \A n \in -1 .. step[Creator] - 1 : Kept(n)

\* The loop of thread t comes to s, where the chunk clashes with the creator's at n.
Due(t, s) ==
  IF t = Creator THEN s \in 0 .. loaders - 1
  ELSE t \in Loaders /\ s \in Nat /\ s < Count /\ s % ChunkSize = 0
ClashAt(t, s, n) ==
  /\ t = Creator => n < s
  /\ IF FirstOf(Creator, n) < 0
     THEN FirstOf(t, s) < 0
     ELSE FirstOf(t, s) >= 0 /\ KeysOf(t, s) \cap KeysOf(Creator, n) # {}
Clash(t, s) == Due(t, s) /\ \E n \in -1 .. loaders - 1 : ClashAt(t, s, n)

StuckInv == Running => \A t \in LoadThreads, s \in Nat : Clash(t, s) => step[t] <= s

WrongInv == RowsInv /\ PlacesInv /\ CreatedInv /\ StuckInv

-----------------------------------------------------------------------------
(***************************************************************************)
(* Numbers that an int cannot hold wrap around.                            *)
(***************************************************************************)
LEMMA IntSize ==
  /\ IntRange \div 2 \in Nat \ {0} /\ IntRange = 2 * (IntRange \div 2)
  /\ IntRange \in Nat \ {0} /\ ChunkSize \in Nat \ {0} /\ ChunkSize <= IntRange \div 2
  <1>1. IntRange \in Nat \ {0} /\ IntRange % 2 = 0 /\ ChunkSize \in Nat \ {0}
    BY LoaderAssumption
  <1> QED
    BY <1>1, IntAssumption

LEMMA IntOf ==
  ASSUME NEW m \in Int, NEW k \in Int, -(IntRange \div 2) <= m, m < IntRange \div 2
  PROVE  AsInt(m + IntRange * k) = m
  <1> DEFINE R == IntRange \div 2
             q == IntRange * k
  <1>1. R \in Nat /\ IntRange \in Nat \ {0} /\ IntRange = 2 * R
    BY IntSize
  <1>2. q \in Int
    BY <1>1
  <1>3. -R <= m /\ m < R
    OBVIOUS
  <1> HIDE DEF R
  <1>4. m + R \in 0 .. IntRange - 1
    BY <1>1, <1>3
  <1>5. (IntRange * k + (m + R)) % IntRange = m + R
    BY <1>1, <1>4, DivModUnique
  <1> HIDE DEF q
  <1>6. (q + (m + R)) % IntRange = m + R
    BY <1>5 DEF q
  <1>7. q + (m + R) = m + q + R
    BY <1>1, <1>2
  <1>8. ((m + q + R) % IntRange) - R = m
    BY <1>1, <1>6, <1>7
  <1> QED
    BY <1>8 DEF AsInt, R, q

LEMMA IntKept ==
  ASSUME NEW m \in Int, -(IntRange \div 2) <= m, m < IntRange \div 2
  PROVE  AsInt(m) = m
  <1>1. AsInt(m + IntRange * 0) = m
    BY IntOf
  <1>2. m + IntRange * 0 = m
    BY IntSize
  <1> QED
    BY <1>1, <1>2

LEMMA IntWraps ==
  ASSUME NEW n \in Int
  PROVE  /\ AsInt(n) \in Int /\ -(IntRange \div 2) <= AsInt(n) /\ AsInt(n) < IntRange \div 2
         /\ \E k \in Int : n = AsInt(n) + IntRange * k
  <1> DEFINE R == IntRange \div 2
             k == (n + R) \div IntRange
             q == IntRange * k
             m == (n + R) % IntRange
  <1>1. R \in Nat /\ IntRange \in Nat \ {0} /\ IntRange = 2 * R
    BY IntSize
  <1>2. n + R \in Int
    BY <1>1
  <1>3. k \in Int /\ m \in 0 .. IntRange - 1 /\ n + R = q + m
    BY <1>1, <1>2, DivMod
  <1>4. q \in Int
    BY <1>1, <1>3
  <1>5. AsInt(n) = m - R
    BY DEF AsInt
  <1> HIDE DEF R, k, m, q
  <1>6. m - R \in Int /\ -R <= m - R /\ m - R < R /\ n = (m - R) + q
    BY <1>1, <1>3, <1>4
  <1>7. q = IntRange * k
    BY DEF q
  <1> QED
    BY <1>3, <1>5, <1>6, <1>7 DEF R

LEMMA IntAdds ==
  ASSUME NEW n \in Int, NEW j \in Int
  PROVE  AsInt(AsInt(n) + j) = AsInt(n + j)
  <1> DEFINE a == AsInt(n)
             b == AsInt(a + j)
  <1>1. PICK k \in Int : n = a + IntRange * k
    BY IntWraps
  <1>2. a \in Int
    BY IntWraps
  <1>3. a + j \in Int
    BY <1>2
  <1>4. b \in Int /\ -(IntRange \div 2) <= b /\ b < IntRange \div 2
    BY <1>3, IntWraps
  <1>5. PICK i \in Int : a + j = b + IntRange * i
    BY <1>3, IntWraps
  <1> HIDE DEF a, b
  <1>6. n + j = b + IntRange * (i + k) /\ i + k \in Int
    <2>1. IntRange \in Int
      BY IntSize
    <2>2. IntRange * (i + k) = IntRange * i + IntRange * k
      BY <2>1
    <2>3. IntRange * i \in Int /\ IntRange * k \in Int
      BY <2>1
    <2> QED
      BY <1>1, <1>2, <1>4, <1>5, <2>2, <2>3
  <1>7. AsInt(n + j) = b
    BY <1>4, <1>6, IntOf
  <1> QED
    BY <1>7 DEF a, b

-----------------------------------------------------------------------------
(***************************************************************************)
(* Where the chunks clash.                                                 *)
(***************************************************************************)

\* The number behind the first key of a chunk.
Number(t, s) == IF t = Creator THEN s * AcctsPerWorker ELSE Start(t) + s

LEMMA NumberIs ==
  ASSUME TypeOK, NEW t \in Int, NEW s \in Int
  PROVE  Number(t, s) \in Int /\ FirstOf(t, s) = AsInt(Number(t, s))
  <1>1. AcctsPerWorker \in Nat /\ ChunkSize \in Nat
    BY Numbers
  <1>2. AcctsPerWorker * t \in Int /\ s * AcctsPerWorker \in Int
    BY <1>1
  <1> QED
    BY <1>1, <1>2 DEF Number, FirstOf, Start

LEMMA KeyOf ==
  ASSUME TypeOK, NEW t \in Int, NEW s \in Int, NEW j \in 0 .. ChunkSize - 1
  PROVE  AsInt(Number(t, s) + j) \in KeysOf(t, s)
  <1>1. Number(t, s) \in Int /\ FirstOf(t, s) = AsInt(Number(t, s)) /\ j \in Int
    BY NumberIs, IntSize
  <1>2. AsInt(Number(t, s) + j) = AsInt(FirstOf(t, s) + j)
    BY <1>1, IntAdds
  <1> QED
    BY <1>2 DEF KeysOf

\* Two chunks that begin with numbers that are not negative and have one in common.
LEMMA ClashOfKeys ==
  ASSUME TypeOK, NEW t \in Int, NEW s \in Int, NEW n \in -1 .. loaders - 1,
         t = Creator => n < s,
         FirstOf(Creator, n) >= 0, FirstOf(t, s) >= 0,
         NEW i \in 0 .. ChunkSize - 1, NEW j \in 0 .. ChunkSize - 1,
         AsInt(Number(t, s) + i) = AsInt(Number(Creator, n) + j)
  PROVE  ClashAt(t, s, n)
  <1>1. Creator \in Int /\ n \in Int
    BY DEF Creator
  <1>2. AsInt(Number(t, s) + i) \in KeysOf(t, s)
    BY KeyOf
  <1>3. AsInt(Number(Creator, n) + j) \in KeysOf(Creator, n)
    BY <1>1, KeyOf
  <1>4. KeysOf(t, s) \cap KeysOf(Creator, n) # {}
    BY <1>2, <1>3
  <1>5. FirstOf(Creator, n) \in Int
    BY <1>1, NumberIs, IntWraps
  <1> QED
    BY <1>4, <1>5 DEF ClashAt

\* What the sizes are, however badly they fit.
LEMMA SegmentSizes ==
  ASSUME TypeOK, SizeInv, mpc # "tables"
  PROVE  /\ loaders \in Nat \ {0} /\ 0 \in Loaders /\ AcctsPerWorker \in Nat \ {0}
         /\ TotalAccounts = AcctsPerWorker * loaders /\ ChunkSize \in Nat \ {0}
         /\ Count = AcctsPerWorker - ChunkSize
         /\ Number(Creator, -1) = -AcctsPerWorker
         /\ Number(Creator, 0) = 0 /\ Number(Creator, 1) = AcctsPerWorker
         /\ \A s \in Int : Number(0, s) = ChunkSize + s
  <1> DEFINE W == AcctsPerWorker
  <1>1. /\ loaders \in Nat \ {0} /\ ChunkSize \in Nat \ {0} /\ W \in Nat
        /\ TotalAccounts \in Nat \ {0}
    BY Numbers
  <1>2. TotalAccounts = loaders * W
    BY <1>1 DEF SizeInv, AcctsPerWorker
  <1> HIDE DEF W
  <1>3. W # 0
    <2>1. loaders * 0 = 0
      BY <1>1
    <2> QED
      BY <1>1, <1>2, <2>1
  <1>4. loaders * W = W * loaders
    BY <1>1
  <1>5. (-1) * W = -W /\ 0 * W = 0 /\ 1 * W = W /\ W * 0 = 0
    BY <1>1
  <1>6. Number(Creator, -1) = -W /\ Number(Creator, 0) = 0 /\ Number(Creator, 1) = W
    BY <1>5 DEF Number, W
  <1>7. ASSUME NEW s \in Int PROVE Number(0, s) = ChunkSize + s
    BY <1>1, <1>5 DEF Number, Start, Creator, W
  <1> QED
    BY <1>1, <1>2, <1>3, <1>4, <1>6, <1>7 DEF Count, Loaders, W

\* The segments are larger than an int: the creator takes the branches' turn for a chunk,
\* whose first key somebody else has to make.
LEMMA ClashWithFirst ==
  ASSUME TypeOK, SizeInv, mpc # "tables", FirstOf(Creator, -1) >= 0
  PROVE  \E t \in LoadThreads, s \in Nat : Clash(t, s)
  <1> DEFINE v == FirstOf(Creator, -1)
             R == IntRange \div 2
             W == AcctsPerWorker
             C == ChunkSize
  <1>1. /\ loaders \in Nat \ {0} /\ 0 \in Loaders /\ W \in Nat \ {0} /\ C \in Nat \ {0}
        /\ Count = W - C /\ Number(Creator, -1) = -W /\ Number(Creator, 0) = 0
        /\ \A s \in Int : Number(0, s) = C + s
        /\ R \in Nat \ {0} /\ C <= R
    BY SegmentSizes, IntSize
  <1>2. Creator \in LoadThreads /\ 0 \in LoadThreads /\ Creator = -1
    BY <1>1, LoadersAreBuilders DEF Creator
  <1>3. v = AsInt(-W)
    <2>1. -1 \in Int /\ Creator \in Int
      BY DEF Creator
    <2> QED
      BY <1>1, <2>1, NumberIs
  <1>4. v \in Int /\ 0 <= v /\ v < R
    <2>1. -W \in Int
      BY <1>1
    <2>2. AsInt(-W) \in Int /\ AsInt(-W) < R
      BY <2>1, IntWraps
    <2> QED
      BY <1>3, <2>2
  <1> HIDE DEF v, R, W, C
  <1>5. AsInt(v) = v
    <2>1. -R <= v
      BY <1>1, <1>4
    <2> QED
      BY <1>4, <2>1, IntKept DEF R
  <1>6. v < W
    <2>1. SUFFICES ASSUME W <= v PROVE FALSE
      BY <1>1, <1>4
    <2>2. -W \in Int /\ -R <= -W /\ -W < R
      BY <1>1, <1>4, <2>1
    <2>3. AsInt(-W) = -W
      BY <2>2, IntKept DEF R
    <2> QED
      BY <1>1, <1>3, <1>4, <2>3
  <1>7. -1 \in -1 .. loaders - 1 /\ 0 \in 0 .. loaders - 1 /\ 0 \in 0 .. C - 1
    BY <1>1
  <1>8. AsInt(Number(Creator, -1) + 0) = v
    BY <1>1, <1>3
  <1>9. CASE v < C
    <2>1. FirstOf(Creator, 0) = 0
      <3>1. Creator \in Int /\ 0 \in Int /\ -R <= 0 /\ 0 < R
        BY <1>1 DEF Creator
      <3>2. AsInt(0) = 0
        BY <3>1, IntKept DEF R
      <3> QED
        BY <1>1, <3>1, <3>2, NumberIs
    <2>2. v \in 0 .. C - 1 /\ Number(Creator, 0) + v = v
      BY <1>1, <1>4, <1>9
    <2>3. AsInt(Number(Creator, 0) + v) = AsInt(Number(Creator, -1) + 0)
      BY <1>5, <1>8, <2>2
    <2>4. Creator \in Int /\ 0 \in Int /\ -1 < 0
      BY DEF Creator
    <2>5. FirstOf(Creator, -1) >= 0 /\ FirstOf(Creator, 0) >= 0
      BY <1>4, <2>1 DEF v
    <2>6. ClashAt(Creator, 0, -1)
      BY <1>7, <2>2, <2>3, <2>4, <2>5, ClashOfKeys DEF C
    <2>7. Clash(Creator, 0)
      BY <1>7, <2>6 DEF Clash, Due
    <2> QED
      BY <1>2, <2>7
  <1>10. CASE C <= v
    <2> DEFINE m == v % C
               s == v - m - C
    <2>1. m \in 0 .. C - 1 /\ (v - m) % C = 0 /\ v - m >= C
      <3>1. C % C = 0
        BY <1>1
      <3>2. m \in 0 .. C - 1
        BY <1>1, <1>4, DivMod
      <3>3. (v - m) % C = 0
        <4>1. v \div C \in Int /\ v = C * (v \div C) + m
          BY <1>1, <1>4, DivMod
        <4>2. C * (v \div C) \in Int
          BY <1>1, <4>1
        <4> HIDE DEF m
        <4>3. v - m = C * (v \div C)
          BY <1>1, <1>4, <3>2, <4>1, <4>2
        <4> QED
          BY <1>1, <4>1, <4>3, MultipleMod
      <3>4. C \in Int /\ v + 1 \in Int
        BY <1>1, <1>4
      <3>5. v - m >= C
        <4>1. SUFFICES ASSUME v - m < C PROVE FALSE
          BY <1>1, <1>4, <3>2
        <4>2. v - m \in Int
          BY <1>4, <3>2
        <4> HIDE DEF m
        <4>3. v - m + C <= C
          BY ONLY <1>1, <3>1, <3>3, <3>4, <4>1, <4>2, MultiplesApart
        <4> QED
          BY <1>1, <1>4, <1>10, <3>2, <4>3
      <3> QED
        BY <3>2, <3>3, <3>5
    <2> HIDE DEF m
    <2>2. s \in Nat /\ s < Count /\ C + s = v - m /\ s \in Int
      BY <1>1, <1>4, <1>6, <2>1
    <2>3. s % C = 0
      <3>1. C % C = 0 /\ v - m \in Int /\ C \in Int
        BY <1>1, <1>4, <2>1
      <3>2. ((v - m) - C) % C = 0
        BY ONLY <1>1, <2>1, <3>1, MultiplesAdd
      <3> QED
        BY <3>2
    <2> HIDE DEF s
    <2>4. Number(0, s) = v - m
      BY <1>1, <2>2
    <2>5. FirstOf(0, s) = v - m
      <3>1. v - m \in Int /\ -R <= v - m /\ v - m < R
        BY <1>1, <1>4, <2>1
      <3>2. AsInt(v - m) = v - m
        BY <3>1, IntKept DEF R
      <3> QED
        BY <2>2, <2>4, <3>2, NumberIs
    <2>6. m \in 0 .. C - 1 /\ AsInt(Number(0, s) + m) = AsInt(Number(Creator, -1) + 0)
      <3>1. v - m + m = v
        BY <1>4, <2>1
      <3> QED
        BY <1>5, <1>8, <2>1, <2>4, <3>1
    <2>7. FirstOf(Creator, -1) >= 0 /\ FirstOf(0, s) >= 0
      BY <1>1, <1>4, <2>1, <2>5 DEF v
    <2>8. ClashAt(0, s, -1)
      BY <1>2, <1>7, <2>2, <2>6, <2>7, ClashOfKeys DEF C
    <2>9. Clash(0, s)
      BY <1>1, <1>2, <1>7, <2>2, <2>3, <2>8 DEF Clash, Due, C
    <2> QED
      BY <1>2, <2>2, <2>9
  <1> QED
    BY <1>1, <1>4, <1>9, <1>10

\* The branches are made, and a chunk begins with a negative number.
LEMMA ClashWithBranches ==
  ASSUME TypeOK, SizeInv, mpc # "tables", FirstOf(Creator, -1) < 0,
         NEW t \in LoadThreads, NEW s \in Nat, Due(t, s), FirstOf(t, s) < 0
  PROVE  Clash(t, s)
  <1>1. loaders \in Nat \ {0}
    BY SegmentSizes
  <1>2. -1 \in -1 .. loaders - 1 /\ -1 < s
    BY <1>1
  <1>3. ClashAt(t, s, -1)
    BY <1>2 DEF ClashAt
  <1> QED
    BY <1>2, <1>3 DEF Clash

\* The chunk does not divide the segments: the last chunk of the first one has the first
\* account of the second.
LEMMA ClashWithSecond ==
  ASSUME TypeOK, SizeInv, mpc # "tables", FirstOf(Creator, -1) < 0, ~EvenSegments
  PROVE  \E t \in LoadThreads, s \in Nat : Clash(t, s)
  <1> DEFINE W == AcctsPerWorker
             C == ChunkSize
  <1>1. /\ loaders \in Nat \ {0} /\ 0 \in Loaders /\ W \in Nat \ {0} /\ C \in Nat \ {0}
        /\ Count = W - C /\ Number(Creator, 0) = 0 /\ Number(Creator, 1) = W
        /\ \A s \in Int : Number(0, s) = C + s
        /\ TotalAccounts = W * loaders
    BY SegmentSizes
  <1>2. Creator \in LoadThreads /\ 0 \in LoadThreads /\ Creator = -1 /\ Creator \in Int
    BY <1>1, LoadersAreBuilders DEF Creator
  <1>3. W % C # 0
    BY DEF EvenSegments
  <1>4. loaders >= 2
    <2>1. SUFFICES ASSUME loaders = 1 PROVE FALSE
      BY <1>1
    <2>2. TotalAccounts = W
      BY <1>1, <2>1
    <2>3. /\ sf \in Nat /\ AccountsPerBranch \in Nat /\ AccountsPerBranch % C = 0
          /\ AccountsPerBranch \in Int
      BY LoaderAssumption DEF TypeOK
    <2> HIDE DEF C, W
    <2>4. PICK q \in Int : AccountsPerBranch = C * q
      BY ONLY <1>1, <2>3, MultipleOf
    <2>5. TotalAccounts = C * (sf * q) /\ sf * q \in Int
      BY <1>1, <2>3, <2>4 DEF TotalAccounts
    <2>6. TotalAccounts % C = 0
      BY <1>1, <2>5, MultipleMod
    <2> QED
      BY <1>3, <2>2, <2>6
  <1> HIDE DEF W, C
  <1>5. 0 \in -1 .. loaders - 1 /\ 1 \in -1 .. loaders - 1 /\ 1 \in 0 .. loaders - 1
        /\ 0 \in 0 .. C - 1 /\ 0 \in Int /\ 1 \in Int /\ 1 \in Nat
    BY <1>1, <1>4
  <1>6. Due(Creator, 1)
    BY <1>5 DEF Due
  <1>7. FirstOf(Creator, 1) = AsInt(W) /\ AsInt(W) \in Int
    BY <1>1, <1>2, <1>5, NumberIs, IntWraps
  <1>8. CASE AsInt(W) < 0
    BY <1>2, <1>5, <1>6, <1>7, <1>8, ClashWithBranches
  <1>9. CASE AsInt(W) >= 0 /\ W < C
    <2>1. FirstOf(Creator, 0) = 0
      <3>1. IntRange \div 2 \in Nat \ {0}
        BY IntSize
      <3>2. -(IntRange \div 2) <= 0 /\ 0 < IntRange \div 2
        BY <3>1
      <3>3. AsInt(0) = 0
        BY <1>5, <3>2, IntKept
      <3> QED
        BY <1>1, <1>2, <1>5, <3>3, NumberIs
    <2>2. W \in 0 .. C - 1 /\ Number(Creator, 1) + 0 = Number(Creator, 0) + W
      BY <1>1, <1>9
    <2>3. FirstOf(Creator, 0) >= 0 /\ FirstOf(Creator, 1) >= 0 /\ 0 < 1
      BY <1>7, <1>9, <2>1
    <2>4. AsInt(Number(Creator, 1) + 0) = AsInt(Number(Creator, 0) + W)
      BY <2>2
    <2>5. ClashAt(Creator, 1, 0)
      BY <1>2, <1>5, <2>2, <2>3, <2>4, ClashOfKeys DEF C
    <2> QED
      BY <1>2, <1>5, <1>6, <2>5 DEF Clash
  <1>10. CASE AsInt(W) >= 0 /\ ~(W < C)
    <2> DEFINE m == Count % C
               s == Count - m
    <2>1. Count \in Int /\ Count >= 0 /\ W = Count + C
      BY <1>1, <1>10
    <2>2. m \in 0 .. C - 1 /\ s % C = 0
      <3>1. m \in 0 .. C - 1 /\ Count \div C \in Int /\ Count = C * (Count \div C) + m
        BY <1>1, <2>1, DivMod
      <3>2. C * (Count \div C) \in Int
        BY <1>1, <3>1
      <3> HIDE DEF m
      <3>3. s = C * (Count \div C)
        BY <2>1, <3>1, <3>2
      <3> QED
        BY <1>1, <3>1, <3>3, MultipleMod
    <2>3. m # 0
      <3>1. SUFFICES ASSUME m = 0 PROVE FALSE
        OBVIOUS
      <3>2. C % C = 0 /\ C \in Int /\ Count % C = 0
        BY <1>1, <3>1
      <3>3. (Count + C) % C = 0
        BY ONLY <1>1, <2>1, <3>2, MultiplesAdd
      <3> QED
        BY <1>3, <2>1, <3>3
    <2>4. m <= Count
      BY <1>1, <2>1
    <2> HIDE DEF m
    <2>5. s \in Nat /\ s < Count /\ C + s + m = W /\ s \in Int
      BY <1>1, <2>1, <2>2, <2>3, <2>4
    <2> HIDE DEF s
    <2>6. Due(0, s)
      BY <1>1, <1>2, <2>2, <2>5 DEF Due, C
    <2>7. CASE FirstOf(0, s) < 0
      BY <1>2, <2>5, <2>6, <2>7, ClashWithBranches
    <2>8. CASE ~(FirstOf(0, s) < 0)
      <3>1. FirstOf(0, s) \in Int
        BY <1>5, <2>5, NumberIs, IntWraps
      <3>2. Number(0, s) + m = Number(Creator, 1) + 0
        BY <1>1, <2>2, <2>5
      <3>3. FirstOf(Creator, 1) >= 0 /\ FirstOf(0, s) >= 0
        BY <1>7, <1>10, <2>8, <3>1
      <3>4. AsInt(Number(0, s) + m) = AsInt(Number(Creator, 1) + 0)
        BY <3>2
      <3>5. ClashAt(0, s, 1)
        BY <1>2, <1>5, <2>2, <2>5, <3>3, <3>4, ClashOfKeys DEF C
      <3> QED
        BY <1>2, <1>5, <2>5, <2>6, <3>5 DEF Clash
    <2> QED
      BY <2>7, <2>8
  <1> QED
    BY <1>7, <1>8, <1>9, <1>10

\* There are more accounts than an int can number: one of the chunks, which is not behind the
\* last branch, begins with a number that becomes negative.
LEMMA FirstOverflow ==
  ASSUME TypeOK, ~IdsFit
  PROVE  \E g \in Nat : /\ g < TotalAccounts /\ g % ChunkSize = 0 /\ AsInt(g) < 0
  <1> DEFINE R == IntRange \div 2
             C == ChunkSize
             B == AccountsPerBranch
  <1>1. /\ sf \in Nat \ {0} /\ B \in Nat \ {0} /\ C \in Nat \ {0} /\ B % C = 0
        /\ TotalAccounts \in Nat /\ R \in Nat \ {0} /\ C <= R /\ IntRange = 2 * R
        /\ IntRange \in Int
    BY Numbers, IntSize, LoaderAssumption
  <1>2. TotalAccounts = B * sf /\ R < TotalAccounts
    BY <1>1 DEF TotalAccounts, IdsFit
  <1>3. R % C = 0 \/ R % B < B - C
    BY IntAssumption
  <1> HIDE DEF R, C, B
  <1>4. ASSUME NEW g \in Nat, R <= g, g < R + C PROVE AsInt(g) < 0
    <2>1. g - IntRange \in Int /\ -R <= g - IntRange /\ g - IntRange < R
          /\ g - IntRange < 0 /\ g = (g - IntRange) + IntRange * 1 /\ 1 \in Int
      BY <1>1, <1>4
    <2>2. AsInt((g - IntRange) + IntRange * 1) = g - IntRange
      BY <2>1, IntOf DEF R
    <2> QED
      BY <2>1, <2>2
  <1>5. CASE R % C = 0
    <2>1. R \in Nat /\ R <= R /\ R < R + C
      BY <1>1
    <2> QED
      BY <1>2, <1>4, <1>5, <2>1 DEF C
  <1>6. CASE R % C # 0
    <2> DEFINE m == R % C
               g == R - m + C
    <2>1. m \in 0 .. C - 1 /\ (R - m) % C = 0
      <3>1. R \in Int
        BY <1>1
      <3>2. m \in 0 .. C - 1 /\ R \div C \in Int /\ R = C * (R \div C) + m
        BY <1>1, <3>1, DivMod
      <3>3. C * (R \div C) \in Int
        BY <1>1, <3>2
      <3> HIDE DEF m
      <3>4. R - m = C * (R \div C)
        BY <3>1, <3>2, <3>3
      <3> QED
        BY <1>1, <3>2, <3>4, MultipleMod
    <2>2. m # 0
      BY <1>6
    <2> HIDE DEF m
    <2>3. g % C = 0
      <3>1. C % C = 0 /\ R - m \in Int /\ C \in Int
        BY <1>1, <2>1
      <3> QED
        BY ONLY <1>1, <2>1, <3>1, MultiplesAdd
    <2>4. g \in Nat /\ R <= g /\ g < R + C
      BY <1>1, <2>1, <2>2
    <2>5. g < TotalAccounts
      <3> DEFINE b == R \div B
                 r == R % B
      <3>1. b \in Int /\ r \in 0 .. B - 1 /\ R = B * b + r
        BY <1>1, DivMod
      <3>2. r < B - C
        BY <1>3, <1>6
      <3>3. B * b \in Int
        BY <1>1, <3>1
      <3> HIDE DEF b, r
      <3>4. b < sf
        <4>1. SUFFICES ASSUME sf <= b PROVE FALSE
          BY <1>1, <3>1
        <4>2. B * sf <= B * b
          <5>1. CASE sf = b
            BY <3>3, <5>1
          <5>2. CASE sf < b
            <6>1. B * sf + B <= B * b
              BY <1>1, <3>1, <5>2, Mono
            <6>2. B * sf \in Int
              BY <1>1
            <6> QED
              BY <1>1, <3>3, <6>1, <6>2
          <5> QED
            BY <1>1, <3>1, <4>1, <5>1, <5>2
        <4>3. B * sf \in Int
          BY <1>1
        <4> QED
          BY <1>1, <1>2, <3>1, <3>3, <4>2, <4>3
      <3>5. B * b + B <= B * sf
        BY <1>1, <3>1, <3>4, Mono
      <3>6. B * sf \in Int
        BY <1>1
      <3> QED
        BY <1>1, <1>2, <2>4, <3>1, <3>2, <3>3, <3>5, <3>6
    <2> HIDE DEF g
    <2> QED
      BY <1>4, <2>3, <2>4, <2>5 DEF C
  <1> QED
    BY <1>5, <1>6

LEMMA ClashWithOverflow ==
  ASSUME TypeOK, SizeInv, mpc # "tables", FirstOf(Creator, -1) < 0, EvenSegments, ~IdsFit
  PROVE  \E t \in LoadThreads, s \in Nat : Clash(t, s)
  <1> DEFINE W == AcctsPerWorker
             C == ChunkSize
  <1>1. /\ loaders \in Nat \ {0} /\ W \in Nat \ {0} /\ C \in Nat \ {0}
        /\ Count = W - C /\ TotalAccounts = W * loaders
    BY SegmentSizes
  <1>2. /\ Creator \in LoadThreads /\ Loaders \subseteq LoadThreads
        /\ Creator = -1 /\ Creator \in Int
    BY LoadersAreBuilders DEF Creator
  <1>3. PICK g \in Nat : g < TotalAccounts /\ g % C = 0 /\ AsInt(g) < 0
    BY FirstOverflow
  <1>4. W % C = 0
    BY DEF EvenSegments
  <1> DEFINE i == g \div W
             r == g % W
  <1> HIDE DEF W, C
  <1>5. i \in Int /\ r \in 0 .. W - 1 /\ g = W * i + r
    BY <1>1, DivMod
  <1>6. W * i \in Int /\ W * loaders \in Int
    BY <1>1, <1>5
  <1> HIDE DEF i, r
  <1>7. i \in Nat
    <2>1. SUFFICES ASSUME i < 0 PROVE FALSE
      BY <1>5
    <2>2. W * i + W <= W * 0
      BY <1>1, <1>5, <2>1, Mono
    <2>3. W * 0 = 0
      BY <1>1
    <2> QED
      BY <1>1, <1>5, <1>6, <2>2, <2>3
  <1>8. i < loaders
    <2>1. SUFFICES ASSUME loaders <= i PROVE FALSE
      BY <1>1, <1>5
    <2>2. W * loaders <= W * i
      <3>1. CASE loaders = i
        BY <1>6, <3>1
      <3>2. CASE loaders < i
        <4>1. W * loaders + W <= W * i
          BY <1>1, <1>5, <3>2, Mono
        <4> QED
          BY <1>1, <1>6, <4>1
      <3> QED
        BY <1>1, <1>5, <2>1, <3>1, <3>2
    <2> QED
      BY <1>1, <1>3, <1>5, <1>6, <2>2
  <1>9. r % C = 0
    <2>1. PICK q \in Int : W = C * q
      BY <1>1, <1>4, MultipleOf
    <2>2. W * i = C * (q * i) /\ q * i \in Int
      BY <1>1, <1>5, <2>1
    <2>3. (W * i) % C = 0
      BY <1>1, <2>2, MultipleMod
    <2>4. g \in Int
      OBVIOUS
    <2>5. (g - W * i) % C = 0
      BY ONLY <1>1, <1>3, <1>6, <2>3, <2>4, MultiplesAdd
    <2>6. g - W * i = r
      BY <1>5, <1>6
    <2> QED
      BY <2>5, <2>6
  <1>10. i \in Loaders /\ i # Creator /\ i \in 0 .. loaders - 1
    BY <1>1, <1>2, <1>7, <1>8 DEF Loaders
  <1>11. CASE r = 0
    <2>1. Number(Creator, i) = g
      <3>1. i * W = W * i
        BY <1>1, <1>5
      <3> QED
        BY <1>5, <1>6, <1>11, <3>1 DEF Number, W
    <2>2. FirstOf(Creator, i) < 0
      BY <1>2, <1>3, <1>5, <2>1, NumberIs
    <2>3. Due(Creator, i)
      BY <1>10 DEF Due
    <2> QED
      BY <1>2, <1>7, <2>2, <2>3, ClashWithBranches
  <1>12. CASE r # 0
    <2> DEFINE s == r - C
    <2>1. C <= r
      <3>1. 0 % C = 0 /\ 0 \in Int /\ r \in Int /\ 0 < r
        BY <1>1, <1>5, <1>12
      <3>2. 0 + C <= r
        BY <1>1, <1>9, <3>1, MultiplesApart
      <3> QED
        BY <1>1, <1>5, <3>2
    <2>2. s \in Nat /\ s < Count
      BY <1>1, <1>5, <2>1
    <2>3. s % C = 0
      <3>1. C % C = 0 /\ r \in Int /\ C \in Int
        BY <1>1, <1>5
      <3> QED
        BY ONLY <1>1, <1>9, <3>1, MultiplesAdd
    <2>4. Number(i, s) = g
      <3>1. W * i + C + (r - C) = g
        BY <1>1, <1>5, <1>6
      <3> QED
        BY <1>10, <3>1 DEF Number, Start, W, C
    <2> HIDE DEF s
    <2>5. FirstOf(i, s) < 0
      <3>1. s \in Int
        BY <2>2
      <3> QED
        BY <1>3, <1>5, <2>4, <3>1, NumberIs
    <2>6. Due(i, s)
      BY <1>10, <2>2, <2>3 DEF Due, C
    <2> QED
      BY <1>2, <1>10, <2>2, <2>5, <2>6, ClashWithBranches
  <1> QED
    BY <1>11, <1>12

\* Chunks clash unless the sizes fit.
LEMMA SizesClash ==
  ASSUME TypeOK, SizeInv, mpc # "tables", ~WellSized
  PROVE  \E t \in LoadThreads, s \in Nat : Clash(t, s)
  <1>1. FirstOf(Creator, -1) \in Int
    <2>1. -1 \in Int /\ Creator \in Int
      BY DEF Creator
    <2> QED
      BY <2>1, NumberIs, IntWraps
  <1>2. FirstOf(Creator, -1) < 0 \/ FirstOf(Creator, -1) >= 0
    BY <1>1
  <1> QED
    BY <1>2, ClashWithFirst, ClashWithSecond, ClashWithOverflow DEF WellSized

-----------------------------------------------------------------------------
(***************************************************************************)
(* The steps of any load.                                                  *)
(***************************************************************************)
LEMMA NumbersFrame ==
  ASSUME options' = options
  PROVE  /\ \A t, s : FirstOf(t, s)' = FirstOf(t, s) /\ KeysOf(t, s)' = KeysOf(t, s)
         /\ \A t, s : Clash(t, s)' <=> Clash(t, s)
  <1>1. \A t, s : FirstOf(t, s)' = FirstOf(t, s)
    BY SizesFrame DEF FirstOf
  <1>2. \A t, s : KeysOf(t, s)' = KeysOf(t, s)
    BY <1>1 DEF KeysOf
  <1>3. \A t, s, n : ClashAt(t, s, n)' <=> ClashAt(t, s, n)
    BY <1>1, <1>2 DEF ClashAt
  <1>4. \A t, s : Due(t, s)' <=> Due(t, s)
    BY SizesFrame DEF Due
  <1>5. loaders' = loaders
    BY SizesFrame
  <1> QED
    BY <1>1, <1>2, <1>3, <1>4, <1>5 DEF Clash

LEMMA AddedFrame ==
  ASSUME options' = options, NEW u \in LoadThreads,
         tpc'[u] = tpc[u], step'[u] = step[u], next'[u] = next[u]
  PROVE  Added(u)' = Added(u)
  <1>1. FirstId(u)' = FirstId(u)
    BY SizesFrame DEF FirstId
  <1> QED
    BY <1>1 DEF Added

\* What a thread does to its place.
LEMMA Moves ==
  ASSUME TypeOK, NEW t \in LoadThreads, LoadThread(t), Running'
  PROVE  /\ Running /\ mpc' = mpc /\ options' = options
         /\ tpc[t] \in {"begin", "populate"}
         /\ \/ /\ step' = step
               /\ \E p \in {"begin", "populate"} : tpc' = [tpc EXCEPT ![t] = p]
            \/ CommitAndGoOn(t) /\ (AddBranches(t) \/ CommitXct(t))
  <1>1. /\ mpc' = mpc /\ options' = options /\ tpc[t] \in {"begin", "populate"} /\ Running
    BY DEF LoadThread, BeginXct, AddBranches, AddAccount, CommitXct, DuplicateKey,
           RetryXct, options, Running
  <1>2. CASE BeginXct(t) \/ RetryXct(t)
    BY <1>1, <1>2 DEF BeginXct, RetryXct
  <1>3. CASE AddAccount(t)
    <2>1. tpc' = [tpc EXCEPT ![t] = "populate"]
      BY <1>3 DEF AddAccount, TypeOK
    <2> QED
      BY <1>1, <1>3, <2>1 DEF AddAccount
  <1>4. CASE DuplicateKey(t)
    BY <1>1, <1>4 DEF DuplicateKey, Running
  <1>5. CASE AddBranches(t) \/ CommitXct(t)
    BY <1>1, <1>5 DEF AddBranches, CommitXct
  <1> QED
    BY <1>2, <1>3, <1>4, <1>5 DEF LoadThread

\* A thread's open rows are in the table, and no other thread's.
LEMMA RowsStep ==
  ASSUME TypeOK, RowsInv, NEW t \in LoadThreads, LoadThread(t)
  PROVE  RowsInv'
  <1>1. options' = options
    BY DEF LoadThread, BeginXct, AddBranches, AddAccount, CommitXct, DuplicateKey,
           RetryXct, options
  <1>2. /\ own \in [LoadThreads -> SUBSET Int]
        /\ tpc \in [LoadThreads -> {"unborn", "begin", "populate", "done"}]
        /\ step \in [LoadThreads -> Int]
        /\ next \in [LoadThreads -> 0 .. ChunkSize] /\ ChunkSize \in Nat \ {0}
    BY Numbers DEF TypeOK
  <1>3. /\ \A u \in LoadThreads : own[u] = Added(u) /\ own[u] \subseteq accounts
        /\ \A u, v \in LoadThreads : u # v => own[u] \cap own[v] = {}
    BY DEF RowsInv
  <1>4. CASE BeginXct(t)
    <2>1. /\ tpc[t] = "begin" /\ own' = own /\ accounts' = accounts /\ next'[t] = 0
          /\ \A u \in LoadThreads : u # t =>
               tpc'[u] = tpc[u] /\ step'[u] = step[u] /\ next'[u] = next[u]
      BY <1>2, <1>4 DEF BeginXct, tables
    <2>2. own[t] = {}
      BY <1>3, <2>1 DEF Added
    <2>3. Added(t)' = {}
      <3>1. \A x : ~(x \in ChunkSize - 0 .. ChunkSize - 1)
        BY <1>2
      <3> QED
        BY <2>1, <3>1 DEF Added
    <2>4. \A u \in LoadThreads : u # t => Added(u)' = Added(u)
      BY <1>1, <2>1, AddedFrame
    <2> QED
      BY <1>3, <2>1, <2>2, <2>3, <2>4 DEF RowsInv
  <1>5. CASE AddBranches(t) \/ CommitXct(t)
    <2>1. /\ own'[t] = {} /\ accounts' = accounts /\ tpc'[t] # "populate"
          /\ \A u \in LoadThreads : u # t =>
               own'[u] = own[u] /\ tpc'[u] = tpc[u] /\ step'[u] = step[u] /\ next'[u] = next[u]
      BY <1>2, <1>5 DEF AddBranches, CommitXct, CommitAndGoOn, tables
    <2>2. Added(t)' = {}
      BY <2>1 DEF Added
    <2>3. \A u \in LoadThreads : u # t => Added(u)' = Added(u)
      BY <1>1, <2>1, AddedFrame
    <2> QED
      BY <1>3, <2>1, <2>2, <2>3 DEF RowsInv
  <1>6. CASE AddAccount(t)
    <2> DEFINE k == NextId(t)
               f == FirstId(t)
    <2>1. /\ tpc[t] = "populate" /\ f >= 0 /\ next[t] < ChunkSize /\ k \notin accounts
          /\ accounts' = accounts \cup {k} /\ own'[t] = own[t] \cup {k}
          /\ next'[t] = next[t] + 1 /\ tpc' = tpc /\ step' = step
          /\ \A u \in LoadThreads : u # t => own'[u] = own[u] /\ next'[u] = next[u]
      BY <1>2, <1>6 DEF AddAccount
    <2>2. FirstId(t)' = f
      BY <1>1, <2>1, SizesFrame DEF FirstId
    <2>3. Added(t)' = Added(t) \cup {k}
      <3> DEFINE d == ChunkSize - next[t] - 1
      <3>1. ChunkSize - (next[t] + 1) .. ChunkSize - 1
              = (ChunkSize - next[t] .. ChunkSize - 1) \cup {d}
        BY <1>2, <2>1
      <3>2. k = AsInt(f + d)
        BY DEF NextId
      <3> HIDE DEF d, f, k
      <3>3. {AsInt(f + j) : j \in ChunkSize - (next[t] + 1) .. ChunkSize - 1}
              = {AsInt(f + j) : j \in ChunkSize - next[t] .. ChunkSize - 1} \cup {k}
        BY <3>1, <3>2
      <3>4. Added(t) = {AsInt(f + j) : j \in ChunkSize - next[t] .. ChunkSize - 1}
        BY <2>1 DEF Added, f
      <3>5. Added(t)' = {AsInt(f + j) : j \in ChunkSize - (next[t] + 1) .. ChunkSize - 1}
        <4>1. Added(t)' = {AsInt(FirstId(t)' + j) : j \in ChunkSize - next'[t] .. ChunkSize - 1}
          BY <2>1, <2>2 DEF Added, AsInt
        <4> QED
          BY <2>1, <2>2, <4>1
      <3> QED
        BY <3>3, <3>4, <3>5
    <2>4. \A u \in LoadThreads : u # t => Added(u)' = Added(u)
      BY <1>1, <2>1, AddedFrame
    <2>5. \A u \in LoadThreads : k \notin own[u]
      BY <1>3, <2>1
    <2> HIDE DEF k, f
    <2>6. \A u \in LoadThreads : own'[u] = Added(u)' /\ own'[u] \subseteq accounts'
      BY <1>3, <2>1, <2>3, <2>4
    <2>7. \A u, v \in LoadThreads : u # v => own'[u] \cap own'[v] = {}
      BY <1>3, <2>1, <2>5
    <2> QED
      BY <2>6, <2>7 DEF RowsInv
  <1>7. CASE DuplicateKey(t)
    <2>1. /\ own' = own /\ accounts' = accounts /\ tpc' = tpc /\ step' = step /\ next' = next
      BY <1>7 DEF DuplicateKey, tables
    <2>2. \A u \in LoadThreads : Added(u)' = Added(u)
      BY <1>1, <2>1, AddedFrame
    <2> QED
      BY <1>3, <2>1, <2>2 DEF RowsInv
  <1>8. CASE RetryXct(t)
    <2>1. /\ own'[t] = {} /\ accounts' = accounts \ own[t] /\ tpc'[t] # "populate"
          /\ \A u \in LoadThreads : u # t =>
               own'[u] = own[u] /\ tpc'[u] = tpc[u] /\ step'[u] = step[u] /\ next'[u] = next[u]
      BY <1>2, <1>8 DEF RetryXct
    <2>2. Added(t)' = {}
      BY <2>1 DEF Added
    <2>3. \A u \in LoadThreads : u # t => Added(u)' = Added(u)
      BY <1>1, <2>1, AddedFrame
    <2>4. \A u \in LoadThreads : own'[u] \subseteq accounts'
      BY <1>3, <2>1
    <2> QED
      BY <1>3, <2>1, <2>2, <2>3, <2>4 DEF RowsInv
  <1> QED
    BY <1>4, <1>5, <1>6, <1>7, <1>8 DEF LoadThread

\* Committed rows stay, and so do the branches.
LEMMA CommittedStays ==
  ASSUME TypeOK, RowsInv, NEW t \in LoadThreads, LoadThread(t)
  PROVE  /\ Committed \subseteq Committed'
         /\ branches # {} => branches' # {}
  <1>1. own \in [LoadThreads -> SUBSET Int]
    BY DEF TypeOK
  <1>2. ASSUME NEW a \in Committed
        PROVE  a \in accounts' /\ \A u \in LoadThreads : a \notin own'[u]
    <2>1. a \in accounts /\ \A u \in LoadThreads : a \notin own[u]
      BY <1>2 DEF Committed
    <2>2. CASE BeginXct(t) \/ DuplicateKey(t)
      BY <2>1, <2>2 DEF BeginXct, DuplicateKey, tables
    <2>3. CASE AddBranches(t) \/ CommitXct(t)
      BY <1>1, <2>1, <2>3 DEF AddBranches, CommitXct, CommitAndGoOn, tables
    <2>4. CASE AddAccount(t)
      BY <1>1, <2>1, <2>4 DEF AddAccount
    <2>5. CASE RetryXct(t)
      BY <1>1, <2>1, <2>5 DEF RetryXct
    <2> QED
      BY <2>2, <2>3, <2>4, <2>5 DEF LoadThread
  <1>3. branches # {} => branches' # {}
    BY DEF LoadThread, BeginXct, AddBranches, AddAccount, CommitXct, DuplicateKey,
           RetryXct, tables
  <1> QED
    BY <1>2, <1>3 DEF Committed

\* A transaction that commits at s has made its chunk, and found no part of it there.
LEMMA CommitIsWhole ==
  ASSUME TypeOK, RowsInv, NEW t \in LoadThreads, CommitXct(t)
  PROVE  /\ FirstOf(t, step[t]) >= 0
         /\ own[t] = KeysOf(t, step[t])
         /\ own[t] \subseteq Committed'
         /\ own[t] \cap Committed = {}
  <1>1. tpc[t] = "populate" /\ FirstId(t) >= 0 /\ next[t] = ChunkSize
    BY DEF CommitXct
  <1>2. FirstId(t) = FirstOf(t, step[t])
    BY DEF FirstId, FirstOf
  <1>3. own[t] = KeysOf(t, step[t])
    <2>1. ChunkSize - ChunkSize = 0
      BY IntSize
    <2>2. own[t] = Added(t)
      BY DEF RowsInv
    <2> QED
      BY <1>1, <1>2, <2>1, <2>2 DEF Added, KeysOf
  <1>4. own[t] \subseteq Committed'
    <2>1. /\ accounts' = accounts /\ own' = [own EXCEPT ![t] = {}]
          /\ own \in [LoadThreads -> SUBSET Int]
      BY DEF CommitXct, CommitAndGoOn, tables, TypeOK
    <2>2. ASSUME NEW a \in own[t]
          PROVE  a \in accounts' /\ \A u \in LoadThreads : a \notin own'[u]
      BY <2>1, <2>2 DEF RowsInv
    <2> QED
      BY <2>2 DEF Committed
  <1>5. own[t] \cap Committed = {}
    BY DEF Committed
  <1> QED
    BY <1>1, <1>2, <1>3, <1>4, <1>5

\* Where the threads are.
LEMMA PlacesStep ==
  ASSUME TypeOK, SizeInv, PlacesInv, NEW t \in LoadThreads, LoadThread(t)
  PROVE  PlacesInv'
  <1> SUFFICES ASSUME Running'
               PROVE  /\ CreatorPlace'
                      /\ (mpc = "loaded" => \A u \in Loaders : tpc[u] = "done")'
                      /\ \A u \in Builders :
                           (IF mpc = "creator" \/ u \notin Loaders
                            THEN IdlePlace(u) ELSE AtWorkPlace(u))'
    BY DEF PlacesInv
  <1>1. /\ Running /\ mpc' = mpc /\ options' = options
        /\ tpc[t] \in {"begin", "populate"}
        /\ \/ step' = step /\ \E p \in {"begin", "populate"} : tpc' = [tpc EXCEPT ![t] = p]
           \/ CommitAndGoOn(t)
    BY Moves
  <1>2. /\ CreatorPlace /\ (mpc = "loaded" => \A u \in Loaders : tpc[u] = "done")
        /\ \A u \in Builders :
             IF mpc = "creator" \/ u \notin Loaders THEN IdlePlace(u) ELSE AtWorkPlace(u)
    BY <1>1 DEF PlacesInv
  <1>3. /\ tpc \in [LoadThreads -> {"unborn", "begin", "populate", "done"}]
        /\ step \in [LoadThreads -> Int]
        /\ loaders \in Nat \ {0} /\ ChunkSize \in Nat \ {0} /\ AcctsPerWorker \in Nat
    BY Numbers DEF TypeOK
  <1>4. Loaders' = Loaders /\ Count' = Count /\ loaders' = loaders
    BY <1>1, SizesFrame
  <1>5. \A u \in LoadThreads : u # t => tpc'[u] = tpc[u] /\ step'[u] = step[u]
    BY <1>1, <1>3 DEF CommitAndGoOn
  <1>6. /\ Loaders \subseteq Builders /\ Builders \subseteq LoadThreads
        /\ Creator \notin Builders /\ Creator \in LoadThreads
    BY LoadersAreBuilders, ThreadsKinds
  <1>7. CASE t = Creator
    <2>1. mpc = "creator" /\ step[t] \in -1 .. loaders - 1
      BY <1>1, <1>2, <1>3, <1>7 DEF CreatorPlace, Running
    <2>2. CreatorPlace'
      <3>1. CASE step' = step /\ \E p \in {"begin", "populate"} : tpc' = [tpc EXCEPT ![t] = p]
        <4>1. tpc'[t] \in {"begin", "populate"}
          BY <1>3, <3>1
        <4> QED
          BY <1>1, <1>2, <1>3, <1>4, <1>7, <2>1, <3>1, <4>1 DEF CreatorPlace
      <3>2. CASE CommitAndGoOn(t)
        <4>1. /\ step'[t] = step[t] + 1
              /\ tpc'[t] = IF step[t] + 1 < loaders THEN "begin" ELSE "done"
          BY <1>3, <1>7, <3>2 DEF CommitAndGoOn
        <4> QED
          BY <1>1, <1>3, <1>4, <1>7, <2>1, <4>1 DEF CreatorPlace
      <3> QED
        BY <1>1, <3>1, <3>2
    <2>3. \A u \in Builders : IdlePlace(u)'
      BY <1>2, <1>5, <1>6, <1>7, <2>1 DEF IdlePlace
    <2> QED
      BY <1>1, <2>1, <2>2, <2>3
  <1>8. CASE t # Creator
    <2>1. t \in Builders
      BY <1>8, ThreadsKinds
    <2>2. mpc # "creator" /\ t \in Loaders /\ AtWorkPlace(t)
      BY <1>1, <1>2, <2>1 DEF IdlePlace
    <2>3. mpc # "loaded"
      BY <1>1, <1>2, <2>2
    <2>4. CreatorPlace'
      BY <1>1, <1>2, <1>4, <1>5, <1>6, <1>8 DEF CreatorPlace
    <2>5. AtWorkPlace(t)'
      <3>1. CASE step' = step /\ \E p \in {"begin", "populate"} : tpc' = [tpc EXCEPT ![t] = p]
        <4>1. tpc'[t] \in {"begin", "populate"}
          BY <1>3, <3>1
        <4> QED
          BY <1>1, <1>4, <2>2, <3>1, <4>1 DEF AtWorkPlace
      <3>2. CASE CommitAndGoOn(t)
        <4>1. /\ step'[t] = step[t] + ChunkSize
              /\ tpc'[t] = IF step[t] + ChunkSize < Count THEN "begin" ELSE "done"
          BY <1>3, <1>8, <3>2 DEF CommitAndGoOn
        <4>2. step[t] \in Nat /\ step[t] % ChunkSize = 0
          BY <2>2 DEF AtWorkPlace
        <4>3. ChunkSize % ChunkSize = 0 /\ ChunkSize \in Int /\ step[t] \in Int
          BY <1>3, <4>2
        <4>4. (step[t] + ChunkSize) % ChunkSize = 0
          BY ONLY <1>3, <4>2, <4>3, MultiplesAdd
        <4>5. Count \in Int
          BY <1>3 DEF Count
        <4>6. step[t] + ChunkSize \in Nat
          BY <1>3, <4>2
        <4> QED
          BY <1>4, <4>1, <4>4, <4>5, <4>6 DEF AtWorkPlace
      <3> QED
        BY <1>1, <3>1, <3>2
    <2>6. \A u \in Builders : u # t =>
            /\ IdlePlace(u)' <=> IdlePlace(u)
            /\ AtWorkPlace(u)' <=> AtWorkPlace(u)
      BY <1>4, <1>5, <1>6 DEF IdlePlace, AtWorkPlace
    <2> QED
      BY <1>1, <1>2, <1>4, <2>2, <2>3, <2>4, <2>5, <2>6
  <1> QED
    BY <1>7, <1>8

\* What the creator has made, and will have made when it goes on.
LEMMA CreatedStep ==
  ASSUME TypeOK, SizeInv, RowsInv, PlacesInv, CreatedInv,
         NEW t \in LoadThreads, LoadThread(t)
  PROVE  CreatedInv'
  <1> SUFFICES ASSUME Running', NEW n \in -1 .. step'[Creator] - 1
               PROVE  IF FirstOf(Creator, n)' < 0 THEN branches' # {}
                      ELSE KeysOf(Creator, n)' \subseteq Committed'
    BY DEF CreatedInv, Kept
  <1>1. /\ Running /\ mpc' = mpc /\ options' = options
        /\ tpc[t] \in {"begin", "populate"}
        /\ \/ step' = step
           \/ CommitAndGoOn(t) /\ (AddBranches(t) \/ CommitXct(t))
    BY Moves
  <1>2. FirstOf(Creator, n)' = FirstOf(Creator, n) /\ KeysOf(Creator, n)' = KeysOf(Creator, n)
    BY <1>1, NumbersFrame
  <1>3. Committed \subseteq Committed' /\ (branches # {} => branches' # {})
    BY CommittedStays
  <1>4. step \in [LoadThreads -> Int] /\ Creator \in LoadThreads /\ sf \in Nat \ {0}
    BY LoadersAreBuilders, Numbers DEF TypeOK
  <1>5. CASE n \in -1 .. step[Creator] - 1
    BY <1>1, <1>2, <1>3, <1>5 DEF CreatedInv, Kept
  <1>6. CASE ~(n \in -1 .. step[Creator] - 1)
    <2>1. t = Creator /\ CommitAndGoOn(t) /\ (AddBranches(t) \/ CommitXct(t))
      <3>1. step' # step
        BY <1>6
      <3>2. CASE t # Creator
        <4>1. step'[Creator] = step[Creator]
          BY <1>1, <1>4, <3>1, <3>2 DEF CommitAndGoOn
        <4> QED
          BY <1>6, <4>1
      <3> QED
        BY <1>1, <3>1, <3>2
    <2>2. n = step[Creator]
      <3>1. step'[Creator] = step[Creator] + 1
        BY <1>4, <2>1 DEF CommitAndGoOn
      <3>2. step[Creator] \in Int
        BY <1>4
      <3> QED
        BY <1>6, <3>1, <3>2
    <2>3. CASE AddBranches(t)
      <3>1. FirstOf(Creator, n) < 0
        BY <2>1, <2>2, <2>3 DEF AddBranches, FirstId, FirstOf
      <3>2. branches' = 0 .. sf - 1 /\ 0 \in 0 .. sf - 1
        BY <1>4, <2>3 DEF AddBranches
      <3> QED
        BY <1>2, <3>1, <3>2
    <2>4. CASE CommitXct(t)
      <3>1. FirstOf(Creator, n) >= 0 /\ KeysOf(Creator, n) \subseteq Committed'
        BY <2>1, <2>2, <2>4, CommitIsWhole
      <3>2. FirstOf(Creator, n) \in Int
        <4>1. Creator \in Int /\ n \in Int
          BY DEF Creator
        <4> QED
          BY <4>1, NumberIs, IntWraps
      <3> QED
        BY <1>2, <3>1, <3>2
    <2> QED
      BY <2>1, <2>3, <2>4
  <1> QED
    BY <1>5, <1>6

\* No thread commits a chunk that clashes.
LEMMA NoCommit ==
  ASSUME TypeOK, SizeInv, RowsInv, PlacesInv, CreatedInv, Running,
         NEW t \in LoadThreads, LoadThread(t), CommitXct(t) \/ AddBranches(t),
         Clash(t, step[t])
  PROVE  FALSE
  <1>1. PICK n \in -1 .. loaders - 1 : ClashAt(t, step[t], n)
    BY DEF Clash
  <1>2. /\ step \in [LoadThreads -> Int] /\ Creator \in LoadThreads
        /\ loaders \in Nat \ {0}
    BY LoadersAreBuilders, Numbers DEF TypeOK
  <1>3. tpc[t] = "populate"
    BY DEF CommitXct, AddBranches
  <1>4. n \in -1 .. step[Creator] - 1
    <2>1. CASE t = Creator
      <3>1. n < step[Creator] /\ step[Creator] \in Int
        BY <1>1, <1>2, <2>1 DEF ClashAt
      <3> QED
        BY <3>1
    <2>2. CASE t # Creator
      <3>1. t \in Builders
        BY <2>2, ThreadsKinds
      <3>2. mpc # "creator"
        BY <1>3, <3>1 DEF PlacesInv, IdlePlace
      <3>3. step[Creator] = loaders
        BY <3>2 DEF PlacesInv, CreatorPlace
      <3> QED
        BY <3>3
    <2> QED
      BY <2>1, <2>2
  <1>5. IF FirstOf(Creator, n) < 0 THEN branches # {} ELSE KeysOf(Creator, n) \subseteq Committed
    BY <1>4 DEF CreatedInv, Kept
  <1>6. FirstId(t) = FirstOf(t, step[t]) /\ FirstId(t) \in Int
    BY IdsAreInts DEF FirstId, FirstOf
  <1>7. CASE FirstOf(Creator, n) < 0
    <2>1. FirstId(t) < 0 /\ branches # {}
      BY <1>1, <1>5, <1>6, <1>7 DEF ClashAt
    <2> QED
      BY <1>6, <2>1 DEF CommitXct, AddBranches
  <1>8. CASE ~(FirstOf(Creator, n) < 0)
    <2>1. /\ FirstId(t) >= 0 /\ KeysOf(Creator, n) \subseteq Committed
          /\ KeysOf(t, step[t]) \cap KeysOf(Creator, n) # {}
      BY <1>1, <1>5, <1>6, <1>8 DEF ClashAt
    <2>2. CommitXct(t)
      BY <1>6, <2>1 DEF AddBranches
    <2>3. KeysOf(t, step[t]) \cap Committed = {}
      BY <2>2, CommitIsWhole
    <2> QED
      BY <2>1, <2>3
  <1> QED
    BY <1>7, <1>8

\* So no thread gets past it.
LEMMA StuckStep ==
  ASSUME TypeOK, SizeInv, RowsInv, PlacesInv, CreatedInv, StuckInv,
         NEW t \in LoadThreads, LoadThread(t)
  PROVE  StuckInv'
  <1> SUFFICES ASSUME Running', NEW u \in LoadThreads, NEW s \in Nat, Clash(u, s)'
               PROVE  step'[u] <= s
    BY DEF StuckInv
  <1>1. /\ Running /\ mpc' = mpc /\ options' = options
        /\ tpc[t] \in {"begin", "populate"}
        /\ \/ step' = step
           \/ CommitAndGoOn(t) /\ (AddBranches(t) \/ CommitXct(t))
    BY Moves
  <1>2. Clash(u, s)
    BY <1>1, NumbersFrame
  <1>3. step[u] <= s /\ step \in [LoadThreads -> Int] /\ ChunkSize \in Nat \ {0}
    BY <1>1, <1>2, Numbers DEF StuckInv, TypeOK
  <1>4. CASE step'[u] = step[u]
    BY <1>3, <1>4
  <1>5. CASE step'[u] # step[u]
    <2>1. u = t /\ CommitAndGoOn(t) /\ (AddBranches(t) \/ CommitXct(t))
      BY <1>1, <1>3, <1>5 DEF CommitAndGoOn
    <2>2. step[t] # s
      BY <1>1, <1>2, <2>1, NoCommit
    <2>3. step[t] < s /\ step[t] \in Int
      BY <1>3, <2>1, <2>2
    <2>4. CASE t = Creator
      <3>1. step'[t] = step[t] + 1
        BY <1>3, <2>1, <2>4 DEF CommitAndGoOn
      <3> QED
        BY <2>1, <2>3, <3>1
    <2>5. CASE t # Creator
      <3>1. step'[t] = step[t] + ChunkSize
        BY <1>3, <2>1, <2>5 DEF CommitAndGoOn
      <3>2. s % ChunkSize = 0 /\ t \in Loaders
        BY <1>2, <2>1, <2>5 DEF Clash, Due
      <3>3. step[t] % ChunkSize = 0
        <4>1. t \in Builders
          BY <2>5, ThreadsKinds
        <4>2. AtWorkPlace(t)
          BY <1>1, <3>2, <4>1 DEF PlacesInv, IdlePlace
        <4> QED
          BY <4>2 DEF AtWorkPlace
      <3>4. step[t] + ChunkSize <= s
        BY <1>3, <2>3, <3>2, <3>3, MultiplesApart
      <3> QED
        BY <2>1, <3>1, <3>4
    <2> QED
      BY <2>4, <2>5
  <1> QED
    BY <1>4, <1>5

LEMMA WrongStarts == Init => WrongInv
  <1> SUFFICES ASSUME Init PROVE WrongInv
    OBVIOUS
  <1>1. RowsInv
    BY DEF Init, RowsInv, Added
  <1> QED
    BY <1>1 DEF Init, WrongInv, PlacesInv, CreatedInv, StuckInv, Running

\* create_tables() leaves all threads at the beginning.
LEMMA WrongCreate ==
  ASSUME Inv, WrongInv, CreateTables
  PROVE  WrongInv'
  <1>1. /\ mpc = "tables" /\ mpc' = "creator"
        /\ tpc' = [tpc EXCEPT ![Creator] = "begin"]
        /\ step' = [step EXCEPT ![Creator] = -1]
        /\ own' = own /\ accounts' = accounts /\ loaders' = LoadersToUse
    BY DEF CreateTables, tables
  <1>2. /\ TypeOK /\ SizeInv /\ tpc = [t \in LoadThreads |-> "unborn"]
        /\ step = [t \in LoadThreads |-> 0] /\ own = [t \in LoadThreads |-> {}]
    BY <1>1 DEF Inv, FreshInv
  <1>3. /\ Builders \subseteq LoadThreads /\ Creator \in LoadThreads /\ Creator \notin Builders
    BY <1>2, LoadersAreBuilders, ThreadsKinds
  <1>4. /\ step'[Creator] = -1 /\ tpc'[Creator] = "begin"
        /\ \A t \in LoadThreads : t # Creator => step'[t] = 0 /\ tpc'[t] = "unborn"
    BY <1>1, <1>2, <1>3
  <1>5. loaders' \in Nat \ {0}
    BY <1>1, <1>2, LoadersFit
  <1>6. RowsInv'
    <2>1. \A t \in LoadThreads : tpc'[t] # "populate" /\ own'[t] = {}
      BY <1>1, <1>2, <1>4
    <2> QED
      BY <2>1 DEF RowsInv, Added
  <1>7. PlacesInv'
    <2>1. CreatorPlace'
      BY <1>1, <1>4, <1>5 DEF CreatorPlace
    <2>2. \A t \in Builders : IdlePlace(t)'
      BY <1>3, <1>4 DEF IdlePlace
    <2> QED
      BY <1>1, <2>1, <2>2 DEF PlacesInv
  <1>8. CreatedInv'
    <2>1. \A n : ~(n \in -1 .. step'[Creator] - 1)
      BY <1>4
    <2> QED
      BY <2>1 DEF CreatedInv
  <1>9. StuckInv'
    <2>1. \A t \in LoadThreads : step'[t] \in {-1, 0}
      BY <1>4
    <2>2. \A t \in LoadThreads, s \in Nat : step'[t] <= s
      BY <2>1
    <2> QED
      BY <2>2 DEF StuckInv
  <1> QED
    BY <1>6, <1>7, <1>8, <1>9 DEF WrongInv

\* So do the steps of the main thread that only start or join threads.
LEMMA WrongMain ==
  ASSUME Inv, WrongInv, ForkLoaders \/ JoinLoaders
  PROVE  WrongInv'
  <1>1. /\ options' = options /\ step' = step /\ next' = next /\ own' = own
        /\ accounts' = accounts /\ branches' = branches
        /\ tpc[Creator] = "done" \/ JoinLoaders
        /\ Running /\ Running'
    BY DEF ForkLoaders, JoinLoaders, options, tables, Running
  <1>2. /\ TypeOK /\ SizeInv /\ RowsInv /\ PlacesInv /\ CreatedInv /\ StuckInv
    BY DEF Inv, WrongInv
  <1>3. /\ Loaders \subseteq Builders /\ Builders \subseteq LoadThreads
        /\ Creator \notin Loaders /\ Creator \in LoadThreads /\ Creator \notin Builders
    BY <1>2, LoadersAreBuilders, ThreadsKinds
  <1>4. /\ Loaders' = Loaders /\ Count' = Count /\ loaders' = loaders
    BY <1>1, SizesFrame
  <1>5. /\ tpc \in [LoadThreads -> {"unborn", "begin", "populate", "done"}]
        /\ ChunkSize \in Nat \ {0} /\ AcctsPerWorker \in Nat
    BY <1>2, Numbers DEF TypeOK
  <1>6. CreatedInv'
    <2>1. Committed' = Committed
      BY <1>1 DEF Committed
    <2> QED
      BY <1>1, <1>2, <2>1, NumbersFrame DEF CreatedInv, Kept
  <1>7. StuckInv'
    BY <1>1, <1>2, NumbersFrame DEF StuckInv
  <1>8. CASE JoinLoaders
    <2>1. /\ mpc = "load" /\ mpc' = "loaded" /\ tpc' = tpc
          /\ \A t \in Loaders : tpc[t] = "done"
      BY <1>8 DEF JoinLoaders
    <2>2. RowsInv'
      BY <1>1, <1>2, <2>1, AddedFrame DEF RowsInv
    <2>3. PlacesInv'
      BY <1>1, <1>2, <1>4, <2>1
         DEF PlacesInv, CreatorPlace, IdlePlace, AtWorkPlace
    <2> QED
      BY <1>6, <1>7, <2>2, <2>3 DEF WrongInv
  <1>9. CASE ForkLoaders
    <2>1. /\ mpc = "creator" /\ mpc' = "load" /\ tpc[Creator] = "done"
          /\ tpc' = [t \in LoadThreads |->
               IF t \in Loaders THEN IF 0 < Count THEN "begin" ELSE "done" ELSE tpc[t]]
      BY <1>9 DEF ForkLoaders
    <2>2. \A t \in Builders : IdlePlace(t)
      BY <1>1, <1>2, <2>1 DEF PlacesInv
    <2>3. RowsInv'
      <3>1. \A t \in LoadThreads : tpc[t] # "populate" /\ tpc'[t] # "populate"
        BY <1>3, <2>1, <2>2, ThreadsKinds DEF IdlePlace
      <3>2. \A t \in LoadThreads : Added(t)' = {} /\ Added(t) = {}
        BY <3>1 DEF Added
      <3> QED
        BY <1>1, <1>2, <3>2 DEF RowsInv
    <2>4. PlacesInv'
      <3>1. CreatorPlace'
        BY <1>1, <1>2, <1>3, <1>4, <2>1 DEF PlacesInv, CreatorPlace
      <3>2. ASSUME NEW t \in Builders, t \notin Loaders PROVE IdlePlace(t)'
        BY <1>1, <1>3, <2>1, <2>2, <3>2 DEF IdlePlace
      <3>3. ASSUME NEW t \in Loaders PROVE AtWorkPlace(t)'
        <4>1. step[t] = 0 /\ 0 % ChunkSize = 0 /\ 0 \in Nat
          BY <1>3, <1>5, <2>2 DEF IdlePlace
        <4>2. tpc'[t] = IF 0 < Count THEN "begin" ELSE "done"
          BY <1>3, <2>1
        <4>3. Count \in Int
          BY <1>5 DEF Count
        <4> QED
          BY <1>1, <1>4, <4>1, <4>2, <4>3 DEF AtWorkPlace
      <3> QED
        BY <1>4, <2>1, <3>1, <3>2, <3>3 DEF PlacesInv
    <2> QED
      BY <1>6, <1>7, <2>3, <2>4 DEF WrongInv
  <1> QED
    BY <1>8, <1>9

LEMMA WrongStep ==
  ASSUME Inv, WrongInv, [Next]_vars
  PROVE  WrongInv'
  <1>1. CASE CreateTables
    BY <1>1, WrongCreate
  <1>2. CASE ForkLoaders \/ JoinLoaders
    BY <1>2, WrongMain
  <1>3. CASE \E t \in LoadThreads : LoadThread(t)
    BY <1>3, RowsStep, PlacesStep, CreatedStep, StuckStep DEF Inv, WrongInv
  <1>4. CASE UNCHANGED vars
    <2>1. /\ options' = options /\ mpc' = mpc /\ tpc' = tpc /\ step' = step /\ next' = next
          /\ own' = own /\ accounts' = accounts /\ branches' = branches
      BY <1>4 DEF vars, tables
    <2>2. Committed' = Committed /\ (Running' <=> Running)
      BY <2>1 DEF Committed, Running
    <2>3. RowsInv'
      BY <2>1, AddedFrame DEF WrongInv, RowsInv
    <2>4. PlacesInv'
      BY <2>1, <2>2, SizesFrame
         DEF WrongInv, PlacesInv, CreatorPlace, IdlePlace, AtWorkPlace
    <2>5. CreatedInv'
      BY <2>1, <2>2, NumbersFrame DEF WrongInv, CreatedInv, Kept
    <2>6. StuckInv'
      BY <2>1, <2>2, NumbersFrame DEF WrongInv, StuckInv
    <2> QED
      BY <2>3, <2>4, <2>5, <2>6 DEF WrongInv
  <1> QED
    BY <1>1, <1>2, <1>3, <1>4 DEF Next

\* A load whose sizes do not fit never ends as if they did.
LEMMA WrongIsNoticed ==
  ASSUME Inv, WrongInv, mpc = "loaded"
  PROVE  WellSized
  <1> SUFFICES ASSUME ~WellSized PROVE FALSE
    OBVIOUS
  <1>1. /\ TypeOK /\ SizeInv /\ PlacesInv /\ StuckInv /\ Running
    BY DEF Inv, WrongInv, Running
  <1>2. PICK t \in LoadThreads, s \in Nat : Clash(t, s)
    BY <1>1, SizesClash
  <1>3. step[t] <= s /\ Due(t, s)
    BY <1>1, <1>2 DEF StuckInv, Clash
  <1>4. step[t] \in Int /\ loaders \in Nat /\ AcctsPerWorker \in Nat /\ ChunkSize \in Nat
    BY <1>1, Numbers DEF TypeOK
  <1>5. CASE t = Creator
    <2>1. step[t] = loaders /\ s < loaders
      BY <1>1, <1>3, <1>5 DEF PlacesInv, CreatorPlace, Due
    <2> QED
      BY <1>3, <1>4, <2>1
  <1>6. CASE t # Creator
    <2>1. t \in Builders /\ t \in Loaders /\ s < Count
      BY <1>3, <1>6, ThreadsKinds DEF Due
    <2>2. AtWorkPlace(t) /\ tpc[t] = "done"
      BY <1>1, <2>1 DEF PlacesInv
    <2>3. step[t] >= Count /\ Count \in Int
      BY <1>4, <2>2 DEF AtWorkPlace, Count
    <2> QED
      BY <1>3, <1>4, <2>1, <2>3
  <1> QED
    BY <1>5, <1>6

\* A load that ends has loaded every account, once, no other, and each branch with its
\* tellers, whatever the scaling factor, the number of loaders and the sizes: a load whose
\* sizes do not fit does not end.
THEOREM EveryLoadIsComplete == Spec => []LoadedIsComplete
  <1>1. Inv /\ WrongInv /\ (WellSized => LoadedIsComplete) => LoadedIsComplete
    BY WrongIsNoticed DEF LoadedIsComplete
  <1>2. Inv /\ WrongInv /\ [Next]_vars => WrongInv'
    BY WrongStep
  <1> QED
    BY <1>1, <1>2, WrongStarts, Invariance, SizedLoadIsComplete, PTL DEF Spec
=============================================================================
