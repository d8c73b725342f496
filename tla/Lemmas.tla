------------------------------- MODULE Lemmas -------------------------------
(***************************************************************************)
(* Lemmas about the operators of the community modules that several models *)
(* use: induction over numbers and over finite sets, MapThenSumSet and     *)
(* FlattenSeq.                                                             *)
(***************************************************************************)
EXTENDS Integers, FiniteSetsExt, SequencesExt, FiniteSetTheorems, WellFoundedInduction, TLAPS

-----------------------------------------------------------------------------
(***************************************************************************)
(* Induction over naturals and over finite sets, for a set of numbers and  *)
(* a set of sets.                                                          *)
(***************************************************************************)

\* A set of naturals that is not empty has a least member.
LEMMA NatMin ==
  ASSUME NEW T \in SUBSET Nat, T # {}
  PROVE  \E x \in T : \A y \in T : x <= y
  <1>1. PICK x \in T : \A y \in T : ~(<<y, x>> \in OpToRel(<, Nat))
    BY NatLessThanWellFounded, WFMin
  <1>2. \A y \in T : ~(y < x)
    BY <1>1 DEF OpToRel
  <1> QED
    BY <1>2

LEMMA NatInduct ==
  ASSUME NEW N \in SUBSET Nat, 0 \in N, \A n \in N : n + 1 \in N
  PROVE  N = Nat
  <1> DEFINE T == Nat \ N
  <1>1. SUFFICES ASSUME T # {} PROVE FALSE
    OBVIOUS
  <1>2. PICK m \in T : \A y \in T : m <= y
    BY <1>1, NatMin
  <1>3. m # 0 /\ m - 1 \in Nat /\ m - 1 < m
    BY <1>2
  <1>4. m - 1 \in N
    BY <1>2, <1>3
  <1>5. (m - 1) + 1 \in N
    BY <1>4
  <1> QED
    BY <1>2, <1>3, <1>5

\* The member of a set that MapThenSumSet takes first.
Pick(s) == CHOOSE x \in s : TRUE

LEMMA PickIn ==
  ASSUME NEW s, s # {}
  PROVE  Pick(s) \in s
  BY DEF Pick

LEMMA SetInduct ==
  ASSUME NEW S, IsFiniteSet(S), NEW P, {} \in P,
         \A s \in SUBSET S : s # {} /\ s \ {Pick(s)} \in P => s \in P
  PROVE  SUBSET S \subseteq P
  <1> DEFINE N == {n \in Nat : \A s \in SUBSET S : Cardinality(s) <= n => s \in P}
  <1>1. \A s \in SUBSET S : IsFiniteSet(s) /\ Cardinality(s) \in Nat
    BY FS_Subset, FS_CardinalityType
  <1>2. 0 \in N
    <2>1. ASSUME NEW s \in SUBSET S, Cardinality(s) <= 0 PROVE s = {}
      BY <1>1, <2>1, FS_EmptySet
    <2> QED
      BY <2>1
  <1>3. ASSUME NEW n \in N PROVE n + 1 \in N
    <2> SUFFICES ASSUME NEW s \in SUBSET S, Cardinality(s) <= n + 1, s # {}
                 PROVE  s \in P
      OBVIOUS
    <2>1. Pick(s) \in s /\ IsFiniteSet(s) /\ Cardinality(s) \in Nat
      BY <1>1, PickIn
    <2>2. Cardinality(s \ {Pick(s)}) = Cardinality(s) - 1
      BY <2>1, FS_RemoveElement
    <2>3. s \ {Pick(s)} \in P
      BY <1>3, <2>1, <2>2
    <2> QED
      BY <2>3
  <1>4. N = Nat
    <2> HIDE DEF N
    <2>1. N \in SUBSET Nat
      BY DEF N
    <2> QED
      BY <1>2, <1>3, <2>1, NatInduct
  <1> QED
    BY <1>1, <1>4

-----------------------------------------------------------------------------
(***************************************************************************)
(* The sum of a function over a finite set, as MapThenSumSet computes it.  *)
(***************************************************************************)
SumBody(f, g, s) == IF s = {} THEN 0 ELSE f[Pick(s)] + g[s \ {Pick(s)}]
SumRec(f, S, g) == g = [s \in SUBSET S |-> SumBody(f, g, s)]
SumOf(f, S) == (CHOOSE g : SumRec(f, S, g))[S]

\* What such a function says, step by step.
IsSum(f, S, g) ==
  /\ SumRec(f, S, g) /\ SumOf(f, S) = g[S]
  /\ g[{}] = 0
  /\ \A s \in SUBSET S : s # {} => /\ Pick(s) \in S /\ Pick(s) \in s
                                   /\ s \ {Pick(s)} \in SUBSET S
                                   /\ g[s] = f[Pick(s)] + g[s \ {Pick(s)}]

\* The recursive function is there.
LEMMA SumExists ==
  ASSUME NEW f, NEW S, IsFiniteSet(S)
  PROVE  \E g : SumRec(f, S, g)
  <1> DEFINE Small(n) == {s \in SUBSET S : Cardinality(s) <= n}
             N == {n \in Nat : \E g : g = [s \in Small(n) |-> SumBody(f, g, s)]}
  <1>1. \A s \in SUBSET S : IsFiniteSet(s) /\ Cardinality(s) \in Nat
    BY FS_Subset, FS_CardinalityType
  <1>2. 0 \in N
    <2> DEFINE g == [s \in Small(0) |-> 0]
    <2>1. \A s \in Small(0) : s = {}
      BY <1>1, FS_EmptySet
    <2>2. \A s \in Small(0) : SumBody(f, g, s) = 0
      BY <2>1 DEF SumBody
    <2>3. g = [s \in Small(0) |-> SumBody(f, g, s)]
      BY <2>2
    <2> QED
      BY <2>3
  <1>3. ASSUME NEW n \in N PROVE n + 1 \in N
    <2>1. PICK g : g = [s \in Small(n) |-> SumBody(f, g, s)]
      OBVIOUS
    <2> DEFINE h == [s \in Small(n + 1) |-> SumBody(f, g, s)]
    <2>2. \A s \in Small(n) : s \in Small(n + 1)
      BY <1>1
    <2>3. \A s \in Small(n) : h[s] = g[s]
      BY <2>1, <2>2
    <2>4. ASSUME NEW s \in Small(n + 1), s # {}
          PROVE  s \ {Pick(s)} \in Small(n)
      <3>1. Pick(s) \in s /\ IsFiniteSet(s) /\ Cardinality(s) \in Nat
        BY <1>1, <2>4, PickIn
      <3>2. Cardinality(s \ {Pick(s)}) = Cardinality(s) - 1
        BY <3>1, FS_RemoveElement
      <3> QED
        BY <3>1, <3>2
    <2> HIDE DEF Small, h
    <2>5. \A s \in Small(n + 1) : SumBody(f, h, s) = SumBody(f, g, s)
      BY <2>3, <2>4 DEF SumBody
    <2>6. h = [s \in Small(n + 1) |-> SumBody(f, h, s)]
      BY <2>5 DEF h
    <2>7. n + 1 \in Nat
      BY <1>3
    <2> QED
      BY <2>6, <2>7
  <1>4. N = Nat
    <2> HIDE DEF N
    <2>1. N \in SUBSET Nat
      BY DEF N
    <2> QED
      BY <1>2, <1>3, <2>1, NatInduct
  <1>5. Cardinality(S) \in Nat /\ Small(Cardinality(S)) = SUBSET S
    BY <1>1, FS_Subset
  <1>6. Cardinality(S) \in N
    BY <1>4, <1>5
  <1> QED
    BY <1>5, <1>6 DEF SumRec

\* There is only one.
LEMMA SumUnique ==
  ASSUME NEW f, NEW S, IsFiniteSet(S), NEW g, SumRec(f, S, g), NEW h, SumRec(f, S, h)
  PROVE  g[S] = h[S]
  <1> DEFINE P == {s \in SUBSET S : g[s] = h[s]}
  <1>1. \A s \in SUBSET S : g[s] = SumBody(f, g, s) /\ h[s] = SumBody(f, h, s)
    BY DEF SumRec
  <1>2. {} \in P
    BY <1>1 DEF SumBody
  <1>3. \A s \in SUBSET S : s # {} /\ s \ {Pick(s)} \in P => s \in P
    BY <1>1 DEF SumBody
  <1>4. SUBSET S \subseteq P
    <2> HIDE DEF P
    <2> QED
      BY <1>2, <1>3, SetInduct
  <1> QED
    BY <1>4

\* What the sum is of.
LEMMA SumIs ==
  ASSUME NEW f, NEW S, IsFiniteSet(S)
  PROVE  \E g : IsSum(f, S, g)
  <1> DEFINE g == CHOOSE g : SumRec(f, S, g)
  <1>1. SumRec(f, S, g)
    BY SumExists
  <1>2. SumOf(f, S) = g[S]
    BY DEF SumOf
  <1> HIDE DEF g
  <1>3. \A s \in SUBSET S : g[s] = SumBody(f, g, s)
    BY <1>1 DEF SumRec
  <1>4. g[{}] = 0
    BY <1>3 DEF SumBody
  <1>5. \A s \in SUBSET S : s # {} => /\ Pick(s) \in S /\ Pick(s) \in s
                                      /\ s \ {Pick(s)} \in SUBSET S
                                      /\ g[s] = f[Pick(s)] + g[s \ {Pick(s)}]
    BY <1>3, PickIn DEF SumBody
  <1> QED
    BY <1>1, <1>2, <1>4, <1>5 DEF IsSum

LEMMA SumType ==
  ASSUME NEW S, IsFiniteSet(S), NEW f, \A y \in S : f[y] \in Int
  PROVE  SumOf(f, S) \in Int
  <1>1. PICK g : IsSum(f, S, g)
    BY SumIs
  <1> DEFINE P == {s \in SUBSET S : g[s] \in Int}
  <1>2. {} \in P
    BY <1>1 DEF IsSum
  <1>3. \A s \in SUBSET S : s # {} /\ s \ {Pick(s)} \in P => s \in P
    BY <1>1 DEF IsSum
  <1>4. SUBSET S \subseteq P
    <2> HIDE DEF P
    <2> QED
      BY <1>2, <1>3, SetInduct
  <1> QED
    BY <1>1, <1>4 DEF IsSum

\* Which of the members is taken first makes no difference.
LEMMA SumRemoves ==
  ASSUME NEW S, IsFiniteSet(S), NEW f, \A y \in S : f[y] \in Int, NEW x \in S
  PROVE  SumOf(f, S) = f[x] + SumOf(f, S \ {x})
  <1>1. PICK g : IsSum(f, S, g)
    BY SumIs
  <1>2. \A s \in SUBSET S : g[s] \in Int
    <2> DEFINE P == {s \in SUBSET S : g[s] \in Int}
    <2>1. {} \in P
      BY <1>1 DEF IsSum
    <2>2. \A s \in SUBSET S : s # {} /\ s \ {Pick(s)} \in P => s \in P
      <3> TAKE s \in SUBSET S
      <3>1. s # {} => /\ Pick(s) \in S /\ s \ {Pick(s)} \in SUBSET S
                      /\ g[s] = f[Pick(s)] + g[s \ {Pick(s)}]
        BY <1>1 DEF IsSum
      <3> QED
        BY <3>1
    <2>3. SUBSET S \subseteq P
      <3> HIDE DEF P
      <3> QED
        BY <2>1, <2>2, SetInduct
    <2> QED
      BY <2>3
  <1> DEFINE N == {n \in Nat : \A s \in SUBSET S : Cardinality(s) <= n =>
                                 \A y \in s : g[s] = f[y] + g[s \ {y}]}
  <1>3. \A s \in SUBSET S : IsFiniteSet(s) /\ Cardinality(s) \in Nat
    BY FS_Subset, FS_CardinalityType
  <1>4. 0 \in N
    <2>1. ASSUME NEW s \in SUBSET S, Cardinality(s) <= 0 PROVE s = {}
      BY <1>3, <2>1, FS_EmptySet
    <2> QED
      BY <2>1
  <1>5. ASSUME NEW n \in N PROVE n + 1 \in N
    <2> SUFFICES ASSUME NEW s \in SUBSET S, Cardinality(s) <= n + 1, NEW y \in s
                 PROVE  g[s] = f[y] + g[s \ {y}]
      OBVIOUS
    <2>1. PICK p : p = Pick(s)
      OBVIOUS
    <2>2. p \in s /\ g[s] = f[p] + g[s \ {p}]
      BY <1>1, <2>1 DEF IsSum
    <2>3. CASE p = y
      BY <2>2, <2>3
    <2>4. CASE p # y
      <3>1. \A z \in s : Cardinality(s \ {z}) <= n
        <4> TAKE z \in s
        <4>1. Cardinality(s \ {z}) = Cardinality(s) - 1
          BY <1>3, FS_RemoveElement
        <4>2. n \in Nat /\ Cardinality(s) \in Nat
          BY <1>3
        <4> QED
          BY <4>1, <4>2
      <3>2. g[s \ {p}] = f[y] + g[(s \ {p}) \ {y}]
        BY <2>2, <2>4, <3>1
      <3>3. g[s \ {y}] = f[p] + g[(s \ {y}) \ {p}]
        BY <2>2, <2>4, <3>1
      <3>4. (s \ {p}) \ {y} = (s \ {y}) \ {p}
        OBVIOUS
      <3>5. f[p] \in Int /\ f[y] \in Int /\ g[(s \ {y}) \ {p}] \in Int
        BY <1>2, <2>2
      <3>6. PICK r \in Int : r = g[(s \ {y}) \ {p}]
        BY <3>5
      <3>7. g[s \ {p}] = f[y] + r /\ g[s \ {y}] = f[p] + r
        BY <3>2, <3>3, <3>4, <3>6
      <3> QED
        BY <2>2, <3>5, <3>7
    <2> QED
      BY <2>3, <2>4
  <1>6. N = Nat
    <2> HIDE DEF N
    <2>1. N \in SUBSET Nat
      BY DEF N
    <2> QED
      BY <1>4, <1>5, <2>1, NatInduct
  <1>7. g[S] = f[x] + g[S \ {x}]
    <2>1. Cardinality(S) \in N /\ Cardinality(S) <= Cardinality(S)
      BY <1>3, <1>6
    <2> QED
      BY <2>1
  <1>8. PICK h : IsSum(f, S \ {x}, h)
    BY <1>3, SumIs
  <1> DEFINE Q == {s \in SUBSET (S \ {x}) : g[s] = h[s]}
  <1>9. {} \in Q
    BY <1>1, <1>8 DEF IsSum
  <1>10. \A s \in SUBSET (S \ {x}) : s # {} /\ s \ {Pick(s)} \in Q => s \in Q
    BY <1>1, <1>8 DEF IsSum
  <1>11. SUBSET (S \ {x}) \subseteq Q
    <2> HIDE DEF Q
    <2> QED
      BY <1>3, <1>9, <1>10, SetInduct
  <1>12. SumOf(f, S \ {x}) = g[S \ {x}]
    BY <1>8, <1>11 DEF IsSum
  <1> QED
    BY <1>1, <1>7, <1>12 DEF IsSum

LEMMA SumOfNone == ASSUME NEW f PROVE SumOf(f, {}) = 0
  <1>1. PICK g : IsSum(f, {}, g)
    BY FS_EmptySet, SumIs
  <1> QED
    BY <1>1 DEF IsSum

\* Natural numbers have a sum of this kind.
LEMMA SumIsNat ==
  ASSUME NEW S, IsFiniteSet(S), NEW f, \A y \in S : f[y] \in Nat
  PROVE  SumOf(f, S) \in Nat
  <1>1. PICK g : IsSum(f, S, g)
    BY SumIs
  <1> DEFINE P == {s \in SUBSET S : g[s] \in Nat}
  <1>2. {} \in P
    BY <1>1 DEF IsSum
  <1>3. \A s \in SUBSET S : s # {} /\ s \ {Pick(s)} \in P => s \in P
    <2> TAKE s \in SUBSET S
    <2>1. s # {} => /\ Pick(s) \in S /\ s \ {Pick(s)} \in SUBSET S
                    /\ g[s] = f[Pick(s)] + g[s \ {Pick(s)}]
      BY <1>1 DEF IsSum
    <2> QED
      BY <2>1
  <1>4. SUBSET S \subseteq P
    <2> HIDE DEF P
    <2> QED
      BY <1>2, <1>3, SetInduct
  <1> QED
    BY <1>1, <1>4 DEF IsSum

\* The same summands have the same sum.
LEMMA SumSame ==
  ASSUME NEW S, IsFiniteSet(S), NEW f, NEW h, \A y \in S : f[y] = h[y]
  PROVE  SumOf(f, S) = SumOf(h, S)
  <1>1. PICK a : IsSum(f, S, a)
    BY SumIs
  <1>2. PICK b : IsSum(h, S, b)
    BY SumIs
  <1> DEFINE P == {s \in SUBSET S : a[s] = b[s]}
  <1>3. {} \in P
    BY <1>1, <1>2 DEF IsSum
  <1>4. \A s \in SUBSET S : s # {} /\ s \ {Pick(s)} \in P => s \in P
    <2> TAKE s \in SUBSET S
    <2>1. s # {} => /\ Pick(s) \in S /\ s \ {Pick(s)} \in SUBSET S
                    /\ a[s] = f[Pick(s)] + a[s \ {Pick(s)}]
                    /\ b[s] = h[Pick(s)] + b[s \ {Pick(s)}]
      BY <1>1, <1>2 DEF IsSum
    <2> QED
      BY <2>1
  <1>5. SUBSET S \subseteq P
    <2> HIDE DEF P
    <2> QED
      BY <1>3, <1>4, SetInduct
  <1> QED
    BY <1>1, <1>2, <1>5 DEF IsSum

-----------------------------------------------------------------------------
(***************************************************************************)
(* FlattenSeq: the prefixes of a sequence of sequences, one behind the     *)
(* other.                                                                  *)
(***************************************************************************)
\* A set of numbers with 1, and with n + 1 if with n, has them all.
LEMMA Induct ==
  ASSUME NEW N, 1 \in N, \A n \in N \cap (Nat \ {0}) : n + 1 \in N
  PROVE  Nat \ {0} \subseteq N
  <1> DEFINE T == (Nat \ {0}) \ N
  <1>1. SUFFICES ASSUME T # {} PROVE FALSE
    OBVIOUS
  <1>2. PICK m \in T : \A y \in T : m <= y
    BY <1>1, NatMin
  <1>3. m \in Nat /\ m # 0 /\ m \notin N /\ \A y \in Nat \ {0} : y < m => y \in N
    BY <1>2
  <1> HIDE DEF T
  <1>4. m # 1
    BY <1>3
  <1>5. m - 1 \in Nat \ {0} /\ m - 1 < m /\ (m - 1) + 1 = m
    BY ONLY <1>3, <1>4
  <1>6. m - 1 \in N
    BY <1>3, <1>5
  <1> QED
    BY <1>3, <1>5, <1>6

\* The prefixes of a sequence of sequences: what FlattenSeq() makes.
FlatBody(f, g, i) == IF i = 1 THEN f[i] ELSE g[i - 1] \o f[i]
FlatRec(f, n, g) == g = [i \in 1 .. n |-> FlatBody(f, g, i)]

LEMMA FlatExists ==
  ASSUME NEW f, NEW n \in Nat \ {0}
  PROVE  \E g : FlatRec(f, n, g)
  <1> DEFINE N == {m \in Nat \ {0} : \E g : FlatRec(f, m, g)}
  <1>1. 1 \in N
    <2> DEFINE g == [i \in 1 .. 1 |-> f[1]]
    <2>1. g = [i \in 1 .. 1 |-> FlatBody(f, g, i)]
      BY DEF FlatBody
    <2> QED
      BY <2>1 DEF FlatRec
  <1>2. ASSUME NEW m \in N PROVE m + 1 \in N
    <2>1. PICK g : g = [i \in 1 .. m |-> FlatBody(f, g, i)]
      BY DEF FlatRec
    <2> DEFINE h == [i \in 1 .. m + 1 |-> IF i <= m THEN g[i] ELSE g[m] \o f[i]]
    <2>2. ASSUME NEW i \in 1 .. m + 1 PROVE h[i] = FlatBody(f, h, i)
      <3>1. CASE i <= m /\ i = 1
        BY <2>1, <3>1 DEF FlatBody
      <3>2. CASE i <= m /\ i # 1
        <4>1. i \in 1 .. m /\ i - 1 \in 1 .. m /\ i - 1 \in 1 .. m + 1
          BY <3>2
        <4>2. h[i] = g[i] /\ h[i - 1] = g[i - 1]
          BY <4>1
        <4>3. g[i] = FlatBody(f, g, i)
          BY <2>1, <4>1
        <4> QED
          BY <3>2, <4>2, <4>3 DEF FlatBody
      <3>3. CASE ~(i <= m)
        <4>1. i = m + 1 /\ i - 1 = m /\ i # 1 /\ m \in 1 .. m + 1 /\ m <= m
          BY <3>3
        <4>2. h[m] = g[m] /\ h[i] = g[m] \o f[i]
          BY <3>3, <4>1
        <4> QED
          BY <4>1, <4>2 DEF FlatBody
      <3> QED
        BY <3>1, <3>2, <3>3
    <2>3. h = [i \in 1 .. m + 1 |-> h[i]]
      OBVIOUS
    <2> HIDE DEF h
    <2>4. FlatRec(f, m + 1, h)
      BY <2>2, <2>3 DEF FlatRec
    <2> QED
      BY <2>4
  <1> HIDE DEF N
  <1>3. Nat \ {0} \subseteq N
    BY <1>1, <1>2, Induct
  <1> QED
    BY <1>3 DEF N

LEMMA FlatIs ==
  ASSUME NEW f, NEW n \in Nat \ {0}, Len(f) = n
  PROVE  \E g : FlatRec(f, n, g) /\ FlattenSeq(f) = g[n]
  <1> DEFINE g == CHOOSE g : FlatRec(f, n, g)
  <1>1. FlattenSeq(f) = g[n]
    BY DEF FlattenSeq, FlatRec, FlatBody
  <1>2. FlatRec(f, n, g)
    BY FlatExists
  <1> QED
    BY <1>1, <1>2
=============================================================================
