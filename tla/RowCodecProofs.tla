--------------------------- MODULE RowCodecProofs ---------------------------
(***************************************************************************)
(* What put_field and load_value write and read back, for every schema     *)
(* with well formed columns: where _fast_get_offsets lays the fields out   *)
(* no two share a byte, tuple_to_disk puts each where disk_to_tuple and    *)
(* the index's entry look for it, and a string comes back as what strlen   *)
(* finds of it.  The folds of the model, over columns and over sets of     *)
(* bytes, are first shown to be the recursive functions they stand for.    *)
(***************************************************************************)
EXTENDS RowCodec, Lemmas, SequenceTheorems

-----------------------------------------------------------------------------
(***************************************************************************)
(* Sums over the members of a set that come before one of them.            *)
(***************************************************************************)
LEMMA BeforeNext ==
  ASSUME NEW n \in Nat, NEW S, \A x \in S : x \in 1 .. n, NEW m \in S
  PROVE  /\ m \in Before(m + 1, S) /\ m \notin Before(m, S)
         /\ Before(m + 1, S) = Before(m, S) \cup {m}
         /\ Before(m + 1, S) \ {m} = Before(m, S)
  <1>1. m \in Nat /\ m < m + 1 /\ ~(m < m)
    OBVIOUS
  <1>2. \A x \in S : x < m + 1 <=> x < m \/ x = m
    <2> TAKE x \in S
    <2>1. x \in Nat
      OBVIOUS
    <2> QED
      BY <1>1, <2>1
  <1> QED
    BY <1>1, <1>2 DEF Before

\* The sum of the members of S before a number, as that number goes up.
LEMMA SumBefore ==
  ASSUME NEW n \in Nat, NEW S, \A x \in S : x \in 1 .. n, NEW f, \A y \in S : f[y] \in Nat,
         NEW m \in 1 .. n
  PROVE  /\ SumOf(f, Before(m, S)) \in Nat
         /\ SumOf(f, Before(m + 1, S)) \in Nat
         /\ SumOf(f, Before(m + 1, S)) = SumOf(f, Before(m, S)) + (IF m \in S THEN f[m] ELSE 0)
         /\ SumOf(f, Before(1, S)) = 0
         /\ Before(n + 1, S) = S
  <1>1. IsFiniteSet(S)
    <2>1. S \subseteq 1 .. n /\ IsFiniteSet(1 .. n)
      BY FS_Interval
    <2> QED
      BY <2>1, FS_Subset
  <1>2. \A x : Before(x, S) \in SUBSET S /\ IsFiniteSet(Before(x, S))
    BY <1>1, FS_Subset DEF Before
  <1>3. \A x : SumOf(f, Before(x, S)) \in Nat
    BY <1>2, SumIsNat
  <1>4. CASE m \in S
    <2>1. m \in Before(m + 1, S) /\ Before(m + 1, S) \ {m} = Before(m, S)
      BY <1>4, BeforeNext
    <2>2. \A y \in Before(m + 1, S) : f[y] \in Int
      BY <1>2
    <2>3. SumOf(f, Before(m + 1, S)) = f[m] + SumOf(f, Before(m + 1, S) \ {m})
      BY <1>2, <2>1, <2>2, SumRemoves
    <2>4. f[m] \in Nat
      BY <1>4
    <2>5. SumOf(f, Before(m + 1, S)) = SumOf(f, Before(m, S)) + f[m]
      BY <1>3, <2>1, <2>3, <2>4
    <2>6. Before(1, S) = {} /\ Before(n + 1, S) = S
      BY DEF Before
    <2> QED
      BY <1>3, <1>4, <2>5, <2>6, SumOfNone
  <1>5. CASE m \notin S
    <2>1. Before(m + 1, S) = Before(m, S)
      BY <1>5 DEF Before
    <2>6. Before(1, S) = {} /\ Before(n + 1, S) = S
      BY DEF Before
    <2> QED
      BY <1>3, <1>5, <2>1, <2>6, SumOfNone
  <1> QED
    BY <1>4, <1>5

LEMMA BeforeAll ==
  ASSUME NEW n \in Nat, NEW S, \A x \in S : x \in 1 .. n
  PROVE  /\ Before(n + 1, S) = S /\ IsFiniteSet(S)
         /\ \A x : IsFiniteSet(Before(x, S)) /\ Before(x, S) \in SUBSET S
  <1>1. IsFiniteSet(S)
    <2>1. S \subseteq 1 .. n /\ IsFiniteSet(1 .. n)
      BY FS_Interval
    <2> QED
      BY <2>1, FS_Subset
  <1> QED
    BY <1>1, FS_Subset DEF Before

\* So a member and those before it are within what is before any later number.
LEMMA SumsAscend ==
  ASSUME NEW n \in Nat, NEW S, \A x \in S : x \in 1 .. n, NEW f, \A y \in S : f[y] \in Nat,
         NEW i \in S, NEW j \in 1 .. n + 1, i < j
  PROVE  /\ SumOf(f, Before(i, S)) \in Nat /\ SumOf(f, Before(j, S)) \in Nat
         /\ SumOf(f, Before(i, S)) + f[i] <= SumOf(f, Before(j, S))
  <1> DEFINE a(x) == SumOf(f, Before(x, S))
             N == {m \in Nat : m + i + 1 <= n + 1 => a(i) + f[i] <= a(m + i + 1)}
  <1>1. \A x : a(x) \in Nat
    BY BeforeAll, SumIsNat
  <1>2. i \in 1 .. n /\ i \in Nat /\ f[i] \in Nat
    OBVIOUS
  <1>3. \A m \in 1 .. n : a(m + 1) = a(m) + (IF m \in S THEN f[m] ELSE 0)
    BY SumBefore
  <1> HIDE DEF a
  <1>4. 0 \in N
    BY <1>1, <1>2, <1>3
  <1>5. ASSUME NEW m \in N PROVE m + 1 \in N
    <2> SUFFICES ASSUME (m + 1) + i + 1 <= n + 1 PROVE a(i) + f[i] <= a((m + 1) + i + 1)
      OBVIOUS
    <2>1. m + i + 1 \in 1 .. n /\ m + i + 1 <= n + 1 /\ (m + 1) + i + 1 = (m + i + 1) + 1
      BY <1>2
    <2>2. a(i) + f[i] <= a(m + i + 1)
      BY <2>1
    <2>3. PICK k \in 1 .. n : k = m + i + 1
      BY <2>1
    <2>4. a(k + 1) >= a(k)
      <3>1. a(k + 1) = a(k) + (IF k \in S THEN f[k] ELSE 0) /\ a(k) \in Nat
        BY <1>1, <1>3
      <3>2. CASE k \in S
        <4>1. f[k] \in Nat /\ a(k + 1) = a(k) + f[k]
          BY <3>1, <3>2
        <4> QED
          BY <3>1, <4>1
      <3>3. CASE k \notin S
        BY <3>1, <3>3
      <3> QED
        BY <3>2, <3>3
    <2>5. a(k) \in Nat /\ a(k + 1) \in Nat /\ a(i) \in Nat
      BY <1>1
    <2>6. a(i) + f[i] <= a(k)
      BY <2>2, <2>3
    <2>7. a(i) + f[i] <= a(k + 1)
      BY <1>2, <2>4, <2>5, <2>6
    <2> QED
      BY <2>1, <2>3, <2>7
  <1>6. N = Nat
    <2> HIDE DEF N
    <2>1. N \in SUBSET Nat
      BY DEF N
    <2> QED
      BY <1>4, <1>5, <2>1, NatInduct
  <1>7. PICK m \in Nat : j = m + i + 1
    <2>1. j - i - 1 \in Nat /\ j = (j - i - 1) + i + 1
      BY <1>2
    <2> QED
      BY <2>1
  <1>8. a(i) + f[i] <= a(m + i + 1)
    BY <1>6, <1>7
  <1> QED
    BY <1>1, <1>7, <1>8 DEF a

LEMMA CountsAscend ==
  ASSUME NEW n \in Nat, NEW S, \A x \in S : x \in 1 .. n, NEW i \in S, NEW j \in 1 .. n + 1, i < j
  PROVE  /\ Cardinality(Before(i, S)) \in Nat /\ Cardinality(Before(j, S)) \in Nat
         /\ Cardinality(Before(i, S)) + 1 <= Cardinality(Before(j, S))
  <1>1. IsFiniteSet(Before(i, S)) /\ IsFiniteSet(Before(j, S))
    BY BeforeAll
  <1>2. Before(i, S) \cup {i} \in SUBSET Before(j, S) /\ i \notin Before(i, S)
    BY DEF Before
  <1>3. Cardinality(Before(i, S) \cup {i}) = Cardinality(Before(i, S)) + 1
    BY <1>1, <1>2, FS_AddElement
  <1>4. Cardinality(Before(i, S) \cup {i}) <= Cardinality(Before(j, S))
    BY <1>1, <1>2, FS_Subset
  <1>5. Cardinality(Before(i, S)) \in Nat /\ Cardinality(Before(j, S)) \in Nat
    BY <1>1, FS_CardinalityType
  <1> QED
    BY <1>3, <1>4, <1>5

LEMMA CountBefore ==
  ASSUME NEW n \in Nat, NEW S, \A x \in S : x \in 1 .. n, NEW m \in 1 .. n
  PROVE  /\ Cardinality(Before(m, S)) \in Nat
         /\ Cardinality(Before(m + 1, S)) = Cardinality(Before(m, S)) + (IF m \in S THEN 1 ELSE 0)
         /\ Cardinality(Before(1, S)) = 0
  <1>1. IsFiniteSet(Before(m, S)) /\ Cardinality(Before(m, S)) \in Nat
    BY BeforeAll, FS_CardinalityType
  <1>2. Before(1, S) = {}
    BY DEF Before
  <1>3. CASE m \in S
    <2>1. Before(m + 1, S) = Before(m, S) \cup {m} /\ m \notin Before(m, S)
      BY <1>3, BeforeNext
    <2> QED
      BY <1>1, <1>2, <1>3, <2>1, FS_AddElement, FS_EmptySet
  <1>4. CASE m \notin S
    <2>1. Before(m + 1, S) = Before(m, S)
      BY <1>4 DEF Before
    <2> QED
      BY <1>1, <1>2, <1>4, <2>1, FS_EmptySet
  <1> QED
    BY <1>3, <1>4

\* A function whose domain starts at one is a sequence.
LEMMA LenIs ==
  ASSUME NEW n \in Nat, NEW s, s = [k \in 1 .. n |-> s[k]]
  PROVE  Len(s) = n /\ DOMAIN s = 1 .. n
  <1> DEFINE V == {s[k] : k \in 1 .. n}
  <1>1. s \in [1 .. n -> V]
    OBVIOUS
  <1>2. s \in Seq(V)
    BY <1>1, SeqDef
  <1>3. DOMAIN s = 1 .. n
    OBVIOUS
  <1>4. Len(s) \in Nat /\ DOMAIN s = 1 .. Len(s)
    BY <1>2, LenProperties
  <1> HIDE DEF V
  <1>5. Len(s) = n
    BY ONLY <1>3, <1>4, n \in Nat
  <1> QED
    BY <1>3, <1>5

LEMMA SubSeqIs ==
  ASSUME NEW s, NEW m \in Nat, NEW l \in Nat
  PROVE  SubSeq(s, m + 1, m + l) = [k \in 1 .. l |-> s[m + k]]
  <1> DEFINE V == {s[k] : k \in m + 1 .. m + l}
             t == SubSeq(s, m + 1, m + l)
  <1>1. \A i \in m + 1 .. m + l : s[i] \in V
    OBVIOUS
  <1> HIDE DEF V
  <1>2. PICK a \in Int, b \in Int : a = m + 1 /\ b = m + l
    OBVIOUS
  <1>3. /\ SubSeq(s, a, b) \in Seq(V)
        /\ Len(SubSeq(s, a, b)) = IF a <= b THEN b - a + 1 ELSE 0
        /\ \A i \in 1 .. b - a + 1 : SubSeq(s, a, b)[i] = s[a + i - 1]
    BY <1>1, <1>2, SubSeqProperties
  <1>4. b - a + 1 = l /\ (l # 0 <=> a <= b)
    BY <1>2
  <1>5. t \in Seq(V) /\ Len(t) = l /\ \A i \in 1 .. l : t[i] = s[m + i]
    BY <1>2, <1>3, <1>4
  <1> HIDE DEF t
  <1>6. DOMAIN t = 1 .. l /\ t \in [1 .. Len(t) -> V]
    BY <1>5, LenProperties
  <1> QED
    BY <1>5, <1>6 DEF t

\* The four sums of the layout: largest sizes, real sizes, and those of the variable
\* strings that take a length and of all that are not null.
LEMMA SumOfMaxSizes ==
  ASSUME NEW T, IsFiniteSet(T), NEW w, \A i \in T : w[i] = MaxSize(i)
  PROVE  MapThenSumSet(LAMBDA i : MaxSize(i), T) = SumOf(w, T)
  <1> DEFINE R(g) == g = [s \in SUBSET T |-> IF s = {} THEN 0
                                              ELSE MaxSize(Pick(s)) + g[s \ {Pick(s)}]]
  <1>1. MapThenSumSet(LAMBDA i : MaxSize(i), T) = (CHOOSE g : R(g))[T]
    BY DEF MapThenSumSet, MapThenFoldSet, Pick
  <1>2. ASSUME NEW g PROVE R(g) <=> SumRec(w, T, g)
    <2>1. \A s \in SUBSET T : s # {} => w[Pick(s)] = MaxSize(Pick(s))
      BY PickIn
    <2>2. \A s \in SUBSET T :
            SumBody(w, g, s) = IF s = {} THEN 0 ELSE MaxSize(Pick(s)) + g[s \ {Pick(s)}]
      BY <2>1 DEF SumBody
    <2> QED
      BY <2>2 DEF SumRec
  <1> HIDE DEF R
  <1>3. \E g : R(g)
    BY <1>2, SumExists
  <1>4. SumRec(w, T, CHOOSE g : R(g))
    BY <1>2, <1>3
  <1>5. PICK h : IsSum(w, T, h)
    BY SumIs
  <1>6. (CHOOSE g : R(g))[T] = h[T]
    BY <1>4, <1>5, SumUnique DEF IsSum
  <1> QED
    BY <1>1, <1>5, <1>6 DEF IsSum

LEMMA SumOfReals ==
  ASSUME NEW T, IsFiniteSet(T), NEW w, \A i \in T : w[i] = fields[i].real
  PROVE  MapThenSumSet(LAMBDA i : fields[i].real, T) = SumOf(w, T)
  <1> DEFINE R(g) == g = [s \in SUBSET T |-> IF s = {} THEN 0
                                              ELSE fields[Pick(s)].real + g[s \ {Pick(s)}]]
  <1>1. MapThenSumSet(LAMBDA i : fields[i].real, T) = (CHOOSE g : R(g))[T]
    BY DEF MapThenSumSet, MapThenFoldSet, Pick
  <1>2. ASSUME NEW g PROVE R(g) <=> SumRec(w, T, g)
    <2>1. \A s \in SUBSET T : s # {} => w[Pick(s)] = fields[Pick(s)].real
      BY PickIn
    <2>2. \A s \in SUBSET T :
            SumBody(w, g, s) = IF s = {} THEN 0 ELSE fields[Pick(s)].real + g[s \ {Pick(s)}]
      BY <2>1 DEF SumBody
    <2> QED
      BY <2>2 DEF SumRec
  <1> HIDE DEF R
  <1>3. \E g : R(g)
    BY <1>2, SumExists
  <1>4. SumRec(w, T, CHOOSE g : R(g))
    BY <1>2, <1>3
  <1>5. PICK h : IsSum(w, T, h)
    BY SumIs
  <1>6. (CHOOSE g : R(g))[T] = h[T]
    BY <1>4, <1>5, SumUnique DEF IsSum
  <1> QED
    BY <1>1, <1>5, <1>6 DEF IsSum

LEMMA SumOfCounted ==
  ASSUME NEW T, IsFiniteSet(T), NEW w, \A i \in T : w[i] = fields[i].real + 1
  PROVE  MapThenSumSet(LAMBDA i : fields[i].real + 1, T) = SumOf(w, T)
  <1> DEFINE R(g) == g = [s \in SUBSET T |-> IF s = {} THEN 0
                                              ELSE (fields[Pick(s)].real + 1) + g[s \ {Pick(s)}]]
  <1>1. MapThenSumSet(LAMBDA i : fields[i].real + 1, T) = (CHOOSE g : R(g))[T]
    BY DEF MapThenSumSet, MapThenFoldSet, Pick
  <1>2. ASSUME NEW g PROVE R(g) <=> SumRec(w, T, g)
    <2>1. \A s \in SUBSET T : s # {} => w[Pick(s)] = fields[Pick(s)].real + 1
      BY PickIn
    <2>2. \A s \in SUBSET T :
            SumBody(w, g, s) = IF s = {} THEN 0 ELSE (fields[Pick(s)].real + 1) + g[s \ {Pick(s)}]
      BY <2>1 DEF SumBody
    <2> QED
      BY <2>2 DEF SumRec
  <1> HIDE DEF R
  <1>3. \E g : R(g)
    BY <1>2, SumExists
  <1>4. SumRec(w, T, CHOOSE g : R(g))
    BY <1>2, <1>3
  <1>5. PICK h : IsSum(w, T, h)
    BY SumIs
  <1>6. (CHOOSE g : R(g))[T] = h[T]
    BY <1>4, <1>5, SumUnique DEF IsSum
  <1> QED
    BY <1>1, <1>5, <1>6 DEF IsSum

SizeTerm(i) == IF i \in Vars THEN fields[i].real + 1 ELSE MaxSize(i)

LEMMA SumOfSizes ==
  ASSUME NEW T, IsFiniteSet(T), NEW w, \A i \in T : w[i] = SizeTerm(i)
  PROVE  MapThenSumSet(LAMBDA i : IF i \in Vars THEN fields[i].real + 1 ELSE MaxSize(i), T) = SumOf(w, T)
  <1> DEFINE R(g) == g = [s \in SUBSET T |-> IF s = {} THEN 0
                                              ELSE SizeTerm(Pick(s)) + g[s \ {Pick(s)}]]
  <1>1. MapThenSumSet(LAMBDA i : IF i \in Vars THEN fields[i].real + 1 ELSE MaxSize(i), T)
          = (CHOOSE g : R(g))[T]
    BY DEF MapThenSumSet, MapThenFoldSet, Pick, SizeTerm
  <1>2. ASSUME NEW g PROVE R(g) <=> SumRec(w, T, g)
    <2>1. \A s \in SUBSET T : s # {} => w[Pick(s)] = SizeTerm(Pick(s))
      BY PickIn
    <2>2. \A s \in SUBSET T :
            SumBody(w, g, s) = IF s = {} THEN 0 ELSE SizeTerm(Pick(s)) + g[s \ {Pick(s)}]
      BY <2>1 DEF SumBody
    <2> QED
      BY <2>2 DEF SumRec
  <1> HIDE DEF R
  <1>3. \E g : R(g)
    BY <1>2, SumExists
  <1>4. SumRec(w, T, CHOOSE g : R(g))
    BY <1>2, <1>3
  <1>5. PICK h : IsSum(w, T, h)
    BY SumIs
  <1>6. (CHOOSE g : R(g))[T] = h[T]
    BY <1>4, <1>5, SumUnique DEF IsSum
  <1> QED
    BY <1>1, <1>5, <1>6 DEF IsSum

-----------------------------------------------------------------------------
(***************************************************************************)
(* The layout of a record of the schema c and the fields f.                *)
(***************************************************************************)
VarsOf(c) == {i \in DOMAIN c : c[i].type = "varchar"}
RestOf(c) == DOMAIN c \ VarsOf(c)
NullsOf(c) == {i \in DOMAIN c : c[i].nullable}
KeyOf(c) == {i \in DOMAIN c : c[i].key}
SizesOf(c) == [i \in DOMAIN c |-> DescSize(c[i])]
RealsOf(f) == [i \in DOMAIN f |-> f[i].real]
CountOf(c) == Cardinality(NullsOf(c))
FlagsOf(c) == IF NullsOf(c) = {} THEN 0 ELSE (CountOf(c) - 1) \div 8 + 1
RoomOf(c) == IF NullsOf(c) = {} THEN 0 ELSE CountOf(c) \div 8 + 1
FixedPos(c, i) == FlagsOf(c) + SumOf(SizesOf(c), Before(i, RestOf(c)))
SlotsPos(c) == FlagsOf(c) + SumOf(SizesOf(c), RestOf(c))
SlotPos(c, i) == SlotsPos(c) + Cardinality(Before(i, VarsOf(c)))
VarsPos(c) == SlotsPos(c) + Cardinality(VarsOf(c))
VarPos(c, f, i) == VarsPos(c) + SumOf(RealsOf(f), Before(i, VarsOf(c)))
AllOf(c, f) == VarsPos(c) + SumOf(RealsOf(f), VarsOf(c)) + (RoomOf(c) - FlagsOf(c))
KeyPos(c, i) == SumOf(SizesOf(c), Before(i, KeyOf(c)))
KeyTotal(c) == SumOf(SizesOf(c), KeyOf(c))

SchemaOK(c, n) ==
  /\ n \in Nat /\ DOMAIN c = 1 .. n
  /\ \A i \in 1 .. n :
       /\ c[i].type \in {"number", "fixchar", "varchar"}
       /\ DescSize(c[i]) \in Nat /\ DescSize(c[i]) > 0
       /\ c[i].type = "number" => DescSize(c[i]) = 1
       /\ c[i].nullable \in BOOLEAN /\ c[i].key \in BOOLEAN
       /\ ~(c[i].nullable /\ c[i].key)

\* A buffer, and a field: what is behind the real size of a value that is not a variable
\* string is zero or was left by an earlier one.
IsBuffer(b) == Len(b) \in Nat /\ b = [k \in 1 .. Len(b) |-> b[k]]
FieldOK(d, v) ==
  /\ v = [null |-> v.null, data |-> v.data, real |-> v.real]
  /\ v.null \in BOOLEAN /\ IsBuffer(v.data)
  /\ v.real \in Nat /\ v.real <= DescSize(d) /\ v.real <= Len(v.data)
  /\ d.type # "varchar" => Len(v.data) = DescSize(d)
  /\ d.type = "number" => v.real = 1
FieldsOK(c, n, f) ==
  /\ f = [i \in 1 .. n |-> f[i]]
  /\ \A i \in 1 .. n : FieldOK(c[i], f[i])

LEMMA SchemaIs ==
  ASSUME RowCodecAssumption, NEW c \in Schemas
  PROVE  SchemaOK(c, Len(c))
  BY DEF RowCodecAssumption, SchemaOK, DescSize

LEMMA SetsOf ==
  ASSUME NEW c, NEW n, SchemaOK(c, n)
  PROVE  /\ \A x \in VarsOf(c) : x \in 1 .. n
         /\ \A x \in RestOf(c) : x \in 1 .. n
         /\ \A x \in NullsOf(c) : x \in 1 .. n
         /\ \A x \in KeyOf(c) : x \in 1 .. n
         /\ \A x \in 1 .. n : x \in VarsOf(c) \/ x \in RestOf(c)
         /\ \A x \in 1 .. n : SizesOf(c)[x] = DescSize(c[x]) /\ SizesOf(c)[x] \in Nat
         /\ n \in Nat
         /\ n + 1 \in 1 .. n + 1
  BY DEF SchemaOK, VarsOf, RestOf, NullsOf, KeyOf, SizesOf

\* The bytes of the null flags, and the one that has the flag of a field.
LEMMA FlagsAre ==
  ASSUME NEW c, NEW n, SchemaOK(c, n)
  PROVE  /\ FlagsOf(c) \in Nat /\ RoomOf(c) \in Nat /\ FlagsOf(c) <= RoomOf(c)
         /\ \A i \in NullsOf(c) : ByteOf(Cardinality(Before(i, NullsOf(c)))) \in 1 .. FlagsOf(c)
  <1>1. PICK S : S = NullsOf(c)
    OBVIOUS
  <1>2. n \in Nat /\ \A x \in S : x \in 1 .. n
    BY <1>1, SetsOf
  <1>3. IsFiniteSet(S)
    BY <1>2, BeforeAll
  <1>4. PICK m \in Nat : m = Cardinality(S) /\ (S # {} => m >= 1)
    BY <1>3, FS_CardinalityType, FS_EmptySet
  <1>5. /\ FlagsOf(c) = IF S = {} THEN 0 ELSE (m - 1) \div 8 + 1
        /\ RoomOf(c) = IF S = {} THEN 0 ELSE m \div 8 + 1
    BY <1>1, <1>4 DEF FlagsOf, RoomOf, CountOf
  <1>6. m >= 1 => (m - 1) \div 8 \in Nat /\ m \div 8 \in Nat /\ (m - 1) \div 8 <= m \div 8
    BY <1>4
  <1>7. ASSUME NEW i \in S PROVE ByteOf(Cardinality(Before(i, S))) \in 1 .. FlagsOf(c)
    <2>1. n + 1 \in 1 .. n + 1 /\ i \in 1 .. n + 1 /\ i < n + 1 /\ Before(n + 1, S) = S
      BY <1>2, BeforeAll
    <2>2. PICK k \in Nat : k = Cardinality(Before(i, S)) /\ k + 1 <= m
      BY <1>2, <1>4, <2>1, CountsAscend
    <2>3. k \div 8 \in Nat /\ k \div 8 <= (m - 1) \div 8 /\ (m - 1) \div 8 \in Nat
      BY <1>4, <2>2
    <2>4. FlagsOf(c) = (m - 1) \div 8 + 1
      BY <1>5
    <2> QED
      BY <2>2, <2>3, <2>4 DEF ByteOf
  <1> QED
    BY <1>1, <1>5, <1>6, <1>7

LEMMA RealsAre ==
  ASSUME NEW c, NEW n, SchemaOK(c, n), NEW f, FieldsOK(c, n, f)
  PROVE  \A x \in 1 .. n : RealsOf(f)[x] = f[x].real /\ f[x].real \in Nat
  <1>1. DOMAIN f = 1 .. n
    BY DEF FieldsOK
  <1> QED
    BY <1>1 DEF RealsOf, FieldsOK, FieldOK

\* The parts follow one another, and so do the fields within each.
LEMMA FixedWithin ==
  ASSUME NEW c, NEW n, SchemaOK(c, n), NEW i \in RestOf(c)
  PROVE  /\ FixedPos(c, i) \in Nat /\ SlotsPos(c) \in Nat /\ DescSize(c[i]) \in Nat
         /\ FlagsOf(c) <= FixedPos(c, i)
         /\ FixedPos(c, i) + DescSize(c[i]) <= SlotsPos(c)
         /\ \A j \in RestOf(c) : i < j => FixedPos(c, i) + DescSize(c[i]) <= FixedPos(c, j)
  <1>1. PICK w : w = SizesOf(c)
    OBVIOUS
  <1>2. PICK S : S = RestOf(c)
    OBVIOUS
  <1>3. n \in Nat /\ (\A x \in S : x \in 1 .. n) /\ \A y \in S : w[y] \in Nat
    BY <1>1, <1>2, SetsOf
  <1>4. n + 1 \in 1 .. n + 1 /\ i < n + 1 /\ i \in S /\ Before(n + 1, S) = S
    BY <1>2, <1>3, BeforeAll
  <1>5. /\ SumOf(w, Before(i, S)) \in Nat /\ SumOf(w, Before(n + 1, S)) \in Nat
        /\ SumOf(w, Before(i, S)) + w[i] <= SumOf(w, Before(n + 1, S))
    BY <1>3, <1>4, SumsAscend
  <1>6. ASSUME NEW j \in S, i < j
        PROVE  /\ SumOf(w, Before(j, S)) \in Nat
               /\ SumOf(w, Before(i, S)) + w[i] <= SumOf(w, Before(j, S))
    <2>1. j \in 1 .. n + 1
      BY <1>3
    <2> QED
      BY <1>3, <1>4, <1>6, <2>1, SumsAscend
  <1>7. w[i] = DescSize(c[i]) /\ w[i] \in Nat /\ FlagsOf(c) \in Nat
    BY <1>1, <1>2, <1>3, SetsOf, FlagsAre
  <1>8. /\ FixedPos(c, i) = FlagsOf(c) + SumOf(w, Before(i, S))
        /\ SlotsPos(c) = FlagsOf(c) + SumOf(w, Before(n + 1, S))
        /\ \A j : FixedPos(c, j) = FlagsOf(c) + SumOf(w, Before(j, S))
    BY <1>1, <1>2, <1>4 DEF FixedPos, SlotsPos
  <1>9. ASSUME NEW j \in S, i < j PROVE FixedPos(c, i) + DescSize(c[i]) <= FixedPos(c, j)
    BY <1>5, <1>6, <1>7, <1>8, <1>9
  <1> QED
    BY <1>2, <1>5, <1>7, <1>8, <1>9

LEMMA PartsFollow ==
  ASSUME NEW c, NEW n, SchemaOK(c, n)
  PROVE  /\ FlagsOf(c) \in Nat /\ SlotsPos(c) \in Nat /\ VarsPos(c) \in Nat
         /\ FlagsOf(c) <= SlotsPos(c) /\ SlotsPos(c) <= VarsPos(c)
  <1>1. IsFiniteSet(VarsOf(c)) /\ IsFiniteSet(RestOf(c))
    BY SetsOf, BeforeAll
  <1>2. Cardinality(VarsOf(c)) \in Nat
    BY <1>1, FS_CardinalityType
  <1>3. SumOf(SizesOf(c), RestOf(c)) \in Nat
    BY <1>1, SetsOf, SumIsNat
  <1>4. FlagsOf(c) \in Nat
    BY FlagsAre
  <1> QED
    BY <1>2, <1>3, <1>4 DEF SlotsPos, VarsPos

LEMMA SlotWithin ==
  ASSUME NEW c, NEW n, SchemaOK(c, n), NEW i \in VarsOf(c)
  PROVE  /\ SlotPos(c, i) \in Nat
         /\ SlotsPos(c) <= SlotPos(c, i) /\ SlotPos(c, i) + 1 <= VarsPos(c)
         /\ \A j \in VarsOf(c) : i < j => SlotPos(c, i) + 1 <= SlotPos(c, j)
  <1>1. PICK S : S = VarsOf(c)
    OBVIOUS
  <1>2. n \in Nat /\ \A x \in S : x \in 1 .. n
    BY <1>1, SetsOf
  <1>3. n + 1 \in 1 .. n + 1 /\ i < n + 1 /\ i \in S /\ Before(n + 1, S) = S
    BY <1>1, <1>2, BeforeAll
  <1>4. /\ Cardinality(Before(i, S)) \in Nat /\ Cardinality(S) \in Nat
        /\ Cardinality(Before(i, S)) + 1 <= Cardinality(S)
    BY <1>2, <1>3, CountsAscend
  <1>5. SlotsPos(c) \in Nat
    BY PartsFollow
  <1>6. ASSUME NEW j \in S, i < j PROVE SlotPos(c, i) + 1 <= SlotPos(c, j)
    <2>1. j \in 1 .. n + 1
      BY <1>2
    <2>2. Cardinality(Before(j, S)) \in Nat
          /\ Cardinality(Before(i, S)) + 1 <= Cardinality(Before(j, S))
      BY <1>2, <1>3, <1>6, <2>1, CountsAscend
    <2> QED
      BY <1>1, <1>4, <1>5, <2>2 DEF SlotPos
  <1> QED
    BY <1>1, <1>4, <1>5, <1>6 DEF SlotPos, VarsPos

LEMMA VarWithin ==
  ASSUME NEW c, NEW n, SchemaOK(c, n), NEW f, FieldsOK(c, n, f), NEW i \in VarsOf(c)
  PROVE  /\ VarPos(c, f, i) \in Nat /\ AllOf(c, f) \in Nat /\ f[i].real \in Nat
         /\ VarsPos(c) <= VarPos(c, f, i)
         /\ VarPos(c, f, i) + f[i].real <= AllOf(c, f)
         /\ \A j \in VarsOf(c) : i < j => VarPos(c, f, i) + f[i].real <= VarPos(c, f, j)
  <1>1. PICK w : w = RealsOf(f)
    OBVIOUS
  <1>2. PICK S : S = VarsOf(c)
    OBVIOUS
  <1>3. n \in Nat /\ (\A x \in S : x \in 1 .. n)
    BY <1>2, SetsOf
  <1>0. \A y \in S : w[y] \in Nat /\ w[y] = f[y].real
    BY <1>1, <1>2, <1>3, RealsAre
  <1>4. n + 1 \in 1 .. n + 1 /\ i < n + 1 /\ i \in S /\ Before(n + 1, S) = S
    BY <1>2, <1>3, BeforeAll
  <1>5. /\ SumOf(w, Before(i, S)) \in Nat /\ SumOf(w, Before(n + 1, S)) \in Nat
        /\ SumOf(w, Before(i, S)) + w[i] <= SumOf(w, Before(n + 1, S))
    BY <1>0, <1>3, <1>4, SumsAscend
  <1>6. ASSUME NEW j \in S, i < j
        PROVE  /\ SumOf(w, Before(j, S)) \in Nat
               /\ SumOf(w, Before(i, S)) + w[i] <= SumOf(w, Before(j, S))
    <2>1. j \in 1 .. n + 1
      BY <1>3
    <2> QED
      BY <1>0, <1>3, <1>4, <1>6, <2>1, SumsAscend
  <1>7. w[i] = f[i].real /\ w[i] \in Nat /\ VarsPos(c) \in Nat
    BY <1>0, <1>2, PartsFollow
  <1>8. /\ AllOf(c, f) = VarsPos(c) + SumOf(w, Before(n + 1, S)) + (RoomOf(c) - FlagsOf(c))
        /\ RoomOf(c) \in Nat /\ FlagsOf(c) \in Nat /\ FlagsOf(c) <= RoomOf(c)
        /\ \A j : VarPos(c, f, j) = VarsPos(c) + SumOf(w, Before(j, S))
    BY <1>1, <1>2, <1>4, FlagsAre DEF VarPos, AllOf
  <1>9. ASSUME NEW j \in S, i < j PROVE VarPos(c, f, i) + f[i].real <= VarPos(c, f, j)
    BY <1>5, <1>6, <1>7, <1>8, <1>9
  <1> QED
    BY <1>2, <1>5, <1>7, <1>8, <1>9

LEMMA KeyWithin ==
  ASSUME NEW c, NEW n, SchemaOK(c, n), NEW i \in KeyOf(c)
  PROVE  /\ KeyPos(c, i) \in Nat /\ KeyTotal(c) \in Nat /\ DescSize(c[i]) \in Nat
         /\ KeyPos(c, i) + DescSize(c[i]) <= KeyTotal(c)
         /\ \A j \in KeyOf(c) : i < j => KeyPos(c, i) + DescSize(c[i]) <= KeyPos(c, j)
  <1>1. PICK w : w = SizesOf(c)
    OBVIOUS
  <1>2. PICK S : S = KeyOf(c)
    OBVIOUS
  <1>3. n \in Nat /\ (\A x \in S : x \in 1 .. n) /\ \A y \in S : w[y] \in Nat
    BY <1>1, <1>2, SetsOf
  <1>4. n + 1 \in 1 .. n + 1 /\ i < n + 1 /\ i \in S /\ Before(n + 1, S) = S
    BY <1>2, <1>3, BeforeAll
  <1>5. /\ SumOf(w, Before(i, S)) \in Nat /\ SumOf(w, Before(n + 1, S)) \in Nat
        /\ SumOf(w, Before(i, S)) + w[i] <= SumOf(w, Before(n + 1, S))
    BY <1>3, <1>4, SumsAscend
  <1>6. ASSUME NEW j \in S, i < j
        PROVE  SumOf(w, Before(i, S)) + w[i] <= SumOf(w, Before(j, S))
    <2>1. j \in 1 .. n + 1
      BY <1>3
    <2> QED
      BY <1>3, <1>4, <1>6, <2>1, SumsAscend
  <1>7. w[i] = DescSize(c[i]) /\ w[i] \in Nat
    BY <1>1, <1>2, <1>3, SetsOf
  <1> QED
    BY <1>1, <1>2, <1>4, <1>5, <1>6, <1>7 DEF KeyPos, KeyTotal

\* The cells of a field: no other one has them, nor the flags.
InFixed(c, i, p) == i \in RestOf(c) /\ p \in FixedPos(c, i) + 1 .. FixedPos(c, i) + DescSize(c[i])
InSlot(c, i, p) == i \in VarsOf(c) /\ p = SlotPos(c, i) + 1
InVar(c, f, i, p) == i \in VarsOf(c) /\ p \in VarPos(c, f, i) + 1 .. VarPos(c, f, i) + f[i].real
Mine(c, f, i, p) == InFixed(c, i, p) \/ InSlot(c, i, p) \/ InVar(c, f, i, p)

LEMMA FixedInside ==
  ASSUME NEW c, NEW n, SchemaOK(c, n), NEW i, NEW p, InFixed(c, i, p)
  PROVE  p \in FlagsOf(c) + 1 .. SlotsPos(c) /\ i \in RestOf(c)
  <1>1. i \in RestOf(c) /\ p \in FixedPos(c, i) + 1 .. FixedPos(c, i) + DescSize(c[i])
    BY DEF InFixed
  <1>2. FlagsOf(c) \in Nat
    BY PartsFollow
  <1> QED
    BY <1>1, <1>2, FixedWithin

LEMMA SlotInside ==
  ASSUME NEW c, NEW n, SchemaOK(c, n), NEW i, NEW p, InSlot(c, i, p)
  PROVE  p \in SlotsPos(c) + 1 .. VarsPos(c) /\ i \in VarsOf(c)
  <1>1. i \in VarsOf(c) /\ p = SlotPos(c, i) + 1
    BY DEF InSlot
  <1>2. SlotsPos(c) \in Nat /\ VarsPos(c) \in Nat
    BY PartsFollow
  <1> QED
    BY <1>1, <1>2, SlotWithin

LEMMA VarInside ==
  ASSUME NEW c, NEW n, SchemaOK(c, n), NEW f, FieldsOK(c, n, f), NEW i, NEW p, InVar(c, f, i, p)
  PROVE  p \in VarsPos(c) + 1 .. AllOf(c, f) /\ i \in VarsOf(c)
  <1>1. i \in VarsOf(c) /\ p \in VarPos(c, f, i) + 1 .. VarPos(c, f, i) + f[i].real
    BY DEF InVar
  <1>2. VarsPos(c) \in Nat
    BY PartsFollow
  <1> QED
    BY <1>1, <1>2, VarWithin

LEMMA AllFollows ==
  ASSUME NEW c, NEW n, SchemaOK(c, n), NEW f, FieldsOK(c, n, f)
  PROVE  AllOf(c, f) \in Nat /\ VarsPos(c) <= AllOf(c, f)
  <1>1. IsFiniteSet(VarsOf(c)) /\ \A y \in VarsOf(c) : RealsOf(f)[y] \in Nat
    BY SetsOf, BeforeAll, RealsAre
  <1>2. SumOf(RealsOf(f), VarsOf(c)) \in Nat
    BY <1>1, SumIsNat
  <1> QED
    BY <1>2, PartsFollow, FlagsAre DEF AllOf

LEMMA Inside ==
  ASSUME NEW c, NEW n, SchemaOK(c, n), NEW f, FieldsOK(c, n, f), NEW i, NEW p, Mine(c, f, i, p)
  PROVE  p \in FlagsOf(c) + 1 .. AllOf(c, f)
  <1>1. /\ FlagsOf(c) \in Nat /\ SlotsPos(c) \in Nat /\ VarsPos(c) \in Nat /\ AllOf(c, f) \in Nat
        /\ FlagsOf(c) <= SlotsPos(c) /\ SlotsPos(c) <= VarsPos(c) /\ VarsPos(c) <= AllOf(c, f)
    BY PartsFollow, AllFollows
  <1>2. CASE InFixed(c, i, p)
    BY <1>1, <1>2, FixedInside
  <1>3. CASE InSlot(c, i, p)
    BY <1>1, <1>3, SlotInside
  <1>4. CASE InVar(c, f, i, p)
    BY <1>1, <1>4, VarInside
  <1> QED
    BY <1>2, <1>3, <1>4 DEF Mine

\* Two fields in the order of their numbers.
LEMMA Ordered ==
  ASSUME NEW c, NEW n, SchemaOK(c, n), NEW f, FieldsOK(c, n, f),
         NEW i, NEW j, NEW p, Mine(c, f, i, p), Mine(c, f, j, p), i < j
  PROVE  FALSE
  <1>1. /\ FlagsOf(c) \in Nat /\ SlotsPos(c) \in Nat /\ VarsPos(c) \in Nat /\ AllOf(c, f) \in Nat
        /\ FlagsOf(c) <= SlotsPos(c) /\ SlotsPos(c) <= VarsPos(c) /\ VarsPos(c) <= AllOf(c, f)
    BY PartsFollow, AllFollows
  <1>2. CASE InFixed(c, i, p)
    <2>1. p \in FlagsOf(c) + 1 .. SlotsPos(c)
      BY <1>2, FixedInside
    <2>2. ~InSlot(c, j, p) /\ ~InVar(c, f, j, p)
      <3>1. InSlot(c, j, p) => p \in SlotsPos(c) + 1 .. VarsPos(c)
        BY SlotInside
      <3>2. InVar(c, f, j, p) => p \in VarsPos(c) + 1 .. AllOf(c, f)
        BY VarInside
      <3> QED
        BY <1>1, <2>1, <3>1, <3>2
    <2>3. InFixed(c, j, p)
      BY <2>2 DEF Mine
    <2>4. /\ i \in RestOf(c) /\ j \in RestOf(c)
          /\ p \in FixedPos(c, i) + 1 .. FixedPos(c, i) + DescSize(c[i])
          /\ p \in FixedPos(c, j) + 1 .. FixedPos(c, j) + DescSize(c[j])
      BY <1>2, <2>3 DEF InFixed
    <2>5. FixedPos(c, i) + DescSize(c[i]) <= FixedPos(c, j) /\ FixedPos(c, i) \in Nat /\ DescSize(c[i]) \in Nat
      BY <2>4, FixedWithin
    <2>6. FixedPos(c, j) \in Nat /\ DescSize(c[j]) \in Nat
      BY <2>4, FixedWithin
    <2> QED
      BY <2>4, <2>5, <2>6
  <1>3. CASE InSlot(c, i, p)
    <2>1. p \in SlotsPos(c) + 1 .. VarsPos(c)
      BY <1>3, SlotInside
    <2>2. ~InFixed(c, j, p) /\ ~InVar(c, f, j, p)
      <3>1. InFixed(c, j, p) => p \in FlagsOf(c) + 1 .. SlotsPos(c)
        BY FixedInside
      <3>2. InVar(c, f, j, p) => p \in VarsPos(c) + 1 .. AllOf(c, f)
        BY VarInside
      <3> QED
        BY <1>1, <2>1, <3>1, <3>2
    <2>3. InSlot(c, j, p)
      BY <2>2 DEF Mine
    <2>4. i \in VarsOf(c) /\ j \in VarsOf(c) /\ p = SlotPos(c, i) + 1 /\ p = SlotPos(c, j) + 1
      BY <1>3, <2>3 DEF InSlot
    <2>5. SlotPos(c, i) + 1 <= SlotPos(c, j) /\ SlotPos(c, i) \in Nat
      BY <2>4, SlotWithin
    <2>6. SlotPos(c, j) \in Nat
      BY <2>4, SlotWithin
    <2> QED
      BY <2>4, <2>5, <2>6
  <1>4. CASE InVar(c, f, i, p)
    <2>1. p \in VarsPos(c) + 1 .. AllOf(c, f)
      BY <1>4, VarInside
    <2>2. ~InFixed(c, j, p) /\ ~InSlot(c, j, p)
      <3>1. InFixed(c, j, p) => p \in FlagsOf(c) + 1 .. SlotsPos(c)
        BY FixedInside
      <3>2. InSlot(c, j, p) => p \in SlotsPos(c) + 1 .. VarsPos(c)
        BY SlotInside
      <3> QED
        BY <1>1, <2>1, <3>1, <3>2
    <2>3. InVar(c, f, j, p)
      BY <2>2 DEF Mine
    <2>4. /\ i \in VarsOf(c) /\ j \in VarsOf(c)
          /\ p \in VarPos(c, f, i) + 1 .. VarPos(c, f, i) + f[i].real
          /\ p \in VarPos(c, f, j) + 1 .. VarPos(c, f, j) + f[j].real
      BY <1>4, <2>3 DEF InVar
    <2>5. /\ VarPos(c, f, i) + f[i].real <= VarPos(c, f, j) /\ VarPos(c, f, i) \in Nat
          /\ f[i].real \in Nat
      BY <2>4, VarWithin
    <2>6. VarPos(c, f, j) \in Nat /\ f[j].real \in Nat
      BY <2>4, VarWithin
    <2> QED
      BY <2>4, <2>5, <2>6
  <1> QED
    BY <1>2, <1>3, <1>4 DEF Mine

LEMMA Apart ==
  ASSUME NEW c, NEW n, SchemaOK(c, n), NEW f, FieldsOK(c, n, f),
         NEW i \in 1 .. n, NEW j \in 1 .. n, NEW p, Mine(c, f, i, p), Mine(c, f, j, p)
  PROVE  i = j
  <1>1. i < j \/ j < i \/ i = j
    BY DEF SchemaOK
  <1> QED
    BY <1>1, Ordered

-----------------------------------------------------------------------------
(***************************************************************************)
(* format() and load() walk over the fields: FoldLeft is a recursive       *)
(* function on the sets of fields, which takes the last one of a set off.  *)
(***************************************************************************)
PutFlag(cells, i) ==
  IF schema[i].nullable /\ fields[i].null
    THEN SetFlag(cells, Cardinality(Before(i, Nullable))) ELSE cells
Put(cells, i) ==
  IF i \in Vars
    THEN Write(Write(PutFlag(cells, i), VarAt(i), Copied(i)),
               SlotsAt + Cardinality(Before(i, Vars)), <<fields[i].real>>)
    ELSE Write(PutFlag(cells, i), FixedAt(i), Copied(i))
Total == FlagsRoom + FixedSize + Cardinality(Vars) + MapThenSumSet(LAMBDA i : fields[i].real, Vars)
Blank == [k \in 1 .. Total |-> IF k <= FlagsSize THEN {} ELSE 0]
Cells == FoldLeft(Put, Blank, [i \in Fields |-> i])

LoadStart == [fields |-> fields, flag |-> 0, fixed |-> FlagsSize, slot |-> SlotsAt, var |-> VarsAt]

LEMMA FormatIs == Format = SubSeq(Cells, 1, RecordSize)
  BY DEF Format, Cells, Blank, Total, PutFlag, Put

LEMMA LoadIs == Load = FoldLeft(LoadField, LoadStart, [i \in Fields |-> i]).fields
  BY DEF Load, LoadStart

StepOf(w, x, i) == IF w = "put" THEN Put(x, i) ELSE LoadField(x, i)
WalkBody(w, b, g, s) == IF s = {} THEN b ELSE StepOf(w, g[s \ {Max(s)}], Max(s))
WalkRec(w, b, S, g) == g = [s \in SUBSET S |-> WalkBody(w, b, g, s)]

LEMMA NumbersMax ==
  ASSUME NEW n \in Nat, NEW s \in SUBSET (1 .. n), s # {}
  PROVE  Max(s) \in s /\ \A y \in s : y <= Max(s)
  <1> DEFINE N == {m \in Nat : \A t \in SUBSET (1 .. m) : t # {} => \E x \in t : \A y \in t : x >= y}
  <1>1. 0 \in N
    <2>1. 1 .. 0 = {}
      OBVIOUS
    <2> QED
      BY <2>1
  <1>2. ASSUME NEW m \in N PROVE m + 1 \in N
    <2> SUFFICES ASSUME NEW t \in SUBSET (1 .. m + 1), t # {}
                 PROVE  \E x \in t : \A y \in t : x >= y
      OBVIOUS
    <2>1. CASE m + 1 \in t
      BY <2>1
    <2>2. CASE m + 1 \notin t
      <3>1. t \in SUBSET (1 .. m)
        BY <2>2
      <3> QED
        BY <3>1
    <2> QED
      BY <2>1, <2>2
  <1>3. N \in SUBSET Nat
    OBVIOUS
  <1> HIDE DEF N
  <1>4. N = Nat
    BY <1>1, <1>2, <1>3, NatInduct
  <1>5. n \in N
    BY <1>4
  <1>6. \E x \in s : \A y \in s : x >= y
    BY <1>5 DEF N
  <1>7. Max(s) \in s /\ \A y \in s : Max(s) >= y
    BY <1>6 DEF Max
  <1> QED
    BY <1>7

LEMMA WithoutMax ==
  ASSUME NEW m \in Nat, NEW s \in SUBSET (1 .. m + 1), s # {}
  PROVE  s \ {Max(s)} \in SUBSET (1 .. m)
  <1>1. Max(s) \in s /\ \A y \in s : y <= Max(s)
    BY m + 1 \in Nat, NumbersMax
  <1>2. ASSUME NEW y \in s, y # Max(s) PROVE y \in 1 .. m
    <2>1. y \in 1 .. m + 1 /\ Max(s) \in 1 .. m + 1 /\ y <= Max(s)
      BY <1>1
    <2> QED
      BY <1>2, <2>1
  <1> QED
    BY <1>2

LEMMA WalkExists ==
  ASSUME NEW w, NEW b, NEW n \in Nat
  PROVE  \E g : WalkRec(w, b, 1 .. n, g)
  <1> DEFINE N == {m \in Nat : \E g : WalkRec(w, b, 1 .. m, g)}
  <1>1. 0 \in N
    <2> DEFINE g == [s \in SUBSET (1 .. 0) |-> b]
    <2>1. \A s \in SUBSET (1 .. 0) : s = {}
      OBVIOUS
    <2>2. g = [s \in SUBSET (1 .. 0) |-> WalkBody(w, b, g, s)]
      BY <2>1 DEF WalkBody
    <2> HIDE DEF g
    <2>3. WalkRec(w, b, 1 .. 0, g)
      BY <2>2 DEF WalkRec
    <2> QED
      BY <2>3
  <1>2. ASSUME NEW m \in N PROVE m + 1 \in N
    <2>0. m \in Nat /\ m + 1 \in Nat
      OBVIOUS
    <2>1. PICK g : WalkRec(w, b, 1 .. m, g)
      OBVIOUS
    <2>2. g = [s \in SUBSET (1 .. m) |-> WalkBody(w, b, g, s)]
      BY <2>1 DEF WalkRec
    <2> DEFINE h == [s \in SUBSET (1 .. m + 1) |-> WalkBody(w, b, g, s)]
    <2>3. \A s \in SUBSET (1 .. m) : s \in SUBSET (1 .. m + 1)
      BY <2>0
    <2>4. \A s \in SUBSET (1 .. m) : h[s] = g[s]
      BY <2>2, <2>3
    <2> HIDE DEF h
    <2>5. ASSUME NEW s \in SUBSET (1 .. m + 1)
          PROVE  WalkBody(w, b, h, s) = WalkBody(w, b, g, s)
      <3>1. CASE s = {}
        BY <3>1 DEF WalkBody
      <3>2. CASE s # {}
        <4>1. s \ {Max(s)} \in SUBSET (1 .. m)
          BY <2>0, <3>2, WithoutMax
        <4> QED
          BY <2>4, <3>2, <4>1 DEF WalkBody
      <3> QED
        BY <3>1, <3>2
    <2>6. h = [s \in SUBSET (1 .. m + 1) |-> WalkBody(w, b, h, s)]
      BY <2>5 DEF h
    <2>7. WalkRec(w, b, 1 .. m + 1, h)
      BY <2>6 DEF WalkRec
    <2> QED
      BY <2>0, <2>7
  <1>3. N \in SUBSET Nat
    OBVIOUS
  <1> HIDE DEF N
  <1>4. N = Nat
    BY <1>1, <1>2, <1>3, NatInduct
  <1>5. n \in N
    BY <1>4
  <1> QED
    BY <1>5 DEF N

\* The states of the walk, field by field.
Walked(w, b, n, st) ==
  st[0] = b /\ \A m \in 0 .. n - 1 : st[m + 1] = StepOf(w, st[m], m + 1)

LEMMA WalkSteps ==
  ASSUME NEW w, NEW b, NEW n \in Nat, NEW g, WalkRec(w, b, 1 .. n, g)
  PROVE  \E st : Walked(w, b, n, st) /\ st[n] = g[1 .. n]
  <1>1. \A s \in SUBSET (1 .. n) : g[s] = WalkBody(w, b, g, s)
    BY DEF WalkRec
  <1> DEFINE st == [m \in 0 .. n |-> g[1 .. m]]
  <1>2. st[0] = b
    <2>1. 1 .. 0 = {} /\ 0 \in 0 .. n
      OBVIOUS
    <2> QED
      BY <1>1, <2>1 DEF WalkBody
  <1>3. ASSUME NEW m \in 0 .. n - 1 PROVE st[m + 1] = StepOf(w, st[m], m + 1)
    <2>1. m + 1 \in 0 .. n /\ m \in 0 .. n /\ m + 1 \in 1 .. m + 1 /\ m + 1 \in Nat /\ m \in Nat
      OBVIOUS
    <2>2. 1 .. m + 1 \in SUBSET (1 .. n) /\ 1 .. m + 1 # {}
      <3>1. \A x \in 1 .. m + 1 : x \in 1 .. n
        BY <2>1
      <3> QED
        BY <2>1, <3>1
    <2>3. Max(1 .. m + 1) \in 1 .. m + 1 /\ m + 1 <= Max(1 .. m + 1)
      BY <2>1, <2>2, NumbersMax
    <2>4. Max(1 .. m + 1) = m + 1
      BY <2>1, <2>3
    <2>5. (1 .. m + 1) \ {m + 1} = 1 .. m
      BY <2>1
    <2>6. g[1 .. m + 1] = StepOf(w, g[1 .. m], m + 1)
      BY <1>1, <2>2, <2>4, <2>5 DEF WalkBody
    <2> QED
      BY <2>1, <2>6
  <1>4. st[n] = g[1 .. n]
    OBVIOUS
  <1> HIDE DEF st
  <1>5. Walked(w, b, n, st)
    BY <1>2, <1>3 DEF Walked
  <1> QED
    BY <1>4, <1>5

LEMMA CellsWalked ==
  ASSUME NEW n \in Nat, Fields = 1 .. n
  PROVE  \E st : Walked("put", Blank, n, st) /\ Cells = st[n]
  <1> DEFINE seq == [i \in Fields |-> i]
             R(g) == g = [s \in SUBSET (DOMAIN seq) |->
                            IF s = {} THEN Blank ELSE Put(g[s \ {Max(s)}], seq[Max(s)])]
  <1>1. Cells = (CHOOSE g : R(g))[DOMAIN seq]
    BY DEF Cells, FoldLeft, MapThenFoldSet
  <1>2. DOMAIN seq = 1 .. n /\ \A i \in 1 .. n : seq[i] = i
    OBVIOUS
  <1> HIDE DEF seq
  <1>3. ASSUME NEW g PROVE R(g) <=> WalkRec("put", Blank, 1 .. n, g)
    <2>1. ASSUME NEW s \in SUBSET (1 .. n), s # {} PROVE seq[Max(s)] = Max(s)
      BY <1>2, <2>1, NumbersMax
    <2>2. \A s \in SUBSET (1 .. n) : WalkBody("put", Blank, g, s)
            = IF s = {} THEN Blank ELSE Put(g[s \ {Max(s)}], seq[Max(s)])
      BY <2>1 DEF WalkBody, StepOf
    <2> QED
      BY <1>2, <2>2 DEF WalkRec
  <1> HIDE DEF R
  <1>4. \E g : R(g)
    BY <1>3, WalkExists
  <1>5. PICK h : h = (CHOOSE g : R(g))
    OBVIOUS
  <1>6. WalkRec("put", Blank, 1 .. n, h)
    BY <1>3, <1>4, <1>5
  <1>7. PICK st : Walked("put", Blank, n, st) /\ st[n] = h[1 .. n]
    BY <1>6, WalkSteps
  <1> QED
    BY <1>1, <1>2, <1>5, <1>7

LEMMA LoadWalked ==
  ASSUME NEW n \in Nat, Fields = 1 .. n
  PROVE  \E st : Walked("load", LoadStart, n, st) /\ Load = st[n].fields
  <1> DEFINE seq == [i \in Fields |-> i]
             R(g) == g = [s \in SUBSET (DOMAIN seq) |->
                            IF s = {} THEN LoadStart ELSE LoadField(g[s \ {Max(s)}], seq[Max(s)])]
  <1>1. Load = (CHOOSE g : R(g))[DOMAIN seq].fields
    BY LoadIs DEF FoldLeft, MapThenFoldSet
  <1>2. DOMAIN seq = 1 .. n /\ \A i \in 1 .. n : seq[i] = i
    OBVIOUS
  <1> HIDE DEF seq
  <1>3. ASSUME NEW g PROVE R(g) <=> WalkRec("load", LoadStart, 1 .. n, g)
    <2>1. ASSUME NEW s \in SUBSET (1 .. n), s # {} PROVE seq[Max(s)] = Max(s)
      BY <1>2, <2>1, NumbersMax
    <2>2. \A s \in SUBSET (1 .. n) : WalkBody("load", LoadStart, g, s)
            = IF s = {} THEN LoadStart ELSE LoadField(g[s \ {Max(s)}], seq[Max(s)])
      BY <2>1 DEF WalkBody, StepOf
    <2> QED
      BY <1>2, <2>2 DEF WalkRec
  <1> HIDE DEF R
  <1>4. \E g : R(g)
    BY <1>3, WalkExists
  <1>5. PICK h : h = (CHOOSE g : R(g))
    OBVIOUS
  <1>6. WalkRec("load", LoadStart, 1 .. n, h)
    BY <1>3, <1>4, <1>5
  <1>7. PICK st : Walked("load", LoadStart, n, st) /\ st[n] = h[1 .. n]
    BY <1>6, WalkSteps
  <1> QED
    BY <1>1, <1>2, <1>5, <1>7

\* The offsets of the module are those of the layout.
LEMMA PartsAre ==
  ASSUME NEW n, SchemaOK(schema, n)
  PROVE  /\ n \in Nat /\ Fields = 1 .. n /\ Vars = VarsOf(schema) /\ Nullable = NullsOf(schema)
         /\ Key = KeyOf(schema) /\ Fields \ Vars = RestOf(schema)
         /\ FlagsSize = FlagsOf(schema) /\ FlagsRoom = RoomOf(schema) /\ SlotsAt = SlotsPos(schema) /\ VarsAt = VarsPos(schema)
         /\ \A i \in 1 .. n : MaxSize(i) = DescSize(schema[i])
  <1>1. /\ n \in Nat /\ Fields = 1 .. n /\ Vars = VarsOf(schema) /\ Nullable = NullsOf(schema)
        /\ Key = KeyOf(schema) /\ Fields \ Vars = RestOf(schema)
    BY DEF SchemaOK, Fields, Vars, VarsOf, RestOf, NullsOf, Nullable, Key, KeyOf
  <1>2. \A i \in 1 .. n : MaxSize(i) = DescSize(schema[i])
    BY DEF MaxSize
  <1>3. FlagsSize = FlagsOf(schema) /\ FlagsRoom = RoomOf(schema)
    BY <1>1 DEF FlagsSize, FlagsOf, FlagsRoom, RoomOf, CountOf
  <1>4. PICK T : T = Fields \ Vars
    OBVIOUS
  <1>5. IsFiniteSet(T) /\ \A i \in T : SizesOf(schema)[i] = MaxSize(i)
    BY <1>1, <1>2, <1>4, SetsOf, BeforeAll
  <1>6. MapThenSumSet(LAMBDA i : MaxSize(i), T) = SumOf(SizesOf(schema), T)
    BY <1>5, SumOfMaxSizes
  <1>7. FixedSize = SumOf(SizesOf(schema), RestOf(schema))
    BY <1>1, <1>4, <1>6 DEF FixedSize
  <1>8. SlotsAt = SlotsPos(schema)
    BY <1>3, <1>7 DEF SlotsAt, SlotsPos
  <1>9. VarsAt = VarsPos(schema)
    BY <1>1, <1>8 DEF VarsAt, VarsPos
  <1> QED
    BY <1>1, <1>2, <1>3, <1>8, <1>9

LEMMA FixedSizeIs ==
  ASSUME NEW n, SchemaOK(schema, n)
  PROVE  FixedSize \in Nat
  <1>1. PICK T : T = RestOf(schema)
    OBVIOUS
  <1>2. T = Fields \ Vars /\ IsFiniteSet(T) /\ \A i \in T : SizesOf(schema)[i] = MaxSize(i)
    BY <1>1, PartsAre, SetsOf, BeforeAll
  <1>3. FixedSize = SumOf(SizesOf(schema), T)
    BY <1>2, SumOfMaxSizes DEF FixedSize
  <1>4. \A i \in T : SizesOf(schema)[i] \in Nat
    BY <1>1, SetsOf
  <1> QED
    BY <1>2, <1>3, <1>4, SumIsNat

LEMMA FixedAtIs ==
  ASSUME NEW n, SchemaOK(schema, n), NEW i
  PROVE  FixedAt(i) = FixedPos(schema, i)
  <1>1. PICK T : T = Before(i, Fields \ Vars)
    OBVIOUS
  <1>2. IsFiniteSet(T) /\ \A j \in T : SizesOf(schema)[j] = MaxSize(j)
    <2>1. T = Before(i, RestOf(schema))
      BY <1>1, PartsAre
    <2>2. IsFiniteSet(T) /\ T \in SUBSET RestOf(schema)
      BY <2>1, SetsOf, BeforeAll
    <2> QED
      BY <2>2, SetsOf, PartsAre
  <1>3. MapThenSumSet(LAMBDA j : MaxSize(j), T) = SumOf(SizesOf(schema), T)
    BY <1>2, SumOfMaxSizes
  <1>4. FixedAt(i) = FlagsSize + SumOf(SizesOf(schema), T)
    BY <1>1, <1>3 DEF FixedAt
  <1> QED
    BY <1>1, <1>4, PartsAre DEF FixedPos

LEMMA KeyAtIs ==
  ASSUME NEW n, SchemaOK(schema, n), NEW i
  PROVE  KeyAt(i) = KeyPos(schema, i) /\ KeySize = KeyTotal(schema)
  <1>1. PICK T : T = Before(i, Key)
    OBVIOUS
  <1>2. IsFiniteSet(T) /\ \A j \in T : SizesOf(schema)[j] = MaxSize(j)
    <2>1. T = Before(i, KeyOf(schema))
      BY <1>1, PartsAre
    <2>2. IsFiniteSet(T) /\ T \in SUBSET KeyOf(schema)
      <3>1. n \in Nat /\ \A x \in KeyOf(schema) : x \in 1 .. n
        BY SetsOf
      <3> QED
        BY <2>1, <3>1, BeforeAll
    <2> QED
      BY <2>2, SetsOf, PartsAre
  <1>3. MapThenSumSet(LAMBDA j : MaxSize(j), T) = SumOf(SizesOf(schema), T)
    BY <1>2, SumOfMaxSizes
  <1>4. KeyAt(i) = SumOf(SizesOf(schema), T)
    BY <1>1, <1>3 DEF KeyAt
  <1>5. IsFiniteSet(Key) /\ \A j \in Key : SizesOf(schema)[j] = MaxSize(j)
    BY SetsOf, BeforeAll, PartsAre
  <1>6. MapThenSumSet(LAMBDA j : MaxSize(j), Key) = SumOf(SizesOf(schema), Key)
    BY <1>5, SumOfMaxSizes
  <1>7. KeySize = SumOf(SizesOf(schema), Key)
    BY <1>6 DEF KeySize
  <1> QED
    BY <1>1, <1>4, <1>7, PartsAre DEF KeyPos, KeyTotal

LEMMA VarAtIs ==
  ASSUME NEW n, SchemaOK(schema, n), FieldsOK(schema, n, fields), NEW i
  PROVE  /\ VarAt(i) = VarPos(schema, fields, i)
         /\ Total = AllOf(schema, fields)
  <1>1. PICK T : T = Before(i, Vars)
    OBVIOUS
  <1>2. IsFiniteSet(T) /\ \A j \in T : RealsOf(fields)[j] = fields[j].real
    <2>1. T = Before(i, VarsOf(schema))
      BY <1>1, PartsAre
    <2>2. IsFiniteSet(T) /\ T \in SUBSET VarsOf(schema)
      BY <2>1, SetsOf, BeforeAll
    <2> QED
      BY <2>2, SetsOf, RealsAre
  <1>3. MapThenSumSet(LAMBDA j : fields[j].real, T) = SumOf(RealsOf(fields), T)
    BY <1>2, SumOfReals
  <1>4. VarAt(i) = VarsAt + SumOf(RealsOf(fields), T)
    BY <1>1, <1>3 DEF VarAt
  <1>5. IsFiniteSet(Vars) /\ \A j \in Vars : RealsOf(fields)[j] = fields[j].real
    BY SetsOf, BeforeAll, PartsAre, RealsAre
  <1>6. MapThenSumSet(LAMBDA j : fields[j].real, Vars) = SumOf(RealsOf(fields), Vars)
    BY <1>5, SumOfReals
  <1>7. Total = FlagsRoom + FixedSize + Cardinality(Vars) + SumOf(RealsOf(fields), Vars)
    BY <1>6 DEF Total
  <1>8. /\ VarsAt = FlagsSize + FixedSize + Cardinality(Vars)
        /\ VarsAt = VarsPos(schema) /\ Vars = VarsOf(schema)
        /\ FlagsSize = FlagsOf(schema) /\ FlagsRoom = RoomOf(schema)
    BY PartsAre DEF VarsAt, SlotsAt
  <1>9. /\ FlagsOf(schema) \in Nat /\ RoomOf(schema) \in Nat /\ FixedSize \in Nat
        /\ Cardinality(Vars) \in Nat /\ SumOf(RealsOf(fields), Vars) \in Nat
    <2>1. Cardinality(Vars) \in Nat
      BY <1>5, FS_CardinalityType
    <2>2. \A j \in Vars : RealsOf(fields)[j] \in Nat
      BY <1>8, SetsOf, RealsAre
    <2>3. SumOf(RealsOf(fields), Vars) \in Nat
      BY <1>5, <2>2, SumIsNat
    <2>4. FixedSize \in Nat
      BY FixedSizeIs
    <2> QED
      BY <2>1, <2>3, <2>4, FlagsAre
  <1>10. Total = AllOf(schema, fields)
    BY <1>7, <1>8, <1>9 DEF AllOf
  <1> QED
    BY <1>1, <1>4, <1>10, PartsAre DEF VarPos

-----------------------------------------------------------------------------
(***************************************************************************)
(* What format() writes.                                                   *)
(***************************************************************************)
Spans(cells, a) == cells = [p \in 1 .. a |-> cells[p]]

LEMMA WriteIs ==
  ASSUME NEW a \in Nat, NEW cells, Spans(cells, a), NEW at \in Nat, NEW l \in Nat,
         NEW new, DOMAIN new = 1 .. l
  PROVE  /\ Spans(Write(cells, at, new), a)
         /\ \A p \in 1 .. a : p \in at + 1 .. at + l => Write(cells, at, new)[p] = new[p - at]
         /\ \A p \in 1 .. a : p \notin at + 1 .. at + l => Write(cells, at, new)[p] = cells[p]
  <1>1. DOMAIN cells = 1 .. a
    BY DEF Spans
  <1>2. \A p \in 1 .. a : p - at \in DOMAIN new <=> p \in at + 1 .. at + l
    OBVIOUS
  <1>3. Write(cells, at, new) =
          [p \in 1 .. a |-> IF p - at \in DOMAIN new THEN new[p - at] ELSE cells[p]]
    BY <1>1 DEF Write
  <1> QED
    BY <1>2, <1>3 DEF Spans

LEMMA CopiedIs ==
  ASSUME NEW i, fields[i].real \in Nat
  PROVE  /\ Copied(i) = [k \in 1 .. fields[i].real |-> fields[i].data[k]]
         /\ DOMAIN Copied(i) = 1 .. fields[i].real
  <1>1. PICK l \in Nat : l = fields[i].real
    OBVIOUS
  <1>2. PICK s : s = fields[i].data
    OBVIOUS
  <1>3. 0 + 1 = 1 /\ 0 + l = l /\ \A k \in 1 .. l : 0 + k = k
    OBVIOUS
  <1>4. SubSeq(s, 0 + 1, 0 + l) = [k \in 1 .. l |-> s[0 + k]]
    BY 0 \in Nat, SubSeqIs
  <1>5. SubSeq(s, 1, l) = [k \in 1 .. l |-> s[k]]
    BY <1>3, <1>4
  <1> QED
    BY <1>1, <1>2, <1>5 DEF Copied

\* A field is in the cells; the cells of a field that is to come are zero.
FixedIn(c, v, i, cells) ==
  \A k \in 1 .. DescSize(c[i]) : cells[FixedPos(c, i) + k] = IF k <= v.real THEN v.data[k] ELSE 0
SlotIn(c, v, i, cells) == cells[SlotPos(c, i) + 1] = v.real
VarIn(c, f, i, cells) == \A k \in 1 .. f[i].real : cells[VarPos(c, f, i) + k] = f[i].data[k]
FieldIn(c, f, i, cells) ==
  /\ i \in RestOf(c) => FixedIn(c, f[i], i, cells)
  /\ i \in VarsOf(c) => SlotIn(c, f[i], i, cells) /\ VarIn(c, f, i, cells)
FieldToCome(c, i, cells) ==
  i \in RestOf(c) => \A k \in 1 .. DescSize(c[i]) : cells[FixedPos(c, i) + k] = 0

\* What is in the cells stays, when only cells of others are written.
LEMMA FieldStays ==
  ASSUME NEW c, NEW n, SchemaOK(c, n), NEW f, FieldsOK(c, n, f), NEW j \in 1 .. n,
         NEW cells, NEW new, \A p \in 1 .. AllOf(c, f) : Mine(c, f, j, p) => new[p] = cells[p]
  PROVE  /\ FieldIn(c, f, j, cells) => FieldIn(c, f, j, new)
         /\ FieldToCome(c, j, cells) => FieldToCome(c, j, new)
  <1>0. \A p : Mine(c, f, j, p) => new[p] = cells[p]
    <2>1. ASSUME NEW p, Mine(c, f, j, p) PROVE p \in 1 .. AllOf(c, f)
      <3>1. p \in FlagsOf(c) + 1 .. AllOf(c, f)
        BY <2>1, Inside
      <3>2. FlagsOf(c) \in Nat /\ AllOf(c, f) \in Nat
        BY PartsFollow, AllFollows
      <3> QED
        BY <3>1, <3>2
    <2> QED
      BY <2>1
  <1>1. ASSUME j \in RestOf(c), NEW k \in 1 .. DescSize(c[j])
        PROVE  new[FixedPos(c, j) + k] = cells[FixedPos(c, j) + k]
    <2>1. FixedPos(c, j) \in Nat /\ DescSize(c[j]) \in Nat
      BY <1>1, FixedWithin
    <2>2. PICK p : p = FixedPos(c, j) + k
      OBVIOUS
    <2>3. p \in FixedPos(c, j) + 1 .. FixedPos(c, j) + DescSize(c[j])
      BY <2>1, <2>2
    <2>4. Mine(c, f, j, p)
      BY <1>1, <2>3 DEF Mine, InFixed
    <2> QED
      BY <1>0, <2>2, <2>4
  <1>2. ASSUME j \in VarsOf(c) PROVE new[SlotPos(c, j) + 1] = cells[SlotPos(c, j) + 1]
    BY <1>0, <1>2 DEF Mine, InSlot
  <1>3. ASSUME j \in VarsOf(c), NEW k \in 1 .. f[j].real
        PROVE  new[VarPos(c, f, j) + k] = cells[VarPos(c, f, j) + k]
    <2>1. VarPos(c, f, j) \in Nat /\ f[j].real \in Nat
      BY <1>3, VarWithin
    <2>2. PICK p : p = VarPos(c, f, j) + k
      OBVIOUS
    <2>3. p \in VarPos(c, f, j) + 1 .. VarPos(c, f, j) + f[j].real
      BY <2>1, <2>2
    <2>4. Mine(c, f, j, p)
      BY <1>3, <2>3 DEF Mine, InVar
    <2> QED
      BY <1>0, <2>2, <2>4
  <1>4. FieldToCome(c, j, cells) => FieldToCome(c, j, new)
    BY <1>1 DEF FieldToCome
  <1>5. ASSUME FieldIn(c, f, j, cells) PROVE FieldIn(c, f, j, new)
    <2>1. ASSUME j \in RestOf(c) PROVE FixedIn(c, f[j], j, new)
      <3>1. FixedIn(c, f[j], j, cells)
        BY <1>5, <2>1 DEF FieldIn
      <3> QED
        BY <1>1, <2>1, <3>1 DEF FixedIn
    <2>2. ASSUME j \in VarsOf(c) PROVE SlotIn(c, f[j], j, new) /\ VarIn(c, f, j, new)
      <3>1. SlotIn(c, f[j], j, cells) /\ VarIn(c, f, j, cells)
        BY <1>5, <2>2 DEF FieldIn
      <3> QED
        BY <1>2, <1>3, <2>2, <3>1 DEF SlotIn, VarIn
    <2> QED
      BY <2>1, <2>2 DEF FieldIn
  <1> QED
    BY <1>4, <1>5

\* No flag is set, and setting one leaves the flags as they are.
FlagsIn(c, cells) == \A p \in 1 .. FlagsOf(c) : cells[p] = {}

LEMMA FlagStays ==
  ASSUME NEW n, SchemaOK(schema, n), NEW i \in 1 .. n, NEW a \in Nat, FlagsOf(schema) <= a,
         NEW cells, Spans(cells, a), FlagsIn(schema, cells)
  PROVE  PutFlag(cells, i) = cells
  <1> SUFFICES ASSUME schema[i].nullable
               PROVE  SetFlag(cells, Cardinality(Before(i, Nullable))) = cells
    BY DEF PutFlag
  <1>1. i \in NullsOf(schema) /\ Nullable = NullsOf(schema)
    BY PartsAre DEF NullsOf, SchemaOK
  <1>2. PICK m : m = Cardinality(Before(i, Nullable))
    OBVIOUS
  <1>3. PICK p \in 1 .. FlagsOf(schema) : p = ByteOf(m)
    BY <1>1, <1>2, FlagsAre
  <1>4. FlagsOf(schema) \in Nat
    BY FlagsAre
  <1>5. cells[p] = {} /\ cells = [q \in 1 .. a |-> cells[q]]
    BY DEF FlagsIn, Spans
  <1>6. SetFlag(cells, m) = [cells EXCEPT ![p] = cells[p] \cap {m \div 8}]
    BY <1>3 DEF SetFlag
  <1>7. cells[p] \cap {m \div 8} = cells[p]
    BY <1>5
  <1> QED
    BY <1>2, <1>5, <1>6, <1>7

\* Put writes the cells of the field, and no others.
LEMMA PutWrites ==
  ASSUME NEW n, SchemaOK(schema, n), FieldsOK(schema, n, fields), NEW i \in 1 .. n,
         NEW cells, Spans(cells, AllOf(schema, fields)), FieldToCome(schema, i, cells),
         FlagsIn(schema, cells)
  PROVE  /\ Spans(Put(cells, i), AllOf(schema, fields))
         /\ FieldIn(schema, fields, i, Put(cells, i))
         /\ \A p \in 1 .. AllOf(schema, fields) :
              ~Mine(schema, fields, i, p) => Put(cells, i)[p] = cells[p]
  <1>1. PICK c : c = schema
    OBVIOUS
  <1>2. PICK f : f = fields
    OBVIOUS
  <1>3. PICK l : l = f[i].real
    OBVIOUS
  <1>4. PICK a : a = AllOf(c, f)
    OBVIOUS
  <1>5. /\ SchemaOK(c, n) /\ FieldsOK(c, n, f) /\ Spans(cells, a) /\ FieldToCome(c, i, cells)
        /\ FieldOK(c[i], f[i])
    BY <1>1, <1>2, <1>4 DEF FieldsOK
  <1>6. l \in Nat /\ l <= DescSize(c[i]) /\ a \in Nat /\ DescSize(c[i]) \in Nat
    BY <1>3, <1>4, <1>5, AllFollows DEF FieldOK, SchemaOK
  <1>7. PICK new : new = Copied(i)
    OBVIOUS
  <1>8. DOMAIN new = 1 .. l /\ \A k \in 1 .. l : new[k] = f[i].data[k]
    BY <1>2, <1>3, <1>6, <1>7, CopiedIs
  <1>0. PutFlag(cells, i) = cells
    <2>1. FlagsOf(c) <= a
      <3>1. /\ FlagsOf(c) \in Nat /\ SlotsPos(c) \in Nat /\ VarsPos(c) \in Nat /\ a \in Nat
            /\ FlagsOf(c) <= SlotsPos(c) /\ SlotsPos(c) <= VarsPos(c) /\ VarsPos(c) <= a
        BY <1>4, <1>5, PartsFollow, AllFollows
      <3> QED
        BY <3>1
    <2> QED
      BY <1>1, <1>5, <1>6, <2>1, FlagStays
  <1>9. CASE i \in VarsOf(c)
    <2>1. PICK at : at = VarPos(c, f, i)
      OBVIOUS
    <2>2. PICK slot : slot = SlotPos(c, i)
      OBVIOUS
    <2>3. /\ at \in Nat /\ slot \in Nat /\ VarsPos(c) \in Nat /\ slot + 1 <= VarsPos(c)
          /\ VarsPos(c) <= at /\ at + l <= a
      BY <1>3, <1>4, <1>5, <1>9, <2>1, <2>2, VarWithin, SlotWithin, PartsFollow
    <2>4. PICK mid : mid = Write(cells, at, new)
      OBVIOUS
    <2>5. PICK end : end = Write(mid, slot, <<l>>)
      OBVIOUS
    <2>6. Put(cells, i) = end
      <3>1. VarAt(i) = at /\ i \in Vars
        BY <1>1, <1>2, <1>5, <1>9, <2>1, VarAtIs, PartsAre
      <3>2. SlotsAt + Cardinality(Before(i, Vars)) = slot
        BY <1>1, <1>5, <2>2, PartsAre DEF SlotPos
      <3> QED
        BY <1>0, <1>2, <1>3, <1>7, <2>4, <2>5, <3>1, <3>2 DEF Put
    <2>7. /\ Spans(mid, a)
          /\ \A p \in 1 .. a : p \in at + 1 .. at + l => mid[p] = new[p - at]
          /\ \A p \in 1 .. a : p \notin at + 1 .. at + l => mid[p] = cells[p]
      BY <1>5, <1>6, <1>8, <2>3, <2>4, WriteIs
    <2>0. PICK one : one = <<l>>
      OBVIOUS
    <2>8. DOMAIN one = 1 .. 1 /\ one[1] = l /\ end = Write(mid, slot, one)
      BY <2>0, <2>5
    <2>9. /\ Spans(end, a)
          /\ \A p \in 1 .. a : p \in slot + 1 .. slot + 1 => end[p] = one[p - slot]
          /\ \A p \in 1 .. a : p \notin slot + 1 .. slot + 1 => end[p] = mid[p]
      <3>1. PICK w \in Nat : w = 1
        OBVIOUS
      <3>2. DOMAIN one = 1 .. w /\ Spans(mid, a)
        BY <2>7, <2>8, <3>1
      <3>3. /\ Spans(Write(mid, slot, one), a)
            /\ \A p \in 1 .. a : p \in slot + 1 .. slot + w => Write(mid, slot, one)[p] = one[p - slot]
            /\ \A p \in 1 .. a : p \notin slot + 1 .. slot + w => Write(mid, slot, one)[p] = mid[p]
        BY <1>6, <2>3, <3>2, WriteIs
      <3> QED
        BY <2>8, <3>1, <3>3
    <2>10. end[slot + 1] = l
      <3>1. slot + 1 \in 1 .. a /\ (slot + 1) - slot = 1
        BY <1>6, <2>3
      <3> QED
        BY <2>8, <2>9, <3>1
    <2>11. ASSUME NEW k \in 1 .. l PROVE end[at + k] = f[i].data[k]
      <3>1. /\ at + k \in 1 .. a /\ (at + k) - at = k /\ at + k \notin slot + 1 .. slot + 1
            /\ at + k \in at + 1 .. at + l
        BY <1>6, <2>3
      <3> QED
        BY <1>8, <2>7, <2>9, <3>1
    <2>12. FieldIn(c, f, i, end)
      <3>1. i \notin RestOf(c)
        BY <1>9 DEF RestOf
      <3> QED
        BY <1>3, <2>1, <2>2, <2>10, <2>11, <3>1 DEF FieldIn, SlotIn, VarIn
    <2>13. ASSUME NEW p \in 1 .. a, ~Mine(c, f, i, p) PROVE end[p] = cells[p]
      <3>1. p # slot + 1 /\ p \notin at + 1 .. at + l
        BY <1>3, <1>9, <2>1, <2>2, <2>13 DEF Mine, InSlot, InVar
      <3>2. p \notin slot + 1 .. slot + 1
        BY <2>3, <3>1
      <3> QED
        BY <2>7, <2>9, <3>1, <3>2
    <2> QED
      BY <1>1, <1>2, <1>4, <2>6, <2>9, <2>12, <2>13
  <1>10. CASE i \in RestOf(c)
    <2>1. PICK at : at = FixedPos(c, i)
      OBVIOUS
    <2>2. /\ at \in Nat /\ at + DescSize(c[i]) <= a
      <3>1. at \in Nat /\ SlotsPos(c) \in Nat /\ at + DescSize(c[i]) <= SlotsPos(c)
        BY <1>5, <1>10, <2>1, FixedWithin
      <3>2. VarsPos(c) \in Nat /\ SlotsPos(c) <= VarsPos(c) /\ VarsPos(c) <= a
        BY <1>4, <1>5, PartsFollow, AllFollows
      <3> QED
        BY <1>6, <3>1, <3>2
    <2>3. PICK end : end = Write(cells, at, new)
      OBVIOUS
    <2>4. Put(cells, i) = end
      <3>1. FixedAt(i) = at
        BY <1>1, <1>5, <2>1, FixedAtIs
      <3>2. i \notin Vars
        BY <1>1, <1>5, <1>10, PartsAre DEF RestOf
      <3> QED
        BY <1>0, <1>7, <2>3, <3>1, <3>2 DEF Put
    <2>5. /\ Spans(end, a)
          /\ \A p \in 1 .. a : p \in at + 1 .. at + l => end[p] = new[p - at]
          /\ \A p \in 1 .. a : p \notin at + 1 .. at + l => end[p] = cells[p]
      BY <1>5, <1>6, <1>8, <2>2, <2>3, WriteIs
    <2>6. ASSUME NEW k \in 1 .. DescSize(c[i])
          PROVE  end[at + k] = IF k <= l THEN f[i].data[k] ELSE 0
      <3>1. at + k \in 1 .. a /\ (at + k) - at = k
        BY <1>6, <2>2
      <3>2. CASE k <= l
        <4>1. at + k \in at + 1 .. at + l /\ k \in 1 .. l
          BY <1>6, <2>2, <3>2
        <4> QED
          BY <1>8, <2>5, <3>1, <3>2, <4>1
      <3>3. CASE ~(k <= l)
        <4>1. at + k \notin at + 1 .. at + l
          BY <1>6, <2>2, <3>3
        <4>2. cells[at + k] = 0
          BY <1>5, <1>10, <2>1 DEF FieldToCome
        <4> QED
          BY <2>5, <3>1, <3>3, <4>1, <4>2
      <3> QED
        BY <3>2, <3>3
    <2>7. FieldIn(c, f, i, end)
      <3>1. i \notin VarsOf(c)
        BY <1>10 DEF RestOf
      <3> QED
        BY <1>3, <2>1, <2>6, <3>1 DEF FieldIn, FixedIn
    <2>8. ASSUME NEW p \in 1 .. a, ~Mine(c, f, i, p) PROVE end[p] = cells[p]
      <3>1. p \notin at + 1 .. at + DescSize(c[i])
        BY <1>10, <2>1, <2>8 DEF Mine, InFixed
      <3>2. p \notin at + 1 .. at + l
        BY <1>6, <2>2, <3>1
      <3> QED
        BY <2>5, <3>2
    <2> QED
      BY <1>1, <1>2, <1>4, <2>4, <2>5, <2>7, <2>8
  <1>11. i \in VarsOf(c) \/ i \in RestOf(c)
    BY <1>5, SetsOf
  <1> QED
    BY <1>9, <1>10, <1>11

SlotsAreSizes(c, cells) == \A p \in SlotsPos(c) + 1 .. VarsPos(c) : cells[p] \in Nat

LEMMA BlankIs ==
  ASSUME NEW n, SchemaOK(schema, n), FieldsOK(schema, n, fields)
  PROVE  /\ Spans(Blank, AllOf(schema, fields)) /\ FlagsIn(schema, Blank)
         /\ \A p \in FlagsOf(schema) + 1 .. AllOf(schema, fields) : Blank[p] = 0
  <1>1. PICK a : a = AllOf(schema, fields)
    OBVIOUS
  <1>2. PICK w : w = FlagsOf(schema)
    OBVIOUS
  <1>3. a \in Nat /\ w \in Nat /\ w <= a
    <2>1. /\ w \in Nat /\ SlotsPos(schema) \in Nat /\ VarsPos(schema) \in Nat /\ a \in Nat
          /\ w <= SlotsPos(schema) /\ SlotsPos(schema) <= VarsPos(schema) /\ VarsPos(schema) <= a
      BY <1>1, <1>2, PartsFollow, AllFollows
    <2> QED
      BY <2>1
  <1>4. Blank = [k \in 1 .. a |-> IF k <= w THEN {} ELSE 0]
    BY <1>1, <1>2, PartsAre, VarAtIs DEF Blank
  <1>5. Spans(Blank, a)
    BY <1>4 DEF Spans
  <1>6. \A p \in 1 .. w : Blank[p] = {}
    BY <1>3, <1>4
  <1>7. \A p \in w + 1 .. a : Blank[p] = 0
    BY <1>3, <1>4
  <1> QED
    BY <1>1, <1>2, <1>5, <1>6, <1>7 DEF FlagsIn

LEMMA SlotCells ==
  ASSUME NEW c, NEW n, SchemaOK(c, n), NEW f, FieldsOK(c, n, f), NEW i \in 1 .. n,
         NEW cells, SlotsAreSizes(c, cells), NEW new, FieldIn(c, f, i, new),
         \A p \in 1 .. AllOf(c, f) : ~Mine(c, f, i, p) => new[p] = cells[p]
  PROVE  SlotsAreSizes(c, new)
  <1> SUFFICES ASSUME NEW p \in SlotsPos(c) + 1 .. VarsPos(c) PROVE new[p] \in Nat
    BY DEF SlotsAreSizes
  <1>1. /\ FlagsOf(c) \in Nat /\ SlotsPos(c) \in Nat /\ VarsPos(c) \in Nat /\ AllOf(c, f) \in Nat
        /\ FlagsOf(c) <= SlotsPos(c) /\ SlotsPos(c) <= VarsPos(c) /\ VarsPos(c) <= AllOf(c, f)
    BY PartsFollow, AllFollows
  <1>2. p \in 1 .. AllOf(c, f) /\ cells[p] \in Nat
    BY <1>1 DEF SlotsAreSizes
  <1>3. CASE Mine(c, f, i, p)
    <2>1. ~InFixed(c, i, p)
      <3>1. InFixed(c, i, p) => p \in FlagsOf(c) + 1 .. SlotsPos(c)
        BY FixedInside
      <3> QED
        BY <1>1, <3>1
    <2>2. ~InVar(c, f, i, p)
      <3>1. InVar(c, f, i, p) => p \in VarsPos(c) + 1 .. AllOf(c, f)
        BY VarInside
      <3> QED
        BY <1>1, <3>1
    <2>3. i \in VarsOf(c) /\ p = SlotPos(c, i) + 1
      BY <1>3, <2>1, <2>2 DEF Mine, InSlot
    <2>4. new[p] = f[i].real
      BY <2>3 DEF FieldIn, SlotIn
    <2> QED
      BY <2>4, RealsAre
  <1> QED
    BY <1>2, <1>3

\* After the m-th field.
PutUpTo(c, n, f, m, cells) ==
  /\ Spans(cells, AllOf(c, f)) /\ FlagsIn(c, cells) /\ SlotsAreSizes(c, cells)
  /\ \A i \in 1 .. m : FieldIn(c, f, i, cells)
  /\ \A i \in m + 1 .. n : FieldToCome(c, i, cells)

LEMMA NothingPut ==
  ASSUME NEW n, SchemaOK(schema, n), FieldsOK(schema, n, fields)
  PROVE  PutUpTo(schema, n, fields, 0, Blank)
  <1>1. PICK c : c = schema
    OBVIOUS
  <1>2. PICK f : f = fields
    OBVIOUS
  <1>3. SchemaOK(c, n) /\ FieldsOK(c, n, f)
    BY <1>1, <1>2
  <1>4. /\ FlagsOf(c) \in Nat /\ SlotsPos(c) \in Nat /\ VarsPos(c) \in Nat /\ AllOf(c, f) \in Nat
        /\ FlagsOf(c) <= SlotsPos(c) /\ SlotsPos(c) <= VarsPos(c) /\ VarsPos(c) <= AllOf(c, f)
    BY <1>3, PartsFollow, AllFollows
  <1>5. /\ Spans(Blank, AllOf(c, f)) /\ FlagsIn(c, Blank)
        /\ \A p \in FlagsOf(c) + 1 .. AllOf(c, f) : Blank[p] = 0
    BY <1>1, <1>2, BlankIs
  <1>6. SlotsAreSizes(c, Blank)
    <2>1. \A p \in SlotsPos(c) + 1 .. VarsPos(c) : p \in FlagsOf(c) + 1 .. AllOf(c, f)
      BY <1>4
    <2> QED
      BY <1>5, <2>1 DEF SlotsAreSizes
  <1>7. ASSUME NEW i \in RestOf(c), NEW k \in 1 .. DescSize(c[i])
        PROVE  Blank[FixedPos(c, i) + k] = 0
    <2>1. /\ FixedPos(c, i) \in Nat /\ DescSize(c[i]) \in Nat /\ FlagsOf(c) <= FixedPos(c, i)
          /\ FixedPos(c, i) + DescSize(c[i]) <= SlotsPos(c)
      BY <1>3, <1>7, FixedWithin
    <2>2. FixedPos(c, i) + k \in FlagsOf(c) + 1 .. AllOf(c, f)
      BY <1>4, <2>1
    <2> QED
      BY <1>5, <2>2
  <1>8. \A i : FieldToCome(c, i, Blank)
    BY <1>7 DEF FieldToCome
  <1>9. 1 .. 0 = {}
    OBVIOUS
  <1> QED
    BY <1>1, <1>2, <1>5, <1>6, <1>8, <1>9 DEF PutUpTo

LEMMA NextPut ==
  ASSUME NEW n, SchemaOK(schema, n), FieldsOK(schema, n, fields), NEW m \in 0 .. n - 1,
         NEW cells, PutUpTo(schema, n, fields, m, cells)
  PROVE  PutUpTo(schema, n, fields, m + 1, Put(cells, m + 1))
  <1>1. PICK c : c = schema
    OBVIOUS
  <1>2. PICK f : f = fields
    OBVIOUS
  <1>3. SchemaOK(c, n) /\ FieldsOK(c, n, f) /\ n \in Nat
    BY <1>1, <1>2 DEF SchemaOK
  <1>4. PICK i \in 1 .. n : i = m + 1
    BY <1>3
  <1>5. PICK new : new = Put(cells, i)
    OBVIOUS
  <1>6. PutUpTo(c, n, f, m, cells)
    BY <1>1, <1>2
  <1>7. Spans(cells, AllOf(c, f)) /\ FieldToCome(c, i, cells) /\ FlagsIn(c, cells)
    <2>1. i \in m + 1 .. n
      BY <1>3, <1>4
    <2> QED
      BY <1>6, <2>1 DEF PutUpTo
  <1>8. /\ Spans(new, AllOf(c, f)) /\ FieldIn(c, f, i, new)
        /\ \A p \in 1 .. AllOf(c, f) : ~Mine(c, f, i, p) => new[p] = cells[p]
    BY <1>1, <1>2, <1>3, <1>5, <1>7, PutWrites
  <1>9. SlotsAreSizes(c, new)
    BY <1>3, <1>6, <1>8, SlotCells DEF PutUpTo
  <1>10. FlagsIn(c, new)
    <2> SUFFICES ASSUME NEW p \in 1 .. FlagsOf(c) PROVE new[p] = {}
      BY DEF FlagsIn
    <2>1. cells[p] = {}
      BY <1>7 DEF FlagsIn
    <2>2. p \in 1 .. AllOf(c, f) /\ FlagsOf(c) \in Nat /\ AllOf(c, f) \in Nat
      <3>1. /\ FlagsOf(c) \in Nat /\ SlotsPos(c) \in Nat /\ VarsPos(c) \in Nat /\ AllOf(c, f) \in Nat
            /\ FlagsOf(c) <= SlotsPos(c) /\ SlotsPos(c) <= VarsPos(c) /\ VarsPos(c) <= AllOf(c, f)
        BY <1>3, PartsFollow, AllFollows
      <3> QED
        BY <3>1
    <2>3. ~Mine(c, f, i, p)
      <3>1. Mine(c, f, i, p) => p \in FlagsOf(c) + 1 .. AllOf(c, f)
        BY <1>3, Inside
      <3> QED
        BY <2>2, <3>1
    <2> QED
      BY <1>8, <2>1, <2>2, <2>3
  <1>11. ASSUME NEW j \in 1 .. n, j # i
         PROVE  /\ FieldIn(c, f, j, cells) => FieldIn(c, f, j, new)
                /\ FieldToCome(c, j, cells) => FieldToCome(c, j, new)
    <2>1. \A p \in 1 .. AllOf(c, f) : Mine(c, f, j, p) => new[p] = cells[p]
      BY <1>3, <1>8, <1>11, Apart
    <2> QED
      BY <1>3, <2>1, FieldStays
  <1>12. ASSUME NEW j \in 1 .. m + 1 PROVE FieldIn(c, f, j, new)
    <2>1. CASE j = i
      BY <1>8, <2>1
    <2>2. CASE j # i
      <3>1. j \in 1 .. m /\ j \in 1 .. n
        BY <1>3, <1>4, <2>2
      <3>2. FieldIn(c, f, j, cells)
        BY <1>6, <3>1 DEF PutUpTo
      <3> QED
        BY <1>11, <2>2, <3>1, <3>2
    <2> QED
      BY <2>1, <2>2
  <1>13. ASSUME NEW j \in (m + 1) + 1 .. n PROVE FieldToCome(c, j, new)
    <2>1. j \in m + 1 .. n /\ j \in 1 .. n /\ j # i
      BY <1>3, <1>4
    <2>2. FieldToCome(c, j, cells)
      BY <1>6, <2>1 DEF PutUpTo
    <2> QED
      BY <1>11, <2>1, <2>2
  <1>14. PutUpTo(c, n, f, m + 1, new)
    BY <1>8, <1>9, <1>10, <1>12, <1>13 DEF PutUpTo
  <1> QED
    BY <1>1, <1>2, <1>4, <1>5, <1>14

LEMMA AllPut ==
  ASSUME NEW n, SchemaOK(schema, n), FieldsOK(schema, n, fields)
  PROVE  PutUpTo(schema, n, fields, n, Cells)
  <1>1. n \in Nat /\ Fields = 1 .. n
    BY PartsAre
  <1>2. PICK st : Walked("put", Blank, n, st) /\ Cells = st[n]
    BY <1>1, CellsWalked
  <1> DEFINE N == {m \in Nat : m <= n => PutUpTo(schema, n, fields, m, st[m])}
  <1>3. 0 \in N
    BY <1>2, NothingPut DEF Walked
  <1>4. ASSUME NEW m \in N PROVE m + 1 \in N
    <2> SUFFICES ASSUME m + 1 <= n PROVE PutUpTo(schema, n, fields, m + 1, st[m + 1])
      OBVIOUS
    <2>1. m \in 0 .. n - 1 /\ m <= n
      BY <1>1
    <2>2. PutUpTo(schema, n, fields, m, st[m])
      BY <2>1
    <2>3. st[m + 1] = Put(st[m], m + 1)
      BY <1>2, <2>1 DEF Walked, StepOf
    <2> QED
      BY <2>1, <2>2, <2>3, NextPut
  <1>5. N \in SUBSET Nat
    OBVIOUS
  <1> HIDE DEF N
  <1>6. N = Nat
    BY <1>3, <1>4, <1>5, NatInduct
  <1>7. n \in N
    BY <1>1, <1>6
  <1> QED
    BY <1>1, <1>2, <1>7 DEF N

\* The sums over two parts, and of terms that are one more.
LEMMA SumUnion ==
  ASSUME NEW A, IsFiniteSet(A), NEW B, IsFiniteSet(B), A \cap B = {}, NEW f,
         \A x \in A \cup B : f[x] \in Nat
  PROVE  SumOf(f, A \cup B) = SumOf(f, A) + SumOf(f, B)
  <1> DEFINE P == {s \in SUBSET B : SumOf(f, A \cup s) = SumOf(f, A) + SumOf(f, s)}
  <1>1. {} \in P
    <2>1. SumOf(f, A) \in Nat /\ A \cup {} = A
      BY SumIsNat
    <2> QED
      BY <2>1, SumOfNone
  <1>2. ASSUME NEW s \in SUBSET B, s # {}, s \ {Pick(s)} \in P PROVE s \in P
    <2>1. PICK x : x = Pick(s)
      OBVIOUS
    <2>2. x \in s /\ x \in B /\ x \notin A
      BY <1>2, <2>1, PickIn
    <2>3. IsFiniteSet(s) /\ IsFiniteSet(A \cup s) /\ IsFiniteSet(s \ {x})
      BY FS_Subset, FS_Union
    <2>4. \A y \in A \cup s : f[y] \in Int
      OBVIOUS
    <2>5. SumOf(f, A \cup s) = f[x] + SumOf(f, (A \cup s) \ {x})
      BY <2>2, <2>3, <2>4, SumRemoves
    <2>6. SumOf(f, s) = f[x] + SumOf(f, s \ {x})
      BY <2>2, <2>3, <2>4, SumRemoves
    <2>7. (A \cup s) \ {x} = A \cup (s \ {x})
      BY <2>2
    <2>8. SumOf(f, A \cup (s \ {x})) = SumOf(f, A) + SumOf(f, s \ {x})
      BY <1>2, <2>1
    <2>9. SumOf(f, A) \in Nat /\ SumOf(f, s \ {x}) \in Nat /\ f[x] \in Nat
      BY <2>2, <2>3, SumIsNat
    <2>10. SumOf(f, A \cup s) = SumOf(f, A) + SumOf(f, s)
      BY <2>5, <2>6, <2>7, <2>8, <2>9
    <2> QED
      BY <2>10
  <1>3. SUBSET B \subseteq P
    <2> HIDE DEF P
    <2> QED
      BY <1>1, <1>2, SetInduct
  <1> QED
    BY <1>3

LEMMA SumOneMore ==
  ASSUME NEW S, IsFiniteSet(S), NEW f, NEW h, \A x \in S : f[x] \in Nat /\ h[x] = f[x] + 1
  PROVE  SumOf(h, S) = SumOf(f, S) + Cardinality(S)
  <1> DEFINE P == {s \in SUBSET S : SumOf(h, s) = SumOf(f, s) + Cardinality(s)}
  <1>1. {} \in P
    BY SumOfNone, FS_EmptySet
  <1>2. ASSUME NEW s \in SUBSET S, s # {}, s \ {Pick(s)} \in P PROVE s \in P
    <2>1. PICK x : x = Pick(s)
      OBVIOUS
    <2>2. x \in s
      BY <1>2, <2>1, PickIn
    <2>3. IsFiniteSet(s) /\ IsFiniteSet(s \ {x})
      BY FS_Subset
    <2>4. \A y \in s : f[y] \in Int /\ h[y] \in Int
      OBVIOUS
    <2>5. SumOf(f, s) = f[x] + SumOf(f, s \ {x})
      BY <2>2, <2>3, <2>4, SumRemoves
    <2>6. SumOf(h, s) = h[x] + SumOf(h, s \ {x})
      BY <2>2, <2>3, <2>4, SumRemoves
    <2>7. Cardinality(s \ {x}) = Cardinality(s) - 1 /\ Cardinality(s) \in Nat
      BY <2>2, <2>3, FS_RemoveElement, FS_CardinalityType
    <2>8. SumOf(h, s \ {x}) = SumOf(f, s \ {x}) + Cardinality(s \ {x})
      BY <1>2, <2>1
    <2>9. SumOf(f, s \ {x}) \in Nat /\ f[x] \in Nat /\ h[x] = f[x] + 1
      BY <2>2, <2>3, SumIsNat
    <2>10. SumOf(h, s) = SumOf(f, s) + Cardinality(s)
      BY <2>5, <2>6, <2>7, <2>8, <2>9
    <2> QED
      BY <2>10
  <1>3. SUBSET S \subseteq P
    <2> HIDE DEF P
    <2> QED
      BY <1>1, <1>2, SetInduct
  <1> QED
    BY <1>3

-----------------------------------------------------------------------------
(***************************************************************************)
(* The size of a record.                                                   *)
(***************************************************************************)
Counted(c, f) == {i \in VarsOf(c) : ~f[i].null /\ i \notin KeyOf(c)}
AllCounted(c, f) == \A i \in VarsOf(c) : ~f[i].null /\ i \notin KeyOf(c)

LEMMA RecordSizeIs ==
  ASSUME NEW n, SchemaOK(schema, n), FieldsOK(schema, n, fields)
  PROVE  /\ RecordSize \in Nat /\ SlotsPos(schema) <= RecordSize
         /\ AllCounted(schema, fields) => RecordSize = AllOf(schema, fields)
         /\ \A w : (\A i \in Counted(schema, fields) : w[i] = fields[i].real + 1) =>
              RecordSize = SlotsPos(schema) + (RoomOf(schema) - FlagsOf(schema))
                             + SumOf(w, Counted(schema, fields))
  <1>1. PICK c : c = schema
    OBVIOUS
  <1>2. PICK f : f = fields
    OBVIOUS
  <1>3. PICK T : T = Counted(c, f)
    OBVIOUS
  <1>4. SchemaOK(c, n) /\ FieldsOK(c, n, f) /\ n \in Nat
    BY <1>1, <1>2 DEF SchemaOK
  <1>5. IsFiniteSet(VarsOf(c)) /\ T \in SUBSET VarsOf(c) /\ IsFiniteSet(T)
    BY <1>3, <1>4, SetsOf, BeforeAll, FS_Subset DEF Counted
  <1>6. {i \in Vars : ~fields[i].null /\ i \notin Key} = T
    BY <1>1, <1>2, <1>3, <1>4, PartsAre DEF Counted
  <1>0. PICK q \in Nat : q = RoomOf(c) - FlagsOf(c)
    BY <1>4, FlagsAre
  <1>7. FlagsRoom + FixedSize = SlotsPos(c) + q
    BY <1>0, <1>1, <1>4, PartsAre, FlagsAre, FixedSizeIs DEF SlotsAt
  <1>8. RecordSize = SlotsPos(c) + q + MapThenSumSet(LAMBDA i : fields[i].real + 1, T)
    BY <1>6, <1>7 DEF RecordSize
  <1>9. ASSUME NEW w, \A i \in T : w[i] = fields[i].real + 1
        PROVE  RecordSize = SlotsPos(c) + q + SumOf(w, T)
    BY <1>5, <1>8, <1>9, SumOfCounted
  <1> DEFINE h == [i \in T |-> f[i].real + 1]
  <1>10. \A i \in T : h[i] = fields[i].real + 1
    BY <1>2
  <1>11. \A i \in T : RealsOf(f)[i] \in Nat /\ h[i] = RealsOf(f)[i] + 1
    BY <1>4, <1>5, SetsOf, RealsAre
  <1> HIDE DEF h
  <1>12. RecordSize = SlotsPos(c) + q + SumOf(h, T)
    BY <1>9, <1>10
  <1>13. \A i \in T : h[i] \in Nat
    BY <1>11
  <1>14. SumOf(h, T) \in Nat /\ SlotsPos(c) \in Nat
    BY <1>4, <1>5, <1>13, SumIsNat, PartsFollow
  <1>15. RecordSize \in Nat /\ SlotsPos(c) <= RecordSize
    BY <1>12, <1>14
  <1>16. ASSUME AllCounted(c, f) PROVE RecordSize = AllOf(c, f)
    <2>1. T = VarsOf(c)
      BY <1>3, <1>16 DEF AllCounted, Counted
    <2>2. SumOf(h, T) = SumOf(RealsOf(f), T) + Cardinality(T)
      BY <1>5, <1>11, SumOneMore
    <2>3. SumOf(RealsOf(f), T) \in Nat /\ Cardinality(T) \in Nat
      BY <1>5, <1>11, SumIsNat, FS_CardinalityType
    <2>4. AllOf(c, f) = (SlotsPos(c) + Cardinality(T)) + SumOf(RealsOf(f), T) + q
      BY <1>0, <2>1 DEF AllOf, VarsPos
    <2> QED
      BY <1>12, <1>14, <2>2, <2>3, <2>4
  <1> QED
    BY <1>0, <1>1, <1>2, <1>3, <1>9, <1>15, <1>16

LEMMA FormatLength ==
  ASSUME NEW n, SchemaOK(schema, n), FieldsOK(schema, n, fields)
  PROVE  /\ Format = [k \in 1 .. RecordSize |-> Cells[k]]
         /\ Len(Format) = RecordSize /\ DOMAIN Format = 1 .. RecordSize
  <1>1. PICK r \in Nat, o \in Nat : r = RecordSize /\ o = 0
    BY RecordSizeIs
  <1>2. SubSeq(Cells, o + 1, o + r) = [k \in 1 .. r |-> Cells[o + k]]
    BY SubSeqIs
  <1>3. o + 1 = 1 /\ o + r = r /\ \A k \in 1 .. r : o + k = k
    BY <1>1
  <1>4. Format = [k \in 1 .. r |-> Cells[k]]
    BY <1>1, <1>2, <1>3, FormatIs
  <1>5. PICK s : s = Format
    OBVIOUS
  <1>6. s = [k \in 1 .. r |-> s[k]]
    BY <1>4, <1>5
  <1>7. Len(s) = r /\ DOMAIN s = 1 .. r
    BY <1>6, LenIs
  <1> QED
    BY <1>1, <1>4, <1>5, <1>7

\* size() leaves the same out, of a row whose nulls are variable strings outside the key.
LEMMA SizeIs ==
  ASSUME NEW n, SchemaOK(schema, n), FieldsOK(schema, n, fields),
         Vars \cap Key = {}, \A i \in Fields : fields[i].null => i \in Vars \cap Nullable
  PROVE  Size = RecordSize
  <1>1. PICK c : c = schema
    OBVIOUS
  <1>2. PICK f : f = fields
    OBVIOUS
  <1>3. PICK T : T = Counted(c, f)
    OBVIOUS
  <1>4. SchemaOK(c, n) /\ FieldsOK(c, n, f) /\ n \in Nat
    BY <1>1, <1>2 DEF SchemaOK
  <1>5. PICK R : R = RestOf(c)
    OBVIOUS
  <1>6. /\ IsFiniteSet(VarsOf(c)) /\ T \in SUBSET VarsOf(c) /\ IsFiniteSet(T) /\ IsFiniteSet(R)
        /\ R \cap T = {} /\ (\A x \in R : x \in 1 .. n) /\ \A x \in T : x \in 1 .. n
    <2>1. /\ T \in SUBSET VarsOf(c) /\ R \cap T = {}
      BY <1>3, <1>5 DEF Counted, RestOf
    <2>2. (\A x \in R : x \in 1 .. n) /\ \A x \in VarsOf(c) : x \in 1 .. n
      BY <1>4, <1>5, SetsOf
    <2>3. IsFiniteSet(VarsOf(c)) /\ IsFiniteSet(R)
      BY <1>4, <2>2, BeforeAll
    <2> QED
      BY <2>1, <2>2, <2>3, FS_Subset
  <1>7. /\ Fields = 1 .. n /\ Vars = VarsOf(c) /\ Nullable = NullsOf(c) /\ Key = KeyOf(c)
        /\ FlagsRoom = RoomOf(c) /\ \A i \in 1 .. n : MaxSize(i) = DescSize(c[i])
    BY <1>1, <1>4, PartsAre
  <1>8. {i \in Fields : ~(schema[i].nullable /\ fields[i].null)} = R \cup T
    <2>1. ASSUME NEW i \in 1 .. n
          PROVE  ~(schema[i].nullable /\ fields[i].null) <=> i \in R \cup T
      <3>1. CASE i \in VarsOf(c)
        <4>1. i \notin R /\ i \notin KeyOf(c)
          BY <1>5, <1>7, <3>1 DEF RestOf
        <4>2. i \in T <=> ~f[i].null
          BY <1>3, <3>1, <4>1 DEF Counted
        <4>3. fields[i].null => schema[i].nullable
          BY <1>7 DEF Nullable
        <4> QED
          BY <1>2, <4>1, <4>2, <4>3
      <3>2. CASE i \notin VarsOf(c)
        <4>1. i \in R
          BY <1>4, <1>5, <3>2, SetsOf
        <4>2. ~fields[i].null
          BY <1>7, <3>2
        <4> QED
          BY <4>1, <4>2
      <3> QED
        BY <3>1, <3>2
    <2> QED
      BY <1>6, <1>7, <2>1
  <1> DEFINE w == [i \in 1 .. n |-> SizeTerm(i)]
  <1>9. \A i \in R \cup T : w[i] = SizeTerm(i)
    BY <1>6
  <1>10. \A i \in T : w[i] = fields[i].real + 1
    BY <1>6, <1>7 DEF SizeTerm
  <1>11. \A i \in R : w[i] = SizesOf(c)[i]
    <2>1. \A i \in R : i \notin Vars /\ SizesOf(c)[i] = DescSize(c[i])
      BY <1>4, <1>5, <1>6, <1>7, SetsOf DEF RestOf
    <2> QED
      BY <1>6, <1>7, <2>1 DEF SizeTerm
  <1>12. \A i \in R \cup T : w[i] \in Nat
    <2>1. \A i \in R : SizesOf(c)[i] \in Nat
      BY <1>4, <1>6, SetsOf
    <2>2. \A i \in T : fields[i].real \in Nat
      BY <1>2, <1>4, <1>6, RealsAre
    <2> HIDE DEF w
    <2> QED
      BY <1>10, <1>11, <2>1, <2>2
  <1> HIDE DEF w
  <1>13. IsFiniteSet(R \cup T)
    BY <1>6, FS_Union
  <1>14. PICK all : all = R \cup T
    OBVIOUS
  <1>15. MapThenSumSet(LAMBDA i : IF i \in Vars THEN fields[i].real + 1 ELSE MaxSize(i), all)
           = SumOf(w, all)
    BY <1>9, <1>13, <1>14, SumOfSizes
  <1>16. Size = RoomOf(c) + SumOf(w, R \cup T)
    BY <1>7, <1>8, <1>14, <1>15 DEF Size
  <1>17. SumOf(w, R \cup T) = SumOf(w, R) + SumOf(w, T)
    BY <1>6, <1>12, SumUnion
  <1>18. SumOf(w, R) = SumOf(SizesOf(c), R)
    BY <1>6, <1>11, SumSame
  <1>19. RecordSize = SlotsPos(c) + (RoomOf(c) - FlagsOf(c)) + SumOf(w, T)
    BY <1>1, <1>2, <1>3, <1>4, <1>10, RecordSizeIs
  <1>20. SlotsPos(c) = FlagsOf(c) + SumOf(SizesOf(c), R)
    BY <1>5 DEF SlotsPos
  <1>21. SumOf(w, R) \in Nat /\ SumOf(w, T) \in Nat /\ FlagsOf(c) \in Nat
         /\ RoomOf(c) \in Nat
    BY <1>4, <1>6, <1>12, SumIsNat, FlagsAre
  <1> QED
    BY <1>16, <1>17, <1>18, <1>19, <1>20, <1>21

-----------------------------------------------------------------------------
(***************************************************************************)
(* The values of the fields.                                               *)
(***************************************************************************)
CellsOf(v) == [k \in 1 .. v.real |-> v.data[k]]
ValueOf(d, v) == IF d.type = "number" THEN CellsOf(v) ELSE String(CellsOf(v))
HeldOf(d, v) == [null |-> v.null, value |-> ValueOf(d, v)]

LEMMA HeldIs ==
  ASSUME NEW i, FieldOK(schema[i], fields[i])
  PROVE  Held(i) = HeldOf(schema[i], fields[i]) /\ Value(i) = ValueOf(schema[i], fields[i])
  <1>1. Copied(i) = CellsOf(fields[i])
    BY CopiedIs DEF FieldOK, CellsOf
  <1>2. Value(i) = ValueOf(schema[i], fields[i])
    BY <1>1 DEF Value, ValueOf
  <1> QED
    BY <1>2 DEF Held, HeldOf

LEMMA FirstZero ==
  ASSUME NEW Z \in SUBSET Nat, NEW z \in Z, \A y \in Z : z <= y
  PROVE  Min(Z) = z
  <1>1. Min(Z) \in Z /\ \A y \in Z : Min(Z) <= y
    BY DEF Min
  <1>2. Min(Z) \in Nat /\ z \in Nat /\ Min(Z) <= z /\ z <= Min(Z)
    BY <1>1
  <1> QED
    BY <1>2

\* Zeros behind a string are not part of it.
IsPadded(b, d, r, s) == b = [k \in 1 .. s |-> IF k <= r THEN d[k] ELSE 0]

LEMMA ZerosBehind ==
  ASSUME NEW d, NEW r \in Nat, NEW s \in Nat, r <= s,
         NEW a, IsPadded(a, d, r, r), NEW b, IsPadded(b, d, r, s)
  PROVE  String(a) = String(b)
  <1>0. a = [k \in 1 .. r |-> d[k]] /\ b = [k \in 1 .. s |-> IF k <= r THEN d[k] ELSE 0]
    BY DEF IsPadded
  <1> DEFINE A == {k \in DOMAIN a : a[k] = 0}
             B == {k \in DOMAIN b : b[k] = 0}
  <1>1. \A k \in 1 .. r : k \in 1 .. s /\ a[k] = d[k] /\ b[k] = d[k]
    BY <1>0
  <1>2. \A k \in 1 .. s : k \notin 1 .. r => b[k] = 0 /\ r < k
    BY <1>0
  <1>3. CASE \E k \in DOMAIN a : a[k] = 0
    <2>0. DOMAIN a = 1 .. r
      BY <1>0
    <2>1. A \in SUBSET Nat /\ A # {}
      <3>1. PICK k \in DOMAIN a : a[k] = 0
        BY <1>3
      <3>2. k \in A
        BY <3>1
      <3>3. \A x \in A : x \in Nat
        BY <2>0
      <3> QED
        BY <3>2, <3>3
    <2>2. PICK m \in A : \A y \in A : m <= y
      BY <2>1, NatMin
    <2>3. m \in B /\ B \in SUBSET Nat /\ m \in Nat /\ m \in 1 .. r
      BY <1>0, <1>1
    <2>4. \A y \in B : m <= y
      <3> TAKE y \in B
      <3>0. y \in 1 .. s
        BY <1>0
      <3>1. CASE y \in 1 .. r
        BY <1>0, <1>1, <2>2, <3>1
      <3>2. CASE y \notin 1 .. r
        BY <1>2, <2>3, <3>0, <3>2
      <3> QED
        BY <3>1, <3>2
    <2>5. Min(A) = m
      <3> HIDE DEF A
      <3> QED
        BY <2>1, <2>2, FirstZero
    <2>6. Min(B) = m
      <3> HIDE DEF B
      <3> QED
        BY <2>3, <2>4, FirstZero
    <2>7. PICK l \in Nat, o \in Nat : l = m - 1 /\ o = 0
      BY <2>3
    <2>8. SubSeq(a, o + 1, o + l) = [k \in 1 .. l |-> a[o + k]]
      BY SubSeqIs
    <2>9. SubSeq(b, o + 1, o + l) = [k \in 1 .. l |-> b[o + k]]
      BY SubSeqIs
    <2>10. \A k \in 1 .. l : o + k = k /\ a[k] = b[k]
      BY <1>1, <2>3, <2>7
    <2>11. SubSeq(a, o + 1, o + l) = SubSeq(b, o + 1, o + l)
      <3>1. \A k \in 1 .. l : a[o + k] = b[o + k]
        BY <2>10
      <3> QED
        BY ONLY <2>8, <2>9, <3>1
    <2>12. o + 1 = 1 /\ o + l = m - 1
      BY <2>3, <2>7
    <2>13. SubSeq(a, 1, m - 1) = SubSeq(b, 1, m - 1)
      BY <2>11, <2>12
    <2>14. \E k \in DOMAIN b : b[k] = 0
      BY <2>3
    <2>15. String(a) = SubSeq(a, 1, m - 1)
      BY <1>3, <2>5 DEF String
    <2>16. String(b) = SubSeq(b, 1, m - 1)
      BY <2>14, <2>6 DEF String
    <2> QED
      BY <2>13, <2>15, <2>16
  <1>4. CASE ~\E k \in DOMAIN a : a[k] = 0
    <2>1. String(a) = a
      BY <1>4 DEF String
    <2>2. CASE r = s
      <3>1. a = b
        BY <1>0, <2>2
      <3> QED
        BY <3>1
    <2>3. CASE r # s
      <3>1. r + 1 \in 1 .. s /\ r + 1 \notin 1 .. r
        BY <2>3
      <3>2. r + 1 \in B /\ B \in SUBSET Nat
        BY <1>0, <1>2, <3>1
      <3>3. \A y \in B : r + 1 <= y
        <4> TAKE y \in B
        <4>1. y \notin 1 .. r /\ y \in 1 .. s
          BY <1>0, <1>1, <1>4
        <4> QED
          BY <1>2, <4>1
      <3>4. Min(B) = r + 1
        <4> HIDE DEF B
        <4> QED
          BY <3>2, <3>3, FirstZero
      <3>5. PICK o \in Nat : o = 0
        OBVIOUS
      <3>6. SubSeq(b, o + 1, o + r) = [k \in 1 .. r |-> b[o + k]]
        BY SubSeqIs
      <3>7. o + 1 = 1 /\ o + r = (r + 1) - 1 /\ \A k \in 1 .. r : o + k = k
        BY <3>5
      <3>8. SubSeq(b, 1, (r + 1) - 1) = [k \in 1 .. r |-> b[k]]
        BY <3>6, <3>7
      <3>9. [k \in 1 .. r |-> b[k]] = a
        BY <1>0, <1>1
      <3>10. String(b) = SubSeq(b, 1, (r + 1) - 1)
        <4>1. \E k \in DOMAIN b : b[k] = 0
          BY <3>2
        <4> QED
          BY <3>4, <4>1 DEF String
      <3> QED
        BY <2>1, <3>8, <3>9, <3>10
    <2> QED
      BY <2>2, <2>3
  <1> QED
    BY <1>3, <1>4

-----------------------------------------------------------------------------
\* A value that is set has as many of its cells as the field may have.
HasCells(v, l, cells) == CellsOf(v) = [k \in 1 .. l |-> cells[k]]

LEMMA SetCellsIs ==
  ASSUME NEW i, FieldOK(schema[i], fields[i]), DescSize(schema[i]) \in Nat,
         schema[i].type = "number" => DescSize(schema[i]) = 1,
         NEW l \in Nat, NEW cells, Spans(cells, l),
         schema[i].type = "number" => l >= 1
  PROVE  /\ FieldOK(schema[i], SetCells(i, cells)) /\ SetCells(i, cells).null = FALSE
         /\ SetCells(i, cells).real = Least(l, DescSize(schema[i]))
         /\ HasCells(SetCells(i, cells), Least(l, DescSize(schema[i])), cells)
  <1>1. PICK d : d = schema[i]
    OBVIOUS
  <1>2. PICK v : v = fields[i]
    OBVIOUS
  <1>3. Len(cells) = l
    BY LenIs DEF Spans
  <1>4. PICK r \in Nat : r = Least(l, DescSize(d)) /\ r <= l /\ r <= DescSize(d)
                          /\ (d.type = "number" => r = 1)
    BY <1>1 DEF Least
  <1>5. PICK room : room = IF d.type = "varchar" /\ Len(v.data) < r THEN Zeros(r) ELSE v.data
    OBVIOUS
  <1>6. PICK b \in Nat : b = Len(room) /\ Spans(room, b) /\ r <= b
                          /\ (d.type # "varchar" => b = DescSize(d))
    <2>1. CASE d.type = "varchar" /\ Len(v.data) < r
      <3>1. room = Zeros(r)
        BY <1>5, <2>1
      <3>2. Spans(room, r)
        BY <3>1 DEF Spans, Zeros
      <3>3. Len(room) = r
        BY <3>2, LenIs DEF Spans
      <3> QED
        BY <2>1, <3>2, <3>3
    <2>2. CASE ~(d.type = "varchar" /\ Len(v.data) < r)
      <3>1. room = v.data
        BY <1>5, <2>2
      <3>2. /\ Len(v.data) \in Nat /\ Spans(v.data, Len(v.data))
            /\ d.type # "varchar" => Len(v.data) = DescSize(d)
        BY <1>1, <1>2 DEF FieldOK, IsBuffer, Spans
      <3>3. r <= Len(v.data)
        BY <1>4, <2>2, <3>2
      <3> QED
        BY <3>1, <3>2, <3>3
    <2> QED
      BY <2>1, <2>2
  <1>7. PICK o \in Nat : o = 0
    OBVIOUS
  <1>8. PICK new : new = SubSeq(cells, 1, r)
    OBVIOUS
  <1>9. new = [k \in 1 .. r |-> cells[k]]
    <2>1. SubSeq(cells, o + 1, o + r) = [k \in 1 .. r |-> cells[o + k]]
      BY SubSeqIs
    <2>2. o + 1 = 1 /\ o + r = r /\ \A k \in 1 .. r : o + k = k
      BY <1>7
    <2> QED
      BY <1>8, <2>1, <2>2
  <1>10. PICK data : data = Write(room, o, new)
    OBVIOUS
  <1>11. DOMAIN new = 1 .. r
    BY <1>9
  <1>12. /\ Spans(data, b)
         /\ \A p \in 1 .. b : p \in o + 1 .. o + r => data[p] = new[p - o]
    BY <1>6, <1>10, <1>11, WriteIs
  <1>13. ASSUME NEW k \in 1 .. r PROVE data[k] = cells[k]
    <2>1. k \in 1 .. b /\ k \in o + 1 .. o + r /\ k - o = k
      BY <1>6, <1>7
    <2> QED
      BY <1>9, <1>12, <2>1
  <1>14. Len(data) = b
    BY <1>12, LenIs DEF Spans
  <1>15. SetCells(i, cells) = [null |-> FALSE, real |-> r, data |-> data]
    BY <1>1, <1>2, <1>3, <1>4, <1>5, <1>7, <1>8, <1>10 DEF SetCells, MaxSize
  <1>16. PICK x : x = SetCells(i, cells)
    OBVIOUS
  <1>17. x.null = FALSE /\ x.real = r /\ x.data = data
    BY <1>15, <1>16
  <1>18. x = [null |-> x.null, data |-> x.data, real |-> x.real]
    BY <1>15, <1>16
  <1>19. IsBuffer(x.data)
    BY <1>12, <1>14, <1>17 DEF IsBuffer, Spans
  <1>20. FieldOK(d, x)
    BY <1>4, <1>6, <1>14, <1>17, <1>18, <1>19 DEF FieldOK
  <1>21. HasCells(x, r, cells)
    BY <1>13, <1>17 DEF CellsOf, HasCells
  <1> QED
    BY <1>1, <1>4, <1>16, <1>17, <1>20, <1>21

\* What is read of a value with zeros behind it.
LEMMA ReadsBack ==
  ASSUME NEW d, NEW v, FieldOK(d, v), NEW x,
         NEW s \in Nat, v.real <= s, d.type = "number" => s = 1,
         IsPadded(CellsOf(x), v.data, v.real, s)
  PROVE  ValueOf(d, x) = ValueOf(d, v)
  <1>1. PICK r \in Nat : r = v.real /\ r <= s /\ (d.type = "number" => r = 1)
    BY DEF FieldOK
  <1>0. PICK data : data = v.data
    OBVIOUS
  <1>2. PICK a : a = [k \in 1 .. r |-> data[k]]
    OBVIOUS
  <1>3. PICK b : b = [k \in 1 .. s |-> IF k <= r THEN data[k] ELSE 0]
    OBVIOUS
  <1>4. a = CellsOf(v) /\ b = CellsOf(x)
    BY <1>0, <1>1, <1>2, <1>3 DEF CellsOf, IsPadded
  <1>5. String(a) = String(b)
    <2>1. IsPadded(a, data, r, r)
      BY <1>2 DEF IsPadded
    <2>2. IsPadded(b, data, r, s)
      BY <1>3 DEF IsPadded
    <2> QED
      BY <1>1, <2>1, <2>2, ZerosBehind
  <1>6. d.type = "number" => a = b
    BY <1>1, <1>2, <1>3
  <1> QED
    BY <1>4, <1>5, <1>6 DEF ValueOf

-----------------------------------------------------------------------------
(***************************************************************************)
(* A record of the fields f, and what is read of it.                       *)
(***************************************************************************)
WrittenOf(c, n, f) == [i \in 1 .. n |-> HeldOf(c[i], f[i])]
NullsAllowed(c, n, f) == \A i \in 1 .. n : f[i].null => c[i].nullable

RowStored(c, n, f, d) ==
  /\ FieldsOK(c, n, f) /\ NullsAllowed(c, n, f)
  /\ FlagsIn(c, d)
  /\ \A p \in SlotsPos(c) + 1 .. VarsPos(c) : p \in DOMAIN d => d[p] \in Nat
  /\ \A p \in 1 .. SlotsPos(c) : p \in DOMAIN d
  /\ \A i \in RestOf(c) : FixedIn(c, f[i], i, d)
  /\ AllCounted(c, f) =>
       /\ \A p \in 1 .. AllOf(c, f) : p \in DOMAIN d
       /\ \A i \in VarsOf(c) : SlotIn(c, f[i], i, d) /\ VarIn(c, f, i, d)

\* The record is what was put, up to its size.
LEMMA CutOff ==
  ASSUME NEW c, NEW n, SchemaOK(c, n), NEW f, FieldsOK(c, n, f), NullsAllowed(c, n, f),
         NEW cells, PutUpTo(c, n, f, n, cells),
         NEW r \in Nat, SlotsPos(c) <= r, AllCounted(c, f) => r = AllOf(c, f),
         NEW d, d = [k \in 1 .. r |-> cells[k]]
  PROVE  RowStored(c, n, f, d)
  <1>1. /\ FlagsOf(c) \in Nat /\ SlotsPos(c) \in Nat /\ VarsPos(c) \in Nat /\ AllOf(c, f) \in Nat
        /\ FlagsOf(c) <= SlotsPos(c) /\ SlotsPos(c) <= VarsPos(c) /\ VarsPos(c) <= AllOf(c, f)
    BY PartsFollow, AllFollows
  <1>2. DOMAIN d = 1 .. r /\ \A p \in 1 .. r : d[p] = cells[p]
    OBVIOUS
  <1>3. FlagsIn(c, d)
    <2>1. \A p \in 1 .. FlagsOf(c) : p \in 1 .. r
      BY <1>1
    <2> QED
      BY <1>2, <2>1 DEF PutUpTo, FlagsIn
  <1>4. \A p \in SlotsPos(c) + 1 .. VarsPos(c) : p \in DOMAIN d => d[p] \in Nat
    BY <1>2 DEF PutUpTo, SlotsAreSizes
  <1>5. \A p \in 1 .. SlotsPos(c) : p \in DOMAIN d
    BY <1>1, <1>2
  <1>6. \A i \in 1 .. n : FieldIn(c, f, i, cells)
    BY DEF PutUpTo
  <1>7. ASSUME NEW i \in RestOf(c) PROVE FixedIn(c, f[i], i, d)
    <2>1. FixedIn(c, f[i], i, cells)
      BY <1>6, SetsOf DEF FieldIn
    <2>2. /\ FixedPos(c, i) \in Nat /\ DescSize(c[i]) \in Nat
          /\ FixedPos(c, i) + DescSize(c[i]) <= SlotsPos(c)
      BY FixedWithin
    <2>3. \A k \in 1 .. DescSize(c[i]) : FixedPos(c, i) + k \in 1 .. r
      BY <1>1, <2>2
    <2> QED
      BY <1>2, <2>1, <2>3 DEF FixedIn
  <1>8. ASSUME AllCounted(c, f), NEW i \in VarsOf(c)
        PROVE  SlotIn(c, f[i], i, d) /\ VarIn(c, f, i, d)
    <2>1. SlotIn(c, f[i], i, cells) /\ VarIn(c, f, i, cells)
      BY <1>6, SetsOf DEF FieldIn
    <2>2. r = AllOf(c, f)
      BY <1>8
    <2>3. SlotPos(c, i) + 1 \in 1 .. r
      BY <1>1, <2>2, SlotWithin
    <2>4. \A k \in 1 .. f[i].real : VarPos(c, f, i) + k \in 1 .. r
      <3>1. /\ VarPos(c, f, i) \in Nat /\ f[i].real \in Nat
            /\ VarPos(c, f, i) + f[i].real <= AllOf(c, f)
        BY VarWithin
      <3> QED
        BY <2>2, <3>1
    <2> QED
      BY <1>2, <2>1, <2>3, <2>4 DEF SlotIn, VarIn
  <1>9. AllCounted(c, f) => \A p \in 1 .. AllOf(c, f) : p \in DOMAIN d
    BY <1>2
  <1> QED
    BY <1>3, <1>4, <1>5, <1>7, <1>8, <1>9 DEF RowStored

LEMMA FormatStores ==
  ASSUME NEW n, SchemaOK(schema, n), FieldsOK(schema, n, fields), NullsAllowed(schema, n, fields)
  PROVE  RowStored(schema, n, fields, Format)
  <1>1. PutUpTo(schema, n, fields, n, Cells)
    BY AllPut
  <1>2. PICK r \in Nat : /\ r = RecordSize /\ SlotsPos(schema) <= r
                         /\ AllCounted(schema, fields) => r = AllOf(schema, fields)
    BY RecordSizeIs
  <1>3. PICK d : d = Format
    OBVIOUS
  <1>4. d = [k \in 1 .. r |-> Cells[k]]
    BY <1>2, <1>3, FormatLength
  <1>5. RowStored(schema, n, fields, d)
    BY <1>1, <1>2, <1>4, CutOff
  <1> QED
    BY <1>3, <1>5

-----------------------------------------------------------------------------
\* No field is read back as a null.
LEMMA NoFlag ==
  ASSUME NEW c, NEW n, SchemaOK(c, n), NEW f, NEW d, RowStored(c, n, f, d),
         NEW i \in 1 .. n, c[i].nullable
  PROVE  ~IsFlag(d, Cardinality(Before(i, NullsOf(c))))
  <1>1. i \in NullsOf(c)
    BY DEF NullsOf, SchemaOK
  <1>2. ByteOf(Cardinality(Before(i, NullsOf(c)))) \in 1 .. FlagsOf(c)
    BY <1>1, FlagsAre
  <1>3. d[ByteOf(Cardinality(Before(i, NullsOf(c))))] = {}
    BY <1>2 DEF RowStored, FlagsIn
  <1> QED
    BY <1>3 DEF IsFlag

\* How the offsets of the layout go on from a field to the next.
LEMMA OffsetsStart ==
  ASSUME NEW c, NEW n, SchemaOK(c, n), NEW f, FieldsOK(c, n, f)
  PROVE  /\ FixedPos(c, 1) = FlagsOf(c) /\ SlotPos(c, 1) = SlotsPos(c) /\ VarPos(c, f, 1) = VarsPos(c)
         /\ Cardinality(Before(1, NullsOf(c))) = 0
  <1>1. \A S : (\A x \in S : x \in 1 .. n) => Before(1, S) = {}
    BY DEF Before, SchemaOK
  <1>2. Before(1, RestOf(c)) = {} /\ Before(1, VarsOf(c)) = {} /\ Before(1, NullsOf(c)) = {}
    BY <1>1, SetsOf
  <1>3. FlagsOf(c) \in Nat /\ SlotsPos(c) \in Nat /\ VarsPos(c) \in Nat
    BY PartsFollow
  <1> QED
    BY <1>2, <1>3, SumOfNone, FS_EmptySet DEF FixedPos, SlotPos, VarPos

LEMMA OffsetsGoOn ==
  ASSUME NEW c, NEW n, SchemaOK(c, n), NEW f, FieldsOK(c, n, f), NEW i \in 1 .. n
  PROVE  /\ FixedPos(c, i) \in Nat /\ SlotPos(c, i) \in Nat /\ VarPos(c, f, i) \in Nat
         /\ FixedPos(c, i + 1) = IF i \in VarsOf(c) THEN FixedPos(c, i) ELSE FixedPos(c, i) + DescSize(c[i])
         /\ SlotPos(c, i + 1) = IF i \in VarsOf(c) THEN SlotPos(c, i) + 1 ELSE SlotPos(c, i)
         /\ VarPos(c, f, i + 1) = IF i \in VarsOf(c) THEN VarPos(c, f, i) + f[i].real ELSE VarPos(c, f, i)
         /\ Cardinality(Before(i, NullsOf(c))) \in Nat
         /\ Cardinality(Before(i + 1, NullsOf(c)))
              = IF c[i].nullable THEN Cardinality(Before(i, NullsOf(c))) + 1
                ELSE Cardinality(Before(i, NullsOf(c)))
  <1>1. n \in Nat /\ FlagsOf(c) \in Nat /\ SlotsPos(c) \in Nat /\ VarsPos(c) \in Nat
    BY PartsFollow DEF SchemaOK
  <1>2. PICK V : V = VarsOf(c)
    OBVIOUS
  <1>3. PICK R : R = RestOf(c)
    OBVIOUS
  <1>4. PICK U : U = NullsOf(c)
    OBVIOUS
  <1>5. PICK w : w = SizesOf(c)
    OBVIOUS
  <1>6. PICK h : h = RealsOf(f)
    OBVIOUS
  <1>7. /\ \A x \in V : x \in 1 .. n
        /\ \A x \in R : x \in 1 .. n
        /\ \A x \in U : x \in 1 .. n
        /\ \A x \in R : w[x] \in Nat /\ w[x] = DescSize(c[x])
        /\ \A x \in V : h[x] \in Nat /\ h[x] = f[x].real
    BY <1>2, <1>3, <1>4, <1>5, <1>6, SetsOf, RealsAre
  <1>8. i \in R <=> i \notin V
    BY <1>2, <1>3, SetsOf DEF RestOf
  <1>9. /\ SumOf(w, Before(i, R)) \in Nat
        /\ SumOf(w, Before(i + 1, R)) = SumOf(w, Before(i, R)) + (IF i \in R THEN w[i] ELSE 0)
    BY <1>1, <1>7, SumBefore
  <1>10. /\ SumOf(h, Before(i, V)) \in Nat
         /\ SumOf(h, Before(i + 1, V)) = SumOf(h, Before(i, V)) + (IF i \in V THEN h[i] ELSE 0)
    BY <1>1, <1>7, SumBefore
  <1>11. /\ Cardinality(Before(i, V)) \in Nat
         /\ Cardinality(Before(i + 1, V)) = Cardinality(Before(i, V)) + (IF i \in V THEN 1 ELSE 0)
    <2>1. n \in Nat /\ \A x \in V : x \in 1 .. n
      BY <1>1, <1>7
    <2>2. /\ Cardinality(Before(i, V)) \in Nat
          /\ Cardinality(Before(i + 1, V)) = Cardinality(Before(i, V)) + (IF i \in V THEN 1 ELSE 0)
          /\ Cardinality(Before(1, V)) = 0
      BY ONLY <2>1, i \in 1 .. n, CountBefore
    <2> QED
      BY <2>2
  <1>12. /\ Cardinality(Before(i, U)) \in Nat
         /\ Cardinality(Before(i + 1, U)) = Cardinality(Before(i, U)) + (IF i \in U THEN 1 ELSE 0)
    <2>1. n \in Nat /\ \A x \in U : x \in 1 .. n
      BY <1>1, <1>7
    <2>2. /\ Cardinality(Before(i, U)) \in Nat
          /\ Cardinality(Before(i + 1, U)) = Cardinality(Before(i, U)) + (IF i \in U THEN 1 ELSE 0)
          /\ Cardinality(Before(1, U)) = 0
      BY ONLY <2>1, i \in 1 .. n, CountBefore
    <2> QED
      BY <2>2
  <1>13. i \in U <=> c[i].nullable
    BY <1>4 DEF NullsOf, SchemaOK
  <1>14. /\ FixedPos(c, i) = FlagsOf(c) + SumOf(w, Before(i, R))
         /\ FixedPos(c, i + 1) = FlagsOf(c) + SumOf(w, Before(i + 1, R))
         /\ SlotPos(c, i) = SlotsPos(c) + Cardinality(Before(i, V))
         /\ SlotPos(c, i + 1) = SlotsPos(c) + Cardinality(Before(i + 1, V))
         /\ VarPos(c, f, i) = VarsPos(c) + SumOf(h, Before(i, V))
         /\ VarPos(c, f, i + 1) = VarsPos(c) + SumOf(h, Before(i + 1, V))
    BY <1>2, <1>3, <1>5, <1>6 DEF FixedPos, SlotPos, VarPos
  <1>15. CASE i \in V
    <2>1. h[i] \in Nat /\ h[i] = f[i].real /\ i \notin R
      BY <1>7, <1>8, <1>15
    <2> QED
      BY <1>1, <1>2, <1>4, <1>9, <1>10, <1>11, <1>12, <1>13, <1>14, <1>15, <2>1
  <1>16. CASE i \notin V
    <2>1. w[i] \in Nat /\ w[i] = DescSize(c[i]) /\ i \in R
      BY <1>7, <1>8, <1>16
    <2> QED
      BY <1>1, <1>2, <1>4, <1>9, <1>10, <1>11, <1>12, <1>13, <1>14, <1>16, <2>1
  <1> QED
    BY <1>15, <1>16

-----------------------------------------------------------------------------
(***************************************************************************)
(* load(): before the i-th field.                                          *)
(***************************************************************************)
\* None of the fields before i is in the key.
ClearBefore(c, i) == \A j \in 1 .. i - 1 : j \notin KeyOf(c)
\* The field i is read where it was written.
Readable(c, f, i) ==
  i \notin KeyOf(c) /\ ClearBefore(c, i) /\ (i \in VarsOf(c) => AllCounted(c, f))

OffsetsAt(c, f, i, x) ==
  /\ x.slot \in Nat /\ SlotsPos(c) <= x.slot /\ x.slot <= SlotPos(c, i)
  /\ x.flag = Cardinality(Before(i, NullsOf(c)))
  /\ ClearBefore(c, i) =>
       /\ x.fixed = FixedPos(c, i) /\ x.slot = SlotPos(c, i)
       /\ AllCounted(c, f) => x.var = VarPos(c, f, i)
FieldsAt(c, n, f, start, i, fs) ==
  /\ FieldsOK(c, n, fs)
  /\ \A j \in 1 .. n : j \in KeyOf(c) \/ i <= j => fs[j] = start[j]
  /\ \A j \in 1 .. i - 1 : j \notin KeyOf(c) => fs[j].null = FALSE
  /\ \A j \in 1 .. i - 1 : Readable(c, f, j) => ValueOf(c[j], fs[j]) = ValueOf(c[j], f[j])
LoadedTo(c, n, f, start, i, x) ==
  /\ x = [fields |-> x.fields, flag |-> x.flag, fixed |-> x.fixed, slot |-> x.slot, var |-> x.var]
  /\ OffsetsAt(c, f, i, x) /\ FieldsAt(c, n, f, start, i, x.fields)

\* One field replaced.
LEMMA FieldReplaced ==
  ASSUME NEW c, NEW n, SchemaOK(c, n), NEW f, NEW start, NEW i \in 1 .. n, NEW fs,
         FieldsAt(c, n, f, start, i, fs), NEW v, FieldOK(c[i], v), i \notin KeyOf(c),
         v.null = FALSE, Readable(c, f, i) => ValueOf(c[i], v) = ValueOf(c[i], f[i])
  PROVE  FieldsAt(c, n, f, start, i + 1, [fs EXCEPT ![i] = v])
  <1>1. PICK new : new = [fs EXCEPT ![i] = v]
    OBVIOUS
  <1>2. fs = [j \in 1 .. n |-> fs[j]] /\ \A j \in 1 .. n : FieldOK(c[j], fs[j])
    BY DEF FieldsAt, FieldsOK
  <1>3. DOMAIN fs = 1 .. n
    BY <1>2
  <1>4. /\ new = [j \in 1 .. n |-> new[j]] /\ new[i] = v
        /\ \A j \in 1 .. n : j # i => new[j] = fs[j]
    BY <1>1, <1>3
  <1>5. FieldsOK(c, n, new)
    <2>1. ASSUME NEW j \in 1 .. n PROVE FieldOK(c[j], new[j])
      <3>1. CASE j = i
        BY <1>4, <3>1
      <3>2. CASE j # i
        BY <1>2, <1>4, <3>2
      <3> QED
        BY <3>1, <3>2
    <2> QED
      BY <1>4, <2>1 DEF FieldsOK
  <1>6. ASSUME NEW j \in 1 .. n, j \in KeyOf(c) \/ i + 1 <= j PROVE new[j] = start[j]
    <2>1. j # i /\ (j \in KeyOf(c) \/ i <= j)
      BY <1>6 DEF SchemaOK
    <2> QED
      BY <1>4, <2>1 DEF FieldsAt
  <1>7. ASSUME NEW j \in 1 .. (i + 1) - 1, Readable(c, f, j)
        PROVE  ValueOf(c[j], new[j]) = ValueOf(c[j], f[j])
    <2>1. CASE j = i
      BY <1>4, <1>7, <2>1
    <2>2. CASE j # i
      <3>1. j \in 1 .. i - 1 /\ j \in 1 .. n
        BY <2>2 DEF SchemaOK
      <3> QED
        BY <1>4, <1>7, <2>2, <3>1 DEF FieldsAt
    <2> QED
      BY <2>1, <2>2
  <1>8. ASSUME NEW j \in 1 .. (i + 1) - 1, j \notin KeyOf(c) PROVE new[j].null = FALSE
    <2>1. CASE j = i
      BY <1>4, <2>1
    <2>2. CASE j # i
      <3>1. j \in 1 .. i - 1 /\ j \in 1 .. n
        BY <2>2 DEF SchemaOK
      <3> QED
        BY <1>4, <1>8, <2>2, <3>1 DEF FieldsAt
    <2> QED
      BY <2>1, <2>2
  <1> QED
    BY <1>1, <1>5, <1>6, <1>7, <1>8 DEF FieldsAt

LEMMA ClearNext ==
  ASSUME NEW c, NEW n, SchemaOK(c, n), NEW i \in 1 .. n
  PROVE  ClearBefore(c, i + 1) <=> ClearBefore(c, i) /\ i \notin KeyOf(c)
  <1>1. i \in Nat /\ \A j : j \in 1 .. (i + 1) - 1 <=> j \in 1 .. i - 1 \/ j = i
    BY DEF SchemaOK
  <1> QED
    BY <1>1 DEF ClearBefore

LEMMA LoadsKey ==
  ASSUME NEW n, SchemaOK(schema, n), NEW f, FieldsOK(schema, n, f), NEW i \in 1 .. n,
         NEW x, LoadedTo(schema, n, f, fields, i, x), i \in KeyOf(schema)
  PROVE  LoadedTo(schema, n, f, fields, i + 1, LoadField(x, i))
  <1>1. LoadField(x, i) = x
    BY PartsAre DEF LoadField
  <1>2. PICK c : c = schema
    OBVIOUS
  <1>3. SchemaOK(c, n) /\ FieldsOK(c, n, f) /\ LoadedTo(c, n, f, fields, i, x) /\ i \in KeyOf(c)
    BY <1>2
  <1>4. ~ClearBefore(c, i + 1) /\ ~Readable(c, f, i)
    BY <1>3, ClearNext DEF Readable
  <1>5. /\ SlotPos(c, i) \in Nat /\ SlotPos(c, i) <= SlotPos(c, i + 1) /\ SlotPos(c, i + 1) \in Nat
        /\ Cardinality(Before(i + 1, NullsOf(c))) = Cardinality(Before(i, NullsOf(c)))
    <2>1. ~c[i].nullable
      BY <1>3 DEF KeyOf, SchemaOK
    <2> QED
      BY <1>3, <2>1, OffsetsGoOn
  <1>6. OffsetsAt(c, f, i + 1, x)
    BY <1>3, <1>4, <1>5 DEF OffsetsAt, LoadedTo
  <1>7. FieldsAt(c, n, f, fields, i + 1, x.fields)
    <2>1. \A j \in 1 .. n : j \in KeyOf(c) \/ i + 1 <= j => j \in KeyOf(c) \/ i <= j
      BY <1>3 DEF SchemaOK
    <2>2. \A j \in 1 .. (i + 1) - 1 : j \in 1 .. i - 1 \/ j = i
      BY <1>3 DEF SchemaOK
    <2> QED
      BY <1>3, <1>4, <2>1, <2>2 DEF LoadedTo, FieldsAt
  <1> QED
    BY <1>1, <1>2, <1>3, <1>6, <1>7 DEF LoadedTo

\* What is read goes into the field.
LEMMA LoadsCells ==
  ASSUME NEW n, SchemaOK(schema, n), NEW f, FieldsOK(schema, n, f), NEW i \in 1 .. n,
         NEW x, LoadedTo(schema, n, f, fields, i, x), i \notin KeyOf(schema),
         NEW l \in Nat, NEW cells, Spans(cells, l), schema[i].type = "number" => l >= 1,
         Readable(schema, f, i) =>
           /\ l = (IF i \in VarsOf(schema) THEN f[i].real ELSE DescSize(schema[i]))
           /\ \A k \in 1 .. l : cells[k] = IF k <= f[i].real THEN f[i].data[k] ELSE 0
  PROVE  FieldsAt(schema, n, f, fields, i + 1, [x.fields EXCEPT ![i] = SetCells(i, cells)])
  <1>1. PICK c : c = schema
    OBVIOUS
  <1>2. /\ SchemaOK(c, n) /\ FieldsOK(c, n, f) /\ LoadedTo(c, n, f, fields, i, x)
    BY <1>1
  <1>3. PICK fs : fs = x.fields
    OBVIOUS
  <1>4. FieldsAt(c, n, f, fields, i, fs)
    BY <1>2, <1>3 DEF LoadedTo
  <1>5. FieldOK(c[i], fields[i]) /\ FieldOK(c[i], f[i])
    <2>1. FieldOK(c[i], fs[i]) /\ fs[i] = fields[i]
      BY <1>2, <1>4 DEF FieldsAt, FieldsOK, SchemaOK
    <2> QED
      BY <1>2, <2>1 DEF FieldsOK
  <1>6. PICK v : v = SetCells(i, cells)
    OBVIOUS
  <1>7. PICK s \in Nat : s = DescSize(c[i])
    BY <1>2 DEF SchemaOK
  <1>8. /\ FieldOK(c[i], v) /\ v.null = FALSE
        /\ HasCells(v, Least(l, s), cells)
    <2>1. DescSize(c[i]) \in Nat /\ (c[i].type = "number" => DescSize(c[i]) = 1)
      BY <1>2 DEF SchemaOK
    <2> QED
      BY <1>1, <1>5, <1>6, <1>7, <2>1, SetCellsIs
  <1>9. ASSUME Readable(c, f, i) PROVE ValueOf(c[i], v) = ValueOf(c[i], f[i])
    <2>1. /\ l = (IF i \in VarsOf(c) THEN f[i].real ELSE s)
          /\ \A k \in 1 .. l : cells[k] = IF k <= f[i].real THEN f[i].data[k] ELSE 0
      BY <1>1, <1>7, <1>9
    <2>2. f[i].real \in Nat /\ f[i].real <= s
      BY <1>5, <1>7 DEF FieldOK
    <2>3. Least(l, s) = l /\ f[i].real <= l
      BY <2>1, <2>2 DEF Least
    <2>4. IsPadded(CellsOf(v), f[i].data, f[i].real, l)
      BY <1>8, <2>1, <2>3 DEF HasCells, IsPadded
    <2>5. c[i].type = "number" => l = 1
      <3>1. c[i].type = "number" => i \notin VarsOf(c) /\ s = 1
        BY <1>2, <1>7 DEF SchemaOK, VarsOf
      <3> QED
        BY <2>1, <3>1
    <2> QED
      BY <1>5, <1>8, <2>1, <2>3, <2>4, <2>5, ReadsBack
  <1>10. FieldsAt(c, n, f, fields, i + 1, [fs EXCEPT ![i] = v])
    BY <1>1, <1>2, <1>4, <1>8, <1>9, FieldReplaced
  <1> QED
    BY <1>1, <1>3, <1>6, <1>10

LEMMA ReadIs ==
  ASSUME NEW at, NEW l
  PROVE  /\ Spans(Read(at, l), l)
         /\ \A k \in 1 .. l : Read(at, l)[k] = IF at + k \in DOMAIN disk THEN disk[at + k] ELSE 0
  BY DEF Read, Spans

\* The flag that is looked at is not set.
LEMMA NotNull ==
  ASSUME NEW n, SchemaOK(schema, n), NEW f, RowStored(schema, n, f, disk), NEW i \in 1 .. n,
         NEW x, OffsetsAt(schema, f, i, x)
  PROVE  ~(schema[i].nullable /\ IsFlag(disk, x.flag))
  BY NoFlag DEF OffsetsAt

LEMMA LoadsFixed ==
  ASSUME NEW n, SchemaOK(schema, n), NEW f, RowStored(schema, n, f, disk), NEW i \in 1 .. n,
         NEW x, LoadedTo(schema, n, f, fields, i, x), i \notin KeyOf(schema),
         i \notin VarsOf(schema)
  PROVE  LoadedTo(schema, n, f, fields, i + 1, LoadField(x, i))
  <1>1. PICK c : c = schema
    OBVIOUS
  <1>2. /\ SchemaOK(c, n) /\ FieldsOK(c, n, f) /\ LoadedTo(c, n, f, fields, i, x)
        /\ RowStored(c, n, f, disk) /\ OffsetsAt(c, f, i, x)
    BY <1>1 DEF RowStored, LoadedTo
  <1>3. PICK l \in Nat : l = DescSize(c[i]) /\ MaxSize(i) = l
    BY <1>1, <1>2 DEF SchemaOK, MaxSize
  <1>4. PICK cells : cells = Read(x.fixed, l)
    OBVIOUS
  <1>5. /\ Spans(cells, l)
        /\ \A k \in 1 .. l : cells[k] = IF x.fixed + k \in DOMAIN disk THEN disk[x.fixed + k] ELSE 0
    BY <1>4, ReadIs
  <1>6. ClearBefore(c, i) => x.fixed = FixedPos(c, i)
    BY <1>2 DEF OffsetsAt
  <1>7. i \in RestOf(c)
    BY <1>1, <1>2, SetsOf
  <1>8. ASSUME ClearBefore(c, i), NEW k \in 1 .. l
        PROVE  cells[k] = IF k <= f[i].real THEN f[i].data[k] ELSE 0
    <2>1. /\ FixedPos(c, i) \in Nat /\ SlotsPos(c) \in Nat
          /\ FixedPos(c, i) + l <= SlotsPos(c)
      BY <1>2, <1>3, <1>7, FixedWithin
    <2>2. FixedPos(c, i) + k \in 1 .. SlotsPos(c)
      BY <2>1
    <2>3. FixedPos(c, i) + k \in DOMAIN disk
      BY <1>2, <2>2 DEF RowStored
    <2>4. disk[FixedPos(c, i) + k] = IF k <= f[i].real THEN f[i].data[k] ELSE 0
      BY <1>2, <1>3, <1>7 DEF RowStored, FixedIn
    <2> QED
      BY <1>5, <1>6, <1>8, <2>3, <2>4
  <1>9. PICK g : g = [x.fields EXCEPT ![i] = SetCells(i, cells)]
    OBVIOUS
  <1>10. FieldsAt(c, n, f, fields, i + 1, g)
    <2>1. Readable(c, f, i) =>
           /\ l = (IF i \in VarsOf(c) THEN f[i].real ELSE DescSize(c[i]))
           /\ \A k \in 1 .. l : cells[k] = IF k <= f[i].real THEN f[i].data[k] ELSE 0
      BY <1>1, <1>3, <1>6, <1>8 DEF Readable
    <2>2. c[i].type = "number" => l >= 1
      BY <1>2, <1>3 DEF SchemaOK
    <2> QED
      BY <1>1, <1>2, <1>5, <1>9, <2>1, <2>2, LoadsCells
  <1>11. PICK fl : fl = IF c[i].nullable THEN x.flag + 1 ELSE x.flag
    OBVIOUS
  <1>12. PICK y : y = LoadField(x, i)
    OBVIOUS
  <1>13. y = [fields |-> g, flag |-> fl, fixed |-> x.fixed + l, slot |-> x.slot, var |-> x.var]
    <2>1. i \notin Key /\ i \notin Vars
      BY PartsAre
    <2>4. ~(schema[i].nullable /\ IsFlag(disk, x.flag))
      BY <1>1, <1>2, NotNull
    <2>2. LoadField(x, i) = [x EXCEPT !.flag = fl, !.fixed = @ + l, !.fields[i] = SetCells(i, cells)]
      BY <1>1, <1>3, <1>4, <1>11, <2>1, <2>4 DEF LoadField
    <2>3. x = [fields |-> x.fields, flag |-> x.flag, fixed |-> x.fixed, slot |-> x.slot, var |-> x.var]
      BY <1>2 DEF LoadedTo
    <2> QED
      BY <1>9, <1>12, <2>2, <2>3
  <1>14. /\ FixedPos(c, i) \in Nat /\ SlotPos(c, i) \in Nat
         /\ FixedPos(c, i + 1) = FixedPos(c, i) + l
         /\ SlotPos(c, i + 1) = SlotPos(c, i) /\ VarPos(c, f, i + 1) = VarPos(c, f, i)
         /\ Cardinality(Before(i + 1, NullsOf(c)))
              = IF c[i].nullable THEN Cardinality(Before(i, NullsOf(c))) + 1
                ELSE Cardinality(Before(i, NullsOf(c)))
    BY <1>1, <1>2, <1>3, OffsetsGoOn
  <1>15. y.fields = g /\ y.flag = fl /\ y.fixed = x.fixed + l /\ y.slot = x.slot /\ y.var = x.var
    BY <1>13
  <1>16. OffsetsAt(c, f, i + 1, y)
    <2>1. ClearBefore(c, i + 1) => ClearBefore(c, i)
      BY <1>2, ClearNext
    <2>2. y.slot \in Nat /\ SlotsPos(c) <= y.slot /\ y.slot <= SlotPos(c, i + 1)
      BY <1>2, <1>14, <1>15 DEF OffsetsAt
    <2>3. ASSUME ClearBefore(c, i)
          PROVE  /\ y.fixed = FixedPos(c, i + 1) /\ y.slot = SlotPos(c, i + 1)
                 /\ AllCounted(c, f) => y.var = VarPos(c, f, i + 1)
      BY <1>2, <1>14, <1>15, <2>3 DEF OffsetsAt
    <2>4. y.flag = Cardinality(Before(i + 1, NullsOf(c)))
      BY <1>2, <1>11, <1>14, <1>15 DEF OffsetsAt
    <2> QED
      BY <2>1, <2>2, <2>3, <2>4 DEF OffsetsAt
  <1>17. y = [fields |-> y.fields, flag |-> y.flag, fixed |-> y.fixed, slot |-> y.slot, var |-> y.var]
    BY <1>13
  <1> QED
    BY <1>1, <1>10, <1>12, <1>15, <1>16, <1>17 DEF LoadedTo

LEMMA LoadsVar ==
  ASSUME NEW n, SchemaOK(schema, n), NEW f, RowStored(schema, n, f, disk), NEW i \in 1 .. n,
         NEW x, LoadedTo(schema, n, f, fields, i, x), i \notin KeyOf(schema),
         i \in VarsOf(schema)
  PROVE  LoadedTo(schema, n, f, fields, i + 1, LoadField(x, i))
  <1>1. PICK c : c = schema
    OBVIOUS
  <1>2. /\ SchemaOK(c, n) /\ FieldsOK(c, n, f) /\ LoadedTo(c, n, f, fields, i, x)
        /\ RowStored(c, n, f, disk) /\ OffsetsAt(c, f, i, x) /\ i \in VarsOf(c)
    BY <1>1 DEF RowStored, LoadedTo
  <1>3. PICK l : l = Read(x.slot, 1)[1]
    OBVIOUS
  <1>4. l = IF x.slot + 1 \in DOMAIN disk THEN disk[x.slot + 1] ELSE 0
    BY <1>3, ReadIs
  <1>5. l \in Nat
    <2>1. /\ x.slot \in Nat /\ SlotsPos(c) <= x.slot /\ x.slot <= SlotPos(c, i)
          /\ SlotPos(c, i) + 1 <= VarsPos(c) /\ SlotPos(c, i) \in Nat
          /\ SlotsPos(c) \in Nat /\ VarsPos(c) \in Nat
      BY <1>2, SlotWithin, PartsFollow DEF OffsetsAt
    <2>2. x.slot + 1 \in SlotsPos(c) + 1 .. VarsPos(c)
      BY <2>1
    <2> QED
      BY <1>2, <1>4, <2>2 DEF RowStored
  <1>6. PICK cells : cells = Read(x.var, l)
    OBVIOUS
  <1>7. /\ Spans(cells, l)
        /\ \A k \in 1 .. l : cells[k] = IF x.var + k \in DOMAIN disk THEN disk[x.var + k] ELSE 0
    BY <1>6, ReadIs
  <1>8. ClearBefore(c, i) => /\ x.slot = SlotPos(c, i)
                             /\ AllCounted(c, f) => x.var = VarPos(c, f, i)
    BY <1>2 DEF OffsetsAt
  <1>9. ASSUME ClearBefore(c, i), AllCounted(c, f)
        PROVE  l = f[i].real /\ \A k \in 1 .. l : cells[k] = f[i].data[k]
    <2>1. /\ SlotPos(c, i) \in Nat /\ SlotPos(c, i) + 1 <= VarsPos(c)
          /\ VarsPos(c) \in Nat /\ VarsPos(c) <= AllOf(c, f) /\ AllOf(c, f) \in Nat
      BY <1>2, SlotWithin, PartsFollow, AllFollows
    <2>2. SlotPos(c, i) + 1 \in 1 .. AllOf(c, f)
      BY <2>1
    <2>3. disk[SlotPos(c, i) + 1] = f[i].real /\ SlotPos(c, i) + 1 \in DOMAIN disk
      BY <1>2, <1>9, <2>2 DEF RowStored, SlotIn
    <2>4. l = f[i].real
      BY <1>4, <1>8, <1>9, <2>3
    <2>5. ASSUME NEW k \in 1 .. l PROVE cells[k] = f[i].data[k]
      <3>1. /\ VarPos(c, f, i) \in Nat /\ f[i].real \in Nat
            /\ VarPos(c, f, i) + f[i].real <= AllOf(c, f)
        BY <1>2, VarWithin
      <3>2. VarPos(c, f, i) + k \in 1 .. AllOf(c, f)
        BY <2>1, <2>4, <3>1
      <3>3. VarPos(c, f, i) + k \in DOMAIN disk
        BY <1>2, <1>9, <3>2 DEF RowStored
      <3>4. disk[VarPos(c, f, i) + k] = f[i].data[k]
        BY <1>2, <1>9, <2>4 DEF RowStored, VarIn
      <3> QED
        BY <1>7, <1>8, <1>9, <3>3, <3>4
    <2> QED
      BY <2>4, <2>5
  <1>10. PICK g : g = [x.fields EXCEPT ![i] = SetCells(i, cells)]
    OBVIOUS
  <1>11. FieldsAt(c, n, f, fields, i + 1, g)
    <2>1. ASSUME Readable(c, f, i)
          PROVE  /\ l = (IF i \in VarsOf(c) THEN f[i].real ELSE DescSize(c[i]))
                 /\ \A k \in 1 .. l : cells[k] = IF k <= f[i].real THEN f[i].data[k] ELSE 0
      <3>1. ClearBefore(c, i) /\ AllCounted(c, f)
        BY <1>2, <2>1 DEF Readable
      <3>2. l = f[i].real /\ \A k \in 1 .. l : cells[k] = f[i].data[k]
        BY <1>9, <3>1
      <3>3. \A k \in 1 .. l : k <= f[i].real
        BY <1>5, <3>2
      <3> QED
        BY <1>2, <3>1, <3>2, <3>3
    <2>2. c[i].type = "number" => l >= 1
      BY <1>2 DEF VarsOf
    <2> QED
      BY <1>1, <1>2, <1>5, <1>7, <1>10, <2>1, <2>2, LoadsCells
  <1>12. PICK fl : fl = IF c[i].nullable THEN x.flag + 1 ELSE x.flag
    OBVIOUS
  <1>13. PICK y : y = LoadField(x, i)
    OBVIOUS
  <1>14. y = [fields |-> g, flag |-> fl, fixed |-> x.fixed, slot |-> x.slot + 1, var |-> x.var + l]
    <2>1. i \notin Key /\ i \in Vars
      BY PartsAre
    <2>4. ~(schema[i].nullable /\ IsFlag(disk, x.flag))
      BY <1>1, <1>2, NotNull
    <2>2. LoadField(x, i) = [x EXCEPT !.flag = fl, !.slot = @ + 1, !.var = @ + l,
                                      !.fields[i] = SetCells(i, cells)]
      BY <1>1, <1>3, <1>6, <1>12, <2>1, <2>4 DEF LoadField
    <2>3. x = [fields |-> x.fields, flag |-> x.flag, fixed |-> x.fixed, slot |-> x.slot, var |-> x.var]
      BY <1>2 DEF LoadedTo
    <2> QED
      BY <1>10, <1>13, <2>2, <2>3
  <1>15. /\ SlotPos(c, i) \in Nat /\ VarPos(c, f, i) \in Nat
         /\ FixedPos(c, i + 1) = FixedPos(c, i)
         /\ SlotPos(c, i + 1) = SlotPos(c, i) + 1
         /\ VarPos(c, f, i + 1) = VarPos(c, f, i) + f[i].real
         /\ Cardinality(Before(i + 1, NullsOf(c)))
              = IF c[i].nullable THEN Cardinality(Before(i, NullsOf(c))) + 1
                ELSE Cardinality(Before(i, NullsOf(c)))
    BY <1>1, <1>2, OffsetsGoOn
  <1>16. /\ y.fields = g /\ y.flag = fl /\ y.fixed = x.fixed /\ y.slot = x.slot + 1
         /\ y.var = x.var + l
    BY <1>14
  <1>17. OffsetsAt(c, f, i + 1, y)
    <2>1. ClearBefore(c, i + 1) => ClearBefore(c, i)
      BY <1>2, ClearNext
    <2>2. y.slot \in Nat /\ SlotsPos(c) <= y.slot /\ y.slot <= SlotPos(c, i + 1)
      <3>1. /\ x.slot \in Nat /\ SlotsPos(c) <= x.slot /\ x.slot <= SlotPos(c, i)
            /\ SlotsPos(c) \in Nat
        BY <1>2, PartsFollow DEF OffsetsAt
      <3> QED
        BY <1>15, <1>16, <3>1
    <2>3. ASSUME ClearBefore(c, i)
          PROVE  y.fixed = FixedPos(c, i + 1) /\ y.slot = SlotPos(c, i + 1)
      BY <1>2, <1>15, <1>16, <2>3 DEF OffsetsAt
    <2>5. y.flag = Cardinality(Before(i + 1, NullsOf(c)))
      BY <1>2, <1>12, <1>15, <1>16 DEF OffsetsAt
    <2>4. ASSUME ClearBefore(c, i), AllCounted(c, f) PROVE y.var = VarPos(c, f, i + 1)
      BY <1>8, <1>9, <1>15, <1>16, <2>4
    <2> QED
      BY <2>1, <2>2, <2>3, <2>4, <2>5 DEF OffsetsAt
  <1>18. y = [fields |-> y.fields, flag |-> y.flag, fixed |-> y.fixed, slot |-> y.slot, var |-> y.var]
    BY <1>14
  <1> QED
    BY <1>1, <1>11, <1>13, <1>16, <1>17, <1>18 DEF LoadedTo

LEMMA LoadReadsBack ==
  ASSUME NEW n, SchemaOK(schema, n), FieldsOK(schema, n, fields), NEW f, RowStored(schema, n, f, disk)
  PROVE  /\ FieldsOK(schema, n, Load)
         /\ \A j \in KeyOf(schema) : Load[j] = fields[j]
         /\ \A j \in 1 .. n : j \notin KeyOf(schema) => Load[j].null = FALSE
         /\ \A j \in 1 .. n : Readable(schema, f, j) => ValueOf(schema[j], Load[j]) = ValueOf(schema[j], f[j])
  <1>1. n \in Nat /\ Fields = 1 .. n /\ FieldsOK(schema, n, f)
    BY PartsAre DEF RowStored
  <1>2. PICK st : Walked("load", LoadStart, n, st) /\ Load = st[n].fields
    BY <1>1, LoadWalked
  <1> DEFINE N == {m \in Nat : m <= n => LoadedTo(schema, n, f, fields, m + 1, st[m])}
  <1>3. 0 \in N
    <2>1. PICK x : x = LoadStart
      OBVIOUS
    <2>2. st[0] = x
      BY <1>2, <2>1 DEF Walked
    <2>3. x = [fields |-> fields, flag |-> 0, fixed |-> FlagsOf(schema), slot |-> SlotsPos(schema),
               var |-> VarsPos(schema)]
      BY <2>1, PartsAre DEF LoadStart
    <2>4. x = [fields |-> x.fields, flag |-> x.flag, fixed |-> x.fixed, slot |-> x.slot, var |-> x.var]
      BY <2>3
    <2>5. OffsetsAt(schema, f, 1, x)
      <3>1. /\ FixedPos(schema, 1) = FlagsOf(schema) /\ SlotPos(schema, 1) = SlotsPos(schema)
            /\ VarPos(schema, f, 1) = VarsPos(schema) /\ Cardinality(Before(1, NullsOf(schema))) = 0
        BY <1>1, OffsetsStart
      <3>2. SlotsPos(schema) \in Nat
        BY PartsFollow
      <3> QED
        BY <2>3, <3>1, <3>2 DEF OffsetsAt
    <2>6. FieldsAt(schema, n, f, fields, 1, x.fields)
      <3>1. x.fields = fields /\ 1 .. 1 - 1 = {}
        BY <2>3
      <3> QED
        BY <3>1 DEF FieldsAt
    <2>7. LoadedTo(schema, n, f, fields, 0 + 1, st[0])
      BY <2>2, <2>4, <2>5, <2>6 DEF LoadedTo
    <2> QED
      BY <2>7
  <1>4. ASSUME NEW m \in N PROVE m + 1 \in N
    <2> SUFFICES ASSUME m + 1 <= n PROVE LoadedTo(schema, n, f, fields, (m + 1) + 1, st[m + 1])
      OBVIOUS
    <2>1. m \in 0 .. n - 1 /\ m <= n
      BY <1>1
    <2>2. PICK i \in 1 .. n : i = m + 1
      BY <1>1
    <2>3. PICK x : x = st[m]
      OBVIOUS
    <2>4. LoadedTo(schema, n, f, fields, i, x)
      BY <2>1, <2>2, <2>3
    <2>5. st[m + 1] = LoadField(x, i)
      <3>1. st[m + 1] = StepOf("load", st[m], m + 1)
        BY <1>2, <2>1 DEF Walked
      <3>2. StepOf("load", x, i) = LoadField(x, i)
        BY DEF StepOf
      <3> QED
        BY <2>2, <2>3, <3>1, <3>2
    <2>6. LoadedTo(schema, n, f, fields, i + 1, LoadField(x, i))
      <3>1. CASE i \in KeyOf(schema)
        BY <1>1, <2>4, <3>1, LoadsKey
      <3>2. CASE i \notin KeyOf(schema) /\ i \in VarsOf(schema)
        BY <2>4, <3>2, LoadsVar
      <3>3. CASE i \notin KeyOf(schema) /\ i \notin VarsOf(schema)
        BY <2>4, <3>3, LoadsFixed
      <3> QED
        BY <3>1, <3>2, <3>3
    <2> QED
      BY <2>2, <2>5, <2>6
  <1>5. N \in SUBSET Nat
    OBVIOUS
  <1> HIDE DEF N
  <1>6. N = Nat
    BY <1>3, <1>4, <1>5, NatInduct
  <1>7. n \in N
    BY <1>1, <1>6
  <1>8. FieldsAt(schema, n, f, fields, n + 1, Load)
    BY <1>1, <1>2, <1>7 DEF N, LoadedTo
  <1>9. \A j \in 1 .. n : j \in 1 .. (n + 1) - 1
    BY <1>1
  <1>10. \A j \in KeyOf(schema) : j \in 1 .. n
    BY SetsOf
  <1> QED
    BY <1>8, <1>9, <1>10 DEF FieldsAt

-----------------------------------------------------------------------------
(***************************************************************************)
(* The key: FoldSet takes the fields in any order.                         *)
(***************************************************************************)
KeyBody(g, s) ==
  IF s = {} THEN Zeros(KeySize)
  ELSE Write(g[s \ {Pick(s)}], KeyAt(Pick(s)), Copied(Pick(s)))
KeyRec(S, g) == g = [s \in SUBSET S |-> KeyBody(g, s)]

LEMMA KeyExists ==
  ASSUME NEW S, IsFiniteSet(S)
  PROVE  \E g : KeyRec(S, g)
  <1> DEFINE Small(n) == {s \in SUBSET S : Cardinality(s) <= n}
             N == {n \in Nat : \E g : g = [s \in Small(n) |-> KeyBody(g, s)]}
  <1>1. \A s \in SUBSET S : IsFiniteSet(s) /\ Cardinality(s) \in Nat
    BY FS_Subset, FS_CardinalityType
  <1>2. 0 \in N
    <2> DEFINE g == [s \in Small(0) |-> Zeros(KeySize)]
    <2>1. \A s \in Small(0) : s = {}
      BY <1>1, FS_EmptySet
    <2>2. \A s \in Small(0) : KeyBody(g, s) = Zeros(KeySize)
      BY <2>1 DEF KeyBody
    <2>3. g = [s \in Small(0) |-> KeyBody(g, s)]
      BY <2>2
    <2> QED
      BY <2>3
  <1>3. ASSUME NEW n \in N PROVE n + 1 \in N
    <2>1. PICK g : g = [s \in Small(n) |-> KeyBody(g, s)]
      OBVIOUS
    <2> DEFINE h == [s \in Small(n + 1) |-> KeyBody(g, s)]
    <2>2. \A s \in Small(n) : s \in Small(n + 1)
      BY <1>1
    <2>3. \A s \in Small(n) : h[s] = g[s]
      BY <2>1, <2>2
    <2>4. ASSUME NEW s \in Small(n + 1), s # {}
          PROVE  s \ {Pick(s)} \in Small(n)
      <3>1. Pick(s) \in s /\ IsFiniteSet(s) /\ Cardinality(s) \in Nat
        BY <1>1, <2>4, PickIn
      <3>2. Cardinality(s \ {Pick(s)}) = Cardinality(s) - 1
        BY <3>1, FS_RemoveElement
      <3> QED
        BY <3>1, <3>2
    <2> HIDE DEF Small, h
    <2>5. \A s \in Small(n + 1) : KeyBody(h, s) = KeyBody(g, s)
      BY <2>3, <2>4 DEF KeyBody
    <2>6. h = [s \in Small(n + 1) |-> KeyBody(h, s)]
      BY <2>5 DEF h
    <2>7. n + 1 \in Nat
      BY <1>3
    <2> QED
      BY <2>6, <2>7
  <1>4. N = Nat
    <2> HIDE DEF N
    <2>1. N \in SUBSET Nat
      BY DEF N
    <2> QED
      BY <1>2, <1>3, <2>1, NatInduct
  <1>5. Cardinality(S) \in Nat /\ Small(Cardinality(S)) = SUBSET S
    BY <1>1, FS_Subset
  <1>6. Cardinality(S) \in N
    BY <1>4, <1>5
  <1> QED
    BY <1>5, <1>6 DEF KeyRec

LEMMA FormatKeyIs ==
  ASSUME IsFiniteSet(Key)
  PROVE  \E g : KeyRec(Key, g) /\ FormatKey = g[Key]
  <1> DEFINE R(g) == g = [s \in SUBSET Key |->
                            IF s = {} THEN Zeros(KeySize)
                            ELSE Write(g[s \ {Pick(s)}], KeyAt(Pick(s)), Copied(Pick(s)))]
  <1>1. FormatKey = (CHOOSE g : R(g))[Key]
    BY DEF FormatKey, FoldSet, MapThenFoldSet, Pick
  <1>2. \A g : R(g) <=> KeyRec(Key, g)
    BY DEF KeyRec, KeyBody
  <1> HIDE DEF R
  <1>3. \E g : R(g)
    BY <1>2, KeyExists
  <1>4. PICK h : h = (CHOOSE g : R(g))
    OBVIOUS
  <1>5. R(h)
    BY <1>3, <1>4
  <1> QED
    BY <1>1, <1>2, <1>4, <1>5

\* The cells of a field of the key.
KeyIn(c, v, i, cells) ==
  \A k \in 1 .. DescSize(c[i]) : cells[KeyPos(c, i) + k] = IF k <= v.real THEN v.data[k] ELSE 0
KeyToCome(c, i, cells) == \A k \in 1 .. DescSize(c[i]) : cells[KeyPos(c, i) + k] = 0
KeyCells(c, f, s, cells) ==
  /\ Spans(cells, KeyTotal(c))
  /\ \A i \in s : KeyIn(c, f[i], i, cells)
  /\ \A i \in KeyOf(c) \ s : KeyToCome(c, i, cells)

LEMMA KeysApart ==
  ASSUME NEW c, NEW n, SchemaOK(c, n), NEW i \in KeyOf(c), NEW j \in KeyOf(c), i # j,
         NEW k \in 1 .. DescSize(c[j])
  PROVE  KeyPos(c, j) + k \notin KeyPos(c, i) + 1 .. KeyPos(c, i) + DescSize(c[i])
  <1>1. /\ KeyPos(c, i) \in Nat /\ DescSize(c[i]) \in Nat
        /\ i < j => KeyPos(c, i) + DescSize(c[i]) <= KeyPos(c, j)
    BY KeyWithin
  <1>2. /\ KeyPos(c, j) \in Nat /\ DescSize(c[j]) \in Nat
        /\ j < i => KeyPos(c, j) + DescSize(c[j]) <= KeyPos(c, i)
    BY KeyWithin
  <1>3. i < j \/ j < i
    <2>1. i \in 1 .. n /\ j \in 1 .. n /\ n \in Nat
      BY SetsOf
    <2> QED
      BY <2>1
  <1> QED
    BY <1>1, <1>2, <1>3

LEMMA KeyPut ==
  ASSUME NEW n, SchemaOK(schema, n), FieldsOK(schema, n, fields), NEW x \in KeyOf(schema),
         NEW s \in SUBSET KeyOf(schema), x \notin s,
         NEW cells, KeyCells(schema, fields, s, cells)
  PROVE  KeyCells(schema, fields, s \cup {x}, Write(cells, KeyAt(x), Copied(x)))
  <1>1. PICK c : c = schema
    OBVIOUS
  <1>2. PICK f : f = fields
    OBVIOUS
  <1>3. SchemaOK(c, n) /\ FieldsOK(c, n, f) /\ KeyCells(c, f, s, cells) /\ x \in KeyOf(c) /\ x \in 1 .. n
    BY <1>1, <1>2, SetsOf
  <1>4. PICK at \in Nat, a \in Nat : at = KeyPos(c, x) /\ a = KeyTotal(c)
    BY <1>3, KeyWithin
  <1>5. PICK l \in Nat : l = f[x].real /\ l <= DescSize(c[x])
    BY <1>3 DEF FieldsOK, FieldOK
  <1>6. DescSize(c[x]) \in Nat /\ at + DescSize(c[x]) <= a
    BY <1>3, <1>4, KeyWithin
  <1>7. PICK new : new = Copied(x)
    OBVIOUS
  <1>8. DOMAIN new = 1 .. l /\ \A k \in 1 .. l : new[k] = f[x].data[k]
    BY <1>2, <1>5, <1>7, CopiedIs
  <1>9. PICK end : end = Write(cells, at, new)
    OBVIOUS
  <1>10. end = Write(cells, KeyAt(x), Copied(x))
    BY <1>1, <1>3, <1>4, <1>7, <1>9, KeyAtIs
  <1>11. Spans(cells, a)
    BY <1>3, <1>4 DEF KeyCells
  <1>12. /\ Spans(end, a)
         /\ \A p \in 1 .. a : p \in at + 1 .. at + l => end[p] = new[p - at]
         /\ \A p \in 1 .. a : p \notin at + 1 .. at + l => end[p] = cells[p]
    BY <1>8, <1>9, <1>11, WriteIs
  <1>13. KeyIn(c, f[x], x, end)
    <2> SUFFICES ASSUME NEW k \in 1 .. DescSize(c[x])
                 PROVE  end[at + k] = IF k <= l THEN f[x].data[k] ELSE 0
      BY <1>4, <1>5 DEF KeyIn
    <2>1. at + k \in 1 .. a /\ (at + k) - at = k
      BY <1>6
    <2>2. CASE k <= l
      <3>1. at + k \in at + 1 .. at + l /\ k \in 1 .. l
        BY <1>6, <2>2
      <3> QED
        BY <1>8, <1>12, <2>1, <2>2, <3>1
    <2>3. CASE ~(k <= l)
      <3>1. at + k \notin at + 1 .. at + l
        BY <1>6, <2>3
      <3>2. cells[at + k] = 0
        <4>1. x \in KeyOf(c) \ s
          BY <1>3
        <4> QED
          BY <1>3, <1>4, <4>1 DEF KeyCells, KeyToCome
      <3> QED
        BY <1>12, <2>1, <2>3, <3>1, <3>2
    <2> QED
      BY <2>2, <2>3
  <1>14. ASSUME NEW j \in KeyOf(c), j # x, NEW k \in 1 .. DescSize(c[j])
         PROVE  end[KeyPos(c, j) + k] = cells[KeyPos(c, j) + k]
    <2>1. KeyPos(c, j) + k \notin at + 1 .. at + DescSize(c[x])
      BY <1>3, <1>4, <1>14, KeysApart
    <2>2. /\ KeyPos(c, j) \in Nat /\ DescSize(c[j]) \in Nat
          /\ KeyPos(c, j) + DescSize(c[j]) <= a
      BY <1>3, <1>4, KeyWithin
    <2>3. PICK p : p = KeyPos(c, j) + k
      OBVIOUS
    <2>4. p \in 1 .. a
      BY <2>2, <2>3
    <2>5. p \notin at + 1 .. at + l
      BY <1>5, <1>6, <2>1, <2>3
    <2> QED
      BY <1>12, <2>3, <2>4, <2>5
  <1>15. ASSUME NEW j \in s \cup {x} PROVE KeyIn(c, f[j], j, end)
    <2>1. CASE j = x
      BY <1>13, <2>1
    <2>2. CASE j # x
      <3>1. j \in KeyOf(c) /\ KeyIn(c, f[j], j, cells)
        BY <1>1, <1>3, <2>2 DEF KeyCells
      <3> QED
        BY <1>14, <2>2, <3>1 DEF KeyIn
    <2> QED
      BY <2>1, <2>2
  <1>16. ASSUME NEW j \in KeyOf(c) \ (s \cup {x}) PROVE KeyToCome(c, j, end)
    <2>1. j # x /\ KeyToCome(c, j, cells)
      BY <1>3 DEF KeyCells
    <2> QED
      BY <1>14, <2>1 DEF KeyToCome
  <1>17. KeyCells(c, f, s \cup {x}, end)
    BY <1>4, <1>12, <1>15, <1>16 DEF KeyCells
  <1> QED
    BY <1>1, <1>2, <1>10, <1>17

KeyStored(c, n, f, d) ==
  /\ FieldsOK(c, n, f) /\ NullsAllowed(c, n, f)
  /\ \A i \in KeyOf(c) : KeyIn(c, f[i], i, d)

LEMMA FormatKeyStores ==
  ASSUME NEW n, SchemaOK(schema, n), FieldsOK(schema, n, fields), NullsAllowed(schema, n, fields)
  PROVE  KeyStored(schema, n, fields, FormatKey)
  <1>1. PICK K : K = KeyOf(schema)
    OBVIOUS
  <1>2. Key = K /\ IsFiniteSet(K)
    BY <1>1, SetsOf, BeforeAll, PartsAre
  <1>3. PICK g : KeyRec(K, g) /\ FormatKey = g[K]
    BY <1>2, FormatKeyIs
  <1>4. \A s \in SUBSET K : g[s] = KeyBody(g, s)
    BY <1>3 DEF KeyRec
  <1> DEFINE P == {s \in SUBSET K : KeyCells(schema, fields, s, g[s])}
  <1>5. {} \in P
    <2>1. g[{}] = Zeros(KeyTotal(schema))
      BY <1>4, KeyAtIs DEF KeyBody
    <2>2. PICK z : z = g[{}]
      OBVIOUS
    <2>3. z = [k \in 1 .. KeyTotal(schema) |-> 0]
      BY <2>1, <2>2 DEF Zeros
    <2>4. ASSUME NEW i \in K PROVE KeyToCome(schema, i, z)
      <3>1. /\ KeyPos(schema, i) \in Nat /\ KeyTotal(schema) \in Nat /\ DescSize(schema[i]) \in Nat
            /\ KeyPos(schema, i) + DescSize(schema[i]) <= KeyTotal(schema)
        BY <1>1, KeyWithin
      <3>2. \A k \in 1 .. DescSize(schema[i]) : KeyPos(schema, i) + k \in 1 .. KeyTotal(schema)
        BY <3>1
      <3> QED
        BY <2>3, <3>2 DEF KeyToCome
    <2>5. Spans(z, KeyTotal(schema))
      BY <2>3 DEF Spans
    <2>6. KeyCells(schema, fields, {}, z)
      BY <1>1, <2>4, <2>5 DEF KeyCells
    <2> QED
      BY <2>2, <2>6
  <1>6. ASSUME NEW s \in SUBSET K, s # {}, s \ {Pick(s)} \in P PROVE s \in P
    <2>1. PICK x : x = Pick(s)
      OBVIOUS
    <2>2. PICK r : r = s \ {x}
      OBVIOUS
    <2>3. x \in s /\ x \in K /\ x \notin r /\ r \in SUBSET K /\ s = r \cup {x}
      BY <1>6, <2>1, <2>2, PickIn
    <2>4. KeyCells(schema, fields, r, g[r])
      BY <1>6, <2>1, <2>2
    <2>5. g[s] = Write(g[r], KeyAt(x), Copied(x))
      BY <1>4, <1>6, <2>1, <2>2 DEF KeyBody
    <2>6. KeyCells(schema, fields, s, g[s])
      BY <1>1, <2>3, <2>4, <2>5, KeyPut
    <2> QED
      BY <2>6
  <1>7. SUBSET K \subseteq P
    <2> HIDE DEF P
    <2> QED
      BY <1>2, <1>5, <1>6, SetInduct
  <1>8. KeyCells(schema, fields, K, FormatKey)
    BY <1>3, <1>7
  <1> QED
    BY <1>1, <1>8 DEF KeyCells, KeyStored

\* load_key(): the fields of the key as they were.
LEMMA LoadKeyReadsBack ==
  ASSUME NEW n, SchemaOK(schema, n), FieldsOK(schema, n, fields), NEW f, KeyStored(schema, n, f, diskKey)
  PROVE  /\ FieldsOK(schema, n, LoadKey)
         /\ \A j \in 1 .. n : j \notin KeyOf(schema) => LoadKey[j] = fields[j]
         /\ \A j \in KeyOf(schema) : HeldOf(schema[j], LoadKey[j]) = HeldOf(schema[j], f[j])
  <1>1. PICK c : c = schema
    OBVIOUS
  <1>2. SchemaOK(c, n) /\ FieldsOK(c, n, f) /\ FieldsOK(c, n, fields) /\ KeyStored(c, n, f, diskKey)
        /\ Key = KeyOf(c) /\ Fields = 1 .. n
    BY <1>1, PartsAre DEF KeyStored
  <1>3. PICK g : g = LoadKey
    OBVIOUS
  <1>4. /\ g = [j \in 1 .. n |-> g[j]]
        /\ \A j \in 1 .. n : j \notin KeyOf(c) => g[j] = fields[j]
        /\ \A j \in 1 .. n : j \in KeyOf(c) =>
             g[j] = SetCells(j, SubSeq(diskKey, KeyAt(j) + 1, KeyAt(j) + MaxSize(j)))
    BY <1>2, <1>3 DEF LoadKey
  <1>5. ASSUME NEW j \in KeyOf(c)
        PROVE  FieldOK(c[j], g[j]) /\ HeldOf(c[j], g[j]) = HeldOf(c[j], f[j])
    <2>1. j \in 1 .. n /\ FieldOK(c[j], fields[j]) /\ FieldOK(c[j], f[j])
      BY <1>2, SetsOf DEF FieldsOK
    <2>2. PICK at \in Nat, s \in Nat : at = KeyPos(c, j) /\ s = DescSize(c[j])
      BY <1>2, KeyWithin
    <2>3. PICK cells : cells = SubSeq(diskKey, at + 1, at + s)
      OBVIOUS
    <2>4. cells = [k \in 1 .. s |-> diskKey[at + k]]
      BY <2>3, SubSeqIs
    <2>5. Spans(cells, s) /\ \A k \in 1 .. s : cells[k] = IF k <= f[j].real THEN f[j].data[k] ELSE 0
      BY <1>2, <2>2, <2>4 DEF Spans, KeyStored, KeyIn
    <2>6. g[j] = SetCells(j, cells)
      <3>1. KeyAt(j) = at /\ MaxSize(j) = s
        BY <1>1, <1>2, <2>1, <2>2, KeyAtIs, PartsAre
      <3> QED
        BY <1>4, <2>1, <2>3, <3>1
    <2>7. PICK v : v = SetCells(j, cells)
      OBVIOUS
    <2>8. c[j].type = "number" => s = 1
      BY <1>2, <2>1, <2>2 DEF SchemaOK
    <2>9. FieldOK(c[j], v) /\ v.null = FALSE /\ HasCells(v, Least(s, s), cells)
      <3>1. DescSize(c[j]) \in Nat /\ (c[j].type = "number" => DescSize(c[j]) = 1)
        BY <2>2, <2>8
      <3>2. c[j].type = "number" => s >= 1
        BY <2>8
      <3> QED
        BY <1>1, <2>1, <2>2, <2>5, <2>7, <3>1, <3>2, SetCellsIs
    <2>10. Least(s, s) = s
      BY DEF Least
    <2>11. IsPadded(CellsOf(v), f[j].data, f[j].real, s)
      BY <2>5, <2>9, <2>10 DEF HasCells, IsPadded
    <2>12. f[j].null = FALSE
      <3>1. ~c[j].nullable
        BY <1>2, <2>1 DEF KeyOf, SchemaOK
      <3> QED
        BY <1>2, <2>1, <3>1 DEF KeyStored, NullsAllowed, FieldOK
    <2>13. f[j].real <= s
      BY <2>1, <2>2 DEF FieldOK
    <2>14. ValueOf(c[j], v) = ValueOf(c[j], f[j])
      BY <2>1, <2>8, <2>11, <2>13, ReadsBack
    <2>15. HeldOf(c[j], v) = HeldOf(c[j], f[j])
      BY <2>9, <2>12, <2>14 DEF HeldOf
    <2> QED
      BY <2>6, <2>7, <2>9, <2>15
  <1>6. FieldsOK(c, n, g)
    <2>1. ASSUME NEW j \in 1 .. n PROVE FieldOK(c[j], g[j])
      <3>1. CASE j \in KeyOf(c)
        BY <1>5, <3>1
      <3>2. CASE j \notin KeyOf(c)
        BY <1>2, <1>4, <3>2 DEF FieldsOK
      <3> QED
        BY <3>1, <3>2
    <2> QED
      BY <1>4, <2>1 DEF FieldsOK
  <1> QED
    BY <1>1, <1>3, <1>4, <1>5, <1>6

-----------------------------------------------------------------------------
(***************************************************************************)
(* The invariant.                                                          *)
(***************************************************************************)
PlaceOK(c, n, w, i) ==
  /\ \A j \in 1 .. n : j < i => j \notin KeyOf(c)
  /\ i \in VarsOf(c) => \A j \in VarsOf(c) : j \notin KeyOf(c) /\ ~w[j].null
RowRead(c, n, fs, w) ==
  \A i \in 1 .. n : i \notin KeyOf(c) =>
    fs[i].null = FALSE /\ (PlaceOK(c, n, w, i) => ValueOf(c[i], fs[i]) = w[i].value)
KeyRead(c, fs, w) == \A i \in KeyOf(c) : HeldOf(c[i], fs[i]) = w[i]
IsStored(c, n, f, d, k, w) ==
  w = WrittenOf(c, n, f) /\ RowStored(c, n, f, d) /\ KeyStored(c, n, f, k)
SomeStored(c, n, d, k, w) == \E f : IsStored(c, n, f, d, k, w)

CodecInv ==
  /\ schema \in Schemas
  /\ FieldsOK(schema, Len(schema), fields)
  /\ written # <<>> => SomeStored(schema, Len(schema), disk, diskKey, written)
  /\ loaded \in {"row", "both"} => RowRead(schema, Len(schema), fields, written)
  /\ loaded \in {"key", "both"} => KeyRead(schema, fields, written)

LEMMA FieldsReplaced ==
  ASSUME NEW c, NEW n, FieldsOK(c, n, fields), NEW i \in 1 .. n, NEW v, FieldOK(c[i], v)
  PROVE  FieldsOK(c, n, [fields EXCEPT ![i] = v])
  <1>1. PICK new : new = [fields EXCEPT ![i] = v]
    OBVIOUS
  <1>2. fields = [j \in 1 .. n |-> fields[j]] /\ \A j \in 1 .. n : FieldOK(c[j], fields[j])
    BY DEF FieldsOK
  <1>3. DOMAIN fields = 1 .. n
    BY <1>2
  <1>4. /\ new = [j \in 1 .. n |-> new[j]] /\ new[i] = v
        /\ \A j \in 1 .. n : j # i => new[j] = fields[j]
    BY <1>1, <1>3
  <1>5. \A j \in 1 .. n : FieldOK(c[j], new[j])
    BY <1>2, <1>4
  <1> QED
    BY <1>1, <1>4, <1>5 DEF FieldsOK

LEMMA BufferKept ==
  ASSUME NEW d, NEW v, FieldOK(d, v), NEW b, NEW l \in Nat, Spans(b, l), l = Len(v.data),
         NEW z \in BOOLEAN, NEW u, u = [null |-> z, data |-> b, real |-> v.real]
  PROVE  FieldOK(d, u)
  <1>1. Len(b) = l
    BY LenIs DEF Spans
  <1>2. IsBuffer(b)
    BY <1>1 DEF IsBuffer, Spans
  <1>3. u.null = z /\ u.data = b /\ u.real = v.real
    OBVIOUS
  <1> QED
    BY <1>1, <1>2, <1>3 DEF FieldOK

\* The cells that a field is set to.
Given(i, l, cells) ==
  /\ Spans(cells, l) /\ (schema[i].type = "number" => l >= 1)
  /\ fields' = [fields EXCEPT ![i] = SetCells(i, cells)]

LEMMA SetValueKeeps ==
  ASSUME NEW n, SchemaOK(schema, n), FieldsOK(schema, n, fields), NEW i \in 1 .. n, SetValue(i)
  PROVE  FieldsOK(schema, n, fields')
  <1>1. FieldOK(schema[i], fields[i]) /\ DescSize(schema[i]) \in Nat
        /\ (schema[i].type = "number" => DescSize(schema[i]) = 1)
    BY DEF FieldsOK, SchemaOK
  <1>2. \E l \in Nat : \E cells : Given(i, l, cells)
    <2>1. CASE schema[i].type = "number"
      <3>1. PICK m \in Numbers : fields' = [fields EXCEPT ![i] = SetCells(i, <<m>>)]
        BY <2>1 DEF SetValue
      <3>2. Spans(<<m>>, 1) /\ 1 \in Nat /\ 1 >= 1
        BY DEF Spans
      <3>3. Given(i, 1, <<m>>)
        BY <3>1, <3>2 DEF Given
      <3> QED
        BY <3>2, <3>3
    <2>2. CASE schema[i].type # "number"
      <3>1. PICK cells \in UNION {[1 .. l -> Chars] : l \in 0 .. MaxSize(i) + 1} :
              fields' = [fields EXCEPT ![i] = SetCells(i, cells)]
        BY <2>2 DEF SetValue
      <3>2. PICK l \in 0 .. MaxSize(i) + 1 : cells \in [1 .. l -> Chars]
        OBVIOUS
      <3>3. l \in Nat /\ Spans(cells, l)
        BY <3>2 DEF Spans
      <3>4. Given(i, l, cells)
        BY <2>2, <3>1, <3>3 DEF Given
      <3> QED
        BY <3>3, <3>4
    <2> QED
      BY <2>1, <2>2
  <1>3. PICK l \in Nat : \E cells : Given(i, l, cells)
    BY <1>2
  <1>4. PICK cells : Given(i, l, cells)
    BY <1>3
  <1>5. FieldOK(schema[i], SetCells(i, cells))
    BY <1>1, <1>4, SetCellsIs DEF Given
  <1>6. fields' = [fields EXCEPT ![i] = SetCells(i, cells)]
    BY <1>4 DEF Given
  <1> QED
    BY <1>5, <1>6, FieldsReplaced

LEMMA SetNullKeeps ==
  ASSUME NEW n, SchemaOK(schema, n), FieldsOK(schema, n, fields), NEW i \in 1 .. n, SetNull(i)
  PROVE  FieldsOK(schema, n, fields')
  <1>1. PICK v : v = [fields[i] EXCEPT !.null = TRUE]
    OBVIOUS
  <1>2. FieldOK(schema[i], fields[i])
    BY DEF FieldsOK
  <1>3. v = [null |-> TRUE, data |-> fields[i].data, real |-> fields[i].real]
    BY <1>1, <1>2 DEF FieldOK
  <1>4. Len(fields[i].data) \in Nat /\ Spans(fields[i].data, Len(fields[i].data))
    BY <1>2 DEF FieldOK, IsBuffer, Spans
  <1>5. FieldOK(schema[i], v)
    BY <1>2, <1>3, <1>4, BufferKept
  <1>6. fields' = [fields EXCEPT ![i] = v]
    BY <1>1 DEF SetNull
  <1> QED
    BY <1>5, <1>6, FieldsReplaced

LEMMA ResetKeeps ==
  ASSUME NEW n, SchemaOK(schema, n), FieldsOK(schema, n, fields), Reset
  PROVE  FieldsOK(schema, n, fields')
  <1>1. Fields = 1 .. n
    BY PartsAre
  <1>2. fields' = [i \in 1 .. n |-> [fields[i] EXCEPT !.null = TRUE, !.data = Zeros(Len(fields[i].data))]]
    BY <1>1 DEF Reset
  <1>3. PICK g : g = fields'
    OBVIOUS
  <1>4. ASSUME NEW i \in 1 .. n PROVE FieldOK(schema[i], g[i])
    <2>1. FieldOK(schema[i], fields[i])
      BY DEF FieldsOK
    <2>2. PICK l \in Nat : l = Len(fields[i].data)
      BY <2>1 DEF FieldOK, IsBuffer
    <2>3. Spans(Zeros(l), l)
      BY DEF Zeros, Spans
    <2>4. g[i] = [fields[i] EXCEPT !.null = TRUE, !.data = Zeros(l)]
      BY <1>2, <1>3, <2>2
    <2>5. g[i] = [null |-> TRUE, data |-> Zeros(l), real |-> fields[i].real]
      BY <2>1, <2>4 DEF FieldOK
    <2> QED
      BY <2>1, <2>2, <2>3, <2>5, BufferKept
  <1>5. g = [i \in 1 .. n |-> g[i]]
    BY <1>2, <1>3
  <1> QED
    BY <1>3, <1>4, <1>5 DEF FieldsOK

LEMMA MinValueIs ==
  ASSUME NEW i, FieldOK(schema[i], fields[i])
  PROVE  FieldOK(schema[i], MinValue(i))
  <1>1. PICK b : b = fields[i].data
    OBVIOUS
  <1>2. PICK l \in Nat : l = Len(b) /\ Spans(b, l)
    BY <1>1 DEF FieldOK, IsBuffer, Spans
  <1>3. PICK one : one = IF schema[i].type = "number" THEN <<MinNumber>> ELSE <<0>>
    OBVIOUS
  <1>4. PICK o \in Nat, w \in Nat : o = 0 /\ w = 1
    OBVIOUS
  <1>5. DOMAIN one = 1 .. w
    BY <1>3, <1>4
  <1>6. Spans(Write(b, o, one), l)
    BY <1>2, <1>5, WriteIs
  <1>7. MinValue(i) = [null |-> FALSE, data |-> Write(b, o, one), real |-> fields[i].real]
    <2>1. PICK v : v = fields[i]
      OBVIOUS
    <2>2. v = [null |-> v.null, data |-> b, real |-> v.real]
      BY <1>1, <2>1 DEF FieldOK
    <2>3. MinValue(i) = [v EXCEPT !.null = FALSE, !.data = Write(v.data, o, one)]
      BY <1>3, <1>4, <2>1 DEF MinValue
    <2>4. PICK x : x = Write(b, o, one)
      OBVIOUS
    <2>5. MinValue(i) = [v EXCEPT !.null = FALSE, !.data = x]
      BY <1>1, <2>1, <2>3, <2>4
    <2>6. MinValue(i) = [null |-> FALSE, data |-> x, real |-> v.real]
      BY <2>2, <2>5
    <2> QED
      BY <2>1, <2>4, <2>6
  <1> QED
    BY <1>1, <1>2, <1>6, <1>7, BufferKept

LEMMA MaxValueIs ==
  ASSUME NEW i, FieldOK(schema[i], fields[i]), schema[i].type = "number" => DescSize(schema[i]) = 1
  PROVE  FieldOK(schema[i], MaxValue(i))
  <1>1. PICK b : b = fields[i].data
    OBVIOUS
  <1>2. PICK l \in Nat : l = Len(b) /\ Spans(b, l)
    BY <1>1 DEF FieldOK, IsBuffer, Spans
  <1>3. PICK u : u = IF schema[i].type = "number" THEN <<MaxNumber>> ELSE [k \in DOMAIN b |-> Max(Chars)]
    OBVIOUS
  <1>4. Spans(u, l)
    <2>1. CASE schema[i].type = "number"
      <3>1. l = 1
        BY <1>1, <1>2, <2>1 DEF FieldOK
      <3> QED
        BY <1>3, <2>1, <3>1 DEF Spans
    <2>2. CASE schema[i].type # "number"
      <3>1. DOMAIN b = 1 .. l
        BY <1>2 DEF Spans
      <3> QED
        BY <1>3, <2>2, <3>1 DEF Spans
    <2> QED
      BY <2>1, <2>2
  <1>5. MaxValue(i) = [null |-> FALSE, data |-> u, real |-> fields[i].real]
    <2>1. PICK v : v = fields[i]
      OBVIOUS
    <2>2. v = [null |-> v.null, data |-> b, real |-> v.real]
      BY <1>1, <2>1 DEF FieldOK
    <2>3. MaxValue(i) = [v EXCEPT !.null = FALSE, !.data = u]
      BY <1>1, <1>3, <2>1 DEF MaxValue
    <2> QED
      BY <2>1, <2>2, <2>3
  <1> QED
    BY <1>1, <1>2, <1>4, <1>5, BufferKept

LEMMA KeyLimitsKeep ==
  ASSUME NEW n, SchemaOK(schema, n), FieldsOK(schema, n, fields), MinKey \/ MaxKey
  PROVE  FieldsOK(schema, n, fields')
  <1>1. Fields = 1 .. n
    BY PartsAre
  <1>2. \A i \in 1 .. n : /\ FieldOK(schema[i], fields[i])
                          /\ FieldOK(schema[i], MinValue(i)) /\ FieldOK(schema[i], MaxValue(i))
    BY MinValueIs, MaxValueIs DEF FieldsOK, SchemaOK
  <1>3. CASE MinKey
    <2>1. fields' = [i \in 1 .. n |-> IF i \in Key THEN MinValue(i) ELSE fields[i]]
      BY <1>1, <1>3 DEF MinKey
    <2>2. PICK g : g = [i \in 1 .. n |-> IF i \in Key THEN MinValue(i) ELSE fields[i]]
      OBVIOUS
    <2>3. FieldsOK(schema, n, g)
      BY <1>2, <2>2 DEF FieldsOK
    <2> QED
      BY <2>1, <2>2, <2>3
  <1>4. CASE MaxKey
    <2>1. fields' = [i \in 1 .. n |-> IF i \in Key THEN MaxValue(i) ELSE fields[i]]
      BY <1>1, <1>4 DEF MaxKey
    <2>2. PICK g : g = [i \in 1 .. n |-> IF i \in Key THEN MaxValue(i) ELSE fields[i]]
      OBVIOUS
    <2>3. FieldsOK(schema, n, g)
      BY <1>2, <2>2 DEF FieldsOK
    <2> QED
      BY <2>1, <2>2, <2>3
  <1> QED
    BY <1>3, <1>4

LEMMA PlacedIsReadable ==
  ASSUME NEW c, NEW n, SchemaOK(c, n), NEW f, NEW w, w = WrittenOf(c, n, f),
         NEW i \in 1 .. n, i \notin KeyOf(c), PlaceOK(c, n, w, i)
  PROVE  Readable(c, f, i)
  <1>1. \A j \in 1 .. n : w[j].null = f[j].null
    BY DEF WrittenOf, HeldOf
  <1>2. ClearBefore(c, i)
    <2>1. \A j \in 1 .. i - 1 : j \in 1 .. n /\ j < i
      BY DEF SchemaOK
    <2> QED
      BY <2>1 DEF ClearBefore, PlaceOK
  <1>3. i \in VarsOf(c) => AllCounted(c, f)
    <2>1. \A j \in VarsOf(c) : j \in 1 .. n
      BY SetsOf
    <2> QED
      BY <1>1, <2>1 DEF AllCounted, PlaceOK
  <1> QED
    BY <1>2, <1>3 DEF Readable

LEMMA ProbeKeeps ==
  ASSUME NEW n, SchemaOK(schema, n), FieldsOK(schema, n, fields),
         SomeStored(schema, n, disk, diskKey, written)
  PROVE  /\ FieldsOK(schema, n, Load) /\ RowRead(schema, n, Load, written)
         /\ KeyRead(schema, fields, written) => KeyRead(schema, Load, written)
  <1>1. PICK f : IsStored(schema, n, f, disk, diskKey, written)
    BY DEF SomeStored
  <1>2. written = WrittenOf(schema, n, f) /\ RowStored(schema, n, f, disk)
    BY <1>1 DEF IsStored
  <1>3. /\ FieldsOK(schema, n, Load)
        /\ \A j \in KeyOf(schema) : Load[j] = fields[j]
        /\ \A j \in 1 .. n : j \notin KeyOf(schema) => Load[j].null = FALSE
        /\ \A j \in 1 .. n : Readable(schema, f, j) => ValueOf(schema[j], Load[j]) = ValueOf(schema[j], f[j])
    BY <1>2, LoadReadsBack
  <1>4. RowRead(schema, n, Load, written)
    <2>1. ASSUME NEW i \in 1 .. n, i \notin KeyOf(schema), PlaceOK(schema, n, written, i)
          PROVE  ValueOf(schema[i], Load[i]) = written[i].value
      <3>1. Readable(schema, f, i)
        BY <1>2, <2>1, PlacedIsReadable
      <3>2. written[i].value = ValueOf(schema[i], f[i])
        BY <1>2 DEF WrittenOf, HeldOf
      <3> QED
        BY <1>3, <3>1, <3>2
    <2> QED
      BY <1>3, <2>1 DEF RowRead
  <1>5. KeyRead(schema, fields, written) => KeyRead(schema, Load, written)
    BY <1>3 DEF KeyRead
  <1> QED
    BY <1>3, <1>4, <1>5

LEMMA ProbeKeyKeeps ==
  ASSUME NEW n, SchemaOK(schema, n), FieldsOK(schema, n, fields),
         SomeStored(schema, n, disk, diskKey, written)
  PROVE  /\ FieldsOK(schema, n, LoadKey) /\ KeyRead(schema, LoadKey, written)
         /\ RowRead(schema, n, fields, written) => RowRead(schema, n, LoadKey, written)
  <1>1. PICK f : IsStored(schema, n, f, disk, diskKey, written)
    BY DEF SomeStored
  <1>2. written = WrittenOf(schema, n, f) /\ KeyStored(schema, n, f, diskKey)
    BY <1>1 DEF IsStored
  <1>3. /\ FieldsOK(schema, n, LoadKey)
        /\ \A j \in 1 .. n : j \notin KeyOf(schema) => LoadKey[j] = fields[j]
        /\ \A j \in KeyOf(schema) : HeldOf(schema[j], LoadKey[j]) = HeldOf(schema[j], f[j])
    BY <1>2, LoadKeyReadsBack
  <1>4. KeyRead(schema, LoadKey, written)
    <2>1. \A i \in KeyOf(schema) : written[i] = HeldOf(schema[i], f[i])
      BY <1>2, SetsOf DEF WrittenOf
    <2> QED
      BY <1>3, <2>1 DEF KeyRead
  <1>5. RowRead(schema, n, fields, written) => RowRead(schema, n, LoadKey, written)
    BY <1>3 DEF RowRead
  <1> QED
    BY <1>3, <1>4, <1>5

LEMMA StoreKeeps ==
  ASSUME NEW n, SchemaOK(schema, n), FieldsOK(schema, n, fields),
         \A i \in Fields : fields[i].null => schema[i].nullable,
         NEW w, w = [i \in Fields |-> Held(i)]
  PROVE  /\ SomeStored(schema, n, Format, FormatKey, w)
         /\ RowRead(schema, n, fields, written) => RowRead(schema, n, fields, w)
         /\ KeyRead(schema, fields, w)
  <1>1. Fields = 1 .. n
    BY PartsAre
  <1>2. NullsAllowed(schema, n, fields)
    BY <1>1 DEF NullsAllowed
  <1>3. \A i \in 1 .. n : Held(i) = HeldOf(schema[i], fields[i])
    BY HeldIs DEF FieldsOK
  <1>4. w = WrittenOf(schema, n, fields)
    BY <1>1, <1>3 DEF WrittenOf
  <1>5. RowStored(schema, n, fields, Format) /\ KeyStored(schema, n, fields, FormatKey)
    BY <1>2, FormatStores, FormatKeyStores
  <1>6. \A i \in 1 .. n : w[i] = HeldOf(schema[i], fields[i]) /\ w[i].value = ValueOf(schema[i], fields[i])
    BY <1>4 DEF WrittenOf, HeldOf
  <1>7. \A i \in KeyOf(schema) : i \in 1 .. n
    BY SetsOf
  <1> QED
    BY <1>4, <1>5, <1>6, <1>7 DEF IsStored, SomeStored, RowRead, KeyRead

LEMMA CodecStarts == RowCodecAssumption => (Init => CodecInv)
  <1> SUFFICES ASSUME RowCodecAssumption, Init PROVE CodecInv
    OBVIOUS
  <1>1. PICK n : n = Len(schema)
    OBVIOUS
  <1>2. schema \in Schemas /\ SchemaOK(schema, n) /\ Fields = 1 .. n
    BY <1>1, SchemaIs DEF Init, Fields, SchemaOK
  <1>3. fields = [i \in 1 .. n |-> Setup(schema[i])]
    BY <1>2 DEF Init
  <1>4. ASSUME NEW i \in 1 .. n PROVE FieldOK(schema[i], fields[i])
    <2>1. PICK d : d = schema[i]
      OBVIOUS
    <2>2. PICK l \in Nat : l = IF d.type = "varchar" THEN 0 ELSE DescSize(d)
      BY <1>2, <2>1 DEF SchemaOK
    <2>3. PICK b : b = IF d.type = "varchar" THEN <<>> ELSE Zeros(l)
      OBVIOUS
    <2>4. Spans(b, l)
      BY <2>2, <2>3 DEF Spans, Zeros
    <2>5. Len(b) = l /\ IsBuffer(b)
      <3>1. Len(b) = l
        BY <2>4, LenIs DEF Spans
      <3> QED
        BY <2>4, <3>1 DEF IsBuffer, Spans
    <2>6. fields[i] = [null |-> TRUE, data |-> b, real |-> l]
      BY <1>3, <2>1, <2>2, <2>3 DEF Setup
    <2>7. DescSize(d) \in Nat /\ (d.type = "number" => DescSize(d) = 1) /\ l <= DescSize(d)
          /\ (d.type # "varchar" => l = DescSize(d)) /\ (d.type = "number" => d.type # "varchar")
      BY <1>2, <2>1, <2>2 DEF SchemaOK
    <2> QED
      BY <2>1, <2>5, <2>6, <2>7 DEF FieldOK
  <1>5. FieldsOK(schema, n, fields)
    BY <1>3, <1>4 DEF FieldsOK
  <1>6. written = <<>> /\ loaded = "nothing"
    BY DEF Init
  <1> QED
    BY <1>1, <1>2, <1>5, <1>6 DEF CodecInv

LEMMA CodecKeeps == RowCodecAssumption => (CodecInv /\ [Next]_vars => CodecInv')
  <1> SUFFICES ASSUME RowCodecAssumption, CodecInv, [Next]_vars PROVE CodecInv'
    OBVIOUS
  <1>1. PICK n : n = Len(schema)
    OBVIOUS
  <1>2. /\ schema \in Schemas /\ SchemaOK(schema, n) /\ FieldsOK(schema, n, fields) /\ Fields = 1 .. n
        /\ written # <<>> => SomeStored(schema, n, disk, diskKey, written)
        /\ loaded \in {"row", "both"} => RowRead(schema, n, fields, written)
        /\ loaded \in {"key", "both"} => KeyRead(schema, fields, written)
    BY <1>1, SchemaIs DEF CodecInv, Fields, SchemaOK
  <1>3. schema' = schema
    BY DEF Next, vars, SetValue, SetNull, Reset, MinKey, MaxKey, Store, Probe, ProbeKey, Stored
  <1>4. /\ schema' \in Schemas
        /\ n = Len(schema')
    BY <1>1, <1>2, <1>3
  <1>5. ASSUME FieldsOK(schema, n, fields'), Stored, loaded' = "nothing" PROVE CodecInv'
    BY <1>1, <1>2, <1>3, <1>4, <1>5 DEF CodecInv, Stored
  <1>6. ASSUME NEW i \in Fields, SetValue(i) PROVE CodecInv'
    BY <1>2, <1>5, <1>6, SetValueKeeps DEF SetValue
  <1>7. ASSUME NEW i \in Fields, SetNull(i) PROVE CodecInv'
    BY <1>2, <1>5, <1>7, SetNullKeeps DEF SetNull
  <1>8. CASE Reset
    BY <1>2, <1>5, <1>8, ResetKeeps DEF Reset
  <1>9. CASE MinKey \/ MaxKey
    BY <1>2, <1>5, <1>9, KeyLimitsKeep DEF MinKey, MaxKey
  <1>10. CASE Store
    <2>1. PICK w : w = [i \in Fields |-> Held(i)]
      OBVIOUS
    <2>2. /\ SomeStored(schema, n, Format, FormatKey, w)
          /\ RowRead(schema, n, fields, written) => RowRead(schema, n, fields, w)
          /\ KeyRead(schema, fields, w)
      BY <1>2, <1>10, <2>1, StoreKeeps DEF Store
    <2>3. /\ disk' = Format /\ diskKey' = FormatKey /\ written' = w
          /\ fields' = fields /\ loaded' = loaded
      BY <1>10, <2>1 DEF Store
    <2> QED
      BY <1>1, <1>2, <1>3, <1>4, <2>2, <2>3 DEF CodecInv
  <1>11. CASE Probe
    <2>1. /\ FieldsOK(schema, n, Load) /\ RowRead(schema, n, Load, written)
          /\ KeyRead(schema, fields, written) => KeyRead(schema, Load, written)
      BY <1>2, <1>11, ProbeKeeps DEF Probe
    <2>2. /\ fields' = Load /\ disk' = disk /\ diskKey' = diskKey /\ written' = written
          /\ loaded' = IF loaded \in {"key", "both"} THEN "both" ELSE "row"
      BY <1>11 DEF Probe, Stored
    <2>3. loaded' \in {"key", "both"} => KeyRead(schema, Load, written)
      BY <1>2, <2>1, <2>2
    <2> QED
      BY <1>1, <1>2, <1>3, <1>4, <2>1, <2>2, <2>3 DEF CodecInv
  <1>12. CASE ProbeKey
    <2>1. /\ FieldsOK(schema, n, LoadKey) /\ KeyRead(schema, LoadKey, written)
          /\ RowRead(schema, n, fields, written) => RowRead(schema, n, LoadKey, written)
      BY <1>2, <1>12, ProbeKeyKeeps DEF ProbeKey
    <2>2. /\ fields' = LoadKey /\ disk' = disk /\ diskKey' = diskKey /\ written' = written
          /\ loaded' = IF loaded \in {"row", "both"} THEN "both" ELSE "key"
      BY <1>12 DEF ProbeKey, Stored
    <2>3. loaded' \in {"row", "both"} => RowRead(schema, n, LoadKey, written)
      BY <1>2, <2>1, <2>2
    <2> QED
      BY <1>1, <1>2, <1>3, <1>4, <2>1, <2>2, <2>3 DEF CodecInv
  <1>13. CASE UNCHANGED vars
    BY <1>1, <1>2, <1>3, <1>4, <1>13 DEF CodecInv, vars
  <1> QED
    BY <1>6, <1>7, <1>8, <1>9, <1>10, <1>11, <1>12, <1>13 DEF Next

LEMMA CodecImplies == RowCodecAssumption => (CodecInv => FieldsReadBack)
  <1> SUFFICES ASSUME RowCodecAssumption, CodecInv PROVE FieldsReadBack
    OBVIOUS
  <1>1. PICK n : n = Len(schema)
    OBVIOUS
  <1>2. /\ schema \in Schemas /\ SchemaOK(schema, n) /\ FieldsOK(schema, n, fields)
        /\ loaded \in {"row", "both"} => RowRead(schema, n, fields, written)
        /\ loaded \in {"key", "both"} => KeyRead(schema, fields, written)
    BY <1>1, SchemaIs DEF CodecInv
  <1>3. Fields = 1 .. n /\ Vars = VarsOf(schema) /\ Key = KeyOf(schema)
    BY <1>2, PartsAre
  <1>4. \A i \in 1 .. n : Held(i) = HeldOf(schema[i], fields[i]) /\ Value(i) = ValueOf(schema[i], fields[i])
    BY <1>2, HeldIs DEF FieldsOK
  <1>5. ASSUME Vars \cap Key = {}, \A i \in Fields : fields[i].null => i \in Vars \cap Nullable
        PROVE  Len(Format) = Size
    BY <1>2, <1>5, SizeIs, FormatLength
  <1>6. ASSUME loaded \in {"row", "both"}, NEW i \in Fields \ Key
        PROVE  ~fields[i].null /\ (InPlace(i) => Value(i) = written[i].value)
    <2>1. InPlace(i) => PlaceOK(schema, n, written, i)
      BY <1>3 DEF InPlace, PlaceOK
    <2> QED
      BY <1>2, <1>3, <1>4, <1>6, <2>1 DEF RowRead
  <1>7. ASSUME loaded \in {"key", "both"}, NEW i \in Key PROVE Held(i) = written[i]
    BY <1>2, <1>3, <1>4, <1>7, SetsOf DEF KeyRead
  <1> QED
    BY <1>5, <1>6, <1>7 DEF FieldsReadBack

\* Any row of any schema, in a tuple that is used again and again: what is stored is as
\* long as size() says, and the values read back are those that it had, where both sides
\* reckon the place of a field alike; no null flag is ever set, and a null comes back as
\* the value it had before (format(), load(), format_key(), load_key()).
THEOREM RowsReadBack == RowCodecAssumption => (Spec => []FieldsReadBack)
  <1> SUFFICES ASSUME RowCodecAssumption PROVE Spec => []FieldsReadBack
    OBVIOUS
  <1>1. Init => CodecInv
    BY CodecStarts
  <1>2. CodecInv /\ [Next]_vars => CodecInv'
    BY CodecKeeps
  <1>3. CodecInv => FieldsReadBack
    BY CodecImplies
  <1> QED
    BY <1>1, <1>2, <1>3, PTL DEF Spec
=============================================================================
