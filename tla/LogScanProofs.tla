--------------------------- MODULE LogScanProofs ---------------------------
(***************************************************************************)
(* What the handlers of a log scan are given, for logs of any number of    *)
(* partitions with any records and for blocks of any size: the records of  *)
(* the log up to some record, in their order, and in the end all of them.  *)
(* The scanner is in one of the states of InFile: between two records, in  *)
(* a record of which it has kept the first half, or behind the skip.       *)
(***************************************************************************)
EXTENDS LogScan, Lemmas, SequenceTheorems

-----------------------------------------------------------------------------
(***************************************************************************)
(* The cells of a partition.                                               *)
(***************************************************************************)
CellSet == Nat \X {1, 2}
Width(s, i) == IF s[i] = "wide" THEN 2 ELSE 1
Piece(s, i) == IF s[i] = "wide" THEN << <<i, 1>>, <<i, 2>> >> ELSE << <<i, 1>> >>
Pieces(s) == [i \in 1 .. Len(s) |-> Piece(s, i)]

LEMMA Concat ==
  ASSUME NEW S, NEW c \in Seq(S), NEW d \in Seq(S)
  PROVE  /\ Len(c) \in Nat /\ Len(d) \in Nat /\ Len(c \o d) = Len(c) + Len(d)
         /\ \A k \in 1 .. Len(c) + Len(d) :
              (c \o d)[k] = IF k <= Len(c) THEN c[k] ELSE d[k - Len(c)]
  OBVIOUS

\* The record i is at its place in the cells c, where P[i] cells are of the first i records.
RecordAt(s, c, P, i) ==
  /\ P[i - 1] \in Nat /\ P[i] = P[i - 1] + Width(s, i) /\ P[i] <= Len(c)
  /\ c[P[i - 1] + 1] = <<i, 1>>
  /\ s[i] = "wide" => c[P[i - 1] + 2] = <<i, 2>>
LaidOut(s, n, c, P) ==
  /\ P = [i \in 0 .. n |-> P[i]]
  /\ P[0] = 0 /\ c \in Seq(CellSet) /\ Len(c) = P[n]
  /\ \A i \in 1 .. n : RecordAt(s, c, P, i)

LEMMA PieceIs ==
  ASSUME NEW s, NEW i \in Nat
  PROVE  /\ Piece(s, i) \in Seq(CellSet) /\ Len(Piece(s, i)) = Width(s, i)
         /\ Piece(s, i)[1] = <<i, 1>>
         /\ s[i] = "wide" => Piece(s, i)[2] = <<i, 2>>
  <1>1. <<i, 1>> \in CellSet /\ <<i, 2>> \in CellSet
    BY DEF CellSet
  <1>2. CASE s[i] = "wide"
    <2>1. Piece(s, i) = << <<i, 1>>, <<i, 2>> >>
      BY <1>2 DEF Piece
    <2> QED
      BY <1>1, <1>2, <2>1 DEF Width
  <1>3. CASE s[i] # "wide"
    <2>1. Piece(s, i) = << <<i, 1>> >>
      BY <1>3 DEF Piece
    <2> QED
      BY <1>1, <1>3, <2>1 DEF Width
  <1> QED
    BY <1>2, <1>3

LEMMA RecordStays ==
  ASSUME NEW s, NEW c \in Seq(CellSet), NEW d \in Seq(CellSet), NEW P, NEW i, RecordAt(s, c, P, i)
  PROVE  RecordAt(s, c \o d, P, i)
  <1>1. /\ Len(c) \in Nat /\ Len(d) \in Nat /\ Len(c \o d) = Len(c) + Len(d)
        /\ \A k \in 1 .. Len(c) : (c \o d)[k] = c[k]
    OBVIOUS
  <1>2. PICK a : a = P[i - 1]
    OBVIOUS
  <1>3. a \in Nat /\ P[i] = a + Width(s, i) /\ P[i] <= Len(c)
    BY <1>2 DEF RecordAt
  <1>4. CASE s[i] = "wide"
    <2>1. a + 1 \in 1 .. Len(c) /\ a + 2 \in 1 .. Len(c) /\ P[i] <= Len(c) + Len(d)
      BY <1>1, <1>3, <1>4 DEF Width
    <2> QED
      BY <1>1, <1>2, <1>3, <1>4, <2>1 DEF RecordAt
  <1>5. CASE s[i] # "wide"
    <2>1. a + 1 \in 1 .. Len(c) /\ P[i] <= Len(c) + Len(d)
      BY <1>1, <1>3, <1>5 DEF Width
    <2> QED
      BY <1>1, <1>2, <1>3, <1>5, <2>1 DEF RecordAt
  <1> QED
    BY <1>4, <1>5

\* One record more.
LEMMA RecordBehind ==
  ASSUME NEW s, NEW c \in Seq(CellSet), NEW P, NEW i \in Nat \ {0}, P[i - 1] = Len(c),
         P[i] = Len(c \o Piece(s, i))
  PROVE  RecordAt(s, c \o Piece(s, i), P, i)
  <1>1. PICK d : d = Piece(s, i)
    OBVIOUS
  <1>2. /\ d \in Seq(CellSet) /\ Len(d) = Width(s, i)
        /\ d[1] = <<i, 1>>
        /\ s[i] = "wide" => d[2] = <<i, 2>>
    BY <1>1, PieceIs
  <1>3. /\ Len(c) \in Nat /\ Len(d) \in Nat /\ Len(c \o d) = Len(c) + Len(d)
        /\ \A k \in 1 .. Len(d) : (c \o d)[Len(c) + k] = d[k]
    <2>1. /\ Len(c) \in Nat /\ Len(d) \in Nat /\ Len(c \o d) = Len(c) + Len(d)
          /\ \A k \in 1 .. Len(c) + Len(d) :
               (c \o d)[k] = IF k <= Len(c) THEN c[k] ELSE d[k - Len(c)]
      BY <1>2, Concat
    <2>2. ASSUME NEW k \in 1 .. Len(d) PROVE (c \o d)[Len(c) + k] = d[k]
      <3>1. /\ Len(c) + k \in 1 .. Len(c) + Len(d) /\ ~(Len(c) + k <= Len(c))
            /\ (Len(c) + k) - Len(c) = k
        BY <2>1
      <3> QED
        BY <2>1, <3>1
    <2> QED
      BY <2>1, <2>2
  <1>4. 1 \in 1 .. Len(d) /\ (s[i] = "wide" => 2 \in 1 .. Len(d))
    BY <1>2 DEF Width
  <1> QED
    BY <1>1, <1>2, <1>3, <1>4 DEF RecordAt

LEMMA CellsLaidOut ==
  ASSUME NEW s, NEW n \in Nat \ {0}, Len(s) = n
  PROVE  \E P : LaidOut(s, n, FlattenSeq(Pieces(s)), P)
  <1>1. Len(Pieces(s)) = n /\ \A i \in 1 .. n : Pieces(s)[i] = Piece(s, i)
    BY DEF Pieces
  <1>2. PICK g : FlatRec(Pieces(s), n, g) /\ FlattenSeq(Pieces(s)) = g[n]
    BY <1>1, FlatIs
  <1>3. PICK P : P = [i \in 0 .. n |-> IF i = 0 THEN 0 ELSE Len(g[i])]
    OBVIOUS
  <1>4. \A i \in 1 .. n : g[i] = IF i = 1 THEN Piece(s, i) ELSE g[i - 1] \o Piece(s, i)
    BY <1>1, <1>2 DEF FlatRec, FlatBody
  <1>5. P[0] = 0 /\ \A i \in 1 .. n : P[i] = Len(g[i])
    BY <1>3
  <1> DEFINE N == {m \in Nat \ {0} : m \in 1 .. n =>
                     g[m] \in Seq(CellSet) /\ \A i \in 1 .. m : RecordAt(s, g[m], P, i)}
  <1>6. 1 \in N
    <2>1. 1 \in 1 .. n /\ 1 \in Nat \ {0} /\ 1 - 1 = 0
      OBVIOUS
    <2>2. g[1] = Piece(s, 1) /\ Piece(s, 1) \in Seq(CellSet)
      BY <1>4, <2>1, PieceIs
    <2>3. <<>> \in Seq(CellSet) /\ <<>> \o Piece(s, 1) = Piece(s, 1) /\ Len(<<>>) = 0
      BY <2>2
    <2>4. RecordAt(s, <<>> \o Piece(s, 1), P, 1)
      BY <1>5, <2>1, <2>2, <2>3, RecordBehind
    <2>5. \A i \in 1 .. 1 : RecordAt(s, g[1], P, i)
      BY <2>2, <2>3, <2>4
    <2> QED
      BY <2>1, <2>2, <2>5
  <1>7. ASSUME NEW m \in N \cap (Nat \ {0}) PROVE m + 1 \in N
    <2> SUFFICES ASSUME m + 1 \in 1 .. n
                 PROVE  g[m + 1] \in Seq(CellSet) /\ \A i \in 1 .. m + 1 : RecordAt(s, g[m + 1], P, i)
      OBVIOUS
    <2>1. m \in 1 .. n /\ m + 1 \in Nat \ {0} /\ (m + 1) - 1 = m /\ m + 1 # 1
      OBVIOUS
    <2>2. g[m] \in Seq(CellSet) /\ \A i \in 1 .. m : RecordAt(s, g[m], P, i)
      BY <2>1
    <2>3. g[m + 1] = g[m] \o Piece(s, m + 1) /\ Piece(s, m + 1) \in Seq(CellSet)
      BY <1>4, <2>1, PieceIs
    <2>4. RecordAt(s, g[m + 1], P, m + 1)
      BY <1>5, <2>1, <2>2, <2>3, RecordBehind
    <2>5. \A i \in 1 .. m : RecordAt(s, g[m + 1], P, i)
      BY <2>2, <2>3, RecordStays
    <2> QED
      BY <2>1, <2>2, <2>3, <2>4, <2>5
  <1> HIDE DEF N
  <1>8. n \in N
    BY <1>6, <1>7, Induct
  <1>9. g[n] \in Seq(CellSet) /\ \A i \in 1 .. n : RecordAt(s, g[n], P, i)
    BY <1>8 DEF N
  <1>10. P = [i \in 0 .. n |-> P[i]] /\ Len(g[n]) = P[n]
    BY <1>3, <1>5
  <1> QED
    BY <1>2, <1>5, <1>9, <1>10 DEF LaidOut

\* The places ascend.
LEMMA PlacesAscend ==
  ASSUME NEW s, NEW n \in Nat, NEW c, NEW P, LaidOut(s, n, c, P), NEW i \in 0 .. n
  PROVE  P[i] \in Nat /\ \A j \in 0 .. i : P[j] \in Nat /\ P[j] + (i - j) <= P[i]
  <1>1. P[0] = 0 /\ \A k \in 1 .. n : P[k - 1] \in Nat /\ P[k] = P[k - 1] + Width(s, k)
    BY DEF LaidOut, RecordAt
  <1> DEFINE N == {m \in Nat : m <= n => P[m] \in Nat /\ \A j \in 0 .. m : P[j] \in Nat /\ P[j] + (m - j) <= P[m]}
  <1>2. 0 \in N
    <2>1. \A j \in 0 .. 0 : j = 0
      OBVIOUS
    <2> QED
      BY <1>1, <2>1
  <1>3. ASSUME NEW m \in N PROVE m + 1 \in N
    <2> SUFFICES ASSUME m + 1 <= n
                 PROVE  P[m + 1] \in Nat /\ \A j \in 0 .. m + 1 : P[j] \in Nat /\ P[j] + (m + 1 - j) <= P[m + 1]
      OBVIOUS
    <2>1. m \in Nat /\ m <= n /\ m + 1 \in 1 .. n /\ (m + 1) - 1 = m
      OBVIOUS
    <2>2. P[m] \in Nat /\ \A j \in 0 .. m : P[j] \in Nat /\ P[j] + (m - j) <= P[m]
      BY <2>1
    <2>3. P[m + 1] = P[m] + Width(s, m + 1) /\ Width(s, m + 1) \in {1, 2}
      BY <1>1, <2>1 DEF Width
    <2>4. P[m + 1] \in Nat /\ P[m + 1] >= P[m] + 1
      BY <2>2, <2>3
    <2>5. ASSUME NEW j \in 0 .. m + 1 PROVE P[j] \in Nat /\ P[j] + (m + 1 - j) <= P[m + 1]
      <3>1. CASE j = m + 1
        BY <2>1, <2>4, <3>1
      <3>2. CASE j # m + 1
        <4>1. j \in 0 .. m
          BY <2>1, <3>2
        <4>2. P[j] \in Nat /\ P[j] + (m - j) <= P[m] /\ j \in Nat
          BY <2>2, <4>1
        <4> QED
          BY <2>1, <2>2, <2>4, <4>2
      <3> QED
        BY <3>1, <3>2
    <2> QED
      BY <2>4, <2>5
  <1> HIDE DEF N
  <1>4. N \in SUBSET Nat
    BY DEF N
  <1>5. N = Nat
    BY <1>2, <1>3, <1>4, NatInduct
  <1>6. i \in N /\ i <= n
    BY <1>5
  <1> QED
    BY <1>6 DEF N

-----------------------------------------------------------------------------
(***************************************************************************)
(* The records that are there to be handed on, and those handed on.        *)
(***************************************************************************)
NoSkip(s, n) == \A m \in 1 .. n : s[m] # "skip"
IsWanted(p, i) ==
  i \in DOMAIN log[p] /\ ~Ignored(log[p][i]) /\ (command = "archive" \/ NoSkip(log[p], i - 1))

LEMMA IntoLog ==
  ASSUME NEW p \in Scanned, NEW i, IsWanted(p, i)
  PROVE  <<p, i>> \in TheLog
  BY DEF TheLog, Wanted, IsWanted, NoSkip

LEMMA FromLog ==
  ASSUME NEW x \in TheLog
  PROVE  x[1] \in Scanned /\ IsWanted(x[1], x[2]) /\ x = <<x[1], x[2]>>
  <1>1. PICK p \in Scanned : x \in Wanted(p)
    BY DEF TheLog
  <1>2. PICK i \in DOMAIN log[p] :
          x = <<p, i>> /\ ~Ignored(log[p][i])
          /\ (command = "archive" \/ \A m \in 1 .. i - 1 : log[p][m] # "skip")
    BY <1>1 DEF Wanted
  <1>3. x[1] = p /\ x[2] = i
    BY <1>2
  <1> QED
    BY <1>2, <1>3 DEF IsWanted, NoSkip

\* The input of the commands.
ContentOK(s) == s \in Seq(Kinds) /\ \E i \in DOMAIN s : s[i] = "skip"
InputInv ==
  /\ \A p \in Present : p \in Nat \ {0} /\ ContentOK(log[p])
  /\ command \in {"logcat", "archive", "agglog", "verifylog"}
  /\ \A kind \in types : kind \in {"plain", "wide"}
  /\ only \in Nat /\ (only # 0 => command = "logcat")

LEMMA ScannedIs ==
  ASSUME InputInv, NEW p \in Scanned
  PROVE  /\ p \in Nat \ {0} /\ ContentOK(log[p]) /\ p \in Present
         /\ Len(log[p]) \in Nat \ {0} /\ DOMAIN log[p] = 1 .. Len(log[p])
  <1>1. p \in Present
    BY DEF Scanned
  <1>2. p \in Nat \ {0} /\ log[p] \in Seq(Kinds) /\ \E i \in DOMAIN log[p] : log[p][i] = "skip"
    BY <1>1 DEF InputInv, ContentOK
  <1>3. Len(log[p]) \in Nat /\ DOMAIN log[p] = 1 .. Len(log[p])
    BY <1>2
  <1>4. Len(log[p]) # 0
    BY <1>2, <1>3
  <1> QED
    BY <1>1, <1>2, <1>3, <1>4 DEF ContentOK

LEMMA RecordIs ==
  ASSUME InputInv, NEW x \in TheLog
  PROVE  x[1] \in Nat \ {0} /\ x[2] \in Nat \ {0} /\ x[2] \in 1 .. Len(log[x[1]])
  <1>1. x[1] \in Scanned /\ x[2] \in DOMAIN log[x[1]]
    BY FromLog DEF IsWanted
  <1> QED
    BY <1>1, ScannedIs

\* The records of the partitions up to q; and of those before q, and i of q itself.
Whole(q) == {x \in TheLog : x[1] <= q}
Upto(q, i) == {x \in TheLog : x[1] < q \/ (x[1] = q /\ x[2] <= i)}
Ascending(h) == \A m, n \in DOMAIN h : m < n => Precedes(h[m], h[n])
Records == Nat \X Nat

LEMMA RangeOfAppend ==
  ASSUME NEW h \in Seq(Records), Ascending(h), NEW x \in Records, \A y \in Range(h) : Precedes(y, x)
  PROVE  /\ Append(h, x) \in Seq(Records) /\ Ascending(Append(h, x))
         /\ Range(Append(h, x)) = Range(h) \cup {x}
  <1>1. PICK g : g = Append(h, x)
    OBVIOUS
  <1>2. PICK l : l = Len(h)
    OBVIOUS
  <1>3. /\ l \in Nat /\ DOMAIN h = 1 .. l
        /\ g \in Seq(Records) /\ DOMAIN g = 1 .. l + 1 /\ g[l + 1] = x
        /\ \A k \in 1 .. l : g[k] = h[k]
    BY <1>1, <1>2
  <1>4. Range(g) = Range(h) \cup {x}
    BY <1>3 DEF Range
  <1>5. ASSUME NEW m \in DOMAIN g, NEW n \in DOMAIN g, m < n PROVE Precedes(g[m], g[n])
    <2>1. m \in 1 .. l /\ n \in Nat /\ (n \in 1 .. l \/ n = l + 1)
      BY <1>3, <1>5
    <2>2. g[m] = h[m] /\ h[m] \in Range(h)
      BY <1>3, <2>1 DEF Range
    <2>3. CASE n \in 1 .. l
      BY <1>3, <1>5, <2>1, <2>3 DEF Ascending
    <2>4. CASE n = l + 1
      BY <1>3, <2>2, <2>4
    <2> QED
      BY <2>1, <2>3, <2>4
  <1> QED
    BY <1>1, <1>3, <1>4, <1>5 DEF Ascending

LEMMA LenIsN ==
  ASSUME NEW S, NEW n \in Nat, NEW r \in [1 .. n -> S]
  PROVE  r \in Seq(S) /\ Len(r) = n
  BY SeqDef

LEMMA RangeOfRun ==
  ASSUME NEW h \in Seq(Records), Ascending(h), NEW p \in Nat, NEW n \in Nat,
         \A y \in Range(h) : y[1] < p
  PROVE  /\ h \o [i \in 1 .. n |-> <<p, i>>] \in Seq(Records)
         /\ Ascending(h \o [i \in 1 .. n |-> <<p, i>>])
         /\ Range(h \o [i \in 1 .. n |-> <<p, i>>]) = Range(h) \cup {<<p, i>> : i \in 1 .. n}
  <1>1. PICK r : r = [i \in 1 .. n |-> <<p, i>>]
    OBVIOUS
  <1>2. \A i \in 1 .. n : <<p, i>> \in Records
    BY DEF Records
  <1>3. r \in [1 .. n -> Records]
    BY <1>1, <1>2
  <1>4. r \in Seq(Records) /\ Len(r) = n
    BY <1>3, LenIsN
  <1>5. PICK g : g = h \o r
    OBVIOUS
  <1>6. PICK l : l = Len(h)
    OBVIOUS
  <1>7. /\ l \in Nat /\ g \in Seq(Records) /\ Len(g) = l + n
        /\ \A k \in 1 .. l + n : g[k] = IF k <= l THEN h[k] ELSE r[k - l]
    <2>1. g \in Seq(Records)
      BY <1>4, <1>5
    <2> QED
      BY <1>4, <1>5, <1>6, <2>1, Concat
  <1>8. DOMAIN h = 1 .. l /\ DOMAIN g = 1 .. l + n
    BY <1>6, <1>7
  <1>9. \A k \in 1 .. l : k \in 1 .. l + n /\ g[k] = h[k] /\ h[k] \in Range(h)
    BY <1>7, <1>8 DEF Range
  <1>10. ASSUME NEW k \in 1 .. l + n, ~(k <= l) PROVE k - l \in 1 .. n /\ g[k] = <<p, k - l>>
    <2>1. k - l \in 1 .. n
      BY <1>7, <1>10
    <2> QED
      BY <1>1, <1>7, <1>10, <2>1
  <1>11. ASSUME NEW i \in 1 .. n PROVE l + i \in 1 .. l + n /\ g[l + i] = <<p, i>>
    <2>1. l + i \in 1 .. l + n /\ ~(l + i <= l) /\ (l + i) - l = i
      BY <1>7
    <2> QED
      BY <1>10, <2>1
  <1>12. Range(g) = Range(h) \cup {<<p, i>> : i \in 1 .. n}
    <2>1. ASSUME NEW y \in Range(g) PROVE y \in Range(h) \cup {<<p, i>> : i \in 1 .. n}
      <3>1. PICK k \in 1 .. l + n : y = g[k]
        BY <1>8 DEF Range
      <3>2. CASE k <= l
        <4>1. k \in 1 .. l
          BY <1>7, <3>2
        <4> QED
          BY <1>9, <3>1, <4>1
      <3>3. CASE ~(k <= l)
        BY <1>10, <3>1, <3>3
      <3> QED
        BY <3>2, <3>3
    <2>2. ASSUME NEW y \in Range(h) PROVE y \in Range(g)
      BY <1>8, <1>9, <2>2 DEF Range
    <2>3. ASSUME NEW i \in 1 .. n PROVE <<p, i>> \in Range(g)
      BY <1>8, <1>11 DEF Range
    <2> QED
      BY <2>1, <2>2, <2>3
  <1>13. ASSUME NEW a \in DOMAIN g, NEW b \in DOMAIN g, a < b PROVE Precedes(g[a], g[b])
    <2>1. a \in 1 .. l + n /\ b \in 1 .. l + n
      BY <1>8
    <2>2. CASE b <= l
      <3>1. a \in 1 .. l /\ b \in 1 .. l
        BY <1>7, <1>13, <2>1, <2>2
      <3> QED
        BY <1>8, <1>9, <1>13, <3>1 DEF Ascending
    <2>3. CASE ~(b <= l) /\ a <= l
      <3>0. a \in 1 .. l
        BY <1>7, <2>1, <2>3
      <3>1. a \in 1 .. l /\ g[b] = <<p, b - l>>
        BY <1>10, <2>1, <2>3, <3>0
      <3>2. g[a][1] < p
        BY <1>9, <3>1
      <3> QED
        BY <3>1, <3>2 DEF Precedes
    <2>4. CASE ~(b <= l) /\ ~(a <= l)
      <3>0. a - l < b - l
        BY <1>7, <1>13, <2>1
      <3>1. g[a] = <<p, a - l>> /\ g[b] = <<p, b - l>> /\ a - l < b - l
        BY <1>10, <2>1, <2>4, <3>0
      <3> QED
        BY <3>1 DEF Precedes
    <2> QED
      BY <2>2, <2>3, <2>4
  <1> QED
    BY <1>1, <1>5, <1>7, <1>12, <1>13 DEF Ascending

-----------------------------------------------------------------------------
(***************************************************************************)
(* The inductive invariant.                                                *)
(***************************************************************************)
StateInv ==
  /\ pnum \in Nat /\ fpos \in Nat /\ half \in BOOLEAN
  /\ handled \in Seq(Records) /\ Ascending(handled)
  /\ status \in {"open", "read", "cut", "done", "threw", "wild"}
  /\ command = "archive" => half = FALSE

\* Between two files.
OpenInv ==
  status = "open" =>
    /\ pnum # 0 => pnum \in Scanned /\ only = 0
    /\ half = FALSE /\ Range(handled) = Whole(pnum)

\* In a file: the first i records were handed on, and the next cell is the first one behind
\* them or, of a record whose half was kept, the second.
Start(P, i) == P[i] + (IF half THEN 1 ELSE 0)
Between(c, P, i) ==
  /\ Start(P, i) <= fpos /\ fpos <= Len(c)
  /\ status = "read" => Start(P, i) = fpos
  /\ status = "cut" => block = SubSeq(c, Start(P, i) + 1, fpos) /\ (half => Start(P, i) < fpos)
AtRecord(s, n, c, i) ==
  /\ NoSkip(s, i)
  /\ half => i + 1 \in 1 .. n /\ s[i + 1] = "wide"
  /\ \E P : LaidOut(s, n, c, P) /\ Between(c, P, i)
\* The skip was read.
Ended(s, n, c, i) ==
  i \in 1 .. n /\ s[i] = "skip" /\ status = "read" /\ ~half /\ fpos = Len(c)
InFile(s, n, c, i) ==
  Range(handled) = Upto(pnum, i) /\ (AtRecord(s, n, c, i) \/ Ended(s, n, c, i))

ReadInv ==
  status \in {"read", "cut"} =>
    /\ command # "archive" /\ pnum \in Scanned /\ (only # 0 => pnum = only)
    /\ \E i \in 0 .. Len(log[pnum]) : InFile(log[pnum], Len(log[pnum]), Cells(pnum), i)

EndInv ==
  /\ status = "done" => Range(handled) = TheLog
  /\ status \in {"threw", "wild"} => Range(handled) = Whole(pnum)

ScanInv == InputInv /\ StateInv /\ OpenInv /\ ReadInv /\ EndInv

-----------------------------------------------------------------------------
(***************************************************************************)
(* What does not change, and the order of the files.                       *)
(***************************************************************************)
LEMMA InputStays ==
  ASSUME InputInv, UNCHANGED input
  PROVE  /\ InputInv' /\ log' = log /\ command' = command /\ types' = types /\ only' = only
         /\ Present' = Present /\ Scanned' = Scanned /\ TheLog' = TheLog
         /\ \A q : Whole(q)' = Whole(q)
         /\ \A q, i : Upto(q, i)' = Upto(q, i)
         /\ \A p : Cells(p)' = Cells(p)
  <1>1. log' = log /\ command' = command /\ types' = types /\ only' = only
    BY DEF input
  <1>2. Present' = Present
    BY <1>1 DEF Present
  <1>3. Scanned' = Scanned
    BY <1>1, <1>2 DEF Scanned
  <1>4. InputInv'
    BY <1>1, <1>2 DEF InputInv
  <1>5. \A k : Ignored(k)' <=> Ignored(k)
    BY <1>1 DEF Ignored
  <1>6. \A p : Wanted(p)' = Wanted(p)
    BY <1>1, <1>5 DEF Wanted
  <1>7. TheLog' = TheLog
    BY <1>3, <1>6 DEF TheLog
  <1>8. /\ \A q : Whole(q)' = Whole(q)
        /\ \A q, i : Upto(q, i)' = Upto(q, i)
    BY <1>7 DEF Whole, Upto
  <1>9. \A p : Cells(p)' = Cells(p)
    BY <1>1 DEF Cells
  <1> QED
    BY <1>1, <1>2, <1>3, <1>4, <1>7, <1>8, <1>9

LEMMA SkipHandled == ~Ignored("skip")
  BY DEF Ignored

\* The lowest partition, and the ones that follow.
LEMMA MinIs ==
  ASSUME InputInv, NEW S \in SUBSET Present, S # {}
  PROVE  Min(S) \in S /\ \A x \in S : Min(S) <= x
  <1>1. S \in SUBSET Nat
    BY DEF InputInv
  <1>2. \E x \in S : \A y \in S : x <= y
    BY <1>1, NatMin
  <1> QED
    BY <1>2 DEF Min

LEMMA FirstScanned ==
  ASSUME InputInv, only = 0, Present # {}
  PROVE  Min(Present) \in Scanned /\ \A x \in Scanned : Min(Present) <= x
  <1>1. Min(Present) \in Present /\ \A x \in Present : Min(Present) <= x
    BY MinIs
  <1>2. PICK m : m = Min(Present)
    OBVIOUS
  <1>3. m \in Nat /\ \A q \in Present : q \in Nat
    BY <1>1, <1>2 DEF InputInv
  <1>4. \A q \in Present : \A r \in q .. m : r = m
    BY <1>1, <1>2, <1>3
  <1> QED
    BY <1>1, <1>2, <1>4 DEF Scanned

LEMMA NextScanned ==
  ASSUME InputInv, only = 0, NEW p \in Scanned, p + 1 \in Present
  PROVE  p + 1 \in Scanned
  <1>1. p \in Nat /\ \A q \in Present : q \in Nat
    BY ScannedIs DEF InputInv
  <1>2. \A q \in Present : \A r \in q .. p : r \in Present
    BY DEF Scanned
  <1>3. ASSUME NEW q \in Present, NEW r \in q .. p + 1 PROVE r \in Present
    <2>1. r = p + 1 \/ r \in q .. p
      BY <1>1, <1>3
    <2> QED
      BY <1>2, <2>1
  <1> QED
    BY <1>3 DEF Scanned

LEMMA NoneBetween ==
  ASSUME InputInv, only = 0, NEW p \in Scanned, NEW x \in Scanned, p < x
  PROVE  p + 1 \in Present /\ p + 1 <= x
  <1>1. p \in Nat /\ x \in Nat /\ p \in Present
    BY ScannedIs
  <1>2. p + 1 \in p .. x
    BY <1>1
  <1> QED
    BY <1>1, <1>2 DEF Scanned

\* Whole(q) and Upto(p, 0) of the next partition p are the same.
LEMMA UptoNone ==
  ASSUME InputInv, NEW q \in Nat, NEW p \in Nat, q < p,
         \A x \in Scanned : q < x => p <= x
  PROVE  Upto(p, 0) = Whole(q)
  <1>1. ASSUME NEW x \in TheLog PROVE (x[1] < p \/ (x[1] = p /\ x[2] <= 0)) <=> x[1] <= q
    <2>1. x[1] \in Nat /\ x[2] \in Nat \ {0} /\ x[1] \in Scanned
      BY RecordIs, FromLog
    <2> QED
      BY <2>1
  <1> QED
    BY <1>1 DEF Upto, Whole

LEMMA WholeOfNone == ASSUME InputInv PROVE Whole(0) = {}
  <1>1. ASSUME NEW x \in TheLog PROVE ~(x[1] <= 0)
    BY RecordIs
  <1> QED
    BY <1>1 DEF Whole

LEMMA WholeOfAll ==
  ASSUME InputInv, NEW q, \A x \in Scanned : x <= q
  PROVE  Whole(q) = TheLog
  BY FromLog DEF Whole

\* One record more.
LEMMA UptoMore ==
  ASSUME InputInv, NEW p \in Scanned, NEW i \in Nat
  PROVE  /\ IsWanted(p, i + 1) => Upto(p, i + 1) = Upto(p, i) \cup {<<p, i + 1>>}
         /\ ~IsWanted(p, i + 1) => Upto(p, i + 1) = Upto(p, i)
         /\ \A y \in Upto(p, i) : Precedes(y, <<p, i + 1>>)
  <1>1. p \in Nat
    BY ScannedIs
  <1>2. ASSUME NEW x \in TheLog
        PROVE  /\ x[1] = p /\ x[2] <= i + 1 <=> (x[1] = p /\ x[2] <= i) \/ x = <<p, i + 1>>
               /\ x[1] = p /\ x[2] = i + 1 => IsWanted(p, i + 1)
    <2>1. x[1] \in Nat /\ x[2] \in Nat /\ IsWanted(x[1], x[2]) /\ x = <<x[1], x[2]>>
      BY RecordIs, FromLog
    <2>2. x[2] <= i + 1 <=> x[2] <= i \/ x[2] = i + 1
      BY <2>1
    <2>3. x = <<p, i + 1>> <=> x[1] = p /\ x[2] = i + 1
      BY <2>1
    <2> QED
      BY <2>1, <2>2, <2>3
  <1>3. ASSUME IsWanted(p, i + 1) PROVE Upto(p, i + 1) = Upto(p, i) \cup {<<p, i + 1>>}
    <2>1. <<p, i + 1>> \in TheLog
      BY <1>3, IntoLog
    <2>2. <<p, i + 1>>[1] = p /\ <<p, i + 1>>[2] = i + 1
      OBVIOUS
    <2> QED
      BY <1>2, <2>1, <2>2 DEF Upto
  <1>4. ASSUME ~IsWanted(p, i + 1) PROVE Upto(p, i + 1) = Upto(p, i)
    <2>1. ASSUME NEW x \in TheLog PROVE x[1] = p /\ x[2] <= i + 1 <=> x[1] = p /\ x[2] <= i
      <3>1. ~(x[1] = p /\ x[2] = i + 1)
        BY <1>2, <1>4
      <3>2. x[2] \in Nat
        BY RecordIs
      <3> QED
        BY <3>1, <3>2
    <2> QED
      BY <2>1 DEF Upto
  <1>5. ASSUME NEW y \in Upto(p, i) PROVE Precedes(y, <<p, i + 1>>)
    <2>1. y \in TheLog /\ (y[1] < p \/ (y[1] = p /\ y[2] <= i))
      BY DEF Upto
    <2>2. y[2] \in Nat
      BY <2>1, RecordIs
    <2>3. <<p, i + 1>>[1] = p /\ <<p, i + 1>>[2] = i + 1
      OBVIOUS
    <2>4. y[2] <= i => y[2] < i + 1
      BY <2>2
    <2> QED
      BY <2>1, <2>3, <2>4 DEF Precedes
  <1> QED
    BY <1>3, <1>4, <1>5

\* A partition is over at its skip.
LEMMA UptoSkip ==
  ASSUME InputInv, command # "archive", NEW p \in Scanned, NEW i \in 1 .. Len(log[p]),
         log[p][i] = "skip"
  PROVE  Upto(p, i) = Whole(p)
  <1>1. p \in Nat /\ Len(log[p]) \in Nat /\ i \in Nat
    BY ScannedIs
  <1>2. ASSUME NEW x \in TheLog, x[1] = p PROVE x[2] <= i
    <2>1. x[2] \in Nat \ {0} /\ IsWanted(p, x[2])
      BY <1>2, RecordIs, FromLog
    <2>2. NoSkip(log[p], x[2] - 1)
      BY <2>1 DEF IsWanted
    <2>3. ~(i \in 1 .. x[2] - 1)
      BY <2>2 DEF NoSkip
    <2> QED
      BY <1>1, <2>1, <2>3
  <1>3. ASSUME NEW x \in TheLog PROVE (x[1] < p \/ (x[1] = p /\ x[2] <= i)) <=> x[1] <= p
    <2>1. x[1] \in Nat
      BY RecordIs
    <2> QED
      BY <1>1, <1>2, <2>1
  <1> QED
    BY <1>3 DEF Upto, Whole

-----------------------------------------------------------------------------
(***************************************************************************)
(* Where the cells of a block are.                                         *)
(***************************************************************************)
LEMMA Segment ==
  ASSUME NEW S, NEW c \in Seq(S), NEW a \in Nat, NEW b \in Nat, a <= b, b <= Len(c)
  PROVE  /\ SubSeq(c, a + 1, b) \in Seq(S) /\ Len(SubSeq(c, a + 1, b)) = b - a
         /\ \A k \in 1 .. b - a : SubSeq(c, a + 1, b)[k] = c[a + k]
  <1>1. PICK g : g = SubSeq(c, a + 1, b)
    OBVIOUS
  <1>2. PICK l \in Nat : l = b - a
    OBVIOUS
  <1>3. g = [k \in 1 .. l |-> c[a + k]]
    <2>1. g = [k \in 1 .. (b - (a + 1)) + 1 |-> c[(k + (a + 1)) - 1]]
      BY <1>1
    <2>2. (b - (a + 1)) + 1 = l
      BY <1>2
    <2>3. \A k \in 1 .. l : (k + (a + 1)) - 1 = a + k
      OBVIOUS
    <2> QED
      BY <2>1, <2>2, <2>3
  <1>4. \A k \in 1 .. l : a + k \in 1 .. Len(c)
    BY <1>2
  <1>5. g \in [1 .. l -> S]
    BY <1>3, <1>4
  <1> QED
    BY <1>1, <1>2, <1>3, <1>5, LenIsN

LEMMA SegmentRest ==
  ASSUME NEW S, NEW c \in Seq(S), NEW a \in Nat, NEW b \in Nat, a <= b, b <= Len(c),
         NEW w \in Nat, a + w <= b
  PROVE  SubSeq(SubSeq(c, a + 1, b), w + 1, b - a) = SubSeq(c, (a + w) + 1, b)
  <1>1. PICK g : g = SubSeq(c, a + 1, b)
    OBVIOUS
  <1>2. PICK l \in Nat : l = b - a
    OBVIOUS
  <1>3. g \in Seq(S) /\ Len(g) = l /\ \A k \in 1 .. l : g[k] = c[a + k]
    BY <1>1, <1>2, Segment
  <1>4. w <= l /\ l <= Len(g)
    BY <1>2, <1>3
  <1>5. PICK d : d = SubSeq(g, w + 1, l)
    OBVIOUS
  <1>6. d \in Seq(S) /\ Len(d) = l - w /\ \A k \in 1 .. l - w : d[k] = g[w + k]
    BY <1>3, <1>4, <1>5, Segment
  <1>7. PICK v \in Nat : v = a + w
    OBVIOUS
  <1>8. PICK e : e = SubSeq(c, v + 1, b)
    OBVIOUS
  <1>9. v <= b
    BY <1>7
  <1>10. e \in Seq(S) /\ Len(e) = b - v /\ \A k \in 1 .. b - v : e[k] = c[v + k]
    BY <1>8, <1>9, Segment
  <1>11. b - v = l - w /\ b - v \in Nat
    BY <1>2, <1>7, <1>9
  <1>12. ASSUME NEW k \in 1 .. b - v PROVE d[k] = e[k]
    <2>1. k \in 1 .. l - w /\ w + k \in 1 .. l /\ a + (w + k) = v + k
      BY <1>2, <1>7, <1>11
    <2> QED
      BY <1>3, <1>6, <1>10, <2>1
  <1>13. d = e
    <2>1. DOMAIN d = 1 .. b - v /\ DOMAIN e = 1 .. b - v
      BY <1>6, <1>10, <1>11
    <2>2. d = [k \in 1 .. b - v |-> d[k]] /\ e = [k \in 1 .. b - v |-> e[k]]
      BY <1>6, <1>10, <2>1
    <2> QED
      BY <1>12, <2>2
  <1> QED
    BY <1>1, <1>2, <1>5, <1>7, <1>8, <1>13

\* The state while a block is cut: n records in s with the cells c at the places P, of which
\* i were handed on.
Cutting(s, n, c, P, i) ==
  /\ n \in Nat /\ i \in 0 .. n /\ NoSkip(s, i)
  /\ half \in BOOLEAN /\ (half => i + 1 \in 1 .. n /\ s[i + 1] = "wide")
  /\ LaidOut(s, n, c, P)
  /\ fpos \in Nat /\ Start(P, i) <= fpos /\ fpos <= Len(c)
  /\ block = SubSeq(c, Start(P, i) + 1, fpos) /\ (half => Start(P, i) < fpos)

LEMMA StartIs ==
  ASSUME NEW s, NEW n, NEW c, NEW P, NEW i, Cutting(s, n, c, P, i)
  PROVE  /\ P[i] \in Nat /\ Start(P, i) \in Nat /\ Len(c) = P[n] /\ c \in Seq(CellSet)
         /\ Len(block) = fpos - Start(P, i)
  <1>1. P[i] \in Nat
    BY PlacesAscend DEF Cutting
  <1>2. Start(P, i) \in Nat
    BY <1>1 DEF Start, Cutting
  <1>3. Len(c) = P[n] /\ c \in Seq(CellSet)
    BY DEF Cutting, LaidOut
  <1>4. PICK a \in Nat : a = Start(P, i)
    BY <1>2
  <1>5. a <= fpos /\ fpos \in Nat /\ fpos <= Len(c) /\ block = SubSeq(c, a + 1, fpos)
    BY <1>4 DEF Cutting
  <1>6. Len(block) = fpos - a
    BY <1>3, <1>5, Segment
  <1> QED
    BY <1>1, <1>2, <1>3, <1>4, <1>6

\* The block begins with the record i + 1, or its second half.
LEMMA FirstCell ==
  ASSUME NEW s, NEW n, NEW c, NEW P, NEW i, Cutting(s, n, c, P, i), block # <<>>
  PROVE  /\ i + 1 \in 1 .. n /\ block[1][1] = i + 1
         /\ Start(P, i) < fpos
         /\ P[i + 1] = P[i] + Width(s, i + 1) /\ P[i + 1] \in Nat /\ P[i + 1] <= Len(c)
  <1>1. /\ P[i] \in Nat /\ Start(P, i) \in Nat /\ Len(c) = P[n] /\ c \in Seq(CellSet)
        /\ Len(block) = fpos - Start(P, i)
    BY StartIs
  <1>2. PICK a \in Nat : a = Start(P, i)
    BY <1>1
  <1>3. /\ n \in Nat /\ i \in 0 .. n /\ half \in BOOLEAN
        /\ half => i + 1 \in 1 .. n /\ s[i + 1] = "wide"
        /\ a <= fpos /\ fpos \in Nat /\ fpos <= Len(c) /\ block = SubSeq(c, a + 1, fpos)
        /\ a = IF half THEN P[i] + 1 ELSE P[i]
        /\ LaidOut(s, n, c, P)
    BY <1>1, <1>2 DEF Cutting, Start
  <1>4. block \in Seq(CellSet) /\ \A k \in 1 .. fpos - a : block[k] = c[a + k]
    <2>1. c \in Seq(CellSet) /\ a <= fpos /\ fpos \in Nat /\ fpos <= Len(c)
      BY <1>1, <1>3
    <2>2. block = SubSeq(c, a + 1, fpos)
      BY <1>3
    <2>3. /\ SubSeq(c, a + 1, fpos) \in Seq(CellSet)
          /\ \A k \in 1 .. fpos - a : SubSeq(c, a + 1, fpos)[k] = c[a + k]
      BY ONLY <2>1, a \in Nat, Segment
    <2> QED
      BY <2>2, <2>3
  <1>5. a < fpos
    <2>1. Len(block) # 0
      BY <1>4
    <2> QED
      BY <1>1, <1>2, <1>3, <2>1
  <1>6. i + 1 \in 1 .. n
    <2>1. CASE i = n
      BY <1>1, <1>3, <1>5, <2>1
    <2>2. CASE i # n
      BY <1>3, <2>2
    <2> QED
      BY <2>1, <2>2
  <1>7. RecordAt(s, c, P, i + 1) /\ (i + 1) - 1 = i
    BY <1>3, <1>6 DEF LaidOut
  <1>8. /\ P[i + 1] = P[i] + Width(s, i + 1) /\ P[i + 1] <= Len(c)
        /\ c[P[i] + 1] = <<i + 1, 1>>
        /\ s[i + 1] = "wide" => c[P[i] + 2] = <<i + 1, 2>>
    BY <1>7 DEF RecordAt
  <1>9. block[1] = c[a + 1]
    <2>1. 1 \in 1 .. fpos - a
      BY <1>3, <1>5
    <2> QED
      BY <1>4, <2>1
  <1>10. block[1] = <<i + 1, 1>> \/ block[1] = <<i + 1, 2>>
    <2>1. CASE half
      <3>1. a + 1 = P[i] + 2 /\ s[i + 1] = "wide"
        BY <1>1, <1>3, <2>1
      <3> QED
        BY <1>8, <1>9, <3>1
    <2>2. CASE ~half
      BY <1>3, <1>8, <1>9, <2>2
    <2> QED
      BY <2>1, <2>2
  <1>11. P[i + 1] \in Nat
    BY <1>1, <1>8 DEF Width
  <1> QED
    BY <1>2, <1>5, <1>6, <1>8, <1>10, <1>11

-----------------------------------------------------------------------------
(***************************************************************************)
(* The invariant holds initially and in every step.                        *)
(***************************************************************************)
LEMMA ScanStarts == LogScanAssumption /\ Init => ScanInv
  <1> SUFFICES ASSUME LogScanAssumption, Init PROVE ScanInv
    OBVIOUS
  <1>1. InputInv
    <2>1. ASSUME NEW p \in Present PROVE p \in Nat \ {0} /\ ContentOK(log[p])
      <3>1. p \in Partitions /\ log[p] # Absent /\ log[p] \in Contents \cup {Absent}
        BY DEF Present, Init
      <3>2. log[p] \in Contents /\ p \in Nat \ {0}
        BY <3>1 DEF LogScanAssumption
      <3> QED
        BY <3>2 DEF LogScanAssumption, ContentOK
    <2>2. /\ command \in {"logcat", "archive", "agglog", "verifylog"}
          /\ only \in Partitions \cup {0} /\ (only # 0 => command = "logcat")
      BY DEF Init, LogCat, AggLog, VerifyLog
    <2>3. \A kind \in types : kind \in {"plain", "wide"}
      BY DEF Init, LogCat, AggLog, VerifyLog
    <2>4. only \in Nat
      BY <2>2 DEF LogScanAssumption
    <2> QED
      BY <2>1, <2>2, <2>3, <2>4 DEF InputInv
  <1>2. handled = <<>> /\ status = "open" /\ pnum = 0 /\ fpos = 0 /\ half = FALSE
    BY DEF Init
  <1>3. DOMAIN handled = {} /\ handled \in Seq(Records)
    BY <1>2
  <1>4. Range(handled) = {}
    BY <1>3 DEF Range
  <1>5. StateInv
    BY <1>2, <1>3 DEF StateInv, Ascending
  <1>6. OpenInv
    BY <1>1, <1>2, <1>4, WholeOfNone DEF OpenInv
  <1>7. ReadInv /\ EndInv
    BY <1>2 DEF ReadInv, EndInv
  <1> QED
    BY <1>1, <1>5, <1>6, <1>7 DEF ScanInv

\* The next file, which continues the ones before it.
LEMMA FileFollows ==
  ASSUME InputInv, StateInv, OpenInv, status = "open", NextFile \in Present
  PROVE  NextFile \in Scanned /\ Upto(NextFile, 0) = Whole(pnum)
         /\ (only # 0 => NextFile = only)
  <1>1. PICK p : p = NextFile
    OBVIOUS
  <1>2. p \in Present /\ p \in Nat \ {0} /\ pnum \in Nat
    BY <1>1 DEF InputInv, StateInv
  <1>3. CASE only # 0
    <2>1. p = only /\ pnum = 0
      BY <1>1, <1>3 DEF NextFile, OpenInv
    <2>2. Scanned = {p}
      BY <1>2, <1>3, <2>1 DEF Scanned
    <2>3. Upto(p, 0) = Whole(pnum)
      BY <1>2, <2>1, <2>2, UptoNone
    <2> QED
      BY <1>1, <2>1, <2>2, <2>3
  <1>4. CASE only = 0 /\ pnum = 0
    <2>1. Present # {} /\ p = Min(Present)
      BY <1>1, <1>2, <1>4 DEF NextFile
    <2>2. p \in Scanned /\ \A x \in Scanned : p <= x
      BY <1>4, <2>1, FirstScanned
    <2>3. pnum < p
      BY <1>2, <1>4
    <2>4. Upto(p, 0) = Whole(pnum)
      BY <1>2, <2>2, <2>3, UptoNone
    <2> QED
      BY <1>1, <1>4, <2>2, <2>4
  <1>5. CASE only = 0 /\ pnum # 0
    <2>1. p = pnum + 1 /\ pnum \in Scanned
      BY <1>1, <1>5 DEF NextFile, OpenInv
    <2>2. p \in Scanned
      BY <1>2, <1>5, <2>1, NextScanned
    <2>3. \A x \in Scanned : pnum < x => p <= x
      BY <1>5, <2>1, NoneBetween
    <2>4. pnum < p
      BY <1>2, <2>1
    <2>5. Upto(p, 0) = Whole(pnum)
      BY <1>2, <2>3, <2>4, UptoNone
    <2> QED
      BY <1>1, <1>5, <2>2, <2>5
  <1> QED
    BY <1>3, <1>4, <1>5

LEMMA CellsAre ==
  ASSUME InputInv, NEW p \in Scanned
  PROVE  \E P : LaidOut(log[p], Len(log[p]), Cells(p), P)
  <1>1. PICK n \in Nat \ {0} : n = Len(log[p])
    BY ScannedIs
  <1>2. Cells(p) = FlattenSeq(Pieces(log[p]))
    BY DEF Cells, Pieces, Piece
  <1> QED
    BY <1>1, <1>2, CellsLaidOut

LEMMA OpenKeeps == ScanInv /\ OpenFile => ScanInv'
  <1> SUFFICES ASSUME ScanInv, OpenFile PROVE ScanInv'
    OBVIOUS
  <1>1. InputInv /\ StateInv /\ OpenInv
    BY DEF ScanInv
  <1>2. /\ status = "open" /\ command # "archive" /\ NextFile \in Present
        /\ pnum' = NextFile /\ fpos' = 0 /\ status' = "read"
        /\ block' = block /\ half' = half /\ handled' = handled /\ UNCHANGED input
    BY DEF OpenFile
  <1>3. /\ InputInv' /\ log' = log /\ command' = command /\ only' = only /\ Scanned' = Scanned
        /\ \A q, i : Upto(q, i)' = Upto(q, i)
        /\ \A p : Cells(p)' = Cells(p)
    BY <1>1, <1>2, InputStays
  <1>4. PICK p : p = NextFile
    OBVIOUS
  <1>5. /\ p \in Scanned /\ Upto(p, 0) = Whole(pnum) /\ (only # 0 => p = only) /\ pnum' = p
    BY <1>1, <1>2, <1>4, FileFollows
  <1>6. half = FALSE /\ Range(handled) = Whole(pnum)
    BY <1>1, <1>2 DEF OpenInv
  <1>7. PICK P : LaidOut(log[p], Len(log[p]), Cells(p), P)
    BY <1>1, <1>5, CellsAre
  <1>8. p \in Nat /\ Len(log[p]) \in Nat
    BY <1>1, <1>5, ScannedIs
  <1>9. InFile(log[p], Len(log[p]), Cells(p), 0)'
    <2>1. PICK s : s = log[p]
      OBVIOUS
    <2>2. PICK n : n = Len(s)
      OBVIOUS
    <2>3. PICK c : c = Cells(p)
      OBVIOUS
    <2>4. NoSkip(s, 0) /\ P[0] = 0 /\ Len(c) \in Nat /\ LaidOut(s, n, c, P)
      BY <1>7, <2>1, <2>2, <2>3 DEF NoSkip, LaidOut
    <2>5. Between(c, P, 0)'
      BY <1>2, <1>6, <2>4 DEF Between, Start
    <2>6. AtRecord(s, n, c, 0)'
      BY <1>2, <1>6, <2>4, <2>5 DEF AtRecord
    <2>7. Range(handled)' = Upto(pnum, 0)'
      BY <1>2, <1>3, <1>5, <1>6
    <2>8. InFile(s, n, c, 0)'
      BY <2>6, <2>7 DEF InFile
    <2> QED
      BY <1>3, <2>1, <2>2, <2>3, <2>8
  <1>10. ReadInv'
    BY <1>2, <1>3, <1>5, <1>8, <1>9 DEF ReadInv
  <1>11. StateInv'
    BY <1>1, <1>2, <1>3, <1>5, <1>8 DEF StateInv
  <1>12. OpenInv' /\ EndInv'
    BY <1>2 DEF OpenInv, EndInv
  <1> QED
    BY <1>3, <1>10, <1>11, <1>12 DEF ScanInv

\* All that was there to be scanned was handed on.
LEMMA NoneFollows ==
  ASSUME InputInv, StateInv, OpenInv, status = "open", only = 0, NextFile \notin Present
  PROVE  Whole(pnum) = TheLog
  <1>1. CASE pnum = 0
    <2>1. Present = {}
      <3>1. Present # {} => Min(Present) \in Present
        BY <1>1, MinIs
      <3> QED
        BY <1>1, <3>1 DEF NextFile
    <2>2. Scanned = {}
      BY <2>1 DEF Scanned
    <2> QED
      BY <2>2, WholeOfAll
  <1>2. CASE pnum # 0
    <2>1. pnum \in Scanned /\ pnum + 1 \notin Present /\ pnum \in Nat
      BY <1>2 DEF NextFile, OpenInv, StateInv
    <2>2. ASSUME NEW x \in Scanned PROVE x <= pnum
      <3>1. x \in Nat
        BY ScannedIs
      <3>2. ~(pnum < x)
        BY <2>1, NoneBetween
      <3> QED
        BY <2>1, <3>1, <3>2
    <2> QED
      BY <2>2, WholeOfAll
  <1> QED
    BY <1>1, <1>2

LEMMA NoFileKeeps == ScanInv /\ NoFile => ScanInv'
  <1> SUFFICES ASSUME ScanInv, NoFile PROVE ScanInv'
    OBVIOUS
  <1>1. InputInv /\ StateInv /\ OpenInv
    BY DEF ScanInv
  <1>2. /\ status = "open" /\ NextFile \notin Present
        /\ only # 0 => status' = "threw"
        /\ only = 0 => status' = "done"
        /\ pnum' = pnum /\ fpos' = fpos /\ half' = half /\ handled' = handled /\ UNCHANGED input
    BY DEF NoFile, Finalize
  <1>3. /\ InputInv' /\ only' = only /\ command' = command /\ TheLog' = TheLog
        /\ \A q : Whole(q)' = Whole(q)
    BY <1>1, <1>2, InputStays
  <1>4. Range(handled) = Whole(pnum)
    BY <1>1, <1>2 DEF OpenInv
  <1>5. StateInv'
    BY <1>1, <1>2, <1>3 DEF StateInv
  <1>6. EndInv'
    <2>1. CASE only # 0
      <3>1. Whole(pnum)' = Whole(pnum)
        BY <1>2, <1>3
      <3> QED
        BY <1>2, <1>4, <2>1, <3>1 DEF EndInv
    <2>2. CASE only = 0
      BY <1>1, <1>2, <1>3, <1>4, <2>2, NoneFollows DEF EndInv
    <2> QED
      BY <2>1, <2>2
  <1>7. OpenInv' /\ ReadInv'
    BY <1>2 DEF OpenInv, ReadInv
  <1> QED
    BY <1>3, <1>5, <1>6, <1>7 DEF ScanInv

\* A file that is read has records, and as many cells as the layout says.
LEMMA FileIs ==
  ASSUME InputInv, ReadInv, status \in {"read", "cut"}
  PROVE  /\ command # "archive" /\ pnum \in Scanned /\ (only # 0 => pnum = only)
         /\ Len(log[pnum]) \in Nat \ {0}
         /\ \E i \in 0 .. Len(log[pnum]) : InFile(log[pnum], Len(log[pnum]), Cells(pnum), i)
  BY ScannedIs DEF ReadInv

LEMMA MinOfTwo ==
  ASSUME NEW a \in Nat, NEW b \in Nat
  PROVE  Min({a, b}) = IF a <= b THEN a ELSE b
  <1>1. CASE a <= b
    <2>1. \A x \in {a, b} : a <= x
      BY <1>1
    <2>2. \A x \in {a, b} : (\A y \in {a, b} : x <= y) => x = a
      BY <1>1
    <2> QED
      BY <1>1, <2>1, <2>2 DEF Min
  <1>2. CASE ~(a <= b)
    <2>1. \A x \in {a, b} : b <= x
      BY <1>2
    <2>2. \A x \in {a, b} : (\A y \in {a, b} : x <= y) => x = b
      BY <1>2
    <2> QED
      BY <1>2, <2>1, <2>2 DEF Min
  <1> QED
    BY <1>1, <1>2

LEMMA ReadKeeps == LogScanAssumption /\ ScanInv /\ ReadBlock => ScanInv'
  <1> SUFFICES ASSUME LogScanAssumption, ScanInv, ReadBlock PROVE ScanInv'
    OBVIOUS
  <1>1. InputInv /\ StateInv /\ ReadInv
    BY DEF ScanInv
  <1>2. /\ status = "read" /\ fpos < Len(Cells(pnum))
        /\ fpos' = Min({fpos + Block, Len(Cells(pnum))})
        /\ block' = SubSeq(Cells(pnum), fpos + 1, fpos')
        /\ status' = "cut" /\ pnum' = pnum /\ half' = half /\ handled' = handled /\ UNCHANGED input
    BY DEF ReadBlock
  <1>3. /\ InputInv' /\ log' = log /\ command' = command /\ only' = only /\ Scanned' = Scanned
        /\ \A q, i : Upto(q, i)' = Upto(q, i)
        /\ \A p : Cells(p)' = Cells(p)
    BY <1>1, <1>2, InputStays
  <1>4. PICK s : s = log[pnum]
    OBVIOUS
  <1>5. PICK n : n = Len(s)
    OBVIOUS
  <1>6. PICK c : c = Cells(pnum)
    OBVIOUS
  <1>7. /\ command # "archive" /\ pnum \in Scanned /\ (only # 0 => pnum = only)
        /\ n \in Nat \ {0} /\ \E i \in 0 .. n : InFile(s, n, c, i)
    BY <1>1, <1>2, <1>4, <1>5, <1>6, FileIs
  <1>8. PICK i \in 0 .. n : InFile(s, n, c, i)
    BY <1>7
  <1>9. AtRecord(s, n, c, i)
    BY <1>2, <1>6, <1>8 DEF InFile, Ended
  <1>10. PICK P : LaidOut(s, n, c, P) /\ Between(c, P, i)
    BY <1>9 DEF AtRecord
  <1>11. Start(P, i) = fpos
    BY <1>2, <1>10 DEF Between
  <1>12. fpos \in Nat /\ Block \in Nat \ {0} /\ Len(c) \in Nat
    BY <1>1, <1>10 DEF StateInv, LogScanAssumption, LaidOut
  <1>13. fpos' \in Nat /\ fpos < fpos' /\ fpos' <= Len(c)
    <2>1. fpos' = IF fpos + Block <= Len(c) THEN fpos + Block ELSE Len(c)
      BY <1>2, <1>6, <1>12, MinOfTwo
    <2> QED
      BY <1>2, <1>6, <1>12, <2>1
  <1>14. Between(c, P, i)'
    <2>1. Start(P, i)' = fpos
      BY <1>2, <1>11 DEF Start
    <2>2. block' = SubSeq(c, fpos + 1, fpos')
      BY <1>2, <1>6
    <2>3. block' = SubSeq(c, Start(P, i)' + 1, fpos')
      BY <2>1, <2>2
    <2>4. Start(P, i)' <= fpos' /\ Start(P, i)' < fpos'
      BY <1>12, <1>13, <2>1
    <2>5. status' # "read"
      BY <1>2
    <2> QED
      BY <1>13, <2>3, <2>4, <2>5 DEF Between
  <1>15. AtRecord(s, n, c, i)'
    BY <1>2, <1>9, <1>10, <1>14 DEF AtRecord
  <1>16. InFile(s, n, c, i)'
    <2>1. Range(handled)' = Upto(pnum, i)'
      BY <1>2, <1>3, <1>8 DEF InFile
    <2> QED
      BY <1>15, <2>1 DEF InFile
  <1>17. ReadInv'
    <2>1. (log[pnum])' = s /\ Cells(pnum)' = c
      BY <1>2, <1>3, <1>4, <1>6
    <2> QED
      BY <1>2, <1>3, <1>5, <1>7, <1>8, <1>16, <2>1 DEF ReadInv
  <1>18. StateInv'
    BY <1>1, <1>2, <1>3, <1>13 DEF StateInv
  <1>19. OpenInv' /\ EndInv'
    BY <1>2 DEF OpenInv, EndInv
  <1> QED
    BY <1>3, <1>17, <1>18, <1>19 DEF ScanInv

\* A file is read to its end only when its skip was seen.
LEMMA EndIsSkip ==
  ASSUME InputInv, StateInv, ReadInv, status = "read", fpos >= Len(Cells(pnum))
  PROVE  half = FALSE /\ Range(handled) = Whole(pnum)
  <1>1. PICK s : s = log[pnum]
    OBVIOUS
  <1>2. PICK n : n = Len(s)
    OBVIOUS
  <1>3. PICK c : c = Cells(pnum)
    OBVIOUS
  <1>4. /\ command # "archive" /\ pnum \in Scanned
        /\ n \in Nat \ {0} /\ \E i \in 0 .. n : InFile(s, n, c, i)
    BY <1>1, <1>2, <1>3, FileIs
  <1>5. PICK i \in 0 .. n : InFile(s, n, c, i)
    BY <1>4
  <1>6. ~AtRecord(s, n, c, i)
    <2> SUFFICES ASSUME AtRecord(s, n, c, i) PROVE FALSE
      OBVIOUS
    <2>1. PICK P : LaidOut(s, n, c, P) /\ Between(c, P, i)
      BY DEF AtRecord
    <2>2. PICK a : a = P[i]
      OBVIOUS
    <2>3. a \in Nat /\ n \in Nat /\ i \in Nat
      BY <1>4, <2>1, <2>2, PlacesAscend
    <2>4. Len(c) = P[n] /\ Len(c) \in Nat /\ fpos \in Nat /\ Start(P, i) = fpos /\ fpos = Len(c)
      <3>1. Start(P, i) = fpos /\ fpos <= Len(c) /\ fpos >= Len(c)
        BY <1>3, <2>1 DEF Between
      <3>2. Len(c) = P[n] /\ Len(c) \in Nat /\ fpos \in Nat
        BY <2>1 DEF LaidOut, StateInv
      <3> QED
        BY <3>1, <3>2
    <2>5. i = n
      <3>1. n \in 0 .. n /\ P[n] \in Nat /\ P[i] + (n - i) <= P[n]
        BY <2>1, <2>3, PlacesAscend
      <3>2. CASE half
        <4>1. i + 1 \in 1 .. n /\ s[i + 1] = "wide"
          BY <3>2 DEF AtRecord
        <4>2. RecordAt(s, c, P, i + 1) /\ (i + 1) - 1 = i
          BY <2>1, <2>3, <4>1 DEF LaidOut
        <4>3. P[i + 1] = a + 2 /\ P[i + 1] <= Len(c)
          BY <2>2, <4>1, <4>2 DEF RecordAt, Width
        <4>4. Start(P, i) = a + 1
          BY <2>2, <3>2 DEF Start
        <4> QED
          BY <2>3, <2>4, <4>3, <4>4
      <3>3. CASE ~half
        <4>1. Start(P, i) = a
          BY <2>2, <2>3, <3>3 DEF Start
        <4>2. a = P[n] /\ a + (n - i) <= a
          BY <2>2, <2>4, <3>1, <4>1
        <4> QED
          BY <2>3, <4>2, i \in 0 .. n
      <3> QED
        BY <3>2, <3>3
    <2>6. \E k \in 1 .. n : s[k] = "skip"
      BY <1>1, <1>2, <1>4, ScannedIs DEF ContentOK
    <2> QED
      BY <2>5, <2>6 DEF AtRecord, NoSkip
  <1>7. i \in 1 .. n /\ s[i] = "skip" /\ ~half /\ Range(handled) = Upto(pnum, i)
    BY <1>5, <1>6 DEF InFile, Ended
  <1>8. Upto(pnum, i) = Whole(pnum)
    BY <1>1, <1>2, <1>4, <1>7, UptoSkip
  <1>9. half \in BOOLEAN
    BY DEF StateInv
  <1> QED
    BY <1>7, <1>8, <1>9

LEMMA CloseKeeps == ScanInv /\ CloseFile => ScanInv'
  <1> SUFFICES ASSUME ScanInv, CloseFile PROVE ScanInv'
    OBVIOUS
  <1>1. InputInv /\ StateInv /\ ReadInv
    BY DEF ScanInv
  <1>2. /\ status = "read" /\ fpos >= Len(Cells(pnum))
        /\ only # 0 => status' = "done"
        /\ only = 0 => status' = "open"
        /\ pnum' = pnum /\ fpos' = fpos /\ half' = half /\ handled' = handled /\ UNCHANGED input
    BY DEF CloseFile, Finalize
  <1>3. /\ InputInv' /\ only' = only /\ command' = command /\ TheLog' = TheLog /\ Scanned' = Scanned
        /\ \A q : Whole(q)' = Whole(q)
    BY <1>1, <1>2, InputStays
  <1>4. half = FALSE /\ Range(handled) = Whole(pnum)
    BY <1>1, <1>2, EndIsSkip
  <1>5. pnum \in Scanned /\ (only # 0 => pnum = only)
    BY <1>1, <1>2, FileIs
  <1>6. StateInv'
    BY <1>1, <1>2, <1>3 DEF StateInv
  <1>7. EndInv'
    <2>1. CASE only # 0
      <3>1. \A x \in Scanned : x = pnum /\ pnum <= pnum
        BY <1>1, <1>5, <2>1, ScannedIs DEF Scanned
      <3>2. Whole(pnum) = TheLog
        BY <1>1, <3>1, WholeOfAll
      <3> QED
        BY <1>2, <1>3, <1>4, <2>1, <3>2 DEF EndInv
    <2>2. CASE only = 0
      BY <1>2, <2>2 DEF EndInv
    <2> QED
      BY <2>1, <2>2
  <1>8. OpenInv' /\ ReadInv'
    <2>1. CASE only # 0
      BY <1>2, <2>1 DEF OpenInv, ReadInv
    <2>2. CASE only = 0
      <3>1. Whole(pnum)' = Whole(pnum)
        BY <1>2, <1>3
      <3> QED
        BY <1>2, <1>3, <1>4, <1>5, <2>2, <3>1 DEF OpenInv, ReadInv
    <2> QED
      BY <2>1, <2>2
  <1> QED
    BY <1>3, <1>6, <1>7, <1>8 DEF ScanInv

LEMMA CutIs ==
  ASSUME InputInv, StateInv, ReadInv, status = "cut"
  PROVE  \E i \in 0 .. Len(log[pnum]) : \E P :
           Cutting(log[pnum], Len(log[pnum]), Cells(pnum), P, i) /\ Range(handled) = Upto(pnum, i)
  <1>1. PICK s : s = log[pnum]
    OBVIOUS
  <1>2. PICK n : n = Len(s)
    OBVIOUS
  <1>3. PICK c : c = Cells(pnum)
    OBVIOUS
  <1>4. n \in Nat \ {0} /\ \E i \in 0 .. n : InFile(s, n, c, i)
    BY <1>1, <1>2, <1>3, FileIs
  <1>5. PICK i \in 0 .. n : InFile(s, n, c, i)
    BY <1>4
  <1>6. AtRecord(s, n, c, i) /\ Range(handled) = Upto(pnum, i)
    BY <1>5 DEF InFile, Ended
  <1>7. PICK P : LaidOut(s, n, c, P) /\ Between(c, P, i)
    BY <1>6 DEF AtRecord
  <1>8. Cutting(s, n, c, P, i)
    BY <1>4, <1>6, <1>7 DEF Cutting, AtRecord, Between, StateInv
  <1> QED
    BY <1>1, <1>2, <1>3, <1>6, <1>8

LEMMA BlockKeeps == ScanInv /\ EndOfBlock => ScanInv'
  <1> SUFFICES ASSUME ScanInv, EndOfBlock PROVE ScanInv'
    OBVIOUS
  <1>1. InputInv /\ StateInv /\ ReadInv
    BY DEF ScanInv
  <1>2. /\ status = "cut"
        /\ block = <<>> \/ (Len(block) = 1 /\ ~half /\ log[pnum][block[1][1]] = "wide")
        /\ half' = (block # <<>>) /\ block' = <<>> /\ status' = "read"
        /\ pnum' = pnum /\ fpos' = fpos /\ handled' = handled /\ UNCHANGED input
    BY DEF EndOfBlock
  <1>3. /\ InputInv' /\ log' = log /\ command' = command /\ only' = only /\ Scanned' = Scanned
        /\ \A q, i : Upto(q, i)' = Upto(q, i)
        /\ \A p : Cells(p)' = Cells(p)
    BY <1>1, <1>2, InputStays
  <1>4. PICK s : s = log[pnum]
    OBVIOUS
  <1>5. PICK n : n = Len(s)
    OBVIOUS
  <1>6. PICK c : c = Cells(pnum)
    OBVIOUS
  <1>7. command # "archive" /\ pnum \in Scanned /\ (only # 0 => pnum = only)
    BY <1>1, <1>2, FileIs
  <1>16. PICK i \in 0 .. n : \E P : Cutting(s, n, c, P, i) /\ Range(handled) = Upto(pnum, i)
    <2>1. \E i \in 0 .. n : \E P : Cutting(s, n, c, P, i) /\ Range(handled) = Upto(pnum, i)
      BY <1>1, <1>2, <1>4, <1>5, <1>6, CutIs
    <2> QED
      BY <2>1
  <1>8. PICK P : Cutting(s, n, c, P, i) /\ Range(handled) = Upto(pnum, i)
    BY <1>16
  <1>9. /\ P[i] \in Nat /\ Start(P, i) \in Nat /\ c \in Seq(CellSet)
        /\ Len(block) = fpos - Start(P, i)
    BY <1>8, StartIs
  <1>10. /\ NoSkip(s, i) /\ LaidOut(s, n, c, P) /\ n \in Nat /\ half \in BOOLEAN
         /\ fpos \in Nat /\ Start(P, i) <= fpos /\ fpos <= Len(c)
         /\ half => Start(P, i) < fpos
    BY <1>8 DEF Cutting
  <1>11. AtRecord(s, n, c, i)'
    <2>1. CASE block = <<>>
      <3>1. Start(P, i) = fpos
        <4>1. Len(block) = 0
          BY <2>1
        <4> QED
          BY <1>9, <1>10, <4>1
      <3>2. half = FALSE /\ half' = FALSE
        BY <1>2, <1>9, <1>10, <2>1, <3>1
      <3>3. P[i] = fpos
        BY <1>9, <3>1, <3>2 DEF Start
      <3>4. Start(P, i)' = fpos
        BY <1>9, <3>2, <3>3 DEF Start
      <3>5. Between(c, P, i)'
        BY <1>2, <1>10, <3>4 DEF Between
      <3> QED
        BY <1>2, <1>10, <3>2, <3>5 DEF AtRecord
    <2>2. CASE block # <<>>
      <3>1. Len(block) = 1 /\ ~half /\ s[block[1][1]] = "wide" /\ half' = TRUE
        BY <1>2, <1>4, <2>2
      <3>2. i + 1 \in 1 .. n /\ block[1][1] = i + 1
        BY <1>8, <2>2, FirstCell
      <3>3. Start(P, i) = P[i]
        BY <1>9, <3>1 DEF Start
      <3>4. Start(P, i)' = fpos
        <4>1. Start(P, i)' = P[i] + 1
          BY <3>1 DEF Start
        <4>2. P[i] + 1 = fpos
          BY <1>9, <1>10, <3>1, <3>3
        <4> QED
          BY <4>1, <4>2
      <3>5. Between(c, P, i)'
        BY <1>2, <1>10, <3>4 DEF Between
      <3> QED
        BY <1>2, <1>10, <3>1, <3>2, <3>5 DEF AtRecord
    <2> QED
      BY <2>1, <2>2
  <1>12. InFile(s, n, c, i)'
    <2>1. Range(handled)' = Upto(pnum, i)'
      BY <1>2, <1>3, <1>8
    <2> QED
      BY <1>11, <2>1 DEF InFile
  <1>13. ReadInv'
    <2>1. (log[pnum])' = s /\ Cells(pnum)' = c
      BY <1>2, <1>3, <1>4, <1>6
    <2> QED
      BY <1>2, <1>3, <1>5, <1>7, <1>8, <1>12, <2>1 DEF ReadInv
  <1>14. StateInv'
    BY <1>1, <1>2, <1>3, <1>7 DEF StateInv
  <1>15. OpenInv' /\ EndInv'
    BY <1>2 DEF OpenInv, EndInv
  <1> QED
    BY <1>3, <1>13, <1>14, <1>15 DEF ScanInv

\* What is handed on.
LEMMA HandedOn ==
  ASSUME InputInv, StateInv, command # "archive", pnum \in Scanned, NEW i \in Nat,
         i + 1 \in 1 .. Len(log[pnum]), Range(handled) = Upto(pnum, i), NoSkip(log[pnum], i),
         IF Ignored(log[pnum][i + 1]) THEN handled' = handled
           ELSE handled' = Append(handled, <<pnum, i + 1>>)
  PROVE  /\ handled' \in Seq(Records) /\ Ascending(handled')
         /\ Range(handled') = Upto(pnum, i + 1)
  <1>1. pnum \in Nat /\ DOMAIN log[pnum] = 1 .. Len(log[pnum])
    BY ScannedIs
  <1>2. IsWanted(pnum, i + 1) <=> ~Ignored(log[pnum][i + 1])
    <2>1. (i + 1) - 1 = i /\ i + 1 \in DOMAIN log[pnum]
      BY <1>1
    <2> QED
      BY <2>1 DEF IsWanted
  <1>3. handled \in Seq(Records) /\ Ascending(handled)
    BY DEF StateInv
  <1>4. CASE Ignored(log[pnum][i + 1])
    <2>1. handled' = handled
      BY <1>4
    <2>2. Upto(pnum, i + 1) = Upto(pnum, i)
      BY <1>2, <1>4, UptoMore
    <2> QED
      BY <1>3, <2>1, <2>2
  <1>5. CASE ~Ignored(log[pnum][i + 1])
    <2>1. PICK x : x = <<pnum, i + 1>>
      OBVIOUS
    <2>2. x \in Records
      BY <1>1, <2>1 DEF Records
    <2>3. \A y \in Range(handled) : Precedes(y, x)
      BY <2>1, UptoMore
    <2>4. Upto(pnum, i + 1) = Upto(pnum, i) \cup {x}
      BY <1>2, <1>5, <2>1, UptoMore
    <2>5. handled' = Append(handled, x)
      BY <1>5, <2>1
    <2>6. /\ Append(handled, x) \in Seq(Records) /\ Ascending(Append(handled, x))
          /\ Range(Append(handled, x)) = Range(handled) \cup {x}
      BY <1>3, <2>2, <2>3, RangeOfAppend
    <2> QED
      BY <2>4, <2>5, <2>6
  <1> QED
    BY <1>4, <1>5

\* The record i + 1 of the file is cut off the block.
LEMMA RecordCut ==
  ASSUME NEW s, NEW n, NEW c, NEW P, NEW i, Cutting(s, n, c, P, i), block # <<>>,
         NEW w, w = (IF s[i + 1] = "wide" /\ ~half THEN 2 ELSE 1), w <= Len(block), half' = FALSE
  PROVE  /\ fpos' = fpos /\ status' \in {"read", "cut"} /\ s[i + 1] # "skip" /\ status' = "cut"
              /\ block' = SubSeq(block, w + 1, Len(block))
            => AtRecord(s, n, c, i + 1)'
         /\ fpos' = Len(c) /\ status' = "read" /\ s[i + 1] = "skip" => Ended(s, n, c, i + 1)'
  <1>1. /\ P[i] \in Nat /\ Start(P, i) \in Nat /\ c \in Seq(CellSet)
        /\ Len(block) = fpos - Start(P, i)
    BY StartIs
  <1>2. /\ NoSkip(s, i) /\ LaidOut(s, n, c, P) /\ n \in Nat /\ i \in 0 .. n
        /\ fpos \in Nat /\ Start(P, i) <= fpos /\ fpos <= Len(c) /\ half \in BOOLEAN
        /\ half => s[i + 1] = "wide"
        /\ block = SubSeq(c, Start(P, i) + 1, fpos)
    BY DEF Cutting
  <1>3. i + 1 \in 1 .. n /\ P[i + 1] = P[i] + Width(s, i + 1) /\ P[i + 1] \in Nat
    BY FirstCell
  <1>4. PICK a \in Nat : a = Start(P, i)
    BY <1>1
  <1>5. w \in Nat /\ a + w = P[i + 1]
    <2>1. CASE half
      <3>1. a = P[i] + 1 /\ w = 1 /\ P[i + 1] = P[i] + 2
        BY <1>2, <1>3, <1>4, <2>1 DEF Start, Width
      <3> QED
        BY <1>1, <3>1
    <2>2. CASE ~half
      BY <1>1, <1>3, <1>4, <2>2 DEF Start, Width
    <2> QED
      BY <2>1, <2>2
  <1>6. a + w <= fpos
    BY <1>1, <1>2, <1>4, <1>5
  <1>7. ASSUME fpos' = fpos, s[i + 1] # "skip", status' = "cut",
               block' = SubSeq(block, w + 1, Len(block))
        PROVE  AtRecord(s, n, c, i + 1)'
    <2>1. NoSkip(s, i + 1)
      BY <1>2, <1>7 DEF NoSkip
    <2>2. Start(P, i + 1)' = P[i + 1]
      BY <1>3 DEF Start
    <2>3. block' = SubSeq(c, P[i + 1] + 1, fpos)
      <3>1. a <= fpos /\ fpos <= Len(c) /\ fpos \in Nat /\ c \in Seq(CellSet)
        BY <1>1, <1>2, <1>4
      <3>2. SubSeq(SubSeq(c, a + 1, fpos), w + 1, fpos - a) = SubSeq(c, (a + w) + 1, fpos)
        BY <1>5, <1>6, <3>1, SegmentRest
      <3>3. block = SubSeq(c, a + 1, fpos) /\ Len(block) = fpos - a
        BY <1>1, <1>2, <1>4
      <3> QED
        BY <1>5, <1>7, <3>2, <3>3
    <2>4. Between(c, P, i + 1)'
      <3>1. block' = SubSeq(c, Start(P, i + 1)' + 1, fpos')
        BY <1>7, <2>2, <2>3
      <3>2. Start(P, i + 1)' <= fpos' /\ fpos' <= Len(c) /\ status' # "read"
        BY <1>2, <1>5, <1>6, <1>7, <2>2
      <3> QED
        BY <3>1, <3>2 DEF Between
    <2> QED
      BY <1>2, <2>1, <2>4 DEF AtRecord
  <1>8. ASSUME fpos' = Len(c), status' = "read", s[i + 1] = "skip"
        PROVE  Ended(s, n, c, i + 1)'
    BY <1>3, <1>8 DEF Ended
  <1> QED
    BY <1>7, <1>8

LEMMA RecordKeeps == ScanInv /\ NextRecord => ScanInv'
  <1> SUFFICES ASSUME ScanInv, NextRecord PROVE ScanInv'
    OBVIOUS
  <1>1. InputInv /\ StateInv /\ ReadInv
    BY DEF ScanInv
  <1>2. PICK j : j = block[1][1]
    OBVIOUS
  <1>3. PICK w : w = IF log[pnum][j] = "wide" /\ ~half THEN 2 ELSE 1
    OBVIOUS
  <1>4. /\ status = "cut" /\ block # <<>> /\ w <= Len(block) /\ half' = FALSE
        /\ IF Ignored(log[pnum][j]) THEN handled' = handled
             ELSE handled' = Append(handled, <<pnum, j>>)
        /\ IF log[pnum][j] = "skip" /\ ~Ignored(log[pnum][j])
             THEN fpos' = Len(Cells(pnum)) /\ status' = "read"
             ELSE /\ block' = SubSeq(block, w + 1, Len(block))
                  /\ fpos' = fpos /\ status' = status
        /\ pnum' = pnum /\ UNCHANGED input
    BY <1>2, <1>3 DEF NextRecord, Handle
  <1>5. /\ InputInv' /\ log' = log /\ command' = command /\ only' = only /\ Scanned' = Scanned
        /\ \A q, i : Upto(q, i)' = Upto(q, i)
        /\ \A p : Cells(p)' = Cells(p)
    BY <1>1, <1>4, InputStays
  <1>6. PICK s : s = log[pnum]
    OBVIOUS
  <1>7. PICK n : n = Len(s)
    OBVIOUS
  <1>8. PICK c : c = Cells(pnum)
    OBVIOUS
  <1>9. command # "archive" /\ pnum \in Scanned /\ (only # 0 => pnum = only)
    BY <1>1, <1>4, FileIs
  <1>10. PICK i \in 0 .. n : \E P : Cutting(s, n, c, P, i) /\ Range(handled) = Upto(pnum, i)
    <2>1. \E i \in 0 .. n : \E P : Cutting(s, n, c, P, i) /\ Range(handled) = Upto(pnum, i)
      BY <1>1, <1>4, <1>6, <1>7, <1>8, CutIs
    <2> QED
      BY <2>1
  <1>11. PICK P : Cutting(s, n, c, P, i) /\ Range(handled) = Upto(pnum, i)
    BY <1>10
  <1>12. j = i + 1 /\ i + 1 \in 1 .. n /\ i \in Nat /\ NoSkip(s, i) /\ fpos \in Nat /\ n \in Nat
    <2>1. j = i + 1 /\ i + 1 \in 1 .. n
      BY <1>2, <1>4, <1>11, FirstCell
    <2> QED
      BY <2>1, <1>11 DEF Cutting
  <1>13. /\ handled' \in Seq(Records) /\ Ascending(handled')
         /\ Range(handled') = Upto(pnum, i + 1)
    BY <1>1, <1>4, <1>6, <1>7, <1>9, <1>11, <1>12, HandedOn
  <1>14. w = IF s[i + 1] = "wide" /\ ~half THEN 2 ELSE 1
    BY <1>3, <1>6, <1>12
  <1>15. /\ fpos' = fpos /\ status' \in {"read", "cut"} /\ s[i + 1] # "skip" /\ status' = "cut"
              /\ block' = SubSeq(block, w + 1, Len(block))
            => AtRecord(s, n, c, i + 1)'
         /\ fpos' = Len(c) /\ status' = "read" /\ s[i + 1] = "skip" => Ended(s, n, c, i + 1)'
    BY <1>4, <1>11, <1>14, RecordCut
  <1>16. AtRecord(s, n, c, i + 1)' \/ Ended(s, n, c, i + 1)'
    <2>1. CASE s[i + 1] = "skip"
      <3>1. fpos' = Len(c) /\ status' = "read"
        BY <1>4, <1>6, <1>8, <1>12, <2>1, SkipHandled
      <3> QED
        BY <1>15, <2>1, <3>1
    <2>2. CASE s[i + 1] # "skip"
      BY <1>4, <1>6, <1>12, <1>15, <2>2
    <2> QED
      BY <2>1, <2>2
  <1>17. InFile(s, n, c, i + 1)'
    <2>1. Range(handled)' = Upto(pnum, i + 1)'
      BY <1>4, <1>5, <1>13
    <2> QED
      BY <1>16, <2>1 DEF InFile
  <1>18. status' \in {"read", "cut"} /\ fpos' \in Nat
    <2>1. Len(c) \in Nat
      BY <1>11 DEF Cutting, LaidOut
    <2> QED
      BY <1>4, <1>8, <1>12, <2>1
  <1>19. ReadInv'
    <2>1. (log[pnum])' = s /\ Cells(pnum)' = c /\ i + 1 \in 0 .. n
      BY <1>4, <1>5, <1>6, <1>8, <1>12
    <2>2. \E k \in 0 .. n : InFile(s, n, c, k)'
      BY <1>17, <2>1
    <2> QED
      BY <1>4, <1>5, <1>7, <1>9, <2>1, <2>2 DEF ReadInv
  <1>20. StateInv'
    BY <1>1, <1>4, <1>5, <1>13, <1>18 DEF StateInv
  <1>21. OpenInv' /\ EndInv'
    BY <1>18 DEF OpenInv, EndInv
  <1> QED
    BY <1>5, <1>19, <1>20, <1>21 DEF ScanInv

\* The runs of an archive.
LEMMA RunFollows ==
  ASSUME InputInv, StateInv, OpenInv, status = "open", command = "archive", NEW p,
         {q \in Present : q > pnum} # {}, p = Min({q \in Present : q > pnum}),
         pnum # 0 => p = pnum + 1
  PROVE  /\ p \in Scanned /\ p \in Nat /\ pnum < p
         /\ Whole(p) = Whole(pnum) \cup {<<p, i>> : i \in 1 .. Len(log[p])}
  <1>1. only = 0 /\ pnum \in Nat
    BY DEF InputInv, StateInv
  <1>2. p \in Present /\ p > pnum /\ \A q \in Present : q > pnum => p <= q
    <2>1. {q \in Present : q > pnum} \in SUBSET Present
      OBVIOUS
    <2> QED
      BY <2>1, MinIs
  <1>3. p \in Scanned
    <2>1. CASE pnum = 0
      <3>1. Present = {q \in Present : q > pnum}
        BY <1>1, <2>1 DEF InputInv
      <3> QED
        BY <1>1, <3>1, FirstScanned
    <2>2. CASE pnum # 0
      <3>1. pnum \in Scanned
        BY <2>2 DEF OpenInv
      <3> QED
        BY <1>1, <1>2, <2>2, <3>1, NextScanned
    <2> QED
      BY <2>1, <2>2
  <1>4. p \in Nat /\ DOMAIN log[p] = 1 .. Len(log[p])
    BY <1>3, ScannedIs
  <1>5. ASSUME NEW i \in 1 .. Len(log[p]) PROVE <<p, i>> \in TheLog
    <2>1. IsWanted(p, i)
      BY <1>4 DEF IsWanted, Ignored
    <2> QED
      BY <1>3, <2>1, IntoLog
  <1>6. ASSUME NEW x \in TheLog, x[1] <= p, ~(x[1] <= pnum)
        PROVE  \E i \in 1 .. Len(log[p]) : x = <<p, i>>
    <2>1. /\ x[1] \in Present /\ x[1] \in Nat /\ x[2] \in 1 .. Len(log[x[1]])
          /\ x = <<x[1], x[2]>>
      BY FromLog, RecordIs, ScannedIs
    <2>2. x[1] = p
      <3>1. PICK z \in Nat : z = x[1]
        BY <2>1
      <3>2. z \in Present /\ z <= p /\ z > pnum
        BY <1>1, <1>6, <2>1, <3>1
      <3>3. p <= z
        BY <1>2, <3>2
      <3> QED
        BY <1>4, <3>1, <3>2, <3>3
    <2> QED
      BY <2>1, <2>2
  <1>7. ASSUME NEW x \in TheLog, x[1] <= pnum PROVE x[1] <= p
    <2>1. x[1] \in Nat
      BY RecordIs
    <2> QED
      BY <1>1, <1>2, <1>4, <1>7, <2>1
  <1>8. \A i : <<p, i>>[1] = p
    OBVIOUS
  <1>9. Whole(p) = Whole(pnum) \cup {<<p, i>> : i \in 1 .. Len(log[p])}
    <2>1. ASSUME NEW x \in Whole(p) PROVE x \in Whole(pnum) \cup {<<p, i>> : i \in 1 .. Len(log[p])}
      BY <1>6, <2>1 DEF Whole
    <2>2. ASSUME NEW x \in Whole(pnum) PROVE x \in Whole(p)
      BY <1>7, <2>2 DEF Whole
    <2>3. ASSUME NEW i \in 1 .. Len(log[p]) PROVE <<p, i>> \in Whole(p)
      BY <1>4, <1>5, <1>8 DEF Whole
    <2> QED
      BY <2>1, <2>2, <2>3
  <1> QED
    BY <1>2, <1>3, <1>4, <1>9

LEMMA RunKeeps == ScanInv /\ ScanRun => ScanInv'
  <1> SUFFICES ASSUME ScanInv, ScanRun PROVE ScanInv'
    OBVIOUS
  <1>1. InputInv /\ StateInv /\ OpenInv
    BY DEF ScanInv
  <1>2. PICK p : p = Min({q \in Present : q > pnum})
    OBVIOUS
  <1>3. /\ status = "open" /\ command = "archive"
        /\ {q \in Present : q > pnum} # {} /\ (pnum # 0 => p = pnum + 1)
        /\ handled' = handled \o [i \in 1 .. Len(log[p]) |-> <<p, i>>]
        /\ pnum' = p /\ status' = status /\ fpos' = fpos /\ half' = half /\ UNCHANGED input
    BY <1>2 DEF ScanRun
  <1>4. /\ InputInv' /\ log' = log /\ command' = command /\ only' = only /\ Scanned' = Scanned
        /\ \A q : Whole(q)' = Whole(q)
    BY <1>1, <1>3, InputStays
  <1>5. /\ p \in Scanned /\ p \in Nat /\ pnum < p
        /\ Whole(p) = Whole(pnum) \cup {<<p, i>> : i \in 1 .. Len(log[p])}
    BY <1>1, <1>2, <1>3, RunFollows
  <1>6. Range(handled) = Whole(pnum) /\ handled \in Seq(Records) /\ Ascending(handled)
        /\ pnum \in Nat /\ half = FALSE
    BY <1>1, <1>3 DEF OpenInv, StateInv
  <1>7. Len(log[p]) \in Nat
    BY <1>1, <1>5, ScannedIs
  <1>8. \A y \in Range(handled) : y[1] < p
    <2> TAKE y \in Range(handled)
    <2>1. y \in TheLog /\ y[1] <= pnum
      BY <1>6 DEF Whole
    <2>2. y[1] \in Nat
      BY <1>1, <2>1, RecordIs
    <2> QED
      BY <1>5, <1>6, <2>1, <2>2
  <1>9. handled' \in Seq(Records) /\ Ascending(handled') /\ Range(handled') = Whole(p)
    BY <1>3, <1>5, <1>6, <1>7, <1>8, RangeOfRun
  <1>10. StateInv'
    BY <1>1, <1>3, <1>4, <1>5, <1>9 DEF StateInv
  <1>11. OpenInv'
    <2>1. Whole(pnum)' = Whole(p)
      BY <1>3, <1>4
    <2>2. only' = 0
      BY <1>1, <1>3, <1>4 DEF InputInv
    <2> QED
      BY <1>3, <1>4, <1>5, <1>6, <1>9, <2>1, <2>2 DEF OpenInv
  <1>12. ReadInv' /\ EndInv'
    BY <1>3 DEF ReadInv, EndInv
  <1> QED
    BY <1>4, <1>10, <1>11, <1>12 DEF ScanInv

LEMMA RunsEnd == ScanInv /\ (HoleInRuns \/ NoMoreRuns) => ScanInv'
  <1> SUFFICES ASSUME ScanInv, HoleInRuns \/ NoMoreRuns PROVE ScanInv'
    OBVIOUS
  <1>1. InputInv /\ StateInv /\ OpenInv
    BY DEF ScanInv
  <1>2. /\ status = "open" /\ status' \in {"threw", "wild", "done"}
        /\ status' = "done" => \A p \in Present : p <= pnum
        /\ pnum' = pnum /\ fpos' = fpos /\ half' = half /\ handled' = handled /\ UNCHANGED input
    BY DEF HoleInRuns, NoMoreRuns
  <1>3. /\ InputInv' /\ command' = command /\ TheLog' = TheLog
        /\ \A q : Whole(q)' = Whole(q)
    BY <1>1, <1>2, InputStays
  <1>4. Range(handled) = Whole(pnum)
    BY <1>1, <1>2 DEF OpenInv
  <1>5. StateInv'
    BY <1>1, <1>2, <1>3 DEF StateInv
  <1>6. EndInv'
    <2>1. CASE status' = "done"
      <3>1. Scanned \subseteq Present
        BY DEF Scanned
      <3>2. Whole(pnum) = TheLog
        BY <1>1, <1>2, <2>1, <3>1, WholeOfAll
      <3> QED
        BY <1>2, <1>3, <1>4, <2>1, <3>2 DEF EndInv
    <2>2. CASE status' # "done"
      <3>1. Whole(pnum)' = Whole(pnum)
        BY <1>2, <1>3
      <3> QED
        BY <1>2, <1>4, <2>2, <3>1 DEF EndInv
    <2> QED
      BY <2>1, <2>2
  <1>7. OpenInv' /\ ReadInv'
    BY <1>2 DEF OpenInv, ReadInv
  <1> QED
    BY <1>3, <1>5, <1>6, <1>7 DEF ScanInv

LEMMA ScanStutters == ScanInv /\ UNCHANGED vars => ScanInv'
  <1> SUFFICES ASSUME ScanInv, UNCHANGED vars PROVE ScanInv'
    OBVIOUS
  <1>1. /\ UNCHANGED input /\ status' = status /\ pnum' = pnum /\ fpos' = fpos
        /\ block' = block /\ half' = half /\ handled' = handled
    BY DEF vars
  <1>2. InputInv
    BY DEF ScanInv
  <1>3. /\ InputInv' /\ log' = log /\ command' = command /\ only' = only /\ Scanned' = Scanned
        /\ TheLog' = TheLog
        /\ \A q : Whole(q)' = Whole(q)
        /\ \A q, i : Upto(q, i)' = Upto(q, i)
        /\ \A p : Cells(p)' = Cells(p)
    BY <1>1, <1>2, InputStays
  <1>4. StateInv'
    BY <1>1, <1>3 DEF ScanInv, StateInv
  <1>5. OpenInv' /\ EndInv'
    <2>1. Whole(pnum)' = Whole(pnum)
      BY <1>1, <1>3
    <2> QED
      BY <1>1, <1>3, <2>1 DEF ScanInv, OpenInv, EndInv
  <1>6. ReadInv'
    <2>1. PICK s : s = log[pnum]
      OBVIOUS
    <2>2. PICK c : c = Cells(pnum)
      OBVIOUS
    <2>3. (log[pnum])' = s /\ Cells(pnum)' = c
      BY <1>1, <1>3, <2>1, <2>2
    <2>4. \A i : InFile(s, Len(s), c, i) => InFile(s, Len(s), c, i)'
      <3>1. \A i : Upto(pnum, i)' = Upto(pnum, i)
        BY <1>1, <1>3
      <3>2. \A P, i : Between(c, P, i) => Between(c, P, i)'
        BY <1>1 DEF Between, Start
      <3>3. \A i : AtRecord(s, Len(s), c, i) => AtRecord(s, Len(s), c, i)'
        BY <1>1, <3>2 DEF AtRecord
      <3>4. \A i : Ended(s, Len(s), c, i) => Ended(s, Len(s), c, i)'
        BY <1>1 DEF Ended
      <3> QED
        BY <1>1, <3>1, <3>3, <3>4 DEF InFile
    <2> QED
      BY <1>1, <1>3, <2>1, <2>2, <2>3, <2>4 DEF ScanInv, ReadInv
  <1> QED
    BY <1>3, <1>4, <1>5, <1>6 DEF ScanInv

-----------------------------------------------------------------------------
(***************************************************************************)
(* What agglog counts.                                                     *)
(***************************************************************************)
DumpSet == [ticks : Nat, counts : [Kinds -> Nat]]
DumpedOf(d, kind) == MapThenSumSet(LAMBDA n : d[n].counts[kind], DOMAIN d)
OfKind(kind) == {x \in Range(handled) : KindOf(x) = kind}

CountInv ==
  command = "agglog" =>
    /\ tick \in Nat /\ counts \in [Kinds -> Nat] /\ dumps \in Seq(DumpSet)
    /\ IsFiniteSet(Range(handled))
    /\ \A kind \in types : Dumped(kind) + counts[kind] = Cardinality(OfKind(kind))
    /\ status = "done" => \A kind \in types : counts[kind] = 0

\* The sum of what was printed, as MapThenSumSet adds it up.
LEMMA DumpedIs ==
  ASSUME NEW d, NEW kind, NEW T, IsFiniteSet(T), DOMAIN d = T,
         NEW w, \A n \in T : w[n] = d[n].counts[kind]
  PROVE  DumpedOf(d, kind) = SumOf(w, T)
  <1> DEFINE R(g) == g = [s \in SUBSET T |-> IF s = {} THEN 0
                                              ELSE d[Pick(s)].counts[kind] + g[s \ {Pick(s)}]]
  <1>1. DumpedOf(d, kind) = (CHOOSE g : R(g))[T]
    BY DEF DumpedOf, MapThenSumSet, MapThenFoldSet, Pick
  <1>2. ASSUME NEW g PROVE R(g) <=> SumRec(w, T, g)
    <2>1. \A s \in SUBSET T : s # {} => w[Pick(s)] = d[Pick(s)].counts[kind]
      BY PickIn
    <2>2. \A s \in SUBSET T :
            SumBody(w, g, s) = IF s = {} THEN 0 ELSE d[Pick(s)].counts[kind] + g[s \ {Pick(s)}]
      BY <2>1 DEF SumBody
    <2> QED
      BY <2>2 DEF SumRec
  <1> HIDE DEF R
  <1>3. \E g : R(g)
    BY <1>2, SumExists
  <1>4. SumRec(w, T, CHOOSE g : R(g))
    BY <1>2, <1>3
  <1>5. PICK h : IsSum(w, T, h)
    BY SumIs
  <1>6. (CHOOSE g : R(g))[T] = h[T]
    BY <1>4, <1>5, SumUnique DEF IsSum
  <1> QED
    BY <1>1, <1>5, <1>6 DEF IsSum

LEMMA DumpedNone == ASSUME NEW kind PROVE DumpedOf(<<>>, kind) = 0
  <1>1. PICK w : w = [n \in {} |-> 0]
    OBVIOUS
  <1>2. DOMAIN <<>> = {} /\ IsFiniteSet({})
    BY FS_EmptySet
  <1>3. \A n \in {} : w[n] = <<>>[n].counts[kind]
    OBVIOUS
  <1>4. DumpedOf(<<>>, kind) = SumOf(w, {})
    BY <1>2, <1>3, DumpedIs
  <1> QED
    BY <1>4, SumOfNone

LEMMA DumpedNat ==
  ASSUME NEW d \in Seq(DumpSet), NEW kind \in Kinds
  PROVE  DumpedOf(d, kind) \in Nat
  <1>1. PICK l \in Nat : l = Len(d)
    OBVIOUS
  <1>2. DOMAIN d = 1 .. l /\ IsFiniteSet(1 .. l)
    BY <1>1, FS_Interval
  <1>3. PICK w : w = [n \in 1 .. l |-> d[n].counts[kind]]
    OBVIOUS
  <1>4. \A n \in 1 .. l : w[n] = d[n].counts[kind] /\ w[n] \in Nat
    <2> TAKE n \in 1 .. l
    <2>1. d[n] \in DumpSet
      BY <1>2
    <2> QED
      BY <1>3, <2>1 DEF DumpSet
  <1>5. DumpedOf(d, kind) = SumOf(w, 1 .. l)
    BY <1>2, <1>4, DumpedIs
  <1>6. SumOf(w, 1 .. l) \in Nat
    BY <1>2, <1>4, SumIsNat
  <1> QED
    BY <1>5, <1>6

\* One line more.
LEMMA DumpedMore ==
  ASSUME NEW d \in Seq(DumpSet), NEW r \in DumpSet, NEW kind \in Kinds
  PROVE  /\ Append(d, r) \in Seq(DumpSet)
         /\ DumpedOf(Append(d, r), kind) = DumpedOf(d, kind) + r.counts[kind]
  <1>1. PICK l \in Nat : l = Len(d)
    OBVIOUS
  <1>2. DOMAIN d = 1 .. l /\ IsFiniteSet(1 .. l) /\ IsFiniteSet(1 .. l + 1)
    BY <1>1, FS_Interval
  <1>3. PICK e : e = Append(d, r)
    OBVIOUS
  <1>4. e \in Seq(DumpSet) /\ DOMAIN e = 1 .. l + 1 /\ e[l + 1] = r
        /\ \A n \in 1 .. l : e[n] = d[n]
    BY <1>1, <1>3
  <1>5. PICK w : w = [n \in 1 .. l + 1 |-> e[n].counts[kind]]
    OBVIOUS
  <1>6. \A n \in 1 .. l + 1 : w[n] = e[n].counts[kind] /\ w[n] \in Int
    <2> TAKE n \in 1 .. l + 1
    <2>1. e[n] \in DumpSet
      BY <1>4
    <2> QED
      BY <1>5, <2>1 DEF DumpSet
  <1>7. \A n \in 1 .. l : n \in 1 .. l + 1 /\ w[n] = d[n].counts[kind]
    BY <1>4, <1>6
  <1>8. DumpedOf(e, kind) = SumOf(w, 1 .. l + 1)
    BY <1>2, <1>4, <1>6, DumpedIs
  <1>9. DumpedOf(d, kind) = SumOf(w, 1 .. l)
    BY <1>2, <1>7, DumpedIs
  <1>10. l + 1 \in 1 .. l + 1 /\ (1 .. l + 1) \ {l + 1} = 1 .. l
    OBVIOUS
  <1>11. SumOf(w, 1 .. l + 1) = w[l + 1] + SumOf(w, 1 .. l)
    <2>1. PICK T : T = 1 .. l + 1
      OBVIOUS
    <2>2. PICK x : x = l + 1
      OBVIOUS
    <2>3. IsFiniteSet(T) /\ x \in T /\ T \ {x} = 1 .. l /\ \A y \in T : w[y] \in Int
      BY <1>2, <1>6, <1>10, <2>1, <2>2
    <2>4. SumOf(w, T) = w[x] + SumOf(w, T \ {x})
      BY ONLY <2>3, SumRemoves
    <2> QED
      BY ONLY <2>1, <2>2, <2>3, <2>4
  <1>12. w[l + 1] = r.counts[kind] /\ w[l + 1] \in Int /\ SumOf(w, 1 .. l) \in Int
    <2>1. w[l + 1] = r.counts[kind] /\ w[l + 1] \in Int
      BY <1>4, <1>6, <1>10
    <2>2. SumOf(w, 1 .. l) \in Int
      BY <1>2, <1>6, <1>7, SumType
    <2> QED
      BY <2>1, <2>2
  <1> QED
    BY <1>3, <1>4, <1>8, <1>9, <1>11, <1>12

\* The types are kinds.
LEMMA TypesAre == InputInv => \A kind \in types : kind \in Kinds /\ kind # "tick"
  BY DEF InputInv, Kinds

\* A new record.
LEMMA OneMoreOfKind ==
  ASSUME NEW p, NEW j, NEW k, k = log[p][j], handled' = Append(handled, <<p, j>>), log' = log,
         handled \in Seq(Records), handled' \in Seq(Records), Ascending(handled'),
         IsFiniteSet(Range(handled))
  PROVE  /\ IsFiniteSet(Range(handled)')
         /\ \A kind : Cardinality(OfKind(kind)') =
              IF kind = k THEN Cardinality(OfKind(kind)) + 1 ELSE Cardinality(OfKind(kind))
         /\ \A kind : Cardinality(OfKind(kind)) \in Nat
  <1>1. PICK x : x = <<p, j>>
    OBVIOUS
  <1>2. PICK l \in Nat : l = Len(handled)
    OBVIOUS
  <1>3. x \in Records
    <2>1. PICK g : g = handled'
      OBVIOUS
    <2>2. g \in Seq(Records) /\ g = Append(handled, x)
      BY <1>1, <2>1
    <2>3. g[l + 1] = x /\ l + 1 \in 1 .. Len(g)
      BY ONLY <1>2, <2>2, handled \in Seq(Records)
    <2> QED
      BY ONLY <2>2, <2>3
  <1>4. /\ DOMAIN handled = 1 .. l /\ DOMAIN handled' = 1 .. l + 1
        /\ handled'[l + 1] = x
        /\ \A m \in 1 .. l : handled'[m] = handled[m]
    BY <1>1, <1>2, <1>3
  <1>5. Range(handled)' = Range(handled) \cup {x}
    BY <1>4 DEF Range
  <1>6. x \notin Range(handled)
    <2> SUFFICES ASSUME x \in Range(handled) PROVE FALSE
      OBVIOUS
    <2>1. PICK m \in 1 .. l : handled[m] = x
      BY <1>4 DEF Range
    <2>2. m < l + 1 /\ m \in DOMAIN handled' /\ l + 1 \in DOMAIN handled'
      BY <1>4
    <2>3. Precedes(handled'[m], handled'[l + 1])
      BY <2>2 DEF Ascending
    <2>4. Precedes(x, x)
      BY <1>4, <2>1, <2>3
    <2>5. x[1] \in Nat /\ x[2] \in Nat
      BY <1>3 DEF Records
    <2> QED
      BY <2>4, <2>5 DEF Precedes
  <1>7. KindOf(x) = log[p][j] /\ \A y : KindOf(y)' = KindOf(y)
    <2>1. x[1] = p /\ x[2] = j
      BY <1>1
    <2> QED
      BY <2>1 DEF KindOf
  <1>8. IsFiniteSet(Range(handled)')
    BY <1>5, FS_AddElement
  <1>9. ASSUME NEW kind
        PROVE  /\ Cardinality(OfKind(kind)') =
                    IF kind = k THEN Cardinality(OfKind(kind)) + 1
                                        ELSE Cardinality(OfKind(kind))
               /\ Cardinality(OfKind(kind)) \in Nat
    <2>1. PICK S : S = OfKind(kind)
      OBVIOUS
    <2>2. S \subseteq Range(handled) /\ x \notin S
      BY <1>6, <2>1 DEF OfKind
    <2>3. IsFiniteSet(S)
      BY <2>2, FS_Subset
    <2>4. Cardinality(S) \in Nat /\ Cardinality(S \cup {x}) = Cardinality(S) + 1
      BY <2>2, <2>3, FS_CardinalityType, FS_AddElement
    <2>5. OfKind(kind)' = IF kind = k THEN S \cup {x} ELSE S
      BY <1>5, <1>7, <2>1 DEF OfKind
    <2> QED
      BY <2>1, <2>4, <2>5
  <1> QED
    BY <1>8, <1>9

LEMMA CountStarts == LogScanAssumption /\ Init => CountInv
  <1> SUFFICES ASSUME LogScanAssumption, Init, command = "agglog" PROVE CountInv
    BY DEF CountInv
  <1>1. /\ handled = <<>> /\ dumps = <<>> /\ counts = NoCounts /\ status = "open"
        /\ tick \in Garbage /\ \A kind \in types : kind \in Kinds
    BY DEF Init, LogCat, AggLog, VerifyLog, NoCounts, Kinds
  <1>2. tick \in Nat /\ counts \in [Kinds -> Nat] /\ \A kind \in Kinds : counts[kind] = 0
    BY <1>1 DEF LogScanAssumption, NoCounts
  <1>3. Range(handled) = {}
    BY <1>1 DEF Range
  <1>4. IsFiniteSet({}) /\ Cardinality({}) = 0
    BY FS_EmptySet
  <1>5. ASSUME NEW kind \in types PROVE Dumped(kind) + counts[kind] = Cardinality(OfKind(kind))
    <2>1. OfKind(kind) = {}
      BY <1>3 DEF OfKind
    <2>2. Dumped(kind) = DumpedOf(dumps, kind)
      BY DEF Dumped, DumpedOf
    <2>3. Dumped(kind) = 0
      BY <1>1, <2>2, DumpedNone
    <2> QED
      BY <1>1, <1>2, <1>4, <2>1, <2>3
  <1>6. dumps \in Seq(DumpSet)
    BY <1>1
  <1> QED
    BY <1>1, <1>2, <1>3, <1>4, <1>5, <1>6 DEF CountInv

\* Dumped looks at dumps alone.
LEMMA DumpedNow ==
  ASSUME NEW kind
  PROVE  Dumped(kind) = DumpedOf(dumps, kind) /\ Dumped(kind)' = DumpedOf(dumps', kind)
  <1>1. Dumped(kind) = DumpedOf(dumps, kind)
    BY DEF Dumped, DumpedOf
  <1>2. Dumped(kind)' = DumpedOf(dumps', kind)
    BY DEF Dumped, DumpedOf, MapThenSumSet, MapThenFoldSet
  <1> QED
    BY <1>1, <1>2

LEMMA CountStays ==
  ASSUME InputInv, CountInv, UNCHANGED input, handled' = handled,
         command = "agglog" => UNCHANGED agg /\ (status' = "done" => status = "done")
  PROVE  CountInv'
  <1>1. log' = log /\ command' = command /\ types' = types
    BY InputStays
  <1> SUFFICES ASSUME command = "agglog" PROVE CountInv'
    BY <1>1 DEF CountInv
  <1>2. tick' = tick /\ counts' = counts /\ dumps' = dumps
    BY DEF agg
  <1>3. ASSUME NEW kind PROVE OfKind(kind)' = OfKind(kind) /\ Dumped(kind)' = Dumped(kind)
    <2>1. \A x : KindOf(x)' = KindOf(x)
      BY <1>1 DEF KindOf
    <2> QED
      BY <1>2, <2>1, DumpedNow DEF OfKind, Range
  <1>4. Range(handled)' = Range(handled)
    BY DEF Range
  <1> QED
    BY <1>1, <1>2, <1>3, <1>4 DEF CountInv

\* A line is printed: what was counted moves into it.
LEMMA LinePrinted ==
  ASSUME NEW ticks \in Nat, counts \in [Kinds -> Nat], dumps \in Seq(DumpSet),
         dumps' = Dump(ticks, counts), counts' = NoCounts
  PROVE  /\ dumps' \in Seq(DumpSet) /\ counts' \in [Kinds -> Nat]
         /\ \A kind \in Kinds : /\ counts'[kind] = 0
                                /\ Dumped(kind)' = Dumped(kind) + counts[kind]
  <1>1. PICK r : r = [ticks |-> ticks, counts |-> counts]
    OBVIOUS
  <1>2. r \in DumpSet /\ r.counts = counts
    BY <1>1 DEF DumpSet
  <1>3. dumps' = Append(dumps, r)
    BY <1>1 DEF Dump
  <1>4. ASSUME NEW kind \in Kinds
        PROVE  dumps' \in Seq(DumpSet) /\ Dumped(kind)' = Dumped(kind) + counts[kind]
    <2>1. /\ Append(dumps, r) \in Seq(DumpSet)
          /\ DumpedOf(Append(dumps, r), kind) = DumpedOf(dumps, kind) + r.counts[kind]
      BY <1>2, DumpedMore
    <2> QED
      BY <1>2, <1>3, <2>1, DumpedNow
  <1>5. dumps' \in Seq(DumpSet)
    BY <1>2, <1>3
  <1>6. counts' \in [Kinds -> Nat] /\ \A kind \in Kinds : counts'[kind] = 0
    BY DEF NoCounts
  <1> QED
    BY <1>4, <1>5, <1>6

LEMMA FinalCount ==
  ASSUME InputInv, CountInv, UNCHANGED input, handled' = handled, Finalize
  PROVE  CountInv'
  <1>1. log' = log /\ command' = command /\ types' = types
    BY InputStays
  <1> SUFFICES ASSUME command = "agglog" PROVE CountInv'
    BY <1>1 DEF CountInv
  <1>2. dumps' = Dump(tick, counts) /\ counts' = NoCounts /\ tick' = tick
    BY DEF Finalize
  <1>3. /\ tick \in Nat /\ counts \in [Kinds -> Nat] /\ dumps \in Seq(DumpSet)
        /\ IsFiniteSet(Range(handled))
        /\ \A kind \in types : Dumped(kind) + counts[kind] = Cardinality(OfKind(kind))
    BY DEF CountInv
  <1>4. /\ dumps' \in Seq(DumpSet) /\ counts' \in [Kinds -> Nat]
        /\ \A kind \in Kinds : counts'[kind] = 0 /\ Dumped(kind)' = Dumped(kind) + counts[kind]
    BY <1>2, <1>3, LinePrinted
  <1>5. \A kind : OfKind(kind)' = OfKind(kind)
    BY <1>1 DEF OfKind, KindOf, Range
  <1>6. ASSUME NEW kind \in types
        PROVE  counts'[kind] = 0 /\ Dumped(kind)' + counts'[kind] = Cardinality(OfKind(kind)')
    <2>1. kind \in Kinds
      BY TypesAre
    <2>2. counts'[kind] = 0 /\ Dumped(kind)' = Dumped(kind) + counts[kind]
      BY <1>4, <2>1
    <2>3. DumpedOf(dumps, kind) \in Nat /\ counts[kind] \in Nat
      BY <1>3, <2>1, DumpedNat
    <2>4. Dumped(kind) \in Nat
      BY <2>3, DumpedNow
    <2> QED
      BY <1>3, <1>5, <2>2, <2>3, <2>4
  <1>7. Range(handled)' = Range(handled)
    BY DEF Range
  <1> QED
    BY <1>1, <1>2, <1>3, <1>4, <1>6, <1>7 DEF CountInv

-----------------------------------------------------------------------------
\* A record of agglog: a tick, or one that is counted if it is of the types.
LEMMA RecordCounted ==
  ASSUME LogScanAssumption, ScanInv, CountInv, UNCHANGED input, command = "agglog", NEW i,
         ~Ignored(log[pnum][i]), status' # "done", ScanInv',
         handled' = Append(handled, <<pnum, i>>), Aggregate(log[pnum][i])
  PROVE  CountInv'
  <1>1. InputInv /\ log' = log /\ command' = command /\ types' = types
    BY InputStays DEF ScanInv
  <1>2. PICK k : k = log[pnum][i]
    OBVIOUS
  <1>3. /\ tick \in Nat /\ counts \in [Kinds -> Nat] /\ dumps \in Seq(DumpSet)
        /\ IsFiniteSet(Range(handled))
        /\ \A kind \in types : Dumped(kind) + counts[kind] = Cardinality(OfKind(kind))
    BY DEF CountInv
  <1>4. /\ IsFiniteSet(Range(handled)')
        /\ \A kind : Cardinality(OfKind(kind)') =
             IF kind = k THEN Cardinality(OfKind(kind)) + 1 ELSE Cardinality(OfKind(kind))
        /\ \A kind : Cardinality(OfKind(kind)) \in Nat
    <2>1. handled \in Seq(Records) /\ handled' \in Seq(Records) /\ Ascending(handled')
      BY DEF ScanInv, StateInv
    <2>2. PICK p : p = pnum
      OBVIOUS
    <2>3. k = log[p][i] /\ handled' = Append(handled, <<p, i>>) /\ log' = log
      BY <1>1, <1>2, <2>2
    <2> QED
      BY ONLY <1>3, <2>1, <2>3, OneMoreOfKind
  <1>5. ASSUME NEW kind \in types
        PROVE  /\ kind \in Kinds /\ kind # "tick"
               /\ Dumped(kind) \in Nat /\ counts[kind] \in Nat
    <2>1. kind \in Kinds /\ kind # "tick"
      BY <1>1, TypesAre
    <2>2. DumpedOf(dumps, kind) \in Nat
      BY <1>3, <2>1, DumpedNat
    <2> QED
      BY <1>3, <2>1, <2>2, DumpedNow
  <1>6. CASE k = "tick" /\ tick + 1 = Interval
    <2>1. tick' = 0 /\ dumps' = Dump(Interval, counts) /\ counts' = NoCounts
      BY <1>2, <1>6 DEF Aggregate
    <2>2. Interval \in Nat
      BY DEF LogScanAssumption
    <2>3. /\ dumps' \in Seq(DumpSet) /\ counts' \in [Kinds -> Nat]
          /\ \A kind \in Kinds : counts'[kind] = 0 /\ Dumped(kind)' = Dumped(kind) + counts[kind]
      BY <1>3, <2>1, <2>2, LinePrinted
    <2>4. ASSUME NEW kind \in types
          PROVE  Dumped(kind)' + counts'[kind] = Cardinality(OfKind(kind)')
      <3>1. counts'[kind] = 0 /\ Dumped(kind)' = Dumped(kind) + counts[kind]
        BY <1>5, <2>3
      <3>2. Cardinality(OfKind(kind)') = Dumped(kind) + counts[kind]
        BY <1>3, <1>4, <1>5, <1>6
      <3> QED
        BY <1>5, <3>1, <3>2
    <2> QED
      BY <1>1, <1>4, <2>1, <2>3, <2>4 DEF CountInv
  <1>7. CASE k = "tick" /\ tick + 1 # Interval
    <2>1. tick' = tick + 1 /\ counts' = counts /\ dumps' = dumps
      BY <1>2, <1>7 DEF Aggregate
    <2>2. ASSUME NEW kind \in types
          PROVE  Dumped(kind)' + counts'[kind] = Cardinality(OfKind(kind)')
      BY <1>3, <1>4, <1>5, <1>7, <2>1, DumpedNow
    <2> QED
      BY <1>1, <1>3, <1>4, <2>1, <2>2 DEF CountInv
  <1>8. CASE k # "tick"
    <2>1. /\ tick' = tick /\ dumps' = dumps
          /\ counts' = IF k \in types THEN [counts EXCEPT ![k] = @ + 1] ELSE counts
      BY <1>2, <1>8 DEF Aggregate
    <2>2. counts' \in [Kinds -> Nat] /\ \A kind \in types :
            counts'[kind] = IF kind = k THEN counts[kind] + 1 ELSE counts[kind]
      <3>1. k \in types => k \in Kinds /\ counts[k] + 1 \in Nat
        BY <1>5
      <3>2. \A kind \in types : kind \in Kinds
        BY <1>5
      <3> QED
        BY <1>3, <2>1, <3>1, <3>2
    <2>3. ASSUME NEW kind \in types
          PROVE  Dumped(kind)' + counts'[kind] = Cardinality(OfKind(kind)')
      <3>1. Dumped(kind)' = Dumped(kind)
        BY <2>1, DumpedNow
      <3> QED
        BY <1>3, <1>4, <1>5, <2>2, <3>1
    <2> QED
      BY <1>1, <1>3, <1>4, <2>1, <2>2, <2>3 DEF CountInv
  <1> QED
    BY <1>2, <1>6, <1>7, <1>8

LEMMA NextKeepsCount == LogScanAssumption /\ ScanInv /\ ScanInv' /\ CountInv /\ Next => CountInv'
  <1> SUFFICES ASSUME LogScanAssumption, ScanInv, ScanInv', CountInv, Next PROVE CountInv'
    OBVIOUS
  <1>1. InputInv /\ InputInv' /\ UNCHANGED input
    BY DEF ScanInv, Next, OpenFile, NoFile, ReadBlock, CloseFile, EndOfBlock, NextRecord,
           ScanRun, HoleInRuns, NoMoreRuns
  <1>2. CASE OpenFile \/ ReadBlock \/ EndOfBlock
    BY <1>1, <1>2, CountStays DEF OpenFile, ReadBlock, EndOfBlock
  <1>3. CASE NoFile
    <2>1. CASE only # 0
      BY <1>1, <1>3, <2>1, CountStays DEF NoFile
    <2>2. CASE only = 0
      BY <1>1, <1>3, <2>2, FinalCount DEF NoFile
    <2> QED
      BY <2>1, <2>2
  <1>4. CASE CloseFile
    <2>1. CASE only # 0
      BY <1>1, <1>4, <2>1, FinalCount DEF CloseFile
    <2>2. CASE only = 0
      BY <1>1, <1>4, <2>2, CountStays DEF CloseFile
    <2> QED
      BY <2>1, <2>2
  <1>5. CASE NextRecord
    <2>1. PICK i : i = block[1][1]
      OBVIOUS
    <2>2. /\ IF Ignored(log[pnum][i]) THEN UNCHANGED <<handled, agg>> ELSE Handle(pnum, i)
          /\ status' # "done"
      BY <1>5, <2>1 DEF NextRecord
    <2>3. CASE Ignored(log[pnum][i])
      BY <1>1, <2>2, <2>3, CountStays
    <2>4. CASE ~Ignored(log[pnum][i]) /\ command = "agglog"
      BY <1>1, <2>2, <2>4, RecordCounted DEF Handle
    <2>5. CASE command # "agglog"
      BY <1>1, <2>5 DEF CountInv, input
    <2> QED
      BY <2>3, <2>4, <2>5
  <1>6. CASE ScanRun \/ HoleInRuns \/ NoMoreRuns
    BY <1>1, <1>6 DEF CountInv, input, ScanRun, HoleInRuns, NoMoreRuns
  <1> QED
    BY <1>2, <1>3, <1>4, <1>5, <1>6 DEF Next

-----------------------------------------------------------------------------
(***************************************************************************)
(* What the invariant says of the scan.                                    *)
(***************************************************************************)
\* What was handed on, in any state, begins the log: nothing in front of it is missing.
LEMMA HandledSoFar ==
  ScanInv => \/ \E q : Range(handled) = Whole(q) /\ q \in Nat
             \/ \E q, i : Range(handled) = Upto(q, i) /\ q \in Nat /\ i \in Nat
             \/ Range(handled) = TheLog
  <1> SUFFICES ASSUME ScanInv
               PROVE  \/ \E q : Range(handled) = Whole(q) /\ q \in Nat
                      \/ \E q, i : Range(handled) = Upto(q, i) /\ q \in Nat /\ i \in Nat
                      \/ Range(handled) = TheLog
    OBVIOUS
  <1>1. InputInv /\ StateInv /\ OpenInv /\ ReadInv /\ EndInv
    BY DEF ScanInv
  <1>2. CASE status \in {"open", "threw", "wild"}
    BY <1>1, <1>2 DEF StateInv, OpenInv, EndInv
  <1>3. CASE status = "done"
    BY <1>1, <1>3 DEF EndInv
  <1>4. CASE status \in {"read", "cut"}
    <2>1. \E i \in 0 .. Len(log[pnum]) : InFile(log[pnum], Len(log[pnum]), Cells(pnum), i)
      BY <1>1, <1>4 DEF ReadInv
    <2>2. PICK i \in 0 .. Len(log[pnum]) : Range(handled) = Upto(pnum, i)
      BY <2>1 DEF InFile
    <2>3. pnum \in Nat /\ i \in Nat
      BY <1>1 DEF StateInv
    <2> QED
      BY <2>2, <2>3
  <1> QED
    BY <1>1, <1>2, <1>3, <1>4 DEF StateInv

LEMMA NothingMissing ==
  ASSUME ScanInv, NEW x \in TheLog, NEW y \in Range(handled), Precedes(x, y)
  PROVE  x \in Range(handled)
  <1>1. InputInv
    BY DEF ScanInv
  <1>2. ASSUME y \in TheLog
        PROVE  x[1] \in Nat /\ x[2] \in Nat /\ y[1] \in Nat /\ y[2] \in Nat
    BY <1>1, <1>2, RecordIs
  <1>3. CASE \E q : Range(handled) = Whole(q) /\ q \in Nat
    <2>1. PICK q : Range(handled) = Whole(q) /\ q \in Nat
      BY <1>3
    <2>2. y \in TheLog /\ y[1] <= q
      BY <2>1 DEF Whole
    <2>3. x[1] <= q
      BY <1>2, <2>1, <2>2 DEF Precedes
    <2> QED
      BY <2>1, <2>3 DEF Whole
  <1>4. CASE \E q, i : Range(handled) = Upto(q, i) /\ q \in Nat /\ i \in Nat
    <2>1. PICK q, i : Range(handled) = Upto(q, i) /\ q \in Nat /\ i \in Nat
      BY <1>4
    <2>2. y \in TheLog /\ (y[1] < q \/ (y[1] = q /\ y[2] <= i))
      BY <2>1 DEF Upto
    <2>3. x[1] < q \/ (x[1] = q /\ x[2] <= i)
      BY <1>2, <2>1, <2>2 DEF Precedes
    <2> QED
      BY <2>1, <2>3 DEF Upto
  <1> QED
    BY <1>3, <1>4, HandledSoFar

LEMMA ScanInvSuffices == ScanInv /\ CountInv => ScanIsTheLog
  <1> SUFFICES ASSUME ScanInv, CountInv PROVE ScanIsTheLog
    OBVIOUS
  <1>1. InputInv /\ StateInv /\ EndInv
    BY DEF ScanInv
  <1>2. \A m, n \in DOMAIN handled : m < n => Precedes(handled[m], handled[n])
    BY <1>1 DEF StateInv, Ascending
  <1>3. Range(handled) \subseteq TheLog
    BY HandledSoFar DEF Whole, Upto
  <1>4. \A x \in TheLog, y \in Range(handled) : Precedes(x, y) => x \in Range(handled)
    BY NothingMissing
  <1>5. status = "done" => TheLog \subseteq Range(handled)
    BY <1>1 DEF EndInv
  <1>6. ASSUME status = "done", command = "agglog", NEW kind \in types
        PROVE  Dumped(kind) = Cardinality({x \in TheLog : KindOf(x) = kind})
    <2>1. /\ counts[kind] = 0 /\ dumps \in Seq(DumpSet)
          /\ Dumped(kind) + counts[kind] = Cardinality(OfKind(kind))
      BY <1>6 DEF CountInv
    <2>2. OfKind(kind) = {x \in TheLog : KindOf(x) = kind}
      BY <1>1, <1>6 DEF EndInv, OfKind
    <2>3. DumpedOf(dumps, kind) \in Nat
      BY <1>1, <2>1, TypesAre, DumpedNat
    <2>4. Dumped(kind) \in Nat
      BY <2>3, DumpedNow
    <2> QED
      BY <2>1, <2>2, <2>4
  <1> QED
    BY <1>2, <1>3, <1>4, <1>5, <1>6 DEF ScanIsTheLog

-----------------------------------------------------------------------------
\* ScanIsTheLog of LogScan, for logs of any number of partitions and records, blocks of any
\* size and any interval of agglog.
THEOREM LogIsScanned == LogScanAssumption => (Spec => []ScanIsTheLog)
  <1> SUFFICES ASSUME LogScanAssumption PROVE Spec => []ScanIsTheLog
    OBVIOUS
  <1>1. Init => ScanInv /\ CountInv
    BY ScanStarts, CountStarts
  <1>2. ScanInv /\ CountInv /\ [Next]_vars => (ScanInv /\ CountInv)'
    <2> SUFFICES ASSUME ScanInv, CountInv, [Next]_vars PROVE ScanInv' /\ CountInv'
      OBVIOUS
    <2>1. CASE Next
      <3>1. ScanInv'
        BY <2>1, OpenKeeps, NoFileKeeps, ReadKeeps, CloseKeeps, BlockKeeps, RecordKeeps,
           RunKeeps, RunsEnd DEF Next
      <3> QED
        BY <2>1, <3>1, NextKeepsCount
    <2>2. CASE UNCHANGED vars
      <3>1. ScanInv'
        BY <2>2, ScanStutters
      <3>2. CountInv'
        BY <2>2, CountStays DEF vars, ScanInv
      <3> QED
        BY <3>1, <3>2
    <2> QED
      BY <2>1, <2>2
  <1> QED
    BY <1>1, <1>2, ScanInvSuffices, PTL DEF Spec
=============================================================================
