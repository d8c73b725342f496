---------------------------- MODULE EnvLifeProofs ----------------------------
(***************************************************************************)
(* What holds of EnvLife for every number of workers, clients, commands    *)
(* and calls of the shell: the four safety invariants of the environment.  *)
(*                                                                         *)
(* The steps of a caller are known by what they are and by their order,    *)
(* and not by where they are: a program has no step twice, so that what is *)
(* left of it is a set of steps, and the invariant says what holds until a *)
(* step has been made, or from then on.                                    *)
(***************************************************************************)
EXTENDS EnvLife, TLAPS

\* The order of the steps of a command, and of those of the shell's calls.
MainRank == [
  init |-> 1, emptyPath |-> 2, start_sm |-> 3, mount |-> 4, fids |-> 5, workers |-> 6,
  load |-> 7, create_tables |-> 8, load_data |-> 9,
  archiveLog |-> 10, take_backup |-> 11, forkFailure |-> 12,
  reset_stats |-> 13, forkClients |-> 14, measure |-> 15, print_throughput |-> 16,
  joinClients |-> 17, joinFailure |-> 18,
  stop |-> 19, join |-> 20, close_sm |-> 21, exit |-> 22]
ShellRank == [
  statistics |-> 1, statistics2 |-> 2, checkpoint |-> 3,
  stop |-> 4, join |-> 5, close_sm |-> 6,
  start_sm |-> 7, mount |-> 8, fids |-> 9, workers |-> 10]

\* A worker that is there to serve, and a client that is not through.
AtHand == {"init", "active", "drowsy", "asleep"}
Present == {"new", "wait", "served"}
ClientStates == {"none", "new", "wait", "served", "stuck", "done"}

HasIn(s, x) == \E n \in 1 .. Len(s) : s[n] = x
Before(s, k, x) == \E n \in 1 .. k : s[n] = x
Increasing(s, Rank) ==
  /\ \A n \in 1 .. Len(s) : s[n] \in DOMAIN Rank
  /\ \A m, n \in 1 .. Len(s) : m < n => Rank[s[m]] < Rank[s[n]]

\* The steps that every command makes, and those that follow some others.
Mandatory == {"emptyPath", "start_sm", "mount", "fids", "workers", "stop"}
MainShape(s) ==
  /\ Increasing(s, MainRank)
  /\ \A n \in 1 .. Len(s) : \A x \in Mandatory : MainRank[s[n]] <= MainRank[x] => HasIn(s, x)
  /\ \A n \in 1 .. Len(s) : s[n] = "stop" => n < Len(s) /\ s[n + 1] = "join"
  /\ HasIn(s, "load") \/ HasIn(s, "create_tables") => HasIn(s, "load_data")
  /\ HasIn(s, "forkClients") => HasIn(s, "joinClients")
  /\ HasIn(s, "forkFailure") => HasIn(s, "joinFailure")
ShellShape(s) ==
  /\ Increasing(s, ShellRank)
  /\ \A n \in 1 .. Len(s) : s[n] = "stop" => n < Len(s) /\ s[n + 1] = "join"
  /\ \A n \in 1 .. Len(s) : s[n] = "start_sm" => Len(s) = n + 3

Has(c, x) == HasIn(todo[c], x)

\* What the callers have left has the shape of their programs; without --load there are
\* no steps that load.
ShapeInv ==
  /\ MainShape(todo["main"]) /\ ShellShape(todo["shell"])
  /\ Has("main", "load_data") => cmd.load

\* Until the workers are forked the main thread is alone, and nothing is in use.
StartInv ==
  /\ Has("main", "workers") =>
       /\ \A x : ~Has("shell", x)
       /\ calls = {} /\ dbc = "UNDEF" /\ ~initialized
       /\ pool = [i \in Workers |-> "none"]
       /\ client = [k \in Clients |-> "none"] /\ failer = "none"
  /\ Has("main", "start_sm") => opened = 0 /\ pssm = "null"
  /\ Has("main", "workers") /\ ~Has("main", "start_sm") => opened = 1 /\ pssm = "open"

\* From then on: the storage manager was started, and is not used without its workers
\* before it is started again; who is about to close it has seen the environment stopped.
StopInv ==
  /\ ~Has("main", "workers") =>
       /\ opened >= 1
       /\ ~initialized => dbc = "STOPPED"
       /\ opened = 1 /\ dbc = "STOPPED" => pool = [i \in Workers |-> "none"]
       /\ opened = 1 /\ dbc # "STOPPED" => pssm = "open"
  /\ \A x \in {"mount", "fids", "workers"} :
       Has("shell", x) => Has("shell", "start_sm") \/ opened >= 2
  /\ \A c \in Callers : Has(c, "close_sm") /\ ~Has(c, "join") => dbc = "STOPPED"

\* The database: what the command finds, and what it has made.
DiskInv ==
  /\ Has("main", "mount") /\ ~Has("main", "emptyPath") /\ cmd.load => disk = "none"
  /\ ~cmd.load /\ ~Has("main", "mount") => disk # "none"
  /\ ~cmd.load /\ ~Has("main", "fids") => disk \in {"tables", "full"}
  /\ cmd.load /\ loaded => disk = "full"
  /\ Has("main", "mount") => ~loaded
  /\ Has("main", "load_data") => ~loaded
  /\ Has("main", "load_data") /\ ~Has("main", "mount") => disk \in {"empty", "tables"}

\* A command whose environment the shell leaves alone has what it uses until it stops.
QuietInv ==
  /\ Has("shell", "checkpoint") => Called({"checkpoint"})
  /\ ~Reshaped =>
       /\ \A x : Has("shell", x) => x \in {"statistics", "statistics2", "checkpoint"}
       /\ opened <= 1
       /\ Has("main", "stop") /\ ~Has("main", "workers") =>
            /\ dbc = "UNDEF" /\ initialized /\ pssm = "open"
            /\ \A i \in Workers : pool[i] \in AtHand
       /\ Has("main", "close_sm") => pssm # "deleted"
       /\ (\E k \in Clients : client[k] \in Present) => Has("main", "joinClients")
       /\ failer = "sleep" => Has("main", "joinFailure")

UpInv == ShapeInv /\ StartInv /\ StopInv /\ DiskInv /\ QuietInv

\* The inductive invariant.
Inv ==
  /\ TypeOK
  /\ StatmapIsLive /\ WorkersHaveAStore /\ CommandsAreSafe
  /\ status = "up" => UpInv

-----------------------------------------------------------------------------
(* Sequences of steps *)

LEMMA Ranks ==
  /\ MainRank \in [DOMAIN MainRank -> Nat]
  /\ ShellRank \in [DOMAIN ShellRank -> Nat]
  /\ Mandatory \subseteq DOMAIN MainRank
  BY DEF MainRank, ShellRank, Mandatory

\* What is left after k steps has the order of the whole, and none of the k.
LEMMA LeftIncreasing ==
  ASSUME NEW Rank, Rank \in [DOMAIN Rank -> Nat],
         NEW s \in Seq(Steps), Increasing(s, Rank),
         NEW k \in 1 .. Len(s), NEW t \in Seq(Steps), Len(t) = Len(s) - k,
         \A n \in 1 .. Len(t) : t[n] = s[n + k]
  PROVE  /\ Increasing(t, Rank)
         /\ \A y : HasIn(t, y) <=> HasIn(s, y) /\ ~Before(s, k, y)
         /\ \A n \in 1 .. Len(t) : \A j \in 1 .. k : Rank[s[j]] < Rank[t[n]]
  <1>1. \A n \in 1 .. Len(t) : n + k \in 1 .. Len(s) /\ t[n] = s[n + k]
    OBVIOUS
  <1>2. Increasing(t, Rank)
    <2>1. \A n \in 1 .. Len(t) : t[n] \in DOMAIN Rank
      BY <1>1 DEF Increasing
    <2>2. \A m, n \in 1 .. Len(t) : m < n => Rank[t[m]] < Rank[t[n]]
      <3> TAKE m, n \in 1 .. Len(t)
      <3> HAVE m < n
      <3>1. m + k \in 1 .. Len(s) /\ n + k \in 1 .. Len(s) /\ m + k < n + k
        OBVIOUS
      <3>2. Rank[s[m + k]] < Rank[s[n + k]]
        BY <3>1 DEF Increasing
      <3> QED
        BY <1>1, <3>2
    <2> QED
      BY <2>1, <2>2 DEF Increasing
  <1>3. \A n \in 1 .. Len(t) : \A j \in 1 .. k : Rank[s[j]] < Rank[t[n]]
    <2> TAKE n \in 1 .. Len(t)
    <2> TAKE j \in 1 .. k
    <2>1. j \in 1 .. Len(s) /\ n + k \in 1 .. Len(s) /\ j < n + k
      OBVIOUS
    <2>2. Rank[s[j]] < Rank[s[n + k]]
      BY <2>1 DEF Increasing
    <2> QED
      BY <1>1, <2>2
  <1>4. ASSUME NEW y
        PROVE  HasIn(t, y) <=> HasIn(s, y) /\ ~Before(s, k, y)
    <2>1. ASSUME HasIn(t, y)
          PROVE  HasIn(s, y) /\ ~Before(s, k, y)
      <3>1. PICK n \in 1 .. Len(t) : t[n] = y
        BY <2>1 DEF HasIn
      <3>2. HasIn(s, y)
        BY <1>1, <3>1 DEF HasIn
      <3>3. Rank[y] \in Nat
        BY <1>2, <3>1 DEF Increasing
      <3>4. \A j \in 1 .. k : Rank[s[j]] < Rank[y]
        BY <1>3, <3>1
      <3>5. \A j \in 1 .. k : s[j] # y
        BY <3>3, <3>4
      <3> QED
        BY <3>2, <3>5 DEF Before
    <2>2. ASSUME HasIn(s, y), ~Before(s, k, y)
          PROVE  HasIn(t, y)
      <3>1. PICK n \in 1 .. Len(s) : s[n] = y
        BY <2>2 DEF HasIn
      <3>2. n \notin 1 .. k
        BY <2>2, <3>1 DEF Before
      <3>3. n - k \in 1 .. Len(t) /\ (n - k) + k = n
        BY <3>2
      <3>4. t[n - k] = y
        BY <3>1, <3>3
      <3> QED
        BY <3>3, <3>4 DEF HasIn
    <2> QED
      BY <2>1, <2>2
  <1> QED
    BY <1>2, <1>3, <1>4

LEMMA LeftMainShape ==
  ASSUME NEW s \in Seq(Steps), MainShape(s),
         NEW k \in 1 .. Len(s), NEW t \in Seq(Steps), Len(t) = Len(s) - k,
         \A n \in 1 .. Len(t) : t[n] = s[n + k]
  PROVE  MainShape(t)
  <1>1. Increasing(s, MainRank)
    BY DEF MainShape
  <1>2. /\ Increasing(t, MainRank)
        /\ \A y : HasIn(t, y) <=> HasIn(s, y) /\ ~Before(s, k, y)
        /\ \A n \in 1 .. Len(t) : \A j \in 1 .. k : MainRank[s[j]] < MainRank[t[n]]
    BY <1>1, Ranks, LeftIncreasing
  <1>3. \A n \in 1 .. Len(t) : n + k \in 1 .. Len(s) /\ t[n] = s[n + k] /\ t[n] \in DOMAIN MainRank
    BY <1>2 DEF Increasing
  <1>4. \A j \in 1 .. k : s[j] \in DOMAIN MainRank
    BY <1>1 DEF Increasing
  \* A step of s behind one of t is one of t.
  <1>5. ASSUME NEW n \in 1 .. Len(t), NEW x \in DOMAIN MainRank, HasIn(s, x),
               MainRank[t[n]] <= MainRank[x]
        PROVE  HasIn(t, x)
    <2>1. MainRank[x] \in Nat /\ MainRank[t[n]] \in Nat
      BY <1>3, Ranks
    <2>2. \A j \in 1 .. k : MainRank[s[j]] \in Nat /\ MainRank[s[j]] < MainRank[t[n]]
      BY <1>2, <1>4, Ranks
    <2>3. ~Before(s, k, x)
      BY <1>5, <2>1, <2>2 DEF Before
    <2> QED
      BY <1>2, <1>5, <2>3
  <1>6. \A n \in 1 .. Len(t) : \A x \in Mandatory : MainRank[t[n]] <= MainRank[x] => HasIn(t, x)
    BY <1>3, <1>5, Ranks DEF MainShape
  <1>7. \A n \in 1 .. Len(t) : t[n] = "stop" => n < Len(t) /\ t[n + 1] = "join"
    <2> SUFFICES ASSUME NEW n \in 1 .. Len(t), t[n] = "stop"
                 PROVE  n < Len(t) /\ t[n + 1] = "join"
      OBVIOUS
    <2>1. n + k < Len(s) /\ s[n + k + 1] = "join"
      BY <1>3 DEF MainShape
    <2>2. n < Len(t) /\ n + 1 \in 1 .. Len(t) /\ n + 1 + k = n + k + 1
      BY <2>1
    <2> QED
      BY <2>1, <2>2
  \* The pairs.
  <1>8. ASSUME NEW x \in DOMAIN MainRank, NEW y \in DOMAIN MainRank, MainRank[x] <= MainRank[y],
               HasIn(s, x) => HasIn(s, y), HasIn(t, x)
        PROVE  HasIn(t, y)
    <2>1. PICK n \in 1 .. Len(t) : t[n] = x
      BY <1>8 DEF HasIn
    <2>2. HasIn(s, y)
      BY <1>2, <1>8
    <2> QED
      BY <1>5, <1>8, <2>1, <2>2
  <1>9. /\ {"load", "create_tables", "load_data", "forkClients", "joinClients", "forkFailure",
            "joinFailure"} \subseteq DOMAIN MainRank
        /\ MainRank["load"] <= MainRank["load_data"]
        /\ MainRank["create_tables"] <= MainRank["load_data"]
        /\ MainRank["forkClients"] <= MainRank["joinClients"]
        /\ MainRank["forkFailure"] <= MainRank["joinFailure"]
    BY DEF MainRank
  <1>10. /\ HasIn(t, "load") \/ HasIn(t, "create_tables") => HasIn(t, "load_data")
         /\ HasIn(t, "forkClients") => HasIn(t, "joinClients")
         /\ HasIn(t, "forkFailure") => HasIn(t, "joinFailure")
    BY <1>8, <1>9 DEF MainShape
  <1> QED
    BY <1>2, <1>6, <1>7, <1>10 DEF MainShape

LEMMA LeftShellShape ==
  ASSUME NEW s \in Seq(Steps), ShellShape(s),
         NEW k \in 1 .. Len(s), NEW t \in Seq(Steps), Len(t) = Len(s) - k,
         \A n \in 1 .. Len(t) : t[n] = s[n + k]
  PROVE  ShellShape(t)
  <1>1. Increasing(s, ShellRank)
    BY DEF ShellShape
  <1>2. Increasing(t, ShellRank)
    BY <1>1, Ranks, LeftIncreasing
  <1>3. \A n \in 1 .. Len(t) : n + k \in 1 .. Len(s) /\ t[n] = s[n + k]
    OBVIOUS
  <1>4. \A n \in 1 .. Len(t) : t[n] = "stop" => n < Len(t) /\ t[n + 1] = "join"
    <2> SUFFICES ASSUME NEW n \in 1 .. Len(t), t[n] = "stop"
                 PROVE  n < Len(t) /\ t[n + 1] = "join"
      OBVIOUS
    <2>1. n + k < Len(s) /\ s[n + k + 1] = "join"
      BY <1>3 DEF ShellShape
    <2>2. n < Len(t) /\ n + 1 \in 1 .. Len(t) /\ n + 1 + k = n + k + 1
      BY <2>1
    <2> QED
      BY <2>1, <2>2
  <1>5. \A n \in 1 .. Len(t) : t[n] = "start_sm" => Len(t) = n + 3
    <2> SUFFICES ASSUME NEW n \in 1 .. Len(t), t[n] = "start_sm"
                 PROVE  Len(t) = n + 3
      OBVIOUS
    <2>1. Len(s) = n + k + 3
      BY <1>3 DEF ShellShape
    <2> QED
      BY <2>1
  <1> QED
    BY <1>2, <1>4, <1>5 DEF ShellShape

-----------------------------------------------------------------------------
(* The programs *)

\* A part of a program, with steps from one rank to another.
Part(s, lo, hi) ==
  /\ s \in Seq(Steps)
  /\ Increasing(s, MainRank)
  /\ \A n \in 1 .. Len(s) : lo <= MainRank[s[n]] /\ MainRank[s[n]] <= hi

LEMMA Concat ==
  ASSUME NEW s \in Seq(Steps), NEW t \in Seq(Steps)
  PROVE  /\ s \o t \in Seq(Steps) /\ Len(s \o t) = Len(s) + Len(t)
         /\ \A n \in 1 .. Len(s) : (s \o t)[n] = s[n]
         /\ \A n \in 1 .. Len(t) : (s \o t)[n + Len(s)] = t[n]
  OBVIOUS

LEMMA JoinParts ==
  ASSUME NEW a \in Nat, NEW b \in Nat, NEW c \in Nat, NEW d \in Nat, b < c, a <= c, b <= d,
         NEW s, NEW t, Part(s, a, b), Part(t, c, d)
  PROVE  /\ Part(s \o t, a, d)
         /\ \A y : HasIn(s \o t, y) <=> HasIn(s, y) \/ HasIn(t, y)
  <1> DEFINE u == s \o t
  <1>1. s \in Seq(Steps) /\ t \in Seq(Steps)
    BY DEF Part
  <1>2. /\ u \in Seq(Steps) /\ Len(u) = Len(s) + Len(t)
        /\ \A n \in 1 .. Len(s) : u[n] = s[n]
        /\ \A n \in 1 .. Len(t) : u[n + Len(s)] = t[n]
    BY <1>1
  <1> HIDE DEF u
  <1>3. \A n \in 1 .. Len(u) :
          \/ n \in 1 .. Len(s)
          \/ n - Len(s) \in 1 .. Len(t) /\ (n - Len(s)) + Len(s) = n
    BY <1>1, <1>2
  <1>4. \A n \in 1 .. Len(u) :
          \/ n \in 1 .. Len(s) /\ u[n] = s[n]
          \/ n - Len(s) \in 1 .. Len(t) /\ u[n] = t[n - Len(s)]
    BY <1>2, <1>3
  <1>5. /\ \A n \in 1 .. Len(s) : s[n] \in DOMAIN MainRank /\ MainRank[s[n]] \in a .. b
        /\ \A n \in 1 .. Len(t) : t[n] \in DOMAIN MainRank /\ MainRank[t[n]] \in c .. d
    BY Ranks DEF Part, Increasing
  <1>6. ASSUME NEW n \in 1 .. Len(u)
        PROVE  u[n] \in DOMAIN MainRank /\ MainRank[u[n]] \in a .. d
    <2>1. CASE n \in 1 .. Len(s) /\ u[n] = s[n]
      <3>1. MainRank[u[n]] \in a .. b
        BY <1>5, <2>1
      <3> QED
        BY <1>5, <2>1, <3>1
    <2>2. CASE n - Len(s) \in 1 .. Len(t) /\ u[n] = t[n - Len(s)]
      <3>1. MainRank[u[n]] \in c .. d
        BY <1>5, <2>2
      <3> QED
        BY <1>5, <2>2, <3>1
    <2> QED
      BY <1>4, <2>1, <2>2
  <1>7. ASSUME NEW m \in 1 .. Len(u), NEW n \in 1 .. Len(u), m < n
        PROVE  MainRank[u[m]] < MainRank[u[n]]
    <2>1. CASE m \in 1 .. Len(s) /\ n \in 1 .. Len(s)
      BY <1>2, <1>7, <2>1 DEF Part, Increasing
    <2>2. CASE m \in 1 .. Len(s) /\ n - Len(s) \in 1 .. Len(t)
      <3>1. u[m] = s[m] /\ u[n] = t[n - Len(s)]
        BY <1>1, <1>2, <1>3, <2>2
      <3>2. MainRank[u[m]] \in a .. b /\ MainRank[u[n]] \in c .. d
        BY <1>5, <2>2, <3>1
      <3> QED
        BY <3>2
    <2>3. CASE m - Len(s) \in 1 .. Len(t) /\ n - Len(s) \in 1 .. Len(t)
      <3>3. (m - Len(s)) + Len(s) = m /\ (n - Len(s)) + Len(s) = n
        BY <1>1, <1>2
      <3>4. u[(m - Len(s)) + Len(s)] = t[m - Len(s)] /\ u[(n - Len(s)) + Len(s)] = t[n - Len(s)]
        BY <1>2, <2>3
      <3>1. u[m] = t[m - Len(s)] /\ u[n] = t[n - Len(s)]
        BY <3>3, <3>4
      <3>2. m - Len(s) < n - Len(s)
        BY <1>1, <1>7
      <3> QED
        BY <2>3, <3>1, <3>2 DEF Part, Increasing
    <2> QED
      BY <1>1, <1>3, <1>7, <2>1, <2>2, <2>3
  <1>8. Increasing(u, MainRank)
    BY <1>6, <1>7 DEF Increasing
  <1>9. Part(u, a, d)
    BY <1>2, <1>6, <1>8 DEF Part
  <1>10. ASSUME NEW y
         PROVE  HasIn(u, y) <=> HasIn(s, y) \/ HasIn(t, y)
    <2>1. HasIn(u, y) => HasIn(s, y) \/ HasIn(t, y)
      BY <1>4 DEF HasIn
    <2>2. HasIn(s, y) => HasIn(u, y)
      BY <1>1, <1>2 DEF HasIn
    <2>3. ASSUME HasIn(t, y)
          PROVE  HasIn(u, y)
      <3>1. PICK n \in 1 .. Len(t) : t[n] = y
        BY <2>3 DEF HasIn
      <3>2. n + Len(s) \in 1 .. Len(u) /\ u[n + Len(s)] = y
        BY <1>1, <1>2, <3>1
      <3> QED
        BY <3>2 DEF HasIn
    <2> QED
      BY <2>1, <2>2, <2>3
  <1> QED
    BY <1>9, <1>10 DEF u

LEMMA WhenPart ==
  ASSUME NEW a, NEW b, NEW s, Part(s, a, b), NEW cond \in BOOLEAN
  PROVE  /\ Part(When(cond, s), a, b)
         /\ \A y : HasIn(When(cond, s), y) <=> cond /\ HasIn(s, y)
  <1>1. CASE cond
    BY <1>1 DEF When
  <1>2. CASE ~cond
    <2>1. When(cond, s) = <<>>
      BY <1>2 DEF When
    <2>2. Len(<<>>) = 0 /\ <<>> \in Seq(Steps)
      OBVIOUS
    <2>3. 1 .. 0 = {}
      OBVIOUS
    <2> QED
      BY <1>2, <2>1, <2>2, <2>3 DEF Part, Increasing, HasIn
  <1> QED
    BY <1>1, <1>2

\* The parts of a command.
LEMMA Parts ==
  /\ Part(<<"init", "emptyPath">>, 1, 2)
  /\ Part(StartSteps, 3, 6)
  /\ Part(<<"load", "create_tables", "load_data">>, 7, 9)
  /\ Part(<<"archiveLog">>, 10, 10) /\ Part(<<"take_backup">>, 11, 11)
  /\ Part(<<"forkFailure">>, 12, 12)
  /\ Part(<<"reset_stats", "forkClients", "measure", "print_throughput", "joinClients">>, 13, 17)
  /\ Part(<<"joinFailure">>, 18, 18)
  /\ Part(<<"stop", "join">>, 19, 20) /\ Part(<<"close_sm">>, 21, 21) /\ Part(<<"exit">>, 22, 22)
  <1> USE DEF Part, Increasing
  <1>1. Part(<<"init", "emptyPath">>, 1, 2)
    BY DEF MainRank, Steps
  <1>2. Part(StartSteps, 3, 6)
    BY DEF MainRank, StartSteps, Steps
  <1>3. Part(<<"load", "create_tables", "load_data">>, 7, 9)
    BY DEF MainRank, Steps
  <1>4. /\ Part(<<"archiveLog">>, 10, 10) /\ Part(<<"take_backup">>, 11, 11)
        /\ Part(<<"forkFailure">>, 12, 12) /\ Part(<<"joinFailure">>, 18, 18)
        /\ Part(<<"close_sm">>, 21, 21) /\ Part(<<"exit">>, 22, 22)
    BY DEF MainRank, Steps
  <1>5. Part(<<"reset_stats", "forkClients", "measure", "print_throughput", "joinClients">>, 13, 17)
    BY DEF MainRank, Steps
  <1>6. Part(<<"stop", "join">>, 19, 20)
    BY DEF MainRank, Steps
  <1> QED
    BY <1>1, <1>2, <1>3, <1>4, <1>5, <1>6

LEMMA PartSteps ==
  /\ \A y : HasIn(<<"init", "emptyPath">>, y) <=> y \in {"init", "emptyPath"}
  /\ \A y : HasIn(StartSteps, y) <=> y \in {"start_sm", "mount", "fids", "workers"}
  /\ \A y : HasIn(<<"load", "create_tables", "load_data">>, y) <=>
              y \in {"load", "create_tables", "load_data"}
  /\ \A y : HasIn(<<"archiveLog">>, y) <=> y = "archiveLog"
  /\ \A y : HasIn(<<"take_backup">>, y) <=> y = "take_backup"
  /\ \A y : HasIn(<<"forkFailure">>, y) <=> y = "forkFailure"
  /\ \A y : HasIn(<<"reset_stats", "forkClients", "measure", "print_throughput", "joinClients">>, y) <=>
              y \in {"reset_stats", "forkClients", "measure", "print_throughput", "joinClients"}
  /\ \A y : HasIn(<<"joinFailure">>, y) <=> y = "joinFailure"
  /\ \A y : HasIn(<<"stop", "join">>, y) <=> y \in {"stop", "join"}
  /\ \A y : HasIn(<<"close_sm">>, y) <=> y = "close_sm"
  /\ \A y : HasIn(<<"exit">>, y) <=> y = "exit"
  <1>1. /\ \A n \in 1 .. 1 : n = 1
        /\ \A n \in 1 .. 2 : n \in {1, 2}
        /\ \A n \in 1 .. 3 : n \in {1, 2, 3}
        /\ \A n \in 1 .. 4 : n \in {1, 2, 3, 4}
        /\ \A n \in 1 .. 5 : n \in {1, 2, 3, 4, 5}
    OBVIOUS
  <1>2. 1 \in 1 .. 1 /\ {1, 2} \subseteq 1 .. 2 /\ {1, 2, 3} \subseteq 1 .. 3
    OBVIOUS
  <1>3. {1, 2, 3, 4} \subseteq 1 .. 4 /\ {1, 2, 3, 4, 5} \subseteq 1 .. 5
    OBVIOUS
  <1> QED
    BY <1>1, <1>2, <1>3 DEF HasIn, StartSteps

\* What a command is made of.
LEMMA ProgramShape ==
  ASSUME NEW c \in Commands
  PROVE  /\ Program(c) \in Seq(Steps)
         /\ MainShape(Program(c))
         /\ \A x \in Mandatory : HasIn(Program(c), x)
         /\ HasIn(Program(c), "load_data") => c.load
  <1> DEFINE A == <<"init", "emptyPath">>
             L == When(c.load, <<"load", "create_tables", "load_data">>)
             V == When(c.archive, <<"archiveLog">>) \o When(c.backup, <<"take_backup">>)
             F == V \o <<"forkFailure">>
             K == c.name = "restore"
             M == c.bench # "none"
             R == When(K, F)
             B == When(M,
                       <<"reset_stats", "forkClients", "measure", "print_throughput", "joinClients">>)
             J == When(K, <<"joinFailure">>)
             P1 == A \o StartSteps
             P2 == P1 \o L
             P3 == P2 \o R
             P4 == P3 \o B
             P5 == P4 \o J
             P6 == P5 \o CloseSteps
             P7 == P6 \o <<"exit">>
  <1>1. /\ c.load \in BOOLEAN /\ c.archive \in BOOLEAN /\ c.backup \in BOOLEAN
        /\ K \in BOOLEAN /\ M \in BOOLEAN
    BY DEF Commands
  <1> HIDE DEF K, M
  <1>2. Part(L, 7, 9) /\ \A y : HasIn(L, y) <=> c.load /\ y \in {"load", "create_tables", "load_data"}
    <2>1. PICK t : t = <<"load", "create_tables", "load_data">>
      OBVIOUS
    <2>2. Part(t, 7, 9) /\ \A y : HasIn(t, y) <=> y \in {"load", "create_tables", "load_data"}
      BY <2>1, Parts, PartSteps
    <2>3. Part(When(c.load, t), 7, 9) /\ \A y : HasIn(When(c.load, t), y) <=> c.load /\ HasIn(t, y)
      BY <1>1, <2>2, WhenPart
    <2> QED
      BY <2>1, <2>2, <2>3
  <1>3. /\ Part(When(c.archive, <<"archiveLog">>), 10, 10)
        /\ \A y : HasIn(When(c.archive, <<"archiveLog">>), y) => y = "archiveLog"
    <2>1. PICK t : t = <<"archiveLog">>
      OBVIOUS
    <2>2. Part(t, 10, 10) /\ \A y : HasIn(t, y) <=> y = "archiveLog"
      BY <2>1, Parts, PartSteps
    <2>3. Part(When(c.archive, t), 10, 10) /\ \A y : HasIn(When(c.archive, t), y) <=> c.archive /\ HasIn(t, y)
      BY <1>1, <2>2, WhenPart
    <2> QED
      BY <2>1, <2>2, <2>3
  <1>4. /\ Part(When(c.backup, <<"take_backup">>), 11, 11)
        /\ \A y : HasIn(When(c.backup, <<"take_backup">>), y) => y = "take_backup"
    <2>1. PICK t : t = <<"take_backup">>
      OBVIOUS
    <2>2. Part(t, 11, 11) /\ \A y : HasIn(t, y) <=> y = "take_backup"
      BY <2>1, Parts, PartSteps
    <2>3. Part(When(c.backup, t), 11, 11) /\ \A y : HasIn(When(c.backup, t), y) <=> c.backup /\ HasIn(t, y)
      BY <1>1, <2>2, WhenPart
    <2> QED
      BY <2>1, <2>2, <2>3
  <1>5. Part(V, 10, 11) /\ \A y : HasIn(V, y) => y \in {"archiveLog", "take_backup"}
    <2>1. 10 \in Nat /\ 11 \in Nat /\ 10 < 11 /\ 10 <= 11 /\ 11 <= 11
      OBVIOUS
    <2> QED
      BY <1>3, <1>4, <2>1, JoinParts
  <1>6. /\ Part(F, 10, 12)
        /\ \A y : HasIn(F, y) => y \in {"archiveLog", "take_backup", "forkFailure"}
    <2>1. 10 \in Nat /\ 11 \in Nat /\ 12 \in Nat /\ 11 < 12 /\ 10 <= 12 /\ 11 <= 12
      OBVIOUS
    <2>2. PICK t : t = <<"forkFailure">>
      OBVIOUS
    <2>3. Part(t, 12, 12) /\ \A y : HasIn(t, y) <=> y = "forkFailure"
      BY <2>2, Parts, PartSteps
    <2>4. Part(V \o t, 10, 12) /\ \A y : HasIn(V \o t, y) <=> HasIn(V, y) \/ HasIn(t, y)
      BY <1>5, <2>1, <2>3, JoinParts
    <2> QED
      BY <1>5, <2>2, <2>3, <2>4
  <1>7. /\ Part(R, 10, 12)
        /\ \A y : HasIn(R, y) => y \in {"archiveLog", "take_backup", "forkFailure"}
        /\ HasIn(R, "forkFailure") => K
    BY <1>1, <1>6, WhenPart
  <1>8. /\ Part(B, 13, 17)
        /\ \A y : HasIn(B, y) => y \in {"reset_stats", "forkClients", "measure", "print_throughput", "joinClients"}
        /\ HasIn(B, "forkClients") => HasIn(B, "joinClients")
    <2>1. PICK t : t = <<"reset_stats", "forkClients", "measure", "print_throughput", "joinClients">>
      OBVIOUS
    <2>2. /\ Part(t, 13, 17)
          /\ \A y : HasIn(t, y) <=>
               y \in {"reset_stats", "forkClients", "measure", "print_throughput", "joinClients"}
      BY <2>1, Parts, PartSteps
    <2>3. Part(When(M, t), 13, 17) /\ \A y : HasIn(When(M, t), y) <=> M /\ HasIn(t, y)
      BY <1>1, <2>2, WhenPart
    <2> QED
      BY <2>1, <2>2, <2>3
  <1>9. Part(J, 18, 18) /\ \A y : HasIn(J, y) <=> K /\ y = "joinFailure"
    <2>1. PICK t : t = <<"joinFailure">>
      OBVIOUS
    <2>2. Part(t, 18, 18) /\ \A y : HasIn(t, y) <=> y = "joinFailure"
      BY <2>1, Parts, PartSteps
    <2>3. Part(When(K, t), 18, 18) /\ \A y : HasIn(When(K, t), y) <=> K /\ HasIn(t, y)
      BY <1>1, <2>2, WhenPart
    <2> QED
      BY <2>1, <2>2, <2>3
  <1>10. /\ Part(CloseSteps, 19, 21)
         /\ \A y : HasIn(CloseSteps, y) <=> y \in {"stop", "join", "close_sm"}
    <2>1. 19 \in Nat /\ 20 \in Nat /\ 21 \in Nat /\ 20 < 21 /\ 19 <= 21 /\ 20 <= 21
      OBVIOUS
    <2>2. PICK t : t = <<"stop", "join">>
      OBVIOUS
    <2>3. PICK u : u = <<"close_sm">>
      OBVIOUS
    <2>4. /\ Part(t, 19, 20) /\ \A y : HasIn(t, y) <=> y \in {"stop", "join"}
          /\ Part(u, 21, 21) /\ \A y : HasIn(u, y) <=> y = "close_sm"
      BY <2>2, <2>3, Parts, PartSteps
    <2>5. Part(t \o u, 19, 21) /\ \A y : HasIn(t \o u, y) <=> HasIn(t, y) \/ HasIn(u, y)
      BY <2>1, <2>4, JoinParts
    <2>6. CloseSteps = t \o u
      BY <2>2, <2>3 DEF CloseSteps, StopSteps
    <2> QED
      BY <2>4, <2>5, <2>6
  <1> HIDE DEF A, L, V, F, R, B, J
  <1>11. Part(P1, 1, 6) /\ \A y : HasIn(P1, y) <=> HasIn(A, y) \/ HasIn(StartSteps, y)
    BY Parts, JoinParts DEF A
  <1> HIDE DEF P1
  <1>12. Part(P2, 1, 9) /\ \A y : HasIn(P2, y) <=> HasIn(P1, y) \/ HasIn(L, y)
    BY <1>2, <1>11, JoinParts
  <1> HIDE DEF P2
  <1>13. Part(P3, 1, 12) /\ \A y : HasIn(P3, y) <=> HasIn(P2, y) \/ HasIn(R, y)
    BY <1>7, <1>12, JoinParts
  <1> HIDE DEF P3
  <1>14. Part(P4, 1, 17) /\ \A y : HasIn(P4, y) <=> HasIn(P3, y) \/ HasIn(B, y)
    BY <1>8, <1>13, JoinParts
  <1> HIDE DEF P4
  <1>15. Part(P5, 1, 18) /\ \A y : HasIn(P5, y) <=> HasIn(P4, y) \/ HasIn(J, y)
    BY <1>9, <1>14, JoinParts
  <1> HIDE DEF P5
  <1>16. Part(P6, 1, 21) /\ \A y : HasIn(P6, y) <=> HasIn(P5, y) \/ HasIn(CloseSteps, y)
    BY <1>10, <1>15, JoinParts
  <1>17. Part(P7, 1, 22) /\ \A y : HasIn(P7, y) <=> HasIn(P6, y) \/ y = "exit"
    <2> HIDE DEF P6
    <2> QED
      BY <1>16, Parts, PartSteps, JoinParts
  <1>18. Program(c) = P7
    BY DEF Program, A, L, V, F, K, M, R, B, J, P1, P2, P3, P4, P5
  <1>19. \A x \in Mandatory : HasIn(P7, x)
    <2>1. \A y \in {"emptyPath", "start_sm", "mount", "fids", "workers"} : HasIn(P1, y)
      BY <1>11, PartSteps DEF A
    <2>2. \A y : HasIn(P1, y) => HasIn(P7, y)
      BY <1>12, <1>13, <1>14, <1>15, <1>16, <1>17
    <2>3. HasIn(P7, "stop")
      BY <1>10, <1>16, <1>17
    <2> HIDE DEF P7
    <2> QED
      BY <2>1, <2>2, <2>3 DEF Mandatory
  \* The parts that some steps are of.
  <1>20. \A y : HasIn(P7, y) =>
           \/ y \in {"init", "emptyPath", "start_sm", "mount", "fids", "workers"}
           \/ HasIn(L, y) \/ HasIn(R, y) \/ HasIn(B, y) \/ HasIn(J, y)
           \/ y \in {"stop", "join", "close_sm", "exit"}
    <2> HIDE DEF P7
    <2> QED
      BY <1>10, <1>11, <1>12, <1>13, <1>14, <1>15, <1>16, <1>17, PartSteps DEF A
  <1>21. HasIn(P7, "load_data") => c.load
    BY <1>2, <1>7, <1>8, <1>9, <1>20
  <1>22. \A y : HasIn(L, y) \/ HasIn(B, y) \/ HasIn(J, y) => HasIn(P7, y)
    BY <1>12, <1>13, <1>14, <1>15, <1>16, <1>17
  <1>23. HasIn(P7, "load") \/ HasIn(P7, "create_tables") => HasIn(P7, "load_data")
    BY <1>2, <1>7, <1>8, <1>9, <1>20, <1>22
  <1>24. HasIn(P7, "forkClients") => HasIn(P7, "joinClients")
    BY <1>2, <1>7, <1>8, <1>9, <1>20, <1>22
  <1>25. HasIn(P7, "forkFailure") => HasIn(P7, "joinFailure")
    BY <1>2, <1>7, <1>8, <1>9, <1>20, <1>22
  <1>26. \A n \in 1 .. Len(P7) : P7[n] = "stop" => n < Len(P7) /\ P7[n + 1] = "join"
    <2> DEFINE m == Len(P5) + 1
    <2>1. P5 \in Seq(Steps) /\ P6 \in Seq(Steps) /\ P7 \in Seq(Steps)
      BY <1>15, <1>16, <1>17 DEF Part
    <2>2. CloseSteps \in Seq(Steps) /\ Len(CloseSteps) = 3 /\ CloseSteps[1] = "stop" /\ CloseSteps[2] = "join"
      <3>1. CloseSteps \in Seq(Steps)
        BY <1>10 DEF Part
      <3>2. <<"stop", "join">> \in Seq(Steps) /\ <<"close_sm">> \in Seq(Steps)
        BY DEF Steps
      <3> QED
        BY <3>1, <3>2 DEF CloseSteps, StopSteps
    <2>3. /\ Len(P6) = Len(P5) + 3 /\ m \in 1 .. Len(P6) /\ m + 1 \in 1 .. Len(P6)
          /\ P6[m] = "stop" /\ P6[m + 1] = "join"
      <3>1. /\ Len(P6) = Len(P5) + Len(CloseSteps)
            /\ \A n \in 1 .. Len(CloseSteps) : P6[n + Len(P5)] = CloseSteps[n]
        BY <2>1, <2>2, Concat
      <3>2. Len(P5) \in Nat /\ m = 1 + Len(P5) /\ m + 1 = 2 + Len(P5)
        BY <2>1
      <3>3. P6[1 + Len(P5)] = "stop" /\ P6[2 + Len(P5)] = "join"
        BY <2>2, <3>1
      <3>4. Len(P6) = Len(P5) + 3
        BY <2>2, <3>1
      <3>5. P6[m] = "stop" /\ P6[m + 1] = "join"
        BY <3>2, <3>3
      <3> HIDE DEF m, P6
      <3> QED
        BY <3>2, <3>4, <3>5
    <2> HIDE DEF P6
    <2>4. <<"exit">> \in Seq(Steps) /\ Len(<<"exit">>) = 1
      BY DEF Steps
    <2>5. /\ Len(P7) = Len(P6) + 1 /\ m \in 1 .. Len(P7) /\ m < Len(P7)
          /\ P7[m] = "stop" /\ P7[m + 1] = "join"
      BY <2>1, <2>3, <2>4
    <2> HIDE DEF P7, m
    <2> SUFFICES ASSUME NEW n \in 1 .. Len(P7), P7[n] = "stop"
                 PROVE  n = m
      BY <2>5
    <2>6. MainRank["stop"] \in Nat
      BY DEF MainRank
    <2>7. Increasing(P7, MainRank)
      BY <1>17 DEF Part
    <2>8. m < n \/ n < m \/ n = m
      BY <2>1, <2>5
    <2> QED
      BY <2>5, <2>6, <2>7, <2>8 DEF Increasing
  <1> HIDE DEF P7
  <1>27. MainShape(P7)
    BY <1>17, <1>19, <1>23, <1>24, <1>25, <1>26 DEF MainShape, Part
  <1> QED
    BY <1>17, <1>18, <1>19, <1>21, <1>27 DEF Part

\* The calls of the shell, step by step.
LEMMA CloseAndRestart ==
  /\ CloseSteps \in Seq(Steps) /\ Len(CloseSteps) = 3
  /\ CloseSteps[1] = "stop" /\ CloseSteps[2] = "join" /\ CloseSteps[3] = "close_sm"
  /\ RestartSteps \in Seq(Steps) /\ Len(RestartSteps) = 6
  /\ RestartSteps[1] = "stop" /\ RestartSteps[2] = "join" /\ RestartSteps[3] = "start_sm"
  /\ RestartSteps[4] = "mount" /\ RestartSteps[5] = "fids" /\ RestartSteps[6] = "workers"
  <1>1. /\ StopSteps \in Seq(Steps) /\ Len(StopSteps) = 2
        /\ StopSteps[1] = "stop" /\ StopSteps[2] = "join"
    BY DEF StopSteps, Steps
  <1>2. /\ StartSteps \in Seq(Steps) /\ Len(StartSteps) = 4
        /\ StartSteps[1] = "start_sm" /\ StartSteps[2] = "mount"
        /\ StartSteps[3] = "fids" /\ StartSteps[4] = "workers"
    BY DEF StartSteps, Steps
  <1>3. <<"close_sm">> \in Seq(Steps) /\ Len(<<"close_sm">>) = 1 /\ <<"close_sm">>[1] = "close_sm"
    BY DEF Steps
  <1>4. /\ CloseSteps \in Seq(Steps) /\ Len(CloseSteps) = Len(StopSteps) + Len(<<"close_sm">>)
        /\ \A n \in 1 .. Len(StopSteps) : CloseSteps[n] = StopSteps[n]
        /\ \A n \in 1 .. Len(<<"close_sm">>) : CloseSteps[n + Len(StopSteps)] = <<"close_sm">>[n]
    BY <1>1, <1>3, Concat DEF CloseSteps
  <1>5. /\ RestartSteps \in Seq(Steps) /\ Len(RestartSteps) = Len(StopSteps) + Len(StartSteps)
        /\ \A n \in 1 .. Len(StopSteps) : RestartSteps[n] = StopSteps[n]
        /\ \A n \in 1 .. Len(StartSteps) : RestartSteps[n + Len(StopSteps)] = StartSteps[n]
    BY <1>1, <1>2, Concat DEF RestartSteps
  <1>6. Len(CloseSteps) = 3 /\ Len(RestartSteps) = 6
    BY <1>1, <1>2, <1>3, <1>4, <1>5
  <1>7. 1 + 2 = 3 /\ 2 + 2 = 4 /\ 3 + 2 = 5 /\ 4 + 2 = 6
    OBVIOUS
  <1>8. CloseSteps[1] = "stop" /\ CloseSteps[2] = "join" /\ CloseSteps[3] = "close_sm"
    <2>1. 1 \in 1 .. 2 /\ 2 \in 1 .. 2 /\ 1 \in 1 .. 1
      OBVIOUS
    <2>2. CloseSteps[1 + Len(StopSteps)] = "close_sm"
      BY <1>3, <1>4, <2>1
    <2> QED
      BY <1>1, <1>4, <1>7, <2>1, <2>2
  <1>9. RestartSteps[1] = "stop" /\ RestartSteps[2] = "join"
    BY <1>1, <1>5
  <1>10. /\ RestartSteps[3] = "start_sm" /\ RestartSteps[4] = "mount"
         /\ RestartSteps[5] = "fids" /\ RestartSteps[6] = "workers"
    <2>1. 1 \in 1 .. 4 /\ 2 \in 1 .. 4 /\ 3 \in 1 .. 4 /\ 4 \in 1 .. 4
      OBVIOUS
    <2>2. /\ RestartSteps[1 + Len(StopSteps)] = "start_sm" /\ RestartSteps[2 + Len(StopSteps)] = "mount"
          /\ RestartSteps[3 + Len(StopSteps)] = "fids" /\ RestartSteps[4 + Len(StopSteps)] = "workers"
      BY <1>2, <1>5, <2>1
    <2> QED
      BY <1>1, <1>7, <2>2
  <1> QED
    BY <1>4, <1>5, <1>6, <1>8, <1>9, <1>10

LEMMA CallShape ==
  ASSUME NEW call \in DOMAIN CallSteps
  PROVE  /\ CallSteps[call] \in Seq(Steps)
         /\ ShellShape(CallSteps[call])
         /\ \A x \in {"mount", "fids", "workers"} :
              HasIn(CallSteps[call], x) => HasIn(CallSteps[call], "start_sm")
         /\ HasIn(CallSteps[call], "close_sm") => HasIn(CallSteps[call], "join")
         /\ HasIn(CallSteps[call], "checkpoint") => call = "checkpoint"
         /\ call \notin {"stop", "close", "restart"} =>
              \A x : HasIn(CallSteps[call], x) => x \in {"statistics", "statistics2", "checkpoint"}
  <1> DEFINE s == CallSteps[call]
  <1>1. \/ call = "statistics" /\ s = <<"statistics", "statistics2">>
        \/ call = "checkpoint" /\ s = <<"checkpoint">>
        \/ call = "stop" /\ s = <<"stop", "join">>
        \/ call = "close" /\ s = CloseSteps
        \/ call = "restart" /\ s = RestartSteps
    BY DEF CallSteps, StopSteps
  <1>2. /\ ShellRank["statistics"] = 1 /\ ShellRank["statistics2"] = 2 /\ ShellRank["checkpoint"] = 3
        /\ ShellRank["stop"] = 4 /\ ShellRank["join"] = 5 /\ ShellRank["close_sm"] = 6
        /\ ShellRank["start_sm"] = 7 /\ ShellRank["mount"] = 8 /\ ShellRank["fids"] = 9
        /\ ShellRank["workers"] = 10
        /\ {"statistics", "statistics2", "checkpoint", "stop", "join", "close_sm",
            "start_sm", "mount", "fids", "workers"} \subseteq DOMAIN ShellRank
    BY DEF ShellRank
  <1>a. /\ <<"statistics", "statistics2">> \in Seq(Steps) /\ <<"checkpoint">> \in Seq(Steps)
        /\ <<"stop", "join">> \in Seq(Steps)
    BY DEF Steps
  <1> HIDE DEF s
  <1>3. CASE call = "statistics"
    <2>1. Len(s) = 2 /\ s[1] = "statistics" /\ s[2] = "statistics2" /\ s \in Seq(Steps)
      <3>1. s = <<"statistics", "statistics2">>
        BY <1>1, <1>3
      <3> QED
        BY <3>1, <1>a
    <2>2. 1 .. 2 = {1, 2}
      OBVIOUS
    <2>3. ShellShape(s)
      BY <1>2, <2>1, <2>2 DEF ShellShape, Increasing
    <2> QED
      BY <1>3, <2>1, <2>2, <2>3 DEF HasIn, s
  <1>4. CASE call = "checkpoint"
    <2>1. Len(s) = 1 /\ s[1] = "checkpoint" /\ s \in Seq(Steps)
      <3>1. s = <<"checkpoint">>
        BY <1>1, <1>4
      <3> QED
        BY <3>1, <1>a
    <2>2. 1 .. 1 = {1}
      OBVIOUS
    <2>3. ShellShape(s)
      BY <1>2, <2>1, <2>2 DEF ShellShape, Increasing
    <2> QED
      BY <1>4, <2>1, <2>2, <2>3 DEF HasIn, s
  <1>5. CASE call = "stop"
    <2>1. Len(s) = 2 /\ s[1] = "stop" /\ s[2] = "join" /\ s \in Seq(Steps)
      <3>1. s = <<"stop", "join">>
        BY <1>1, <1>5
      <3> QED
        BY <3>1, <1>a
    <2>2. 1 .. 2 = {1, 2}
      OBVIOUS
    <2>3. ShellShape(s)
      BY <1>2, <2>1, <2>2 DEF ShellShape, Increasing
    <2> QED
      BY <1>5, <2>1, <2>2, <2>3 DEF HasIn, s
  <1>6. CASE call = "close"
    <2>1. Len(s) = 3 /\ s[1] = "stop" /\ s[2] = "join" /\ s[3] = "close_sm" /\ s \in Seq(Steps)
      BY <1>1, <1>6, CloseAndRestart
    <2>2. 1 .. 3 = {1, 2, 3}
      OBVIOUS
    <2>3. ShellShape(s)
      BY <1>2, <2>1, <2>2 DEF ShellShape, Increasing
    <2> QED
      BY <1>6, <2>1, <2>2, <2>3 DEF HasIn, s
  <1>7. CASE call = "restart"
    <2>1. /\ Len(s) = 6 /\ s[1] = "stop" /\ s[2] = "join" /\ s[3] = "start_sm"
          /\ s[4] = "mount" /\ s[5] = "fids" /\ s[6] = "workers" /\ s \in Seq(Steps)
      BY <1>1, <1>7, CloseAndRestart
    <2>2. 1 .. 6 = {1, 2, 3, 4, 5, 6}
      OBVIOUS
    <2>3. ShellShape(s)
      <3>1. Increasing(s, ShellRank)
        BY <1>2, <2>1, <2>2 DEF Increasing
      <3> QED
        BY <2>1, <2>2, <3>1 DEF ShellShape
    <2> QED
      BY <1>7, <2>1, <2>2, <2>3 DEF HasIn, s
  <1> QED
    BY <1>1, <1>3, <1>4, <1>5, <1>6, <1>7

-----------------------------------------------------------------------------
(* The steps that callers make *)

\* What there is to know of a caller that is at a step.
LEMMA AtStep ==
  ASSUME TypeOK, ShapeInv, NEW c \in Callers, NEW x, At(c, x)
  PROVE  /\ Has(c, x) /\ status = "up"
         /\ c = "main" => /\ x \in DOMAIN MainRank
                          /\ \A y \in DOMAIN MainRank : MainRank[y] < MainRank[x] => ~Has(c, y)
                          /\ \A y \in Mandatory : MainRank[x] <= MainRank[y] => Has(c, y)
         /\ c = "shell" => /\ x \in DOMAIN ShellRank
                           /\ \A y \in DOMAIN ShellRank : ShellRank[y] < ShellRank[x] => ~Has(c, y)
  <1> DEFINE s == todo[c]
  <1>1. s \in Seq(Steps) /\ s # <<>> /\ Head(s) = x /\ status = "up"
    BY DEF At, TypeOK
  <1> HIDE DEF s
  <1>2. Len(s) \in Nat /\ 1 \in 1 .. Len(s) /\ s[1] = x
    BY <1>1
  <1>3. Has(c, x)
    BY <1>2 DEF Has, HasIn, s
  <1>4. ASSUME c = "main"
        PROVE  /\ x \in DOMAIN MainRank
               /\ \A y \in DOMAIN MainRank : MainRank[y] < MainRank[x] => ~Has(c, y)
               /\ \A y \in Mandatory : MainRank[x] <= MainRank[y] => Has(c, y)
    <2>1. MainShape(s)
      BY <1>4 DEF ShapeInv, s
    <2>2. x \in DOMAIN MainRank
      BY <1>2, <2>1 DEF MainShape, Increasing
    <2>3. \A y \in Mandatory : MainRank[x] <= MainRank[y] => HasIn(s, y)
      BY <1>2, <2>1 DEF MainShape
    <2>4. ASSUME NEW y \in DOMAIN MainRank, MainRank[y] < MainRank[x], HasIn(s, y)
          PROVE  FALSE
      <3>1. PICK n \in 1 .. Len(s) : s[n] = y
        BY <2>4 DEF HasIn
      <3>2. n = 1 \/ 1 < n
        OBVIOUS
      <3>3. MainRank[x] \in Nat /\ MainRank[y] \in Nat
        BY <2>2, Ranks
      <3>4. 1 < n => MainRank[x] < MainRank[y]
        BY <1>2, <2>1, <3>1 DEF MainShape, Increasing
      <3>5. n = 1 => y = x
        BY <1>2, <3>1
      <3> QED
        BY <2>4, <3>2, <3>3, <3>4, <3>5
    <2> QED
      BY <2>2, <2>3, <2>4 DEF Has, s
  <1>5. ASSUME c = "shell"
        PROVE  /\ x \in DOMAIN ShellRank
               /\ \A y \in DOMAIN ShellRank : ShellRank[y] < ShellRank[x] => ~Has(c, y)
    <2>1. ShellShape(s)
      BY <1>5 DEF ShapeInv, s
    <2>2. x \in DOMAIN ShellRank
      BY <1>2, <2>1 DEF ShellShape, Increasing
    <2>3. ASSUME NEW y \in DOMAIN ShellRank, ShellRank[y] < ShellRank[x], HasIn(s, y)
          PROVE  FALSE
      <3>1. PICK n \in 1 .. Len(s) : s[n] = y
        BY <2>3 DEF HasIn
      <3>2. n = 1 \/ 1 < n
        OBVIOUS
      <3>3. ShellRank[x] \in Nat /\ ShellRank[y] \in Nat
        BY <2>2, Ranks
      <3>4. 1 < n => ShellRank[x] < ShellRank[y]
        BY <1>2, <2>1, <3>1 DEF ShellShape, Increasing
      <3>5. n = 1 => y = x
        BY <1>2, <3>1
      <3> QED
        BY <2>3, <3>2, <3>3, <3>4, <3>5
    <2> QED
      BY <2>2, <2>3 DEF Has, s
  <1> QED
    BY <1>1, <1>3, <1>4, <1>5

\* A caller that leaves k of its steps s behind it.
LEMMA StepsLeft ==
  ASSUME TypeOK, ShapeInv, UNCHANGED cmd, NEW c \in Callers,
         NEW s, s = todo[c], NEW k \in 1 .. Len(s),
         NEW t \in Seq(Steps), Len(t) = Len(s) - k, \A n \in 1 .. Len(t) : t[n] = s[n + k],
         Goes(c, t)
  PROVE  /\ todo' \in [Callers -> Seq(Steps)]
         /\ ShapeInv'
         /\ \A y : Has(c, y)' <=> Has(c, y) /\ ~Before(s, k, y)
         /\ \A d \in Callers \ {c} : \A y : Has(d, y)' <=> Has(d, y)
  <1>1. todo \in [Callers -> Seq(Steps)] /\ todo' = [todo EXCEPT ![c] = t]
    BY DEF TypeOK, Goes
  <1>2. todo' \in [Callers -> Seq(Steps)] /\ todo'[c] = t /\ \A d \in Callers \ {c} : todo'[d] = todo[d]
    BY <1>1
  <1>3. \A d \in Callers \ {c} : \A y : Has(d, y)' <=> Has(d, y)
    BY <1>2 DEF Has
  <1>4. s \in Seq(Steps)
    BY <1>1
  <1>5. CASE c = "main"
    <2>1. MainShape(s) /\ Increasing(s, MainRank)
      BY <1>5 DEF ShapeInv, MainShape
    <2>2. MainShape(t)
      BY <1>4, <2>1, LeftMainShape
    <2>3. \A y : HasIn(t, y) <=> HasIn(s, y) /\ ~Before(s, k, y)
      BY <1>4, <2>1, Ranks, LeftIncreasing
    <2>4. todo'["main"] = t /\ todo'["shell"] = todo["shell"]
      BY <1>2, <1>5 DEF Callers
    <2> QED
      BY <1>2, <1>3, <1>5, <2>2, <2>3, <2>4 DEF ShapeInv, Has
  <1>6. CASE c = "shell"
    <2>1. ShellShape(s) /\ Increasing(s, ShellRank)
      BY <1>6 DEF ShapeInv, ShellShape
    <2>2. ShellShape(t)
      BY <1>4, <2>1, LeftShellShape
    <2>3. \A y : HasIn(t, y) <=> HasIn(s, y) /\ ~Before(s, k, y)
      BY <1>4, <2>1, Ranks, LeftIncreasing
    <2>4. todo'["shell"] = t /\ todo'["main"] = todo["main"]
      BY <1>2, <1>6 DEF Callers
    <2> QED
      BY <1>2, <1>3, <1>6, <2>2, <2>3, <2>4 DEF ShapeInv, Has
  <1> QED
    BY <1>5, <1>6 DEF Callers

\* ... that leaves the one it is at, ...
LEMMA StepTaken ==
  ASSUME TypeOK, ShapeInv, NEW c \in Callers, NEW x, At(c, x), Goes(c, Rest(c)), UNCHANGED cmd
  PROVE  /\ todo' \in [Callers -> Seq(Steps)]
         /\ ShapeInv'
         /\ \A y : Has(c, y)' <=> Has(c, y) /\ y # x
         /\ \A d \in Callers \ {c} : \A y : Has(d, y)' <=> Has(d, y)
  <1>1. PICK s : s = todo[c]
    OBVIOUS
  <1>2. PICK t : t = Tail(s)
    OBVIOUS
  <1>3. s \in Seq(Steps) /\ s # <<>> /\ Head(s) = x
    BY <1>1 DEF At, TypeOK
  <1>4. /\ 1 \in 1 .. Len(s) /\ s[1] = x
        /\ t \in Seq(Steps) /\ Len(t) = Len(s) - 1 /\ \A n \in 1 .. Len(t) : t[n] = s[n + 1]
    BY <1>2, <1>3
  <1>5. Goes(c, t)
    BY <1>1, <1>2 DEF Goes, Rest
  <1>6. /\ todo' \in [Callers -> Seq(Steps)]
        /\ ShapeInv'
        /\ \A y : Has(c, y)' <=> Has(c, y) /\ ~Before(s, 1, y)
        /\ \A d \in Callers \ {c} : \A y : Has(d, y)' <=> Has(d, y)
    BY <1>1, <1>4, <1>5, StepsLeft
  <1>7. \A y : Before(s, 1, y) <=> y = x
    BY <1>4 DEF Before
  <1> QED
    BY <1>6, <1>7

\* ... and one that leaves a whole call of k steps.
LEMMA CallLeft ==
  ASSUME TypeOK, ShapeInv, UNCHANGED cmd, NEW c \in Callers,
         NEW s, s = todo[c], NEW k \in 1 .. Len(s), NEW steps, Len(steps) = k,
         Goes(c, Without(c, steps))
  PROVE  /\ todo' \in [Callers -> Seq(Steps)]
         /\ ShapeInv'
         /\ \A y : Has(c, y)' <=> Has(c, y) /\ ~Before(s, k, y)
         /\ \A d \in Callers \ {c} : \A y : Has(d, y)' <=> Has(d, y)
  <1>1. PICK t : t = SubSeq(s, k + 1, Len(s))
    OBVIOUS
  <1>2. s \in Seq(Steps)
    BY DEF TypeOK
  <1>3. t \in Seq(Steps) /\ Len(t) = Len(s) - k /\ \A n \in 1 .. Len(t) : t[n] = s[n + k]
    BY <1>1, <1>2
  <1>4. Goes(c, t)
    BY <1>1 DEF Goes, Without
  <1> QED
    BY <1>3, <1>4, StepsLeft, ZenonT(40)

LEMMA NoStepTaken ==
  ASSUME ShapeInv, UNCHANGED <<todo, cmd>>
  PROVE  /\ ShapeInv'
         /\ \A d \in Callers : \A y : Has(d, y)' <=> Has(d, y)
  BY DEF ShapeInv, Has

\* Before a step of the main thread that is left there is no mandatory one missing.
LEMMA StillToCome ==
  ASSUME ShapeInv
  PROVE  /\ \A y \in DOMAIN MainRank : \A x \in Mandatory :
              Has("main", y) /\ MainRank[y] <= MainRank[x] => Has("main", x)
         /\ Has("main", "load") \/ Has("main", "create_tables") => Has("main", "load_data")
         /\ Has("main", "forkClients") => Has("main", "joinClients")
         /\ Has("main", "forkFailure") => Has("main", "joinFailure")
  BY DEF ShapeInv, MainShape, Has, HasIn

\* A caller that is not the main thread, or not the shell.
LEMMA OnlyMain ==
  ASSUME TypeOK, ShapeInv, NEW c \in Callers, NEW x, At(c, x), x \notin DOMAIN ShellRank
  PROVE  c = "main"
  BY AtStep DEF Callers

LEMMA OnlyShell ==
  ASSUME TypeOK, ShapeInv, NEW c \in Callers, NEW x, At(c, x), x \notin DOMAIN MainRank
  PROVE  c = "shell"
  BY AtStep DEF Callers

-----------------------------------------------------------------------------
(* The invariant *)

\* After any step of a command that goes on, the workers have a store.
LEMMA StoreNext ==
  ASSUME TypeOK', UpInv'
  PROVE  WorkersHaveAStore'
  <1> SUFFICES ASSUME opened' <= 1, NEW i \in Workers,
                      pool'[i] \notin {"none", "stopped", "deleted"}
               PROVE  pssm' = "open"
    BY DEF WorkersHaveAStore
  <1>1. pool' # [j \in Workers |-> "none"]
    OBVIOUS
  <1>2. ~Has("main", "workers")'
    BY <1>1 DEF UpInv, StartInv
  <1>3. opened' \in Nat /\ opened' >= 1
    BY <1>2 DEF UpInv, StopInv, TypeOK
  <1>4. opened' = 1
    BY <1>3
  <1> QED
    BY <1>1, <1>2, <1>4 DEF UpInv, StopInv

LEMMA GoesOn ==
  ASSUME TypeOK', UpInv', StatmapIsLive', status' = "up"
  PROVE  Inv'
  BY StoreNext DEF Inv, CommandsAreSafe

\* A command that ends leaves everything as it is.
LEMMA Ended ==
  ASSUME Inv, NEW how \in {"exit", "killed", "abort", "wild"}, EndsIn(how),
         how = "wild" => Reshaped \/ Called({"checkpoint"}),
         how = "abort" => \/ Reshaped
                          \/ ~cmd.load /\ disk \in {"none", "empty"}
                          \/ cmd.load /\ disk \in {"empty", "tables"}
                          \/ NoShare /\ \E k \in Clients : client[k] = "new"
  PROVE  Inv'
  <1>1. TypeOK'
    BY DEF Inv, TypeOK, EndsIn, command, history, flags, mutexes, threads
  <1>2. StatmapIsLive' /\ WorkersHaveAStore'
    BY DEF Inv, StatmapIsLive, WorkersHaveAStore, EndsIn, command, history, flags, threads
  <1>3. CommandsAreSafe'
    BY DEF CommandsAreSafe, Reshaped, Called, NoShare, EndsIn, command, history, threads
  <1>4. status' # "up"
    BY DEF EndsIn
  <1> QED
    BY <1>1, <1>2, <1>3, <1>4 DEF Inv

\* Steps by which nothing changes that the invariant is about, but what is left to do.
LEMMA PlainLeft ==
  ASSUME UpInv, ShapeInv', NEW c \in Callers, NEW X,
         \A y : Has(c, y)' <=> Has(c, y) /\ y \notin X,
         \A d \in Callers \ {c} : \A y : Has(d, y)' <=> Has(d, y),
         \A y \in {"emptyPath", "start_sm", "mount", "fids", "workers", "joinClients",
                   "joinFailure"} : y \notin X,
         "join" \in X => dbc = "STOPPED",
         UNCHANGED <<cmd, calls, opened, initialized, loaded, dbc, pssm, pool, client, failer, disk>>
  PROVE  UpInv'
  <1>1. StartInv'
    BY DEF UpInv, StartInv, Callers
  <1>2. StopInv'
    BY DEF UpInv, StopInv, Callers
  <1>3. DiskInv'
    BY DEF UpInv, DiskInv, Callers
  <1>4. QuietInv'
    BY DEF UpInv, QuietInv, Callers, Reshaped, Called
  <1> QED
    BY <1>1, <1>2, <1>3, <1>4 DEF UpInv

LEMMA PlainStep ==
  ASSUME Inv, NEW c \in Callers, NEW x, At(c, x), Goes(c, Rest(c)),
         x \notin {"emptyPath", "start_sm", "mount", "fids", "workers", "joinClients",
                   "joinFailure", "join"},
         UNCHANGED <<cmd, calls, opened, initialized, loaded, dbc, pssm, pool, client, failer, disk>>
  PROVE  UpInv' /\ todo' \in [Callers -> Seq(Steps)]
  <1>1. TypeOK /\ UpInv /\ ShapeInv
    BY DEF Inv, UpInv, At
  <1>2. /\ todo' \in [Callers -> Seq(Steps)] /\ ShapeInv'
        /\ \A y : Has(c, y)' <=> Has(c, y) /\ y # x
        /\ \A d \in Callers \ {c} : \A y : Has(d, y)' <=> Has(d, y)
    BY <1>1, StepTaken
  <1>3. PICK X : X = {x}
    OBVIOUS
  <1>4. \A y : y \in X <=> y = x
    BY <1>3
  <1> QED
    BY <1>1, <1>2, <1>4, PlainLeft

\* A plain step keeps the invariant.
LEMMA PlainOn ==
  ASSUME Inv, NEW c \in Callers, NEW x, At(c, x), Goes(c, Rest(c)),
         x \notin {"emptyPath", "start_sm", "mount", "fids", "workers", "joinClients",
                   "joinFailure", "join"},
         measure' \in {"UNDEF", "MEASURE", "PAUSE", "DONE"},
         initMx' \in Callers \cup {Free}, loadMx' \in Callers \cup {Free},
         statMx' \in Callers \cup {Free},
         UNCHANGED <<cmd, left, status, calls, opened, initialized, loaded, dbc, pssm, pool,
                     statmap, client, failer, disk>>
  PROVE  Inv'
  <1>1. TypeOK /\ UpInv' /\ todo' \in [Callers -> Seq(Steps)]
    BY PlainStep DEF Inv
  <1>2. TypeOK'
    BY <1>1 DEF TypeOK
  <1>3. StatmapIsLive'
    BY DEF Inv, StatmapIsLive
  <1>4. status' = "up"
    BY DEF At
  <1> QED
    BY <1>1, <1>2, <1>3, <1>4, GoesOn

LEMMA InitEnvInv ==
  ASSUME Inv, NEW c \in Callers, InitEnv(c)
  PROVE  Inv'
  BY PlainOn DEF InitEnv, Inv, TypeOK, command, history, flags, mutexes, threads

\* load() is called once, by the main thread, before anything is loaded.
LEMMA LoadInv ==
  ASSUME Inv, NEW c \in Callers, Load(c)
  PROVE  Inv'
  <1>1. TypeOK /\ ShapeInv /\ DiskInv /\ At(c, "load")
    BY DEF Inv, UpInv, Load, At
  <1>2. c = "main"
    BY <1>1, OnlyMain DEF ShellRank
  <1>3. Has("main", "load_data")
    BY <1>1, <1>2, AtStep, StillToCome
  <1>4. ~loaded
    BY <1>1, <1>3 DEF DiskInv
  <1> QED
    BY <1>1, <1>4, PlainOn DEF Load, TypeOK, command, history, flags, mutexes, threads

LEMMA StatisticsInv ==
  ASSUME Inv, NEW c \in Callers, Statistics(c) \/ EnvStatistics(c)
  PROVE  Inv'
  <1>1. TypeOK
    BY DEF Inv
  <1>2. CASE Statistics(c)
    BY <1>1, <1>2, PlainOn DEF Statistics, TypeOK, command, history, flags, mutexes, threads
  <1>3. CASE EnvStatistics(c)
    BY <1>1, <1>3, PlainOn DEF EnvStatistics, TypeOK, command, history, flags, mutexes, threads
  <1> QED
    BY <1>2, <1>3

LEMMA ReadStatsInv ==
  ASSUME Inv, NEW c \in Callers, ReadStats(c)
  PROVE  Inv'
  <1>1. TypeOK
    BY DEF Inv
  <1>2. CASE At(c, "reset_stats")
    BY <1>1, <1>2, PlainOn DEF ReadStats, TypeOK, command, history, flags, mutexes, threads
  <1>3. CASE At(c, "print_throughput")
    BY <1>1, <1>3, PlainOn DEF ReadStats, TypeOK, command, history, flags, mutexes, threads
  <1> QED
    BY <1>2, <1>3 DEF ReadStats

LEMMA MeasureInv ==
  ASSUME Inv, NEW c \in Callers, Measure(c)
  PROVE  Inv'
  BY PlainOn DEF Measure, Inv, TypeOK, command, history, flags, mutexes, threads

\* A checkpoint comes too late only if the shell called it.
LEMMA CheckpointInv ==
  ASSUME Inv, NEW c \in Callers, Checkpoint(c)
  PROVE  Inv'
  <1>1. TypeOK /\ ShapeInv /\ QuietInv /\ At(c, "checkpoint")
    BY DEF Inv, UpInv, Checkpoint, At
  <1>2. c = "shell"
    BY <1>1, OnlyShell DEF MainRank
  <1>3. Called({"checkpoint"})
    BY <1>1, <1>2, AtStep DEF QuietInv
  <1>4. CASE pssm # "open"
    BY <1>3, <1>4, Ended DEF Checkpoint
  <1>5. CASE pssm = "open"
    BY <1>1, <1>5, PlainOn DEF Checkpoint, TypeOK, command, history, flags, mutexes, threads
  <1> QED
    BY <1>4, <1>5

-----------------------------------------------------------------------------
(* The start and the load *)

\* What holds of a step that starts the environment: the main thread is alone then, and
\* when the shell does it the main thread is past it and the environment was reshaped.
LEMMA AtStart ==
  ASSUME Inv, NEW c \in Callers, NEW x \in {"start_sm", "mount", "fids", "workers"}, At(c, x)
  PROVE  /\ TypeOK /\ UpInv /\ StatmapIsLive /\ status = "up"
         /\ c = "main" => Has("main", "workers") /\ calls = {} /\ \A y : ~Has("shell", y)
         /\ c = "shell" =>
              /\ Reshaped
              /\ \A y \in {"emptyPath", "start_sm", "mount", "fids", "workers"} : ~Has("main", y)
  <1>1. TypeOK /\ UpInv /\ ShapeInv /\ StatmapIsLive /\ status = "up"
    BY DEF Inv, UpInv, At
  <1>2. ASSUME c = "main"
        PROVE  Has("main", "workers") /\ calls = {} /\ \A y : ~Has("shell", y)
    <2>1. Has("main", "workers")
      BY <1>1, <1>2, AtStep DEF MainRank, Mandatory
    <2> QED
      BY <1>1, <2>1 DEF UpInv, StartInv
  <1>3. ASSUME c = "shell"
        PROVE  /\ Reshaped
               /\ \A y \in {"emptyPath", "start_sm", "mount", "fids", "workers"} : ~Has("main", y)
    <2>1. Has("shell", x)
      BY <1>1, <1>3, AtStep
    <2>2. ~Has("main", "workers")
      BY <1>1, <2>1 DEF UpInv, StartInv
    <2>3. \A y \in {"emptyPath", "start_sm", "mount", "fids", "workers"} :
            y \in DOMAIN MainRank /\ MainRank[y] <= MainRank["workers"]
      BY DEF MainRank
    <2>4. \A y \in {"emptyPath", "start_sm", "mount", "fids", "workers"} : ~Has("main", y)
      BY <1>1, <2>2, <2>3, StillToCome DEF Mandatory
    <2>5. Reshaped
      BY <1>1, <2>1 DEF UpInv, QuietInv
    <2> QED
      BY <2>4, <2>5
  <1> QED
    BY <1>1, <1>2, <1>3

LEMMA EnsureEmptyPathInv ==
  ASSUME Inv, NEW c \in Callers, EnsureEmptyPath(c)
  PROVE  Inv'
  <1>1. TypeOK /\ UpInv /\ ShapeInv /\ StatmapIsLive /\ At(c, "emptyPath") /\ status = "up"
    BY DEF Inv, UpInv, EnsureEmptyPath, At
  <1>2. c = "main"
    BY <1>1, OnlyMain DEF ShellRank
  <1>3. Has("main", "mount") /\ Has("main", "fids") /\ Has("main", "workers") /\ Has("main", "start_sm")
    BY <1>1, <1>2, AtStep DEF MainRank, Mandatory
  <1>4. /\ todo' \in [Callers -> Seq(Steps)] /\ ShapeInv'
        /\ \A y : Has("main", y)' <=> Has("main", y) /\ y # "emptyPath"
        /\ \A y : Has("shell", y)' <=> Has("shell", y)
    BY <1>1, <1>2, StepTaken DEF EnsureEmptyPath, command, Callers
  <1>5. /\ TypeOK' /\ StatmapIsLive' /\ status' = "up"
        /\ UNCHANGED <<cmd, calls, opened, initialized, loaded, dbc, pssm, pool, client, failer>>
    BY <1>1, <1>4 DEF EnsureEmptyPath, TypeOK, StatmapIsLive, command, history, flags, mutexes, threads
  <1>6. StartInv'
    BY <1>1, <1>4, <1>5 DEF UpInv, StartInv
  <1>7. StopInv'
    BY <1>1, <1>4, <1>5 DEF UpInv, StopInv, Callers
  <1>8. DiskInv'
    <2>1. disk' = IF cmd.load THEN "none" ELSE disk
      BY DEF EnsureEmptyPath
    <2>2. ~loaded
      BY <1>1, <1>3 DEF UpInv, DiskInv
    <2> QED
      BY <1>1, <1>3, <1>4, <1>5, <2>1, <2>2 DEF UpInv, DiskInv
  <1>9. QuietInv'
    BY <1>1, <1>4, <1>5 DEF UpInv, QuietInv, Reshaped, Called
  <1> QED
    BY <1>4, <1>5, <1>6, <1>7, <1>8, <1>9, GoesOn DEF UpInv

LEMMA StartSmInv ==
  ASSUME Inv, NEW c \in Callers, StartSm(c)
  PROVE  Inv'
  <1>1. At(c, "start_sm")
    BY DEF StartSm
  <1>2. /\ TypeOK /\ UpInv /\ ShapeInv /\ StatmapIsLive /\ status = "up"
        /\ c = "main" => Has("main", "workers") /\ calls = {} /\ \A y : ~Has("shell", y)
        /\ c = "shell" =>
             /\ Reshaped
             /\ \A y \in {"emptyPath", "start_sm", "mount", "fids", "workers"} : ~Has("main", y)
    BY <1>1, AtStart DEF UpInv
  <1>3. /\ UNCHANGED <<cmd, left, status, calls, initialized, loaded, dbc, measure,
                       initMx, loadMx, statMx, pool, statmap, client, failer, disk>>
    BY DEF StartSm, command, mutexes, threads
  <1>4. CASE c = "main"
    <2>1. ~initialized /\ opened = 0
      BY <1>1, <1>2, <1>4, AtStep DEF UpInv, StartInv
    <2>2. Goes(c, Rest(c)) /\ pssm' = "open" /\ opened' = 1
      BY <2>1 DEF StartSm
    <2>3. /\ todo' \in [Callers -> Seq(Steps)] /\ ShapeInv'
          /\ \A y : Has("main", y)' <=> Has("main", y) /\ y # "start_sm"
          /\ \A y : Has("shell", y)' <=> Has("shell", y)
      BY <1>1, <1>2, <1>3, <1>4, <2>2, StepTaken DEF Callers
    <2>4. TypeOK' /\ StatmapIsLive'
      <3>1. TypeOK'
        BY <1>2, <1>3, <2>2, <2>3 DEF TypeOK
      <3>2. StatmapIsLive'
        BY <1>2, <1>3, <2>2, <2>3 DEF StatmapIsLive
      <3> QED
        BY <3>1, <3>2
    <2>5. StartInv'
      BY <1>2, <1>3, <1>4, <2>2, <2>3 DEF UpInv, StartInv
    <2>6. StopInv'
      BY <1>2, <1>3, <1>4, <2>2, <2>3 DEF UpInv, StopInv, Callers
    <2>7. DiskInv'
      BY <1>2, <1>3, <2>3 DEF UpInv, DiskInv
    <2>8. QuietInv'
      <3>1. \A k \in Clients : client[k] = "none"
        BY <1>2, <1>4 DEF UpInv, StartInv
      <3>2. failer = "none"
        BY <1>2, <1>4 DEF UpInv, StartInv
      <3> QED
        BY <1>2, <1>3, <1>4, <2>2, <2>3, <3>1, <3>2 DEF UpInv, QuietInv, Reshaped, Called
    <2> QED
      BY <1>2, <1>3, <2>3, <2>4, <2>5, <2>6, <2>7, <2>8, GoesOn DEF UpInv
  \* start() fails: it is called last, so that nothing is left to the shell.
  <1>5. CASE c = "shell" /\ initialized
    <2>1. Goes(c, Without(c, StartSteps)) /\ UNCHANGED <<pssm, opened>>
      BY <1>5 DEF StartSm
    <2>2. PICK s : s = todo[c]
      OBVIOUS
    <2>3. s \in Seq(Steps) /\ s # <<>> /\ Head(s) = "start_sm"
      BY <1>1, <1>2, <2>2 DEF At, TypeOK
    <2>4. 1 \in 1 .. Len(s) /\ s[1] = "start_sm"
      BY <2>3
    <2>5. Len(s) = 4
      <3>1. \A n \in 1 .. Len(s) : s[n] = "start_sm" => Len(s) = n + 3
        BY <1>2, <1>5, <2>2 DEF ShapeInv, ShellShape
      <3>2. Len(s) = 1 + 3
        BY <2>4, <3>1
      <3> QED
        BY <3>2
    <2>6. Len(StartSteps) = 4
      BY DEF StartSteps
    <2>7. 4 \in 1 .. Len(s)
      BY <2>5
    <2>8. /\ todo' \in [Callers -> Seq(Steps)] /\ ShapeInv'
          /\ \A y : Has(c, y)' <=> Has(c, y) /\ ~Before(s, 4, y)
          /\ \A d \in Callers \ {c} : \A y : Has(d, y)' <=> Has(d, y)
      BY <1>2, <1>3, <2>1, <2>2, <2>6, <2>7, CallLeft
    <2>9. \A y : Has(c, y) => Before(s, 4, y)
      BY <2>2, <2>5 DEF Has, HasIn, Before
    <2>10. /\ \A y : ~Has("shell", y)'
           /\ \A y : Has("main", y)' <=> Has("main", y)
      BY <1>5, <2>8, <2>9 DEF Callers
    <2>11. TypeOK' /\ StatmapIsLive'
      <3>1. TypeOK'
        BY <1>2, <1>3, <2>1, <2>8 DEF TypeOK
      <3>2. StatmapIsLive'
        BY <1>2, <1>3, <2>1, <2>8 DEF StatmapIsLive
      <3> QED
        BY <3>1, <3>2
    <2>12. StartInv'
      BY <1>2, <1>3, <2>1, <2>10 DEF UpInv, StartInv
    <2>13. StopInv'
      BY <1>2, <1>3, <2>1, <2>10 DEF UpInv, StopInv, Callers
    <2>14. DiskInv'
      BY <1>2, <1>3, <2>10 DEF UpInv, DiskInv
    <2>15. QuietInv'
      BY <1>2, <1>3, <2>1, <2>10 DEF UpInv, QuietInv, Reshaped, Called
    <2> QED
      BY <1>2, <1>3, <2>8, <2>11, <2>12, <2>13, <2>14, <2>15, GoesOn DEF UpInv
  <1>6. CASE c = "shell" /\ ~initialized
    <2>1. opened \in Nat /\ opened >= 1
      BY <1>2, <1>6 DEF UpInv, StopInv, TypeOK
    <2>2. Goes(c, Rest(c)) /\ pssm' = "open" /\ opened' = opened + 1 /\ opened' \in Nat /\ opened' >= 2
      BY <1>6, <2>1 DEF StartSm
    <2>3. /\ todo' \in [Callers -> Seq(Steps)] /\ ShapeInv'
          /\ \A y : Has("shell", y)' <=> Has("shell", y) /\ y # "start_sm"
          /\ \A y : Has("main", y)' <=> Has("main", y)
      BY <1>1, <1>2, <1>3, <1>6, <2>2, StepTaken DEF Callers
    <2>4. TypeOK' /\ StatmapIsLive'
      <3>1. TypeOK'
        BY <1>2, <1>3, <2>2, <2>3 DEF TypeOK
      <3>2. StatmapIsLive'
        BY <1>2, <1>3, <2>2, <2>3 DEF StatmapIsLive
      <3> QED
        BY <3>1, <3>2
    <2>5. StartInv'
      BY <1>2, <1>3, <1>6, <2>2, <2>3 DEF UpInv, StartInv
    <2>6. StopInv'
      BY <1>2, <1>3, <1>6, <2>2, <2>3 DEF UpInv, StopInv, Callers
    <2>7. DiskInv'
      BY <1>2, <1>3, <2>3 DEF UpInv, DiskInv
    <2>8. QuietInv'
      BY <1>2, <1>3, <1>6, <2>3 DEF UpInv, QuietInv, Reshaped, Called
    <2> QED
      BY <1>2, <1>3, <2>3, <2>4, <2>5, <2>6, <2>7, <2>8, GoesOn DEF UpInv
  <1> QED
    BY <1>4, <1>5, <1>6 DEF Callers

LEMMA MountInv ==
  ASSUME Inv, NEW c \in Callers, Mount(c)
  PROVE  Inv'
  <1>1. At(c, "mount")
    BY DEF Mount
  <1>2. /\ TypeOK /\ UpInv /\ ShapeInv /\ StatmapIsLive /\ status = "up"
        /\ c = "main" => Has("main", "workers") /\ calls = {} /\ \A y : ~Has("shell", y)
        /\ c = "shell" =>
             /\ Reshaped
             /\ \A y \in {"emptyPath", "start_sm", "mount", "fids", "workers"} : ~Has("main", y)
    BY <1>1, AtStart DEF UpInv
  <1>3. c = "main" =>
          /\ Has("main", "mount") /\ Has("main", "fids")
          /\ ~Has("main", "emptyPath") /\ ~Has("main", "start_sm")
    BY <1>1, <1>2, AtStep DEF MainRank, Mandatory
  <1>4. CASE cmd.load = (disk # "none") /\ EndsIn("abort")
    <2>1. Reshaped \/ (~cmd.load /\ disk \in {"none", "empty"})
      <3>1. CASE c = "main"
        <4>1. cmd.load => disk = "none"
          BY <1>2, <1>3, <3>1 DEF UpInv, DiskInv
        <4> QED
          BY <1>4, <4>1
      <3>2. CASE c = "shell"
        BY <1>2, <3>2
      <3> QED
        BY <3>1, <3>2 DEF Callers
    <2> QED
      BY <1>4, <2>1, Ended
  <1>5. ASSUME cmd.load \/ disk # "none", disk' = IF cmd.load THEN "empty" ELSE disk,
               loaded' = ~cmd.load, Goes(c, Rest(c)),
               UNCHANGED <<command, status, history, initialized, dbc, pssm, measure, mutexes, threads>>
        PROVE  Inv'
    <2>1. UNCHANGED <<cmd, left, status, calls, opened, initialized, dbc, pssm, measure,
                      initMx, loadMx, statMx, pool, statmap, client, failer>>
      BY <1>5 DEF command, history, mutexes, threads
    <2>2. /\ todo' \in [Callers -> Seq(Steps)] /\ ShapeInv'
          /\ \A y : Has(c, y)' <=> Has(c, y) /\ y # "mount"
          /\ \A d \in Callers \ {c} : \A y : Has(d, y)' <=> Has(d, y)
      BY <1>1, <1>2, <1>5, <2>1, StepTaken
    <2>3. TypeOK' /\ StatmapIsLive'
      <3>1. disk' \in {"none", "empty", "tables", "full"}
        BY <1>2, <1>5 DEF TypeOK
      <3>2. loaded' \in BOOLEAN
        BY <1>5
      <3> QED
        BY <1>2, <2>1, <2>2, <3>1, <3>2 DEF TypeOK, StatmapIsLive
    <2>4. ~Has("main", "mount")'
      BY <1>2, <2>2 DEF Callers
    <2>5. StartInv'
      BY <1>2, <1>3, <2>1, <2>2 DEF UpInv, StartInv, Callers
    <2>6. StopInv'
      <3>1. CASE c = "main"
        BY <1>2, <2>1, <2>2, <3>1 DEF UpInv, StopInv, Callers
      <3>2. CASE c = "shell"
        <4>1. ~Has("shell", "start_sm")
          BY <1>1, <1>2, <3>2, AtStep DEF ShellRank
        <4>2. opened >= 2
          BY <1>1, <1>2, <3>2, <4>1, AtStep DEF UpInv, StopInv
        <4> QED
          BY <1>2, <2>1, <2>2, <3>2, <4>2 DEF UpInv, StopInv, Callers
      <3> QED
        BY <3>1, <3>2 DEF Callers
    <2>7. DiskInv'
      <3>1. Has("main", "load_data")' => cmd'.load
        BY <2>2 DEF ShapeInv
      <3>2. ~cmd.load /\ ~Has("main", "fids")' => disk \in {"tables", "full"}
        BY <1>2, <1>3, <2>2 DEF UpInv, DiskInv, Callers
      <3> QED
        BY <1>5, <2>1, <2>4, <3>1, <3>2 DEF DiskInv
    <2>8. QuietInv'
      <3>1. CASE c = "main"
        BY <1>2, <2>1, <2>2, <3>1 DEF UpInv, QuietInv, Reshaped, Called, Callers
      <3>2. CASE c = "shell"
        BY <1>2, <2>1, <2>2, <3>2 DEF UpInv, QuietInv, Reshaped, Called, Callers
      <3> QED
        BY <3>1, <3>2 DEF Callers
    <2> QED
      BY <1>2, <2>1, <2>2, <2>3, <2>5, <2>6, <2>7, <2>8, GoesOn DEF UpInv
  <1> QED
    BY <1>4, <1>5 DEF Mount

LEMMA RegisterFidsInv ==
  ASSUME Inv, NEW c \in Callers, RegisterFids(c)
  PROVE  Inv'
  <1>1. At(c, "fids")
    BY DEF RegisterFids
  <1>2. /\ TypeOK /\ UpInv /\ ShapeInv /\ StatmapIsLive /\ status = "up"
        /\ c = "main" => Has("main", "workers") /\ calls = {} /\ \A y : ~Has("shell", y)
        /\ c = "shell" =>
             /\ Reshaped
             /\ \A y \in {"emptyPath", "start_sm", "mount", "fids", "workers"} : ~Has("main", y)
    BY <1>1, AtStart DEF UpInv
  <1>3. CASE ~cmd.load /\ disk = "empty"
    BY <1>3, Ended DEF RegisterFids
  <1>4. CASE ~(~cmd.load /\ disk = "empty")
    <2>1. /\ Goes(c, Rest(c))
          /\ UNCHANGED <<cmd, left, status, calls, opened, initialized, loaded, dbc, pssm, measure,
                         initMx, loadMx, statMx, pool, statmap, client, failer, disk>>
      BY <1>4 DEF RegisterFids, command, history, flags, mutexes, threads
    <2>2. /\ todo' \in [Callers -> Seq(Steps)] /\ ShapeInv'
          /\ \A y : Has(c, y)' <=> Has(c, y) /\ y # "fids"
          /\ \A d \in Callers \ {c} : \A y : Has(d, y)' <=> Has(d, y)
      BY <1>1, <1>2, <2>1, StepTaken
    <2>3. TypeOK' /\ StatmapIsLive'
      <3>1. TypeOK'
        BY <1>2, <2>1, <2>2 DEF TypeOK
      <3>2. StatmapIsLive'
        BY <1>2, <2>1, <2>2 DEF StatmapIsLive
      <3> QED
        BY <3>1, <3>2
    <2>4. StartInv'
      BY <1>2, <2>1, <2>2 DEF UpInv, StartInv, Callers
    <2>5. StopInv'
      <3>1. CASE c = "main"
        BY <1>2, <2>1, <2>2, <3>1 DEF UpInv, StopInv, Callers
      <3>2. CASE c = "shell"
        <4>1. ~Has("shell", "start_sm")
          BY <1>1, <1>2, <3>2, AtStep DEF ShellRank
        <4>2. opened >= 2
          BY <1>1, <1>2, <3>2, <4>1, AtStep DEF UpInv, StopInv
        <4> QED
          BY <1>2, <2>1, <2>2, <3>2, <4>2 DEF UpInv, StopInv, Callers
      <3> QED
        BY <3>1, <3>2 DEF Callers
    <2>6. DiskInv'
      <3>1. ~Has("main", "mount")
        BY <1>1, <1>2, AtStep DEF MainRank, Callers
      <3>2. ~cmd.load => disk \in {"tables", "full"}
        BY <1>2, <1>4, <3>1 DEF UpInv, DiskInv, TypeOK
      <3> QED
        BY <1>2, <2>1, <2>2, <3>1, <3>2 DEF UpInv, DiskInv, Callers
    <2>7. QuietInv'
      BY <1>2, <2>1, <2>2 DEF UpInv, QuietInv, Reshaped, Called, Callers
    <2> QED
      BY <1>2, <2>1, <2>2, <2>3, <2>4, <2>5, <2>6, <2>7, GoesOn DEF UpInv
  <1> QED
    BY <1>3, <1>4

LEMMA ForkWorkersInv ==
  ASSUME Inv, NEW c \in Callers, ForkWorkers(c)
  PROVE  Inv'
  <1>1. At(c, "workers")
    BY DEF ForkWorkers
  <1>2. /\ TypeOK /\ UpInv /\ ShapeInv /\ StatmapIsLive /\ status = "up"
        /\ c = "main" => Has("main", "workers") /\ calls = {} /\ \A y : ~Has("shell", y)
        /\ c = "shell" =>
             /\ Reshaped
             /\ \A y \in {"emptyPath", "start_sm", "mount", "fids", "workers"} : ~Has("main", y)
    BY <1>1, AtStart DEF UpInv
  <1>3. CASE \E i \in Workers : pool[i] # "none"
    <2>1. c # "main"
      BY <1>2, <1>3 DEF UpInv, StartInv
    <2>2. Reshaped
      BY <1>2, <2>1 DEF Callers
    <2> QED
      BY <1>3, <2>2, Ended DEF ForkWorkers
  <1>4. CASE ~\E i \in Workers : pool[i] # "none"
    <2>1. /\ initialized' = TRUE /\ pool' = [i \in Workers |-> "init"]
          /\ Goes(c, Rest(c))
          /\ UNCHANGED <<cmd, left, status, calls, opened, loaded, dbc, pssm, measure,
                         initMx, loadMx, statMx, statmap, client, failer, disk>>
      BY <1>4 DEF ForkWorkers, command, history, mutexes
    <2>2. /\ todo' \in [Callers -> Seq(Steps)] /\ ShapeInv'
          /\ \A y : Has(c, y)' <=> Has(c, y) /\ y # "workers"
          /\ \A d \in Callers \ {c} : \A y : Has(d, y)' <=> Has(d, y)
      BY <1>1, <1>2, <2>1, StepTaken
    <2>3. TypeOK'
      BY <1>2, <2>1, <2>2 DEF TypeOK, WorkerStates
    <2>4. StatmapIsLive'
      BY <1>2, <1>4, <2>1 DEF StatmapIsLive, TypeOK
    <2>5. ~Has("main", "workers")'
      BY <1>2, <2>2 DEF Callers
    <2>6. ~Has("main", "start_sm") /\ ~Has("main", "mount") /\ ~Has("main", "fids")
      BY <1>1, <1>2, AtStep DEF MainRank, Callers
    <2>7. CASE c = "main"
      <3>1. /\ opened = 1 /\ pssm = "open" /\ dbc = "UNDEF" /\ failer = "none"
            /\ client = [k \in Clients |-> "none"]
        BY <1>2, <2>6, <2>7 DEF UpInv, StartInv
      <3>2. StartInv'
        BY <2>2, <2>5, <2>6, <2>7 DEF StartInv, Callers
      <3>3. StopInv'
        BY <1>2, <2>1, <2>2, <2>7, <3>1 DEF UpInv, StopInv, Callers
      <3>4. DiskInv'
        BY <1>2, <2>1, <2>2, <2>7 DEF UpInv, DiskInv, Callers
      <3>5. QuietInv'
        BY <1>2, <2>1, <2>2, <2>7, <3>1 DEF UpInv, QuietInv, Reshaped, Called, Callers, AtHand, Present
      <3> QED
        BY <1>2, <2>1, <2>2, <2>3, <2>4, <3>2, <3>3, <3>4, <3>5, GoesOn DEF UpInv
    <2>8. CASE c = "shell"
      <3>1. opened >= 2 /\ opened \in Nat
        <4>1. Has("shell", "workers") /\ ~Has("shell", "start_sm")
          BY <1>1, <1>2, <2>8, AtStep DEF ShellRank
        <4> QED
          BY <1>2, <4>1 DEF UpInv, StopInv, TypeOK
      <3>2. StartInv'
        BY <2>2, <2>5, <2>6, <2>8 DEF StartInv, Callers
      <3>3. StopInv'
        BY <1>2, <2>1, <2>2, <2>8, <3>1 DEF UpInv, StopInv, Callers
      <3>4. DiskInv'
        BY <1>2, <2>1, <2>2, <2>8 DEF UpInv, DiskInv, Callers
      <3>5. QuietInv'
        BY <1>2, <2>1, <2>2, <2>8 DEF UpInv, QuietInv, Reshaped, Called, Callers
      <3> QED
        BY <1>2, <2>1, <2>2, <2>3, <2>4, <3>2, <3>3, <3>4, <3>5, GoesOn DEF UpInv
    <2> QED
      BY <2>7, <2>8 DEF Callers
  <1> QED
    BY <1>3, <1>4

LEMMA CreateTablesInv ==
  ASSUME Inv, NEW c \in Callers, CreateTables(c)
  PROVE  Inv'
  <1>1. TypeOK /\ UpInv /\ ShapeInv /\ StatmapIsLive /\ At(c, "create_tables") /\ status = "up"
    BY DEF Inv, UpInv, CreateTables, At
  <1>2. c = "main"
    BY <1>1, OnlyMain DEF ShellRank
  <1>3. Has("main", "load_data") /\ ~Has("main", "mount") /\ ~Has("main", "emptyPath")
    BY <1>1, <1>2, AtStep, StillToCome DEF MainRank
  <1>4. cmd.load /\ ~loaded
    BY <1>1, <1>3 DEF ShapeInv, UpInv, DiskInv
  <1>5. /\ Goes(c, Rest(c)) /\ disk' = "tables" /\ measure' = "MEASURE"
        /\ UNCHANGED <<cmd, left, status, calls, opened, initialized, loaded, dbc, pssm,
                       initMx, loadMx, statMx, pool, statmap, client, failer>>
    BY DEF CreateTables, command, history, mutexes, threads
  <1>6. /\ todo' \in [Callers -> Seq(Steps)] /\ ShapeInv'
        /\ \A y : Has("main", y)' <=> Has("main", y) /\ y # "create_tables"
        /\ \A y : Has("shell", y)' <=> Has("shell", y)
    BY <1>1, <1>2, <1>5, StepTaken DEF Callers
  <1>7. TypeOK' /\ StatmapIsLive'
    <2>1. TypeOK'
      BY <1>1, <1>5, <1>6 DEF TypeOK
    <2>2. StatmapIsLive'
      BY <1>1, <1>5, <1>6 DEF StatmapIsLive
    <2> QED
      BY <2>1, <2>2
  <1>8. StartInv' /\ StopInv'
    BY <1>1, <1>5, <1>6 DEF UpInv, StartInv, StopInv, Callers
  <1>9. DiskInv'
    BY <1>1, <1>3, <1>4, <1>5, <1>6 DEF UpInv, DiskInv
  <1>10. QuietInv'
    BY <1>1, <1>5, <1>6 DEF UpInv, QuietInv, Reshaped, Called
  <1> QED
    BY <1>1, <1>5, <1>6, <1>7, <1>8, <1>9, <1>10, GoesOn DEF UpInv

LEMMA LoadDataInv ==
  ASSUME Inv, NEW c \in Callers, LoadData(c)
  PROVE  Inv'
  <1>1. TypeOK /\ UpInv /\ ShapeInv /\ StatmapIsLive /\ At(c, "load_data") /\ status = "up"
    BY DEF Inv, UpInv, LoadData, At
  <1>2. c = "main"
    BY <1>1, OnlyMain DEF ShellRank
  <1>3. ~Has("main", "mount") /\ ~Has("main", "emptyPath") /\ Has("main", "load_data")
    BY <1>1, <1>2, AtStep DEF MainRank
  <1>4. cmd.load
    BY <1>1, <1>3 DEF ShapeInv
  <1>5. /\ Goes(c, Rest(c)) /\ disk' = "full" /\ measure' = "PAUSE" /\ loaded' = TRUE
        /\ loadMx' = Free
        /\ UNCHANGED <<cmd, left, status, calls, opened, initialized, dbc, pssm,
                       initMx, statMx, pool, statmap, client, failer>>
    BY DEF LoadData, command, history, threads
  <1>6. /\ todo' \in [Callers -> Seq(Steps)] /\ ShapeInv'
        /\ \A y : Has("main", y)' <=> Has("main", y) /\ y # "load_data"
        /\ \A y : Has("shell", y)' <=> Has("shell", y)
    BY <1>1, <1>2, <1>5, StepTaken DEF Callers
  <1>7. TypeOK' /\ StatmapIsLive'
    <2>1. TypeOK'
      BY <1>1, <1>5, <1>6 DEF TypeOK
    <2>2. StatmapIsLive'
      BY <1>1, <1>5, <1>6 DEF StatmapIsLive
    <2> QED
      BY <2>1, <2>2
  <1>8. StartInv' /\ StopInv'
    BY <1>1, <1>5, <1>6 DEF UpInv, StartInv, StopInv, Callers
  <1>9. DiskInv'
    BY <1>1, <1>3, <1>4, <1>5, <1>6 DEF UpInv, DiskInv
  <1>10. QuietInv'
    BY <1>1, <1>5, <1>6 DEF UpInv, QuietInv, Reshaped, Called
  <1> QED
    BY <1>1, <1>5, <1>6, <1>7, <1>8, <1>9, <1>10, GoesOn DEF UpInv

-----------------------------------------------------------------------------
(* The workers, stop and close *)

LEMMA WorkerOfType ==
  ASSUME NEW k \in Clients
  PROVE  WorkerOf(k) \in Workers
  BY EnvLifeAssumption DEF WorkerOf, Workers, Clients

\* Who is told something wakes up, or stays as it was.
Nudged(new, old) == \A j \in Workers : new[j] = old[j] \/ (old[j] = "asleep" /\ new[j] = "active")

LEMMA ToldNudges ==
  ASSUME NEW workers \in [Workers -> WorkerStates], NEW i
  PROVE  Told(workers, i) \in [Workers -> WorkerStates] /\ Nudged(Told(workers, i), workers)
  <1>1. PICK p : p = Told(workers, i)
    OBVIOUS
  <1>2. p = [j \in Workers |-> IF j = i /\ workers[j] = "asleep" THEN "active" ELSE workers[j]]
    <2>1. DOMAIN workers = Workers
      OBVIOUS
    <2> QED
      BY <1>1, <2>1 DEF Told
  <1>3. p \in [Workers -> WorkerStates]
    BY <1>2 DEF WorkerStates
  <1>4. Nudged(p, workers)
    BY <1>2 DEF Nudged
  <1> QED
    BY <1>1, <1>3, <1>4

LEMMA NudgedPool ==
  ASSUME TypeOK, NEW p \in [Workers -> WorkerStates], Nudged(p, pool)
  PROVE  /\ p = [j \in Workers |-> "none"] <=> pool = [j \in Workers |-> "none"]
         /\ (\A j \in Workers : pool[j] \in AtHand) => \A j \in Workers : p[j] \in AtHand
         /\ StatmapIsLive => \A j \in statmap : p[j] \in {"active", "drowsy", "asleep", "fini"}
  <1>1. pool \in [Workers -> WorkerStates] /\ statmap \subseteq Workers
    BY DEF TypeOK
  <1>2. p = [j \in Workers |-> "none"] <=> \A j \in Workers : p[j] = "none"
    OBVIOUS
  <1>3. pool = [j \in Workers |-> "none"] <=> \A j \in Workers : pool[j] = "none"
    BY <1>1
  <1>4. (\A j \in Workers : p[j] = "none") <=> (\A j \in Workers : pool[j] = "none")
    BY DEF Nudged
  <1>5. (\A j \in Workers : pool[j] \in AtHand) => \A j \in Workers : p[j] \in AtHand
    BY DEF Nudged, AtHand
  <1>6. StatmapIsLive => \A j \in statmap : p[j] \in {"active", "drowsy", "asleep", "fini"}
    BY <1>1 DEF Nudged, StatmapIsLive
  <1> QED
    BY <1>2, <1>3, <1>4, <1>5, <1>6

\* Workers take a step of their lives, or are joined.
LEMMA PoolStep ==
  ASSUME Inv, status = "up", \E i \in Workers : pool[i] # "none",
         pool' \in [Workers -> WorkerStates], statmap' \in SUBSET Workers, StatmapIsLive',
         ~Reshaped /\ Has("main", "stop") /\ (\A j \in Workers : pool[j] \in AtHand) =>
           \A j \in Workers : pool'[j] \in AtHand,
         UNCHANGED <<command, status, todo, history, flags, mutexes, client, failer, disk>>
  PROVE  Inv'
  <1>1. TypeOK /\ UpInv /\ ShapeInv
    BY DEF Inv, UpInv
  <1>2. UNCHANGED <<cmd, left, status, todo, calls, opened, initialized, loaded, dbc, pssm, measure,
                    initMx, loadMx, statMx, client, failer, disk>>
    BY DEF command, history, flags, mutexes
  <1>3. ShapeInv' /\ \A d \in Callers : \A y : Has(d, y)' <=> Has(d, y)
    BY <1>1, <1>2, NoStepTaken
  <1>4. TypeOK'
    BY <1>1, <1>2 DEF TypeOK
  <1>5. pool # [j \in Workers |-> "none"]
    OBVIOUS
  <1>6. ~Has("main", "workers") /\ ~(opened = 1 /\ dbc = "STOPPED")
    BY <1>1, <1>5 DEF UpInv, StartInv, StopInv
  <1>7. StartInv'
    BY <1>1, <1>2, <1>3, <1>6 DEF UpInv, StartInv, Callers
  <1>8. StopInv'
    BY <1>1, <1>2, <1>3, <1>6 DEF UpInv, StopInv, Callers
  <1>9. DiskInv'
    BY <1>1, <1>2, <1>3 DEF UpInv, DiskInv, Callers
  <1>10. QuietInv'
    <2>1. ASSUME ~Reshaped, Has("main", "stop")
          PROVE  \A j \in Workers : pool'[j] \in AtHand
      <3>1. \A j \in Workers : pool[j] \in AtHand
        BY <1>1, <1>6, <2>1 DEF UpInv, QuietInv
      <3> QED
        BY <2>1, <3>1
    <2> QED
      BY <1>1, <1>2, <1>3, <1>6, <2>1 DEF UpInv, QuietInv, Reshaped, Called, Callers
  <1> QED
    BY <1>2, <1>3, <1>4, <1>7, <1>8, <1>9, <1>10, GoesOn DEF UpInv

\* One of them takes it.
LEMMA OneStep ==
  ASSUME Inv, status = "up", NEW i \in Workers, pool[i] # "none",
         NEW v \in {"active", "drowsy", "asleep", "fini", "stopped"}, pool' = [pool EXCEPT ![i] = v],
         statmap' \in SUBSET Workers, StatmapIsLive',
         ~Reshaped /\ Has("main", "stop") => v \in AtHand,
         UNCHANGED <<command, status, todo, history, flags, mutexes, client, failer, disk>>
  PROVE  Inv'
  <1>1. pool \in [Workers -> WorkerStates]
    BY DEF Inv, TypeOK
  <1>2. pool' \in [Workers -> WorkerStates]
    BY <1>1 DEF WorkerStates
  <1>3. ~Reshaped /\ Has("main", "stop") /\ (\A j \in Workers : pool[j] \in AtHand) =>
          \A j \in Workers : pool'[j] \in AtHand
    BY <1>1
  <1> QED
    BY <1>2, <1>3, PoolStep

LEMMA WorkerInitInv ==
  ASSUME Inv, NEW i \in Workers, WorkerInit(i)
  PROVE  Inv'
  <1>1. TypeOK /\ StatmapIsLive
    BY DEF Inv
  <1>2. StatmapIsLive' /\ statmap' \in SUBSET Workers
    BY <1>1 DEF WorkerInit, StatmapIsLive, TypeOK
  <1> QED
    BY <1>2, OneStep DEF WorkerInit, AtHand

\* One that finds nothing to do goes to sleep.
LEMMA WorkerRestsInv ==
  ASSUME Inv, NEW i \in Workers, WorkerLooks(i) \/ WorkerSleeps(i)
  PROVE  Inv'
  <1>1. TypeOK /\ StatmapIsLive
    BY DEF Inv
  <1>2. CASE WorkerLooks(i)
    <2>1. StatmapIsLive' /\ statmap' \in SUBSET Workers
      BY <1>1, <1>2 DEF WorkerLooks, StatmapIsLive, TypeOK
    <2> QED
      BY <1>2, <2>1, OneStep DEF WorkerLooks, AtHand
  <1>3. CASE WorkerSleeps(i)
    <2>1. StatmapIsLive' /\ statmap' \in SUBSET Workers
      BY <1>1, <1>3 DEF WorkerSleeps, StatmapIsLive, TypeOK
    <2> QED
      BY <1>3, <2>1, OneStep DEF WorkerSleeps, AtHand
  <1> QED
    BY <1>2, <1>3

LEMMA WorkerStopInv ==
  ASSUME Inv, NEW i \in Workers, WorkerStop(i)
  PROVE  Inv'
  <1>1. TypeOK /\ StatmapIsLive /\ UpInv /\ ShapeInv
    BY DEF Inv, UpInv, WorkerStop
  <1>2. StatmapIsLive' /\ statmap' \in SUBSET Workers
    BY <1>1 DEF WorkerStop, StatmapIsLive, TypeOK, threads
  <1>3. PICK c \in Callers : At(c, "join")
    BY DEF WorkerStop, ToldToStop
  <1>4. Reshaped \/ ~Has("main", "stop")
    <2>1. CASE c = "main"
      BY <1>1, <1>3, <2>1, AtStep DEF MainRank
    <2>2. CASE c = "shell"
      BY <1>1, <1>3, <2>2, AtStep DEF UpInv, QuietInv
    <2> QED
      BY <2>1, <2>2 DEF Callers
  <1>5. CASE pool[i] = "init"
    BY <1>2, <1>4, <1>5, OneStep DEF WorkerStop
  <1>6. CASE pool[i] = "active"
    BY <1>2, <1>4, <1>6, OneStep DEF WorkerStop
  <1> QED
    BY <1>5, <1>6 DEF WorkerStop

LEMMA WorkerFiniInv ==
  ASSUME Inv, NEW i \in Workers, WorkerFini(i)
  PROVE  Inv'
  <1>1. TypeOK /\ StatmapIsLive /\ UpInv /\ ShapeInv /\ status = "up" /\ pool[i] = "fini"
    BY DEF Inv, UpInv, WorkerFini
  <1>2. StatmapIsLive' /\ statmap' \in SUBSET Workers
    BY <1>1 DEF WorkerFini, StatmapIsLive, TypeOK
  <1>3. Reshaped \/ ~Has("main", "stop")
    <2>1. ~Has("main", "workers")
      BY <1>1 DEF UpInv, StartInv
    <2> QED
      BY <1>1, <2>1 DEF UpInv, QuietInv, AtHand
  <1> QED
    BY <1>1, <1>2, <1>3, OneStep DEF WorkerFini

\* Who stops an environment finds it started, since the workers were forked; so either it
\* stops it or it was stopped.
LEMMA StopStepInv ==
  ASSUME Inv, NEW c \in Callers, Stop(c)
  PROVE  Inv'
  <1>1. /\ TypeOK /\ UpInv /\ ShapeInv /\ StartInv /\ StopInv
        /\ At(c, "stop") /\ status = "up" /\ StatmapIsLive
    BY DEF Inv, UpInv, Stop, At
  <1>2. CASE dbc # "STOPPED" /\ initialized
    <2>1. /\ initMx' = c /\ pool' = Told(pool, 0) /\ Goes(c, Rest(c))
          /\ UNCHANGED <<cmd, left, status, calls, opened, initialized, loaded, dbc, pssm, measure,
                         loadMx, statMx, statmap, client, failer, disk>>
      BY <1>2 DEF Stop, command, history, flags
    <2>2. pool' \in [Workers -> WorkerStates] /\ Nudged(pool', pool)
      BY <1>1, <2>1, ToldNudges DEF TypeOK
    <2>3. /\ pool' = [j \in Workers |-> "none"] <=> pool = [j \in Workers |-> "none"]
          /\ (\A j \in Workers : pool[j] \in AtHand) => \A j \in Workers : pool'[j] \in AtHand
          /\ \A j \in statmap : pool'[j] \in {"active", "drowsy", "asleep", "fini"}
      BY <1>1, <2>2, NudgedPool
    <2>4. /\ todo' \in [Callers -> Seq(Steps)] /\ ShapeInv'
          /\ \A y : Has(c, y)' <=> Has(c, y) /\ y # "stop"
          /\ \A d \in Callers \ {c} : \A y : Has(d, y)' <=> Has(d, y)
      BY <1>1, <2>1, StepTaken
    <2>5. TypeOK'
      BY <1>1, <2>1, <2>2, <2>4 DEF TypeOK
    <2>6. StatmapIsLive'
      BY <2>1, <2>3 DEF StatmapIsLive
    <2>7. ~Has("main", "workers")
      BY <1>1, <1>2 DEF StartInv
    <2>8. ~Has("main", "start_sm")
      BY <1>1, <2>7, StillToCome DEF MainRank, Mandatory
    <2>9. StartInv'
      BY <2>4, <2>7, <2>8 DEF StartInv, Callers
    <2>10. StopInv'
      BY <1>1, <2>1, <2>3, <2>4, <2>7 DEF StopInv, Callers
    <2>11. DiskInv'
      BY <1>1, <2>1, <2>4 DEF UpInv, DiskInv, Callers
    <2>12. QuietInv'
      BY <1>1, <2>1, <2>3, <2>4, <2>7 DEF UpInv, QuietInv, Reshaped, Called, Callers
    <2> QED
      BY <1>1, <2>1, <2>4, <2>5, <2>6, <2>9, <2>10, <2>11, <2>12, GoesOn DEF UpInv
  <1>3. CASE ~(dbc # "STOPPED" /\ initialized)
    <2>1. ~Has("main", "workers")
      <3>1. CASE c = "main"
        BY <1>1, <3>1, AtStep DEF MainRank
      <3>2. CASE c = "shell"
        BY <1>1, <3>2, AtStep DEF StartInv
      <3> QED
        BY <3>1, <3>2 DEF Callers
    <2>2. dbc = "STOPPED"
      BY <1>1, <1>3, <2>1 DEF StopInv
    <2>3. Goes(c, Without(c, StopSteps)) /\ UNCHANGED <<command, status, history, flags, mutexes, threads, disk>>
      BY <1>3, <2>2 DEF Stop, mutexes, threads
    <2>4. PICK s : s = todo[c]
      OBVIOUS
    <2>5. s \in Seq(Steps) /\ s # <<>> /\ Head(s) = "stop"
      BY <1>1, <2>4 DEF At, TypeOK
    <2>6. 1 \in 1 .. Len(s) /\ s[1] = "stop"
      BY <2>5
    <2>7. \A n \in 1 .. Len(s) : s[n] = "stop" => n < Len(s) /\ s[n + 1] = "join"
      BY <1>1, <2>4 DEF ShapeInv, MainShape, ShellShape, Callers
    <2>8. 2 \in 1 .. Len(s) /\ s[2] = "join"
      <3>1. 1 < Len(s) /\ s[1 + 1] = "join"
        BY <2>6, <2>7
      <3> QED
        BY <2>5, <3>1
    <2>9. Len(StopSteps) = 2
      BY DEF StopSteps
    <2>10. UNCHANGED cmd
      BY <2>3 DEF command
    <2>11. /\ todo' \in [Callers -> Seq(Steps)] /\ ShapeInv'
           /\ \A y : Has(c, y)' <=> Has(c, y) /\ ~Before(s, 2, y)
           /\ \A d \in Callers \ {c} : \A y : Has(d, y)' <=> Has(d, y)
      BY <1>1, <2>3, <2>4, <2>8, <2>9, <2>10, CallLeft
    <2>12. 1 .. 2 = {1, 2}
      OBVIOUS
    <2>13. \A y : Before(s, 2, y) <=> y \in {"stop", "join"}
      BY <2>6, <2>8, <2>12 DEF Before
    <2>14. PICK X : X = {"stop", "join"}
      OBVIOUS
    <2>15. /\ \A y : Has(c, y)' <=> Has(c, y) /\ y \notin X
           /\ \A y \in {"emptyPath", "start_sm", "mount", "fids", "workers", "joinClients",
                        "joinFailure"} : y \notin X
      BY <2>11, <2>13, <2>14
    <2>16. UNCHANGED <<cmd, calls, opened, initialized, loaded, dbc, pssm, pool, client, failer, disk>>
      BY <2>3 DEF command, history, flags, threads
    <2>17. UpInv'
      BY <1>1, <2>2, <2>11, <2>15, <2>16, PlainLeft
    <2>18. TypeOK' /\ StatmapIsLive' /\ status' = "up"
      BY <1>1, <2>3, <2>11 DEF TypeOK, StatmapIsLive, command, history, flags, mutexes, threads
    <2> QED
      BY <2>17, <2>18, GoesOn
  <1> QED
    BY <1>2, <1>3

\* The join of a worker, and of the last.
LEMMA JoinInv ==
  ASSUME Inv, NEW c \in Callers, Join(c)
  PROVE  Inv'
  <1>1. TypeOK /\ UpInv /\ ShapeInv /\ StatmapIsLive /\ At(c, "join") /\ status = "up"
    BY DEF Inv, UpInv, Join, At
  <1>2. ~Has("main", "workers") /\ ~Has("main", "start_sm")
    <2>1. CASE c = "main"
      BY <1>1, <2>1, AtStep DEF MainRank
    <2>2. CASE c = "shell"
      <3>1. ~Has("main", "workers")
        BY <1>1, <2>2, AtStep DEF UpInv, StartInv
      <3> QED
        BY <1>1, <3>1, StillToCome DEF MainRank, Mandatory
    <2> QED
      BY <2>1, <2>2 DEF Callers
  <1>3. Reshaped \/ (c = "main" /\ ~Has("main", "stop"))
    <2>1. CASE c = "main"
      BY <1>1, <2>1, AtStep DEF MainRank
    <2>2. CASE c = "shell"
      BY <1>1, <2>2, AtStep DEF UpInv, QuietInv
    <2> QED
      BY <2>1, <2>2 DEF Callers
  <1>4. ASSUME NEW i \in Workers, pool[i] = "stopped",
               pool' = Told([pool EXCEPT ![i] = "deleted"], i + 1), UNCHANGED <<dbc, initMx, todo>>
        PROVE  Inv'
    <2>1. UNCHANGED <<command, status, todo, history, flags, mutexes, statmap, client, failer, disk>>
      BY <1>4 DEF Join, flags, mutexes
    <2>2. PICK q : q = [pool EXCEPT ![i] = "deleted"]
      OBVIOUS
    <2>3. pool \in [Workers -> WorkerStates] /\ statmap \in SUBSET Workers
      BY <1>1 DEF TypeOK
    <2>4. q \in [Workers -> WorkerStates]
      BY <2>2, <2>3 DEF WorkerStates
    <2>5. pool' \in [Workers -> WorkerStates] /\ Nudged(pool', q)
      BY <1>4, <2>2, <2>4, ToldNudges
    <2>6. i \notin statmap
      BY <1>1, <1>4 DEF StatmapIsLive
    <2>7. \A j \in Workers \ {i} : q[j] = pool[j]
      BY <2>2, <2>3
    <2>8. StatmapIsLive'
      BY <1>1, <2>1, <2>3, <2>5, <2>6, <2>7 DEF StatmapIsLive, Nudged
    <2> QED
      BY <1>1, <1>3, <1>4, <2>1, <2>3, <2>5, <2>8, PoolStep
  <1>5. ASSUME \A i \in Workers : pool[i] \in {"none", "deleted"},
               pool' = [i \in Workers |-> "none"], dbc' = "STOPPED", initMx' = Free,
               Goes(c, Rest(c))
        PROVE  Inv'
    <2>1. UNCHANGED <<cmd, left, status, calls, opened, initialized, loaded, pssm, measure,
                      loadMx, statMx, statmap, client, failer, disk>>
      BY DEF Join, command, history
    <2>2. /\ todo' \in [Callers -> Seq(Steps)] /\ ShapeInv'
          /\ \A y : Has(c, y)' <=> Has(c, y) /\ y # "join"
          /\ \A d \in Callers \ {c} : \A y : Has(d, y)' <=> Has(d, y)
      BY <1>1, <1>5, <2>1, StepTaken
    <2>3. TypeOK'
      BY <1>1, <1>5, <2>1, <2>2 DEF TypeOK, WorkerStates
    <2>4. StatmapIsLive'
      <3>1. \A i \in statmap : i \in Workers /\ pool[i] \in {"active", "drowsy", "asleep", "fini"}
        BY <1>1 DEF TypeOK, StatmapIsLive
      <3>2. statmap = {}
        BY <1>5, <3>1
      <3> QED
        BY <2>1, <3>2 DEF StatmapIsLive
    <2>5. ~Has("main", "workers")' /\ ~Has("main", "start_sm")'
      BY <1>2, <2>2 DEF Callers
    <2>6. StartInv'
      BY <2>5 DEF StartInv
    <2>7. StopInv'
      BY <1>1, <1>2, <1>5, <2>1, <2>2 DEF UpInv, StopInv, Callers
    <2>8. DiskInv'
      BY <1>1, <2>1, <2>2 DEF UpInv, DiskInv, Callers
    <2>9. QuietInv'
      <3>1. CASE Reshaped
        BY <1>1, <2>1, <2>2, <3>1 DEF UpInv, QuietInv, Reshaped, Called, Callers
      <3>2. CASE ~Reshaped
        <4>1. c = "main" /\ ~Has("main", "stop")'
          BY <1>3, <2>2, <3>2
        <4> QED
          BY <1>1, <2>1, <2>2, <3>2, <4>1 DEF UpInv, QuietInv, Reshaped, Called, Callers
      <3> QED
        BY <3>1, <3>2
    <2> QED
      BY <1>1, <2>1, <2>2, <2>3, <2>4, <2>6, <2>7, <2>8, <2>9, GoesOn DEF UpInv
  <1> QED
    BY <1>4, <1>5 DEF Join

\* Who closes has stopped; the storage manager is deleted twice only if the shell closes too.
LEMMA CloseSmInv ==
  ASSUME Inv, NEW c \in Callers, CloseSm(c)
  PROVE  Inv'
  <1>1. TypeOK /\ UpInv /\ ShapeInv /\ StatmapIsLive /\ At(c, "close_sm") /\ status = "up"
    BY DEF Inv, UpInv, CloseSm, At
  <1>2. dbc = "STOPPED"
    <2>1. CASE c = "main"
      BY <1>1, <2>1, AtStep DEF MainRank, UpInv, StopInv, Callers
    <2>2. CASE c = "shell"
      BY <1>1, <2>2, AtStep DEF ShellRank, UpInv, StopInv, Callers
    <2> QED
      BY <2>1, <2>2 DEF Callers
  <1>3. Reshaped \/ (c = "main" /\ Has("main", "close_sm") /\ ~Has("main", "stop"))
    <2>1. CASE c = "main"
      BY <1>1, <2>1, AtStep DEF MainRank
    <2>2. CASE c = "shell"
      BY <1>1, <2>2, AtStep DEF UpInv, QuietInv
    <2> QED
      BY <2>1, <2>2 DEF Callers
  <1>4. ~Has("main", "workers") /\ ~Has("main", "start_sm")
    <2>1. ~Has("main", "workers")
      BY <1>1, <1>2 DEF UpInv, StartInv
    <2> QED
      BY <1>1, <2>1, StillToCome DEF MainRank, Mandatory
  <1>5. CASE pssm = "deleted"
    <2>1. Reshaped
      BY <1>1, <1>3, <1>5 DEF UpInv, QuietInv
    <2> QED
      BY <1>5, <2>1, Ended DEF CloseSm
  <1>6. CASE pssm # "deleted"
    <2>1. /\ Goes(c, Rest(c)) /\ initialized' = FALSE
          /\ pssm' \in {"null", "open", "deleted"}
          /\ UNCHANGED <<cmd, left, status, calls, opened, loaded, dbc, measure,
                         initMx, loadMx, statMx, pool, statmap, client, failer, disk>>
      BY <1>1, <1>6 DEF CloseSm, TypeOK, command, history, mutexes, threads
    <2>2. /\ todo' \in [Callers -> Seq(Steps)] /\ ShapeInv'
          /\ \A y : Has(c, y)' <=> Has(c, y) /\ y # "close_sm"
          /\ \A d \in Callers \ {c} : \A y : Has(d, y)' <=> Has(d, y)
      BY <1>1, <2>1, StepTaken
    <2>3. TypeOK' /\ StatmapIsLive'
      <3>1. TypeOK'
        <4>1. TypeOK
          BY <1>1
        <4>2. todo' \in [Callers -> Seq(Steps)] /\ initialized' \in BOOLEAN
          BY <2>1, <2>2
        <4>3. /\ pssm' \in {"null", "open", "deleted"}
              /\ UNCHANGED <<cmd, left, status, calls, opened, loaded, dbc, measure,
                             initMx, loadMx, statMx, pool, statmap, client, failer, disk>>
          BY <2>1
        <4> QED
          BY <4>1, <4>2, <4>3 DEF TypeOK
      <3>2. StatmapIsLive'
        BY <1>1, <2>1, <2>2 DEF StatmapIsLive
      <3> QED
        BY <3>1, <3>2
    <2>4. StartInv'
      BY <1>4, <2>2 DEF StartInv, Callers
    <2>5. StopInv'
      BY <1>1, <1>2, <1>4, <2>1, <2>2 DEF UpInv, StopInv, Callers
    <2>6. DiskInv'
      BY <1>1, <2>1, <2>2 DEF UpInv, DiskInv, Callers
    <2>7. QuietInv'
      <3>1. CASE Reshaped
        BY <1>1, <2>1, <2>2, <3>1 DEF UpInv, QuietInv, Reshaped, Called, Callers
      <3>2. CASE ~Reshaped
        <4>1. c = "main" /\ ~Has("main", "stop")' /\ ~Has("main", "close_sm")'
          BY <1>3, <2>2, <3>2
        <4> QED
          BY <1>1, <2>1, <2>2, <3>2, <4>1 DEF UpInv, QuietInv, Reshaped, Called, Callers
      <3> QED
        BY <3>1, <3>2
    <2> QED
      BY <1>1, <2>1, <2>2, <2>3, <2>4, <2>5, <2>6, <2>7, GoesOn DEF UpInv
  <1> QED
    BY <1>5, <1>6

-----------------------------------------------------------------------------
(* Those who use the environment *)

\* While there are clients at work, or a thread that will fail the volume, the environment
\* is started, and nobody but the shell can have stopped it.
LEMMA InUse ==
  ASSUME Inv, status = "up",
         (\E k \in Clients : client[k] \in Present) \/ failer = "sleep"
  PROVE  /\ ~Has("main", "workers")
         /\ ~Reshaped =>
              /\ pssm = "open" /\ \A i \in Workers : pool[i] \in AtHand
              /\ (\E k \in Clients : client[k] \in Present) => Has("main", "joinClients")
              /\ failer = "sleep" => Has("main", "joinFailure")
  <1>1. TypeOK /\ UpInv /\ ShapeInv
    BY DEF Inv, UpInv
  <1>2. ~Has("main", "workers")
    BY <1>1 DEF UpInv, StartInv, Present
  <1>3. ASSUME ~Reshaped
        PROVE  /\ pssm = "open" /\ \A i \in Workers : pool[i] \in AtHand
               /\ (\E k \in Clients : client[k] \in Present) => Has("main", "joinClients")
               /\ failer = "sleep" => Has("main", "joinFailure")
    <2>1. /\ (\E k \in Clients : client[k] \in Present) => Has("main", "joinClients")
          /\ failer = "sleep" => Has("main", "joinFailure")
      BY <1>1, <1>3 DEF UpInv, QuietInv
    <2>2. Has("main", "stop")
      BY <1>1, <2>1, StillToCome DEF MainRank, Mandatory
    <2> QED
      BY <1>1, <1>2, <1>3, <2>1, <2>2 DEF UpInv, QuietInv
  <1> QED
    BY <1>2, <1>3

\* A step of a client, of who serves it or of the failure thread.
LEMMA UseStep ==
  ASSUME Inv, status = "up",
         (\E k \in Clients : client[k] \in Present) \/ failer = "sleep",
         client' \in [Clients -> ClientStates],
         failer' \in {"none", "sleep", "done"},
         \/ \E k \in Clients : client[k] \in Present
         \/ UNCHANGED client,
         failer' = "sleep" => failer = "sleep",
         pool' \in [Workers -> WorkerStates], Nudged(pool', pool),
         UNCHANGED <<command, status, todo, history, flags, mutexes, statmap, disk>>
  PROVE  Inv'
  <1>1. TypeOK /\ UpInv /\ ShapeInv /\ StatmapIsLive
    BY DEF Inv, UpInv
  <1>2. UNCHANGED <<cmd, left, status, todo, calls, opened, initialized, loaded, dbc, pssm, measure,
                    initMx, loadMx, statMx, statmap, disk>>
    BY DEF command, history, flags, mutexes
  <1>3. ShapeInv' /\ \A d \in Callers : \A y : Has(d, y)' <=> Has(d, y)
    BY <1>1, <1>2, NoStepTaken
  <1>10. /\ pool' = [j \in Workers |-> "none"] <=> pool = [j \in Workers |-> "none"]
         /\ (\A j \in Workers : pool[j] \in AtHand) => \A j \in Workers : pool'[j] \in AtHand
         /\ \A j \in statmap : pool'[j] \in {"active", "drowsy", "asleep", "fini"}
    BY <1>1, NudgedPool
  <1>4. TypeOK' /\ StatmapIsLive'
    <2>1. TypeOK'
      BY <1>1, <1>2 DEF TypeOK, ClientStates
    <2>2. StatmapIsLive'
      BY <1>1, <1>2, <1>10 DEF StatmapIsLive
    <2> QED
      BY <2>1, <2>2
  <1>5. ~Has("main", "workers")
    BY InUse
  <1>6. StartInv'
    BY <1>1, <1>2, <1>3, <1>5 DEF UpInv, StartInv, Callers
  <1>7. StopInv'
    BY <1>1, <1>2, <1>3, <1>10 DEF UpInv, StopInv, Callers
  <1>8. DiskInv'
    BY <1>1, <1>2, <1>3 DEF UpInv, DiskInv, Callers
  <1>9. QuietInv'
    BY <1>1, <1>2, <1>3, <1>10 DEF UpInv, QuietInv, Reshaped, Called, Callers
  <1> QED
    BY <1>2, <1>3, <1>4, <1>6, <1>7, <1>8, <1>9, GoesOn DEF UpInv

\* The same, when no worker is told anything.
LEMMA QuietUse ==
  ASSUME Inv, status = "up",
         (\E k \in Clients : client[k] \in Present) \/ failer = "sleep",
         client' \in [Clients -> ClientStates],
         failer' \in {"none", "sleep", "done"},
         \/ \E k \in Clients : client[k] \in Present
         \/ UNCHANGED client,
         failer' = "sleep" => failer = "sleep",
         UNCHANGED <<command, status, todo, history, flags, mutexes, pool, statmap, disk>>
  PROVE  Inv'
  <1>1. pool' \in [Workers -> WorkerStates] /\ Nudged(pool', pool)
    BY DEF Inv, TypeOK, Nudged
  <1> QED
    BY <1>1, UseStep

LEMMA FailVolumeInv ==
  ASSUME Inv, FailVolume
  PROVE  Inv'
  <1>1. status = "up" /\ failer = "sleep" /\ TypeOK
    BY DEF FailVolume, Inv
  <1>2. CASE pssm # "open"
    <2>1. Reshaped
      BY <1>1, <1>2, InUse
    <2> QED
      BY <1>2, <2>1, Ended DEF FailVolume
  <1>3. CASE pssm = "open"
    BY <1>1, <1>3, QuietUse DEF FailVolume, TypeOK, ClientStates
  <1> QED
    BY <1>2, <1>3

LEMMA ServeInv ==
  ASSUME Inv, NEW i \in Workers, Serve(i)
  PROVE  Inv'
  <1>1. status = "up" /\ TypeOK
    BY DEF Serve, Inv
  <1>2. PICK k \in Clients : /\ client[k] = "wait"
                             /\ IF pssm # "open"
                                THEN EndsIn("wild")
                                ELSE /\ client' = [client EXCEPT ![k] = "served"]
                                     /\ UNCHANGED <<command, status, todo, history, flags, mutexes,
                                                    pool, statmap, failer, disk>>
    BY DEF Serve, Waiting
  <1>3. client[k] \in Present
    BY <1>2 DEF Present
  <1>4. CASE pssm # "open"
    <2>1. Reshaped
      BY <1>1, <1>3, <1>4, InUse
    <2> QED
      BY <1>2, <1>4, <2>1, Ended
  <1>5. CASE pssm = "open"
    <2>1. client' \in [Clients -> ClientStates]
      BY <1>1, <1>2, <1>5 DEF TypeOK, ClientStates
    <2> QED
      BY <1>1, <1>2, <1>3, <1>5, <2>1, QuietUse DEF TypeOK
  <1> QED
    BY <1>4, <1>5

LEMMA SubmitInv ==
  ASSUME Inv, NEW k \in Clients, Submit(k)
  PROVE  Inv'
  <1>1. status = "up" /\ TypeOK /\ client[k] \in Present
    BY DEF Submit, Inv, Present
  <1>2. CASE pool[WorkerOf(k)] \in {"none", "deleted"}
    <2>1. ~(pool[WorkerOf(k)] \in AtHand)
      BY <1>2 DEF AtHand
    <2>2. Reshaped
      BY <1>1, <2>1, InUse, WorkerOfType
    <2> QED
      BY <1>2, <2>2, Ended DEF Submit
  <1>3. CASE pool[WorkerOf(k)] \notin {"none", "deleted"}
    <2>1. client' \in [Clients -> ClientStates]
      BY <1>1, <1>3 DEF TypeOK, Submit, ClientStates
    <2>2. pool' \in [Workers -> WorkerStates] /\ Nudged(pool', pool)
      BY <1>1, <1>3, ToldNudges DEF TypeOK, Submit
    <2> QED
      BY <1>1, <1>3, <2>1, <2>2, UseStep DEF TypeOK, Submit
  <1> QED
    BY <1>2, <1>3

LEMMA WaitForNothingInv ==
  ASSUME Inv, NEW k \in Clients, WaitForNothing(k)
  PROVE  Inv'
  <1>1. status = "up" /\ TypeOK /\ client[k] = "new" /\ NoShare
    BY DEF WaitForNothing, Inv
  <1>2. CASE EndsIn("abort")
    BY <1>1, <1>2, Ended
  <1>3. CASE ~EndsIn("abort")
    <2>1. client' \in [Clients -> ClientStates]
      BY <1>1, <1>3 DEF TypeOK, WaitForNothing, ClientStates
    <2>2. client[k] \in Present
      BY <1>1 DEF Present
    <2> QED
      BY <1>1, <1>3, <2>1, <2>2, QuietUse DEF TypeOK, WaitForNothing
  <1> QED
    BY <1>2, <1>3

LEMMA ClientDoneInv ==
  ASSUME Inv, NEW k \in Clients, ClientDone(k)
  PROVE  Inv'
  <1>1. status = "up" /\ TypeOK /\ client[k] \in Present
    BY DEF ClientDone, Inv, Present
  <1>2. client' \in [Clients -> ClientStates]
    BY <1>1 DEF TypeOK, ClientDone, ClientStates
  <1> QED
    BY <1>1, <1>2, QuietUse DEF TypeOK, ClientDone

\* The main thread at a step between the fork of the workers and their join.
LEMMA AtWork ==
  ASSUME Inv, NEW c \in Callers,
         NEW x \in {"create_tables", "load_data", "archiveLog", "take_backup", "forkFailure",
                    "joinFailure", "forkClients", "joinClients"}, At(c, x)
  PROVE  /\ TypeOK /\ UpInv /\ ShapeInv /\ StatmapIsLive /\ status = "up" /\ c = "main"
         /\ ~Has("main", "workers")
         /\ ~Reshaped => pssm = "open" /\ \A i \in Workers : pool[i] \in AtHand
  <1>1. TypeOK /\ UpInv /\ ShapeInv /\ StatmapIsLive /\ status = "up"
    BY DEF Inv, UpInv, At
  <1>2. c = "main"
    BY <1>1, OnlyMain DEF ShellRank
  <1>3. ~Has("main", "workers") /\ Has("main", "stop")
    BY <1>1, <1>2, AtStep DEF MainRank, Mandatory
  <1> QED
    BY <1>1, <1>2, <1>3 DEF UpInv, QuietInv

\* A load that fails leaves what it has made so far.
LEMMA LoadFailsInv ==
  ASSUME Inv, NEW c \in Callers, LoadFails(c)
  PROVE  Inv'
  <1>1. PICK x \in {"create_tables", "load_data"} : At(c, x)
    BY DEF LoadFails
  <1>2. /\ TypeOK /\ UpInv /\ ShapeInv /\ c = "main"
        /\ ~Reshaped => pssm = "open"
    BY <1>1, AtWork
  <1>3. Has("main", "load_data") /\ ~Has("main", "mount")
    BY <1>1, <1>2, AtStep, StillToCome DEF MainRank
  <1>4. cmd.load /\ disk \in {"empty", "tables"}
    BY <1>2, <1>3 DEF ShapeInv, UpInv, DiskInv
  <1>5. CASE pssm = "open"
    BY <1>4, <1>5, Ended DEF LoadFails
  <1>6. CASE pssm # "open"
    BY <1>2, <1>6, Ended DEF LoadFails
  <1> QED
    BY <1>5, <1>6

\* It forks or joins clients or the failure thread.
LEMMA ForkOrJoin ==
  ASSUME Inv, NEW c \in Callers,
         NEW x \in {"forkFailure", "joinFailure", "forkClients", "joinClients"}, At(c, x),
         Goes(c, Rest(c)),
         client' \in [Clients -> ClientStates],
         failer' \in {"none", "sleep", "done"},
         client' = client \/ x = "forkClients",
         x = "joinClients" => \A k \in Clients : client[k] = "done",
         failer' = failer \/ x = "forkFailure",
         x = "joinFailure" => failer = "done",
         UNCHANGED <<command, status, history, flags, mutexes, pool, statmap, disk>>
  PROVE  Inv'
  <1>1. /\ TypeOK /\ UpInv /\ ShapeInv /\ StatmapIsLive /\ status = "up" /\ c = "main"
        /\ ~Has("main", "workers")
    BY AtWork
  <1>2. UNCHANGED <<cmd, left, status, calls, opened, initialized, loaded, dbc, pssm, measure,
                    initMx, loadMx, statMx, pool, statmap, disk>>
    BY DEF command, history, flags, mutexes
  <1>3. /\ todo' \in [Callers -> Seq(Steps)] /\ ShapeInv'
        /\ \A y : Has("main", y)' <=> Has("main", y) /\ y # x
        /\ \A y : Has("shell", y)' <=> Has("shell", y)
    BY <1>1, <1>2, StepTaken DEF Callers
  <1>4. TypeOK' /\ StatmapIsLive'
    <2>1. TypeOK'
      BY <1>1, <1>2, <1>3 DEF TypeOK, ClientStates
    <2>2. StatmapIsLive'
      BY <1>1, <1>2, <1>3 DEF StatmapIsLive
    <2> QED
      BY <2>1, <2>2
  <1>5. StartInv'
    BY <1>1, <1>2, <1>3 DEF UpInv, StartInv
  <1>6. StopInv'
    BY <1>1, <1>2, <1>3 DEF UpInv, StopInv, Callers
  <1>7. DiskInv'
    BY <1>1, <1>2, <1>3 DEF UpInv, DiskInv
  <1>8. QuietInv'
    <2>1. /\ x = "forkClients" => Has("main", "joinClients")
          /\ x = "forkFailure" => Has("main", "joinFailure")
      BY <1>1, AtStep, StillToCome
    <2>2. ~Reshaped /\ (\E k \in Clients : client'[k] \in Present) => Has("main", "joinClients")'
      <3>1. CASE x = "joinClients"
        BY <3>1 DEF Present
      <3>2. CASE x = "forkClients"
        BY <1>3, <2>1, <3>2
      <3>3. CASE x \notin {"forkClients", "joinClients"}
        BY <1>1, <1>3, <3>3 DEF UpInv, QuietInv
      <3> QED
        BY <3>1, <3>2, <3>3
    <2>3. ~Reshaped /\ failer' = "sleep" => Has("main", "joinFailure")'
      <3>1. CASE x = "joinFailure"
        BY <3>1
      <3>2. CASE x = "forkFailure"
        BY <1>3, <2>1, <3>2
      <3>3. CASE x \notin {"forkFailure", "joinFailure"}
        BY <1>1, <1>3, <3>3 DEF UpInv, QuietInv
      <3> QED
        BY <3>1, <3>2, <3>3
    <2> QED
      BY <1>1, <1>2, <1>3, <2>2, <2>3 DEF UpInv, QuietInv, Reshaped, Called
  <1> QED
    BY <1>1, <1>2, <1>3, <1>4, <1>5, <1>6, <1>7, <1>8, GoesOn DEF UpInv

LEMMA PrepareRestoreInv ==
  ASSUME Inv, NEW c \in Callers, PrepareRestore(c)
  PROVE  Inv'
  <1>1. TypeOK
    BY DEF Inv
  <1>2. CASE At(c, "forkFailure")
    BY <1>1, <1>2, ForkOrJoin DEF PrepareRestore, TypeOK, ClientStates
  <1>3. ASSUME NEW x \in {"archiveLog", "take_backup"}, At(c, x)
        PROVE  Inv'
    <2>1. ~At(c, "forkFailure")
      BY <1>3 DEF At
    <2>2. CASE pssm # "open"
      BY <1>3, <2>1, <2>2, AtWork, Ended DEF PrepareRestore
    <2>3. CASE pssm = "open"
      BY <1>1, <1>3, <2>1, <2>3, PlainOn DEF PrepareRestore, TypeOK, command, history, flags, mutexes
    <2> QED
      BY <2>2, <2>3
  <1> QED
    BY <1>2, <1>3 DEF PrepareRestore

LEMMA ForkClientsInv ==
  ASSUME Inv, NEW c \in Callers, ForkClients(c)
  PROVE  Inv'
  <1>1. TypeOK /\ At(c, "forkClients")
    BY DEF Inv, ForkClients
  <1>2. CASE \E k \in Clients : pool[WorkerOf(k)] \in {"none", "deleted"}
    <2>1. Reshaped
      BY <1>1, <1>2, AtWork, WorkerOfType DEF AtHand
    <2> QED
      BY <1>2, <2>1, Ended DEF ForkClients
  <1>3. CASE ~\E k \in Clients : pool[WorkerOf(k)] \in {"none", "deleted"}
    <2>1. client' = [k \in Clients |-> "new"]
      BY <1>3 DEF ForkClients
    <2>2. client' \in [Clients -> ClientStates]
      BY <2>1 DEF ClientStates
    <2>3. failer' \in {"none", "sleep", "done"} /\ failer' = failer
      BY <1>1, <1>3 DEF ForkClients, TypeOK
    <2> QED
      BY <1>1, <1>3, <2>2, <2>3, ForkOrJoin DEF ForkClients
  <1> QED
    BY <1>2, <1>3

LEMMA JoinThreadsInv ==
  ASSUME Inv, NEW c \in Callers, JoinFailure(c) \/ JoinClients(c)
  PROVE  Inv'
  <1>1. TypeOK
    BY DEF Inv
  <1>2. CASE JoinFailure(c)
    BY <1>1, <1>2, ForkOrJoin DEF JoinFailure, TypeOK, ClientStates, threads
  <1>3. CASE JoinClients(c)
    BY <1>1, <1>3, ForkOrJoin DEF JoinClients, TypeOK, ClientStates, threads
  <1> QED
    BY <1>2, <1>3

-----------------------------------------------------------------------------
(* Commands and calls *)

LEMMA ExitInv ==
  ASSUME Inv, NEW c \in Callers, Exit(c)
  PROVE  Inv'
  BY Ended DEF Exit

LEMMA KillInv ==
  ASSUME Inv, Kill
  PROVE  Inv'
  BY Ended DEF Kill

\* A command begins with all its steps to make, and in a new environment.
LEMMA TypeCommandInv ==
  ASSUME Inv, TypeCommand
  PROVE  Inv'
  <1>1. TypeOK /\ cmd' \in Commands /\ status' = "up" /\ left > 0 /\ left' = left - 1
    BY DEF Inv, TypeCommand
  <1>2. /\ calls' = {} /\ opened' = 0 /\ initialized' = FALSE /\ loaded' = FALSE
        /\ dbc' = "UNDEF" /\ pssm' = "null" /\ measure' = "UNDEF"
        /\ initMx' = Free /\ loadMx' = Free /\ statMx' = Free
        /\ pool' = [i \in Workers |-> "none"] /\ statmap' = {}
        /\ client' = [k \in Clients |-> "none"] /\ failer' = "none" /\ disk' = disk
    BY DEF TypeCommand
  <1>3. PICK p : p = Program(cmd')
    OBVIOUS
  <1>4. /\ p \in Seq(Steps) /\ MainShape(p) /\ \A x \in Mandatory : HasIn(p, x)
        /\ HasIn(p, "load_data") => cmd'.load
    BY <1>1, <1>3, ProgramShape
  <1>5. todo' = [main |-> p, shell |-> <<>>]
    BY <1>3 DEF TypeCommand
  <1>6. /\ todo' \in [Callers -> Seq(Steps)]
        /\ todo'["main"] = p /\ todo'["shell"] = <<>>
    <2>1. PICK e : e = <<>>
      OBVIOUS
    <2>2. e \in Seq(Steps)
      BY <2>1
    <2>3. PICK t : t = [main |-> p, shell |-> e]
      OBVIOUS
    <2>4. t = [c \in {"main", "shell"} |-> t[c]] /\ t["main"] = p /\ t["shell"] = e
      BY <2>3
    <2>5. t \in [Callers -> Seq(Steps)]
      BY <1>4, <2>2, <2>4 DEF Callers
    <2> QED
      BY <1>5, <2>1, <2>3, <2>4, <2>5
  <1>7. \A y : ~Has("shell", y)'
    BY <1>6 DEF Has, HasIn
  <1>8. \A x \in Mandatory : Has("main", x)'
    BY <1>4, <1>6 DEF Has
  <1>9. Has("main", "join")'
    <2>1. PICK n \in 1 .. Len(p) : p[n] = "stop"
      BY <1>4 DEF HasIn, Mandatory
    <2>2. n < Len(p) /\ p[n + 1] = "join"
      BY <1>4, <2>1 DEF MainShape
    <2>3. n + 1 \in 1 .. Len(p)
      BY <2>2
    <2> QED
      BY <1>6, <2>2, <2>3 DEF Has, HasIn
  <1>10. TypeOK'
    <2>1. left' \in 0 .. MaxCommands
      BY <1>1, EnvLifeAssumption DEF TypeOK
    <2>2. pool' \in [Workers -> WorkerStates]
      BY <1>2 DEF WorkerStates
    <2> QED
      BY <1>1, <1>2, <1>6, <2>1, <2>2 DEF TypeOK
  <1>11. ShapeInv'
    <2>1. ShellShape(todo'["shell"])
      BY <1>6 DEF ShellShape, Increasing
    <2> QED
      BY <1>4, <1>6, <2>1 DEF ShapeInv, Has
  <1>12. StartInv'
    BY <1>2, <1>7, <1>8 DEF StartInv, Mandatory
  <1>13. StopInv'
    BY <1>7, <1>8, <1>9 DEF StopInv, Mandatory, Callers
  <1>14. DiskInv'
    BY <1>2, <1>8 DEF DiskInv, Mandatory
  <1>15. QuietInv'
    BY <1>2, <1>7, <1>8 DEF QuietInv, Mandatory, Present
  <1>16. StatmapIsLive'
    BY <1>2 DEF StatmapIsLive
  <1> QED
    BY <1>1, <1>10, <1>11, <1>12, <1>13, <1>14, <1>15, <1>16, GoesOn DEF UpInv

\* The shell calls once the environment is started.
LEMMA ShellCallInv ==
  ASSUME Inv, NEW call \in DOMAIN CallSteps, ShellCall(call)
  PROVE  Inv'
  <1>1. TypeOK /\ UpInv /\ ShapeInv /\ StatmapIsLive /\ status = "up"
    BY DEF Inv, UpInv, ShellCall
  <1>2. /\ UNCHANGED <<cmd, left, status, opened, initialized, loaded, dbc, pssm, measure,
                       initMx, loadMx, statMx, pool, statmap, client, failer, disk>>
        /\ calls' = calls \cup {call}
    BY DEF ShellCall, command, flags, mutexes, threads
  <1>3. ~Has("main", "workers")
    BY DEF ShellCall, Has, HasIn
  <1>4. PICK p : p = CallSteps[call]
    OBVIOUS
  <1>5. /\ p \in Seq(Steps) /\ ShellShape(p)
        /\ \A x \in {"mount", "fids", "workers"} : HasIn(p, x) => HasIn(p, "start_sm")
        /\ HasIn(p, "close_sm") => HasIn(p, "join")
        /\ HasIn(p, "checkpoint") => call = "checkpoint"
        /\ call \notin {"stop", "close", "restart"} =>
             \A x : HasIn(p, x) => x \in {"statistics", "statistics2", "checkpoint"}
    BY <1>4, CallShape
  <1>6. todo' = [todo EXCEPT !["shell"] = p]
    BY <1>4 DEF ShellCall, Goes
  <1>7. /\ todo' \in [Callers -> Seq(Steps)]
        /\ todo'["main"] = todo["main"] /\ todo'["shell"] = p
    BY <1>1, <1>5, <1>6 DEF TypeOK, Callers
  <1>8. /\ \A y : Has("main", y)' <=> Has("main", y)
        /\ \A y : Has("shell", y)' <=> HasIn(p, y)
    BY <1>7 DEF Has
  <1>9. ShapeInv'
    BY <1>1, <1>2, <1>5, <1>7, <1>8 DEF ShapeInv, Has
  <1>10. calls' \subseteq DOMAIN CallSteps /\ calls \subseteq calls' /\ call \in calls'
    BY <1>1, <1>2 DEF TypeOK
  <1>11. TypeOK'
    BY <1>1, <1>2, <1>7, <1>10 DEF TypeOK
  <1>12. ASSUME NEW some
         PROVE  /\ Called(some) => Called(some)'
                /\ call \in some => Called(some)'
    BY <1>10 DEF Called
  <1>13. /\ ~Reshaped' => ~Reshaped /\ call \notin {"stop", "close", "restart"}
         /\ Called({"checkpoint"}) => Called({"checkpoint"})'
         /\ call = "checkpoint" => Called({"checkpoint"})'
    BY <1>12 DEF Reshaped
  <1>14. StartInv'
    <2>1. ~Has("main", "start_sm")
      BY <1>1, <1>3, StillToCome DEF MainRank, Mandatory
    <2> QED
      BY <1>3, <1>8, <2>1 DEF StartInv
  <1>15. StopInv'
    BY <1>1, <1>2, <1>5, <1>8 DEF UpInv, StopInv, Callers
  <1>16. DiskInv'
    BY <1>1, <1>2, <1>8 DEF UpInv, DiskInv
  <1>17. QuietInv'
    <2>1. CASE Reshaped'
      BY <1>5, <1>8, <1>13, <2>1 DEF QuietInv
    <2>2. CASE ~Reshaped'
      BY <1>1, <1>2, <1>5, <1>8, <1>13, <2>2 DEF UpInv, QuietInv
    <2> QED
      BY <2>1, <2>2
  <1>18. StatmapIsLive'
    BY <1>1, <1>2 DEF StatmapIsLive
  <1> QED
    BY <1>1, <1>2, <1>9, <1>11, <1>14, <1>15, <1>16, <1>17, <1>18, GoesOn DEF UpInv

-----------------------------------------------------------------------------
(* The theorems *)

LEMMA InvInit == Init => Inv
  <1> SUFFICES ASSUME Init
               PROVE  Inv
    OBVIOUS
  <1>1. TypeOK
    <2>1. todo \in [Callers -> Seq(Steps)]
      BY DEF Init
    <2>2. left \in 0 .. MaxCommands /\ pool \in [Workers -> WorkerStates]
      BY EnvLifeAssumption DEF Init, WorkerStates
    <2>3. cmd \in Commands
      BY DEF Init, Commands
    <2> QED
      BY <2>1, <2>2, <2>3 DEF Init, TypeOK
  <1>2. StatmapIsLive /\ WorkersHaveAStore /\ CommandsAreSafe /\ status # "up"
    BY DEF Init, StatmapIsLive, WorkersHaveAStore, CommandsAreSafe
  <1> QED
    BY <1>1, <1>2 DEF Inv

LEMMA CallInv ==
  ASSUME Inv, NEW c \in Callers, Call(c)
  PROVE  Inv'
  <1>1. CASE InitEnv(c) \/ EnsureEmptyPath(c) \/ StartSm(c) \/ Mount(c) \/ RegisterFids(c)
    BY <1>1, InitEnvInv, EnsureEmptyPathInv, StartSmInv, MountInv, RegisterFidsInv
  <1>2. CASE ForkWorkers(c) \/ Load(c) \/ LoadFails(c) \/ CreateTables(c) \/ LoadData(c)
    BY <1>2, ForkWorkersInv, LoadInv, LoadFailsInv, CreateTablesInv, LoadDataInv
  <1>3. CASE Stop(c) \/ Join(c) \/ CloseSm(c)
    BY <1>3, StopStepInv, JoinInv, CloseSmInv
  <1>4. CASE Statistics(c) \/ EnvStatistics(c) \/ Checkpoint(c)
    BY <1>4, StatisticsInv, CheckpointInv
  <1>5. CASE PrepareRestore(c) \/ JoinFailure(c) \/ ReadStats(c) \/ ForkClients(c)
    BY <1>5, PrepareRestoreInv, JoinThreadsInv, ReadStatsInv, ForkClientsInv
  <1>6. CASE Measure(c) \/ JoinClients(c) \/ Exit(c)
    BY <1>6, MeasureInv, JoinThreadsInv, ExitInv
  <1> QED
    BY <1>1, <1>2, <1>3, <1>4, <1>5, <1>6 DEF Call

LEMMA StutterInv ==
  ASSUME Inv, UNCHANGED vars
  PROVE  Inv'
  <1>1. UNCHANGED <<cmd, left, status, todo, calls, opened, initialized, loaded, dbc, pssm, measure,
                    initMx, loadMx, statMx, pool, statmap, client, failer, disk>>
    BY DEF vars, command, history, flags, mutexes, threads
  <1>2. \A d, y : Has(d, y)' <=> Has(d, y)
    BY <1>1 DEF Has
  <1>3. TypeOK' /\ StatmapIsLive' /\ WorkersHaveAStore'
    BY <1>1 DEF Inv, TypeOK, StatmapIsLive, WorkersHaveAStore
  <1>4. CommandsAreSafe'
    BY <1>1 DEF Inv, CommandsAreSafe, Reshaped, Called, NoShare
  <1>5. UpInv => UpInv'
    BY <1>1, <1>2 DEF UpInv, ShapeInv, StartInv, StopInv, DiskInv, QuietInv, Reshaped, Called
  <1> QED
    BY <1>1, <1>3, <1>4, <1>5 DEF Inv

\* The invariant is inductive.
LEMMA InvNext == Inv /\ [Next]_vars => Inv'
  <1> SUFFICES ASSUME Inv, [Next]_vars
               PROVE  Inv'
    OBVIOUS
  <1>1. CASE TypeCommand \/ Kill \/ FailVolume
    BY <1>1, TypeCommandInv, KillInv, FailVolumeInv
  <1>2. CASE \E c \in Callers : Call(c)
    BY <1>2, CallInv
  <1>3. CASE \E call \in DOMAIN CallSteps : ShellCall(call)
    BY <1>3, ShellCallInv
  <1>4. CASE \E i \in Workers : Worker(i)
    BY <1>4, WorkerInitInv, ServeInv, WorkerRestsInv, WorkerStopInv, WorkerFiniInv DEF Worker
  <1>5. CASE \E k \in Clients : Client(k)
    BY <1>5, SubmitInv, WaitForNothingInv, ClientDoneInv DEF Client
  <1>6. CASE UNCHANGED vars
    BY <1>6, StutterInv
  <1> QED
    BY <1>1, <1>2, <1>3, <1>4, <1>5, <1>6 DEF Next

LEMMA InvLoaded == Inv => LoadedIsWhole
  <1> SUFFICES ASSUME Inv, status = "up", initialized, loaded
               PROVE  disk = "full" \/ (disk = "tables" /\ ~cmd.load)
    BY DEF LoadedIsWhole
  <1>1. TypeOK /\ UpInv /\ ShapeInv
    BY DEF Inv, UpInv
  <1>2. CASE cmd.load
    BY <1>1, <1>2 DEF UpInv, DiskInv
  <1>3. CASE ~cmd.load
    <2>1. ~Has("main", "workers")
      BY <1>1 DEF UpInv, StartInv
    <2>2. ~Has("main", "fids")
      BY <1>1, <2>1, StillToCome DEF MainRank, Mandatory
    <2> QED
      BY <1>1, <1>3, <2>2 DEF UpInv, DiskInv
  <1> QED
    BY <1>2, <1>3

\* The map of statistics never points to the counters of a thread that is gone
\* (ShoreTPCBEnv::env_thread_init, env_thread_fini and statistics).
THEOREM StatmapAlwaysLive == Spec => []StatmapIsLive
  <1>1. Inv => StatmapIsLive
    BY DEF Inv
  <1> QED
    BY <1>1, InvInit, InvNext, PTL DEF Spec

\* No worker is at work without the storage manager, unless the environment was closed and
\* opened again (ShoreEnv::stop, close and close_sm).
THEOREM WorkersAlwaysHaveAStore == Spec => []WorkersHaveAStore
  <1>1. Inv => WorkersHaveAStore
    BY DEF Inv
  <1> QED
    BY <1>1, InvInit, InvNext, PTL DEF Spec

\* A command that nobody disturbs uses nothing that is deleted; it fails only for want of a
\* database, by an error in its own load or by a client without a share (KitsCommand::run,
\* RestoreCmd::run, ShoreTPCBEnv::load_data, baseline_tpcb_client_t::run_xcts).
THEOREM CommandsAlwaysSafe == Spec => []CommandsAreSafe
  <1>1. Inv => CommandsAreSafe
    BY DEF Inv
  <1> QED
    BY <1>1, InvInit, InvNext, PTL DEF Spec

\* A database that counts as loaded has been loaded to the end, by this command or else
\* taken as it was found (ShoreEnv::start_sm and load).
THEOREM LoadedAlwaysWhole == Spec => []LoadedIsWhole
  BY InvInit, InvNext, InvLoaded, PTL DEF Spec

=============================================================================
