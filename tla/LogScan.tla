------------------------------- MODULE LogScan -------------------------------
(***************************************************************************)
(* The log scanners (scanner.cpp) under the commands that use them: logcat,*)
(* agglog and verifylog.                                                   *)
(*                                                                         *)
(* BlockScanner reads the partitions of a recovery log, log.1, log.2, ..., *)
(* in blocks and hands each record to the handlers of the command.  A      *)
(* partition is the sequence of its records here; a record of the wide     *)
(* kind is two cells long and may lie across two blocks.  LogScanner, of   *)
(* the storage manager, cuts a block into records, keeps the half of one   *)
(* that goes on in the next block, and leaves out the kinds it was told to *)
(* ignore.  What the log manager promises is that the records of every     *)
(* partition end with one of kind skip; what follows it is left over from  *)
(* before.                                                                 *)
(*                                                                         *)
(* LogArchiveScanner reads the runs of a log archive in the order of their *)
(* LSNs instead.                                                           *)
(***************************************************************************)
EXTENDS Naturals, FiniteSets, Sequences, SequencesExt, FiniteSetsExt

CONSTANTS
  Partitions,  \* the numbers a partition may have
  Contents,    \* what a partition may hold, as sequences of kinds
  Block,       \* the size of a block, in cells
  Interval,    \* --interval of agglog
  Garbage      \* what an int on the stack may hold that nobody has written

Kinds == {"plain", "wide", "tick", "skip"}

\* The log manager numbers its partitions from 1 and ends each with a skip.
LogScanAssumption ==
  /\ Partitions \subseteq Nat \ {0}
  /\ \A c \in Contents : c \in Seq(Kinds) /\ \E i \in DOMAIN c : c[i] = "skip"
  /\ Block \in Nat \ {0}
  /\ Interval \in Nat \ {0}
  /\ Garbage \subseteq Nat

Absent == <<>>

VARIABLES
  log,      \* log[p]: the contents of partition p, or Absent
  command,  \* "logcat", "archive" (logcat --archive), "agglog" or "verifylog"
  types,    \* --type of agglog
  only,     \* --file: the partition that is scanned, or 0 for all
  status,   \* "open", "read", "cut" (the records of a block), "done", "threw" or "wild"
  pnum,     \* pnum; 0 for the -1 it has before the first file
  fpos,     \* fpos
  block,    \* the cells of the block
  half,     \* LogScanner: whether it holds the first half of a record
  handled,  \* the records the handlers were invoked with
  tick,     \* currentTick
  counts,   \* counts
  dumps     \* what dumpCounts printed: the number of ticks since the last one, the counts

input == <<log, command, types, only>>
agg == <<tick, counts, dumps>>
vars == <<input, status, pnum, fpos, block, half, handled, agg>>

\* The cells of a partition: the record each is of, and whether it is the first one.
Cells(p) == FlattenSeq([i \in 1 .. Len(log[p]) |->
  IF log[p][i] = "wide" THEN << <<i, 1>>, <<i, 2>> >> ELSE << <<i, 1>> >>])
Present == {p \in Partitions : log[p] # Absent}

TypeOK ==
  /\ log \in [Partitions -> Contents \cup {Absent}]
  /\ command \in {"logcat", "archive", "agglog", "verifylog"}
  /\ types \subseteq Kinds /\ only \in Partitions \cup {0}
  /\ status \in {"open", "read", "cut", "done", "threw", "wild"}
  /\ pnum \in Nat /\ fpos \in Nat /\ half \in BOOLEAN
  /\ \A i \in 1 .. Len(block) : block[i] \in Nat \X {1, 2}
  /\ \A i \in 1 .. Len(handled) : handled[i] \in Partitions \X Nat
  /\ tick \in Nat
  /\ counts \in [Kinds -> Nat]

\* The commands and what their options give: logcat of one file, of all or of an archive,
\* agglog with the types to count, whose handler leaves currentTick unset.
LogCat ==
  /\ command \in {"logcat", "archive"} /\ types = {} /\ tick = 0
  /\ only \in IF command = "logcat" THEN Partitions \cup {0} ELSE {0}
AggLog ==
  /\ command = "agglog" /\ only = 0
  /\ types \in (SUBSET {"plain", "wide"}) \ {{}}
  /\ tick \in Garbage
VerifyLog == command = "verifylog" /\ types = {} /\ only = 0 /\ tick = 0

Init ==
  /\ log \in [Partitions -> Contents \cup {Absent}]
  /\ LogCat \/ AggLog \/ VerifyLog
  /\ status = "open" /\ pnum = 0 /\ fpos = 0 /\ block = <<>> /\ half = FALSE
  /\ handled = <<>>
  /\ counts = [k \in Kinds |-> 0]
  /\ dumps = <<>>

\* Mutant of Ignored: the filter takes the skips out as well.
IgnoredWithSkips(kind) == command = "agglog" /\ kind \notin types \cup {"tick"}

\* The records LogScanner leaves out: with a filter, all but those of the types, the
\* ticks and the skips.
Ignored(kind) == command = "agglog" /\ kind \notin types \cup {"tick", "skip"}

\* AggregateHandler::dumpCounts().
Dump(ticks, c) == Append(dumps, [ticks |-> ticks, counts |-> c])
NoCounts == [k \in Kinds |-> 0]

\* AggregateHandler::invoke().
Aggregate(kind) ==
  IF kind = "tick"
    THEN IF tick + 1 = Interval
           THEN tick' = 0 /\ dumps' = Dump(Interval, counts) /\ counts' = NoCounts
           ELSE tick' = tick + 1 /\ UNCHANGED <<counts, dumps>>
    ELSE /\ counts' = IF kind \in types THEN [counts EXCEPT ![kind] = @ + 1] ELSE counts
         /\ UNCHANGED <<tick, dumps>>

\* BaseScanner::handle(): the commands register one handler, for records of any kind.
Handle(p, i) ==
  /\ handled' = Append(handled, <<p, i>>)
  /\ IF command = "agglog" THEN Aggregate(log[p][i]) ELSE UNCHANGED agg

\* BaseScanner::finalize() and the handlers' finalize().
Finalize ==
  /\ status' = "done"
  /\ IF command = "agglog"
       THEN dumps' = Dump(tick, counts) /\ counts' = NoCounts /\ UNCHANGED tick
       ELSE UNCHANGED agg

-----------------------------------------------------------------------------
\* BlockScanner::run(), one action for each iteration of its loops.

\* getNextFile(): the lowest partition there is, by findFirstFile(), then the next number.
NextFile == IF only # 0 THEN only
            ELSE IF pnum = 0 THEN (IF Present = {} THEN 0 ELSE Min(Present)) ELSE pnum + 1

OpenFile ==
  /\ status = "open" /\ command # "archive"
  /\ NextFile \in Present
  /\ pnum' = NextFile /\ fpos' = 0 /\ status' = "read"
  /\ UNCHANGED <<input, block, half, handled, agg>>

\* No such file: the scan is over.  A scan of one file that is not there throws.
NoFile ==
  /\ status = "open" /\ command # "archive"
  /\ NextFile \notin Present
  /\ IF only # 0 THEN status' = "threw" /\ UNCHANGED agg ELSE Finalize
  /\ UNCHANGED <<input, pnum, fpos, block, half, handled>>

\* The next block of the file; fpos moves on before the block is cut.
ReadBlock ==
  /\ status = "read" /\ fpos < Len(Cells(pnum))
  /\ fpos' = Min({fpos + Block, Len(Cells(pnum))})
  /\ block' = SubSeq(Cells(pnum), fpos + 1, fpos')
  /\ status' = "cut"
  /\ UNCHANGED <<input, pnum, half, handled, agg>>

\* The file is read; a scan of one file is over.
CloseFile ==
  /\ status = "read" /\ fpos >= Len(Cells(pnum))
  /\ IF only # 0 THEN Finalize ELSE status' = "open" /\ UNCHANGED agg
  /\ UNCHANGED <<input, pnum, fpos, block, half, handled>>

\* nextLogrec() has no more records in the block; it may keep the half of one.
EndOfBlock ==
  /\ status = "cut"
  /\ block = <<>> \/ (Len(block) = 1 /\ ~half /\ log[pnum][block[1][1]] = "wide")
  /\ half' = (block # <<>>)
  /\ block' = <<>> /\ status' = "read"
  /\ UNCHANGED <<input, pnum, fpos, handled, agg>>

\* A record: it is handed on unless it is ignored, and a skip ends the file.
NextRecord ==
  /\ status = "cut" /\ block # <<>>
  /\ LET i == block[1][1]
         kind == log[pnum][i]
         width == IF kind = "wide" /\ ~half THEN 2 ELSE 1
     IN /\ width <= Len(block)
        /\ half' = FALSE
        /\ IF Ignored(kind) THEN UNCHANGED <<handled, agg>> ELSE Handle(pnum, i)
        /\ IF kind = "skip" /\ ~Ignored(kind)
             THEN block' = <<>> /\ fpos' = Len(Cells(pnum)) /\ status' = "read"
             ELSE block' = SubSeq(block, width + 1, Len(block)) /\ UNCHANGED <<fpos, status>>
  /\ UNCHANGED <<input, pnum>>

-----------------------------------------------------------------------------
\* LogArchiveScanner::run().  A partition stands for a run that ends where the one of the
\* next number begins; the first one of no runs is read all the same.
ScanRun ==
  /\ status = "open" /\ command = "archive"
  /\ LET rest == {p \in Present : p > pnum}
         p == Min(rest)
     IN /\ rest # {}
        /\ pnum # 0 => p = pnum + 1
        /\ handled' = handled \o [i \in 1 .. Len(log[p]) |-> <<p, i>>]
        /\ pnum' = p
  /\ UNCHANGED <<input, status, fpos, block, half, agg>>

HoleInRuns ==
  /\ status = "open" /\ command = "archive"
  /\ pnum # 0 /\ pnum + 1 \notin Present /\ \E p \in Present : p > pnum
  /\ status' = "threw"
  /\ UNCHANGED <<input, pnum, fpos, block, half, handled, agg>>

NoMoreRuns ==
  /\ status = "open" /\ command = "archive"
  /\ \A p \in Present : p <= pnum
  /\ status' = IF pnum = 0 THEN "wild" ELSE "done"
  /\ UNCHANGED <<input, pnum, fpos, block, half, handled, agg>>

Next ==
  \/ OpenFile \/ NoFile \/ ReadBlock \/ CloseFile \/ EndOfBlock \/ NextRecord
  \/ ScanRun \/ HoleInRuns \/ NoMoreRuns

Spec == Init /\ [][Next]_vars

-----------------------------------------------------------------------------
\* What is there to be scanned: the partitions from the lowest one to the first that is
\* missing, each up to its first skip; of an archive all of a run.
Scanned ==
  IF only # 0 THEN {only} \cap Present
  ELSE {p \in Present : \A q \in Present : \A r \in q .. p : r \in Present}

Wanted(p) == {<<p, i>> : i \in {j \in DOMAIN log[p] :
  /\ ~Ignored(log[p][j])
  /\ command = "archive" \/ \A m \in 1 .. j - 1 : log[p][m] # "skip"}}
TheLog == UNION {Wanted(p) : p \in Scanned}

KindOf(record) == log[record[1]][record[2]]
Precedes(x, y) == x[1] < y[1] \/ (x[1] = y[1] /\ x[2] < y[2])
Dumped(kind) == MapThenSumSet(LAMBDA n : dumps[n].counts[kind], DOMAIN dumps)

\* The handlers are given the records of the log, each once and in their order, none before
\* those in front of it, and all of them when the scan is done, across blocks, files and
\* what is ignored; and what agglog has printed by then adds up to the records of its types.
ScanIsTheLog ==
  /\ \A m, n \in DOMAIN handled : m < n => Precedes(handled[m], handled[n])
  /\ Range(handled) \subseteq TheLog
  /\ \A x \in TheLog, y \in Range(handled) : Precedes(x, y) => x \in Range(handled)
  /\ status = "done" => TheLog \subseteq Range(handled)
  /\ status = "done" /\ command = "agglog" =>
       \A kind \in types : Dumped(kind) = Cardinality({x \in TheLog : KindOf(x) = kind})

\* "Size of the aggregation groups in number of ticks" (the option interval): every line
\* but the last is printed after that many ticks.
TicksHandled == Cardinality({n \in DOMAIN handled : KindOf(handled[n]) = "tick"})
GroupsAreIntervals ==
  command = "agglog" /\ status # "done" => Len(dumps) = TicksHandled \div Interval
=============================================================================
