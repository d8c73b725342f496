------------------------------- MODULE Parts -------------------------------
(***************************************************************************)
(* The parts of the system that do not interact with each other in the     *)
(* states they keep, side by side: a behaviour is one of a part, its       *)
(* subject, and the variables of the other parts stay as they are.         *)
(***************************************************************************)
EXTENDS Naturals, Sequences, FiniteSets

CONSTANTS
  Subjects,  \* the parts that are checked
  \* the constants of the parts:
  PoolThreads, PoolOpener, PoolMaxActive,
  QueueSize, QueueMaxLength,
  TupleMaxTrx,
  LogPartitions, LogContents, LogBlock, LogInterval, Garbage,
  IndexKeys, IndexSeconds, IndexDatas, IndexMaxOps,
  SkewMaxUpper, SkewAreas, SkewLoads, SkewRands,
  EnvParams, EnvDefault, EnvContents, EnvOthers,
  WorkTellers, WorkAccounts, WorkMaxThreads, WorkOptions, WorkDatabases, WorkUnset,
  RowSchemas, RowChars, RowNumbers

VARIABLES
  subject,  \* the part that is checked
  tpPlace, tpGoal, tpActive, tpMutex, tpGate, tpExpired,
  qpSlots, qpUsed, qpOverflow, qpArray, qpLength, qpQueue, qpPool,
  ttMade, ttFree, ttHeld, ttRep, ttKey, ttTrx, ttKind, ttStep, ttWild,
  lsLog, lsCommand, lsTypes, lsOnly, lsStatus, lsPnum, lsFpos, lsBlock, lsHalf, lsHandled,
  lsTick, lsCounts, lsDumps,
  tiStores, tiCatalog, tiStid, tiBefore, tiTrx, tiOps, tiKey, tiRow, tiRep, tiKnown,
  skUpper, skArea, skLoad, skSpots, skOutside, skUsed, skType, skChanged, skAlarm, skInput,
  evFile, evContents, evEvm, evReads,
  wlOpt, wlStep, wlSf, wlQf, wlWorkerCnt, wlBranches, wlClients, wlAsked,
  rcSchema, rcFields, rcDisk, rcDiskKey, rcWritten, rcLoaded

tpVars == <<tpPlace, tpGoal, tpActive, tpMutex, tpGate, tpExpired>>
qpVars == <<qpSlots, qpUsed, qpOverflow, qpArray, qpLength, qpQueue, qpPool>>
ttVars == <<ttMade, ttFree, ttHeld, ttRep, ttKey, ttTrx, ttKind, ttStep, ttWild>>
lsVars == <<lsLog, lsCommand, lsTypes, lsOnly, lsStatus, lsPnum, lsFpos, lsBlock, lsHalf,
    lsHandled, lsTick, lsCounts, lsDumps>>
tiVars == <<tiStores, tiCatalog, tiStid, tiBefore, tiTrx, tiOps, tiKey, tiRow, tiRep, tiKnown>>
skVars == <<skUpper, skArea, skLoad, skSpots, skOutside, skUsed, skType, skChanged, skAlarm,
    skInput>>
evVars == <<evFile, evContents, evEvm, evReads>>
wlVars == <<wlOpt, wlStep, wlSf, wlQf, wlWorkerCnt, wlBranches, wlClients, wlAsked>>
rcVars == <<rcSchema, rcFields, rcDisk, rcDiskKey, rcWritten, rcLoaded>>

-----------------------------------------------------------------------------
Pool == INSTANCE ThreadPool WITH
  Threads <- PoolThreads, Opener <- PoolOpener, MaxActive <- PoolMaxActive, place <- tpPlace,
  goal <- tpGoal, active <- tpActive, mutex <- tpMutex, gate <- tpGate, expired <- tpExpired
Queue == INSTANCE QueuePool WITH
  PoolSize <- QueueSize, MaxLength <- QueueMaxLength, slots <- qpSlots, used <- qpUsed,
  overflow <- qpOverflow, array <- qpArray, length <- qpLength, queue <- qpQueue, pool <- qpPool
Tuples == INSTANCE TpcbTuples WITH
  MaxTrx <- TupleMaxTrx, made <- ttMade, free <- ttFree, held <- ttHeld, rep <- ttRep, key <- ttKey,
  trx <- ttTrx, kind <- ttKind, step <- ttStep, wild <- ttWild
Scan == INSTANCE LogScanProofs WITH
  Partitions <- LogPartitions, Contents <- LogContents, Block <- LogBlock, Interval <- LogInterval,
  log <- lsLog, command <- lsCommand, types <- lsTypes, only <- lsOnly, status <- lsStatus, pnum <- lsPnum,
  fpos <- lsFpos, block <- lsBlock, half <- lsHalf, handled <- lsHandled, tick <- lsTick,
  counts <- lsCounts, dumps <- lsDumps
Index == INSTANCE TableIndex WITH
  Keys <- IndexKeys, Seconds <- IndexSeconds, Datas <- IndexDatas, MaxOps <- IndexMaxOps,
  stores <- tiStores, catalog <- tiCatalog, stid <- tiStid, before <- tiBefore, trx <- tiTrx, ops <- tiOps,
  key <- tiKey, row <- tiRow, rep <- tiRep, known <- tiKnown
Skewed == INSTANCE Skew WITH
  MaxUpper <- SkewMaxUpper, Areas <- SkewAreas, Loads <- SkewLoads, Rands <- SkewRands, upper <- skUpper,
  area <- skArea, load <- skLoad, spots <- skSpots, outside <- skOutside, used <- skUsed, type <- skType,
  changed <- skChanged, alarm <- skAlarm, input <- skInput
Env == INSTANCE EnvVar WITH
  Params <- EnvParams, Default <- EnvDefault, Contents <- EnvContents, Others <- EnvOthers,
  file <- evFile, contents <- evContents, evm <- evEvm, reads <- evReads
Work == INSTANCE Workload WITH
  Tellers <- WorkTellers, Accounts <- WorkAccounts, MaxThreads <- WorkMaxThreads,
  Options <- WorkOptions, Databases <- WorkDatabases, Unset <- WorkUnset, opt <- wlOpt, step <- wlStep,
  sf <- wlSf, qf <- wlQf, workerCnt <- wlWorkerCnt, branches <- wlBranches, clients <- wlClients,
  asked <- wlAsked
Codec == INSTANCE RowCodecProofs WITH
  Schemas <- RowSchemas, Chars <- RowChars, Numbers <- RowNumbers, schema <- rcSchema,
  fields <- rcFields, disk <- rcDisk, diskKey <- rcDiskKey, written <- rcWritten, loaded <- rcLoaded

ASSUME PoolAssumption == Pool!ThreadPoolAssumption
ASSUME QueueAssumption == Queue!QueuePoolAssumption
ASSUME TuplesAssumption == Tuples!TpcbTuplesAssumption
ASSUME ScanAssumption == Scan!LogScanAssumption
ASSUME IndexAssumption == Index!TableIndexAssumption
ASSUME SkewedAssumption == Skewed!SkewAssumption
ASSUME EnvAssumption == Env!EnvVarAssumption
ASSUME WorkAssumption == Work!WorkloadAssumption
ASSUME CodecAssumption == Codec!RowCodecAssumption

\* The variables of a part that is not the subject.
ThreadsIdle ==
  /\ tpPlace = 0 /\ tpGoal = 0 /\ tpActive = 0 /\ tpMutex = 0 /\ tpGate = 0 /\ tpExpired = 0
QueueIdle ==
  /\ qpSlots = 0 /\ qpUsed = 0 /\ qpOverflow = 0 /\ qpArray = 0 /\ qpLength = 0
  /\ qpQueue = 0 /\ qpPool = 0
TuplesIdle ==
  /\ ttMade = 0 /\ ttFree = 0 /\ ttHeld = 0 /\ ttRep = 0 /\ ttKey = 0 /\ ttTrx = 0
  /\ ttKind = 0 /\ ttStep = 0 /\ ttWild = 0
ScanIdle ==
  /\ lsLog = 0 /\ lsCommand = 0 /\ lsTypes = 0 /\ lsOnly = 0 /\ lsStatus = 0 /\ lsPnum = 0
  /\ lsFpos = 0 /\ lsBlock = 0 /\ lsHalf = 0 /\ lsHandled = 0 /\ lsTick = 0 /\ lsCounts = 0
  /\ lsDumps = 0
IndexIdle ==
  /\ tiStores = 0 /\ tiCatalog = 0 /\ tiStid = 0 /\ tiBefore = 0 /\ tiTrx = 0 /\ tiOps = 0
  /\ tiKey = 0 /\ tiRow = 0 /\ tiRep = 0 /\ tiKnown = 0
SkewedIdle ==
  /\ skUpper = 0 /\ skArea = 0 /\ skLoad = 0 /\ skSpots = 0 /\ skOutside = 0 /\ skUsed = 0
  /\ skType = 0 /\ skChanged = 0 /\ skAlarm = 0 /\ skInput = 0
EnvIdle ==
  /\ evFile = 0 /\ evContents = 0 /\ evEvm = 0 /\ evReads = 0
WorkIdle ==
  /\ wlOpt = 0 /\ wlStep = 0 /\ wlSf = 0 /\ wlQf = 0 /\ wlWorkerCnt = 0 /\ wlBranches = 0
  /\ wlClients = 0 /\ wlAsked = 0
CodecIdle ==
  /\ rcSchema = 0 /\ rcFields = 0 /\ rcDisk = 0 /\ rcDiskKey = 0 /\ rcWritten = 0
  /\ rcLoaded = 0

Init ==
  /\ subject \in Subjects
  /\ \/ subject = "threads" /\ Pool!Init
     \/ subject # "threads" /\ ThreadsIdle
  /\ \/ subject = "queue" /\ Queue!Init
     \/ subject # "queue" /\ QueueIdle
  /\ \/ subject = "tuples" /\ Tuples!Init
     \/ subject # "tuples" /\ TuplesIdle
  /\ \/ subject = "scan" /\ Scan!Init
     \/ subject # "scan" /\ ScanIdle
  /\ \/ subject = "index" /\ Index!Init
     \/ subject # "index" /\ IndexIdle
  /\ \/ subject = "skew" /\ Skewed!Init
     \/ subject # "skew" /\ SkewedIdle
  /\ \/ subject = "env" /\ Env!Init
     \/ subject # "env" /\ EnvIdle
  /\ \/ subject = "work" /\ Work!Init
     \/ subject # "work" /\ WorkIdle
  /\ \/ subject = "codec" /\ Codec!Init
     \/ subject # "codec" /\ CodecIdle

ThreadsStep ==
  /\ subject = "threads" /\ Pool!Next
  /\ UNCHANGED <<subject, qpVars, ttVars, lsVars, tiVars, skVars, evVars, wlVars, rcVars>>
QueueStep ==
  /\ subject = "queue" /\ Queue!Next
  /\ UNCHANGED <<subject, tpVars, ttVars, lsVars, tiVars, skVars, evVars, wlVars, rcVars>>
TuplesStep ==
  /\ subject = "tuples" /\ Tuples!Next
  /\ UNCHANGED <<subject, tpVars, qpVars, lsVars, tiVars, skVars, evVars, wlVars, rcVars>>
ScanStep ==
  /\ subject = "scan" /\ Scan!Next
  /\ UNCHANGED <<subject, tpVars, qpVars, ttVars, tiVars, skVars, evVars, wlVars, rcVars>>
IndexStep ==
  /\ subject = "index" /\ Index!Next
  /\ UNCHANGED <<subject, tpVars, qpVars, ttVars, lsVars, skVars, evVars, wlVars, rcVars>>
SkewedStep ==
  /\ subject = "skew" /\ Skewed!Next
  /\ UNCHANGED <<subject, tpVars, qpVars, ttVars, lsVars, tiVars, evVars, wlVars, rcVars>>
EnvStep ==
  /\ subject = "env" /\ Env!Next
  /\ UNCHANGED <<subject, tpVars, qpVars, ttVars, lsVars, tiVars, skVars, wlVars, rcVars>>
WorkStep ==
  /\ subject = "work" /\ Work!Next
  /\ UNCHANGED <<subject, tpVars, qpVars, ttVars, lsVars, tiVars, skVars, evVars, rcVars>>
CodecStep ==
  /\ subject = "codec" /\ Codec!Next
  /\ UNCHANGED <<subject, tpVars, qpVars, ttVars, lsVars, tiVars, skVars, evVars, wlVars>>

Next ==
  \/ ThreadsStep \/ QueueStep \/ TuplesStep \/ ScanStep
  \/ IndexStep \/ SkewedStep \/ EnvStep \/ WorkStep \/ CodecStep

vars == <<subject, tpVars, qpVars, ttVars, lsVars, tiVars, skVars, evVars, wlVars, rcVars>>

Spec == Init /\ [][Next]_vars

\* Fairness of ThreadPool.
ThreadsFairness == \A t \in PoolThreads :
  WF_vars(subject = "threads" /\ Pool!Step(t) /\ ThreadsStep)

FairSpec == Spec /\ ThreadsFairness

-----------------------------------------------------------------------------
\* The variables of the subject have their types.
TypeOK ==
  /\ subject = "threads" => Pool!TypeOK
  /\ subject = "queue" => Queue!TypeOK
  /\ subject = "tuples" => Tuples!TypeOK
  /\ subject = "scan" => Scan!TypeOK
  /\ subject = "index" => Index!TypeOK
  /\ subject = "skew" => Skewed!TypeOK
  /\ subject = "env" => Env!TypeOK
  /\ subject = "work" => Work!TypeOK
  /\ subject = "codec" => Codec!TypeOK

\* A thread pool counts the threads it has admitted, and admits at most _max_active.
PoolIsBounded == subject = "threads" => Pool!PoolIsBounded

\* The threads of a pool all end, though they leave it and come back around every wait.
ThreadsEnd == <>(subject = "threads" => Pool!AllDone)

\* Each block of the pool of a worker's queue is in one vector or free, and the pool is there
\* as long as a vector holds one.
BlocksInOnePlace == subject = "queue" => Queue!BlocksInOnePlace

\* TPC-B transactions and the loader use memory of their own; what uses another's is a
\* microbenchmark.
OnlyMicroBenchmarksStray == subject = "tuples" => Tuples!OnlyMicroBenchmarksStray

\* The handlers of a log scan are given the records of the log, each once and in order.
ScanIsTheLog == subject = "scan" => Scan!ScanIsTheLog

\* agglog prints a line for every interval of ticks, as its option says.
GroupsAreIntervals == subject = "scan" => Scan!GroupsAreIntervals

\* Between transactions the rows of a table and its secondary index lead to each other.
IndexesAgree == subject = "index" => Index!IndexesAgree

\* The ranges of a skewer have numbers and divide those from its lower to its upper bound.
RangesDivide == subject = "skew" => Skewed!RangesDivide

\* A variable has one value for all readers until it is set or refreshed.
ReadsAgree == subject = "env" => Env!ReadsAgree

\* A key of a configuration file has the value of its last line before the sentry, with the
\* text it goes on with.
FileIsParsed == subject = "env" => Env!FileIsParsed

\* Transactions ask for rows that a load has made.
AsksForWhatIsThere == subject = "work" => Work!AsksForWhatIsThere

\* A row is read back with the values it was stored with, into a tuple that holds anything,
\* and its nulls are not nulls any more.
FieldsReadBack == subject = "codec" => Codec!FieldsReadBack

=============================================================================
