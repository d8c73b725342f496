\* A time-bound run: two clients, batches of one request, up to three batches each.
CONSTANTS
  NumThreads = 2
  MeasureType = "TIME_DUR"
  NumTrxs = 0
  MaxBatch = 4
  BatchSize = 1
  Loops = 1
  MaxBatches = 3

SPECIFICATION FairSpec

INVARIANTS
  TypeOK
  QueueIsFIFO
  SwapFindsWork
  SleeperIsMarked
  SlotsNotShared
  NoRequestOutlivesClient
  NothingLeftAtStop

PROPERTIES
  ImplementsBatchService
  OnlyLostWakeupsHang
  PushWakesWorker
  StopWakesSleeper

\* The program ends, or hangs in a lost wake-up (OnlyLostWakeupsHang).
CHECK_DEADLOCK FALSE
