\* One client and one transaction: the sleep of the worker.
CONSTANTS
  NumThreads = 1
  MeasureType = "NUM_OF_TRXS"
  NumTrxs = 1
  MaxBatch = 4
  BatchSize = 1
  Loops = 1
  MaxBatches = 2

SPECIFICATION FairSpec

PROPERTIES
  WorkerLeavesItsSleep

\* The program ends, or hangs in a lost wake-up (OnlyLostWakeupsHang).
CHECK_DEADLOCK FALSE
