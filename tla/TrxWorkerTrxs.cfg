\* A run of six transactions: two clients, each submits a batch of two and one of one.
CONSTANTS
  NumThreads = 2
  MeasureType = "NUM_OF_TRXS"
  NumTrxs = 6
  MaxBatch = 2
  BatchSize = 1
  Loops = 0
  MaxBatches = 2

SPECIFICATION Spec

INVARIANTS
  FullInv
  WaitMeansBatchServed

PROPERTIES
  ImplementsBatchService

\* The program ends, or hangs in a lost wake-up (OnlyLostWakeupsHang).
CHECK_DEADLOCK FALSE
