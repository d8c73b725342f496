\* One transaction for two clients: the assertion of condex_pair::wait().
CONSTANTS
  NumThreads = 2
  MeasureType = "NUM_OF_TRXS"
  NumTrxs = 1
  MaxBatch = 4
  BatchSize = 1
  Loops = 1
  MaxBatches = 2

SPECIFICATION Spec

INVARIANTS
  WaitsOnlyForTaken

\* The program ends, or hangs in a lost wake-up (OnlyLostWakeupsHang).
CHECK_DEADLOCK FALSE
