SPECIFICATION Spec
CONSTANTS
  NumWorkers = 2
  ScalingFactor = 1
  QueriedFactor = 2
  TellersPerBranch = 1
  AccountsPerBranch = 2
  Deltas = {1}
  MaxTrxs = 1
  MaxTime = 2
  Garbled = Garbled
INVARIANTS
  ProbeLoadsRow
CHECK_DEADLOCK FALSE
