SPECIFICATION Spec
CONSTANTS
  NumWorkers = 2
  ScalingFactor = 1
  QueriedFactor = 2
  TellersPerBranch = 1
  AccountsPerBranch = 1
  Deltas = {1}
  MaxTrxs = 3
  MaxTime = 2
  Garbled = Garbled
INVARIANTS
  ReportIsClose
  EnvCountersAgree
  ClientSeesTheEnd
  OneRowPerCommit
  OnlyUpgradesDeadlock
CHECK_DEADLOCK FALSE
