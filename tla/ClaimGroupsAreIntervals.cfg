SPECIFICATION Spec
CONSTANTS
  Subjects = {"scan"}
  Garbage = {0, 5}
  PoolThreads = {"t1", "t2", "t3"}
  PoolOpener = "t1"
  PoolMaxActive = 2
  QueueSize = 2
  QueueMaxLength = 5
  TupleMaxTrx = 3
  LogPartitions = {1, 2, 3}
  LogContents <- MCLogContents
  LogBlock = 3
  LogInterval = 1
  IndexKeys = {1, 2}
  IndexSeconds = {5, 6}
  IndexDatas = {8, 9}
  IndexMaxOps = 3
  SkewMaxUpper = 4
  SkewAreas = {30, 80, 100}
  SkewLoads = {0, 60}
  SkewRands = {1, 50, 100}
  EnvParams = {"a", "b"}
  EnvDefault <- MCEnvDefault
  EnvContents <- MCEnvContents
  EnvOthers <- MCEnvOthers
  WorkTellers = 2
  WorkAccounts = 3
  WorkMaxThreads = 3
  WorkOptions <- MCWorkOptions
  WorkDatabases = {0, 1, 3}
  WorkUnset = {0, 2}
  RowSchemas <- MCRowSchemas
  RowChars = {7}
  RowNumbers = {0, 3}
INVARIANTS
  GroupsAreIntervals
CHECK_DEADLOCK FALSE
