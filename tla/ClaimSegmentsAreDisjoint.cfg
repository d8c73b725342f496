\* Three branches and two loaders: a segment of a chunk and a half.
CONSTANTS
  ScalingFactors = {3}
  ThreadOptions = {2}
  AccountsPerBranch = 2
  TellersPerBranch = 2
  ChunkSize = 2
  IntRange = 24

SPECIFICATION Spec

INVARIANTS
  SegmentsAreDisjoint

\* The load ends.
CHECK_DEADLOCK FALSE
