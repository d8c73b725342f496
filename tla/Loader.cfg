\* Fewer branches than threads; a segment of a chunk and a half; threads that do not
\* divide the accounts; ids that just fit, and ids that do not.
CONSTANTS
  ScalingFactors = {1, 3, 4, 6, 8}
  ThreadOptions = {1, 2, 3}
  AccountsPerBranch = 2
  TellersPerBranch = 2
  ChunkSize = 2
  IntRange = 24

SPECIFICATION FairSpec

INVARIANTS
  NoDuplicateKey
  LoadedIsComplete
  ChunksAreWhole
  BuildersAreBuffered

PROPERTIES
  LoadEnds

\* The load ends.
CHECK_DEADLOCK FALSE
