\* Two commands, one after the other, two workers, a client, two calls of a shell.
CONSTANTS
  WorkerCnt = 2
  NumThreads = 1
  MaxCommands = 2
  MaxCalls = 2

SPECIFICATION FairSpec

INVARIANTS
  CommandsAreSafe
  WorkersHaveAStore
  LoadedIsWhole
  StatmapIsLive

PROPERTIES
  CommandEnds

\* Commands end, or hang in one of the ways that the definition Hung names; and a shell that
\* takes the workers away leaves clients that wait for ever.
CHECK_DEADLOCK FALSE
