\* Two workers at the start, room for three, four threads in all: slots are
\* reused, and each worker may fail to start.
CONSTANTS
  NumWorkers = 2
  MinWorkers = 1
  MaxWorkers = 3
  MaxSpawns = 4
SPECIFICATION FairSpec
INVARIANTS TypeOK WorkersOnTheBooks
PROPERTY StopEndsServer
