\* Two workers, one scale-down or scale-up against the shutdown.
CONSTANTS
  NumWorkers = 2
  MinWorkers = 1
  MaxWorkers = 3
  MaxSpawns = 3
SPECIFICATION Spec
INVARIANT JoinedExactlyOnce
