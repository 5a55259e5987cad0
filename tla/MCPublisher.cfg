\* Backoffs of 1, 2 and 4 ticks around a connect timeout of 2, as 1, 2, ... 30 s
\* lie around 5 s; three batches, three faults.
CONSTANTS
  MinBackoff = 1
  MaxBackoff = 4
  ConnectTimeout = 2
  MaxBatches = 3
  MaxFaults = 3
SPECIFICATION FairSpec
INVARIANTS TypeOK FlagTellsConnection SentOnce
PROPERTY BatchGetsThrough
