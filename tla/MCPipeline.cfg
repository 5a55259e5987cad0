\* Rings of one slot and batches of two: both rings fill and overflow, a batch
\* leaves full, by timeout and at the drain, and the broker fails and comes back twice.
CONSTANTS
  Cap = 1
  BatchSize = 2
  MaxPackets = 2
  MaxSignals = 1
  MaxOutages = 2
SPECIFICATION FairSpec
INVARIANTS TypeOK NothingVanishes ThreadsOutlived
PROPERTIES ImplementsLossyLine ShutdownCompletes BatchesLeave
