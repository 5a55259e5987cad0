\* One packet, one signal: the last packet and its event against the end of each stage.
CONSTANTS
  Cap = 1
  BatchSize = 2
  MaxPackets = 1
  MaxSignals = 1
  MaxOutages = 0
SPECIFICATION Spec
INVARIANT PipelineDrains
