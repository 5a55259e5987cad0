\* One signal, at any moment of the start of the agent.
CONSTANTS
  Cap = 1
  BatchSize = 2
  MaxPackets = 1
  MaxSignals = 1
  MaxOutages = 0
SPECIFICATION FairSpec
PROPERTY SignalStops
