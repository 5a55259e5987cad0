\* Two slots, counters that wrap every four operations: every alignment of
\* head, tail and the wrap is reached, and the ring is often full or empty.
CONSTANTS
  Values = {v1, v2}
  NoItem = NoItem
  Cap = 2
  CtrMod = 4
  OvfMod = 2
SPECIFICATION Spec
INVARIANTS TypeOK NoSlotRace PublishedWhole
PROPERTY ImplementsFifo
