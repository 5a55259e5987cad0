\* Two sources and one slot for them, one attack of each stage; the limits keep
\* the order of the code's (60 < 300 = 300 < 1800 s), and time runs past two
\* correlation windows.
CONSTANTS
  IPs = {a, b, h}
  HomeNet = {h}
  MACs = {m}
  NoIP = NoIP
  Attacks = {"PORT_SCAN", "BRUTE_FORCE", "DNS_TUNNEL"}
  MaxSuspects = 1
  MaxArp = 1
  CleanupInterval = 2
  InactiveTimeout = 3
  KcWindow = 4
  FastProgress = 3
  MaxTime = 12
SPECIFICATION Spec
INVARIANTS TypeOK StageTellsHits IncidentSpan
PROPERTIES StageOnlyAdvances SilentLoseSlots
