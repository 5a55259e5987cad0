\* All protocols.  Three ports against a scan threshold of two, one of them an
\* authentication port; the brute-force window closes and opens inside bursts;
\* scans, floods and adaptive thresholds compete for the packets.
CONSTANTS
  Protocols = {"TCP", "ICMP", "UDP"}
  Ports = {22, 80, 443}
  AuthPorts = {22}
  FlagSets <- TcpFlags
  Sizes = {1}
  ScanThreshold = 2
  IcmpThreshold = 2
  SynThreshold = 3
  StealthThreshold = 2
  BruteThreshold = 2
  BruteWindow = 1
  DnsMax = 2
  AmpFloor = 1
  AmpRatio = 1
  Calibration = 2
  EwmaWindow = 1
  SynFloor = 2
  IcmpFloor = 1
  MaxPackets = 5
  MaxTime = 3
SPECIFICATION Spec
INVARIANTS TypeOK BruteForceSound BurstNeverSilent PortScanSound
