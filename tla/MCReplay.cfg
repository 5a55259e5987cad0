\* Three entries, two of which are kept, among ten files: met, missed, damaged,
\* empty and unreadable ones, one that overflows the collector and one whose sheet
\* is longer than its array.
CONSTANTS
  Names = {n1, n2, n3}
  Files <- MCFiles
  Ips = {"a", "b"}
  Threshold = 2
  CleanupInterval = 1
  InactiveTimeout = 2
  MaxDetections = 2
  MaxExpected = 4
  MaxResults = 2
SPECIFICATION Spec
INVARIANTS TypeOK ResultTellsFile GateHonest
