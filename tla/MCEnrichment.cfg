\* Two workers with two messages: three events with the public one in the middle, and
\* an address that is too long to be cached before one that may be.  The service
\* fails or sends a number out of range; there is time for failures and scores to
\* expire; the buffer holds two points, with room for a short one behind one that
\* did not fit.
CONSTANTS
  w1 = w1  w2 = w2  a = a  l = l  p = p
  Workers <- MCWorkers
  Public = {a, l}
  LongKeys = {l}
  Private = {p}
  GeoDb <- MCGeoDb
  Batches <- MCBatches
  RawScores <- MCRawScores
  Ttl = 1
  NegTtl = 0
  LpCap = 9
  MinRoom = 3
  MaxTime = 2
  MaxFaults = 1
SPECIFICATION FairSpec
INVARIANTS TypeOK ApiSpared GeoTellsDatabase ScoresAgree PostWhole
PROPERTY MessagesEnd
