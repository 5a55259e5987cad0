\* A traffic worker and the narrator, two messages of one event, two faults.
CONSTANTS
  Consumers = {"w1", "narr"}
  Role <- Roles
  KcTrigger = TRUE
  AbuseTrigger = TRUE
  Events = 1
  MaxMessages = 2
  MaxFaults = 2
SPECIFICATION FairSpec
INVARIANTS TypeOK OneFate
PROPERTIES OutageShows TrafficServed StopsOnRequest
