CONSTANTS
  w1 = w1
  w2 = w2
  Workers <- MCWorkers
  MaxEvents = 2
  MaxRetries = 3
  SlowWorkers = TRUE
  LostReply = TRUE
  MaxFaults = 3
SPECIFICATION FairSpec
INVARIANTS
  GivenUpAfterRetries
  ProcessedWasPublished
PROPERTIES
  EventuallyClosed
