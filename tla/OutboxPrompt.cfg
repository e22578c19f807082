CONSTANTS
  w1 = w1
  w2 = w2
  Workers <- MCWorkers
  MaxEvents = 2
  MaxRetries = 3
  SlowWorkers = FALSE
  LostReply = FALSE
  MaxFaults = 4
SPECIFICATION Spec
SYMMETRY Symmetry
INVARIANTS
  TypeOK
  OneWorkerPerEvent
  NoDuplicateDispatch
PROPERTIES
  TerminalIsFinal
  ImplementsContract
