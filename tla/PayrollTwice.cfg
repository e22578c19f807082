CONSTANTS
  r1 = r1
  r2 = r2
  r3 = r3
  k1 = k1
  Requests <- MCRequests2
  ClientKeys <- MCKeys
  Amounts = {2}
  Operations = {"flex", "all"}
  FaultKinds = {}
  MaxSessions = 2
  MaxVouchers = 2
  MaxInFlight = 2
  MaxFaults = 0
SPECIFICATION PayrollSpec
SYMMETRY MCSymmetry
CHECK_DEADLOCK FALSE
INVARIANT PayoutNotTwice
