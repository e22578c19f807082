CONSTANTS
  r1 = r1
  r2 = r2
  r3 = r3
  k1 = k1
  Requests <- MCRequests3
  ClientKeys <- MCKeys
  Amounts = {2}
  Operations = {"flex", "all", "PARTIAL"}
  FaultKinds = {"error", "lost", "crash"}
  MaxSessions = 2
  MaxVouchers = 2
  MaxInFlight = 2
  MaxFaults = 1
SPECIFICATION PayrollSpec
SYMMETRY MCSymmetry
CHECK_DEADLOCK FALSE
INVARIANTS
  ClaimedOnce
  PaidHasPayment
