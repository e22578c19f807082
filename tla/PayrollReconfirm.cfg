CONSTANTS
  r1 = r1
  r2 = r2
  r3 = r3
  k1 = k1
  Requests <- MCRequests3
  ClientKeys <- MCKeys
  Amounts = {2}
  Operations = {"voucher", "confirm", "cancel"}
  FaultKinds = {}
  MaxSessions = 1
  MaxVouchers = 1
  MaxInFlight = 1
  MaxFaults = 0
SPECIFICATION PayrollSpec
SYMMETRY MCSymmetry
CHECK_DEADLOCK FALSE
PROPERTY ConfirmIsBooked
