CONSTANTS
  r1 = r1
  r2 = r2
  r3 = r3
  k1 = k1
  Requests <- MCRequests3
  ClientKeys <- MCKeys
  Amounts = {2}
  Operations = {"flex", "all", "PAID_IN_ADVANCE", "voucher", "confirm", "cancel", "delete", "approve", "reject", "void"}
  FaultKinds = {"error", "lost", "crash"}
  MaxSessions = 1
  MaxVouchers = 1
  MaxInFlight = 2
  MaxFaults = 1
SPECIFICATION PayrollSpec
SYMMETRY MCSymmetry
CHECK_DEADLOCK FALSE
INVARIANTS
  PayrollTypeOK
  VoucherAgrees
PROPERTY PaymentIsBooked
