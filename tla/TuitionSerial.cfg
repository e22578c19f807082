CONSTANTS
  r1 = r1
  r2 = r2
  r3 = r3
  r4 = r4
  word = word
  excel = excel
  Requests <- MCFourRequests
  MaxInFlight = 1
  Operations = {"pay", "enrPay", "add", "addPaid", "heal"}
  MaxEnrollments = 3
  Courses <- MCCourses
  FirstCourse <- word
  Price <- MCPrice
  Amounts = {0, 1, 2}
  RefundIds = {1, 2}
  FaultKinds = {"ledger", "crash"}
  MaxFaults = 2
SPECIFICATION Spec
SYMMETRY MCSymmetry
CHECK_DEADLOCK FALSE
INVARIANTS
  RootAgrees
  AmountAgrees
PROPERTIES
  HealLeavesNoOrphan
