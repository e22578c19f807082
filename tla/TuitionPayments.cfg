CONSTANTS
  r1 = r1
  r2 = r2
  r3 = r3
  r4 = r4
  word = word
  excel = excel
  Requests <- MCFourRequests
  MaxInFlight = 4
  Operations = {"pay", "enrPay", "add", "addPaid", "void"}
  MaxEnrollments = 3
  Courses <- MCCourses
  FirstCourse <- word
  Price <- MCPrice
  Amounts = {0, 1, 2}
  RefundIds = {1, 2}
  FaultKinds = {}
  MaxFaults = 0
SPECIFICATION Spec
SYMMETRY MCSymmetry
CHECK_DEADLOCK FALSE
INVARIANTS
  BookedOnce
  PaidIsCollected
  SettledAtPrice
