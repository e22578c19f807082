CONSTANTS
  r1 = r1
  r2 = r2
  r3 = r3
  r4 = r4
  word = word
  excel = excel
  Requests <- MCThreeRequests
  MaxInFlight = 1
  Operations = {"pay", "refund"}
  MaxEnrollments = 2
  Courses <- MCCourses
  FirstCourse <- word
  Price <- MCPrice
  Amounts = {2}
  RefundIds = {1, 2}
  FaultKinds = {}
  MaxFaults = 0
SPECIFICATION Spec
SYMMETRY MCSymmetry
CHECK_DEADLOCK FALSE
INVARIANTS
  PaidIsCollected
