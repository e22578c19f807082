CONSTANTS
  r1 = r1
  r2 = r2
  r3 = r3
  r4 = r4
  word = word
  excel = excel
  Requests <- MCThreeRequests
  MaxInFlight = 1
  Operations = {"enrPay", "cancel"}
  MaxEnrollments = 2
  Courses <- MCCourses
  FirstCourse <- word
  Price <- MCPrice
  Amounts = {0, 1, 2}
  RefundIds = {1, 2}
  FaultKinds = {"creditNote"}
  MaxFaults = 1
SPECIFICATION Spec
SYMMETRY MCSymmetry
CHECK_DEADLOCK FALSE
INVARIANTS
  CancelIsBooked
