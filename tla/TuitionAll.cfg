CONSTANTS
  r1 = r1
  r2 = r2
  r3 = r3
  r4 = r4
  word = word
  excel = excel
  Requests <- MCThreeRequests
  MaxInFlight = 2
  Operations = {"pay", "enrPay", "add", "addPaid", "refund", "cancel", "heal"}
  MaxEnrollments = 2
  Courses <- MCCourses
  FirstCourse <- word
  Price <- MCPrice
  Amounts = {0, 1, 2}
  RefundIds = {1, 2}
  FaultKinds = {"ledger", "lostReply", "heal", "creditNote", "crash"}
  MaxFaults = 2
SPECIFICATION Spec
SYMMETRY MCSymmetry
CHECK_DEADLOCK FALSE
INVARIANTS
  TypeOK
  PaidIsBooked
  NotesMatchRefunds
  RefundWasPaid
