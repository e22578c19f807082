CONSTANTS
  r1 = r1
  w1 = w1
  w2 = w2
  w3 = w3
  word = word
  excel = excel
  both = both
  code = code
  again = again
  bare = bare
  Requests <- MCOneRequest
  Webhooks <- MCTwoWebhooks
  MaxInFlight = 1
  Operations = {"heal"}
  FaultKinds = {}
  MaxFaults = 0
  MaxEnrollments = 2
  Courses <- MCCourses
  FirstCourse <- word
  Price <- MCPrice
  Amounts = {0}
  RefundIds = {}
  Sessions <- MCSessions
  SessionOf <- MCSessionOf
  Transfers <- MCBareTransfer
  TransferOf <- MCTransferOf
SPECIFICATION SePaySpec
SYMMETRY MCSymmetry
CHECK_DEADLOCK FALSE
INVARIANTS
  NoDoublePayment
