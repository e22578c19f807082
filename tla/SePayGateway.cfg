CONSTANTS
  r1 = r1
  w1 = w1
  w2 = w2
  w3 = w3
  word = word
  excel = excel
  both = both
  code = code
  again = again
  bare = bare
  Requests <- MCOneRequest
  Webhooks <- MCTwoWebhooks
  MaxInFlight = 1
  Operations = {"pay", "enrPay", "void"}
  FaultKinds = {"hookLedger", "hookLostReply", "hookCrash", "replay"}
  MaxFaults = 2
  MaxEnrollments = 3
  Courses <- MCCourses
  FirstCourse <- word
  Price <- MCPrice
  Amounts = {0}
  RefundIds = {}
  Sessions <- MCSessions
  SessionOf <- MCSessionOf
  Transfers <- MCTransfers
  TransferOf <- MCTransferOf
SPECIFICATION SePaySpec
SYMMETRY MCSymmetry
CHECK_DEADLOCK FALSE
INVARIANTS
  SePayTypeOK
  MatchedIsBooked
  StudentMatchedOnce
  PaidSessionIsBooked
  NoDoublePayment
  BookedOnce
PROPERTY SettledIsBooked
