CONSTANTS
  r1 = r1
  w1 = w1
  w2 = w2
  w3 = w3
  word = word
  excel = excel
  both = both
  code = code
  again = again
  bare = bare
  Requests <- MCOneRequest
  Webhooks <- MCThreeWebhooks
  MaxInFlight = 1
  Operations = {"pay", "add", "heal"}
  FaultKinds = {"ledger", "lostReply", "crash", "heal", "hookLedger", "hookLostReply", "hookCrash", "replay"}
  MaxFaults = 2
  MaxEnrollments = 2
  Courses <- MCCourses
  FirstCourse <- word
  Price <- MCPrice
  Amounts = {0}
  RefundIds = {}
  Sessions <- MCLooseSession
  SessionOf <- MCSessionOf
  Transfers <- MCAllTransfers
  TransferOf <- MCTransferOf
SPECIFICATION SePaySpec
SYMMETRY MCSymmetry
CHECK_DEADLOCK FALSE
INVARIANTS
  StudentMatchedOnce
