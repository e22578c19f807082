CONSTANTS
  r1 = r1
  r2 = r2
  s1 = s1
  s2 = s2
  d1 = d1
  d2 = d2
  t1 = t1
  t2 = t2
  Requests <- MCRequests
  Sessions <- MCSessions
  Days <- MCDays
  Times <- MCTimes
  Operations <- MCKinds
  Total = 2
  NewStatuses = {"scheduled", "completed", "cancelled"}
  Numbers = {1}
  MaxCredit = 1
  MaxEdits = 1
SPECIFICATION AttendanceSpec
SYMMETRY MCSymmetry
CHECK_DEADLOCK FALSE
INVARIANTS
  AttendanceTypeOK
  TakenIsCounted
  LimitsHold
  NeverAhead
PROPERTY RejectedStays
