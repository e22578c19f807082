CONSTANTS
  r1 = r1
  r2 = r2
  s1 = s1
  s2 = s2
  d1 = d1
  d2 = d2
  t1 = t1
  t2 = t2
  Requests <- MCRequests
  Sessions <- MCSessions
  Days <- MCDays
  Times <- MCTimes
  Operations = {"create", "take", "direct"}
  Total = 3
  NewStatuses = {"scheduled", "completed"}
  Numbers = {1}
  MaxCredit = 0
  MaxEdits = 0
SPECIFICATION AttendanceSpec
SYMMETRY MCSymmetry
CHECK_DEADLOCK FALSE
INVARIANT RecountIsIdempotent
