CONSTANTS
  r1 = r1
  r2 = r2
  word = word
  Subjects <- MCSubjects
  Milestone <- MCNone
  Requests <- MCRequests
  Operations = {"start", "submit", "forfeit", "abandon", "soft", "practical", "blank", "lock", "unlock", "grade", "reset"}
  MaxAttempts = 2
  MaxWrites = 1
SPECIFICATION ExamSpec
SYMMETRY MCSymmetry
CHECK_DEADLOCK FALSE
INVARIANTS
  ExamTypeOK
  PassIsEarned
  AttemptKept
  GradedOnce
PROPERTY VerdictStands
