CONSTANTS
  r1 = r1
  r2 = r2
  word = word
  Subjects <- MCSubjects
  Milestone <- MCSubjects
  Requests <- MCRequests
  Operations = {"start", "submit", "abandon", "practical"}
  MaxAttempts = 1
  MaxWrites = 0
SPECIFICATION ExamSpec
SYMMETRY MCSymmetry
CHECK_DEADLOCK FALSE
PROPERTY FailIsFinal
