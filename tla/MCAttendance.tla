----------------------------- MODULE MCAttendance -----------------------------
(* Instances of Attendance for TLC: two days, two times.                   *)
EXTENDS Attendance, TLC

CONSTANTS r1, r2, s1, s2, d1, d2, t1, t2

MCRequests  == {r1, r2}
MCSessions == {s1, s2}
MCDays      == {d1, d2}
MCTimes     == {t1, t2}
MCKinds     == Kinds \cup Takes \cup {"delete", "dispute", "other", "history"}
MCSymmetry  == Permutations(Requests) \cup Permutations(Sessions)
                 \cup Permutations(Days) \cup Permutations(Times)
=============================================================================
