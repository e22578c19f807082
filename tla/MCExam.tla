------------------------------- MODULE MCExam -------------------------------
(* Instances of Exam for TLC: one subject, Word, opened by the exam room   *)
(* (MCNone) or by attendance (MCSubjects).                                 *)
EXTENDS Exam, TLC

CONSTANTS r1, r2, word

MCRequests == {r1, r2}
MCSymmetry == Permutations(Requests)
MCSubjects == {word}
MCNone     == {}
=============================================================================
