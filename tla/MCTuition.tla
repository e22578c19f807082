----------------------------- MODULE MCTuition -----------------------------
(* Instances of Tuition for TLC: requests are interchangeable.             *)
EXTENDS Tuition, TLC

CONSTANTS r1, r2, r3, r4, word, excel

MCThreeRequests == {r1, r2, r3}
MCFourRequests  == {r1, r2, r3, r4}
MCTwoRequests   == {r1, r2}
MCSymmetry == Permutations(Requests)

MCCourses == {word, excel}
MCPrice   == [c \in MCCourses |-> IF c = word THEN 2 ELSE 1]
=============================================================================
