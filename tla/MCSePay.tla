------------------------------ MODULE MCSePay ------------------------------
(* Instances of SePay for TLC: two payment sessions with the same ref, one *)
(* of which names the student, and transfers that quote the ref, the       *)
(* student's code (two of them), or both.                                  *)
EXTENDS SePay, TLC

CONSTANTS r1, w1, w2, w3, word, excel, both, code, again, bare

MCOneRequest == {r1}
MCTwoWebhooks == {w1, w2}
MCThreeWebhooks == {w1, w2, w3}
MCSymmetry == Permutations(Webhooks)

MCCourses == {word, excel}
MCPrice   == [c \in MCCourses |-> IF c = word THEN 2 ELSE 1]

MCSessions  == {1, 2}
MCLooseSession == {2}
MCNoSession == {}
MCSessionOf ==
  [s \in MCSessions |-> [ref |-> "ref", course |-> word, linked |-> (s = 1)]]

MCTransfers  == {both, code}
MCCodeTransfers == {code, again}
MCAllTransfers == {both, code, again}
MCBareTransfer == {bare}
MCTransferOf ==
  [t \in {both, code, again, bare} |->
     [amount |-> 2, ref |-> IF t \in {code, again} THEN "" ELSE "ref", code |-> (t # bare)]]
=============================================================================
