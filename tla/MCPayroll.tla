------------------------------ MODULE MCPayroll ------------------------------
(* Instances of Payroll for TLC: at most two sessions and vouchers,        *)
(* flexible payments of one amount, one key a client may send.             *)
EXTENDS Payroll, TLC

CONSTANTS r1, r2, r3, k1

MCRequests2 == {r1, r2}
MCRequests3 == {r1, r2, r3}
MCKeys      == {k1}
MCSymmetry  == Permutations(Requests)
=============================================================================
