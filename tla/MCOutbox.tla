------------------------------ MODULE MCOutbox ------------------------------
(* Instances of Outbox for TLC: two workers are interchangeable.           *)
EXTENDS Outbox, TLC

CONSTANTS w1, w2

MCWorkers == {w1, w2}
Symmetry  == Permutations(MCWorkers)
=============================================================================
