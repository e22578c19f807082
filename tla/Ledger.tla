------------------------------- MODULE Ledger -------------------------------
(***************************************************************************)
(* The append-only ledger (services/ledgerService.js) as operators on a    *)
(* function from idempotency keys to entries.  The unique index on the key *)
(* makes that function a faithful picture of the collection: a second      *)
(* create with the same key is rejected and the first entry is returned.   *)
(***************************************************************************)
EXTENDS Naturals, FiniteSetsExt

(* The reversal entry of a void is an adjustment, which no total counts; it *)
(* is left out.                                                            *)
NoEntry == [amount |-> 0, status |-> "none"]

Entry == [amount : Nat, status : {"none", "posted", "void"}]

Free(ledger, k)   == ledger[k].status = "none"
Posted(ledger, k) == ledger[k].status = "posted"

(* postEntry: insert, or keep what is there (created:false).               *)
PostEntry(ledger, k, amt) ==
  IF Free(ledger, k)
  THEN [ledger EXCEPT ![k] = [amount |-> amt, status |-> "posted"]]
  ELSE ledger

(* Operators called Bug... are mistakes the properties must notice.        *)
BugAccepts(ledger, k, amt) == TRUE

(* settlePayment accepts an existing entry only when it is still posted    *)
(* and carries the same amount; the enrollment is part of the key.         *)
Accepts(ledger, k, amt) ==
  Free(ledger, k) \/ (Posted(ledger, k) /\ ledger[k].amount = amt)

BugVoidEntry(ledger, k) == ledger

(* voidLedgerEntry: the status flips; the key stays taken.                 *)
VoidEntry(ledger, k) ==
  IF Posted(ledger, k)
  THEN [ledger EXCEPT ![k].status = "void"]
  ELSE ledger

(* sumFinancialRevenue: the posted amounts of one type; adjustments and    *)
(* void entries do not count.                                              *)
PostedTotal(ledger, K) ==
  MapThenSumSet(LAMBDA k : ledger[k].amount, {k \in K : Posted(ledger, k)})
=============================================================================
