--------------------------- MODULE PayrollProofs ---------------------------
(***************************************************************************)
(* Proofs about Payroll for every number of requests, sessions, vouchers   *)
(* and faults, and for all operations.                                     *)
(***************************************************************************)
EXTENDS Payroll, FiniteSetTheorems, TLAPS

-----------------------------------------------------------------------------
(* Types.                                                                  *)

Argument == [op : {"none"} \cup Payments \cup Others, key : Keys, pend : SUBSET Sessions,
             claimed : SUBSET Sessions, amount : Nat, voucher : {0} \cup Vouchers,
             read : {"none"} \cup Standing \cup Statuses, undone : BOOLEAN]

Places == {"idle"} \cup Steps \cup Outcomes

(* Sets of sessions are finite; those unpaid are sessions.                 *)
LEMMA SessionsCounted ==
  ASSUME NEW S \in SUBSET Sessions
  PROVE  Cardinality(S) \in Nat
  <1>1. MaxSessions \in Nat
    BY PayrollAssumption
  <1>2. IsFiniteSet(Sessions)
    BY <1>1, FS_Interval DEF Sessions
  <1> QED
    BY <1>2, FS_Subset, FS_CardinalityType

LEMMA UnpaidAreSessions ==
  ASSUME PayrollTypeOK
  PROVE  Unpaid \subseteq Sessions
  <1>1. MaxSessions \in Nat
    BY PayrollAssumption
  <1> QED
    BY <1>1 DEF Unpaid, PayrollTypeOK, Sessions

(* The empty locals and the first voucher are well typed.                  *)
LEMMA EmptyTyped == NoArg \in Argument /\ NoKey \in Keys /\ NoVoucher \in Voucher
  BY DEF NoArg, Argument, NoKey, Keys, NoVoucher, Voucher, Vouchers

(* A request that begins, and one that goes on with other locals, keeps    *)
(* the types of pc and arg.                                                *)
LEMMA LocalsTyped ==
  ASSUME PayrollTypeOK, NEW r \in Requests, NEW step \in Places, NEW a \in Argument,
         NEW op \in Payments \cup Others
  PROVE  /\ Goto(r, step) => pc' \in [Requests -> Places]
         /\ Note(r, a) => arg' \in [Requests -> Argument]
         /\ Begin(r, op, step, a) => pc' \in [Requests -> Places] /\ arg' \in [Requests -> Argument]
  <1>1. [a EXCEPT !.op = op] \in Argument
    BY DEF Argument
  <1> QED
    BY <1>1 DEF Goto, Note, Begin, PayrollTypeOK, Argument, Places

(* A fault is counted within its bound.                                    *)
LEMMA FaultsTyped ==
  ASSUME PayrollTypeOK
  PROVE  /\ \A kind : Fault(kind) => faults' \in 0..MaxFaults
         /\ NoFault => faults' \in 0..MaxFaults
  <1>1. MaxFaults \in Nat
    BY PayrollAssumption
  <1> QED
    BY <1>1 DEF Fault, NoFault, PayrollTypeOK

(* The operations of the ledger and of the vouchers keep their types.      *)
LEMMA LedgerTyped ==
  ASSUME PayrollTypeOK, NEW v, NEW amt \in Nat
  PROVE  /\ PostEntry(ledger, v, amt) \in [Vouchers -> Entry]
         /\ VoidEntry(ledger, v) \in [Vouchers -> Entry]
  <1>1. ledger \in [Vouchers -> Entry]
    BY DEF PayrollTypeOK
  <1>2. [amount |-> amt, status |-> "posted"] \in Entry
    BY DEF Entry
  <1>3. ASSUME NEW u \in Vouchers
        PROVE  [ledger[u] EXCEPT !.status = "void"] \in Entry
    BY <1>1 DEF Entry
  <1> QED
    BY <1>1, <1>2, <1>3 DEF PostEntry, VoidEntry

LEMMA VouchersTyped ==
  ASSUME PayrollTypeOK, NEW v, NEW new \in {"pending", "confirmed", "cancelled", "deleted"},
         SetTx(v, new)
  PROVE  tx' \in [Vouchers -> Voucher]
  <1>1. tx \in [Vouchers -> Voucher]
    BY DEF PayrollTypeOK
  <1>2. ASSUME NEW u \in Vouchers
        PROVE  [tx[u] EXCEPT !.status = new] \in Voucher
    BY <1>1 DEF Voucher, Statuses
  <1> QED
    BY <1>1, <1>2 DEF SetTx

(* A new voucher.                                                          *)
LEMMA NewVoucherTyped ==
  ASSUME PayrollTypeOK, NEW v \in Vouchers, NEW status \in {"pending", "confirmed"},
         NEW amt \in Nat, NEW key \in Keys
  PROVE  [tx EXCEPT ![v] = [status |-> status, amount |-> amt, key |-> key]]
           \in [Vouchers -> Voucher]
  <1>1. [status |-> status, amount |-> amt, key |-> key] \in Voucher
    BY DEF Voucher, Statuses
  <1> QED
    BY <1>1 DEF PayrollTypeOK

(* Requests on vouchers.                                                   *)
OnVoucher == {"confirmPost", "confirmUndo", "cancelSet", "cancelVoid", "delete", "effect", "close"}

(* A request that posts to the ledger or works on a voucher has one.       *)
VoucherKnown ==
  \A r \in Requests : pc[r] \in {"post", "cancelTx"} \cup OnVoucher => arg[r].voucher \in Vouchers

(* Every action keeps the types.                                           *)
LEMMA TypeStep ==
  ASSUME PayrollTypeOK, VoucherKnown, [PayrollNext]_pvars
  PROVE  PayrollTypeOK'
  <1> USE DEF Places, Steps, Outcomes, sessionVars, voucherVars
  <1>0. /\ held \in {0} \cup Sessions /\ paid \subseteq Sessions /\ standing \in Standing
        /\ marking \subseteq Sessions /\ prepaid \subseteq Sessions
        /\ tx \in [Vouchers -> Voucher] /\ ledger \in [Vouchers -> Entry]
        /\ payout \in [Vouchers -> {"none", "open", "closed"}]
        /\ pc \in [Requests -> Places] /\ arg \in [Requests -> Argument]
        /\ faults \in 0..MaxFaults /\ torn \subseteq Vouchers
    BY DEF PayrollTypeOK, Argument
  <1>1. ASSUME NEW r \in Requests, NEW op \in Payments,
               NEW key \in {NoKey} \cup (ClientKeys \X {{}}), PayStart(r, op, key)
        PROVE  PayrollTypeOK'
    <2>1. key \in Keys
      BY EmptyTyped DEF Keys
    <2>2. ASSUME NEW v \in Vouchers
          PROVE  [NoArg EXCEPT !.key = key, !.voucher = v] \in Argument
      BY <2>1, EmptyTyped DEF Argument
    <2>3. [NoArg EXCEPT !.key = key, !.read = standing] \in Argument
      BY <1>0, <2>1, EmptyTyped DEF Argument
    <2>4. KeyOf(key) \subseteq Vouchers
      BY DEF KeyOf
    <2>5. pc' \in [Requests -> Places] /\ arg' \in [Requests -> Argument]
      BY <1>1, <2>2, <2>3, <2>4, LocalsTyped DEF PayStart
    <2> QED
      BY <1>0, <1>1, <2>5 DEF PayStart, PayrollTypeOK, Argument
  <1>2. ASSUME NEW r \in Requests, NEW n \in Sessions, NEW amt \in Amounts, FlexFind(r, n, amt)
        PROVE  PayrollTypeOK'
    <2>1. Oldest(n) \in SUBSET Sessions /\ amt \in Nat
      BY UnpaidAreSessions, PayrollAssumption DEF Oldest
    <2>2. [arg[r] EXCEPT !.pend = Oldest(n), !.amount = amt] \in Argument
      BY <1>0, <2>1 DEF Argument
    <2>3. pc' \in [Requests -> Places] /\ arg' \in [Requests -> Argument]
      BY <1>0, <1>2, <2>2 DEF FlexFind, Goto, Note
    <2> QED
      BY <1>0, <1>2, <2>3 DEF FlexFind, PayrollTypeOK, Argument
  <1>3. ASSUME NEW r \in Requests, AllFind(r) PROVE PayrollTypeOK'
    <2>1. [arg[r] EXCEPT !.pend = Unpaid] \in Argument
      BY <1>0, UnpaidAreSessions DEF Argument
    <2>2. pc' \in [Requests -> Places] /\ arg' \in [Requests -> Argument]
      BY <1>0, <1>3, <2>1 DEF AllFind, Goto, Note
    <2> QED
      BY <1>0, <1>3, <2>2 DEF AllFind, PayrollTypeOK, Argument
  <1>4. ASSUME NEW r \in Requests, StudentFind(r) PROVE PayrollTypeOK'
    <2>1. StudentKey(r) \in Keys
      <3>1. arg[r].op \in Actions /\ Unpaid \in SUBSET Sessions /\ arg[r].key \in Keys
        BY <1>0, <1>4, UnpaidAreSessions DEF StudentFind, Argument
      <3> QED
        BY <3>1 DEF StudentKey, Keys
    <2>2. Unpaid \in SUBSET Sessions /\ Cardinality(Unpaid) \in Nat
      BY UnpaidAreSessions, SessionsCounted
    <2>3. [arg[r] EXCEPT !.pend = Unpaid, !.amount = Cardinality(Unpaid), !.key = StudentKey(r)]
            \in Argument
      BY <1>0, <2>1, <2>2 DEF Argument
    <2>4. pc' \in [Requests -> Places] /\ arg' \in [Requests -> Argument]
      BY <1>0, <1>4, <2>3 DEF StudentFind, Goto, Note
    <2> QED
      BY <1>0, <1>4, <2>4 DEF StudentFind, PayrollTypeOK, Argument
  <1>5. ASSUME NEW r \in Requests, StudentLook(r) PROVE PayrollTypeOK'
    <2>1. ASSUME NEW v \in Vouchers PROVE [arg[r] EXCEPT !.voucher = v] \in Argument
      BY <1>0 DEF Argument
    <2>2. pc' \in [Requests -> Places] /\ arg' \in [Requests -> Argument]
      BY <1>0, <1>5, <2>1 DEF StudentLook, Goto, Note, KeyOf
    <2> QED
      BY <1>0, <1>5, <2>2 DEF StudentLook, PayrollTypeOK, Argument
  <1>6. ASSUME NEW r \in Requests, Claim(r) PROVE PayrollTypeOK'
    <2>1. Claimable(r) \in SUBSET Sessions /\ Cardinality(Claimable(r)) \in Nat
      BY <1>0, SessionsCounted DEF Claimable, Argument
    <2>2. ASSUME NEW n \in Nat
          PROVE  [arg[r] EXCEPT !.claimed = Claimable(r), !.amount = n] \in Argument
      BY <1>0, <2>1 DEF Argument
    <2>3. arg' \in [Requests -> Argument]
      <3>1. (IF arg[r].op = "all" THEN Cardinality(Claimable(r)) ELSE arg[r].amount) \in Nat
        BY <1>0, <2>1 DEF Argument
      <3>2. [arg[r] EXCEPT !.claimed = Claimable(r),
                           !.amount = IF arg[r].op = "all" THEN Cardinality(Claimable(r)) ELSE @]
              \in Argument
        BY <1>0, <2>1, <3>1 DEF Argument
      <3> QED
        BY <1>0, <1>6, <3>2 DEF Claim, Note
    <2>4. pc' \in [Requests -> Places]
      BY <1>0, <1>6 DEF Claim, Goto
    <2>5. faults' \in 0..MaxFaults
      BY <1>6, FaultsTyped DEF Claim
    <2> QED
      BY <1>0, <1>6, <2>1, <2>3, <2>4, <2>5 DEF Claim, PayrollTypeOK, Argument
  <1>7. ASSUME NEW r \in Requests, Mark(r) PROVE PayrollTypeOK'
    <2>1. pc' \in [Requests -> Places] /\ standing' \in Standing
      BY <1>0, <1>7 DEF Mark, Goto, Standing, Actions
    <2>2. faults' \in 0..MaxFaults
      BY <1>7, FaultsTyped DEF Mark
    <2> QED
      BY <1>0, <1>7, <2>1, <2>2 DEF Mark, PayrollTypeOK, Argument
  <1>8. ASSUME NEW r \in Requests, Create(r) PROVE PayrollTypeOK'
    <2>1. GiveBack(r) \in Places
      BY DEF GiveBack
    <2>2. ASSUME NEW v \in Vouchers PROVE [arg[r] EXCEPT !.voucher = v] \in Argument
      BY <1>0 DEF Argument
    <2>3. pc' \in [Requests -> Places] /\ arg' \in [Requests -> Argument]
      BY <1>0, <1>8, <2>1, <2>2 DEF Create, Goto, Note, KeyOf
    <2>4. faults' \in 0..MaxFaults
      <3>1. NoFault \/ Fault("lost") \/ Fault("error")
        BY <1>8 DEF Create, NoFault
      <3> QED
        BY <3>1, FaultsTyped
    <2>5. arg[r].amount \in Nat /\ arg[r].key \in Keys
      BY <1>0 DEF Argument
    <2>6. tx' \in [Vouchers -> Voucher] /\ torn' \subseteq Vouchers
      <3>1. CASE KeyOf(arg[r].key) = {} /\ ~UNCHANGED tx
        <4>1. PICK v \in Vouchers :
                /\ tx' = [tx EXCEPT ![v] = [status |-> "confirmed", amount |-> arg[r].amount,
                                           key |-> arg[r].key]]
                /\ torn' = torn \/ torn' = torn \cup {v}
          BY <1>8, <3>1 DEF Create
        <4>2. tx' \in [Vouchers -> Voucher]
          BY <2>5, <4>1, NewVoucherTyped
        <4> QED
          BY <1>0, <4>1, <4>2
      <3>2. CASE ~(KeyOf(arg[r].key) = {} /\ ~UNCHANGED tx)
        <4>1. UNCHANGED tx /\ torn' \subseteq Vouchers
          BY <1>0, <1>8, <3>2 DEF Create
        <4> QED
          BY <1>0, <4>1
      <3> QED
        BY <3>1, <3>2
    <2> QED
      BY <1>0, <1>8, <2>3, <2>4, <2>6 DEF Create, PayrollTypeOK, Argument
  <1>9. ASSUME NEW r \in Requests, Post(r) PROVE PayrollTypeOK'
    <2>1. arg[r].voucher \in Vouchers /\ arg[r].amount \in Nat
      BY <1>0, <1>9 DEF Post, VoucherKnown, Argument
    <2>2. pc' \in [Requests -> Places]
      BY <1>0, <1>9 DEF Post, Goto, NotPosted
    <2>3. faults' \in 0..MaxFaults
      BY <1>9, FaultsTyped DEF Post
    <2>4. ledger' \in [Vouchers -> Entry] /\ torn' \subseteq Vouchers
      <3>1. PostEntry(ledger, arg[r].voucher, arg[r].amount) \in [Vouchers -> Entry]
        BY <2>1, LedgerTyped
      <3> QED
        BY <1>0, <1>9, <2>1, <3>1 DEF Post
    <2> QED
      BY <1>0, <1>9, <2>2, <2>3, <2>4 DEF Post, PayrollTypeOK, Argument
  <1>10. ASSUME NEW r \in Requests, CancelTx(r) PROVE PayrollTypeOK'
    <2>1. arg[r].voucher \in Vouchers
      BY <1>0, <1>10 DEF CancelTx, VoucherKnown
    <2>2. pc' \in [Requests -> Places]
      BY <1>0, <1>10 DEF CancelTx, Goto
    <2>3. faults' \in 0..MaxFaults
      BY <1>10, FaultsTyped DEF CancelTx
    <2>4. tx' \in [Vouchers -> Voucher] /\ torn' \subseteq Vouchers
      BY <1>0, <1>10, <2>1, VouchersTyped DEF CancelTx
    <2> QED
      BY <1>0, <1>10, <2>2, <2>3, <2>4 DEF CancelTx, PayrollTypeOK, Argument
  <1>11. ASSUME NEW r \in Requests, Release(r) PROVE PayrollTypeOK'
    <2>1. [arg[r] EXCEPT !.undone = TRUE] \in Argument
      BY <1>0 DEF Argument
    <2>2. pc' \in [Requests -> Places] /\ arg' \in [Requests -> Argument]
      BY <1>0, <1>11, <2>1 DEF Release, Goto, Note
    <2>3. faults' \in 0..MaxFaults
      BY <1>11, FaultsTyped DEF Release
    <2>4. torn' \subseteq Vouchers /\ paid' \subseteq Sessions
      BY <1>0, <1>11 DEF Release, Argument
    <2> QED
      BY <1>0, <1>11, <2>2, <2>3, <2>4 DEF Release, PayrollTypeOK, Argument
  <1>12. ASSUME NEW r \in Requests, NEW op \in Others, NEW step \in Places, NEW v \in Vouchers,
                NEW read \in {"none"} \cup Statuses, On(r, op, step, v, read)
         PROVE  /\ pc' \in [Requests -> Places] /\ arg' \in [Requests -> Argument]
                /\ torn' \subseteq Vouchers
    <2>1. tx[v].amount \in Nat
      BY <1>0 DEF Voucher
    <2>2. [NoArg EXCEPT !.voucher = v, !.read = read, !.amount = tx[v].amount] \in Argument
      BY <2>1, EmptyTyped DEF Argument
    <2> QED
      BY <1>0, <1>12, <2>2, LocalsTyped DEF On
  <1>13. ASSUME NEW r \in Requests, NEW v \in Vouchers, Confirm(r, v) PROVE PayrollTypeOK'
    <2>1. pc' \in [Requests -> Places] /\ arg' \in [Requests -> Argument] /\ torn' \subseteq Vouchers
      <3>1. CASE On(r, "confirm", "confirmPost", v, "none")
        BY <1>12, <3>1 DEF Others
      <3>2. CASE /\ Begin(r, "confirm", "failed", [NoArg EXCEPT !.voucher = v])
                 /\ torn' = torn \cup {v}
        <4>1. [NoArg EXCEPT !.voucher = v] \in Argument
          BY EmptyTyped DEF Argument
        <4> QED
          BY <1>0, <3>2, <4>1, LocalsTyped DEF Others
      <3> QED
        BY <1>13, <3>1, <3>2 DEF Confirm
    <2>2. tx' \in [Vouchers -> Voucher]
      BY <1>13, VouchersTyped DEF Confirm
    <2>3. faults' \in 0..MaxFaults
      BY <1>13, FaultsTyped DEF Confirm
    <2> QED
      BY <1>0, <1>13, <2>1, <2>2, <2>3 DEF Confirm, PayrollTypeOK, Argument
  <1>14. ASSUME NEW r \in Requests, NEW v \in Vouchers, Cancel(r, v) \/ Delete(r, v)
         PROVE  PayrollTypeOK'
    <2>1. pc' \in [Requests -> Places] /\ arg' \in [Requests -> Argument] /\ torn' \subseteq Vouchers
      BY <1>12, <1>14 DEF Cancel, Delete, Deletable, Others, Statuses
    <2> QED
      BY <1>0, <1>14, <2>1 DEF Cancel, Delete, PayrollTypeOK, Argument
  <1>15. ASSUME NEW r \in Requests, NEW v \in Vouchers, NEW op \in {"approve", "reject"},
                PayoutAdvance(r, v, op)
         PROVE  PayrollTypeOK'
    <2>1. pc' \in [Requests -> Places] /\ arg' \in [Requests -> Argument] /\ torn' \subseteq Vouchers
      BY <1>12, <1>15 DEF PayoutAdvance, Others
    <2> QED
      BY <1>0, <1>15, <2>1 DEF PayoutAdvance, PayrollTypeOK, Argument
  <1>16. ASSUME NEW r \in Requests, ConfirmPost(r) PROVE PayrollTypeOK'
    <2>1. arg[r].voucher \in Vouchers /\ arg[r].amount \in Nat
      BY <1>0, <1>16 DEF ConfirmPost, VoucherKnown, OnVoucher, Argument
    <2>2. pc' \in [Requests -> Places]
      BY <1>0, <1>16 DEF ConfirmPost, Goto
    <2>3. faults' \in 0..MaxFaults
      BY <1>16, FaultsTyped DEF ConfirmPost
    <2>4. ledger' \in [Vouchers -> Entry] /\ torn' \subseteq Vouchers
      <3>1. PostEntry(ledger, arg[r].voucher, arg[r].amount) \in [Vouchers -> Entry]
        BY <2>1, LedgerTyped
      <3> QED
        BY <1>0, <1>16, <2>1, <3>1 DEF ConfirmPost
    <2> QED
      BY <1>0, <1>16, <2>2, <2>3, <2>4 DEF ConfirmPost, PayrollTypeOK, Argument
  <1>17. ASSUME NEW r \in Requests, ConfirmUndo(r) PROVE PayrollTypeOK'
    <2>1. arg[r].voucher \in Vouchers
      BY <1>0, <1>17 DEF ConfirmUndo, VoucherKnown, OnVoucher
    <2>2. pc' \in [Requests -> Places]
      BY <1>0, <1>17 DEF ConfirmUndo, Goto
    <2>3. faults' \in 0..MaxFaults
      BY <1>17, FaultsTyped DEF ConfirmUndo
    <2>4. tx' \in [Vouchers -> Voucher] /\ torn' \subseteq Vouchers
      BY <1>0, <1>17, <2>1, VouchersTyped DEF ConfirmUndo
    <2> QED
      BY <1>0, <1>17, <2>2, <2>3, <2>4 DEF ConfirmUndo, PayrollTypeOK, Argument
  <1>18. ASSUME NEW r \in Requests, CancelSet(r) \/ DeleteTx(r) PROVE PayrollTypeOK'
    <2>1. pc' \in [Requests -> Places]
      BY <1>0, <1>18 DEF CancelSet, DeleteTx, Goto
    <2>2. tx' \in [Vouchers -> Voucher]
      BY <1>0, <1>18, VouchersTyped DEF CancelSet, DeleteTx
    <2>3. faults' \in 0..MaxFaults
      BY <1>0, <1>18, FaultsTyped DEF CancelSet, DeleteTx
    <2>4. torn' \subseteq Vouchers
      BY <1>0, <1>18 DEF CancelSet, DeleteTx, VoucherKnown, OnVoucher
    <2> QED
      BY <1>0, <1>18, <2>1, <2>2, <2>3, <2>4 DEF CancelSet, DeleteTx, PayrollTypeOK, Argument
  <1>19. ASSUME NEW r \in Requests, CancelVoid(r) PROVE PayrollTypeOK'
    <2>1. arg[r].voucher \in Vouchers
      BY <1>0, <1>19 DEF CancelVoid, VoucherKnown, OnVoucher
    <2>2. pc' \in [Requests -> Places]
      BY <1>0, <1>19 DEF CancelVoid, Goto
    <2>3. faults' \in 0..MaxFaults
      BY <1>19, FaultsTyped DEF CancelVoid
    <2>4. ledger' \in [Vouchers -> Entry] /\ torn' \subseteq Vouchers
      <3>1. 0 \in Nat
        OBVIOUS
      <3> QED
        BY <1>0, <1>19, <2>1, <3>1, LedgerTyped DEF CancelVoid
    <2> QED
      BY <1>0, <1>19, <2>2, <2>3, <2>4 DEF CancelVoid, PayrollTypeOK, Argument
  <1>20. ASSUME NEW r \in Requests, PayoutEffect(r) PROVE PayrollTypeOK'
    <2>1. arg[r].voucher \in Vouchers
      BY <1>0, <1>20 DEF PayoutEffect, VoucherKnown, OnVoucher
    <2>2. pc' \in [Requests -> Places]
      BY <1>0, <1>20 DEF PayoutEffect, Goto
    <2>3. tx' \in [Vouchers -> Voucher] /\ torn' \subseteq Vouchers
      BY <1>0, <1>20, <2>1, VouchersTyped DEF PayoutEffect
    <2> QED
      BY <1>0, <1>20, <2>2, <2>3 DEF PayoutEffect, PayrollTypeOK, Argument
  <1>21. ASSUME NEW r \in Requests, PayoutClose(r) PROVE PayrollTypeOK'
    <2>1. pc' \in [Requests -> Places] /\ payout' \in [Vouchers -> {"none", "open", "closed"}]
      BY <1>0, <1>21 DEF PayoutClose, Goto
    <2> QED
      BY <1>0, <1>21, <2>1 DEF PayoutClose, PayrollTypeOK, Argument
  <1>22. ASSUME NEW v \in Vouchers, NEW amt \in Amounts, NewVoucher(v, amt) PROVE PayrollTypeOK'
    <2>1. tx' \in [Vouchers -> Voucher]
      BY <1>22, NewVoucherTyped, EmptyTyped, PayrollAssumption DEF NewVoucher
    <2> QED
      BY <1>0, <1>22, <2>1 DEF NewVoucher, PayrollTypeOK, Argument
  <1>23. ASSUME NEW v \in Vouchers, PayoutOpen(v) PROVE PayrollTypeOK'
    BY <1>0, <1>23 DEF PayoutOpen, PayrollTypeOK, Argument
  <1>28. ASSUME NEW v \in Vouchers, LedgerVoid(v) PROVE PayrollTypeOK'
    <2>1. ledger' \in [Vouchers -> Entry] /\ torn' \subseteq Vouchers
      <3>1. 0 \in Nat
        OBVIOUS
      <3> QED
        BY <1>0, <1>28, <3>1, LedgerTyped DEF LedgerVoid
    <2> QED
      BY <1>0, <1>28, <2>1 DEF LedgerVoid, PayrollTypeOK, Argument
  <1>24. CASE Complete
    <2>1. held + 1 \in Sessions
      BY <1>0, <1>24, PayrollAssumption DEF Complete, Sessions
    <2> QED
      BY <1>0, <1>24, <2>1 DEF Complete, PayrollTypeOK, Argument
  <1>25. ASSUME NEW s \in Sessions, MarkPrepaid(s) PROVE PayrollTypeOK'
    BY <1>0, <1>25 DEF MarkPrepaid, PayrollTypeOK, Argument
  <1>26. CASE Crash
    <2>1. pc' \in [Requests -> Places]
      BY <1>0, <1>26 DEF Crash
    <2>2. faults' \in 0..MaxFaults
      BY <1>26, FaultsTyped DEF Crash
    <2> QED
      BY <1>0, <1>26, <2>1, <2>2 DEF Crash, PayrollTypeOK, Argument
  <1>27. CASE UNCHANGED pvars
    BY <1>0, <1>27 DEF pvars, PayrollTypeOK, Argument
  <1> QED
    BY <1>1, <1>2, <1>3, <1>4, <1>5, <1>6, <1>7, <1>8, <1>9, <1>10, <1>11, <1>13, <1>14, <1>15,
       <1>16, <1>17, <1>18, <1>19, <1>20, <1>21, <1>22, <1>23, <1>24, <1>25, <1>26, <1>27,
       <1>28 DEF PayrollNext

-----------------------------------------------------------------------------
(* Claims.  Before its claim a request has claimed nothing, undone nothing *)
(* and has no voucher.                                                     *)
Early(r) == pc[r] \in {"idle", "find", "look", "claim"}

(* A request claims sessions it has read.                                  *)
ClaimsAreRead ==
  \A r \in Requests :
    /\ arg[r].claimed \subseteq arg[r].pend
    /\ Early(r) => arg[r].claimed = {} /\ ~arg[r].undone
    /\ Early(r) \/ pc[r] \in {"mark", "create"} => arg[r].voucher = 0

(* Requests on vouchers claim no sessions; a payment for the student       *)
(* releases its sessions before it cancels its voucher.                    *)
UndoneInOrder ==
  \A r \in Requests :
    /\ pc[r] \in OnVoucher => arg[r].claimed = {}
    /\ pc[r] = "cancelTx" /\ arg[r].op \in Actions => arg[r].undone

(* What was claimed is paid still, or was released by a payment that had   *)
(* read it and was undone.                                                 *)
Released(s) == \E u \in Requests : arg[u].undone /\ s \in arg[u].pend

ClaimedIsPaid ==
  \A r \in Requests : \A s \in arg[r].claimed : s \in paid \/ Released(s)

(* Every paid session belongs to a payment that was neither undone nor     *)
(* failed.                                                                 *)
Stands(r, s) == s \in arg[r].claimed /\ ~arg[r].undone /\ pc[r] # "failed"

PaidStands == \A s \in paid \ prepaid : \E r \in Requests : Stands(r, s)

ClaimsInv ==
  /\ ClaimsAreRead /\ UndoneInOrder /\ ClaimedIsPaid /\ ClaimedOnce /\ PaidStands

(* A step in which request r claims and releases nothing, and the places   *)
(* it may take r to.                                                       *)
QuietFor(r) ==
  /\ arg[r]'.claimed = arg[r].claimed
  /\ arg[r]'.undone <=> arg[r].undone
  /\ arg[r]'.pend = arg[r].pend \/ Early(r)
  /\ Early(r)' => Early(r)
  /\ Early(r)' \/ pc[r]' \in {"mark", "create"} => arg[r]'.voucher = 0
  /\ pc[r]' \in OnVoucher => arg[r].claimed = {}
  /\ pc[r]' = "cancelTx" /\ arg[r]'.op \in Actions => arg[r].undone
  /\ pc[r]' = "failed" => pc[r] = "failed" \/ arg[r].claimed = {} \/ arg[r].undone

Quiet == paid' = paid /\ prepaid' = prepaid /\ \A r \in Requests : QuietFor(r)

LEMMA QuietStep ==
  ASSUME ClaimsInv, Quiet
  PROVE  ClaimsInv'
  <1>1. ClaimsAreRead'
    BY DEF ClaimsInv, ClaimsAreRead, Quiet, QuietFor
  <1>2. UndoneInOrder'
    BY DEF ClaimsInv, UndoneInOrder, Quiet, QuietFor
  <1>3. \A s : Released(s)' <=> Released(s)
    BY DEF ClaimsInv, ClaimsAreRead, Quiet, QuietFor, Released
  <1>4. ClaimedIsPaid'
    BY <1>3 DEF ClaimsInv, ClaimedIsPaid, Quiet, QuietFor
  <1>5. ClaimedOnce'
    <2>1. ClaimedOnce <=> \A r, q \in Requests : r # q =>
                            \A s \in arg[r].claimed \cap arg[q].claimed : Released(s)
      BY DEF ClaimedOnce, Released
    <2>2. ClaimedOnce' <=> \A r, q \in Requests : r # q =>
                             \A s \in arg'[r].claimed \cap arg'[q].claimed : Released(s)'
      BY DEF ClaimedOnce, Released
    <2> QED
      BY <1>3, <2>1, <2>2 DEF ClaimsInv, Quiet, QuietFor
  <1>6. PaidStands'
    BY DEF ClaimsInv, PaidStands, Stands, Quiet, QuietFor
  <1> QED
    BY <1>1, <1>2, <1>4, <1>5, <1>6 DEF ClaimsInv

(* The claim.                                                              *)
LEMMA ClaimStep ==
  ASSUME PayrollTypeOK, ClaimsInv, NEW r \in Requests, Claim(r)
  PROVE  ClaimsInv'
  <1> DEFINE got == Claimable(r)
  <1>1. /\ pc[r] = "claim"
        /\ paid' = paid \cup got
        /\ UNCHANGED prepaid
        /\ \A q \in Requests \ {r} : arg'[q] = arg[q] /\ pc'[q] = pc[q]
        /\ arg'[r].claimed = got /\ arg'[r].pend = arg[r].pend /\ arg'[r].op = arg[r].op
        /\ arg'[r].voucher = arg[r].voucher
        /\ arg'[r].undone = arg[r].undone
        /\ pc'[r] \in {"refused", "mark", "create", "kept"}
        /\ pc'[r] = "refused" => got = {}
    BY DEF Claim, Goto, Note, PayrollTypeOK, sessionVars, voucherVars
  <1>2. got \subseteq arg[r].pend /\ got \cap paid = {}
    BY DEF Claimable
  <1>3. arg[r].claimed = {} /\ ~arg[r].undone /\ arg[r].voucher = 0
    BY <1>1 DEF ClaimsInv, ClaimsAreRead, Early
  <1> HIDE DEF got
  <1>4. ClaimsAreRead'
    BY <1>1, <1>2, <1>3 DEF ClaimsInv, ClaimsAreRead, Early
  <1>5. UndoneInOrder'
    BY <1>1 DEF ClaimsInv, UndoneInOrder, OnVoucher
  <1>6. \A s : Released(s)' <=> Released(s)
    BY <1>1, <1>3 DEF Released
  <1>7. ClaimedIsPaid'
    BY <1>1, <1>6 DEF ClaimsInv, ClaimedIsPaid
  <1>8. ClaimedOnce'
    <2> SUFFICES ASSUME NEW p \in Requests, NEW q \in Requests, p # q,
                        NEW s \in arg'[p].claimed \cap arg'[q].claimed
                 PROVE  Released(s)'
      BY DEF ClaimedOnce, Released
    <2>1. CASE p # r /\ q # r
      BY <1>1, <1>6, <2>1 DEF ClaimsInv, ClaimedOnce, Released
    <2>2. CASE p = r \/ q = r
      <3>1. PICK u \in Requests \ {r} : s \in arg[u].claimed /\ s \in got
        BY <1>1, <2>2
      <3>2. s \notin paid
        BY <1>2, <3>1
      <3> QED
        BY <1>6, <3>1, <3>2 DEF ClaimsInv, ClaimedIsPaid
    <2> QED
      BY <2>1, <2>2
  <1>9. PaidStands'
    <2> SUFFICES ASSUME NEW s \in paid' \ prepaid' PROVE \E q \in Requests : Stands(q, s)'
      BY DEF PaidStands
    <2>1. CASE s \in got
      BY <1>1, <1>3, <2>1 DEF Stands
    <2>2. CASE s \notin got
      <3>1. PICK q \in Requests : Stands(q, s)
        BY <1>1, <2>2 DEF ClaimsInv, PaidStands
      <3> QED
        BY <1>1, <1>3, <3>1 DEF Stands
    <2> QED
      BY <2>1, <2>2
  <1> QED
    BY <1>4, <1>5, <1>7, <1>8, <1>9 DEF ClaimsInv

(* The release.                                                            *)
LEMMA ReleaseStep ==
  ASSUME PayrollTypeOK, ClaimsInv, NEW r \in Requests, Release(r)
  PROVE  ClaimsInv'
  <1>1. CASE pc'[r] = "kept"
    <2>1. \A q \in Requests : arg'[q] = arg[q] /\ pc'[q] = IF q = r THEN "kept" ELSE pc[q]
      BY <1>1 DEF Release, Goto, PayrollTypeOK
    <2>2. Quiet
      BY <1>1, <2>1 DEF Release, Goto, PayrollTypeOK, Quiet, QuietFor, Early, OnVoucher,
                        ClaimsInv, ClaimsAreRead, UndoneInOrder
    <2> QED
      BY <2>2, QuietStep
  <1>2. CASE pc'[r] # "kept"
    <2>1. /\ pc[r] = "release" /\ pc'[r] \in {"cancelTx", "failed"}
          /\ paid' = paid \ arg[r].pend
          /\ UNCHANGED prepaid
          /\ \A q \in Requests \ {r} : arg'[q] = arg[q] /\ pc'[q] = pc[q]
          /\ arg'[r].claimed = arg[r].claimed /\ arg'[r].pend = arg[r].pend
          /\ arg'[r].undone
      BY <1>2 DEF Release, Goto, Note, PayrollTypeOK
    <2>2. ClaimsAreRead'
      BY <2>1 DEF ClaimsInv, ClaimsAreRead, Early
    <2>3. UndoneInOrder'
      BY <2>1 DEF ClaimsInv, UndoneInOrder, OnVoucher
    <2>4. \A s : Released(s) \/ s \in arg[r].pend => Released(s)'
      BY <2>1 DEF Released
    <2>5. ClaimedIsPaid'
      BY <2>1, <2>4 DEF ClaimsInv, ClaimedIsPaid
    <2>6. ClaimedOnce'
      <3> SUFFICES ASSUME NEW p \in Requests, NEW q \in Requests, p # q,
                          NEW s \in arg'[p].claimed \cap arg'[q].claimed
                   PROVE  Released(s)'
        BY DEF ClaimedOnce, Released
      <3>1. s \in arg[p].claimed \cap arg[q].claimed
        BY <2>1
      <3>2. Released(s)
        BY <3>1 DEF ClaimsInv, ClaimedOnce, Released
      <3> QED
        BY <2>4, <3>2
    <2>7. PaidStands'
      <3> SUFFICES ASSUME NEW s \in paid' \ prepaid' PROVE \E q \in Requests : Stands(q, s)'
        BY DEF PaidStands
      <3>1. PICK q \in Requests : Stands(q, s)
        BY <2>1 DEF ClaimsInv, PaidStands
      <3>2. q # r
        BY <2>1, <3>1 DEF Stands, ClaimsInv, ClaimsAreRead
      <3> QED
        BY <2>1, <3>1, <3>2 DEF Stands
    <2> QED
      BY <2>2, <2>3, <2>5, <2>6, <2>7 DEF ClaimsInv
  <1> QED
    BY <1>1, <1>2

(* A request that does not move is quiet; so a step is when the request    *)
(* that takes it is.                                                       *)
LEMMA OthersQuiet ==
  ASSUME ClaimsInv, UNCHANGED <<paid, prepaid>>, NEW r \in Requests, QuietFor(r),
         \A q \in Requests \ {r} : pc'[q] = pc[q] /\ arg'[q] = arg[q]
  PROVE  Quiet
  <1>1. ASSUME NEW q \in Requests \ {r} PROVE QuietFor(q)
    BY DEF ClaimsInv, ClaimsAreRead, UndoneInOrder, QuietFor, Early
  <1> QED
    BY <1>1 DEF Quiet

(* Every action keeps the invariants of the claims.                        *)
LEMMA ClaimsStep ==
  ASSUME PayrollTypeOK, ClaimsInv, [PayrollNext]_pvars
  PROVE  ClaimsInv'
  <1>0. /\ pc \in [Requests -> Places] /\ arg \in [Requests -> Argument]
        /\ \A r \in Requests : arg[r] \in Argument
    BY DEF PayrollTypeOK, Argument, Places
  <1>a. \A r \in Requests :
          /\ Early(r) => arg[r].claimed = {} /\ arg[r].undone = FALSE /\ arg[r].voucher = 0
          /\ pc[r] \in {"mark", "create"} => arg[r].voucher = 0
          /\ pc[r] \in OnVoucher => arg[r].claimed = {}
    BY <1>0 DEF ClaimsInv, ClaimsAreRead, UndoneInOrder, Early, Argument
  <1>b. \A r \in Requests : arg[r].claimed \subseteq arg[r].pend
    BY DEF ClaimsInv, ClaimsAreRead
  <1>c. \A r \in Requests : pc[r] = "cancelTx" /\ arg[r].op \in Actions => arg[r].undone
    BY DEF ClaimsInv, UndoneInOrder
  <1> USE DEF sessionVars, voucherVars
  <1>1. ASSUME NEW r \in Requests, NEW op \in Payments,
               NEW key \in {NoKey} \cup (ClientKeys \X {{}}), PayStart(r, op, key)
        PROVE  Quiet
    <2>1. \A q \in Requests \ {r} : pc'[q] = pc[q] /\ arg'[q] = arg[q]
      BY <1>0, <1>1 DEF PayStart, Begin, Goto, Note
    <2>2. pc[r] = "idle" /\ pc'[r] \in {"repeat", "find"}
      BY <1>0, <1>1 DEF PayStart, Begin, Goto
    <2>3. ASSUME NEW a, arg' = [arg EXCEPT ![r] = a] PROVE arg'[r] = a
      BY <1>0, <2>3
    <2>4. arg'[r].claimed = {} /\ arg'[r].undone = FALSE /\ (pc'[r] = "find" => arg'[r].voucher = 0)
      BY <1>0, <1>1, <2>3 DEF PayStart, Begin, Goto, Note, NoArg
    <2>9. QuietFor(r)
      BY <1>0, <1>1, <1>a, <2>2, <2>4 DEF QuietFor, Early, OnVoucher
    <2> QED
      BY <1>1, <2>1, <2>9, OthersQuiet DEF PayStart
  <1>2. ASSUME NEW r \in Requests, NEW n \in Sessions, NEW amt \in Amounts, FlexFind(r, n, amt)
        PROVE  Quiet
    <2>1. \A q \in Requests \ {r} : pc'[q] = pc[q] /\ arg'[q] = arg[q]
      BY <1>0, <1>2 DEF FlexFind, Goto, Note
    <2>9. QuietFor(r)
      BY <1>0, <1>2, <1>a DEF FlexFind, Goto, Note, Argument, QuietFor, Early, OnVoucher
    <2> QED
      BY <1>2, <2>1, <2>9, OthersQuiet DEF FlexFind
  <1>3. ASSUME NEW r \in Requests, AllFind(r)
        PROVE  Quiet
    <2>1. \A q \in Requests \ {r} : pc'[q] = pc[q] /\ arg'[q] = arg[q]
      BY <1>0, <1>3 DEF AllFind, Goto, Note
    <2>9. QuietFor(r)
      BY <1>0, <1>3, <1>a DEF AllFind, Goto, Note, Argument, QuietFor, Early, OnVoucher
    <2> QED
      BY <1>3, <2>1, <2>9, OthersQuiet DEF AllFind
  <1>4. ASSUME NEW r \in Requests, StudentFind(r)
        PROVE  Quiet
    <2>1. \A q \in Requests \ {r} : pc'[q] = pc[q] /\ arg'[q] = arg[q]
      BY <1>0, <1>4 DEF StudentFind, Goto, Note
    <2>2. pc[r] = "find" /\ pc'[r] \in {"refused", "look"}
      BY <1>0, <1>4 DEF StudentFind, Goto
    <2>3. ASSUME NEW S, NEW n, NEW k
          PROVE  LET a == [arg[r] EXCEPT !.pend = S, !.amount = n, !.key = k]
                 IN  /\ a.claimed = arg[r].claimed /\ a.undone = arg[r].undone
                     /\ a.voucher = arg[r].voucher
      BY <1>0 DEF Argument
    <2>4. /\ arg'[r].claimed = arg[r].claimed /\ arg'[r].undone = arg[r].undone
          /\ arg'[r].voucher = arg[r].voucher
      <3>1. UNCHANGED arg
            \/ arg' = [arg EXCEPT ![r] = [arg[r] EXCEPT !.pend = Unpaid, !.amount = Cardinality(Unpaid),
                                                       !.key = StudentKey(r)]]
        BY <1>4 DEF StudentFind, Note
      <3>2. CASE UNCHANGED arg
        BY <3>2
      <3>3. CASE ~UNCHANGED arg
        <4>1. arg'[r] = [arg[r] EXCEPT !.pend = Unpaid, !.amount = Cardinality(Unpaid),
                                      !.key = StudentKey(r)]
          BY <1>0, <3>1, <3>3
        <4> QED
          BY <2>3, <4>1
      <3> QED
        BY <3>2, <3>3
    <2>9. QuietFor(r)
      BY <1>a, <2>2, <2>4 DEF QuietFor, Early, OnVoucher
    <2> QED
      BY <1>4, <2>1, <2>9, OthersQuiet DEF StudentFind
  <1>5. ASSUME NEW r \in Requests, StudentLook(r)
        PROVE  Quiet
    <2>1. \A q \in Requests \ {r} : pc'[q] = pc[q] /\ arg'[q] = arg[q]
      BY <1>0, <1>5 DEF StudentLook, Goto, Note
    <2>9. QuietFor(r)
      BY <1>0, <1>5, <1>a DEF StudentLook, Goto, Note, Argument, QuietFor, Early, OnVoucher
    <2> QED
      BY <1>5, <2>1, <2>9, OthersQuiet DEF StudentLook
  <1>6. ASSUME NEW r \in Requests, Mark(r)
        PROVE  Quiet
    <2>1. \A q \in Requests \ {r} : pc'[q] = pc[q] /\ arg'[q] = arg[q]
      BY <1>0, <1>6 DEF Mark, Goto
    <2>9. QuietFor(r)
      BY <1>0, <1>6, <1>a DEF Mark, Goto, QuietFor, Early, OnVoucher
    <2> QED
      BY <1>6, <2>1, <2>9, OthersQuiet DEF Mark
  <1>7. ASSUME NEW r \in Requests, Create(r)
        PROVE  Quiet
    <2>1. \A q \in Requests \ {r} : pc'[q] = pc[q] /\ arg'[q] = arg[q]
      BY <1>0, <1>7 DEF Create, Goto, Note
    <2>2. pc'[r] \in {"post", "repeat", "release", "failed"}
          /\ (pc'[r] = "failed" => arg[r].claimed = {})
      BY <1>0, <1>7 DEF Create, Goto, GiveBack
    <2>3. arg'[r].claimed = arg[r].claimed /\ arg'[r].undone = arg[r].undone
          /\ arg'[r].pend = arg[r].pend
      BY <1>0, <1>7 DEF Create, Note, Argument
    <2>9. QuietFor(r)
      BY <1>0, <1>7, <2>2, <2>3 DEF QuietFor, Early, OnVoucher, Create
    <2> QED
      BY <1>7, <2>1, <2>9, OthersQuiet DEF Create
  <1>8. ASSUME NEW r \in Requests, Post(r)
        PROVE  Quiet
    <2>1. \A q \in Requests \ {r} : pc'[q] = pc[q] /\ arg'[q] = arg[q]
      BY <1>0, <1>8 DEF Post, Goto
    <2>9. QuietFor(r)
      BY <1>0, <1>8, <1>a DEF Post, Goto, NotPosted, QuietFor, Early, OnVoucher
    <2> QED
      BY <1>8, <2>1, <2>9, OthersQuiet DEF Post
  <1>9. ASSUME NEW r \in Requests, CancelTx(r)
        PROVE  Quiet
    <2>1. \A q \in Requests \ {r} : pc'[q] = pc[q] /\ arg'[q] = arg[q]
      BY <1>0, <1>9 DEF CancelTx, Goto
    <2>9. QuietFor(r)
      BY <1>0, <1>9, <1>b, <1>c DEF CancelTx, Goto, QuietFor, Early, OnVoucher
    <2> QED
      BY <1>9, <2>1, <2>9, OthersQuiet DEF CancelTx
  <1>10. ASSUME NEW r \in Requests, NEW op, NEW step \in OnVoucher, NEW v, NEW read,
                UNCHANGED <<paid, prepaid>>, On(r, op, step, v, read)
         PROVE  Quiet
    <2>1. pc[r] = "idle" /\ pc'[r] = step
          /\ \A q \in Requests \ {r} : pc'[q] = pc[q] /\ arg'[q] = arg[q]
      BY <1>0, <1>10 DEF On, Begin, Goto, Note
    <2>2. arg'[r].claimed = {} /\ arg'[r].undone = FALSE
      BY <1>0, <1>10 DEF On, Begin, Goto, Note, NoArg
    <2>3. QuietFor(r)
      BY <1>a, <2>1, <2>2 DEF QuietFor, Early, OnVoucher
    <2> QED
      BY <1>10, <2>1, <2>3, OthersQuiet
  <1>11. ASSUME NEW r \in Requests, NEW v \in Vouchers,
                Confirm(r, v) \/ Cancel(r, v) \/ Delete(r, v)
         PROVE  Quiet
    <2>1. CASE Begin(r, "confirm", "failed", [NoArg EXCEPT !.voucher = v]) /\ UNCHANGED <<paid, prepaid>>
      <3>1. pc[r] = "idle" /\ pc'[r] = "failed"
            /\ \A q \in Requests \ {r} : pc'[q] = pc[q] /\ arg'[q] = arg[q]
        BY <1>0, <2>1 DEF Begin, Goto, Note
      <3>2. arg'[r].claimed = {} /\ arg'[r].undone = FALSE
        BY <1>0, <2>1 DEF Begin, Goto, Note, NoArg
      <3>3. QuietFor(r)
        BY <1>a, <3>1, <3>2 DEF QuietFor, Early, OnVoucher
      <3> QED
        BY <2>1, <3>1, <3>3, OthersQuiet
    <2> QED
      BY <1>10, <1>11, <2>1 DEF Confirm, Cancel, Delete, OnVoucher, sessionVars
  <1>12. ASSUME NEW r \in Requests, NEW v \in Vouchers, NEW op \in {"approve", "reject"},
                PayoutAdvance(r, v, op)
         PROVE  Quiet
    BY <1>10, <1>12 DEF PayoutAdvance, OnVoucher, sessionVars
  <1>13. ASSUME NEW r \in Requests, ConfirmPost(r) \/ ConfirmUndo(r)
        PROVE  Quiet
    <2>1. \A q \in Requests \ {r} : pc'[q] = pc[q] /\ arg'[q] = arg[q]
      BY <1>0, <1>13 DEF ConfirmPost, ConfirmUndo, Goto
    <2>9. QuietFor(r)
      BY <1>0, <1>13, <1>a DEF ConfirmPost, ConfirmUndo, Goto, QuietFor, Early, OnVoucher
    <2> QED
      BY <1>13, <2>1, <2>9, OthersQuiet DEF ConfirmPost, ConfirmUndo
  <1>14. ASSUME NEW r \in Requests, CancelSet(r) \/ CancelVoid(r) \/ DeleteTx(r)
        PROVE  Quiet
    <2>1. \A q \in Requests \ {r} : pc'[q] = pc[q] /\ arg'[q] = arg[q]
      BY <1>0, <1>14 DEF CancelSet, CancelVoid, DeleteTx, Goto
    <2>9. QuietFor(r)
      BY <1>0, <1>14, <1>a DEF CancelSet, CancelVoid, DeleteTx, Goto, QuietFor, Early, OnVoucher
    <2> QED
      BY <1>14, <2>1, <2>9, OthersQuiet DEF CancelSet, CancelVoid, DeleteTx
  <1>15. ASSUME NEW r \in Requests, PayoutEffect(r) \/ PayoutClose(r)
        PROVE  Quiet
    <2>1. \A q \in Requests \ {r} : pc'[q] = pc[q] /\ arg'[q] = arg[q]
      BY <1>0, <1>15 DEF PayoutEffect, PayoutClose, Goto
    <2>9. QuietFor(r)
      BY <1>0, <1>15, <1>a DEF PayoutEffect, PayoutClose, Goto, QuietFor, Early, OnVoucher
    <2> QED
      BY <1>15, <2>1, <2>9, OthersQuiet DEF PayoutEffect, PayoutClose
  <1>16. (UNCHANGED <<paid, prepaid, pc, arg>>) => ClaimsInv'
    BY DEF ClaimsInv, ClaimsAreRead, UndoneInOrder, ClaimedIsPaid, ClaimedOnce, PaidStands,
           Released, Stands, Early
  <1>17. ASSUME \/ \E v \in Vouchers : \/ PayoutOpen(v) \/ LedgerVoid(v)
                                       \/ \E amt \in Amounts : NewVoucher(v, amt)
                \/ Complete \/ UNCHANGED pvars
         PROVE  ClaimsInv'
    BY <1>16, <1>17 DEF PayoutOpen, LedgerVoid, NewVoucher, Complete, pvars, sessionVars
  <1>18. ASSUME NEW s \in Sessions, MarkPrepaid(s) PROVE ClaimsInv'
    <2>1. UNCHANGED <<pc, arg>> /\ paid' = paid \cup {s} /\ prepaid' = prepaid \cup {s}
      BY <1>18 DEF MarkPrepaid
    <2>2. ClaimsAreRead' /\ UndoneInOrder' /\ ClaimedOnce'
      BY <2>1 DEF ClaimsInv, ClaimsAreRead, UndoneInOrder, ClaimedOnce, Early
    <2>3. ClaimedIsPaid'
      BY <2>1 DEF ClaimsInv, ClaimedIsPaid, Released
    <2>4. PaidStands'
      BY <2>1 DEF ClaimsInv, PaidStands, Stands
    <2> QED
      BY <2>2, <2>3, <2>4 DEF ClaimsInv
  <1>19. CASE Crash
    <2>1. \A q \in Requests : QuietFor(q)
      BY <1>0, <1>19, <1>a DEF Crash, QuietFor, Early, OnVoucher, Live, Steps
    <2> QED
      BY <1>19, <2>1, QuietStep DEF Crash, Quiet
  <1>21. (\E r \in Requests : Claim(r) \/ Release(r)) => ClaimsInv'
    BY ClaimStep, ReleaseStep
  <1> QED
    BY <1>1, <1>2, <1>3, <1>4, <1>5, <1>6, <1>7, <1>8, <1>9, <1>11, <1>12, <1>13, <1>14, <1>15,
       <1>17, <1>18, <1>19, <1>21, QuietStep DEF PayrollNext

-----------------------------------------------------------------------------
(* Vouchers and the ledger.  A voucher that is worked on, in a payout or   *)
(* in the ledger has been written, and has the amount of its entry.        *)
Written(v) == tx[v].status # "none"

RequestsWritten ==
  \A r \in Requests : Live(r) /\ arg[r].voucher # 0 => Written(arg[r].voucher)

EntriesWritten ==
  \A v \in Vouchers :
    /\ payout[v] = "open" => Written(v)
    /\ ~Free(ledger, v) => Written(v) /\ ledger[v].amount = tx[v].amount

(* What a request posts, and has posted, is the amount of its voucher.     *)
PostsAmount(r) ==
  pc[r] \in {"post", "confirmPost", "paid", "confirmed"} /\ arg[r].voucher # 0 =>
    /\ Written(arg[r].voucher)
    /\ arg[r].amount = tx[arg[r].voucher].amount
    /\ pc[r] \in {"paid", "confirmed"} => ~Free(ledger, arg[r].voucher)

AmountsKept == \A r \in Requests : PostsAmount(r)

VouchersInv == VoucherKnown /\ RequestsWritten /\ EntriesWritten /\ AmountsKept

(* Vouchers and entries are never rewritten.                               *)
TxKept == \A v \in Vouchers : Written(v) => Written(v)' /\ tx[v]'.amount = tx[v].amount

LedgerKept ==
  \A v \in Vouchers : ~Free(ledger, v) => ~Free(ledger', v) /\ ledger[v]'.amount = ledger[v].amount

LEMMA SetTxKeeps ==
  ASSUME PayrollTypeOK, NEW u, NEW new \in {"pending", "confirmed", "cancelled", "deleted"},
         SetTx(u, new)
  PROVE  TxKept
  <1>1. \A v \in Vouchers : tx[v] \in Voucher
    BY DEF PayrollTypeOK
  <1> QED
    BY <1>1 DEF SetTx, TxKept, Written, Voucher, PayrollTypeOK

LEMMA FreshKeeps ==
  ASSUME PayrollTypeOK, NEW u \in Vouchers, Fresh(u), NEW new, tx' = [tx EXCEPT ![u] = new]
  PROVE  TxKept
  BY DEF Fresh, TxKept, Written, PayrollTypeOK

LEMMA TxStep ==
  ASSUME PayrollTypeOK, [PayrollNext]_pvars
  PROVE  TxKept
  <1>1. UNCHANGED tx => TxKept
    BY DEF TxKept, Written
  <1>2. ASSUME NEW r \in Requests, Create(r) PROVE TxKept
    <2>1. UNCHANGED tx \/ \E v \in Vouchers : Fresh(v) /\ \E new : tx' = [tx EXCEPT ![v] = new]
      BY <1>2 DEF Create
    <2> QED
      BY <1>1, <2>1, FreshKeeps
  <1>3. ASSUME NEW v \in Vouchers, NEW amt, NewVoucher(v, amt) PROVE TxKept
    BY <1>3, FreshKeeps DEF NewVoucher
  <1>4. ASSUME NEW r \in Requests,
               CancelTx(r) \/ ConfirmUndo(r) \/ CancelSet(r) \/ DeleteTx(r) \/ PayoutEffect(r)
        PROVE  TxKept
    BY <1>1, <1>4, SetTxKeeps DEF CancelTx, ConfirmUndo, CancelSet, DeleteTx, PayoutEffect
  <1>5. ASSUME NEW r \in Requests, NEW v \in Vouchers, Confirm(r, v) PROVE TxKept
    BY <1>5, SetTxKeeps DEF Confirm
  <1>6. ASSUME NEW r \in Requests, NEW v \in Vouchers,
               Cancel(r, v) \/ Delete(r, v) \/ \E op \in {"approve", "reject"} : PayoutAdvance(r, v, op)
        PROVE  TxKept
    BY <1>1, <1>6 DEF Cancel, Delete, PayoutAdvance, voucherVars
  <1>7. ASSUME NEW r \in Requests,
               \/ \E op \in Payments, k \in {NoKey} \cup (ClientKeys \X {{}}) : PayStart(r, op, k)
               \/ \E n \in Sessions, amt \in Amounts : FlexFind(r, n, amt)
               \/ AllFind(r) \/ StudentFind(r) \/ StudentLook(r) \/ Claim(r) \/ Mark(r)
               \/ Post(r) \/ Release(r) \/ ConfirmPost(r) \/ CancelVoid(r) \/ PayoutClose(r)
        PROVE  UNCHANGED tx
    BY <1>7 DEF PayStart, FlexFind, AllFind, StudentFind, StudentLook, Claim, Mark, Post, Release,
                ConfirmPost, CancelVoid, PayoutClose, voucherVars
  <1>8. ASSUME \/ \E v \in Vouchers : PayoutOpen(v) \/ LedgerVoid(v)
               \/ Complete \/ \E s \in Sessions : MarkPrepaid(s)
               \/ Crash \/ UNCHANGED pvars
        PROVE  UNCHANGED tx
    BY <1>8 DEF PayoutOpen, LedgerVoid, Complete, MarkPrepaid, Crash, pvars, voucherVars
  <1> QED
    BY <1>1, <1>2, <1>3, <1>4, <1>5, <1>6, <1>7, <1>8 DEF PayrollNext

(* What the operations of the ledger do to its entries.                    *)
LEMMA PostKeeps ==
  ASSUME PayrollTypeOK, NEW u, NEW amt, ledger' = PostEntry(ledger, u, amt)
  PROVE  LedgerKept /\ \A v \in Vouchers \ {u} : ledger'[v] = ledger[v]
  <1>1. CASE Free(ledger, u)
    <2>1. \A v \in Vouchers \ {u} : ledger'[v] = ledger[v]
      BY <1>1 DEF PostEntry, PayrollTypeOK
    <2> QED
      BY <1>1, <2>1 DEF LedgerKept, Free
  <1>2. CASE ~Free(ledger, u)
    BY <1>2 DEF PostEntry, LedgerKept, Free
  <1> QED
    BY <1>1, <1>2

LEMMA VoidKeeps ==
  ASSUME PayrollTypeOK, NEW u, ledger' = VoidEntry(ledger, u)
  PROVE  /\ LedgerKept
         /\ \A v \in Vouchers : Free(ledger, v) => Free(ledger', v)
         /\ \A v \in Vouchers : Posted(ledger', v) => Posted(ledger, v) /\ v # u
  <1>1. CASE Posted(ledger, u)
    <2>1. \A v \in Vouchers : v # u => ledger'[v] = ledger[v]
      BY <1>1 DEF VoidEntry, PayrollTypeOK
    <2>2. u \in Vouchers => ledger[u] \in Entry /\ ledger'[u] = [ledger[u] EXCEPT !.status = "void"]
      BY <1>1 DEF VoidEntry, PayrollTypeOK
    <2>3. u \in Vouchers => ledger'[u].status = "void" /\ ledger'[u].amount = ledger[u].amount
      BY <2>2 DEF Entry
    <2> QED
      BY <1>1, <2>1, <2>3 DEF LedgerKept, Free, Posted
  <1>2. CASE ~Posted(ledger, u)
    BY <1>2 DEF VoidEntry, LedgerKept, Free, Posted
  <1> QED
    BY <1>1, <1>2

(* A posting.                                                              *)
LEMMA Posting ==
  ASSUME PayrollTypeOK, NEW u \in Vouchers, NEW amt,
         ledger' = PostEntry(ledger, u, amt)
  PROVE  /\ ~Free(ledger', u)
         /\ Free(ledger, u) => ledger'[u].amount = amt
         /\ Posted(ledger', u) <=> ~Voided(u)
  <1>1. ledger[u].status \in {"none", "posted", "void"}
    BY DEF PayrollTypeOK, Entry
  <1> QED
    BY <1>1 DEF PostEntry, Free, Posted, Voided, PayrollTypeOK

LEMMA LedgerStep ==
  ASSUME PayrollTypeOK, [PayrollNext]_pvars
  PROVE  LedgerKept
  <1>1. UNCHANGED ledger => LedgerKept
    BY DEF LedgerKept, Free
  <1>2. ASSUME NEW r \in Requests, Post(r) \/ ConfirmPost(r) PROVE LedgerKept
    BY <1>1, <1>2, PostKeeps DEF Post, ConfirmPost
  <1>3. ASSUME (\E r \in Requests : CancelVoid(r)) \/ \E v \in Vouchers : LedgerVoid(v)
        PROVE  LedgerKept
    BY <1>1, <1>3, VoidKeeps DEF CancelVoid, LedgerVoid
  <1>4. ASSUME NEW r \in Requests,
               \/ \E op \in Payments, k \in {NoKey} \cup (ClientKeys \X {{}}) : PayStart(r, op, k)
               \/ \E n \in Sessions, amt \in Amounts : FlexFind(r, n, amt)
               \/ AllFind(r) \/ StudentFind(r) \/ StudentLook(r) \/ Claim(r) \/ Mark(r)
               \/ Create(r) \/ CancelTx(r) \/ Release(r)
        PROVE  UNCHANGED ledger
    BY <1>4 DEF PayStart, FlexFind, AllFind, StudentFind, StudentLook, Claim, Mark, Create,
                CancelTx, Release, voucherVars
  <1>5. ASSUME NEW r \in Requests,
               \/ \E v \in Vouchers :
                    \/ Confirm(r, v) \/ Cancel(r, v) \/ Delete(r, v)
                    \/ \E op \in {"approve", "reject"} : PayoutAdvance(r, v, op)
               \/ ConfirmUndo(r) \/ CancelSet(r) \/ DeleteTx(r) \/ PayoutEffect(r) \/ PayoutClose(r)
        PROVE  UNCHANGED ledger
    BY <1>5 DEF Confirm, Cancel, Delete, PayoutAdvance, ConfirmUndo, CancelSet, DeleteTx,
                PayoutEffect, PayoutClose, voucherVars
  <1>6. ASSUME \/ \E v \in Vouchers : PayoutOpen(v) \/ \E amt \in Amounts : NewVoucher(v, amt)
               \/ Complete \/ \E s \in Sessions : MarkPrepaid(s)
               \/ Crash \/ UNCHANGED pvars
        PROVE  UNCHANGED ledger
    BY <1>6 DEF PayoutOpen, NewVoucher, Complete, MarkPrepaid, Crash, pvars, voucherVars
  <1> QED
    BY <1>1, <1>2, <1>3, <1>4, <1>5, <1>6 DEF PayrollNext

(* The steps of a request.                                                 *)
PaymentStep(r) ==
  \/ \E op \in Payments, k \in {NoKey} \cup (ClientKeys \X {{}}) : PayStart(r, op, k)
  \/ \E n \in Sessions, amt \in Amounts : FlexFind(r, n, amt)
  \/ AllFind(r) \/ StudentFind(r) \/ StudentLook(r)
  \/ Claim(r) \/ Mark(r) \/ Create(r) \/ Post(r) \/ CancelTx(r) \/ Release(r)

VoucherStart(r, v) ==
  \/ Confirm(r, v) \/ Cancel(r, v) \/ Delete(r, v)
  \/ \E op \in {"approve", "reject"} : PayoutAdvance(r, v, op)

VoucherStep(r) ==
  \/ ConfirmPost(r) \/ ConfirmUndo(r) \/ CancelSet(r) \/ CancelVoid(r) \/ DeleteTx(r)
  \/ PayoutEffect(r) \/ PayoutClose(r)

Unmoved(q) == pc[q]' = pc[q] /\ arg[q]' = arg[q]

LEMMA OneMoves ==
  ASSUME PayrollTypeOK, NEW r \in Requests, NEW q \in Requests \ {r},
         PaymentStep(r) \/ (\E v \in Vouchers : VoucherStart(r, v)) \/ VoucherStep(r)
  PROVE  Unmoved(q)
  <1>0. pc \in [Requests -> Places] /\ arg \in [Requests -> Argument]
    BY DEF PayrollTypeOK, Places, Argument
  <1>1. ASSUME NEW p, pc' = [pc EXCEPT ![r] = p],
               UNCHANGED arg \/ \E a : arg' = [arg EXCEPT ![r] = a]
        PROVE  Unmoved(q)
    BY <1>0, <1>1 DEF Unmoved
  <1>2. ASSUME PaymentStep(r)
        PROVE  /\ \E p : pc' = [pc EXCEPT ![r] = p]
               /\ UNCHANGED arg \/ \E a : arg' = [arg EXCEPT ![r] = a]
    <2>1. CASE \E op \in Payments, k \in {NoKey} \cup (ClientKeys \X {{}}) : PayStart(r, op, k)
      BY <2>1 DEF PayStart, Begin, Goto, Note
    <2>2. CASE \/ \E n \in Sessions, amt \in Amounts : FlexFind(r, n, amt)
               \/ AllFind(r) \/ StudentFind(r) \/ StudentLook(r)
      BY <2>2 DEF FlexFind, AllFind, StudentFind, StudentLook, Goto, Note
    <2>3. CASE Claim(r) \/ Mark(r)
      BY <2>3 DEF Claim, Mark, Goto, Note
    <2>4. CASE Create(r)
      BY <2>4 DEF Create, Goto, Note
    <2>5. CASE Post(r) \/ CancelTx(r) \/ Release(r)
      BY <2>5 DEF Post, CancelTx, Release, Goto, Note
    <2> QED
      BY <1>2, <2>1, <2>2, <2>3, <2>4, <2>5 DEF PaymentStep
  <1>3. ASSUME NEW v \in Vouchers, VoucherStart(r, v)
        PROVE  /\ \E p : pc' = [pc EXCEPT ![r] = p]
               /\ UNCHANGED arg \/ \E a : arg' = [arg EXCEPT ![r] = a]
    BY <1>3 DEF VoucherStart, Confirm, Cancel, Delete, PayoutAdvance, On, Begin, Goto, Note
  <1>4. ASSUME VoucherStep(r)
        PROVE  /\ \E p : pc' = [pc EXCEPT ![r] = p]
               /\ UNCHANGED arg \/ \E a : arg' = [arg EXCEPT ![r] = a]
    BY <1>4 DEF VoucherStep, ConfirmPost, ConfirmUndo, CancelSet, CancelVoid, DeleteTx,
                PayoutEffect, PayoutClose, Goto
  <1> QED
    BY <1>1, <1>2, <1>3, <1>4

(* The steps of the rest.                                                  *)
OtherStep ==
  \/ \E v \in Vouchers : (\E amt \in Amounts : NewVoucher(v, amt)) \/ PayoutOpen(v) \/ LedgerVoid(v)
  \/ Complete
  \/ \E s \in Sessions : MarkPrepaid(s)
  \/ UNCHANGED pvars

LEMMA NextSteps ==
  ASSUME [PayrollNext]_pvars
  PROVE  \/ \E r \in Requests : PaymentStep(r) \/ (\E v \in Vouchers : VoucherStart(r, v)) \/ VoucherStep(r)
         \/ OtherStep \/ Crash
  BY DEF PayrollNext, PaymentStep, VoucherStart, VoucherStep, OtherStep

LEMMA OthersMoveNobody ==
  ASSUME OtherStep
  PROVE  UNCHANGED <<pc, arg>>
  BY DEF OtherStep, NewVoucher, PayoutOpen, LedgerVoid, Complete, MarkPrepaid, pvars

(* A posting is of the amount of the voucher; nothing else adds an entry.  *)
LEMMA NewEntries ==
  ASSUME PayrollTypeOK, VouchersInv, [PayrollNext]_pvars,
         NEW v \in Vouchers, Free(ledger, v), ~Free(ledger', v)
  PROVE  Written(v)' /\ ledger'[v].amount = tx'[v].amount
  <1>1. ~UNCHANGED ledger
    OBVIOUS
  <1>2. ASSUME NEW r \in Requests, PaymentStep(r) PROVE Post(r)
    BY <1>1, <1>2 DEF PaymentStep, PayStart, FlexFind, AllFind, StudentFind, StudentLook, Claim, Mark,
                      Create, CancelTx, Release, voucherVars
  <1>3. ASSUME NEW r \in Requests, NEW u \in Vouchers PROVE ~VoucherStart(r, u)
    BY <1>1 DEF VoucherStart, Confirm, Cancel, Delete, PayoutAdvance, voucherVars
  <1>a. ASSUME NEW u, ledger' = VoidEntry(ledger, u) PROVE FALSE
    BY <1>a, VoidKeeps
  <1>4. ASSUME NEW r \in Requests, VoucherStep(r) PROVE ConfirmPost(r)
    <2>1. ~CancelVoid(r)
      BY <1>1, <1>a DEF CancelVoid
    <2> QED
      BY <1>1, <1>4, <2>1 DEF VoucherStep, ConfirmUndo, CancelSet, DeleteTx, PayoutEffect, PayoutClose,
                              voucherVars
  <1>5. ~OtherStep /\ ~Crash
    BY <1>1, <1>a DEF OtherStep, NewVoucher, PayoutOpen, LedgerVoid, Complete, MarkPrepaid, Crash, pvars,
                      voucherVars
  <1>6. PICK r \in Requests : Post(r) \/ ConfirmPost(r)
    BY <1>2, <1>3, <1>4, <1>5, NextSteps
  <1>7. ledger' = PostEntry(ledger, arg[r].voucher, arg[r].amount) /\ UNCHANGED tx
    BY <1>1, <1>6 DEF Post, ConfirmPost
  <1>8. arg[r].voucher \in Vouchers
    BY <1>6 DEF Post, ConfirmPost, VouchersInv, VoucherKnown, OnVoucher
  <1>9. v = arg[r].voucher
    BY <1>7, PostKeeps DEF Free
  <1>10. Written(v) /\ arg[r].amount = tx[v].amount
    <2>1. 0 \notin Vouchers
      BY PayrollAssumption DEF Vouchers
    <2> QED
      BY <1>6, <1>8, <1>9, <2>1 DEF Post, ConfirmPost, VouchersInv, AmountsKept, PostsAmount
  <1> QED
    BY <1>7, <1>8, <1>9, <1>10, Posting DEF Written

LEMMA EntriesStep ==
  ASSUME PayrollTypeOK, VouchersInv, [PayrollNext]_pvars
  PROVE  EntriesWritten'
  <1> SUFFICES ASSUME NEW v \in Vouchers
               PROVE  /\ payout'[v] = "open" => Written(v)'
                      /\ ~Free(ledger', v) => Written(v)' /\ ledger'[v].amount = tx'[v].amount
    BY DEF EntriesWritten, Free
  <1>1. TxKept /\ LedgerKept
    BY TxStep, LedgerStep
  <1>2. payout'[v] = "open" => payout[v] = "open" \/ Written(v)
    <2>0. payout \in [Vouchers -> {"none", "open", "closed"}]
      BY DEF PayrollTypeOK
    <2>1. ASSUME NEW u \in Vouchers, PayoutOpen(u), payout'[v] = "open"
          PROVE  payout[v] = "open" \/ Written(v)
      BY <2>0, <2>1 DEF PayoutOpen, Exists, Statuses, Written
    <2>2. ASSUME NEW r \in Requests, PayoutClose(r), payout'[v] = "open"
          PROVE  payout[v] = "open"
      BY <2>0, <2>2 DEF PayoutClose
    <2>3. ASSUME NEW r \in Requests, PaymentStep(r) PROVE UNCHANGED payout
      BY <2>3 DEF PaymentStep, PayStart, FlexFind, AllFind, StudentFind, StudentLook, Claim, Mark,
                  Create, Post, CancelTx, Release, voucherVars
    <2>4. ASSUME NEW r \in Requests, NEW u \in Vouchers, VoucherStart(r, u) PROVE UNCHANGED payout
      BY <2>4 DEF VoucherStart, Confirm, Cancel, Delete, PayoutAdvance, voucherVars
    <2>5. ASSUME NEW r \in Requests, VoucherStep(r), ~PayoutClose(r) PROVE UNCHANGED payout
      BY <2>5 DEF VoucherStep, ConfirmPost, ConfirmUndo, CancelSet, CancelVoid, DeleteTx, PayoutEffect
    <2>6. ASSUME OtherStep, ~\E u \in Vouchers : PayoutOpen(u) PROVE UNCHANGED payout
      BY <2>6 DEF OtherStep, NewVoucher, LedgerVoid, Complete, MarkPrepaid, pvars, voucherVars
    <2>7. Crash => UNCHANGED payout
      BY DEF Crash, voucherVars
    <2> QED
      BY <2>1, <2>2, <2>3, <2>4, <2>5, <2>6, <2>7, NextSteps
  <1>3. ~Free(ledger, v) => Written(v)' /\ ledger'[v].amount = tx'[v].amount
    BY <1>1 DEF VouchersInv, EntriesWritten, TxKept, LedgerKept
  <1>4. Written(v) => Written(v)'
    BY <1>1 DEF TxKept
  <1> QED
    BY <1>2, <1>3, <1>4, NewEntries DEF VouchersInv, EntriesWritten

(* What the invariants of the vouchers say of one request.                 *)
Good(r) ==
  /\ pc[r] \in {"post", "cancelTx"} \cup OnVoucher => arg[r].voucher \in Vouchers
  /\ Live(r) /\ arg[r].voucher # 0 => Written(arg[r].voucher)
  /\ PostsAmount(r)

LEMMA VouchersOfRequests ==
  VouchersInv <=> EntriesWritten /\ \A r \in Requests : Good(r)
  BY DEF VouchersInv, VoucherKnown, RequestsWritten, AmountsKept, Good

LEMMA UnmovedGood ==
  ASSUME PayrollTypeOK, TxKept, LedgerKept, NEW q \in Requests, Good(q), Unmoved(q)
  PROVE  Good(q)'
  <1>1. arg[q].voucher \in {0} \cup Vouchers
    BY DEF PayrollTypeOK
  <1> QED
    BY <1>1 DEF Good, Unmoved, Live, PostsAmount, TxKept, LedgerKept, Free, Written

(* One that has no voucher yet, or has ended without one, is good.         *)
LEMMA EarlyGood ==
  ASSUME ClaimsInv', NEW r \in Requests,
         pc'[r] \in {"idle", "find", "look", "claim", "mark", "create"} \cup (Outcomes \ {"paid", "confirmed"})
  PROVE  Good(r)'
  BY DEF ClaimsInv, ClaimsAreRead, Early, Good, Live, PostsAmount, OnVoucher, Steps, Outcomes

(* One that goes on with its voucher is good.                              *)
LEMMA GoesOnGood ==
  ASSUME PayrollTypeOK, TxKept, NEW r \in Requests, Good(r), Live(r),
         arg'[r].voucher = arg[r].voucher,
         pc'[r] \notin {"post", "confirmPost", "paid", "confirmed"},
         pc'[r] \in {"cancelTx"} \cup OnVoucher => arg[r].voucher # 0
  PROVE  Good(r)'
  <1>1. arg[r].voucher \in {0} \cup Vouchers
    BY DEF PayrollTypeOK
  <1> QED
    BY <1>1 DEF Good, PostsAmount, TxKept, Written


LEMMA PaymentGood ==
  ASSUME PayrollTypeOK, ClaimsInv, ClaimsInv', VouchersInv, [PayrollNext]_pvars,
         NEW r \in Requests, PaymentStep(r)
  PROVE  Good(r)'
  <1>0. pc \in [Requests -> Places] /\ arg \in [Requests -> Argument]
    BY DEF PayrollTypeOK, Places, Argument
  <1>1. TxKept /\ LedgerKept /\ Good(r)
    BY TxStep, LedgerStep, VouchersOfRequests
  <1>2. 0 \notin Vouchers
    BY PayrollAssumption DEF Vouchers
  <1>3. CASE \/ \E op \in Payments, k \in {NoKey} \cup (ClientKeys \X {{}}) : PayStart(r, op, k)
             \/ \E n \in Sessions, amt \in Amounts : FlexFind(r, n, amt)
             \/ AllFind(r) \/ StudentFind(r) \/ StudentLook(r)
    <2>1. pc'[r] \in {"repeat", "find", "create", "claim", "refused", "look", "mark"}
      <3>1. CASE \E op \in Payments, k \in {NoKey} \cup (ClientKeys \X {{}}) : PayStart(r, op, k)
        BY <1>0, <3>1 DEF PayStart, Begin, Goto
      <3> QED
        BY <1>0, <1>3, <3>1 DEF FlexFind, AllFind, StudentFind, StudentLook, Goto
    <2> QED
      BY <2>1, EarlyGood DEF Outcomes
  <1>4. CASE Claim(r)
    <2>1. pc'[r] \in {"refused", "mark", "create", "kept"}
      BY <1>0, <1>4 DEF Claim, Goto
    <2> QED
      BY <2>1, EarlyGood DEF Outcomes
  <1>5. CASE Mark(r)
    <2>1. pc'[r] \in {"paid", "create", "kept"} /\ arg'[r].voucher = 0
      BY <1>0, <1>5 DEF Mark, Goto, ClaimsInv, ClaimsAreRead
    <2>2. CASE pc'[r] = "paid"
      BY <2>1, <2>2 DEF Good, PostsAmount, OnVoucher, Live, Steps
    <2> QED
      BY <2>1, <2>2, EarlyGood DEF Outcomes
  <1>6. CASE Create(r)
    <2>1. pc[r] = "create" /\ Live(r)
      BY <1>6 DEF Create, Live, Steps
    <2>2. ASSUME NEW v \in Vouchers, Fresh(v),
                 tx' = [tx EXCEPT ![v] = [status |-> "confirmed", amount |-> arg[r].amount, key |-> arg[r].key]],
                 Goto(r, "post"), Note(r, [arg[r] EXCEPT !.voucher = v])
          PROVE  Good(r)'
      <3>1. pc'[r] = "post" /\ arg'[r].voucher = v /\ arg'[r].amount = arg[r].amount
        BY <1>0, <2>2 DEF Goto, Note, Argument
      <3>2. tx'[v].status = "confirmed" /\ tx'[v].amount = arg[r].amount
        BY <2>2 DEF PayrollTypeOK
      <3> QED
        BY <3>1, <3>2 DEF Good, PostsAmount, Written
    <2>3. CASE ~(pc'[r] = "post")
      <3>1. pc'[r] = "release" => UNCHANGED arg
        BY <1>0, <1>6, <2>3 DEF Create, Goto
      <3>2. pc'[r] \in {"release", "failed", "repeat"}
        BY <1>0, <1>6, <2>3 DEF Create, Goto, GiveBack
      <3>3. CASE pc'[r] = "release"
        BY <1>1, <2>1, <3>1, <3>3, GoesOnGood DEF OnVoucher
      <3> QED
        BY <3>2, <3>3, EarlyGood DEF Outcomes
    <2> QED
      <3>1. \/ \E v \in Vouchers :
                 /\ Fresh(v)
                 /\ tx' = [tx EXCEPT ![v] = [status |-> "confirmed", amount |-> arg[r].amount, key |-> arg[r].key]]
                 /\ Goto(r, "post") /\ Note(r, [arg[r] EXCEPT !.voucher = v])
            \/ \E p \in {"release", "failed", "repeat"} : Goto(r, p)
        BY <1>6 DEF Create, GiveBack
      <3>2. ASSUME NEW p \in {"release", "failed", "repeat"}, Goto(r, p) PROVE ~(pc'[r] = "post")
        BY <1>0, <3>2 DEF Goto
      <3> QED
        BY <2>2, <2>3, <3>1, <3>2
  <1>7. CASE Post(r)
    <2>1. pc[r] = "post" /\ Live(r) /\ arg'[r] = arg[r] /\ UNCHANGED tx /\ arg[r].voucher \in Vouchers
      BY <1>1, <1>7 DEF Post, Live, Steps, Good
    <2>2. CASE pc'[r] = "paid"
      <3>1. ledger' = PostEntry(ledger, arg[r].voucher, arg[r].amount)
        BY <1>0, <1>7, <2>2 DEF Post, Goto, NotPosted
      <3> QED
        BY <1>1, <1>2, <2>1, <2>2, <3>1, Posting DEF Good, PostsAmount, Written, Live
    <2>3. CASE pc'[r] # "paid"
      <3>1. pc'[r] \in {"release", "cancelTx"}
        BY <1>0, <1>7, <2>3 DEF Post, Goto, NotPosted
      <3> QED
        BY <1>1, <1>2, <2>1, <3>1, GoesOnGood DEF OnVoucher
    <2> QED
      BY <2>2, <2>3
  <1>8. CASE CancelTx(r) \/ Release(r)
    <2>1. Live(r) /\ arg'[r].voucher = arg[r].voucher
      BY <1>0, <1>8 DEF CancelTx, Release, Live, Steps, Note, Argument
    <2>2. pc'[r] \in {"failed", "release", "kept", "cancelTx"} /\ (pc'[r] = "cancelTx" => arg[r].voucher # 0)
      BY <1>0, <1>8 DEF CancelTx, Release, Goto
    <2>3. CASE pc'[r] \in {"release", "cancelTx"}
      BY <1>1, <2>1, <2>2, <2>3, GoesOnGood DEF OnVoucher
    <2> QED
      BY <2>2, <2>3, EarlyGood DEF Outcomes
  <1> QED
    BY <1>3, <1>4, <1>5, <1>6, <1>7, <1>8 DEF PaymentStep

LEMMA VoucherGood ==
  ASSUME PayrollTypeOK, ClaimsInv', VouchersInv, [PayrollNext]_pvars, NEW r \in Requests,
         (\E v \in Vouchers : VoucherStart(r, v)) \/ VoucherStep(r)
  PROVE  Good(r)'
  <1>0. pc \in [Requests -> Places] /\ arg \in [Requests -> Argument]
    BY DEF PayrollTypeOK, Places, Argument
  <1>1. TxKept /\ LedgerKept /\ Good(r)
    BY TxStep, LedgerStep, VouchersOfRequests
  <1>2. 0 \notin Vouchers
    BY PayrollAssumption DEF Vouchers
  <1>3. ASSUME NEW v \in Vouchers, VoucherStart(r, v) PROVE Good(r)'
    <2>1. Written(v)
      BY <1>3 DEF VoucherStart, Confirm, Cancel, Delete, Deletable, PayoutAdvance, Exists, Statuses, Written,
                  VouchersInv, EntriesWritten
    <2>4. CASE Begin(r, "confirm", "failed", [NoArg EXCEPT !.voucher = v])
      <3>1. pc'[r] = "failed"
        BY <1>0, <2>4 DEF Begin, Goto
      <3> QED
        BY <3>1, EarlyGood DEF Outcomes
    <2> SUFFICES ASSUME ~Begin(r, "confirm", "failed", [NoArg EXCEPT !.voucher = v])
                 PROVE  Good(r)'
      BY <2>4
    <2>2. PICK step \in {"confirmPost", "cancelSet", "delete", "effect"} :
            \E op, read : On(r, op, step, v, read)
      <3>1. ASSUME NEW op \in {"approve", "reject"}, PayoutAdvance(r, v, op)
            PROVE  On(r, op, "effect", v, "none")
        BY <3>1 DEF PayoutAdvance
      <3>2. \/ On(r, "confirm", "confirmPost", v, "none")
            \/ On(r, "cancel", "cancelSet", v, tx[v].status)
            \/ On(r, "delete", "delete", v, tx[v].status)
            \/ \E op \in {"approve", "reject"} : On(r, op, "effect", v, "none")
        BY <1>3, <3>1 DEF VoucherStart, Confirm, Cancel, Delete
      <3> QED
        BY <3>2
    <2>3. pc'[r] = step /\ arg'[r].voucher = v /\ arg'[r].amount = tx[v].amount
      BY <1>0, <2>2 DEF On, Begin, Goto, Note, NoArg
    <2> QED
      BY <1>1, <2>1, <2>3 DEF Good, PostsAmount, TxKept, Written
  <1>4. CASE ConfirmPost(r)
    <2>1. pc[r] = "confirmPost" /\ Live(r) /\ arg'[r] = arg[r] /\ UNCHANGED tx /\ arg[r].voucher \in Vouchers
      BY <1>1, <1>4 DEF ConfirmPost, Live, Steps, Good, OnVoucher
    <2>2. CASE pc'[r] = "confirmed"
      <3>1. ledger' = PostEntry(ledger, arg[r].voucher, arg[r].amount)
        BY <1>0, <1>4, <2>2 DEF ConfirmPost, Goto
      <3> QED
        BY <1>1, <1>2, <2>1, <2>2, <3>1, Posting DEF Good, PostsAmount, Written, Live
    <2>3. CASE pc'[r] # "confirmed"
      <3>1. pc'[r] = "confirmUndo"
        BY <1>0, <1>4, <2>3 DEF ConfirmPost, Goto
      <3> QED
        BY <1>1, <1>2, <2>1, <3>1, GoesOnGood
    <2> QED
      BY <2>2, <2>3
  <1>5. CASE VoucherStep(r) /\ ~ConfirmPost(r)
    <2>1. Live(r) /\ arg'[r] = arg[r] /\ pc[r] \in OnVoucher
      BY <1>5 DEF VoucherStep, ConfirmUndo, CancelSet, CancelVoid, DeleteTx, PayoutEffect, PayoutClose,
                  Live, Steps, OnVoucher
    <2>2. pc'[r] \in {"failed", "done", "cancelVoid", "close"}
      BY <1>0, <1>5 DEF VoucherStep, ConfirmUndo, CancelSet, CancelVoid, DeleteTx, PayoutEffect, PayoutClose, Goto
    <2>3. CASE pc'[r] \in {"cancelVoid", "close"}
      BY <1>1, <1>2, <2>1, <2>3, GoesOnGood DEF Good
    <2> QED
      BY <2>2, <2>3, EarlyGood DEF Outcomes
  <1> QED
    BY <1>3, <1>4, <1>5

LEMMA VouchersStep ==
  ASSUME PayrollTypeOK, ClaimsInv, ClaimsInv', VouchersInv, [PayrollNext]_pvars
  PROVE  VouchersInv'
  <1>1. TxKept /\ LedgerKept /\ \A q \in Requests : Good(q)
    BY TxStep, LedgerStep, VouchersOfRequests
  <1>2. ASSUME NEW q \in Requests PROVE Good(q)'
    <2>1. CASE \E r \in Requests : PaymentStep(r) \/ (\E v \in Vouchers : VoucherStart(r, v)) \/ VoucherStep(r)
      <3>1. PICK r \in Requests : PaymentStep(r) \/ (\E v \in Vouchers : VoucherStart(r, v)) \/ VoucherStep(r)
        BY <2>1
      <3>2. CASE q = r
        BY <3>1, <3>2, PaymentGood, VoucherGood
      <3>3. CASE q # r
        BY <1>1, <3>1, <3>3, OneMoves, UnmovedGood
      <3> QED
        BY <3>2, <3>3
    <2>2. CASE OtherStep
      BY <1>1, <2>2, OthersMoveNobody, UnmovedGood DEF Unmoved
    <2>3. CASE Crash
      <3>1. pc'[q] = "crashed" \/ Unmoved(q)
        BY <2>3 DEF Crash, Unmoved
      <3> QED
        BY <1>1, <3>1, EarlyGood, UnmovedGood DEF Outcomes
    <2> QED
      BY <2>1, <2>2, <2>3, NextSteps
  <1>3. EntriesWritten' /\ \A q \in Requests : Good(q)'
    BY <1>2, EntriesStep
  <1> QED
    BY <1>3 DEF VouchersInv, VoucherKnown, RequestsWritten, AmountsKept, Good

-----------------------------------------------------------------------------
(* Agreement.  A voucher that is not torn has one request at work, and     *)
(* while it is at work the voucher and its entry are related by how far it *)
(* has come.                                                               *)
Agrees(v) == tx[v].status = "confirmed" <=> Posted(ledger, v)

Works(r, v) == Live(r) /\ arg[r].voucher = v

Unbooked(v) == tx[v].status = "confirmed" /\ Free(ledger, v)

Progress(r, v) ==
  /\ pc[r] \in {"post", "cancelTx"} => Unbooked(v)
  /\ pc[r] = "release" => IF arg[r].op \in Actions THEN Unbooked(v) ELSE Agrees(v)
  /\ pc[r] = "confirmPost" => tx[v].status = "confirmed"
  /\ pc[r] = "confirmUndo" => Free(ledger, v)
  /\ pc[r] \in {"cancelSet", "delete", "effect", "close"} => Agrees(v)
  /\ pc[r] = "cancelSet" => tx[v].status = arg[r].read
  /\ pc[r] = "delete" => ~Posted(ledger, v)
  /\ pc[r] = "cancelVoid" => tx[v].status # "confirmed"

Fits(v) ==
  /\ \A r, q \in Requests : Works(r, v) /\ Works(q, v) => r = q
  /\ \A r \in Requests : Works(r, v) => Progress(r, v)
  /\ ~Busy(v) => Agrees(v)

AgreeInv == \A v \in Vouchers \ torn : Fits(v)

LEMMA AgreeImplies == AgreeInv => VoucherAgrees
  BY DEF AgreeInv, Fits, Agrees, VoucherAgrees

(* A voucher nobody works on before or after the step of r.                *)
LEMMA ElsewhereFits ==
  ASSUME NEW v \in Vouchers, Fits(v), NEW r \in Requests,
         \A q \in Requests \ {r} : Unmoved(q),
         ~Works(r, v), ~Works(r, v)', tx'[v] = tx[v], ledger'[v] = ledger[v]
  PROVE  Fits(v)'
  <1>1. \A q \in Requests : Works(q, v)' <=> Works(q, v)
    BY DEF Works, Live, Unmoved
  <1>2. Agrees(v)' <=> Agrees(v)
    BY DEF Agrees, Free, Posted
  <1>3. \A q \in Requests : Works(q, v) /\ Progress(q, v) => Progress(q, v)'
    BY <1>2 DEF Progress, Unbooked, Agrees, Free, Posted, Unmoved
  <1>4. Busy(v)' <=> Busy(v)
    BY <1>1 DEF Busy, Works
  <1> QED
    BY <1>1, <1>2, <1>3, <1>4 DEF Fits

(* The voucher the step of r is about.                                     *)
LEMMA HereFits ==
  ASSUME NEW v \in Vouchers, Fits(v), NEW r \in Requests,
         \A q \in Requests \ {r} : Unmoved(q),
         Works(r, v) \/ ~Busy(v),
         Works(r, v)' => Progress(r, v)',
         ~Works(r, v)' => Agrees(v)'
  PROVE  Fits(v)'
  <1>1. \A q \in Requests \ {r} : ~Works(q, v)
    BY DEF Fits, Busy, Works
  <1>2. \A q \in Requests \ {r} : ~Works(q, v)'
    BY <1>1 DEF Works, Live, Unmoved
  <1>3. Busy(v)' <=> Works(r, v)'
    BY <1>2 DEF Busy, Works
  <1> QED
    BY <1>2, <1>3 DEF Fits

(* A fresh voucher has no request at work and no entry.                    *)
LEMMA FreshIsFree ==
  ASSUME PayrollTypeOK, VouchersInv, NEW v \in Vouchers, Fresh(v)
  PROVE  ~Busy(v) /\ Free(ledger, v)
  <1>1. 0 \notin Vouchers
    BY PayrollAssumption DEF Vouchers
  <1> QED
    BY <1>1 DEF VouchersInv, RequestsWritten, EntriesWritten, Written, Fresh, Busy

(* Setting the status of one voucher.                                      *)
LEMMA SetTxOne ==
  ASSUME PayrollTypeOK, NEW u \in Vouchers, NEW new \in {"pending", "confirmed", "cancelled", "deleted"},
         SetTx(u, new)
  PROVE  /\ \A v \in Vouchers \ {u} : tx'[v] = tx[v]
         /\ tx'[u].status = new \/ (~Exists(u) /\ tx'[u] = tx[u])
  <1>1. tx[u] \in Voucher /\ tx \in [Vouchers -> Voucher]
    BY DEF PayrollTypeOK
  <1> QED
    BY <1>1 DEF SetTx, Voucher

LEMMA PaymentFits ==
  ASSUME PayrollTypeOK, ClaimsInv, ClaimsInv', VouchersInv, AgreeInv, NEW r \in Requests, PaymentStep(r),
         NEW v \in Vouchers, v \notin torn'
  PROVE  Fits(v)'
  <1>0. pc \in [Requests -> Places] /\ arg \in [Requests -> Argument]
    BY DEF PayrollTypeOK, Places, Argument
  <1>1. \A q \in Requests \ {r} : Unmoved(q)
    BY OneMoves
  <1>2. 0 \notin Vouchers
    BY PayrollAssumption DEF Vouchers
  <1>3. CASE \/ \E op \in Payments, k \in {NoKey} \cup (ClientKeys \X {{}}) : PayStart(r, op, k)
             \/ \E n \in Sessions, amt \in Amounts : FlexFind(r, n, amt)
             \/ AllFind(r) \/ StudentFind(r) \/ StudentLook(r) \/ Claim(r) \/ Mark(r)
    <2>1. pc[r] \in {"idle", "find", "look", "claim", "mark"} /\ UNCHANGED <<tx, ledger, torn>>
      BY <1>3 DEF PayStart, Begin, FlexFind, AllFind, StudentFind, StudentLook, Claim, Mark, voucherVars
    <2>2. pc'[r] \in {"repeat", "find", "create", "claim", "refused", "look", "mark", "kept", "paid"}
      <3>1. CASE \E op \in Payments, k \in {NoKey} \cup (ClientKeys \X {{}}) : PayStart(r, op, k)
        BY <1>0, <3>1 DEF PayStart, Begin, Goto
      <3>2. CASE Claim(r) \/ Mark(r)
        BY <1>0, <3>2 DEF Claim, Mark, Goto
      <3> QED
        BY <1>0, <1>3, <3>1, <3>2 DEF FlexFind, AllFind, StudentFind, StudentLook, Goto
    <2>3. ~Works(r, v)
      BY <1>2, <2>1 DEF ClaimsInv, ClaimsAreRead, Early, Works
    <2>4. ~Works(r, v)'
      BY <1>2, <2>2 DEF ClaimsInv, ClaimsAreRead, Early, Works, Live, Steps
    <2> QED
      BY <1>1, <2>1, <2>3, <2>4, ElsewhereFits DEF AgreeInv
  <1>4. CASE Create(r)
    <2>1. ~Works(r, v) /\ UNCHANGED ledger
      BY <1>2, <1>4 DEF Create, ClaimsInv, ClaimsAreRead, Works
    <2>2. Fits(v)
      BY <1>4 DEF Create, AgreeInv
    <2>3. ASSUME NEW u \in Vouchers, Fresh(u),
                 tx' = [tx EXCEPT ![u] = [status |-> "confirmed", amount |-> arg[r].amount, key |-> arg[r].key]],
                 Goto(r, "post"), Note(r, [arg[r] EXCEPT !.voucher = u])
          PROVE  Fits(v)'
      <3>1. pc'[r] = "post" /\ arg'[r].voucher = u
        BY <1>0, <2>3 DEF Goto, Note, Argument
      <3>2. CASE v = u
        <4>1. ~Busy(v) /\ Free(ledger, v)
          BY <2>3, <3>2, FreshIsFree
        <4>2. Unbooked(v)'
          BY <2>1, <2>3, <3>2, <4>1 DEF Unbooked, Free, PayrollTypeOK
        <4>3. Works(r, v)'
          BY <3>1, <3>2 DEF Works, Live, Steps
        <4>4. Progress(r, v)'
          BY <3>1, <4>2 DEF Progress
        <4> QED
          BY <1>1, <2>2, <4>1, <4>3, <4>4, HereFits
      <3>3. CASE v # u
        <4>1. ~Works(r, v)' /\ tx'[v] = tx[v]
          BY <2>3, <3>1, <3>3 DEF Works, PayrollTypeOK
        <4> QED
          BY <1>1, <2>1, <2>2, <4>1, ElsewhereFits
      <3> QED
        BY <3>2, <3>3
    <2>4. ASSUME UNCHANGED tx \/ \E u \in Vouchers \ {v} : \E new : tx' = [tx EXCEPT ![u] = new],
                 \/ pc'[r] \in {"failed", "repeat"}
                 \/ pc'[r] = "release" /\ UNCHANGED arg
          PROVE  Fits(v)'
      <3>1. tx'[v] = tx[v]
        BY <2>4 DEF PayrollTypeOK
      <3>2. ~Works(r, v)'
        BY <1>2, <1>4, <2>4 DEF Create, ClaimsInv, ClaimsAreRead, Works, Live, Steps
      <3> QED
        BY <1>1, <2>1, <2>2, <3>1, <3>2, ElsewhereFits
    <2>5. \/ \E u \in Vouchers :
               /\ Fresh(u)
               /\ tx' = [tx EXCEPT ![u] = [status |-> "confirmed", amount |-> arg[r].amount, key |-> arg[r].key]]
               /\ \/ Goto(r, "post") /\ Note(r, [arg[r] EXCEPT !.voucher = u])
                  \/ Goto(r, GiveBack(r)) /\ torn' = torn \cup {u} /\ UNCHANGED arg
          \/ UNCHANGED tx /\ Goto(r, "repeat")
          \/ UNCHANGED <<tx, arg>> /\ \E p \in {"release", "failed"} : Goto(r, p)
      BY <1>4 DEF Create, GiveBack
    <2>6. ASSUME NEW p \in {"repeat", "release", "failed"}, Goto(r, p) PROVE pc'[r] = p
      BY <1>0, <2>6 DEF Goto
    <2>7. GiveBack(r) \in {"release", "failed"}
      BY DEF GiveBack
    <2> QED
      BY <2>3, <2>4, <2>5, <2>6, <2>7
  <1>5. CASE Post(r)
    <2> DEFINE u == arg[r].voucher
    <2>1. /\ pc[r] = "post" /\ UNCHANGED <<tx, arg>> /\ Fits(v) /\ u \in Vouchers
          /\ pc'[r] \in {"paid", "release", "cancelTx"}
      BY <1>0, <1>5 DEF Post, AgreeInv, VouchersInv, VoucherKnown, Goto, NotPosted
    <2>2. \A w \in Vouchers \ {u} : ledger'[w] = ledger[w]
      BY <1>5, PostKeeps DEF Post
    <2>3. CASE v # u
      BY <1>1, <2>1, <2>2, <2>3, ElsewhereFits DEF Works
    <2>4. CASE v = u
      <3>1. Works(r, v) /\ Progress(r, v) /\ Unbooked(v)
        BY <2>1, <2>4 DEF Works, Live, Steps, Fits, Progress
      <3>2. CASE pc'[r] = "paid"
        <4>1. ledger' = PostEntry(ledger, v, arg[r].amount)
          BY <1>0, <1>5, <2>4, <3>2 DEF Post, Goto, NotPosted
        <4>2. Agrees(v)'
          BY <2>1, <3>1, <4>1, Posting DEF Agrees, Unbooked, Free, Voided
        <4> QED
          BY <1>1, <2>1, <3>1, <3>2, <4>2, HereFits DEF Works, Live, Steps
      <3>3. CASE pc'[r] # "paid"
        <4>1. UNCHANGED ledger /\ pc'[r] = NotPosted(r)
          BY <1>0, <1>5, <2>4, <3>3 DEF Post, Goto
        <4>2. Progress(r, v)' /\ Works(r, v)'
          BY <2>1, <2>4, <3>1, <4>1 DEF Progress, NotPosted, Unbooked, Free, Works, Live, Steps
        <4> QED
          BY <1>1, <2>1, <3>1, <4>2, HereFits
      <3> QED
        BY <3>2, <3>3
    <2> QED
      BY <2>3, <2>4
  <1>6. CASE CancelTx(r)
    <2> DEFINE u == arg[r].voucher
    <2>1. /\ pc[r] = "cancelTx" /\ UNCHANGED <<ledger, arg>> /\ Fits(v) /\ u \in Vouchers
          /\ SetTx(u, "cancelled") \/ UNCHANGED tx
          /\ pc'[r] \in {"failed", "release", "kept"}
          /\ pc'[r] = "release" => arg[r].op \notin Actions
          /\ v = u => SetTx(u, "cancelled")
      BY <1>0, <1>6 DEF CancelTx, AgreeInv, VouchersInv, VoucherKnown, Goto
    <2>2. \A w \in Vouchers \ {u} : tx'[w] = tx[w]
      BY <2>1, SetTxOne
    <2>3. CASE v # u
      BY <1>1, <2>1, <2>2, <2>3, ElsewhereFits DEF Works
    <2>4. CASE v = u
      <3>1. Works(r, v) /\ Progress(r, v) /\ Unbooked(v)
        BY <2>1, <2>4 DEF Works, Live, Steps, Fits, Progress
      <3>2. tx'[v].status = "cancelled"
        BY <2>1, <2>4, <3>1, SetTxOne DEF Unbooked, Exists, Statuses
      <3>3. Agrees(v)'
        BY <2>1, <3>1, <3>2 DEF Agrees, Unbooked, Free, Posted
      <3>4. Works(r, v)' => Progress(r, v)'
        BY <2>1, <3>3 DEF Progress, Works, Live, Steps
      <3> QED
        BY <1>1, <2>1, <3>1, <3>3, <3>4, HereFits
    <2> QED
      BY <2>3, <2>4
  <1>7. CASE Release(r)
    <2> DEFINE u == arg[r].voucher
    <2>1. /\ pc[r] = "release" /\ UNCHANGED <<ledger, tx>> /\ Fits(v)
          /\ arg'[r].voucher = u /\ arg'[r].op = arg[r].op
          /\ pc'[r] \in {"cancelTx", "failed", "kept"}
          /\ pc'[r] = "cancelTx" => arg[r].op \in Actions
          /\ arg[r].op \in Actions /\ v = u => pc'[r] = "cancelTx"
      BY <1>0, <1>2, <1>7 DEF Release, AgreeInv, Goto, Note, voucherVars, Argument
    <2>2. CASE v # u
      BY <1>1, <2>1, <2>2, ElsewhereFits DEF Works
    <2>3. CASE v = u
      <3>1. Works(r, v) /\ Progress(r, v)
        BY <2>1, <2>3 DEF Works, Live, Steps, Fits
      <3>2. (Works(r, v)' => Progress(r, v)') /\ (~Works(r, v)' => Agrees(v)')
        BY <2>1, <2>3, <3>1 DEF Progress, Agrees, Unbooked, Free, Posted, Works, Live, Steps
      <3> QED
        BY <1>1, <2>1, <3>1, <3>2, HereFits
    <2> QED
      BY <2>2, <2>3
  <1> QED
    BY <1>3, <1>4, <1>5, <1>6, <1>7 DEF PaymentStep

LEMMA StartFits ==
  ASSUME PayrollTypeOK, AgreeInv, NEW r \in Requests, NEW u \in Vouchers, VoucherStart(r, u),
         NEW v \in Vouchers, v \notin torn'
  PROVE  Fits(v)'
  <1>0. pc \in [Requests -> Places] /\ arg \in [Requests -> Argument]
    BY DEF PayrollTypeOK, Places, Argument
  <1>1. \A q \in Requests \ {r} : Unmoved(q)
    BY OneMoves
  <1>9. CASE Begin(r, "confirm", "failed", [NoArg EXCEPT !.voucher = u]) /\ torn' = torn \cup {u}
             /\ Confirm(r, u)
    <2>1. /\ pc[r] = "idle" /\ pc'[r] = "failed" /\ v # u /\ Fits(v) /\ UNCHANGED ledger
      BY <1>0, <1>9 DEF Begin, Goto, Confirm, AgreeInv
    <2>2. tx'[v] = tx[v]
      BY <1>9, <2>1, SetTxOne DEF Confirm
    <2>3. ~Works(r, v) /\ ~Works(r, v)'
      BY <2>1 DEF Works, Live, Steps
    <2> QED
      BY <1>1, <2>1, <2>2, <2>3, ElsewhereFits
  <1> SUFFICES ASSUME Confirm(r, u) => On(r, "confirm", "confirmPost", u, "none")
               PROVE  Fits(v)'
    BY <1>9 DEF Confirm
  <1>2. ASSUME NEW op, NEW step \in {"confirmPost", "cancelSet", "delete", "effect"}, NEW read,
               On(r, op, step, u, read)
        PROVE  /\ pc[r] = "idle" /\ pc'[r] = step
               /\ arg'[r].voucher = u /\ arg'[r].read = read
               /\ v \notin torn /\ (v = u => ~Busy(v))
    BY <1>0, <1>2 DEF On, Begin, Goto, Note, NoArg
  <1>3. ASSUME NEW op \in {"approve", "reject"}, PayoutAdvance(r, u, op)
        PROVE  On(r, op, "effect", u, "none") /\ UNCHANGED tx
    BY <1>3 DEF PayoutAdvance, voucherVars
  <1>4. /\ pc[r] = "idle" /\ Fits(v) /\ (v = u => ~Busy(v))
        /\ arg'[r].voucher = u
        /\ UNCHANGED ledger
        /\ \/ pc'[r] = "confirmPost" /\ SetTx(u, "confirmed") /\ Exists(u)
           \/ pc'[r] = "cancelSet" /\ arg'[r].read = tx[u].status /\ UNCHANGED tx
           \/ pc'[r] = "delete" /\ tx[u].status # "confirmed" /\ UNCHANGED tx
           \/ pc'[r] = "effect" /\ UNCHANGED tx
    <2>1. CASE Confirm(r, u)
      BY <1>2, <2>1 DEF Confirm, AgreeInv
    <2>2. CASE Cancel(r, u)
      BY <1>2, <2>2 DEF Cancel, AgreeInv, voucherVars
    <2>3. CASE Delete(r, u)
      BY <1>2, <2>3 DEF Delete, Deletable, AgreeInv, voucherVars
    <2>4. ASSUME NEW op \in {"approve", "reject"}, PayoutAdvance(r, u, op)
          PROVE  /\ pc[r] = "idle" /\ Fits(v) /\ (v = u => ~Busy(v))
                 /\ arg'[r].voucher = u
                 /\ UNCHANGED <<ledger, tx>>
                 /\ pc'[r] = "effect"
      BY <1>2, <1>3, <2>4 DEF AgreeInv, PayoutAdvance, voucherVars
    <2> QED
      BY <2>1, <2>2, <2>3, <2>4 DEF VoucherStart
  <1>5. \A w \in Vouchers \ {u} : tx'[w] = tx[w]
    BY <1>4, SetTxOne
  <1>6. ~Works(r, v)
    BY <1>4 DEF Works, Live, Steps
  <1>7. CASE v # u
    BY <1>1, <1>4, <1>5, <1>6, <1>7, ElsewhereFits DEF Works
  <1>8. CASE v = u
    <2>1. Agrees(v)
      BY <1>4, <1>8 DEF Fits
    <2>2. Works(r, v)'
      BY <1>4, <1>8 DEF Works, Live, Steps
    <2>3. SetTx(u, "confirmed") /\ Exists(u) => tx'[v].status = "confirmed"
      BY <1>8, SetTxOne
    <2>4. Progress(r, v)'
      BY <1>4, <1>8, <2>1, <2>3 DEF Progress, Agrees, Free, Posted
    <2> QED
      BY <1>1, <1>4, <1>8, <2>2, <2>4, HereFits
  <1> QED
    BY <1>7, <1>8

LEMMA VoucherFits ==
  ASSUME PayrollTypeOK, VouchersInv, AgreeInv, NEW r \in Requests, VoucherStep(r),
         NEW v \in Vouchers, v \notin torn'
  PROVE  Fits(v)'
  <1> DEFINE u == arg[r].voucher
  <1>0. pc \in [Requests -> Places] /\ arg \in [Requests -> Argument] /\ tx \in [Vouchers -> Voucher]
    BY DEF PayrollTypeOK, Places, Argument
  <1>1. \A q \in Requests \ {r} : Unmoved(q)
    BY OneMoves
  <1>2. pc[r] \in OnVoucher /\ UNCHANGED arg /\ u \in Vouchers /\ v \notin torn
    BY <1>0 DEF VoucherStep, ConfirmPost, ConfirmUndo, CancelSet, CancelVoid, DeleteTx, PayoutEffect,
                PayoutClose, OnVoucher, VouchersInv, VoucherKnown
  <1>3. pc'[r] \in {"confirmed", "confirmUndo", "failed", "cancelVoid", "done", "close"}
    BY <1>0 DEF VoucherStep, ConfirmPost, ConfirmUndo, CancelSet, CancelVoid, DeleteTx, PayoutEffect,
                PayoutClose, Goto
  <1>4. Fits(v)
    BY <1>2 DEF AgreeInv
  <1>5. CASE v # u
    <2>1. tx'[v] = tx[v]
      <3>1. UNCHANGED tx \/ \E new \in {"pending", "confirmed", "cancelled", "deleted"} : SetTx(u, new)
        BY DEF VoucherStep, ConfirmPost, ConfirmUndo, CancelSet, CancelVoid, DeleteTx, PayoutEffect, PayoutClose
      <3> QED
        BY <1>2, <1>5, <3>1, SetTxOne
    <2>2. ledger'[v] = ledger[v]
      <3>1. CASE ConfirmPost(r)
        BY <1>5, <3>1, PostKeeps DEF ConfirmPost
      <3>2. CASE CancelVoid(r)
        BY <1>5, <3>2 DEF CancelVoid, VoidEntry, PayrollTypeOK
      <3> QED
        BY <3>1, <3>2 DEF VoucherStep, ConfirmUndo, CancelSet, DeleteTx, PayoutEffect, PayoutClose
    <2> QED
      BY <1>1, <1>2, <1>4, <1>5, <2>1, <2>2, ElsewhereFits DEF Works
  <1>6. CASE v = u
    <2>1. Works(r, v) /\ Progress(r, v)
      BY <1>2, <1>4, <1>6 DEF Works, Live, Steps, Fits, OnVoucher
    <2>2. SUFFICES /\ Works(r, v)' => Progress(r, v)'
                   /\ ~Works(r, v)' => Agrees(v)'
      BY <1>1, <1>4, <2>1, HereFits
    <2>3. Works(r, v)' <=> pc'[r] \in {"confirmUndo", "cancelVoid", "close"}
      BY <1>2, <1>3, <1>6 DEF Works, Live, Steps
    <2>4. CASE ConfirmPost(r)
      <3>1. pc[r] = "confirmPost" /\ tx[v].status = "confirmed" /\ UNCHANGED tx
        BY <2>1, <2>4 DEF ConfirmPost, Progress
      <3>2. CASE pc'[r] = "confirmed"
        <4>1. ledger' = PostEntry(ledger, v, arg[r].amount)
          BY <1>0, <1>6, <2>4, <3>2 DEF ConfirmPost, Goto
        <4>2. ~Voided(v)
          BY <1>0, <1>2, <1>6, <2>4, <3>2 DEF ConfirmPost, Goto
        <4>3. Agrees(v)'
          BY <3>1, <4>1, <4>2, Posting DEF Agrees
        <4> QED
          BY <2>3, <3>2, <4>3
      <3>3. CASE pc'[r] # "confirmed"
        <4>1. pc'[r] = "confirmUndo" /\ Free(ledger', v)
          BY <1>0, <1>2, <1>6, <2>4, <3>3 DEF ConfirmPost, Goto
        <4> QED
          BY <2>3, <4>1 DEF Progress
      <3> QED
        BY <3>2, <3>3
    <2>5. CASE ConfirmUndo(r)
      <3>1. pc[r] = "confirmUndo" /\ Free(ledger, v) /\ UNCHANGED ledger /\ SetTx(v, "pending") /\ pc'[r] = "failed"
        BY <1>0, <1>6, <2>1, <2>5 DEF ConfirmUndo, Progress, Goto
      <3>2. tx'[v].status # "confirmed"
        BY <3>1, SetTxOne DEF Exists, Statuses
      <3> QED
        BY <2>3, <3>1, <3>2 DEF Agrees, Free, Posted
    <2>6. CASE CancelSet(r)
      <3>1. /\ Agrees(v) /\ tx[v].status = arg[r].read /\ UNCHANGED ledger
            /\ \/ SetTx(v, "cancelled") /\ pc'[r] = IF arg[r].read = "confirmed" THEN "cancelVoid" ELSE "done"
               \/ UNCHANGED tx /\ pc'[r] = "failed"
        BY <1>0, <1>2, <1>6, <2>1, <2>6 DEF CancelSet, Progress, Goto, Voids
      <3>2. CASE SetTx(v, "cancelled") /\ pc'[r] = IF arg[r].read = "confirmed" THEN "cancelVoid" ELSE "done"
        <4>1. tx'[v].status # "confirmed"
          BY <3>2, SetTxOne DEF Exists, Statuses
        <4> QED
          BY <2>3, <3>1, <3>2, <4>1 DEF Agrees, Posted, Progress
      <3>3. CASE UNCHANGED tx /\ pc'[r] = "failed"
        BY <2>3, <3>1, <3>3 DEF Agrees, Posted
      <3> QED
        BY <3>1, <3>2, <3>3
    <2>7. CASE CancelVoid(r)
      <3>1. tx[v].status # "confirmed" /\ UNCHANGED tx /\ pc'[r] = "done"
        BY <1>0, <2>1, <2>7 DEF CancelVoid, Progress, Goto
      <3>2. ledger' = VoidEntry(ledger, v)
        BY <1>2, <1>6, <2>7 DEF CancelVoid
      <3>3. ~Posted(ledger', v)
        BY <3>2, VoidKeeps
      <3> QED
        BY <2>3, <3>1, <3>3 DEF Agrees, Posted
    <2>8. CASE DeleteTx(r)
      <3>1. Agrees(v) /\ ~Posted(ledger, v) /\ UNCHANGED ledger /\ SetTx(v, "deleted") /\ pc'[r] = "done"
        BY <1>0, <1>6, <2>1, <2>8 DEF DeleteTx, Progress, Goto
      <3>2. tx'[v].status # "confirmed"
        BY <3>1, SetTxOne DEF Exists, Statuses
      <3> QED
        BY <2>3, <3>1, <3>2 DEF Agrees, Posted
    <2>9. CASE PayoutEffect(r)
      <3>1. /\ Agrees(v) /\ tx[v].status = "pending" /\ UNCHANGED ledger /\ SetTx(v, "cancelled")
            /\ pc'[r] = "close"
        BY <1>0, <1>2, <1>6, <2>1, <2>9 DEF PayoutEffect, Progress, Goto
      <3>2. tx'[v].status = "cancelled" /\ ~Posted(ledger, v)
        BY <3>1, SetTxOne DEF Exists, Statuses, Agrees
      <3> QED
        BY <2>3, <3>1, <3>2 DEF Agrees, Posted, Progress
    <2>10. CASE PayoutClose(r)
      <3>1. Agrees(v) /\ UNCHANGED <<tx, ledger>> /\ pc'[r] = "done"
        BY <1>0, <2>1, <2>10 DEF PayoutClose, Progress, Goto
      <3> QED
        BY <2>3, <3>1 DEF Agrees, Free, Posted
    <2> QED
      BY <2>4, <2>5, <2>6, <2>7, <2>8, <2>9, <2>10 DEF VoucherStep
  <1> QED
    BY <1>5, <1>6

LEMMA OtherFits ==
  ASSUME PayrollTypeOK, VouchersInv, AgreeInv, OtherStep \/ Crash, NEW v \in Vouchers, v \notin torn'
  PROVE  Fits(v)'
  <1>1. v \notin torn /\ Fits(v) /\ ledger'[v] = ledger[v]
    <2>1. ASSUME NEW u \in Vouchers, LedgerVoid(u) PROVE v \notin torn /\ ledger'[v] = ledger[v]
      BY <2>1 DEF LedgerVoid, VoidEntry, PayrollTypeOK
    <2>2. v \notin torn /\ ledger'[v] = ledger[v]
      BY <2>1 DEF OtherStep, NewVoucher, PayoutOpen, Complete, MarkPrepaid, Crash, pvars, voucherVars
    <2> QED
      BY <2>2 DEF AgreeInv
  <1>2. CASE Crash
    <2>1. ~Busy(v) /\ UNCHANGED tx /\ \A q \in Requests : ~Live(q)'
      BY <1>2 DEF Crash, Busy, voucherVars, Live, Steps
    <2>2. Agrees(v)'
      BY <1>1, <2>1 DEF Fits, Agrees, Free, Posted
    <2> QED
      BY <2>1, <2>2 DEF Fits, Works
  <1>3. ASSUME OtherStep, tx'[v] = tx[v] PROVE Fits(v)'
    <2>1. UNCHANGED <<pc, arg>>
      BY <1>3, OthersMoveNobody
    <2>2. Agrees(v)' <=> Agrees(v)
      BY <1>1, <1>3 DEF Agrees, Free, Posted
    <2>3. \A q \in Requests : Progress(q, v)' <=> Progress(q, v)
      BY <1>1, <1>3, <2>1, <2>2 DEF Progress, Unbooked, Free, Posted
    <2> QED
      BY <1>1, <2>1, <2>2, <2>3 DEF Fits, Works, Live, Busy
  <1>4. ASSUME NEW u \in Vouchers, NEW amt \in Amounts, NewVoucher(u, amt) PROVE Fits(v)'
    <2>1. UNCHANGED <<pc, arg>> /\ Fresh(u)
          /\ tx' = [tx EXCEPT ![u] = [status |-> "pending", amount |-> amt, key |-> NoKey]]
      BY <1>4 DEF NewVoucher
    <2>2. CASE v = u
      <3>1. ~Busy(v) /\ Free(ledger, v) /\ tx'[v].status = "pending"
        BY <2>1, <2>2, FreshIsFree DEF PayrollTypeOK
      <3> QED
        BY <1>1, <2>1, <3>1 DEF Fits, Works, Live, Busy, Agrees, Free, Posted
    <2>3. CASE v # u
      <3>1. tx'[v] = tx[v] /\ OtherStep
        BY <1>4, <2>1, <2>3 DEF OtherStep, PayrollTypeOK
      <3> QED
        BY <1>3, <3>1
    <2> QED
      BY <2>2, <2>3
  <1>5. CASE UNCHANGED tx /\ OtherStep
    BY <1>3, <1>5
  <1> QED
    BY <1>2, <1>4, <1>5 DEF OtherStep, PayoutOpen, LedgerVoid, Complete, MarkPrepaid, pvars, voucherVars

LEMMA AgreeStep ==
  ASSUME PayrollTypeOK, ClaimsInv, ClaimsInv', VouchersInv, AgreeInv, [PayrollNext]_pvars
  PROVE  AgreeInv'
  <1> SUFFICES ASSUME NEW v \in Vouchers, v \notin torn' PROVE Fits(v)'
    BY DEF AgreeInv
  <1> QED
    BY NextSteps, PaymentFits, StartFits, VoucherFits, OtherFits

-----------------------------------------------------------------------------
(* The whole invariant.  The parts rest on each other from left to right.  *)
PayrollInv == PayrollTypeOK /\ ClaimsInv /\ VouchersInv /\ AgreeInv

LEMMA PayrollInitInv == PayrollInit => PayrollInv
  <1> SUFFICES ASSUME PayrollInit
               PROVE  PayrollInv
    OBVIOUS
  <1>1. PayrollTypeOK
    <2>1. MaxFaults \in Nat
      BY PayrollAssumption
    <2>2. NoEntry \in Entry
      BY DEF NoEntry, Entry
    <2> QED
      BY <2>1, <2>2, EmptyTyped DEF PayrollInit, PayrollTypeOK, Argument, Standing
  <1>2. \A r \in Requests : pc[r] = "idle" /\ arg[r].claimed = {} /\ arg[r].pend = {}
                            /\ arg[r].undone = FALSE /\ arg[r].voucher = 0
    BY DEF PayrollInit, NoArg
  <1>3. ClaimsInv
    BY <1>2 DEF ClaimsInv, ClaimsAreRead, Early, UndoneInOrder, OnVoucher, ClaimedIsPaid, ClaimedOnce,
                PaidStands, PayrollInit
  <1>4. \A v \in Vouchers : tx[v].status = "none" /\ Free(ledger, v) /\ payout[v] = "none"
    BY DEF PayrollInit, NoVoucher, NoEntry, Free
  <1>5. VouchersInv
    BY <1>2, <1>4 DEF VouchersInv, VoucherKnown, OnVoucher, RequestsWritten, EntriesWritten,
                      AmountsKept, PostsAmount, Live, Steps
  <1>6. AgreeInv
    BY <1>2, <1>4 DEF AgreeInv, Fits, Works, Live, Steps, Agrees, Free, Posted
  <1> QED
    BY <1>1, <1>3, <1>5, <1>6 DEF PayrollInv

LEMMA PayrollStepInv == PayrollInv /\ [PayrollNext]_pvars => PayrollInv'
  <1> SUFFICES ASSUME PayrollInv, [PayrollNext]_pvars
               PROVE  PayrollInv'
    OBVIOUS
  <1>1. PayrollTypeOK'
    BY TypeStep DEF PayrollInv, VouchersInv
  <1>2. ClaimsInv'
    BY ClaimsStep DEF PayrollInv
  <1>3. VouchersInv'
    BY <1>2, VouchersStep DEF PayrollInv
  <1>4. AgreeInv'
    BY <1>2, AgreeStep DEF PayrollInv
  <1> QED
    BY <1>1, <1>2, <1>3, <1>4 DEF PayrollInv

LEMMA PayrollInvariant == PayrollSpec => []PayrollInv
  BY PayrollInitInv, PayrollStepInv, PTL DEF PayrollSpec

(* Every variable keeps its type; in particular amounts and the locals of  *)
(* a request stay what the code reads them as.                             *)
THEOREM PayrollTypeCorrect == PayrollSpec => []PayrollTypeOK
  <1>1. PayrollInv => PayrollTypeOK
    BY DEF PayrollInv
  <1> QED
    BY <1>1, PayrollInvariant, PTL

(* The conditional updateMany of a payment lets no two payments claim the  *)
(* same session, however many run at once, unless a payment that had read  *)
(* the session was taken back in between.                                  *)
THEOREM SessionsClaimedOnce == PayrollSpec => []ClaimedOnce
  <1>1. PayrollInv => ClaimedOnce
    BY DEF PayrollInv, ClaimsInv
  <1> QED
    BY <1>1, PayrollInvariant, PTL

(* A session marked as paid was prepaid or was claimed by a payment that   *)
(* did not fail: the undoing of one releases what it claimed.              *)
THEOREM PaidHasPaymentAlways == PayrollSpec => []PaidHasPayment
  <1>1. PayrollInv => PaidHasPayment
    BY DEF PayrollInv, ClaimsInv, PaidStands, Stands, PaidHasPayment
  <1> QED
    BY <1>1, PayrollInvariant, PTL

(* A payment or a confirmation is answered as done only by a step which    *)
(* finds its salary entry posted or posts it, with its amount, or finds    *)
(* one that was voided before.                                             *)
LEMMA AnswersBook ==
  ASSUME PayrollInv, PayrollInv', [PayrollNext]_pvars, NEW r \in Requests, NEW v,
         v = arg'[r].voucher, pc'[r] \in {"paid", "confirmed"}, pc[r] # pc'[r], v # 0
  PROVE  (Posted(ledger', v) \/ Voided(v)) /\ ledger'[v].amount = arg'[r].amount
  <1>0. /\ PayrollTypeOK /\ pc \in [Requests -> Places] /\ arg \in [Requests -> Argument]
        /\ 0 \notin Vouchers
    BY PayrollAssumption DEF PayrollInv, PayrollTypeOK, Places, Argument, Vouchers
  <1>1. v \in Vouchers
    BY DEF PayrollInv, PayrollTypeOK
  <1>2. ledger'[v].amount = arg'[r].amount
    <2>1. ~Free(ledger', v) /\ arg'[r].amount = tx'[v].amount
      BY DEF PayrollInv, VouchersInv, AmountsKept, PostsAmount, Free
    <2> QED
      BY <1>1, <2>1 DEF PayrollInv, VouchersInv, EntriesWritten, Free
  <1>3. Post(r) \/ ConfirmPost(r)
    <2>1. PICK q \in Requests :
            PaymentStep(q) \/ (\E u \in Vouchers : VoucherStart(q, u)) \/ VoucherStep(q)
      BY NextSteps, OthersMoveNobody DEF Crash
    <2>2. q = r
      BY <1>0, <2>1, OneMoves DEF Unmoved
    <2>3. ASSUME NEW p, pc' = [pc EXCEPT ![r] = p] PROVE p \in {"paid", "confirmed"}
      BY <1>0, <2>3
    <2>4. CASE \E u \in Vouchers : VoucherStart(r, u)
      BY <2>3, <2>4 DEF VoucherStart, Confirm, Cancel, Delete, PayoutAdvance, On, Begin, Goto
    <2>5. CASE VoucherStep(r)
      BY <2>3, <2>5 DEF VoucherStep, ConfirmUndo, CancelSet, CancelVoid, DeleteTx, PayoutEffect,
                        PayoutClose, Goto
    <2>6. CASE PaymentStep(r)
      <3>1. CASE \E op \in Payments, k \in {NoKey} \cup (ClientKeys \X {{}}) : PayStart(r, op, k)
        BY <2>3, <3>1 DEF PayStart, Begin, Goto
      <3>2. CASE \/ \E n \in Sessions, amt \in Amounts : FlexFind(r, n, amt)
                 \/ AllFind(r) \/ StudentFind(r) \/ StudentLook(r) \/ Claim(r) \/ Create(r)
        BY <2>3, <3>2 DEF FlexFind, AllFind, StudentFind, StudentLook, Claim, Create, GiveBack, Goto
      <3>3. CASE CancelTx(r) \/ Release(r)
        BY <2>3, <3>3 DEF CancelTx, Release, Goto
      <3>4. CASE Mark(r)
        BY <3>4 DEF Mark, PayrollInv, ClaimsInv, ClaimsAreRead
      <3> QED
        BY <2>6, <3>1, <3>2, <3>3, <3>4 DEF PaymentStep
    <2> QED
      BY <2>1, <2>2, <2>4, <2>5, <2>6
  <1>4. ledger' = PostEntry(ledger, v, arg[r].amount)
    BY <1>0, <1>3 DEF Post, ConfirmPost, NotPosted, Goto
  <1> QED
    BY <1>0, <1>1, <1>2, <1>4, Posting

(* When a payment or a confirmation is answered as done, its salary entry  *)
(* is posted with the amount it named, whatever ran beside it and failed,  *)
(* unless the voucher had an entry before that had been voided.            *)
THEOREM PaymentsAreBooked == PayrollSpec => PaymentIsBooked
  <1>1. PayrollInv /\ PayrollInv' /\ [PayrollNext]_pvars =>
          [\A r \in Requests :
             LET v == arg'[r].voucher IN
             pc'[r] \in {"paid", "confirmed"} /\ pc[r] # pc'[r] /\ v # 0 =>
               /\ Posted(ledger', v) \/ Voided(v)
               /\ ledger'[v].amount = arg'[r].amount]_pvars
    BY AnswersBook
  <1> QED
    BY <1>1, PayrollInvariant, PTL DEF PayrollSpec, PaymentIsBooked

(* A voucher that is not torn and nobody works on is confirmed exactly     *)
(* when its salary entry is posted, whatever payments, confirmations,      *)
(* cancellations, deletions, payouts and faults came before.               *)
THEOREM VouchersAgree == PayrollSpec => []VoucherAgrees
  <1>1. PayrollInv => VoucherAgrees
    BY AgreeImplies DEF PayrollInv
  <1> QED
    BY <1>1, PayrollInvariant, PTL
=============================================================================
