------------------------------- MODULE Payroll -------------------------------
(***************************************************************************)
(* What a teacher is paid: the completed sessions of one teacher with one  *)
(* student, the payments that claim them (routes/teacherRoutes.js          *)
(* pay-flexible and pay-all, services/studentFinanceService.js             *)
(* payTeacherForStudent), the vouchers of routes/transactionRoutes.js, the *)
(* payout workflow of services/workflowService.js and the salary entries   *)
(* of the ledger.                                                          *)
(*                                                                         *)
(* Each awaited database operation is one action; an updateMany over the   *)
(* sessions is taken as one operation.  A request uses its slot once and   *)
(* its outcome stays in pc.  The rate per session is 1, so that an amount  *)
(* of sessions is their number; only a flexible payment names an amount.   *)
(* Star bonuses, notifications and the checks on teacher and permission    *)
(* are left out.                                                           *)
(***************************************************************************)
EXTENDS Ledger

CONSTANTS
  Requests,       \* slots for requests
  ClientKeys,     \* idempotency keys a client may send
  Amounts,        \* amounts a client may name
  Operations,     \* kinds of requests an instance has
  FaultKinds,     \* of "error", "lost" (done, but answered as an error), "crash"
  MaxSessions,    \* bound: completed sessions
  MaxVouchers,    \* bound: vouchers (transactions)
  MaxInFlight,    \* bound: requests in progress at a time
  MaxFaults       \* bound: faults

ASSUME PayrollAssumption ==
  /\ {MaxSessions, MaxVouchers, MaxInFlight, MaxFaults} \subseteq Nat
  /\ Amounts \subseteq Nat \ {0}
  /\ FaultKinds \subseteq {"error", "lost", "crash"}

VARIABLES
  held,     \* number of completed sessions; a session is its place in time
  paid,     \* sessions with is_paid_to_teacher
  standing, \* teacher_payment_status of the student
  marking,  \* sessions completed under PAID_IN_ADVANCE, still to be marked
  prepaid,  \* sessions marked for that
  tx,       \* the vouchers; their numbers are their ids
  ledger,   \* ledger[v]: the entry with key salary:tx:v
  payout,   \* payout[v]: the payout_request workflow of v
  pc,       \* pc[r]: next step of request r, or its outcome
  arg,      \* arg[r]: what it was sent, has read and done
  faults,   \* number of faults so far
  torn      \* vouchers out of step with the ledger by a way named at VoucherAgrees

sessionVars == <<held, paid, standing, marking, prepaid>>
voucherVars == <<tx, ledger, payout>>
pvars == <<sessionVars, voucherVars, pc, arg, faults, torn>>

Sessions == 1..MaxSessions
Vouchers == 1..MaxVouchers
Actions  == {"PARTIAL", "PAID_IN_ADVANCE"}
Standing == {"UNPAID"} \cup Actions
Payments == {"flex", "all"} \cup Actions
Others   == {"confirm", "cancel", "delete", "approve", "reject"}
Keys     == (ClientKeys \cup Actions \cup {"none"}) \X SUBSET Sessions
NoKey    == <<"none", {}>>
Statuses == {"pending", "confirmed", "cancelled"}
NoVoucher == [status |-> "none", amount |-> 0, key |-> NoKey]
Voucher  == [status : Statuses \cup {"none", "deleted"}, amount : Nat, key : Keys]

(* pend: sessions read as unpaid; read: a status read; undone: the claim   *)
(* was released; voucher 0: none yet.                                      *)
NoArg == [op |-> "none", key |-> NoKey, pend |-> {}, claimed |-> {}, amount |-> 0,
          voucher |-> 0, read |-> "none", undone |-> FALSE]
Outcomes == {"paid", "repeat", "refused", "failed", "kept", "confirmed", "done", "crashed"}
Steps    == {"find", "look", "claim", "mark", "create", "post", "cancelTx", "release",
             "confirmPost", "confirmUndo", "cancelSet", "cancelVoid", "delete", "effect", "close"}

Live(r)  == pc[r] \in Steps
Exists(v) == tx[v].status \in Statuses
Fresh(v) == tx[v].status = "none" /\ \A u \in 1..(v - 1) : tx[u].status # "none"
KeyOf(k) == {v \in Vouchers : Exists(v) /\ tx[v].key = k /\ k # NoKey}
\* Operators called Bug... are mistakes the properties must notice.
BugUnpaid == 0..held \ paid

Unpaid == 1..held \ paid

Goto(r, step) == pc' = [pc EXCEPT ![r] = step]
Note(r, a)    == arg' = [arg EXCEPT ![r] = a]

Begin(r, op, step, a) ==
  /\ op \in Operations
  /\ pc[r] = "idle"
  /\ Cardinality({q \in Requests : Live(q)}) < MaxInFlight
  /\ Goto(r, step)
  /\ Note(r, [a EXCEPT !.op = op])

Fault(kind) ==
  /\ kind \in FaultKinds
  /\ faults < MaxFaults
  /\ faults' = faults + 1

NoFault == UNCHANGED faults
SetTx(v, new) == tx' = IF Exists(v) THEN [tx EXCEPT ![v].status = new] ELSE tx

-----------------------------------------------------------------------------
(* Payments.  A request with a key a voucher has is answered as a repeat.  *)
(* Otherwise it starts, for a student with a copy of the student.          *)
PayStart(r, op, key) ==
  LET known == KeyOf(key) IN
  /\ op = "all" => Unpaid # {} /\ key = NoKey
  /\ IF op = "flex" /\ known # {}
     THEN \E v \in known : Begin(r, op, "repeat", [NoArg EXCEPT !.key = key, !.voucher = v])
     ELSE Begin(r, op, "find", [NoArg EXCEPT !.key = key, !.read = standing])
  /\ UNCHANGED <<sessionVars, voucherVars, faults, torn>>

(* The unpaid sessions: the oldest n of them, or all.                      *)
Oldest(n) == {s \in Unpaid : Cardinality({u \in Unpaid : u < s}) < n}

FlexFind(r, n, amt) ==
  LET found == Oldest(n) IN
  /\ pc[r] = "find" /\ arg[r].op = "flex"
  /\ Goto(r, IF found = {} THEN "create" ELSE "claim")
  /\ Note(r, [arg[r] EXCEPT !.pend = found, !.amount = amt])
  /\ UNCHANGED <<sessionVars, voucherVars, faults, torn>>

AllFind(r) ==
  /\ pc[r] = "find" /\ arg[r].op = "all"
  /\ Goto(r, IF Unpaid = {} THEN "refused" ELSE "claim")
  /\ Note(r, [arg[r] EXCEPT !.pend = Unpaid])
  /\ UNCHANGED <<sessionVars, voucherVars, faults, torn>>

(* A payment for the student computes its key, if none was sent, and its   *)
(* amount from what it found.                                              *)
StudentKey(r) == IF arg[r].key = NoKey THEN <<arg[r].op, Unpaid>> ELSE arg[r].key

StudentFind(r) ==
  /\ pc[r] = "find" /\ arg[r].op \in Actions
  /\ IF Unpaid = {} /\ arg[r].op = "PARTIAL"
     THEN Goto(r, "refused") /\ UNCHANGED arg
     ELSE /\ Goto(r, "look")
          /\ Note(r, [arg[r] EXCEPT !.pend = Unpaid, !.amount = Cardinality(Unpaid),
                                    !.key = StudentKey(r)])
  /\ UNCHANGED <<sessionVars, voucherVars, faults, torn>>

StudentLook(r) ==
  LET known == KeyOf(arg[r].key) IN
  /\ pc[r] = "look"
  /\ IF known # {}
     THEN /\ Goto(r, "repeat")
          /\ \E v \in known : Note(r, [arg[r] EXCEPT !.voucher = v])
     ELSE /\ Goto(r, IF arg[r].pend = {} THEN "mark" ELSE "claim")
          /\ UNCHANGED arg
  /\ UNCHANGED <<sessionVars, voucherVars, faults, torn>>

(* The claim: those of the sessions read that are unpaid still.            *)
BugClaimable(r) == arg[r].pend

Claimable(r) == arg[r].pend \ paid

Claim(r) ==
  LET got == Claimable(r) IN
  /\ pc[r] = "claim"
  /\ paid' = paid \cup got
  /\ Note(r, [arg[r] EXCEPT !.claimed = got,
                            !.amount = IF arg[r].op = "all" THEN Cardinality(got) ELSE @])
  /\ \/ /\ NoFault
        /\ Goto(r, CASE arg[r].op = "all" /\ got = {} -> "refused"
                     [] arg[r].op \in Actions         -> "mark"
                     [] OTHER                         -> "create")
     \/ Fault("lost") /\ Goto(r, "kept")
  /\ UNCHANGED <<held, standing, marking, prepaid, voucherVars, torn>>

(* The student's standing, decided on the copy read at the start; without  *)
(* an amount or a claim that is all.  Nothing undoes the claim when the    *)
(* student cannot be saved.                                                *)
Mark(r) ==
  /\ pc[r] = "mark"
  /\ \/ /\ standing' = IF arg[r].op = "PAID_IN_ADVANCE" THEN "PAID_IN_ADVANCE"
                       ELSE IF arg[r].read = "UNPAID" THEN "PARTIAL" ELSE standing
        /\ Goto(r, IF arg[r].claimed = {} THEN "paid" ELSE "create")
        /\ NoFault
     \/ /\ arg[r].op = "PAID_IN_ADVANCE" \/ arg[r].read = "UNPAID"
        /\ Fault("error")
        /\ Goto(r, "kept")
        /\ UNCHANGED standing
  /\ UNCHANGED <<held, paid, marking, prepaid, voucherVars, arg, torn>>

(* Where a payment goes when its voucher cannot be created.  A flexible    *)
(* one that claimed nothing has nothing to release.                        *)
BugGiveBack(r) == "failed"

GiveBack(r) == IF arg[r].op = "flex" /\ arg[r].claimed = {} THEN "failed" ELSE "release"

(* The voucher, confirmed.  When the key has been used meanwhile, a        *)
(* flexible payment is answered as a repeat and keeps its claim.           *)
Create(r) ==
  LET known == KeyOf(arg[r].key) IN
  /\ pc[r] = "create"
  /\ \/ /\ known = {}
        /\ \E v \in Vouchers :
             /\ Fresh(v)
             /\ tx' = [tx EXCEPT ![v] = [status |-> "confirmed", amount |-> arg[r].amount,
                                        key |-> arg[r].key]]
             /\ \/ /\ Goto(r, "post")
                   /\ Note(r, [arg[r] EXCEPT !.voucher = v])
                   /\ NoFault
                   /\ UNCHANGED torn
                \/ /\ Fault("lost")
                   /\ Goto(r, GiveBack(r))
                   /\ torn' = torn \cup {v}
                   /\ UNCHANGED arg
     \/ /\ known # {}
        /\ IF arg[r].op = "flex"
           THEN /\ Goto(r, "repeat")
                /\ \E v \in known : Note(r, [arg[r] EXCEPT !.voucher = v])
           ELSE Goto(r, "release") /\ UNCHANGED arg
        /\ UNCHANGED <<tx, torn, faults>>
     \/ /\ Fault("error")
        /\ Goto(r, GiveBack(r))
        /\ UNCHANGED <<tx, arg, torn>>
  /\ UNCHANGED <<sessionVars, ledger, payout>>

(* postSalary; a failure must not be answered as a payment.                *)
BugNotPosted(r) == "paid"

NotPosted(r) == IF arg[r].op \in Actions THEN "release" ELSE "cancelTx"

Post(r) ==
  LET v == arg[r].voucher IN
  /\ pc[r] = "post"
  /\ \/ /\ ledger' = PostEntry(ledger, v, arg[r].amount)
        /\ \/ Goto(r, "paid") /\ NoFault /\ UNCHANGED torn
           \/ Fault("lost") /\ Goto(r, NotPosted(r)) /\ torn' = torn \cup {v}
     \/ /\ Fault("error")
        /\ Goto(r, NotPosted(r))
        /\ UNCHANGED <<ledger, torn>>
  /\ UNCHANGED <<sessionVars, tx, payout, arg>>

(* The failed payment is taken back: its voucher, ...                      *)
CancelTx(r) ==
  LET v == arg[r].voucher
      next == IF arg[r].op \in Actions \/ arg[r].pend = {} THEN "failed" ELSE "release"
  IN  /\ pc[r] = "cancelTx"
      /\ \/ SetTx(v, "cancelled") /\ Goto(r, next) /\ NoFault /\ UNCHANGED torn
         \/ /\ Fault("error")
            /\ Goto(r, IF next = "release" THEN "kept" ELSE "failed")
            /\ torn' = torn \cup {v}
            /\ UNCHANGED tx
      /\ UNCHANGED <<sessionVars, ledger, payout, arg>>

(* ... and the sessions: all it had read that are paid by now, whoever     *)
(* claimed them.                                                           *)
Release(r) ==
  LET v == arg[r].voucher IN
  /\ pc[r] = "release"
  /\ \/ /\ paid' = paid \ arg[r].pend
        /\ Note(r, [arg[r] EXCEPT !.undone = TRUE])
        /\ Goto(r, IF arg[r].op \in Actions /\ v # 0 THEN "cancelTx" ELSE "failed")
        /\ NoFault /\ UNCHANGED torn
     \/ /\ Fault("error")
        /\ Goto(r, "kept")
        /\ torn' = IF arg[r].op \in Actions /\ v # 0 THEN torn \cup {v} ELSE torn
        /\ UNCHANGED <<paid, arg>>
  /\ UNCHANGED <<held, standing, marking, prepaid, voucherVars>>

-----------------------------------------------------------------------------
(* Vouchers.  A request that starts to work on voucher v while another is  *)
(* at it tears it.                                                         *)
Voided(v) == ledger[v].status = "void"

Busy(v) == \E q \in Requests : Live(q) /\ arg[q].voucher = v

On(r, op, step, v, read) ==
  /\ Begin(r, op, step, [NoArg EXCEPT !.voucher = v, !.read = read, !.amount = tx[v].amount])
  /\ torn' = IF Busy(v) THEN torn \cup {v} ELSE torn

(* POST /transactions: a pending voucher.                                  *)
NewVoucher(v, amt) ==
  /\ "voucher" \in Operations
  /\ Fresh(v)
  /\ tx' = [tx EXCEPT ![v] = [status |-> "pending", amount |-> amt, key |-> NoKey]]
  /\ UNCHANGED <<sessionVars, ledger, payout, pc, arg, faults, torn>>

(* PUT confirm: whatever the status was.  When the write is made but       *)
(* answered as an error, nothing is booked and nothing undone.             *)
Confirm(r, v) ==
  /\ Exists(v)
  /\ SetTx(v, "confirmed")
  /\ \/ On(r, "confirm", "confirmPost", v, "none") /\ NoFault
     \/ /\ Fault("lost")
        /\ Begin(r, "confirm", "failed", [NoArg EXCEPT !.voucher = v])
        /\ torn' = torn \cup {v}
  /\ UNCHANGED <<sessionVars, ledger, payout>>

(* The salary entry.  An entry the voucher has is taken for it, a void one *)
(* included.                                                               *)
ConfirmPost(r) ==
  LET v == arg[r].voucher IN
  /\ pc[r] = "confirmPost"
  /\ \/ /\ ledger' = PostEntry(ledger, v, arg[r].amount)
        /\ \/ /\ Goto(r, "confirmed")
              /\ NoFault
              /\ torn' = IF Voided(v) THEN torn \cup {v} ELSE torn
           \/ Fault("lost") /\ Goto(r, "confirmUndo") /\ torn' = torn \cup {v}
     \/ /\ Fault("error")
        /\ Goto(r, "confirmUndo")
        /\ torn' = IF Free(ledger, v) THEN torn ELSE torn \cup {v}
        /\ UNCHANGED ledger
  /\ UNCHANGED <<sessionVars, tx, payout, arg>>

ConfirmUndo(r) ==
  LET v == arg[r].voucher IN
  /\ pc[r] = "confirmUndo"
  /\ Goto(r, "failed")
  /\ \/ SetTx(v, "pending") /\ NoFault /\ UNCHANGED torn
     \/ Fault("error") /\ torn' = torn \cup {v} /\ UNCHANGED tx
  /\ UNCHANGED <<sessionVars, ledger, payout, arg>>

(* PUT cancel: a voucher read as confirmed has its salary entry voided;    *)
(* its sessions stay paid.                                                 *)
Cancel(r, v) ==
  /\ tx[v].status \in {"pending", "confirmed"}
  /\ On(r, "cancel", "cancelSet", v, tx[v].status)
  /\ UNCHANGED <<sessionVars, voucherVars, faults>>

BugVoids(r) == arg[r].read = "pending"

Voids(r) == arg[r].read = "confirmed"

CancelSet(r) ==
  LET v == arg[r].voucher IN
  /\ pc[r] = "cancelSet"
  /\ \/ /\ SetTx(v, "cancelled")
        /\ \/ Goto(r, IF Voids(r) THEN "cancelVoid" ELSE "done") /\ NoFault /\ UNCHANGED torn
           \/ Fault("lost") /\ Goto(r, "failed") /\ torn' = torn \cup {v}
     \/ Fault("error") /\ Goto(r, "failed") /\ UNCHANGED <<tx, torn>>
  /\ UNCHANGED <<sessionVars, ledger, payout, arg>>

CancelVoid(r) ==
  LET v == arg[r].voucher IN
  /\ pc[r] = "cancelVoid"
  /\ Goto(r, "done")
  /\ \/ ledger' = VoidEntry(ledger, v) /\ (NoFault \/ Fault("error")) /\ UNCHANGED torn
     \/ Fault("error") /\ torn' = torn \cup {v} /\ UNCHANGED ledger
  /\ UNCHANGED <<sessionVars, tx, payout, arg>>

(* DELETE: not a voucher read as confirmed.                                *)
BugDeletable(v) == TRUE

Deletable(v) == tx[v].status \in {"pending", "cancelled"}

Delete(r, v) ==
  /\ Deletable(v)
  /\ On(r, "delete", "delete", v, tx[v].status)
  /\ UNCHANGED <<sessionVars, voucherVars, faults>>

DeleteTx(r) ==
  /\ pc[r] = "delete"
  /\ SetTx(arg[r].voucher, "deleted")
  /\ Goto(r, "done")
  /\ UNCHANGED <<sessionVars, ledger, payout, arg, faults, torn>>

(* POST /finance/ledger/:id/void: a salary entry is voided by hand; its    *)
(* voucher is not looked at.                                               *)
LedgerVoid(v) ==
  /\ "void" \in Operations
  /\ Posted(ledger, v)
  /\ ledger' = VoidEntry(ledger, v)
  /\ torn' = torn \cup {v}
  /\ UNCHANGED <<sessionVars, tx, payout, pc, arg, faults>>

-----------------------------------------------------------------------------
(* The payout workflow: opened by the synchronisation for a pending        *)
(* voucher, or by a request for any; it stays open when the voucher is     *)
(* confirmed, cancelled or deleted elsewhere.                              *)
PayoutOpen(v) ==
  /\ Operations \cap {"approve", "reject"} # {}
  /\ Exists(v)
  /\ payout[v] # "open"
  /\ payout' = [payout EXCEPT ![v] = "open"]
  /\ UNCHANGED <<sessionVars, tx, ledger, pc, arg, faults, torn>>

PayoutAdvance(r, v, op) ==
  /\ payout[v] = "open"
  /\ On(r, op, "effect", v, "none")
  /\ UNCHANGED <<sessionVars, voucherVars, faults>>

(* Approved, the voucher is confirmed without a salary entry; rejected, it *)
(* is cancelled and an entry it has stays.                                 *)
PayoutEffect(r) ==
  LET v == arg[r].voucher IN
  /\ pc[r] = "effect"
  /\ IF arg[r].op = "approve"
     THEN /\ SetTx(v, "confirmed")
          /\ Goto(r, IF Exists(v) THEN "close" ELSE "failed")
          /\ torn' = torn \cup {v}
     ELSE /\ SetTx(v, "cancelled")
          /\ Goto(r, "close")
          /\ torn' = IF tx[v].status = "pending" THEN torn ELSE torn \cup {v}
  /\ UNCHANGED <<sessionVars, ledger, payout, arg, faults>>

PayoutClose(r) ==
  /\ pc[r] = "close"
  /\ payout' = [payout EXCEPT ![arg[r].voucher] = "closed"]
  /\ Goto(r, "done")
  /\ UNCHANGED <<sessionVars, tx, ledger, arg, faults, torn>>

-----------------------------------------------------------------------------
(* A session is completed.  Of a student paid for in advance it is marked  *)
(* as paid afterwards.                                                     *)
Complete ==
  /\ held < MaxSessions
  /\ held' = held + 1
  /\ marking' = IF standing = "PAID_IN_ADVANCE" THEN marking \cup {held + 1} ELSE marking
  /\ UNCHANGED <<paid, standing, prepaid, voucherVars, pc, arg, faults, torn>>

MarkPrepaid(s) ==
  /\ s \in marking
  /\ marking' = marking \ {s}
  /\ paid' = paid \cup {s}
  /\ prepaid' = prepaid \cup {s}
  /\ UNCHANGED <<held, standing, voucherVars, pc, arg, faults, torn>>

(* The server dies: requests and marks in progress are gone.               *)
Crash ==
  /\ Fault("crash")
  /\ \E r \in Requests : Live(r)
  /\ pc' = [r \in Requests |-> IF Live(r) THEN "crashed" ELSE pc[r]]
  /\ torn' = torn \cup {v \in Vouchers : Busy(v)}
  /\ marking' = {}
  /\ UNCHANGED <<held, paid, standing, prepaid, voucherVars, arg>>

PayrollInit ==
  /\ held = 0 /\ paid = {} /\ standing = "UNPAID" /\ marking = {} /\ prepaid = {}
  /\ tx = [v \in Vouchers |-> NoVoucher]
  /\ ledger = [v \in Vouchers |-> NoEntry]
  /\ payout = [v \in Vouchers |-> "none"]
  /\ pc = [r \in Requests |-> "idle"]
  /\ arg = [r \in Requests |-> NoArg]
  /\ faults = 0 /\ torn = {}

PayrollNext ==
  \/ \E r \in Requests :
       \/ \E op \in Payments, k \in {NoKey} \cup (ClientKeys \X {{}}) : PayStart(r, op, k)
       \/ \E n \in Sessions, amt \in Amounts : FlexFind(r, n, amt)
       \/ AllFind(r) \/ StudentFind(r) \/ StudentLook(r)
       \/ Claim(r) \/ Mark(r) \/ Create(r) \/ Post(r) \/ CancelTx(r) \/ Release(r)
       \/ \E v \in Vouchers :
            \/ Confirm(r, v) \/ Cancel(r, v) \/ Delete(r, v)
            \/ \E op \in {"approve", "reject"} : PayoutAdvance(r, v, op)
       \/ ConfirmPost(r) \/ ConfirmUndo(r) \/ CancelSet(r) \/ CancelVoid(r) \/ DeleteTx(r)
       \/ PayoutEffect(r) \/ PayoutClose(r)
  \/ \E v \in Vouchers : (\E amt \in Amounts : NewVoucher(v, amt)) \/ PayoutOpen(v) \/ LedgerVoid(v)
  \/ Complete
  \/ \E s \in Sessions : MarkPrepaid(s)
  \/ Crash

PayrollSpec == PayrollInit /\ [][PayrollNext]_pvars

-----------------------------------------------------------------------------
(* Every variable has its type.                                            *)
PayrollTypeOK ==
  /\ held \in {0} \cup Sessions /\ paid \subseteq Sessions
  /\ standing \in Standing
  /\ marking \subseteq Sessions /\ prepaid \subseteq Sessions
  /\ tx \in [Vouchers -> Voucher]
  /\ ledger \in [Vouchers -> Entry]
  /\ payout \in [Vouchers -> {"none", "open", "closed"}]
  /\ pc \in [Requests -> {"idle"} \cup Steps \cup Outcomes]
  /\ arg \in [Requests -> [op : {"none"} \cup Payments \cup Others, key : Keys, pend : SUBSET Sessions,
                claimed : SUBSET Sessions, amount : Nat, voucher : {0} \cup Vouchers,
                read : {"none"} \cup Standing \cup Statuses, undone : BOOLEAN]]
  /\ faults \in 0..MaxFaults /\ torn \subseteq Vouchers

(* No session is claimed by two payments, unless one that had read it was  *)
(* taken back in between, which releases it whoever claimed it.            *)
ClaimedOnce ==
  \A r, q \in Requests : r # q =>
    \A s \in arg[r].claimed \cap arg[q].claimed :
      \E u \in Requests : arg[u].undone /\ s \in arg[u].pend

(* A session marked as paid was prepaid or belongs to a payment that did   *)
(* not fail: what a failed payment claimed is released.  Excused are       *)
(* payments cut off by a crash, or whose undoing failed (kept).            *)
PaidHasPayment ==
  \A s \in paid \ prepaid :
    \E r \in Requests : s \in arg[r].claimed /\ pc[r] # "failed"

(* When a payment or a confirmation is answered as done, its salary entry  *)
(* is posted in the ledger, with its amount.  The one exception is the     *)
(* code's: the voucher had an entry before which had been voided, and the  *)
(* entry found under the key is taken for the new one.                     *)
PaymentIsBooked ==
  [][\A r \in Requests :
       LET v == arg'[r].voucher IN
       pc'[r] \in {"paid", "confirmed"} /\ pc[r] # pc'[r] /\ v # 0 =>
         /\ Posted(ledger', v) \/ Voided(v)
         /\ ledger'[v].amount = arg'[r].amount]_pvars

(* Once nobody works on a voucher, it is confirmed exactly when its salary *)
(* entry is posted.  Excused (torn) are vouchers two requests were at      *)
(* work on at once, a payout confirmed or cancelled against its entry, a   *)
(* fault interrupted between the voucher and its entry or in undoing, or   *)
(* an administrator voided the entry of; and those confirmed once more:    *)
(* with a void entry, which is not replaced, or failing with a posted one, *)
(* which stays as the voucher is set back.                                 *)
VoucherAgrees ==
  \A v \in Vouchers \ torn :
    ~Busy(v) => (tx[v].status = "confirmed" <=> Posted(ledger, v))

(* docs/FINANCE_LEDGER_ERP_REDESIGN_2026-07-29.md:340: paying a salary     *)
(* makes one salary entry: after each confirmation answered as done, while *)
(* nothing else is in progress, the entry of the voucher is posted.        *)
ConfirmIsBooked ==
  [][\A r \in Requests :
       pc'[r] = "confirmed" /\ pc[r] # "confirmed" => Posted(ledger', arg[r].voucher)]_pvars

(* What the amount of a payment stands for.                                *)
Covers(r) == IF arg[r].op = "all" THEN arg[r].claimed ELSE arg[r].pend

(* docs/SECURITY_CONTRACT_FREEZE.md:203: a teacher payout cannot execute   *)
(* twice.                                                                  *)
PayoutNotTwice ==
  \A r, q \in Requests :
    r # q /\ pc[r] = "paid" /\ pc[q] = "paid" => Covers(r) \cap Covers(q) = {}
=============================================================================
