------------------------------ MODULE Tuition ------------------------------
(***************************************************************************)
(* The tuition of one student: the root fields and the enrollments of the  *)
(* Student document, the ledger, and the requests that work on both.       *)
(*                                                                         *)
(* A request handler is a sequence of awaited database operations; each is *)
(* one action here, and handlers interleave between them.  A handler works *)
(* on the copy of the document it last read or wrote (snap).  What a save  *)
(* of that copy does is mongoose's rule:                                   *)
(*   - the scalar fields that differ from the copy as loaded are written;  *)
(*   - a whole-array write of enrollments is conditional on __v and        *)
(*     increments it, and on a mismatch the whole save is a VersionError;  *)
(*   - $push increments __v unconditionally, and findOneAndUpdate and      *)
(*     updateOne neither check nor change it.                              *)
(*                                                                         *)
(* learningAccess is written together with enrollments.paid everywhere     *)
(* here and is left out, as are names, dates, invoices and notifications.  *)
(***************************************************************************)
EXTENDS Ledger

CONSTANTS
  Requests,        \* request slots: each serves one request
  MaxInFlight,     \* how many requests run at the same time
  Operations,      \* the operations in play, a subset of AllOperations
  MaxEnrollments,  \* slots of the enrollments array
  Courses,         \* courses a student can register for
  FirstCourse,     \* the course of the first (primary) enrollment
  Price,           \* Price[c]: the tuition of course c
  Amounts,         \* refund amounts a client may send
  RefundIds,       \* refundId / Idempotency-Key values sent by clients
  FaultKinds,      \* subset of RequestFaults, GatewayFaults
  MaxFaults        \* bound on the faults that happen

\* "void" is the hand void of an administrator, the others are requests.
AllOperations == {"pay", "enrPay", "add", "addPaid", "refund", "cancel", "heal", "void"}

\* A ledger write fails, fails but is applied, fails in a heal run; the credit
\* note cannot be created; the process dies.
RequestFaults == {"ledger", "lostReply", "heal", "creditNote", "crash"}

\* The same for a delivery of the payment gateway (module SePay), and a transfer
\* sent again while an earlier delivery is unanswered.
GatewayFaults == {"hookLedger", "hookLostReply", "hookCrash", "replay"}

ASSUME TuitionAssumption ==
  /\ MaxInFlight \in Nat
  /\ Operations \subseteq AllOperations
  /\ MaxEnrollments \in Nat \ {0}
  /\ FirstCourse \in Courses
  /\ Price \in [Courses -> Nat]
  /\ Amounts \subseteq Nat
  /\ RefundIds \subseteq Nat \ {0}
  /\ FaultKinds \subseteq RequestFaults \cup GatewayFaults
  /\ MaxFaults \in Nat

\* The requests one looks at are finitely many: what they collect is added up.
ASSUME RequestsAssumption == IsFiniteSet(Requests)

Slots == 1..MaxEnrollments
Keys  == ({"pay", "add", "heal", "cancel"} \X Slots) \cup ({"refund"} \X RefundIds)

PaymentKeys == {"pay", "add", "heal"} \X Slots
RefundKeys  == Keys \ PaymentKeys
PaymentsOf(e) == {"pay", "add", "heal"} \X {e}

VARIABLES
  doc,     \* the Student document
  ledger,  \* Keys -> Entry
  notes,   \* number of credit notes in the collection
  pc,      \* pc[r]: the next step of request r, or its outcome
  arg,     \* arg[r]: the request's parameters and locals
  snap,    \* snap[r]: the handler's copy of the document
  faults   \* faults used so far

locals == <<pc, arg, snap>>
vars   == <<doc, ledger, notes, locals, faults>>

-----------------------------------------------------------------------------
(* The document.                                                           *)
Absent == [status |-> "absent", paid |-> FALSE, primary |-> FALSE,
           course |-> FirstCourse, refunded |-> 0]

Pending(c, isPrimary) ==
  [status |-> "pending_payment", paid |-> FALSE, primary |-> isPrimary,
   course |-> c, refunded |-> 0]

NewDoc == [paid |-> FALSE, paidAmount |-> 0, price |-> Price[FirstCourse],
           enr |-> [e \in Slots |-> IF e = 1 THEN Pending(FirstCourse, TRUE) ELSE Absent],
           v |-> 0]

PriceOf(d, e) == Price[d.enr[e].course]
Present(d)    == {e \in Slots : d.enr[e].status # "absent"}
InEffect(d)   == {e \in Present(d) : d.enr[e].status \notin {"cancelled", "refunded"}}
PaidAmong(d)  == {e \in Present(d) : d.enr[e].paid}
Primaries(d)  == {e \in Present(d) : d.enr[e].primary}

\* Operators called Bug... are mistakes the properties must notice.
BugPrimaryOf(d) == Max(Present(d))
BugMinus(a, b) == a - b

(* list.find((e) => e.isPrimary) || list[0]                                *)
PrimaryOf(d) == IF Primaries(d) = {} THEN 1 ELSE Min(Primaries(d))

(* Math.max(0, a - b)                                                      *)
Minus(a, b) == IF a > b THEN a - b ELSE 0

(* save() of a copy: the scalars that differ from the copy as loaded.      *)
Scalars(loaded, copy) ==
  [doc EXCEPT !.paid       = IF copy.paid # loaded.paid THEN copy.paid ELSE @,
              !.paidAmount = IF copy.paidAmount # loaded.paidAmount THEN copy.paidAmount ELSE @,
              !.price      = IF copy.price # loaded.price THEN copy.price ELSE @]

(* The same with markModified('enrollments'), when the version matches.    *)
WholeSave(loaded, copy) ==
  [Scalars(loaded, copy) EXCEPT !.enr = copy.enr, !.v = @ + 1]

-----------------------------------------------------------------------------
(* Requests.                                                               *)
NoArg == [op |-> "none", e |-> 1, course |-> FirstCourse, amt |-> 0, id |-> 0,
          full |-> FALSE, avail |-> 0, note |-> 0, todo |-> {}]

Outcomes == {"ok", "settled", "refused", "failed", "dead"}
InFlight(r) == pc[r] # "new" /\ pc[r] \notin Outcomes
Quiet == \A r \in Requests : ~InFlight(r)

Fault(kind) == kind \in FaultKinds /\ faults < MaxFaults /\ faults' = faults + 1

Arrive(r, op) ==
  /\ op \in Operations
  /\ pc[r] = "new"
  /\ Cardinality({q \in Requests : InFlight(q)}) < MaxInFlight

Goto(r, step) == pc' = [pc EXCEPT ![r] = step]
Keep(r, d)    == snap' = [snap EXCEPT ![r] = d]

(* The handler answers; its locals are gone, except which payment a        *)
(* "settled" answer has confirmed.                                         *)
End(r, outcome) ==
  /\ Goto(r, outcome)
  /\ Keep(r, NewDoc)
  /\ arg' = [arg EXCEPT ![r] = IF outcome = "settled" THEN @ ELSE NoArg]

Refuse(r) == End(r, "refused") /\ UNCHANGED <<doc, ledger, notes, faults>>

BugPaymentKey(r) == <<IF arg[r].op = "enrPay" THEN "pay" ELSE "add", arg[r].e>>

PaymentKey(r) == <<IF arg[r].op = "addPaid" THEN "add" ELSE "pay", arg[r].e>>
RefundKey(r)  == IF arg[r].op = "cancel" THEN <<"cancel", arg[r].e>> ELSE <<"refund", arg[r].id>>

(* settlePayment.  A zero amount writes nothing and is no error.  A        *)
(* failing create may nevertheless have been applied.                      *)
Settle(r, undo) ==
  LET k   == PaymentKey(r)
      amt == arg[r].amt
  IN \/ /\ amt = 0 \/ Accepts(ledger, k, amt)
        /\ ledger' = IF amt = 0 THEN ledger ELSE PostEntry(ledger, k, amt)
        /\ End(r, "settled")
        /\ UNCHANGED <<doc, notes, faults>>
     \/ /\ amt > 0
        /\ \/ ~Accepts(ledger, k, amt) /\ UNCHANGED <<ledger, faults>>
           \/ Fault("ledger") /\ UNCHANGED ledger
           \/ Fault("lostReply") /\ ledger' = PostEntry(ledger, k, amt)
        /\ Goto(r, undo)
        /\ UNCHANGED <<doc, notes, arg, snap>>

-----------------------------------------------------------------------------
(* PUT /students/:id/pay                                                   *)
(***************************************************************************)
PayRead(r) ==
  /\ Arrive(r, "pay")
  /\ IF doc.paid
     THEN Refuse(r)
     ELSE /\ Goto(r, "payClaim")
          /\ arg' = [arg EXCEPT ![r] = [NoArg EXCEPT !.op = "pay",
                       !.amt = IF doc.paidAmount > 0 THEN doc.paidAmount ELSE doc.price]]
          /\ UNCHANGED <<doc, ledger, notes, snap, faults>>

(* The atomic claim { paid: false } -> { paid: true, paidAmount }.         *)
PayClaim(r) ==
  /\ pc[r] = "payClaim"
  /\ IF doc.paid
     THEN Refuse(r)
     ELSE /\ doc' = [doc EXCEPT !.paid = TRUE, !.paidAmount = arg[r].amt]
          /\ Keep(r, doc')
          /\ Goto(r, "paySave")
          /\ UNCHANGED <<ledger, notes, arg, faults>>

BugPayOpens(d, e) == TRUE

PayOpens(d, e) == d.enr[e].primary \/ Present(d) = {e}
Opened(x) == [x EXCEPT !.paid = TRUE,
                       !.status = IF @ \in {"pending_payment", "refunded"} THEN "active" ELSE @]
Closed(x) == [x EXCEPT !.paid = FALSE, !.status = IF @ = "active" THEN "pending_payment" ELSE @]

(* A copy of the document with the enrollments of PUT /pay opened, and one *)
(* with them closed again and the root unpaid.                             *)
PaidCopy(d) ==
  [d EXCEPT !.enr = [e \in Slots |->
     IF e \in Present(d) /\ PayOpens(d, e) THEN Opened(d.enr[e]) ELSE d.enr[e]]]

UnpaidCopy(d) ==
  [d EXCEPT !.paid = FALSE, !.paidAmount = 0,
            !.enr = [e \in Slots |->
     IF e \in Present(d) /\ PayOpens(d, e) THEN Closed(d.enr[e]) ELSE d.enr[e]]]

(* The claimed copy is saved as a whole; a VersionError leaves through the *)
(* outer catch with the root still paid.                                   *)
PaySave(r) ==
  /\ pc[r] = "paySave"
  /\ LET copy == PaidCopy(snap[r])
     IN IF doc.v = snap[r].v
        THEN /\ doc' = WholeSave(snap[r], copy)
             /\ Keep(r, [copy EXCEPT !.v = @ + 1])
             /\ Goto(r, "paySettle")
             /\ arg' = [arg EXCEPT ![r].e = PrimaryOf(copy),
                          ![r].amt = IF copy.paidAmount > 0 THEN copy.paidAmount ELSE copy.price]
        ELSE End(r, "failed") /\ UNCHANGED doc
  /\ UNCHANGED <<ledger, notes, faults>>

PaySettle(r) == pc[r] = "paySettle" /\ Settle(r, "payUndo")

(* The ledger failed: root and enrollments of the copy are closed again;   *)
(* a failing save is only logged.                                          *)
PayUndo(r) ==
  /\ pc[r] = "payUndo"
  /\ doc' = IF doc.v = snap[r].v THEN WholeSave(snap[r], UnpaidCopy(snap[r])) ELSE doc
  /\ End(r, "failed")
  /\ UNCHANGED <<ledger, notes, faults>>

-----------------------------------------------------------------------------
(* PUT /students/:id/enrollments/:enrollmentId/pay                         *)
(***************************************************************************)
Claimed(list, e) == [list EXCEPT ![e] = [list[e] EXCEPT !.paid = TRUE, !.status = "active"]]

(* The read before the claim decides nothing the claim does not decide     *)
(* again, so the two are one step.                                         *)
EnrClaim(r, e) ==
  /\ Arrive(r, "enrPay")
  /\ e \in Present(doc)
  /\ IF doc.enr[e].paid
     THEN Refuse(r)
     ELSE /\ doc' = [doc EXCEPT !.enr = Claimed(doc.enr, e)]
          /\ arg' = [arg EXCEPT ![r] =
                       [NoArg EXCEPT !.op = "enrPay", !.e = e, !.amt = PriceOf(doc, e)]]
          /\ Goto(r, "enrRead")
          /\ UNCHANGED <<ledger, notes, snap, faults>>

EnrRead(r) ==
  /\ pc[r] = "enrRead"
  /\ Keep(r, doc)
  /\ Goto(r, "enrSave")
  /\ UNCHANGED <<doc, ledger, notes, arg, faults>>

CollectedCopy(d, e, amt) ==
  [d EXCEPT !.paidAmount = @ + amt,
            !.paid = \/ @
                     \/ d.enr[e].primary \/ Present(d) = {e}
                     \/ \A i \in Present(d) : d.enr[i].paid \/ d.enr[i].status = "cancelled"
                     \/ PaidAmong(d) # {}]

(* The root cache is added up on the fresh copy; only scalars are saved.   *)
EnrSave(r) ==
  /\ pc[r] = "enrSave"
  /\ LET copy == CollectedCopy(snap[r], arg[r].e, arg[r].amt)
     IN /\ doc' = Scalars(snap[r], copy)
        /\ IF arg[r].amt = 0
           THEN End(r, "ok")
           ELSE Goto(r, "enrSettle") /\ Keep(r, copy) /\ UNCHANGED arg
  /\ UNCHANGED <<ledger, notes, faults>>

EnrSettle(r) == pc[r] = "enrSettle" /\ Settle(r, "undo")

BugTakenBack(d, e, amt) ==
  [d EXCEPT !.enr = [@ EXCEPT ![e] = [@ EXCEPT !.paid = FALSE, !.status = "pending_payment"]]]

(* A copy without the payment of enrollment e, in the list and the root.   *)
TakenBack(d, e, amt) ==
  LET list == [d.enr EXCEPT ![e] = [@ EXCEPT !.paid = FALSE, !.status = "pending_payment"]]
  IN [d EXCEPT !.enr = list,
               !.paidAmount = Minus(@, amt),
               !.paid = \E i \in Slots : list[i].paid /\ list[i].status # "cancelled"]

(* The ledger failed after an enrollment payment or a paid registration.   *)
Undo(r) ==
  /\ pc[r] = "undo"
  /\ doc' = IF doc.v = snap[r].v
            THEN WholeSave(snap[r], TakenBack(snap[r], arg[r].e, arg[r].amt)) ELSE doc
  /\ End(r, "failed")
  /\ UNCHANGED <<ledger, notes, faults>>

-----------------------------------------------------------------------------
(* POST /students/:id/enrollments                                          *)
(***************************************************************************)
(* Registered already, unless that registration was cancelled.             *)
Duplicate(d, c) ==
  \E e \in Present(d) : d.enr[e].course = c /\ d.enr[e].status # "cancelled"

AddRead(r, c, op) ==
  /\ op \in {"add", "addPaid"}
  /\ Arrive(r, op)
  /\ IF Duplicate(doc, c)
     THEN Refuse(r)
     ELSE /\ arg' = [arg EXCEPT ![r] = [NoArg EXCEPT !.op = op, !.course = c,
                       !.amt = IF op = "addPaid" THEN Price[c] ELSE 0]]
          /\ Keep(r, doc)
          /\ Goto(r, "addSave")
          /\ UNCHANGED <<doc, ledger, notes, faults>>

Registration(c, paid) == IF paid THEN Opened(Pending(c, FALSE)) ELSE Pending(c, FALSE)

AddedCopy(d, e, new, amt) ==
  [d EXCEPT !.enr = [@ EXCEPT ![e] = new], !.paidAmount = @ + amt, !.paid = @ \/ amt > 0]

(* The $push lands at the end of the array as it is by now.                *)
AddSave(r) ==
  /\ pc[r] = "addSave"
  /\ Slots # Present(doc)
  /\ LET e    == Min(Slots \ Present(doc))
         new  == Registration(arg[r].course, arg[r].op = "addPaid")
         copy == AddedCopy(snap[r], e, new, arg[r].amt)
     IN /\ doc' = [Scalars(snap[r], copy) EXCEPT !.enr = [@ EXCEPT ![e] = new], !.v = @ + 1]
        /\ IF arg[r].amt > 0
           THEN /\ Keep(r, [copy EXCEPT !.v = @ + 1])
                /\ arg' = [arg EXCEPT ![r].e = e]
                /\ Goto(r, "addSettle")
           ELSE End(r, "ok")
  /\ UNCHANGED <<ledger, notes, faults>>

AddSettle(r) == pc[r] = "addSettle" /\ Settle(r, "undo")

-----------------------------------------------------------------------------
(* postRefund: the entry, then a numbered credit note, and when that fails *)
(* the entry is voided.                                                    *)
(***************************************************************************)
(* What the caller does next: a cancellation goes on to its save, a refund *)
(* answers, or puts the root back when the key was taken.                  *)
AfterRefund(r, created) ==
  CASE arg[r].op = "cancel" -> Goto(r, "cancelSave") /\ UNCHANGED <<arg, snap>>
    [] arg[r].op = "refund" /\ created -> End(r, "ok")
    [] OTHER -> Goto(r, "restored") /\ UNCHANGED <<arg, snap>>

RefundThrows(r) ==
  IF arg[r].op = "cancel" THEN End(r, "failed")
                          ELSE Goto(r, "restore") /\ UNCHANGED <<arg, snap>>

PostRefund(r) ==
  /\ pc[r] = "postRefund"
  /\ LET k == RefundKey(r)
     IN \/ /\ ledger' = PostEntry(ledger, k, arg[r].amt)
           /\ IF Free(ledger, k) THEN Goto(r, "countNotes") /\ UNCHANGED <<arg, snap>>
                                 ELSE AfterRefund(r, FALSE)
           /\ UNCHANGED faults
        \/ /\ \/ Fault("ledger") /\ UNCHANGED ledger
              \/ Fault("lostReply") /\ ledger' = PostEntry(ledger, k, arg[r].amt)
           /\ RefundThrows(r)
  /\ UNCHANGED <<doc, notes>>

(* countDocuments() + 1 is the number of the note about to be created.     *)
CountNotes(r) ==
  /\ pc[r] = "countNotes"
  /\ arg' = [arg EXCEPT ![r].note = notes + 1]
  /\ Goto(r, "issueNote")
  /\ UNCHANGED <<doc, ledger, notes, snap, faults>>

(* The number is unique: a note counted before another was created fails.  *)
IssueNote(r) ==
  /\ pc[r] = "issueNote"
  /\ \/ /\ arg[r].note > notes
        /\ notes' = notes + 1
        /\ AfterRefund(r, TRUE)
        /\ UNCHANGED faults
     \/ /\ \/ arg[r].note <= notes /\ UNCHANGED faults
           \/ Fault("creditNote")
        /\ Goto(r, "voidRefund")
        /\ UNCHANGED <<notes, arg, snap>>
  /\ UNCHANGED <<doc, ledger>>

(* The void itself, or its reversal, may fail; that is only logged.        *)
VoidRefund(r) ==
  /\ pc[r] = "voidRefund"
  /\ LET k == RefundKey(r)
     IN \/ ledger' = VoidEntry(ledger, k) /\ UNCHANGED faults
        \/ Fault("ledger") /\ ledger' \in {ledger, VoidEntry(ledger, k)}
  /\ RefundThrows(r)
  /\ UNCHANGED <<doc, notes>>

-----------------------------------------------------------------------------
(* DELETE /students/:id/enrollments/:enrollmentId                          *)
(***************************************************************************)
BugCancelRead(r, e, amt) ==
  /\ Arrive(r, "cancel")
  /\ e \in Present(doc)
  /\ amt <= PriceOf(doc, e)
  /\ IF doc.enr[e].status = "cancelled"
     THEN Refuse(r)
     ELSE /\ arg' = [arg EXCEPT ![r] = [NoArg EXCEPT !.op = "cancel", !.e = e, !.amt = amt]]
          /\ Keep(r, doc)
          /\ Goto(r, IF amt > 0 THEN "postRefund" ELSE "cancelSave")
          /\ UNCHANGED <<doc, ledger, notes, faults>>

(* Only a paid enrollment is refunded, and at most its own price.          *)
CancelRead(r, e, amt) ==
  /\ Arrive(r, "cancel")
  /\ e \in Present(doc)
  /\ amt <= (IF doc.enr[e].paid THEN PriceOf(doc, e) ELSE 0)
  /\ IF doc.enr[e].status = "cancelled"
     THEN Refuse(r)
     ELSE /\ arg' = [arg EXCEPT ![r] = [NoArg EXCEPT !.op = "cancel", !.e = e, !.amt = amt]]
          /\ Keep(r, doc)
          /\ Goto(r, IF amt > 0 THEN "postRefund" ELSE "cancelSave")
          /\ UNCHANGED <<doc, ledger, notes, faults>>

(* The cancelled copy: the primary role moves to the next enrollment that  *)
(* is not cancelled, and syncStudentFromPrimaryEnrollment sets the root.   *)
Cancelled(d, e, amt) ==
  LET rest == {i \in Present(d) \ {e} : d.enr[i].status # "cancelled"}
      list == [i \in Slots |->
                 IF i = e
                 THEN [d.enr[i] EXCEPT !.status = "cancelled", !.paid = FALSE,
                                       !.primary = FALSE, !.refunded = amt]
                 ELSE IF d.enr[e].primary /\ rest # {} /\ i = Min(rest)
                      THEN [d.enr[i] EXCEPT !.primary = TRUE]
                      ELSE d.enr[i]]
      new  == [d EXCEPT !.enr = list]
      lead == IF Primaries(new) \cap InEffect(new) # {}
              THEN Min(Primaries(new) \cap InEffect(new))
              ELSE Min(InEffect(new))
  IN [new EXCEPT
        !.price = IF InEffect(new) = {} THEN 0 ELSE PriceOf(new, lead),
        !.paid = \E i \in Present(new) : list[i].status # "cancelled" /\ list[i].paid,
        !.paidAmount = Minus(@, amt)]

CancelSave(r) ==
  /\ pc[r] = "cancelSave"
  /\ IF doc.v = snap[r].v
     THEN /\ doc' = WholeSave(snap[r], Cancelled(snap[r], arg[r].e, arg[r].amt))
          /\ End(r, "ok")
     ELSE End(r, "failed") /\ UNCHANGED doc
  /\ UNCHANGED <<ledger, notes, faults>>

-----------------------------------------------------------------------------
(* PUT /students/:id/refund (refundStudentTuition)                         *)
(***************************************************************************)
Available(d) == IF d.paidAmount > 0 THEN d.paidAmount ELSE d.price

RefundRead(r, amt, id) ==
  /\ Arrive(r, "refund")
  /\ IF ~doc.paid \/ amt > Available(doc)
     THEN Refuse(r)
     ELSE /\ arg' = [arg EXCEPT ![r] = [NoArg EXCEPT !.op = "refund", !.id = id, !.amt = amt,
                       !.avail = Available(doc), !.full = (amt = Available(doc))]]
          /\ Goto(r, IF doc.paidAmount > 0 THEN "refundClaim" ELSE "refundFill")
          /\ UNCHANGED <<doc, ledger, notes, snap, faults>>

(* A paid student without paidAmount is given the price as paidAmount.     *)
RefundFill(r) ==
  /\ pc[r] = "refundFill"
  /\ doc' = IF doc.paid /\ doc.paidAmount = 0 THEN [doc EXCEPT !.paidAmount = arg[r].avail] ELSE doc
  /\ Goto(r, "refundClaim")
  /\ UNCHANGED <<ledger, notes, arg, snap, faults>>

RefundClaim(r) ==
  /\ pc[r] = "refundClaim"
  /\ IF ~doc.paid \/ doc.paidAmount < arg[r].amt
     THEN Refuse(r)
     ELSE /\ doc' = IF arg[r].full THEN [doc EXCEPT !.paid = FALSE, !.paidAmount = 0]
                                   ELSE [doc EXCEPT !.paidAmount = @ - arg[r].amt]
          /\ Keep(r, doc')
          /\ Goto(r, IF arg[r].full THEN "refundSave" ELSE "postRefund")
          /\ UNCHANGED <<ledger, notes, arg, faults>>

RefundedCopy(d) ==
  [d EXCEPT !.enr = [e \in Slots |->
     IF d.enr[e].paid THEN [d.enr[e] EXCEPT !.paid = FALSE, !.status = "refunded"] ELSE d.enr[e]]]

(* A full refund closes every paid enrollment; a VersionError leaves with  *)
(* the claim standing and nothing posted.                                  *)
RefundSave(r) ==
  /\ pc[r] = "refundSave"
  /\ IF doc.v = snap[r].v
     THEN doc' = WholeSave(snap[r], RefundedCopy(snap[r])) /\ Goto(r, "postRefund") /\ UNCHANGED <<arg, snap>>
     ELSE End(r, "failed") /\ UNCHANGED doc
  /\ UNCHANGED <<ledger, notes, faults>>

(* The root is put back to what the handler first read; enrollments are    *)
(* not.  The answer is an error, or "already refunded" for a taken key.    *)
RefundRestore(r) ==
  /\ pc[r] \in {"restore", "restored"}
  /\ doc' = [doc EXCEPT !.paid = TRUE, !.paidAmount = arg[r].avail]
  /\ End(r, IF pc[r] = "restore" THEN "failed" ELSE "ok")
  /\ UNCHANGED <<ledger, notes, faults>>

-----------------------------------------------------------------------------
(* POST /finance/students/:id/heal-orphans                                 *)
(***************************************************************************)
HealRead(r) ==
  /\ Arrive(r, "heal")
  /\ arg' = [arg EXCEPT ![r] = [NoArg EXCEPT !.op = "heal",
               !.todo = {e \in InEffect(doc) \cap PaidAmong(doc) : PriceOf(doc, e) > 0}]]
  /\ Keep(r, doc)
  /\ Goto(r, "healCheck")
  /\ UNCHANGED <<doc, ledger, notes, faults>>

Covered(e) == \E k \in PaymentsOf(e) : Posted(ledger, k)

BugHealCheck(r) ==
  /\ pc[r] = "healCheck"
  /\ arg' = [arg EXCEPT ![r].todo = {e \in @ : \A k \in PaymentKeys : ~Posted(ledger, k)}]
  /\ Goto(r, "healPost")
  /\ UNCHANGED <<doc, ledger, notes, snap, faults>>

HealCheck(r) ==
  /\ pc[r] = "healCheck"
  /\ arg' = [arg EXCEPT ![r].todo = {e \in @ : ~Covered(e)}]
  /\ Goto(r, "healPost")
  /\ UNCHANGED <<doc, ledger, notes, snap, faults>>

(* One missing payment at a time; an error skips to the next one.          *)
HealPost(r) ==
  /\ pc[r] = "healPost"
  /\ IF arg[r].todo = {}
     THEN End(r, "ok") /\ UNCHANGED <<ledger, faults>>
     ELSE LET e == Min(arg[r].todo)
          IN /\ \/ ledger' = PostEntry(ledger, <<"heal", e>>, PriceOf(snap[r], e)) /\ UNCHANGED faults
                \/ Fault("heal") /\ UNCHANGED ledger
             /\ arg' = [arg EXCEPT ![r].todo = @ \ {e}]
             /\ UNCHANGED <<pc, snap>>
  /\ UNCHANGED <<doc, notes>>

-----------------------------------------------------------------------------
(* POST /finance/ledger/:id/void                                           *)
(***************************************************************************)
(* An administrator voids a posted entry, a payment or a refund; the       *)
(* document is left as it is.                                              *)
LedgerVoid(k) ==
  /\ "void" \in Operations
  /\ Posted(ledger, k)
  /\ ledger' = VoidEntry(ledger, k)
  /\ UNCHANGED <<doc, notes, locals, faults>>

-----------------------------------------------------------------------------
(* The process dies between two steps of a request; nothing is undone.     *)
Crash(r) ==
  /\ InFlight(r)
  /\ Fault("crash")
  /\ End(r, "dead")
  /\ UNCHANGED <<doc, ledger, notes>>

Init ==
  /\ doc    = NewDoc
  /\ ledger = [k \in Keys |-> NoEntry]
  /\ notes  = 0
  /\ pc     = [r \in Requests |-> "new"]
  /\ arg    = [r \in Requests |-> NoArg]
  /\ snap   = [r \in Requests |-> NewDoc]
  /\ faults = 0

Begin(r) ==
  \/ PayRead(r) \/ HealRead(r)
  \/ \E e \in Slots : EnrClaim(r, e)
  \/ \E c \in Courses, op \in {"add", "addPaid"} : AddRead(r, c, op)
  \/ \E e \in Slots, amt \in Amounts : CancelRead(r, e, amt)
  \/ \E amt \in Amounts \ {0}, id \in RefundIds : RefundRead(r, amt, id)

Continue(r) ==
  \/ PayClaim(r) \/ PaySave(r) \/ PaySettle(r) \/ PayUndo(r)
  \/ EnrRead(r) \/ EnrSave(r) \/ EnrSettle(r) \/ Undo(r)
  \/ AddSave(r) \/ AddSettle(r)
  \/ PostRefund(r) \/ CountNotes(r) \/ IssueNote(r) \/ VoidRefund(r)
  \/ CancelSave(r)
  \/ RefundFill(r) \/ RefundClaim(r) \/ RefundSave(r) \/ RefundRestore(r)
  \/ HealCheck(r) \/ HealPost(r)

Next ==
  \/ \E r \in Requests : Begin(r) \/ Continue(r) \/ Crash(r)
  \/ \E k \in Keys : LedgerVoid(k)

Spec == Init /\ [][Next]_vars

-----------------------------------------------------------------------------
Enrollment ==
  [status : {"absent", "pending_payment", "active", "refunded", "cancelled"},
   paid : BOOLEAN, primary : BOOLEAN, course : Courses, refunded : Nat]

Document ==
  [paid : BOOLEAN, paidAmount : Nat, price : Nat, v : Nat, enr : [Slots -> Enrollment]]

Argument ==
  [op : AllOperations \cup {"none"}, e : Slots, course : Courses, amt : Nat,
   id : RefundIds \cup {0}, full : BOOLEAN, avail : Nat, note : Nat, todo : SUBSET Slots]

Steps ==
  {"payClaim", "paySave", "paySettle", "payUndo", "enrRead", "enrSave", "enrSettle", "undo",
   "addSave", "addSettle", "postRefund", "countNotes", "issueNote", "voidRefund",
   "cancelSave", "refundFill", "refundClaim", "refundSave", "restore", "restored",
   "healCheck", "healPost"}

(* Every variable holds a value of its kind; in particular no subtraction  *)
(* takes paidAmount below zero.                                            *)
TypeOK ==
  /\ doc \in Document
  /\ ledger \in [Keys -> Entry]
  /\ notes \in Nat
  /\ pc \in [Requests -> {"new"} \cup Steps \cup Outcomes]
  /\ arg \in [Requests -> Argument]
  /\ snap \in [Requests -> Document]
  /\ faults \in 0..MaxFaults

(* No request is running and none died half-way.                           *)
Settled == Quiet /\ \A r \in Requests : pc[r] # "dead"

Payments == PostedTotal(ledger, PaymentKeys)
Refunds  == PostedTotal(ledger, RefundKeys)
Open     == InEffect(doc) \cap PaidAmong(doc)

Answered(r)  == pc[r] = "settled" /\ arg[r].amt > 0
BookedFor(r) == Posted(ledger, PaymentKey(r)) /\ ledger[PaymentKey(r)].amount = arg[r].amt

(* A payment is in the ledger, under its key and with its amount, when it  *)
(* is answered with 200, and nothing but a void of that entry by hand ever *)
(* takes it out (settlePayment's collision check, ledgerService.js:114).   *)
SettledIsBooked ==
  [][\A r \in Requests :
       Answered(r)' /\ (Answered(r) => BookedFor(r)) =>
         BookedFor(r)' \/ LedgerVoid(PaymentKey(r))]_vars

(* Once all requests have ended and nothing failed, no enrollment is open  *)
(* as paid without a payment of its own in the ledger                      *)
(* (healOrphanEnrollmentPayments' notion of an orphan).                    *)
PaidIsBooked ==
  Settled /\ faults = 0 => \A e \in Open : PriceOf(doc, e) > 0 => Covered(e)

(* The tuition of one enrollment is booked once, whichever endpoints       *)
(* collect it at the same time (the keys of /pay and /enrollments/.../pay).*)
BookedOnce ==
  \A e \in Slots : Cardinality({k \in PaymentsOf(e) : Posted(ledger, k)}) <= 1

(* What the ledger took in, net of refunds, pays for what is open, unless  *)
(* a payment was voided by hand.                                           *)
PaymentVoided == \E k \in PaymentKeys : ledger[k].status = "void"

PaidIsCollected ==
  Settled /\ ~PaymentVoided =>
    MapThenSumSet(LAMBDA e : PriceOf(doc, e), Open) + Refunds <= Payments

(* The root flag and the enrollments say the same.                         *)
RootAgrees == Settled => (doc.paid <=> Open # {})

(* The root amount is what the ledger took in, net of refunds.             *)
AmountAgrees == Settled => doc.paidAmount + Refunds = Payments

(* Unless a write failed, what a cancellation gave back had been taken in  *)
(* for that enrollment.                                                    *)
RefundWasPaid ==
  Settled /\ faults = 0 => \A e \in Slots : Posted(ledger, <<"cancel", e>>) => Covered(e)

(* Every posted refund has its credit note, and no voided one has, though  *)
(* concurrent refunds may draw the same note number; only a failing void   *)
(* or a lost reply may separate the two.                                   *)
NotesMatchRefunds ==
  Settled /\ faults = 0 => notes = Cardinality({k \in RefundKeys : Posted(ledger, k)})

(* A cancelled enrollment with a refund has that refund in the ledger.     *)
CancelIsBooked ==
  Settled => \A e \in Slots : doc.enr[e].status = "cancelled" /\ doc.enr[e].refunded > 0 =>
     /\ Posted(ledger, <<"cancel", e>>)
     /\ ledger[<<"cancel", e>>].amount = doc.enr[e].refunded

(* A payment confirmed for an enrollment is the price of that enrollment.  *)
SettledAtPrice ==
  \A r \in Requests : pc[r] = "settled" => arg[r].amt = PriceOf(doc, arg[r].e)

(* A heal run that answers, and none of whose own writes failed, leaves    *)
(* no orphan behind, whatever crashed before it.                           *)
HealLeavesNoOrphan ==
  [][\A r \in Requests : pc[r] = "healPost" /\ pc'[r] = "ok" =>
       \A e \in Open : PriceOf(doc, e) > 0 => Covered(e)]_vars
=============================================================================
