------------------------------- MODULE SePay -------------------------------
(***************************************************************************)
(* Bank transfers reported by the SePay gateway (routes/webhookRoutes.js), *)
(* beside the requests of Tuition that work on the same student.           *)
(*                                                                         *)
(* A delivery of a transfer looks for a pending payment session first and  *)
(* for an unpaid student second, claims what it found, books the payment   *)
(* and marks the transfer as matched.  Each awaited database operation is  *)
(* one action.  There is one student: that a transfer fits a second unpaid *)
(* student too is a choice of the environment (SeekStudent).               *)
(*                                                                         *)
(* Ledger entries of payment sessions have keys of their own and carry no  *)
(* enrollment; they are kept apart from Tuition's ledger, in received.     *)
(* A session asks for the price of its course.  Left out are sessions of   *)
(* video courses or without an amount, the 24 h after which the database   *)
(* drops a session, invoices and notifications.                            *)
(***************************************************************************)
EXTENDS Tuition

CONSTANTS
  Sessions,    \* payment sessions, numbered in the order of their creation
  SessionOf,   \* SessionOf[s]: its ref, course and whether it names the student
  Transfers,   \* bank transfers
  TransferOf,  \* TransferOf[t]: its amount, the ref and the code in its content
  Webhooks     \* slots for deliveries

ASSUME SePayAssumption ==
  /\ Sessions \subseteq Nat \ {0}
  /\ \A s \in Sessions : SessionOf[s].course \in Courses /\ SessionOf[s].linked \in BOOLEAN
  /\ \A t \in Transfers : TransferOf[t].amount \in Nat \ {0} /\ TransferOf[t].code \in BOOLEAN
  /\ \A c, d \in Courses : Price[c] = Price[d] => c = d

\* So are the sessions and the transfers.
ASSUME FiniteAssumption == IsFiniteSet(Sessions) /\ IsFiniteSet(Transfers)

VARIABLES
  sess,      \* sess[s]: status of a session
  polls,     \* sessions an expiry check has read as unpaid and will save
  event,     \* event[t]: "none", "open", or "matched" with the key booked
  received,  \* Sessions -> ledger entry
  wpc,       \* wpc[w]: next step of a delivery, or its outcome
  warg,      \* warg[w]: its locals
  wsnap      \* wsnap[w]: its copy of the document

wlocals == <<wpc, warg, wsnap>>
gateway == <<sess, polls, event, received>>
svars   == <<vars, gateway, wlocals>>

NoWArg == [t |-> "none", s |-> 0, e |-> 1, fresh |-> FALSE]
NoKey  == <<"none", 0>>

WOutcomes == {"matched", "unmatched", "duplicate", "dead"}
Delivering(w) == wpc[w] # "new" /\ wpc[w] \notin WOutcomes

WGoto(w, step) == wpc' = [wpc EXCEPT ![w] = step]
WKeep(w, d)    == wsnap' = [wsnap EXCEPT ![w] = d]

WEnd(w, outcome) ==
  /\ WGoto(w, outcome)
  /\ WKeep(w, NewDoc)
  /\ warg' = [warg EXCEPT ![w] = IF outcome = "dead" THEN [NoWArg EXCEPT !.t = warg[w].t] ELSE NoWArg]

Unanswered(t) == \E w \in Webhooks : (Delivering(w) \/ wpc[w] = "dead") /\ warg[w].t = t

\* Operators called Bug... are mistakes the properties must notice.
AmountOf(w) == TransferOf[warg[w].t].amount

-----------------------------------------------------------------------------
(* Payment sessions.                                                       *)
CreateSession(s) ==
  /\ sess[s] = "absent"
  /\ \A i \in Sessions : i < s => sess[i] # "absent"
  /\ sess' = [sess EXCEPT ![s] = "pending"]
  /\ UNCHANGED <<vars, polls, event, received, wlocals>>

(* The check of a session older than its 15 minutes reads it unpaid, ...   *)
PollRead(s) ==
  /\ sess[s] = "pending"
  /\ polls' = polls \cup {s}
  /\ UNCHANGED <<vars, sess, event, received, wlocals>>

(* ... and saves it as expired, whatever it has become meanwhile.          *)
PollSave(s) ==
  /\ s \in polls
  /\ polls' = polls \ {s}
  /\ sess' = [sess EXCEPT ![s] = "expired"]
  /\ UNCHANGED <<vars, event, received, wlocals>>

-----------------------------------------------------------------------------
(* POST /webhooks/sepay: a delivery of transfer t.                         *)
(***************************************************************************)
(* The event is inserted; a second delivery goes on unless it is matched.  *)
Deliver(w, t) ==
  /\ wpc[w] = "new"
  /\ IF Unanswered(t) THEN Fault("replay") ELSE UNCHANGED faults
  /\ event' = [event EXCEPT ![t].state = IF @ = "none" THEN "open" ELSE @]
  /\ IF event[t].state = "matched"
     THEN WEnd(w, "duplicate")
     ELSE /\ WGoto(w, "seekSession")
          /\ warg' = [warg EXCEPT ![w].t = t]
          /\ UNCHANGED wsnap
  /\ UNCHANGED <<doc, ledger, notes, locals, sess, polls, received>>

Fits(s, t) ==
  /\ SessionOf[s].ref = TransferOf[t].ref
  /\ Price[SessionOf[s].course] = TransferOf[t].amount

ToStudent(w) == WGoto(w, "seekStudent") /\ warg' = [warg EXCEPT ![w].s = 0]

(* The first pending session whose ref and amount the transfer has.        *)
SeekSession(w) ==
  /\ wpc[w] = "seekSession"
  /\ LET found == {s \in Sessions : sess[s] = "pending" /\ Fits(s, warg[w].t)}
     IN IF found = {}
        THEN ToStudent(w)
        ELSE WGoto(w, "claimSession") /\ warg' = [warg EXCEPT ![w].s = Min(found)]
  /\ UNCHANGED <<vars, gateway, wsnap>>

ClaimSession(w) ==
  /\ wpc[w] = "claimSession"
  /\ IF sess[warg[w].s] = "pending"
     THEN /\ sess' = [sess EXCEPT ![warg[w].s] = "paid"]
          /\ WGoto(w, "settleSession")
          /\ UNCHANGED warg
     ELSE ToStudent(w) /\ UNCHANGED sess
  /\ UNCHANGED <<vars, polls, event, received, wsnap>>

(* A ledger write that reports an error may nevertheless be applied.       *)
LedgerFails(book, before, after) ==
  \E kind \in {"hookLedger", "hookLostReply"} :
    Fault(kind) /\ book = IF kind = "hookLostReply" THEN after ELSE before

BugSettleSession(w) ==
  /\ wpc[w] = "settleSession"
  /\ received' = PostEntry(received, warg[w].s, AmountOf(w))
  /\ WGoto(w, IF SessionOf[warg[w].s].linked THEN "enrollRead" ELSE "seekStudent")
  /\ UNCHANGED <<vars, sess, polls, event, warg, wsnap>>

SettleSession(w) ==
  /\ wpc[w] = "settleSession"
  /\ LET s      == warg[w].s
         booked == PostEntry(received, s, AmountOf(w))
     IN \/ /\ Accepts(received, s, AmountOf(w))
           /\ received' = booked
           /\ WGoto(w, IF SessionOf[s].linked THEN "enrollRead" ELSE "mark")
           /\ UNCHANGED faults
        \/ /\ \/ ~Accepts(received, s, AmountOf(w)) /\ UNCHANGED <<received, faults>>
              \/ LedgerFails(received', received, booked)
           /\ WGoto(w, "releaseSession")
  /\ UNCHANGED <<doc, ledger, notes, locals, sess, polls, event, warg, wsnap>>

BugReleaseSession(w) ==
  /\ wpc[w] = "releaseSession"
  /\ ToStudent(w)
  /\ UNCHANGED <<vars, gateway, wsnap>>

(* The claim is taken back and the delivery goes on to the student codes.  *)
ReleaseSession(w) ==
  /\ wpc[w] = "releaseSession"
  /\ sess' = [sess EXCEPT ![warg[w].s] = "pending"]
  /\ ToStudent(w)
  /\ UNCHANGED <<vars, polls, event, received, wsnap>>

-----------------------------------------------------------------------------
BugReEnrolled(d, e, c) ==
  [d EXCEPT !.paid = TRUE, !.paidAmount = Price[c], !.price = Price[c],
            !.enr = [i \in Slots |-> IF i = e THEN [Pending(c, TRUE) EXCEPT !.paid = TRUE, !.status = "Active"]
                                               ELSE [d.enr[i] EXCEPT !.primary = FALSE]]]

(* applyReEnrollmentAfterPayment: a new paid enrollment becomes primary    *)
(* and the root is set to it; paidAmount is replaced, not added to.        *)
ReEnrolled(d, e, c) ==
  [d EXCEPT !.paid = TRUE, !.paidAmount = Price[c], !.price = Price[c],
            !.enr = [i \in Slots |-> IF i = e THEN Opened(Pending(c, TRUE))
                                               ELSE [d.enr[i] EXCEPT !.primary = FALSE]]]

(* A removed enrollment never comes back: its slot is used again only if   *)
(* no ledger entry names it.                                               *)
FreeSlots(d) == {e \in Slots \ Present(d) : \A k \in PaymentsOf(e) : Free(ledger, k)}

(* The student of the session is read, given the enrollment and saved; a   *)
(* VersionError is logged and the transfer counts as matched.              *)
EnrollRead(w) ==
  /\ wpc[w] = "enrollRead"
  /\ WKeep(w, doc)
  /\ WGoto(w, "enrollSave")
  /\ UNCHANGED <<vars, gateway, warg>>

EnrollSave(w) ==
  /\ wpc[w] = "enrollSave"
  /\ FreeSlots(wsnap[w]) # {}
  /\ LET copy == ReEnrolled(wsnap[w], Min(FreeSlots(wsnap[w])), SessionOf[warg[w].s].course)
     IN doc' = IF doc.v = wsnap[w].v THEN WholeSave(wsnap[w], copy) ELSE doc
  /\ WGoto(w, "mark")
  /\ UNCHANGED <<ledger, notes, locals, faults, gateway, warg, wsnap>>

-----------------------------------------------------------------------------
(* The student whose code is in the content: unpaid, and the amount is the *)
(* root price.  A second student that fits as well ends the delivery.      *)
SeekStudent(w) ==
  /\ wpc[w] = "seekStudent"
  /\ LET unpaid == {e \in InEffect(doc) : ~doc.enr[e].paid}
     IN \/ WEnd(w, "unmatched")
        \/ /\ TransferOf[warg[w].t].code /\ ~doc.paid /\ doc.price = AmountOf(w)
           /\ warg' = [warg EXCEPT ![w].fresh = (unpaid = {}),
                                   ![w].e = IF unpaid = {} THEN @ ELSE Min(unpaid)]
           /\ WGoto(w, IF unpaid = {} THEN "freshRead" ELSE "claimStudent")
           /\ UNCHANGED wsnap
  /\ UNCHANGED <<vars, gateway>>

BugClaimStudent(w) ==
  /\ wpc[w] = "claimStudent"
  /\ doc' = [doc EXCEPT !.paid = TRUE, !.paidAmount = AmountOf(w),
                        !.enr = Claimed(doc.enr, warg[w].e)]
  /\ WGoto(w, "settleStudent")
  /\ UNCHANGED <<ledger, notes, locals, faults, gateway, warg, wsnap>>

(* The atomic claim { paid: false } opens root and enrollment at once.     *)
ClaimStudent(w) ==
  /\ wpc[w] = "claimStudent"
  /\ IF doc.paid
     THEN WEnd(w, "unmatched") /\ UNCHANGED doc
     ELSE /\ doc' = [doc EXCEPT !.paid = TRUE, !.paidAmount = AmountOf(w),
                                !.enr = Claimed(doc.enr, warg[w].e)]
          /\ WGoto(w, "settleStudent")
          /\ UNCHANGED <<warg, wsnap>>
  /\ UNCHANGED <<ledger, notes, locals, faults, gateway>>

(* Nothing to attach the payment to: a new enrollment of the root course.  *)
FreshRead(w) ==
  /\ wpc[w] = "freshRead"
  /\ IF doc.paid
     THEN WEnd(w, "unmatched")
     ELSE WKeep(w, doc) /\ WGoto(w, "freshSave") /\ UNCHANGED warg
  /\ UNCHANGED <<vars, gateway>>

CourseAt(price) == CHOOSE c \in Courses : Price[c] = price

FreshSave(w) ==
  /\ wpc[w] = "freshSave"
  /\ FreeSlots(wsnap[w]) # {}
  /\ LET e == Min(FreeSlots(wsnap[w]))
     IN IF doc.v = wsnap[w].v
        THEN /\ doc' = WholeSave(wsnap[w], ReEnrolled(wsnap[w], e, CourseAt(AmountOf(w))))
             /\ warg' = [warg EXCEPT ![w].e = e]
             /\ WGoto(w, "settleStudent")
             /\ UNCHANGED wsnap
        ELSE WEnd(w, "unmatched") /\ UNCHANGED doc
  /\ UNCHANGED <<ledger, notes, locals, faults, gateway>>

BugStudentKey(w) == <<"add", warg[w].e>>

(* The key of PUT /students/:id/pay for the same enrollment.               *)
StudentKey(w) == <<"pay", warg[w].e>>

BugSettleStudent(w) ==
  /\ wpc[w] = "settleStudent"
  /\ LET booked == PostEntry(ledger, StudentKey(w), AmountOf(w))
     IN \/ ledger' = booked /\ UNCHANGED faults
        \/ LedgerFails(ledger', ledger, booked)
  /\ WGoto(w, "mark")
  /\ UNCHANGED <<doc, notes, locals, gateway, warg, wsnap>>

SettleStudent(w) ==
  /\ wpc[w] = "settleStudent"
  /\ LET booked == PostEntry(ledger, StudentKey(w), AmountOf(w))
     IN \/ /\ Accepts(ledger, StudentKey(w), AmountOf(w))
           /\ ledger' = booked
           /\ WGoto(w, "mark")
           /\ UNCHANGED faults
        \/ /\ \/ ~Accepts(ledger, StudentKey(w), AmountOf(w)) /\ UNCHANGED <<ledger, faults>>
              \/ LedgerFails(ledger', ledger, booked)
           /\ WGoto(w, IF warg[w].fresh THEN "dropRead" ELSE "takeBack")
  /\ UNCHANGED <<doc, notes, locals, gateway, warg, wsnap>>

-----------------------------------------------------------------------------
(* Ledger failure: what the claim has set is reset, unconditionally.       *)
TakeBack(w) ==
  /\ wpc[w] = "takeBack"
  /\ doc' = [doc EXCEPT !.paid = FALSE, !.paidAmount = 0,
                        !.enr = [@ EXCEPT ![warg[w].e] =
                                   [doc.enr[warg[w].e] EXCEPT !.paid = FALSE, !.status = "pending_payment"]]]
  /\ WEnd(w, "unmatched")
  /\ UNCHANGED <<ledger, notes, locals, faults, gateway>>

(* ... or the new enrollment is taken out of a fresh copy of the document. *)
DropRead(w) ==
  /\ wpc[w] = "dropRead"
  /\ WKeep(w, doc)
  /\ WGoto(w, "dropSave")
  /\ UNCHANGED <<vars, gateway, warg>>

(* The root becomes what syncStudentFromPrimaryEnrollment makes of the     *)
(* enrollments that are left.                                              *)
Dropped(d, e) ==
  LET rest == [d EXCEPT !.paid = FALSE, !.paidAmount = 0, !.enr = [@ EXCEPT ![e] = Absent]]
      lead == IF Primaries(rest) \cap InEffect(rest) # {}
              THEN Min(Primaries(rest) \cap InEffect(rest)) ELSE Min(InEffect(rest))
  IN IF Present(rest) = {} THEN rest
     ELSE IF InEffect(rest) = {} THEN [rest EXCEPT !.price = 0]
     ELSE [rest EXCEPT !.price = PriceOf(rest, lead), !.paid = rest.enr[lead].paid]

DropSave(w) ==
  /\ wpc[w] = "dropSave"
  /\ doc' = IF doc.v = wsnap[w].v
            THEN WholeSave(wsnap[w], Dropped(wsnap[w], warg[w].e)) ELSE doc
  /\ WEnd(w, "unmatched")
  /\ UNCHANGED <<ledger, notes, locals, faults, gateway>>

-----------------------------------------------------------------------------
(* The transfer is marked as matched.                                      *)
Mark(w) ==
  /\ wpc[w] = "mark"
  /\ event' = [event EXCEPT ![warg[w].t] =
                 [state |-> "matched",
                  key   |-> IF warg[w].s # 0 THEN <<"session", warg[w].s>> ELSE StudentKey(w)]]
  /\ WEnd(w, "matched")
  /\ UNCHANGED <<vars, sess, polls, received>>

-----------------------------------------------------------------------------
(* POST /finance/ledger/:id/void on the payment of a session (LedgerVoid   *)
(* for the entries of Tuition).                                            *)
VoidReceived(s) ==
  /\ "void" \in Operations
  /\ Posted(received, s)
  /\ received' = VoidEntry(received, s)
  /\ UNCHANGED <<vars, sess, polls, event, wlocals>>

-----------------------------------------------------------------------------
(* The process dies between two steps of a delivery.                       *)
WebhookCrash(w) ==
  /\ Delivering(w)
  /\ Fault("hookCrash")
  /\ WEnd(w, "dead")
  /\ UNCHANGED <<doc, ledger, notes, locals, gateway>>

SePayInit ==
  /\ Init
  /\ sess     = [s \in Sessions |-> "absent"]
  /\ polls    = {}
  /\ event    = [t \in Transfers |-> [state |-> "none", key |-> NoKey]]
  /\ received = [s \in Sessions |-> NoEntry]
  /\ wpc      = [w \in Webhooks |-> "new"]
  /\ warg     = [w \in Webhooks |-> NoWArg]
  /\ wsnap    = [w \in Webhooks |-> NewDoc]

Webhook(w) ==
  \/ \E t \in Transfers : Deliver(w, t)
  \/ SeekSession(w) \/ ClaimSession(w) \/ SettleSession(w) \/ ReleaseSession(w)
  \/ EnrollRead(w) \/ EnrollSave(w)
  \/ SeekStudent(w) \/ ClaimStudent(w) \/ FreshRead(w) \/ FreshSave(w)
  \/ SettleStudent(w) \/ TakeBack(w) \/ DropRead(w) \/ DropSave(w)
  \/ Mark(w)
  \/ WebhookCrash(w)

SePayNext ==
  \/ \E s \in Sessions : CreateSession(s) \/ PollRead(s) \/ PollSave(s) \/ VoidReceived(s)
  \/ \E w \in Webhooks : Webhook(w)
  \/ Next /\ UNCHANGED <<gateway, wlocals>>

SePaySpec == SePayInit /\ [][SePayNext]_svars

-----------------------------------------------------------------------------
SessionKeys == {"session"} \X Sessions

WSteps ==
  {"seekSession", "claimSession", "settleSession", "releaseSession", "enrollRead",
   "enrollSave", "seekStudent", "claimStudent", "freshRead", "freshSave",
   "settleStudent", "takeBack", "dropRead", "dropSave", "mark"}

(* Every variable holds a value of its kind; in particular a fresh         *)
(* enrollment is of a course there is.                                     *)
SePayTypeOK ==
  /\ TypeOK
  /\ sess \in [Sessions -> {"absent", "pending", "paid", "expired"}]
  /\ polls \subseteq Sessions
  /\ event \in [Transfers -> [state : {"none", "open", "matched"},
                              key : SessionKeys \cup Keys \cup {NoKey}]]
  /\ received \in [Sessions -> Entry]
  /\ wpc \in [Webhooks -> {"new"} \cup WSteps \cup WOutcomes]
  /\ warg \in [Webhooks -> [t : Transfers \cup {"none"}, s : Sessions \cup {0},
                            e : Slots, fresh : BOOLEAN]]
  /\ wsnap \in [Webhooks -> Document]

AllSettled == Settled /\ \A w \in Webhooks : wpc[w] # "dead" /\ ~Delivering(w)

EntryOf(key) == IF key \in SessionKeys THEN received[key[2]] ELSE ledger[key]

Matched == {t \in Transfers : event[t].state = "matched"}

(* Only an administrator takes a payment out of the ledger.                *)
Booking(entry) == entry.status = "posted" \/ ("void" \in Operations /\ entry.status = "void")

(* A transfer reported as matched was booked with its amount and is in the *)
(* ledger unless voided by hand, and no other matched transfer rests on    *)
(* the same payment session (the rollback of a claim whose ledger write    *)
(* failed, webhookRoutes.js:258 and 345).                                  *)
MatchedIsBooked ==
  \A t \in Matched :
    /\ Booking(EntryOf(event[t].key))
    /\ EntryOf(event[t].key).amount = TransferOf[t].amount
    /\ \A u \in Matched \ {t} : event[t].key \in SessionKeys => event[u].key # event[t].key

(* Nor do two matched transfers rest on one payment of the student (the    *)
(* claim of an unpaid student, webhookRoutes.js:483), as long as nothing   *)
(* gives up that claim but what rolls a failed payment back: a refund does.*)
StudentMatchedOnce ==
  \A t, u \in Matched : event[t].key \notin SessionKeys /\ event[u].key = event[t].key => t = u

(* A session shown as paid has its payment in the ledger, unless voided by *)
(* hand (webhookRoutes.js:345, the rollback of the claim).                 *)
PaidSessionIsBooked ==
  AllSettled => \A s \in Sessions : sess[s] = "paid" => Booking(received[s])

Booked == Payments + PostedTotal(received, Sessions)

(* What came in: the transfers, and what the requests have collected.      *)
MoneyIn ==
  MapThenSumSet(LAMBDA t : TransferOf[t].amount, {t \in Transfers : event[t].state # "none"})
  + MapThenSumSet(LAMBDA r : arg[r].amt, {r \in Requests : pc[r] = "settled"})

(* The ledger shows no more payments than money came in: no double PAYMENT *)
(* of cashier and gateway, while nothing fails and nothing is sent twice.  *)
NoDoublePayment == faults = 0 => Booked <= MoneyIn
=============================================================================
