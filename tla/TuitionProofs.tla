--------------------------- MODULE TuitionProofs ---------------------------
(***************************************************************************)
(* Proofs about Tuition for every number of requests, enrollments, courses *)
(* and faults, and for all seven operations.                               *)
(***************************************************************************)
EXTENDS Tuition, LedgerProofs

(* The least element of a nonempty set of slots is a slot of the set.      *)
LEMMA MinIsMember ==
  ASSUME NEW S \in SUBSET Slots, S # {}
  PROVE  Min(S) \in S
  BY LeastIsMember DEF Slots

(* Slot 1 exists.                                                          *)
LEMMA FirstSlot == 1 \in Slots
  BY TuitionAssumption DEF Slots

-----------------------------------------------------------------------------
(* The document.                                                           *)

(* Absent and fresh enrollments are well typed.                            *)
LEMMA FreshEnrollments ==
  /\ Absent \in Enrollment
  /\ \A c \in Courses, b \in BOOLEAN : Pending(c, b) \in Enrollment
  BY TuitionAssumption DEF Absent, Pending, Enrollment

(* The document of a new student, and the empty locals, are well typed.    *)
LEMMA FreshTyped == NewDoc \in Document /\ NoArg \in Argument
  <1>1. Price[FirstCourse] \in Nat
    BY TuitionAssumption
  <1>2. [e \in Slots |-> IF e = 1 THEN Pending(FirstCourse, TRUE) ELSE Absent]
          \in [Slots -> Enrollment]
    BY FreshEnrollments, TuitionAssumption
  <1>3. NewDoc \in Document
    BY <1>1, <1>2 DEF NewDoc, Document
  <1>4. NoArg \in Argument
    BY FirstSlot, TuitionAssumption DEF NoArg, Argument
  <1> QED
    BY <1>3, <1>4

(* Slots picked out of a well typed document are slots, and prices are     *)
(* natural numbers.                                                        *)
LEMMA SlotsOfDocument ==
  ASSUME NEW d \in Document
  PROVE  /\ Present(d) \subseteq Slots
         /\ InEffect(d) \subseteq Slots
         /\ PaidAmong(d) \subseteq Slots
         /\ Primaries(d) \subseteq Slots
         /\ PrimaryOf(d) \in Slots
         /\ \A e \in Slots : PriceOf(d, e) \in Nat
  <1>1. Present(d) \subseteq Slots /\ InEffect(d) \subseteq Slots
        /\ PaidAmong(d) \subseteq Slots /\ Primaries(d) \subseteq Slots
    BY DEF Present, InEffect, PaidAmong, Primaries
  <1>2. PrimaryOf(d) \in Slots
    BY <1>1, FirstSlot, MinIsMember DEF PrimaryOf
  <1>3. ASSUME NEW e \in Slots PROVE PriceOf(d, e) \in Nat
    BY TuitionAssumption DEF PriceOf, Document, Enrollment
  <1> QED
    BY <1>1, <1>2, <1>3

(* Opening or closing an enrollment keeps it well typed.                   *)
LEMMA OpenedClosedTyped ==
  ASSUME NEW x \in Enrollment
  PROVE  Opened(x) \in Enrollment /\ Closed(x) \in Enrollment
  BY DEF Opened, Closed, Enrollment

(* Math.max(0, a - b) is a natural number.                                 *)
LEMMA MinusTyped ==
  ASSUME NEW a \in Nat, NEW b \in Nat
  PROVE  Minus(a, b) \in Nat
  BY DEF Minus

(* The next version of a well typed copy is well typed.                    *)
LEMMA VersionTyped ==
  ASSUME NEW d \in Document
  PROVE  [d EXCEPT !.v = @ + 1] \in Document
  BY DEF Document

(* The copies the handlers make of a document are well typed.              *)
LEMMA CopiesTyped ==
  ASSUME NEW d \in Document, NEW e \in Slots, NEW amt \in Nat
  PROVE  /\ PaidCopy(d) \in Document
         /\ UnpaidCopy(d) \in Document
         /\ CollectedCopy(d, e, amt) \in Document
         /\ TakenBack(d, e, amt) \in Document
         /\ RefundedCopy(d) \in Document
         /\ Cancelled(d, e, amt) \in Document
  <1>0. d.enr \in [Slots -> Enrollment] /\ d.paidAmount \in Nat /\ d.price \in Nat
        /\ d.paid \in BOOLEAN
    BY DEF Document
  <1>1. PaidCopy(d) \in Document
    BY <1>0, OpenedClosedTyped DEF PaidCopy, Document
  <1>2. UnpaidCopy(d) \in Document
    BY <1>0, OpenedClosedTyped DEF UnpaidCopy, Document
  <1>3. CollectedCopy(d, e, amt) \in Document
    <2>1. ASSUME NEW p \in BOOLEAN
          PROVE  [d EXCEPT !.paidAmount = @ + amt, !.paid = p] \in Document
      <3>1. d.paidAmount + amt \in Nat
        BY <1>0
      <3> QED
        BY <3>1 DEF Document
    <2> QED
      BY <2>1 DEF CollectedCopy
  <1>4. TakenBack(d, e, amt) \in Document
    <2> DEFINE list == [d.enr EXCEPT ![e] = [@ EXCEPT !.paid = FALSE, !.status = "pending_payment"]]
    <2>1. list \in [Slots -> Enrollment]
      BY <1>0 DEF Enrollment
    <2> HIDE DEF list
    <2>2. ASSUME NEW p \in BOOLEAN
          PROVE  [d EXCEPT !.enr = list, !.paidAmount = Minus(@, amt), !.paid = p] \in Document
      BY <1>0, <2>1, MinusTyped DEF Document
    <2> QED
      BY <2>2 DEF TakenBack, list
  <1>5. RefundedCopy(d) \in Document
    <2>1. \A x \in Enrollment : [x EXCEPT !.paid = FALSE, !.status = "refunded"] \in Enrollment
      BY DEF Enrollment
    <2> QED
      BY <1>0, <2>1 DEF RefundedCopy, Document
  <1>6. Cancelled(d, e, amt) \in Document
    <2> DEFINE rest == {i \in Present(d) \ {e} : d.enr[i].status # "cancelled"}
               list == [i \in Slots |->
                 IF i = e
                 THEN [d.enr[i] EXCEPT !.status = "cancelled", !.paid = FALSE,
                                       !.primary = FALSE, !.refunded = amt]
                 ELSE IF d.enr[e].primary /\ rest # {} /\ i = Min(rest)
                      THEN [d.enr[i] EXCEPT !.primary = TRUE]
                      ELSE d.enr[i]]
               new  == [d EXCEPT !.enr = list]
               lead == IF Primaries(new) \cap InEffect(new) # {}
                       THEN Min(Primaries(new) \cap InEffect(new))
                       ELSE Min(InEffect(new))
               price == IF InEffect(new) = {} THEN 0 ELSE PriceOf(new, lead)
    <2>1. list \in [Slots -> Enrollment]
      <3>1. \A x \in Enrollment :
              /\ [x EXCEPT !.status = "cancelled", !.paid = FALSE,
                           !.primary = FALSE, !.refunded = amt] \in Enrollment
              /\ [x EXCEPT !.primary = TRUE] \in Enrollment
        BY DEF Enrollment
      <3> QED
        BY <1>0, <3>1
    <2> HIDE DEF list
    <2>2. new \in Document
      BY <2>1 DEF Document
    <2> HIDE DEF new
    <2>3. price \in Nat
      <3>1. CASE InEffect(new) = {}
        BY <3>1
      <3>2. CASE InEffect(new) # {}
        <4>1. lead \in Slots
          BY <2>2, <3>2, SlotsOfDocument, MinIsMember
        <4> QED
          BY <2>2, <3>2, <4>1, SlotsOfDocument
      <3> QED
        BY <3>1, <3>2
    <2> HIDE DEF price
    <2>4. ASSUME NEW p \in BOOLEAN
          PROVE  [new EXCEPT !.price = price, !.paid = p, !.paidAmount = Minus(@, amt)] \in Document
      <3>1. Minus(new.paidAmount, amt) \in Nat
        BY <2>2, MinusTyped DEF Document
      <3> QED
        BY <2>2, <2>3, <3>1 DEF Document
    <2> QED
      BY <2>4 DEF Cancelled, list, new, price
  <1> QED
    BY <1>1, <1>2, <1>3, <1>4, <1>5, <1>6

(* Saving a well typed copy leaves a well typed document.                  *)
LEMMA SavesTyped ==
  ASSUME NEW loaded \in Document, NEW copy \in Document, doc \in Document
  PROVE  Scalars(loaded, copy) \in Document /\ WholeSave(loaded, copy) \in Document
  <1>1. Scalars(loaded, copy) \in Document
    BY DEF Scalars, Document
  <1>2. copy.enr \in [Slots -> Enrollment]
    BY DEF Document
  <1>3. ASSUME NEW d \in Document, NEW x \in [Slots -> Enrollment]
        PROVE  [d EXCEPT !.enr = x, !.v = @ + 1] \in Document
    <2>1. d.v + 1 \in Nat
      BY DEF Document
    <2>2. ASSUME NEW n \in Nat PROVE [d EXCEPT !.enr = x, !.v = n] \in Document
      BY DEF Document
    <2> QED
      BY <2>1, <2>2
  <1> QED
    BY <1>1, <1>2, <1>3 DEF WholeSave

-----------------------------------------------------------------------------
(* The ledger.                                                             *)

(* Posting a natural amount and voiding keep the ledger well typed.        *)
LEMMA LedgerTyped ==
  ASSUME NEW l \in [Keys -> Entry], NEW k, NEW amt \in Nat
  PROVE  PostEntry(l, k, amt) \in [Keys -> Entry] /\ VoidEntry(l, k) \in [Keys -> Entry]
  BY DEF PostEntry, VoidEntry, Entry

LEMMA VoidTyped ==
  ASSUME NEW l \in [Keys -> Entry], NEW k
  PROVE  VoidEntry(l, k) \in [Keys -> Entry]
  BY DEF VoidEntry, Entry

(* An entry that is posted survives every posting, under any key.          *)
LEMMA PostKeeps ==
  ASSUME NEW l \in [Keys -> Entry], NEW k, NEW amt \in Nat, NEW q \in Keys, Posted(l, q)
  PROVE  PostEntry(l, k, amt)[q] = l[q]
  BY DEF PostEntry, Posted, Free

(* Voiding one entry leaves the others alone.                              *)
LEMMA VoidKeeps ==
  ASSUME NEW l \in [Keys -> Entry], NEW k, NEW q \in Keys, q # k
  PROVE  VoidEntry(l, k)[q] = l[q]
  BY DEF VoidEntry, Posted

(* An accepted posting leaves the entry posted with the amount asked for.  *)
LEMMA AcceptedIsPosted ==
  ASSUME NEW l \in [Keys -> Entry], NEW k \in Keys, NEW amt \in Nat, Accepts(l, k, amt)
  PROVE  /\ Posted(PostEntry(l, k, amt), k)
         /\ PostEntry(l, k, amt)[k].amount = amt
  BY DEF Accepts, PostEntry, Posted, Free

-----------------------------------------------------------------------------
(* The locals of a request.                                                *)

(* Ending, going to a step, and keeping a document are well typed.         *)
LEMMA EndTyped ==
  ASSUME TypeOK, NEW r \in Requests, NEW o \in Outcomes, End(r, o)
  PROVE  /\ pc' \in [Requests -> {"new"} \cup Steps \cup Outcomes]
         /\ arg' \in [Requests -> Argument]
         /\ snap' \in [Requests -> Document]
  BY FreshTyped DEF TypeOK, End, Goto, Keep

(* Going to a step of a handler is well typed.                             *)
LEMMA GotoTyped ==
  ASSUME TypeOK, NEW r \in Requests, NEW step \in Steps, Goto(r, step)
  PROVE  pc' \in [Requests -> {"new"} \cup Steps \cup Outcomes]
  BY DEF TypeOK, Goto

(* Keeping a well typed copy is.                                           *)
LEMMA KeepTyped ==
  ASSUME TypeOK, NEW r \in Requests, NEW d \in Document, Keep(r, d)
  PROVE  snap' \in [Requests -> Document]
  BY DEF TypeOK, Keep

(* Setting a request's argument is.                                        *)
LEMMA ArgTyped ==
  ASSUME TypeOK, NEW r \in Requests, NEW a \in Argument, arg' = [arg EXCEPT ![r] = a]
  PROVE  arg' \in [Requests -> Argument]
  BY DEF TypeOK

(* So is changing one or two of the fields of an argument.                 *)
LEMMA ArgFieldsTyped ==
  ASSUME TypeOK, NEW r \in Requests, NEW e \in Slots, NEW amt \in Nat, NEW todo \in SUBSET Slots
  PROVE  /\ [arg EXCEPT ![r].e = e, ![r].amt = amt] \in [Requests -> Argument]
         /\ [arg EXCEPT ![r].e = e] \in [Requests -> Argument]
         /\ [arg EXCEPT ![r].note = amt] \in [Requests -> Argument]
         /\ [arg EXCEPT ![r].todo = todo] \in [Requests -> Argument]
  <1>1. arg[r] \in Argument /\ arg \in [Requests -> Argument]
    BY DEF TypeOK
  <1>2. \A a \in Argument : [arg EXCEPT ![r] = a] \in [Requests -> Argument]
    BY <1>1
  <1>3. [arg[r] EXCEPT !.e = e, !.amt = amt] \in Argument
    BY <1>1 DEF Argument
  <1>4. [arg[r] EXCEPT !.e = e] \in Argument /\ [arg[r] EXCEPT !.note = amt] \in Argument
        /\ [arg[r] EXCEPT !.todo = todo] \in Argument
    BY <1>1 DEF Argument
  <1>5. /\ [arg EXCEPT ![r].e = e, ![r].amt = amt]
             = [arg EXCEPT ![r] = [arg[r] EXCEPT !.e = e, !.amt = amt]]
        /\ [arg EXCEPT ![r].e = e] = [arg EXCEPT ![r] = [arg[r] EXCEPT !.e = e]]
        /\ [arg EXCEPT ![r].note = amt] = [arg EXCEPT ![r] = [arg[r] EXCEPT !.note = amt]]
        /\ [arg EXCEPT ![r].todo = todo] = [arg EXCEPT ![r] = [arg[r] EXCEPT !.todo = todo]]
    BY <1>1
  <1> QED
    BY <1>2, <1>3, <1>4, <1>5

(* A fault stays within the bound.                                         *)
LEMMA FaultTyped ==
  ASSUME TypeOK, NEW kind, Fault(kind)
  PROVE  faults' \in 0..MaxFaults
  BY TuitionAssumption DEF TypeOK, Fault

(* A refused request leaves everything well typed.                         *)
LEMMA RefuseTyped ==
  ASSUME TypeOK, NEW r \in Requests, Refuse(r)
  PROVE  TypeOK'
  BY EndTyped DEF TypeOK, Refuse, Outcomes

(* settlePayment leaves everything well typed.                             *)
LEMMA SettleTyped ==
  ASSUME TypeOK, NEW r \in Requests, NEW undo \in Steps, Settle(r, undo)
  PROVE  TypeOK'
  <1>1. arg[r].amt \in Nat
    BY DEF TypeOK, Argument
  <1>2. PostEntry(ledger, PaymentKey(r), arg[r].amt) \in [Keys -> Entry]
    BY <1>1, LedgerTyped DEF TypeOK
  <1>3. CASE End(r, "settled") /\ UNCHANGED <<doc, notes, faults>>
             /\ ledger' \in {ledger, PostEntry(ledger, PaymentKey(r), arg[r].amt)}
    BY <1>2, <1>3, EndTyped DEF TypeOK, Outcomes
  <1>4. CASE /\ Goto(r, undo) /\ UNCHANGED <<doc, notes, arg, snap>>
             /\ ledger' \in {ledger, PostEntry(ledger, PaymentKey(r), arg[r].amt)}
             /\ UNCHANGED faults \/ Fault("ledger") \/ Fault("lostReply")
    BY <1>2, <1>4, GotoTyped, FaultTyped DEF TypeOK
  <1> QED
    BY <1>3, <1>4 DEF Settle

-----------------------------------------------------------------------------
(* Type correctness, one lemma for each endpoint.                          *)

(* The initial state is well typed.                                        *)
LEMMA InitType == Init => TypeOK
  BY FreshTyped, TuitionAssumption DEF Init, TypeOK, NoEntry, Entry

(* PUT /pay.                                                               *)
LEMMA PayType ==
  ASSUME TypeOK, NEW r \in Requests,
         PayRead(r) \/ PayClaim(r) \/ PaySave(r) \/ PaySettle(r) \/ PayUndo(r)
  PROVE  TypeOK'
  <1>1. CASE PayRead(r)
    <2>1. CASE Refuse(r)
      BY <2>1, RefuseTyped
    <2>2. CASE ~doc.paid
      <3> DEFINE amt == IF doc.paidAmount > 0 THEN doc.paidAmount ELSE doc.price
      <3>1. amt \in Nat
        BY DEF TypeOK, Document
      <3>2. [NoArg EXCEPT !.op = "pay", !.amt = amt] \in Argument
        BY <3>1, FreshTyped DEF Argument, AllOperations
      <3>3. "payClaim" \in Steps
        BY DEF Steps
      <3> QED
        BY <1>1, <2>2, <3>2, <3>3, GotoTyped, ArgTyped DEF PayRead, TypeOK
    <2> QED
      BY <1>1, <2>1, <2>2 DEF PayRead
  <1>2. CASE PayClaim(r)
    <2>1. CASE Refuse(r)
      BY <2>1, RefuseTyped
    <2>2. CASE ~doc.paid
      <3>1. arg[r].amt \in Nat
        BY DEF TypeOK, Argument
      <3>2. doc' \in Document
        BY <1>2, <2>2, <3>1 DEF PayClaim, TypeOK, Document
      <3>3. "paySave" \in Steps
        BY DEF Steps
      <3> QED
        BY <1>2, <2>2, <3>2, <3>3, GotoTyped, KeepTyped DEF PayClaim, TypeOK
    <2> QED
      BY <1>2, <2>1, <2>2 DEF PayClaim
  <1>3. CASE PaySave(r)
    <2> DEFINE copy == PaidCopy(snap[r])
    <2>1. snap[r] \in Document /\ doc \in Document
      BY DEF TypeOK
    <2>2. copy \in Document
      BY <2>1, FirstSlot, CopiesTyped
    <2> HIDE DEF copy
    <2>3. CASE doc.v = snap[r].v
      <3>1. WholeSave(snap[r], copy) \in Document /\ [copy EXCEPT !.v = @ + 1] \in Document
        BY <2>1, <2>2, SavesTyped, VersionTyped
      <3>2. PrimaryOf(copy) \in Slots
            /\ (IF copy.paidAmount > 0 THEN copy.paidAmount ELSE copy.price) \in Nat
        BY <2>2, SlotsOfDocument DEF Document
      <3>3. arg' = [arg EXCEPT ![r].e = PrimaryOf(copy), ![r].amt =
                      IF copy.paidAmount > 0 THEN copy.paidAmount ELSE copy.price]
        BY <1>3, <2>3 DEF PaySave, copy
      <3>4. arg' \in [Requests -> Argument]
        BY <3>2, <3>3, ArgFieldsTyped
      <3>5. doc' = WholeSave(snap[r], copy) /\ Keep(r, [copy EXCEPT !.v = @ + 1])
            /\ Goto(r, "paySettle") /\ UNCHANGED <<ledger, notes, faults>>
        BY <1>3, <2>3 DEF PaySave, copy
      <3>6. "paySettle" \in Steps
        BY DEF Steps
      <3> QED
        BY <3>1, <3>4, <3>5, <3>6, GotoTyped, KeepTyped DEF TypeOK
    <2>4. CASE doc.v # snap[r].v
      BY <1>3, <2>4, EndTyped DEF PaySave, TypeOK, Outcomes
    <2> QED
      BY <2>3, <2>4
  <1>4. CASE PaySettle(r)
    BY <1>4, SettleTyped DEF PaySettle, Steps
  <1>5. CASE PayUndo(r)
    <2>1. snap[r] \in Document /\ doc \in Document
      BY DEF TypeOK
    <2>2. WholeSave(snap[r], UnpaidCopy(snap[r])) \in Document
      BY <2>1, FirstSlot, CopiesTyped, SavesTyped
    <2> QED
      BY <1>5, <2>1, <2>2, EndTyped DEF PayUndo, TypeOK, Outcomes
  <1> QED
    BY <1>1, <1>2, <1>3, <1>4, <1>5

(* PUT /enrollments/:enrollmentId/pay, and the rollback it shares with the *)
(* paid registration.                                                      *)
LEMMA EnrType ==
  ASSUME TypeOK, NEW r \in Requests,
         \/ \E e \in Slots : EnrClaim(r, e)
         \/ EnrRead(r) \/ EnrSave(r) \/ EnrSettle(r) \/ Undo(r)
  PROVE  TypeOK'
  <1>1. ASSUME NEW e \in Slots, EnrClaim(r, e) PROVE TypeOK'
    <2>1. CASE Refuse(r)
      BY <2>1, RefuseTyped
    <2>2. CASE ~doc.enr[e].paid
      <3>1. [doc EXCEPT !.enr = Claimed(doc.enr, e)] \in Document
        <4>1. doc \in Document /\ doc.enr \in [Slots -> Enrollment]
          BY DEF TypeOK, Document
        <4>2. \A x \in Enrollment : [x EXCEPT !.paid = TRUE, !.status = "active"] \in Enrollment
          BY DEF Enrollment
        <4>3. Claimed(doc.enr, e) \in [Slots -> Enrollment]
          BY <4>1, <4>2 DEF Claimed
        <4>4. \A l \in [Slots -> Enrollment] : [doc EXCEPT !.enr = l] \in Document
          BY <4>1 DEF Document
        <4> QED
          BY <4>3, <4>4
      <3>2. [NoArg EXCEPT !.op = "enrPay", !.e = e, !.amt = PriceOf(doc, e)] \in Argument
        <4>1. PriceOf(doc, e) \in Nat
          BY SlotsOfDocument DEF TypeOK
        <4> QED
          BY <4>1, FreshTyped DEF Argument, AllOperations
      <3>3. "enrRead" \in Steps
        BY DEF Steps
      <3> QED
        BY <1>1, <2>2, <3>1, <3>2, <3>3, GotoTyped, ArgTyped DEF EnrClaim, TypeOK
    <2> QED
      BY <1>1, <2>1, <2>2 DEF EnrClaim
  <1>2. CASE EnrRead(r)
    BY <1>2, GotoTyped, KeepTyped DEF EnrRead, TypeOK, Steps
  <1>3. CASE EnrSave(r)
    <2> DEFINE copy == CollectedCopy(snap[r], arg[r].e, arg[r].amt)
    <2>1. snap[r] \in Document /\ arg[r].e \in Slots /\ arg[r].amt \in Nat /\ doc \in Document
      BY DEF TypeOK, Argument
    <2>2. copy \in Document
      BY <2>1, CopiesTyped
    <2> HIDE DEF copy
    <2>3. Scalars(snap[r], copy) \in Document
      BY <2>1, <2>2, SavesTyped
    <2>4. doc' = Scalars(snap[r], copy) /\ UNCHANGED <<ledger, notes, faults>>
      BY <1>3 DEF EnrSave, copy
    <2>5. \/ End(r, "ok")
          \/ Goto(r, "enrSettle") /\ Keep(r, copy) /\ UNCHANGED arg
      BY <1>3 DEF EnrSave, copy
    <2>6. "ok" \in Outcomes /\ "enrSettle" \in Steps
      BY DEF Outcomes, Steps
    <2> QED
      BY <2>2, <2>3, <2>4, <2>5, <2>6, EndTyped, GotoTyped, KeepTyped DEF TypeOK
  <1>4. CASE EnrSettle(r)
    BY <1>4, SettleTyped DEF EnrSettle, Steps
  <1>5. CASE Undo(r)
    <2>1. snap[r] \in Document /\ arg[r].e \in Slots /\ arg[r].amt \in Nat /\ doc \in Document
      BY DEF TypeOK, Argument
    <2>2. WholeSave(snap[r], TakenBack(snap[r], arg[r].e, arg[r].amt)) \in Document
      BY <2>1, CopiesTyped, SavesTyped
    <2> QED
      BY <1>5, <2>1, <2>2, EndTyped DEF Undo, TypeOK, Outcomes
  <1> QED
    BY <1>1, <1>2, <1>3, <1>4, <1>5

(* POST /enrollments.                                                      *)
LEMMA AddType ==
  ASSUME TypeOK, NEW r \in Requests,
         \/ \E c \in Courses, op \in {"add", "addPaid"} : AddRead(r, c, op)
         \/ AddSave(r) \/ AddSettle(r)
  PROVE  TypeOK'
  <1>1. ASSUME NEW c \in Courses, NEW op \in {"add", "addPaid"}, AddRead(r, c, op)
        PROVE  TypeOK'
    <2>1. CASE Refuse(r)
      BY <2>1, RefuseTyped
    <2>2. CASE ~Duplicate(doc, c)
      <3> DEFINE amt == IF op = "addPaid" THEN Price[c] ELSE 0
      <3>1. amt \in Nat
        BY TuitionAssumption
      <3> HIDE DEF amt
      <3>2. [NoArg EXCEPT !.op = op, !.course = c, !.amt = amt] \in Argument
        BY <3>1, FreshTyped DEF Argument, AllOperations
      <3>3. "addSave" \in Steps /\ doc \in Document
        BY DEF Steps, TypeOK
      <3>4. /\ arg' = [arg EXCEPT ![r] = [NoArg EXCEPT !.op = op, !.course = c, !.amt = amt]]
            /\ Keep(r, doc) /\ Goto(r, "addSave") /\ UNCHANGED <<doc, ledger, notes, faults>>
        BY <1>1, <2>2 DEF AddRead, amt
      <3> QED
        BY <3>2, <3>3, <3>4, GotoTyped, KeepTyped, ArgTyped DEF TypeOK
    <2> QED
      BY <1>1, <2>1, <2>2 DEF AddRead
  <1>2. CASE AddSave(r)
    <2> DEFINE e    == Min(Slots \ Present(doc))
               new  == Registration(arg[r].course, arg[r].op = "addPaid")
               copy == AddedCopy(snap[r], e, new, arg[r].amt)
    <2>1. snap[r] \in Document /\ arg[r].course \in Courses /\ arg[r].amt \in Nat /\ doc \in Document
      BY DEF TypeOK, Argument
    <2>2. e \in Slots
      <3>1. Slots \ Present(doc) # {}
        BY <1>2, <2>1, SlotsOfDocument DEF AddSave
      <3> QED
        BY <3>1, MinIsMember
    <2>3. new \in Enrollment
      BY <2>1, FreshEnrollments, OpenedClosedTyped DEF Registration
    <2> HIDE DEF e, new
    <2>4. copy \in Document
      <3>1. snap[r].paidAmount + arg[r].amt \in Nat /\ (snap[r].paid \/ arg[r].amt > 0) \in BOOLEAN
            /\ [snap[r].enr EXCEPT ![e] = new] \in [Slots -> Enrollment]
        BY <2>1, <2>2, <2>3 DEF Document
      <3>2. \A n \in Nat, p \in BOOLEAN, l \in [Slots -> Enrollment] :
              [snap[r] EXCEPT !.enr = l, !.paidAmount = n, !.paid = p] \in Document
        BY <2>1 DEF Document
      <3> QED
        BY <3>1, <3>2 DEF AddedCopy
    <2> HIDE DEF copy
    <2>5. [Scalars(snap[r], copy) EXCEPT !.enr = [@ EXCEPT ![e] = new], !.v = @ + 1] \in Document
      <3>1. Scalars(snap[r], copy) \in Document
        BY <2>1, <2>4, SavesTyped
      <3>2. ASSUME NEW d \in Document
            PROVE  [d EXCEPT !.enr = [@ EXCEPT ![e] = new], !.v = @ + 1] \in Document
        <4>1. d.v + 1 \in Nat /\ [d.enr EXCEPT ![e] = new] \in [Slots -> Enrollment]
          BY <2>2, <2>3 DEF Document
        <4>2. \A n \in Nat, l \in [Slots -> Enrollment] : [d EXCEPT !.enr = l, !.v = n] \in Document
          BY DEF Document
        <4> QED
          BY <4>1, <4>2
      <3> QED
        BY <3>1, <3>2
    <2>6. /\ doc' = [Scalars(snap[r], copy) EXCEPT !.enr = [@ EXCEPT ![e] = new], !.v = @ + 1]
          /\ UNCHANGED <<ledger, notes, faults>>
      BY <1>2 DEF AddSave, e, new, copy
    <2>7. \/ End(r, "ok")
          \/ /\ Keep(r, [copy EXCEPT !.v = @ + 1])
             /\ arg' = [arg EXCEPT ![r].e = e]
             /\ Goto(r, "addSettle")
      BY <1>2 DEF AddSave, e, new, copy
    <2>8. "ok" \in Outcomes /\ "addSettle" \in Steps /\ [copy EXCEPT !.v = @ + 1] \in Document
      BY <2>4, VersionTyped DEF Outcomes, Steps
    <2>9. CASE End(r, "ok")
      BY <2>5, <2>6, <2>8, <2>9, EndTyped DEF TypeOK
    <2>10. CASE /\ Keep(r, [copy EXCEPT !.v = @ + 1])
                /\ arg' = [arg EXCEPT ![r].e = e]
                /\ Goto(r, "addSettle")
      <3>1. arg' \in [Requests -> Argument]
        BY <2>2, <2>10, ArgFieldsTyped
      <3> QED
        BY <2>5, <2>6, <2>8, <2>10, <3>1, KeepTyped, GotoTyped DEF TypeOK
    <2> QED
      BY <2>7, <2>9, <2>10
  <1>3. CASE AddSettle(r)
    BY <1>3, SettleTyped DEF AddSettle, Steps
  <1> QED
    BY <1>1, <1>2, <1>3

(* What follows the refund entry.                                          *)
LEMMA AfterRefundTyped ==
  ASSUME TypeOK, NEW r \in Requests,
         \/ \E created \in BOOLEAN : AfterRefund(r, created)
         \/ RefundThrows(r)
  PROVE  /\ pc' \in [Requests -> {"new"} \cup Steps \cup Outcomes]
         /\ arg' \in [Requests -> Argument]
         /\ snap' \in [Requests -> Document]
  <1>1. \/ End(r, "ok") \/ End(r, "failed")
        \/ /\ Goto(r, "cancelSave") \/ Goto(r, "restore") \/ Goto(r, "restored")
           /\ UNCHANGED <<arg, snap>>
    BY DEF AfterRefund, RefundThrows
  <1>2. {"ok", "failed"} \subseteq Outcomes /\ {"cancelSave", "restore", "restored"} \subseteq Steps
    BY DEF Outcomes, Steps
  <1>3. CASE End(r, "ok") \/ End(r, "failed")
    BY <1>2, <1>3, EndTyped
  <1>4. CASE /\ Goto(r, "cancelSave") \/ Goto(r, "restore") \/ Goto(r, "restored")
             /\ UNCHANGED <<arg, snap>>
    BY <1>2, <1>4, GotoTyped DEF TypeOK
  <1> QED
    BY <1>1, <1>3, <1>4

(* postRefund, its credit note and the void.                               *)
LEMMA PostRefundType ==
  ASSUME TypeOK, NEW r \in Requests,
         PostRefund(r) \/ CountNotes(r) \/ IssueNote(r) \/ VoidRefund(r)
  PROVE  TypeOK'
  <1> DEFINE k == RefundKey(r)
  <1>0. arg[r].amt \in Nat /\ notes \in Nat /\ ledger \in [Keys -> Entry]
    BY DEF TypeOK, Argument
  <1>1. PostEntry(ledger, k, arg[r].amt) \in [Keys -> Entry]
        /\ VoidEntry(ledger, k) \in [Keys -> Entry]
    BY <1>0, LedgerTyped
  <1>2. "countNotes" \in Steps /\ "issueNote" \in Steps /\ "voidRefund" \in Steps
    BY DEF Steps
  <1>3. CASE PostRefund(r)
    <2>1. /\ ledger' \in {ledger, PostEntry(ledger, k, arg[r].amt)}
          /\ UNCHANGED faults \/ Fault("ledger") \/ Fault("lostReply")
          /\ UNCHANGED <<doc, notes>>
      BY <1>3 DEF PostRefund
    <2>2. \/ Goto(r, "countNotes") /\ UNCHANGED <<arg, snap>>
          \/ AfterRefund(r, FALSE)
          \/ RefundThrows(r)
      BY <1>3 DEF PostRefund
    <2>3. /\ pc' \in [Requests -> {"new"} \cup Steps \cup Outcomes]
          /\ arg' \in [Requests -> Argument]
          /\ snap' \in [Requests -> Document]
      BY <1>2, <2>2, GotoTyped, AfterRefundTyped DEF TypeOK
    <2> QED
      BY <1>0, <1>1, <2>1, <2>3, FaultTyped DEF TypeOK
  <1>4. CASE CountNotes(r)
    <2>1. arg' \in [Requests -> Argument]
      <3>1. notes + 1 \in Nat
        BY <1>0
      <3> QED
        BY <1>4, <3>1, FirstSlot, ArgFieldsTyped DEF CountNotes
    <2> QED
      BY <1>2, <1>4, <2>1, GotoTyped DEF CountNotes, TypeOK
  <1>5. CASE IssueNote(r)
    <2>1. /\ notes' = notes \/ notes' = notes + 1
          /\ UNCHANGED faults \/ Fault("creditNote")
          /\ UNCHANGED <<doc, ledger>>
      BY <1>5, Zenon DEF IssueNote
    <2>2. \/ AfterRefund(r, TRUE)
          \/ Goto(r, "voidRefund") /\ UNCHANGED <<arg, snap>>
      BY <1>5 DEF IssueNote
    <2>3. /\ pc' \in [Requests -> {"new"} \cup Steps \cup Outcomes]
          /\ arg' \in [Requests -> Argument]
          /\ snap' \in [Requests -> Document]
      BY <1>2, <2>2, GotoTyped, AfterRefundTyped DEF TypeOK
    <2> QED
      BY <1>0, <2>1, <2>3, FaultTyped DEF TypeOK
  <1>6. CASE VoidRefund(r)
    <2>1. /\ ledger' \in {ledger, VoidEntry(ledger, k)}
          /\ UNCHANGED faults \/ Fault("ledger")
          /\ RefundThrows(r)
          /\ UNCHANGED <<doc, notes>>
      BY <1>6 DEF VoidRefund
    <2> QED
      BY <1>0, <1>1, <2>1, FaultTyped, AfterRefundTyped DEF TypeOK
  <1> QED
    BY <1>3, <1>4, <1>5, <1>6

(* DELETE /enrollments/:enrollmentId.                                      *)
LEMMA CancelType ==
  ASSUME TypeOK, NEW r \in Requests,
         \/ \E e \in Slots, amt \in Amounts : CancelRead(r, e, amt)
         \/ CancelSave(r)
  PROVE  TypeOK'
  <1>1. ASSUME NEW e \in Slots, NEW amt \in Amounts, CancelRead(r, e, amt) PROVE TypeOK'
    <2>1. CASE Refuse(r)
      BY <2>1, RefuseTyped
    <2>2. CASE doc.enr[e].status # "cancelled"
      <3>1. [NoArg EXCEPT !.op = "cancel", !.e = e, !.amt = amt] \in Argument
        <4>1. amt \in Nat
          BY TuitionAssumption
        <4> QED
          BY <4>1, FreshTyped DEF Argument, AllOperations
      <3>2. /\ arg' = [arg EXCEPT ![r] = [NoArg EXCEPT !.op = "cancel", !.e = e, !.amt = amt]]
            /\ Keep(r, doc)
            /\ Goto(r, "postRefund") \/ Goto(r, "cancelSave")
            /\ UNCHANGED <<doc, ledger, notes, faults>>
        BY <1>1, <2>2 DEF CancelRead
      <3>3. "postRefund" \in Steps /\ "cancelSave" \in Steps /\ doc \in Document
        BY DEF Steps, TypeOK
      <3> QED
        BY <3>1, <3>2, <3>3, GotoTyped, KeepTyped, ArgTyped DEF TypeOK
    <2> QED
      BY <1>1, <2>1, <2>2 DEF CancelRead
  <1>2. CASE CancelSave(r)
    <2>1. snap[r] \in Document /\ arg[r].e \in Slots /\ arg[r].amt \in Nat /\ doc \in Document
      BY DEF TypeOK, Argument
    <2>2. WholeSave(snap[r], Cancelled(snap[r], arg[r].e, arg[r].amt)) \in Document
      BY <2>1, CopiesTyped, SavesTyped
    <2> QED
      BY <1>2, <2>1, <2>2, EndTyped DEF CancelSave, TypeOK, Outcomes
  <1> QED
    BY <1>1, <1>2

(* PUT /refund.                                                            *)
LEMMA RefundType ==
  ASSUME TypeOK, NEW r \in Requests,
         \/ \E amt \in Amounts \ {0}, id \in RefundIds : RefundRead(r, amt, id)
         \/ RefundFill(r) \/ RefundClaim(r) \/ RefundSave(r) \/ RefundRestore(r)
  PROVE  TypeOK'
  <1>0. doc \in Document /\ arg[r].avail \in Nat /\ arg[r].amt \in Nat /\ snap[r] \in Document
        /\ doc.paidAmount \in Nat /\ doc.price \in Nat
    BY DEF TypeOK, Argument, Document
  <1>1. ASSUME NEW amt \in Amounts, NEW id \in RefundIds, RefundRead(r, amt, id) PROVE TypeOK'
    <2>1. CASE Refuse(r)
      BY <2>1, RefuseTyped
    <2>2. CASE ~(~doc.paid \/ amt > Available(doc))
      <3> DEFINE a == [NoArg EXCEPT !.op = "refund", !.id = id, !.amt = amt,
                       !.avail = Available(doc), !.full = (amt = Available(doc))]
      <3>1. a \in Argument
        <4>1. amt \in Nat /\ Available(doc) \in Nat
          BY <1>0, TuitionAssumption DEF Available
        <4>2. (amt = Available(doc)) \in BOOLEAN
          OBVIOUS
        <4> QED
          BY <4>1, <4>2, FreshTyped DEF Argument, AllOperations
      <3> HIDE DEF a
      <3>2. /\ arg' = [arg EXCEPT ![r] = a]
            /\ Goto(r, "refundClaim") \/ Goto(r, "refundFill")
            /\ UNCHANGED <<doc, ledger, notes, snap, faults>>
        BY <1>1, <2>2 DEF RefundRead, a
      <3>3. "refundClaim" \in Steps /\ "refundFill" \in Steps
        BY DEF Steps
      <3> QED
        BY <3>1, <3>2, <3>3, GotoTyped, ArgTyped DEF TypeOK
    <2> QED
      BY <1>1, <2>1, <2>2 DEF RefundRead
  <1>2. CASE RefundFill(r)
    <2>1. doc' \in Document
      BY <1>0, <1>2 DEF RefundFill, Document
    <2> QED
      BY <1>2, <2>1, GotoTyped DEF RefundFill, TypeOK, Steps
  <1>3. CASE RefundClaim(r)
    <2>1. CASE Refuse(r)
      BY <2>1, RefuseTyped
    <2>2. CASE ~(~doc.paid \/ doc.paidAmount < arg[r].amt)
      <3>1. doc.paidAmount - arg[r].amt \in Nat
        BY <1>0, <2>2
      <3>2. doc' \in Document
        <4>1. \A n \in Nat : /\ [doc EXCEPT !.paidAmount = n] \in Document
                            /\ [doc EXCEPT !.paid = FALSE, !.paidAmount = n] \in Document
          BY <1>0 DEF Document
        <4>2. \/ doc' = [doc EXCEPT !.paid = FALSE, !.paidAmount = 0]
              \/ doc' = [doc EXCEPT !.paidAmount = @ - arg[r].amt]
          BY <1>3, <2>2 DEF RefundClaim
        <4> QED
          BY <3>1, <4>1, <4>2
      <3>3. /\ Keep(r, doc')
            /\ Goto(r, "refundSave") \/ Goto(r, "postRefund")
            /\ UNCHANGED <<ledger, notes, arg, faults>>
        BY <1>3, <2>2 DEF RefundClaim
      <3>4. "refundSave" \in Steps /\ "postRefund" \in Steps
        BY DEF Steps
      <3> QED
        BY <3>2, <3>3, <3>4, GotoTyped, KeepTyped DEF TypeOK
    <2> QED
      BY <1>3, <2>1, <2>2 DEF RefundClaim
  <1>4. CASE RefundSave(r)
    <2>1. WholeSave(snap[r], RefundedCopy(snap[r])) \in Document
      BY <1>0, FirstSlot, CopiesTyped, SavesTyped
    <2>2. CASE End(r, "failed") /\ UNCHANGED <<doc, ledger, notes, faults>>
      BY <2>2, EndTyped DEF TypeOK, Outcomes
    <2>3. CASE /\ doc' = WholeSave(snap[r], RefundedCopy(snap[r])) /\ Goto(r, "postRefund")
               /\ UNCHANGED <<arg, snap, ledger, notes, faults>>
      BY <2>1, <2>3, GotoTyped DEF TypeOK, Steps
    <2> QED
      BY <1>4, <2>2, <2>3 DEF RefundSave
  <1>5. CASE RefundRestore(r)
    <2>1. doc' \in Document
      BY <1>0, <1>5 DEF RefundRestore, Document
    <2>2. "failed" \in Outcomes /\ "ok" \in Outcomes
      BY DEF Outcomes
    <2>3. /\ End(r, "failed") \/ End(r, "ok")
          /\ UNCHANGED <<ledger, notes, faults>>
      BY <1>5 DEF RefundRestore
    <2> QED
      BY <2>1, <2>2, <2>3, EndTyped DEF TypeOK
  <1> QED
    BY <1>1, <1>2, <1>3, <1>4, <1>5

(* POST /heal-orphans.                                                     *)
LEMMA HealType ==
  ASSUME TypeOK, NEW r \in Requests, HealRead(r) \/ HealCheck(r) \/ HealPost(r)
  PROVE  TypeOK'
  <1>0. doc \in Document /\ snap[r] \in Document /\ arg[r].todo \subseteq Slots
    BY DEF TypeOK, Argument
  <1>1. CASE HealRead(r)
    <2> DEFINE todo == {e \in InEffect(doc) \cap PaidAmong(doc) : PriceOf(doc, e) > 0}
    <2>1. todo \in SUBSET Slots
      BY <1>0, SlotsOfDocument
    <2> HIDE DEF todo
    <2>2. [NoArg EXCEPT !.op = "heal", !.todo = todo] \in Argument
      BY <2>1, FreshTyped DEF Argument, AllOperations
    <2>3. /\ arg' = [arg EXCEPT ![r] = [NoArg EXCEPT !.op = "heal", !.todo = todo]]
          /\ Keep(r, doc) /\ Goto(r, "healCheck")
          /\ UNCHANGED <<doc, ledger, notes, faults>>
      BY <1>1 DEF HealRead, todo
    <2> QED
      BY <1>0, <2>2, <2>3, GotoTyped, KeepTyped, ArgTyped DEF TypeOK, Steps
  <1>2. CASE HealCheck(r)
    <2> DEFINE todo == {e \in arg[r].todo : ~Covered(e)}
    <2>1. todo \in SUBSET Slots
      BY <1>0
    <2>2. arg' = [arg EXCEPT ![r].todo = todo]
      BY <1>2 DEF HealCheck
    <2>3. arg' \in [Requests -> Argument]
      BY <2>1, <2>2, FirstSlot, ArgFieldsTyped
    <2> QED
      BY <1>2, <2>3, GotoTyped DEF HealCheck, TypeOK, Steps
  <1>3. CASE HealPost(r)
    <2>1. CASE End(r, "ok") /\ UNCHANGED <<doc, notes, ledger, faults>>
      BY <2>1, EndTyped DEF TypeOK, Outcomes
    <2>2. CASE arg[r].todo # {}
      <3> DEFINE e == Min(arg[r].todo)
      <3>1. e \in Slots
        BY <1>0, <2>2, MinIsMember
      <3> HIDE DEF e
      <3>2. PostEntry(ledger, <<"heal", e>>, PriceOf(snap[r], e)) \in [Keys -> Entry]
        BY <1>0, <3>1, SlotsOfDocument, LedgerTyped DEF TypeOK
      <3>3. /\ ledger' \in {ledger, PostEntry(ledger, <<"heal", e>>, PriceOf(snap[r], e))}
            /\ UNCHANGED faults \/ Fault("heal")
            /\ arg' = [arg EXCEPT ![r].todo = arg[r].todo \ {e}]
            /\ UNCHANGED <<pc, snap, doc, notes>>
        BY <1>3, <2>2 DEF HealPost, e, TypeOK
      <3>4. arg' \in [Requests -> Argument]
        <4>1. arg[r].todo \ {e} \in SUBSET Slots
          BY <1>0
        <4> QED
          BY <3>3, <4>1, FirstSlot, ArgFieldsTyped
      <3> QED
        BY <3>2, <3>3, <3>4, FaultTyped DEF TypeOK
    <2> QED
      BY <1>3, <2>1, <2>2 DEF HealPost
  <1> QED
    BY <1>1, <1>2, <1>3

(* A crash of a request.                                                   *)
LEMMA CrashType ==
  ASSUME TypeOK, NEW r \in Requests, Crash(r)
  PROVE  TypeOK'
  BY EndTyped, FaultTyped DEF Crash, TypeOK, Outcomes

(* Every step keeps every variable well typed.                             *)
LEMMA NextType == TypeOK /\ [Next]_vars => TypeOK'
  <1> SUFFICES ASSUME TypeOK, [Next]_vars PROVE TypeOK'
    OBVIOUS
  <1>1. CASE UNCHANGED vars
    BY <1>1 DEF vars, locals, TypeOK
  <1>2. ASSUME NEW r \in Requests, Begin(r) PROVE TypeOK'
    BY <1>2, PayType, HealType, EnrType, AddType, CancelType, RefundType DEF Begin
  <1>3. ASSUME NEW r \in Requests, Continue(r) PROVE TypeOK'
    BY <1>3, PayType, HealType, EnrType, AddType, CancelType, RefundType, PostRefundType DEF Continue
  <1>4. ASSUME NEW r \in Requests, Crash(r) PROVE TypeOK'
    BY <1>4, CrashType
  <1>5. ASSUME NEW k \in Keys, LedgerVoid(k) PROVE TypeOK'
    <2>1. ledger' \in [Keys -> Entry]
      BY <1>5, VoidTyped DEF LedgerVoid, TypeOK
    <2> QED
      BY <1>5, <2>1 DEF LedgerVoid, TypeOK, locals
  <1> QED
    BY <1>1, <1>2, <1>3, <1>4, <1>5 DEF Next

(* Every reachable state is well typed: no interleaving of reads, claims,  *)
(* saves and rollbacks takes paidAmount below zero or loses a document's   *)
(* shape.                                                                  *)
THEOREM TypeCorrect == Spec => []TypeOK
  <1>1. Init => TypeOK
    BY InitType
  <1>2. TypeOK /\ [Next]_vars => TypeOK'
    BY NextType
  <1> QED
    BY <1>1, <1>2, PTL DEF Spec

-----------------------------------------------------------------------------
(* A confirmed payment stays booked until it is voided by hand: the step   *)
(* that confirms it has its entry accepted and posted, and no other step   *)
(* of a request changes a posted payment, because a posting only fills     *)
(* free keys and a request voids nothing but its own refund.               *)

(* What SettledIsBooked says of one step.                                  *)
BookedStep ==
  \A r \in Requests :
    Answered(r)' /\ (Answered(r) => BookedFor(r)) => BookedFor(r)' \/ LedgerVoid(PaymentKey(r))

(* A step of r that confirms nothing and leaves the other requests alone.  *)
Acts(r) ==
  /\ \A q \in Requests \ {r} : pc'[q] = pc[q] /\ arg'[q] = arg[q]
  /\ pc'[r] # "settled"

(* What a step of a request may do to the ledger.                          *)
Books ==
  \/ UNCHANGED ledger
  \/ \E k \in Keys \cup {RefundKey(r) : r \in Requests}, amt \in Nat :
        ledger' = PostEntry(ledger, k, amt)
  \/ \E r \in Requests : ledger' = VoidEntry(ledger, RefundKey(r))

(* The keys of payments: what is posted under them can be added up.        *)
LEMMA PaymentsAreKeys == PaymentKeys \subseteq Keys
  BY DEF PaymentKeys, Keys

LEMMA PaymentKeysFinite == IsFiniteSet(PaymentKeys)
  <1>1. IsFiniteSet({"pay", "add", "heal"})
    <2>1. IsFiniteSet({"pay"})
      BY FS_Singleton
    <2>2. IsFiniteSet({"pay"} \cup {"add"})
      BY <2>1, FS_AddElement
    <2>3. IsFiniteSet(({"pay"} \cup {"add"}) \cup {"heal"})
      BY <2>2, FS_AddElement
    <2>4. ({"pay"} \cup {"add"}) \cup {"heal"} = {"pay", "add", "heal"}
      OBVIOUS
    <2> QED
      BY <2>3, <2>4
  <1>2. IsFiniteSet(Slots)
    BY TuitionAssumption, FS_Interval DEF Slots
  <1> QED
    BY <1>1, <1>2, FS_Product DEF PaymentKeys

(* Payments and refunds are booked under different keys.                   *)
LEMMA KeysApart ==
  ASSUME TypeOK, NEW q \in Requests, NEW r \in Requests
  PROVE  PaymentKey(q) \in Keys /\ PaymentKey(q) # RefundKey(r)
  BY DEF TypeOK, Argument, PaymentKey, RefundKey, Keys

(* Such a step keeps every posted payment as it is.                        *)
LEMMA BooksKeepPayments ==
  ASSUME TypeOK, Books, NEW q \in Requests, Posted(ledger, PaymentKey(q))
  PROVE  ledger'[PaymentKey(q)] = ledger[PaymentKey(q)]
  <1>1. ledger \in [Keys -> Entry] /\ PaymentKey(q) \in Keys
    BY KeysApart DEF TypeOK
  <1>2. CASE UNCHANGED ledger
    BY <1>2
  <1>3. ASSUME NEW k, NEW amt \in Nat, ledger' = PostEntry(ledger, k, amt)
        PROVE  ledger'[PaymentKey(q)] = ledger[PaymentKey(q)]
    BY <1>1, <1>3, PostKeeps
  <1>4. ASSUME NEW r \in Requests, ledger' = VoidEntry(ledger, RefundKey(r))
        PROVE  ledger'[PaymentKey(q)] = ledger[PaymentKey(q)]
    BY <1>1, <1>4, KeysApart, VoidKeeps
  <1> QED
    BY <1>2, <1>3, <1>4 DEF Books

(* A step that confirms nothing keeps what was confirmed.                  *)
LEMMA ActsKeepSettled ==
  ASSUME TypeOK, NEW r \in Requests, Acts(r), Books
  PROVE  BookedStep
  <1> SUFFICES ASSUME NEW q \in Requests, Answered(q)', Answered(q) => BookedFor(q)
               PROVE  BookedFor(q)'
    BY DEF BookedStep
  <1>1. pc[q] = "settled" /\ arg'[q] = arg[q]
    BY DEF Acts, Answered
  <1>2. PaymentKey(q)' = PaymentKey(q)
    BY <1>1 DEF PaymentKey
  <1>3. Posted(ledger, PaymentKey(q)) /\ ledger[PaymentKey(q)].amount = arg[q].amt
    BY <1>1 DEF Answered, BookedFor
  <1>4. ledger'[PaymentKey(q)] = ledger[PaymentKey(q)]
    BY <1>3, BooksKeepPayments
  <1> QED
    BY <1>1, <1>2, <1>3, <1>4 DEF Posted, BookedFor

(* The step that confirms a payment has booked it.                         *)
LEMMA SettleBooks ==
  ASSUME TypeOK, NEW r \in Requests, NEW undo \in Steps, Settle(r, undo)
  PROVE  BookedStep
  <1> DEFINE k == PaymentKey(r)
             amt == arg[r].amt
  <1>1. amt \in Nat /\ k \in Keys /\ ledger \in [Keys -> Entry]
    BY KeysApart DEF TypeOK, Argument
  <1>2. Books
    BY <1>1 DEF Settle, Books
  <1>3. CASE /\ amt = 0 \/ Accepts(ledger, k, amt)
             /\ ledger' = IF amt = 0 THEN ledger ELSE PostEntry(ledger, k, amt)
             /\ End(r, "settled")
    <2> SUFFICES ASSUME NEW q \in Requests, Answered(q)', Answered(q) => BookedFor(q)
                 PROVE  BookedFor(q)'
      BY DEF BookedStep
    <2>1. arg'[q] = arg[q] /\ (q # r => pc'[q] = pc[q])
      BY <1>3 DEF End, Goto, TypeOK
    <2>2. PaymentKey(q)' = PaymentKey(q)
      BY <2>1 DEF PaymentKey
    <2>3. CASE q = r
      <3>1. Accepts(ledger, k, amt) /\ ledger' = PostEntry(ledger, k, amt)
        BY <1>1, <1>3, <2>1, <2>3 DEF Answered
      <3>2. Posted(PostEntry(ledger, k, amt), k) /\ PostEntry(ledger, k, amt)[k].amount = amt
        BY <1>1, <3>1, AcceptedIsPosted
      <3> QED
        BY <2>1, <2>2, <2>3, <3>1, <3>2 DEF Posted, BookedFor
    <2>4. CASE q # r
      <3>1. Posted(ledger, PaymentKey(q)) /\ ledger[PaymentKey(q)].amount = arg[q].amt
        BY <2>1, <2>4 DEF Answered, BookedFor
      <3>2. ledger'[PaymentKey(q)] = ledger[PaymentKey(q)]
        BY <1>2, <3>1, BooksKeepPayments
      <3> QED
        BY <2>1, <2>2, <3>1, <3>2 DEF Posted, BookedFor
    <2> QED
      BY <2>3, <2>4
  <1>4. CASE Goto(r, undo) /\ UNCHANGED arg
    <2>1. Acts(r)
      BY <1>4 DEF Acts, Goto, TypeOK, Steps
    <2> QED
      BY <1>2, <2>1, ActsKeepSettled
  <1> QED
    BY <1>3, <1>4 DEF Settle

(* A void by hand takes out the payment it names and no other.             *)
LEMMA VoidSparesOthers ==
  ASSUME TypeOK, NEW k \in Keys, LedgerVoid(k)
  PROVE  BookedStep
  <1> SUFFICES ASSUME NEW q \in Requests, Answered(q)', Answered(q) => BookedFor(q), PaymentKey(q) # k
               PROVE  BookedFor(q)'
    BY DEF BookedStep
  <1>1. UNCHANGED <<pc, arg>> /\ ledger' = VoidEntry(ledger, k) /\ ledger \in [Keys -> Entry]
    BY DEF LedgerVoid, locals, TypeOK
  <1>2. PaymentKey(q)' = PaymentKey(q) /\ PaymentKey(q) \in Keys
    BY <1>1, KeysApart DEF PaymentKey
  <1>3. ledger'[PaymentKey(q)] = ledger[PaymentKey(q)]
    BY <1>1, <1>2, VoidKeeps
  <1> QED
    BY <1>1, <1>2, <1>3 DEF Answered, BookedFor, Posted

(* The steps that leave the ledger alone.                                  *)
LEMMA QuietSteps ==
  ASSUME TypeOK, NEW r \in Requests,
         \/ Begin(r) \/ Crash(r)
         \/ PayClaim(r) \/ PaySave(r) \/ PayUndo(r)
         \/ EnrRead(r) \/ EnrSave(r) \/ Undo(r) \/ AddSave(r)
         \/ CountNotes(r) \/ IssueNote(r) \/ CancelSave(r)
         \/ RefundFill(r) \/ RefundClaim(r) \/ RefundSave(r) \/ RefundRestore(r)
         \/ HealCheck(r)
  PROVE  Acts(r) /\ Books
  <1> USE DEF Acts, Books, End, Goto, Refuse
  <1>0. pc \in [Requests -> {"new"} \cup Steps \cup Outcomes] /\ arg \in [Requests -> Argument]
    BY DEF TypeOK
  <1>1. CASE Begin(r)
    <2>1. CASE PayRead(r)
      BY <1>0, <2>1 DEF PayRead
    <2>2. CASE HealRead(r)
      BY <1>0, <2>2 DEF HealRead
    <2>3. ASSUME NEW e \in Slots, EnrClaim(r, e) PROVE Acts(r) /\ Books
      BY <1>0, <2>3 DEF EnrClaim
    <2>4. ASSUME NEW c \in Courses, NEW op \in {"add", "addPaid"}, AddRead(r, c, op)
          PROVE  Acts(r) /\ Books
      BY <1>0, <2>4 DEF AddRead
    <2>5. ASSUME NEW e \in Slots, NEW amt \in Amounts, CancelRead(r, e, amt)
          PROVE  Acts(r) /\ Books
      BY <1>0, <2>5 DEF CancelRead
    <2>6. ASSUME NEW amt \in Amounts, NEW id \in RefundIds, RefundRead(r, amt, id)
          PROVE  Acts(r) /\ Books
      BY <1>0, <2>6 DEF RefundRead
    <2> QED
      BY <1>1, <2>1, <2>2, <2>3, <2>4, <2>5, <2>6 DEF Begin
  <1>2. CASE Crash(r)
    BY <1>0, <1>2 DEF Crash
  <1>3. CASE PayClaim(r)
    BY <1>0, <1>3 DEF PayClaim
  <1>4. CASE PaySave(r)
    BY <1>0, <1>4 DEF PaySave
  <1>5. CASE PayUndo(r)
    BY <1>0, <1>5 DEF PayUndo
  <1>6. CASE EnrRead(r)
    BY <1>0, <1>6 DEF EnrRead
  <1>7. CASE EnrSave(r)
    BY <1>0, <1>7 DEF EnrSave
  <1>8. CASE Undo(r)
    BY <1>0, <1>8 DEF Undo
  <1>9. CASE AddSave(r)
    BY <1>0, <1>9 DEF AddSave
  <1>10. CASE CountNotes(r)
    BY <1>0, <1>10 DEF CountNotes
  <1>11. CASE IssueNote(r)
    BY <1>0, <1>11 DEF IssueNote, AfterRefund
  <1>12. CASE CancelSave(r)
    BY <1>0, <1>12 DEF CancelSave
  <1>13. CASE RefundFill(r)
    BY <1>0, <1>13 DEF RefundFill
  <1>14. CASE RefundClaim(r)
    BY <1>0, <1>14 DEF RefundClaim
  <1>15. CASE RefundSave(r)
    BY <1>0, <1>15 DEF RefundSave
  <1>16. CASE RefundRestore(r)
    BY <1>0, <1>16 DEF RefundRestore
  <1>17. CASE HealCheck(r)
    BY <1>0, <1>17 DEF HealCheck
  <1> QED
    BY <1>1, <1>2, <1>3, <1>4, <1>5, <1>6, <1>7, <1>8, <1>9, <1>10, <1>11, <1>12,
       <1>13, <1>14, <1>15, <1>16, <1>17

(* The steps that post or void a refund, or heal an orphan.                *)
LEMMA BookingSteps ==
  ASSUME TypeOK, NEW r \in Requests, PostRefund(r) \/ VoidRefund(r) \/ HealPost(r)
  PROVE  Acts(r) /\ Books
  <1>0. pc \in [Requests -> {"new"} \cup Steps \cup Outcomes] /\ arg \in [Requests -> Argument]
        /\ arg[r].amt \in Nat /\ arg[r].todo \subseteq Slots /\ snap[r] \in Document
    BY DEF TypeOK, Argument
  <1>1. CASE PostRefund(r)
    <2>1. Books
      BY <1>0, <1>1 DEF PostRefund, Books
    <2>2. \/ Goto(r, "countNotes") /\ UNCHANGED arg
          \/ AfterRefund(r, FALSE)
          \/ RefundThrows(r)
      BY <1>1 DEF PostRefund
    <2> QED
      BY <1>0, <2>1, <2>2 DEF Acts, AfterRefund, RefundThrows, End, Goto
  <1>2. CASE VoidRefund(r)
    BY <1>0, <1>2 DEF VoidRefund, Books, Acts, RefundThrows, End, Goto
  <1>3. CASE HealPost(r)
    <2>1. CASE arg[r].todo = {}
      BY <1>0, <1>3, <2>1 DEF HealPost, Books, Acts, End, Goto
    <2>2. CASE arg[r].todo # {}
      <3> DEFINE e == Min(arg[r].todo)
      <3>1. e \in Slots
        BY <1>0, <2>2, MinIsMember
      <3> HIDE DEF e
      <3>2. PriceOf(snap[r], e) \in Nat /\ <<"heal", e>> \in Keys
        BY <1>0, <3>1, SlotsOfDocument DEF Keys
      <3>3. UNCHANGED ledger \/ ledger' = PostEntry(ledger, <<"heal", e>>, PriceOf(snap[r], e))
        BY <1>3, <2>2 DEF HealPost, e
      <3>4. UNCHANGED pc /\ pc[r] = "healPost" /\ arg' = [arg EXCEPT ![r].todo = @ \ {e}]
        BY <1>3, <2>2 DEF HealPost, e
      <3>5. Books
        BY <3>2, <3>3 DEF Books
      <3>6. Acts(r)
        BY <1>0, <3>4 DEF Acts
      <3> QED
        BY <3>5, <3>6
    <2> QED
      BY <2>1, <2>2
  <1> QED
    BY <1>1, <1>2, <1>3

(* Hence every step keeps what was confirmed, or voids it by hand.         *)
LEMMA SettledStep ==
  ASSUME TypeOK, Next
  PROVE  BookedStep
  <1>1. ASSUME NEW k \in Keys, LedgerVoid(k) PROVE BookedStep
    BY <1>1, VoidSparesOthers
  <1>2. ASSUME NEW r \in Requests, Begin(r) \/ Crash(r) PROVE BookedStep
    BY <1>2, QuietSteps, ActsKeepSettled
  <1>3. ASSUME NEW r \in Requests, Continue(r) PROVE BookedStep
    <2>1. CASE PaySettle(r) \/ EnrSettle(r) \/ AddSettle(r)
      BY <2>1, SettleBooks DEF PaySettle, EnrSettle, AddSettle, Steps
    <2>2. CASE PostRefund(r) \/ VoidRefund(r) \/ HealPost(r)
      BY <2>2, BookingSteps, ActsKeepSettled
    <2>3. CASE ~(PaySettle(r) \/ EnrSettle(r) \/ AddSettle(r)
                 \/ PostRefund(r) \/ VoidRefund(r) \/ HealPost(r))
      <3>1. Acts(r) /\ Books
        BY <1>3, <2>3, QuietSteps DEF Continue
      <3> QED
        BY <3>1, ActsKeepSettled
    <2> QED
      BY <2>1, <2>2, <2>3
  <1> QED
    BY <1>1, <1>2, <1>3 DEF Next

(* A payment is in the ledger with its amount when it is answered with     *)
(* 200, and whatever fails it stays there until an administrator voids     *)
(* that very entry: the promise of settlePayment's collision check         *)
(* (ledgerService.js:114-131), for any number of concurrent requests.      *)
THEOREM SettledStaysBooked == Spec => SettledIsBooked
  <1>1. TypeOK /\ [Next]_vars => [BookedStep]_vars
    BY SettledStep
  <1> QED
    BY <1>1, TypeCorrect, PTL DEF Spec, SettledIsBooked, BookedStep
=============================================================================
