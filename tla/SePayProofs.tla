----------------------------- MODULE SePayProofs -----------------------------
(***************************************************************************)
(* Proofs about SePay for every number of sessions, transfers, deliveries  *)
(* and requests.  Operations and faults are restricted only where a        *)
(* theorem says so.                                                        *)
(***************************************************************************)
EXTENDS SePay, TuitionProofs

-----------------------------------------------------------------------------
(* The root price is the price of a course, or zero when no enrollment is  *)
(* in effect; so are those of all copies.  An amount that is the root      *)
(* price therefore is the price of a course.                               *)
Prices == {0} \cup {Price[c] : c \in Courses}

RootPriced == doc.price \in Prices /\ \A r \in Requests : snap[r].price \in Prices

LEMMA NewDocPriced == NewDoc.price \in Prices
  BY TuitionAssumption DEF NewDoc, Prices

LEMMA CopyPrices ==
  ASSUME NEW d \in Document, NEW e, NEW amt
  PROVE  /\ PaidCopy(d).price = d.price /\ UnpaidCopy(d).price = d.price
         /\ CollectedCopy(d, e, amt).price = d.price /\ TakenBack(d, e, amt).price = d.price
         /\ RefundedCopy(d).price = d.price
         /\ [d EXCEPT !.v = @ + 1].price = d.price
  BY DEF Document, PaidCopy, UnpaidCopy, CollectedCopy, TakenBack, RefundedCopy

LEMMA CoursePriced ==
  ASSUME NEW d \in Document, NEW e \in Slots
  PROVE  PriceOf(d, e) \in Prices
  BY DEF PriceOf, Document, Enrollment, Prices

LEMMA LeadIsSlot ==
  ASSUME NEW d \in Document, InEffect(d) # {}
  PROVE  (IF Primaries(d) \cap InEffect(d) # {} THEN Min(Primaries(d) \cap InEffect(d))
                                                ELSE Min(InEffect(d))) \in InEffect(d)
  BY SlotsOfDocument, MinIsMember

LEMMA CancelledPriced ==
  ASSUME NEW d \in Document, NEW e \in Slots, NEW amt \in Nat
  PROVE  Cancelled(d, e, amt).price \in Prices
  <1> DEFINE rest == {i \in Present(d) \ {e} : d.enr[i].status # "cancelled"}
             list == [i \in Slots |->
                 IF i = e
                 THEN [d.enr[i] EXCEPT !.status = "cancelled", !.paid = FALSE,
                                       !.primary = FALSE, !.refunded = amt]
                 ELSE IF d.enr[e].primary /\ rest # {} /\ i = Min(rest)
                      THEN [d.enr[i] EXCEPT !.primary = TRUE]
                      ELSE d.enr[i]]
             new  == [d EXCEPT !.enr = list]
             lead == IF Primaries(new) \cap InEffect(new) # {}
                       THEN Min(Primaries(new) \cap InEffect(new))
                       ELSE Min(InEffect(new))
             price == IF InEffect(new) = {} THEN 0 ELSE PriceOf(new, lead)
  <1>1. list \in [Slots -> Enrollment]
    <2>1. \A x \in Enrollment :
            /\ [x EXCEPT !.status = "cancelled", !.paid = FALSE,
                         !.primary = FALSE, !.refunded = amt] \in Enrollment
            /\ [x EXCEPT !.primary = TRUE] \in Enrollment
      BY DEF Enrollment
    <2> QED
      BY <2>1 DEF Document
  <1> HIDE DEF list
  <1>2. new \in Document
    BY <1>1 DEF Document
  <1> HIDE DEF new
  <1>3. price \in Prices
    <2>1. CASE InEffect(new) = {}
      BY <2>1 DEF Prices
    <2>2. CASE InEffect(new) # {}
      <3>1. lead \in Slots
        BY <1>2, <2>2, LeadIsSlot, SlotsOfDocument
      <3> HIDE DEF lead
      <3> QED
        BY <1>2, <2>2, <3>1, CoursePriced
    <2> QED
      BY <2>1, <2>2
  <1> HIDE DEF price
  <1>4. \A p, n : [new EXCEPT !.price = price, !.paid = p, !.paidAmount = n].price = price
    BY <1>2 DEF Document
  <1> QED
    BY <1>3, <1>4 DEF Cancelled, list, new, price

LEMMA SavedPriced ==
  ASSUME doc \in Document, doc.price \in Prices, NEW loaded, NEW copy, copy.price \in Prices
  PROVE  /\ Scalars(loaded, copy).price \in Prices
         /\ WholeSave(loaded, copy).price \in Prices
         /\ \A x, n : [Scalars(loaded, copy) EXCEPT !.enr = x, !.v = n].price \in Prices
  <1> DEFINE s == Scalars(loaded, copy)
  <1>1. s.price \in Prices
    BY DEF Document, Scalars
  <1>2. \A x, n : [s EXCEPT !.enr = x, !.v = n].price = s.price
    BY DEF Document, Scalars
  <1> HIDE DEF s
  <1>3. WholeSave(loaded, copy).price = s.price
    BY <1>2 DEF WholeSave, s
  <1> QED
    BY <1>1, <1>2, <1>3 DEF s

(* What a step of request r does to prices.                                *)
KeepsPrices(r) ==
  /\ doc'.price \in Prices
  /\ UNCHANGED snap \/ \E d : d.price \in Prices /\ Keep(r, d)

LEMMA KeepsRoot ==
  ASSUME TypeOK, RootPriced, NEW r \in Requests, KeepsPrices(r)
  PROVE  RootPriced'
  BY DEF TypeOK, RootPriced, KeepsPrices, Keep

LEMMA QuietKeepsPrices ==
  ASSUME TypeOK, RootPriced, NEW r \in Requests, UNCHANGED doc,
         \/ UNCHANGED snap
         \/ Keep(r, doc)
         \/ \E o \in Outcomes : End(r, o)
  PROVE  KeepsPrices(r)
  <1>1. doc.price \in Prices
    BY DEF RootPriced
  <1> QED
    BY <1>1, NewDocPriced DEF KeepsPrices, End

LEMMA SettleKeepsPrices ==
  ASSUME TypeOK, RootPriced, NEW r \in Requests, NEW undo, Settle(r, undo)
  PROVE  KeepsPrices(r)
  BY QuietKeepsPrices DEF Settle, Outcomes

LEMMA BeginKeepsPrices ==
  ASSUME TypeOK, RootPriced, NEW r \in Requests, Begin(r)
  PROVE  KeepsPrices(r)
  <1>1. CASE \E e \in Slots : EnrClaim(r, e)
    <2>1. CASE UNCHANGED doc
      BY <1>1, <2>1, QuietKeepsPrices DEF EnrClaim, Refuse, Outcomes
    <2>2. CASE ~UNCHANGED doc
      <3>1. UNCHANGED snap /\ \E x : doc' = [doc EXCEPT !.enr = x]
        BY <1>1, <2>2 DEF EnrClaim, Refuse
      <3>2. doc'.price = doc.price
        BY <3>1 DEF TypeOK, Document
      <3> QED
        BY <3>1, <3>2 DEF RootPriced, KeepsPrices
    <2> QED
      BY <2>1, <2>2
  <1>2. CASE PayRead(r) \/ HealRead(r)
    BY <1>2, QuietKeepsPrices DEF PayRead, HealRead, Refuse, Outcomes
  <1>3. CASE \E c \in Courses, op \in {"add", "addPaid"} : AddRead(r, c, op)
    BY <1>3, QuietKeepsPrices DEF AddRead, Refuse, Outcomes
  <1>4. CASE \E e \in Slots, amt \in Amounts : CancelRead(r, e, amt)
    BY <1>4, QuietKeepsPrices DEF CancelRead, Refuse, Outcomes
  <1>5. CASE \E amt \in Amounts \ {0}, id \in RefundIds : RefundRead(r, amt, id)
    BY <1>5, QuietKeepsPrices DEF RefundRead, Refuse, Outcomes
  <1> QED
    BY <1>1, <1>2, <1>3, <1>4, <1>5 DEF Begin

(* A step that saves a copy of the document that has the price of snap[r], *)
(* or one of the catalogue.                                                *)
LEMMA SaveKeepsPrices ==
  ASSUME TypeOK, RootPriced, NEW r \in Requests, NEW copy, copy.price \in Prices,
         \/ UNCHANGED doc
         \/ doc' = WholeSave(snap[r], copy)
         \/ doc' = Scalars(snap[r], copy)
         \/ \E x, n : doc' = [Scalars(snap[r], copy) EXCEPT !.enr = x, !.v = n],
         \/ UNCHANGED snap
         \/ Keep(r, copy)
         \/ \E d : d.price = copy.price /\ Keep(r, d)
         \/ \E o \in Outcomes : End(r, o)
  PROVE  KeepsPrices(r)
  <1>1. doc'.price \in Prices
    BY SavedPriced DEF TypeOK, RootPriced
  <1> QED
    BY <1>1, NewDocPriced DEF KeepsPrices, End

LEMMA ContinueKeepsPrices ==
  ASSUME TypeOK, RootPriced, NEW r \in Requests, Continue(r)
  PROVE  KeepsPrices(r)
  <1>0. /\ doc \in Document /\ snap[r] \in Document /\ doc.price \in Prices /\ snap[r].price \in Prices
        /\ arg[r].amt \in Nat /\ arg[r].e \in Slots
    BY DEF TypeOK, RootPriced, Argument
  <1>1. CASE PayClaim(r) \/ RefundFill(r) \/ RefundClaim(r) \/ RefundRestore(r)
    <2>1. doc'.price = doc.price
      BY <1>0, <1>1 DEF PayClaim, RefundFill, RefundClaim, RefundRestore, Refuse, Document
    <2>2. UNCHANGED snap \/ Keep(r, doc') \/ \E o \in Outcomes : End(r, o)
      BY <1>1 DEF PayClaim, RefundFill, RefundClaim, RefundRestore, Refuse, Outcomes
    <2> QED
      BY <1>0, <2>1, <2>2, NewDocPriced DEF KeepsPrices, End
  <1>2. CASE PaySave(r)
    <2> DEFINE copy == PaidCopy(snap[r])
    <2>1. copy.price = snap[r].price /\ copy \in Document
      BY <1>0, CopyPrices, CopiesTyped
    <2>2. [copy EXCEPT !.v = @ + 1].price = copy.price
      BY <2>1, CopyPrices
    <2>3. \/ doc' = WholeSave(snap[r], copy) /\ Keep(r, [copy EXCEPT !.v = @ + 1])
          \/ UNCHANGED doc /\ End(r, "failed")
      BY <1>2 DEF PaySave
    <2> HIDE DEF copy
    <2> QED
      BY <1>0, <2>1, <2>2, <2>3, SaveKeepsPrices DEF Outcomes
  <1>3. CASE PayUndo(r)
    <2>1. UnpaidCopy(snap[r]).price \in Prices
      BY <1>0, CopyPrices
    <2> QED
      BY <1>3, <2>1, SaveKeepsPrices DEF PayUndo, Outcomes
  <1>4. CASE EnrSave(r)
    <2> DEFINE copy == CollectedCopy(snap[r], arg[r].e, arg[r].amt)
    <2>1. copy.price \in Prices
      BY <1>0, CopyPrices
    <2>2. doc' = Scalars(snap[r], copy) /\ (End(r, "ok") \/ Keep(r, copy))
      BY <1>4 DEF EnrSave
    <2> HIDE DEF copy
    <2> QED
      BY <2>1, <2>2, SaveKeepsPrices DEF Outcomes
  <1>5. CASE Undo(r)
    <2>1. TakenBack(snap[r], arg[r].e, arg[r].amt).price \in Prices
      BY <1>0, CopyPrices
    <2> QED
      BY <1>5, <2>1, SaveKeepsPrices DEF Undo, Outcomes
  <1>6. CASE AddSave(r)
    <2> DEFINE e    == Min(Slots \ Present(doc))
               new  == Registration(arg[r].course, arg[r].op = "addPaid")
               copy == AddedCopy(snap[r], e, new, arg[r].amt)
    <2> HIDE DEF e, new
    <2>1. copy.price \in Prices
      <3>1. copy.price = snap[r].price
        BY <1>0 DEF AddedCopy, Document
      <3> QED
        BY <1>0, <3>1
    <2>2. /\ doc' = [Scalars(snap[r], copy) EXCEPT !.enr = [@ EXCEPT ![e] = new], !.v = @ + 1]
          /\ Keep(r, [copy EXCEPT !.v = @ + 1]) \/ End(r, "ok")
      BY <1>6 DEF AddSave, e, new
    <2>3. [copy EXCEPT !.v = @ + 1].price = copy.price
      BY <1>0 DEF AddedCopy, Document
    <2>4. \E x, n : doc' = [Scalars(snap[r], copy) EXCEPT !.enr = x, !.v = n]
      BY <2>2
    <2>5. (\E d : d.price = copy.price /\ Keep(r, d)) \/ End(r, "ok")
      BY <2>2, <2>3
    <2> HIDE DEF copy
    <2> QED
      BY <2>1, <2>4, <2>5, SaveKeepsPrices DEF Outcomes
  <1>7. CASE CancelSave(r)
    <2>1. Cancelled(snap[r], arg[r].e, arg[r].amt).price \in Prices
      BY <1>0, CancelledPriced
    <2> QED
      BY <1>7, <2>1, SaveKeepsPrices DEF CancelSave, Outcomes
  <1>8. CASE RefundSave(r)
    <2>1. RefundedCopy(snap[r]).price \in Prices
      BY <1>0, CopyPrices
    <2> QED
      BY <1>8, <2>1, SaveKeepsPrices DEF RefundSave, Outcomes
  <1>9. CASE PaySettle(r) \/ EnrSettle(r) \/ AddSettle(r)
    BY <1>9, SettleKeepsPrices DEF PaySettle, EnrSettle, AddSettle
  <1>10. CASE EnrRead(r) \/ HealCheck(r) \/ HealPost(r) \/ CountNotes(r)
    BY <1>10, QuietKeepsPrices DEF EnrRead, HealCheck, HealPost, CountNotes, Outcomes
  <1>11. CASE PostRefund(r) \/ IssueNote(r) \/ VoidRefund(r)
    BY <1>11, QuietKeepsPrices DEF PostRefund, IssueNote, VoidRefund, AfterRefund, RefundThrows, Outcomes
  <1> QED
    BY <1>1, <1>2, <1>3, <1>4, <1>5, <1>6, <1>7, <1>8, <1>9, <1>10, <1>11 DEF Continue

LEMMA PricedStep ==
  ASSUME TypeOK, RootPriced, [Next]_vars
  PROVE  RootPriced'
  <1>1. CASE UNCHANGED vars
    BY <1>1 DEF vars, locals, RootPriced
  <1>2. ASSUME NEW r \in Requests, Crash(r) PROVE KeepsPrices(r)
    BY <1>2, QuietKeepsPrices DEF Crash, Outcomes
  <1>3. ASSUME NEW k \in Keys, LedgerVoid(k) PROVE RootPriced'
    BY <1>3 DEF LedgerVoid, locals, RootPriced
  <1> QED
    BY <1>1, <1>2, <1>3, BeginKeepsPrices, ContinueKeepsPrices, KeepsRoot DEF Next

-----------------------------------------------------------------------------
(* The copies a delivery saves.                                            *)
LEMMA FreeSlotsTyped ==
  ASSUME NEW d \in Document
  PROVE  FreeSlots(d) \subseteq Slots /\ (FreeSlots(d) # {} => Min(FreeSlots(d)) \in Slots)
  BY MinIsMember DEF FreeSlots

LEMMA ReEnrolledTyped ==
  ASSUME NEW d \in Document, NEW e \in Slots, NEW c \in Courses
  PROVE  ReEnrolled(d, e, c) \in Document /\ ReEnrolled(d, e, c).price \in Prices
  <1> DEFINE list == [i \in Slots |-> IF i = e THEN Opened(Pending(c, TRUE))
                                               ELSE [d.enr[i] EXCEPT !.primary = FALSE]]
             n == Price[c]
  <1>1. list \in [Slots -> Enrollment]
    <2>1. Opened(Pending(c, TRUE)) \in Enrollment
      BY FreshEnrollments, OpenedClosedTyped
    <2>2. \A x \in Enrollment : [x EXCEPT !.primary = FALSE] \in Enrollment
      BY DEF Enrollment
    <2> QED
      BY <2>1, <2>2 DEF Document
  <1>2. n \in Nat /\ n \in Prices
    BY TuitionAssumption DEF Prices
  <1> HIDE DEF list, n
  <1>3. LET r == [d EXCEPT !.paid = TRUE, !.paidAmount = n, !.price = n, !.enr = list]
        IN  r \in Document /\ r.price = n
    BY <1>1, <1>2 DEF Document
  <1> QED
    BY <1>2, <1>3 DEF ReEnrolled, list, n

LEMMA DroppedTyped ==
  ASSUME NEW d \in Document, NEW e \in Slots, d.price \in Prices
  PROVE  Dropped(d, e) \in Document /\ Dropped(d, e).price \in Prices
  <1> DEFINE list == [d.enr EXCEPT ![e] = Absent]
             rest == [d EXCEPT !.paid = FALSE, !.paidAmount = 0, !.enr = list]
             lead == IF Primaries(rest) \cap InEffect(rest) # {}
                     THEN Min(Primaries(rest) \cap InEffect(rest)) ELSE Min(InEffect(rest))
  <1>1. list \in [Slots -> Enrollment]
    BY FreshEnrollments DEF Document
  <1> HIDE DEF list
  <1>2. rest \in Document /\ rest.price = d.price
    BY <1>1 DEF Document
  <1>3. Dropped(d, e) =
          IF Present(rest) = {} THEN rest
          ELSE IF InEffect(rest) = {} THEN [rest EXCEPT !.price = 0]
          ELSE [rest EXCEPT !.price = PriceOf(rest, lead), !.paid = rest.enr[lead].paid]
    BY DEF Dropped, list
  <1> HIDE DEF rest
  <1>4. [rest EXCEPT !.price = 0] \in Document /\ [rest EXCEPT !.price = 0].price \in Prices
    BY <1>2 DEF Document, Prices
  <1>5. ASSUME InEffect(rest) # {}
        PROVE  LET r == [rest EXCEPT !.price = PriceOf(rest, lead), !.paid = rest.enr[lead].paid]
               IN  r \in Document /\ r.price \in Prices
    <2>1. lead \in Slots
      BY <1>2, <1>5, LeadIsSlot, SlotsOfDocument
    <2> HIDE DEF lead
    <2>2. PriceOf(rest, lead) \in Nat /\ PriceOf(rest, lead) \in Prices
      BY <1>2, <2>1, SlotsOfDocument, CoursePriced
    <2>3. rest.enr[lead].paid \in BOOLEAN
      BY <1>2, <2>1 DEF Document, Enrollment
    <2>4. \A n \in Nat, b \in BOOLEAN :
            /\ [rest EXCEPT !.price = n, !.paid = b] \in Document
            /\ [rest EXCEPT !.price = n, !.paid = b].price = n
      BY <1>2 DEF Document
    <2> QED
      BY <2>2, <2>3, <2>4
  <1> HIDE DEF lead
  <1> QED
    BY <1>2, <1>3, <1>4, <1>5

-----------------------------------------------------------------------------
(* Types.  What a delivery carries suits the step it is at: the transfer   *)
(* it was sent for, the session it has found, and an amount some course    *)
(* costs.                                                                  *)
WPlaces == {"new"} \cup WSteps \cup WOutcomes
WArgs   == [t : Transfers \cup {"none"}, s : Sessions \cup {0}, e : Slots, fresh : BOOLEAN]

Asked == {"claimSession", "settleSession", "releaseSession", "enrollRead", "enrollSave"}

Suits(p, a) ==
  /\ p \in WSteps => a.t \in Transfers
  /\ p \in Asked => a.s \in Sessions
  /\ p \notin Asked \cup {"mark"} => a.s = 0
  /\ p \in {"freshRead", "freshSave"} => \E c \in Courses : Price[c] = TransferOf[a.t].amount

World ==
  /\ TypeOK /\ RootPriced
  /\ sess \in [Sessions -> {"absent", "pending", "paid", "expired"}]
  /\ polls \subseteq Sessions
  /\ event \in [Transfers -> [state : {"none", "open", "matched"},
                              key : SessionKeys \cup Keys \cup {NoKey}]]
  /\ received \in [Sessions -> Entry]
  /\ wsnap \in [Webhooks -> Document]
  /\ \A w \in Webhooks : wsnap[w].price \in Prices

Deliveries ==
  /\ wpc \in [Webhooks -> WPlaces]
  /\ warg \in [Webhooks -> WArgs]
  /\ \A w \in Webhooks : Suits(wpc[w], warg[w])

WTyped == World /\ Deliveries

(* Delivery w goes to step p with locals a.                                *)
WMoves(w, p, a) == wpc' = [wpc EXCEPT ![w] = p] /\ warg' = [warg EXCEPT ![w] = a]

WGoes(w) == \E p \in WPlaces, a \in WArgs : Suits(p, a) /\ WMoves(w, p, a)

LEMMA WMoved ==
  ASSUME WTyped, NEW w \in Webhooks, NEW p \in WPlaces, NEW a \in WArgs, WMoves(w, p, a)
  PROVE  /\ wpc'[w] = p /\ warg'[w] = a
         /\ \A v \in Webhooks \ {w} : wpc'[v] = wpc[v] /\ warg'[v] = warg[v]
  BY DEF WTyped, Deliveries, WMoves

LEMMA GoesTyped ==
  ASSUME WTyped, NEW w \in Webhooks, WGoes(w)
  PROVE  Deliveries'
  BY DEF WTyped, Deliveries, WGoes, WMoves

LEMMA NoWArgTyped ==
  /\ NoWArg \in WArgs /\ NoWArg.s = 0
  /\ \A t \in Transfers \cup {"none"} : /\ [NoWArg EXCEPT !.t = t] \in WArgs
                                        /\ [NoWArg EXCEPT !.t = t].s = 0
  BY FirstSlot DEF NoWArg, WArgs

LEMMA EndGoes ==
  ASSUME WTyped, NEW w \in Webhooks, NEW o \in WOutcomes, WEnd(w, o)
  PROVE  /\ WGoes(w)
         /\ wsnap' \in [Webhooks -> Document] /\ \A v \in Webhooks : wsnap'[v].price \in Prices
  <1> DEFINE a == IF o = "dead" THEN [NoWArg EXCEPT !.t = warg[w].t] ELSE NoWArg
  <1>1. a \in WArgs /\ a.s = 0
    BY NoWArgTyped DEF WTyped, Deliveries, WArgs
  <1>2. WMoves(w, o, a)
    BY DEF WEnd, WGoto, WMoves
  <1>3. Suits(o, a) /\ o \in WPlaces
    BY <1>1 DEF Suits, WOutcomes, WSteps, Asked, WPlaces
  <1> HIDE DEF a
  <1>4. wsnap' \in [Webhooks -> Document] /\ \A v \in Webhooks : wsnap'[v].price \in Prices
    BY FreshTyped, NewDocPriced DEF WEnd, WKeep, WTyped, World
  <1> QED
    BY <1>1, <1>2, <1>3, <1>4 DEF WGoes

LEMMA KeepsWorld ==
  ASSUME WTyped, NEW w \in Webhooks, NEW d \in Document, d.price \in Prices, WKeep(w, d)
  PROVE  wsnap' \in [Webhooks -> Document] /\ \A v \in Webhooks : wsnap'[v].price \in Prices
  BY DEF WKeep, WTyped, World

LEMMA RootTyped ==
  ASSUME WTyped, UNCHANGED <<notes, locals>>, doc' \in Document, doc'.price \in Prices,
         ledger' \in [Keys -> Entry], faults' \in 0..MaxFaults
  PROVE  TypeOK' /\ RootPriced'
  BY DEF WTyped, World, TypeOK, RootPriced, locals

LEMMA LedgerFailsTyped ==
  ASSUME WTyped, NEW book, NEW before, NEW after, LedgerFails(book, before, after)
  PROVE  book \in {before, after} /\ faults' \in 0..MaxFaults
  BY FaultTyped DEF LedgerFails, WTyped, World

LEMMA AmountTyped ==
  ASSUME WTyped, NEW w \in Webhooks, wpc[w] \in WSteps
  PROVE  warg[w].t \in Transfers /\ AmountOf(w) \in Nat \ {0} /\ StudentKey(w) \in Keys
  BY SePayAssumption DEF WTyped, Deliveries, Suits, AmountOf, StudentKey, WArgs, Keys

LEMMA RootSame ==
  ASSUME WTyped, UNCHANGED vars
  PROVE  TypeOK' /\ RootPriced'
  BY DEF WTyped, World, TypeOK, RootPriced, vars, locals

LEMMA NextStep ==
  ASSUME WTyped, NEW w \in Webhooks, NEW p \in WPlaces, Suits(p, warg[w]), WGoto(w, p), UNCHANGED warg
  PROVE  WGoes(w) /\ WMoves(w, p, warg[w])
  <1>1. warg[w] \in WArgs /\ warg = [warg EXCEPT ![w] = warg[w]]
    BY DEF WTyped, Deliveries
  <1>2. WMoves(w, p, warg[w])
    BY <1>1 DEF WMoves, WGoto
  <1> QED
    BY <1>1, <1>2 DEF WGoes

LEMMA ToStudentGoes ==
  ASSUME WTyped, NEW w \in Webhooks, wpc[w] \in WSteps, ToStudent(w)
  PROVE  WGoes(w) /\ WMoves(w, "seekStudent", [warg[w] EXCEPT !.s = 0])
  <1> DEFINE a == [warg[w] EXCEPT !.s = 0]
  <1>1. warg[w] \in WArgs /\ warg[w].t \in Transfers
    BY DEF WTyped, Deliveries, Suits
  <1>2. a \in WArgs /\ a.t \in Transfers /\ a.s = 0
    BY <1>1 DEF WArgs
  <1>3. WMoves(w, "seekStudent", a)
    BY DEF ToStudent, WGoto, WMoves
  <1> HIDE DEF a
  <1>4. Suits("seekStudent", a) /\ "seekStudent" \in WPlaces
    BY <1>2 DEF Suits, Asked, WSteps, WPlaces
  <1> QED
    BY <1>2, <1>3, <1>4 DEF WGoes, a

(* What an action of a delivery has to establish.                          *)
Typed(w) == World' /\ WGoes(w)

LEMMA DeliverTyped ==
  ASSUME WTyped, NEW w \in Webhooks, NEW t \in Transfers, Deliver(w, t)
  PROVE  Typed(w)
  <1>1. TypeOK' /\ RootPriced'
    <2>1. faults' \in 0..MaxFaults
      BY FaultTyped DEF Deliver, WTyped, World, TypeOK
    <2> QED
      BY <2>1, RootTyped DEF Deliver, WTyped, World, TypeOK, RootPriced
  <1>2. event' \in [Transfers -> [state : {"none", "open", "matched"},
                                  key : SessionKeys \cup Keys \cup {NoKey}]]
    BY DEF Deliver, WTyped, World
  <1>3. CASE event[t].state = "matched"
    <2>1. WEnd(w, "duplicate")
      BY <1>3 DEF Deliver
    <2>2. "duplicate" \in WOutcomes
      BY DEF WOutcomes
    <2>3. WGoes(w) /\ wsnap' \in [Webhooks -> Document] /\ \A v \in Webhooks : wsnap'[v].price \in Prices
      BY <2>1, <2>2, EndGoes
    <2> QED
      BY <1>1, <1>2, <2>3 DEF Typed, World, WTyped, Deliver
  <1>4. CASE event[t].state # "matched"
    <2> DEFINE a == [warg[w] EXCEPT !.t = t]
    <2>1. WMoves(w, "seekSession", a) /\ UNCHANGED wsnap
      BY <1>4 DEF Deliver, WGoto, WMoves
    <2>2. wpc[w] = "new" /\ warg[w] \in WArgs /\ warg[w].s = 0
      BY DEF Deliver, WTyped, Deliveries, Suits, Asked
    <2>3. a \in WArgs /\ a.t = t /\ a.s = 0
      BY <2>2 DEF WArgs
    <2> HIDE DEF a
    <2>4. Suits("seekSession", a) /\ "seekSession" \in WPlaces
      BY <2>3 DEF Suits, Asked, WSteps, WPlaces
    <2>5. WGoes(w)
      BY <2>1, <2>3, <2>4 DEF WGoes
    <2> QED
      BY <1>1, <1>2, <2>1, <2>5 DEF Typed, World, WTyped, Deliver
  <1> QED
    BY <1>3, <1>4

LEMMA SeekSessionTyped ==
  ASSUME WTyped, NEW w \in Webhooks, SeekSession(w)
  PROVE  Typed(w)
  <1> DEFINE found == {s \in Sessions : sess[s] = "pending" /\ Fits(s, warg[w].t)}
             a     == [warg[w] EXCEPT !.s = Min(found)]
  <1>1. World'
    BY RootSame DEF SeekSession, gateway, World, WTyped
  <1>2. wpc[w] \in WSteps
    BY DEF SeekSession, WSteps
  <1>3. CASE found = {}
    BY <1>1, <1>2, <1>3, ToStudentGoes DEF SeekSession, Typed
  <1>4. CASE found # {}
    <2>1. Min(found) \in Sessions
      <3>1. found \subseteq Nat
        BY SePayAssumption
      <3>2. found \subseteq Sessions
        OBVIOUS
      <3> HIDE DEF found
      <3>3. Min(found) \in found
        BY <1>4, <3>1, LeastIsMember
      <3> QED
        BY <3>2, <3>3
    <2>2. warg[w] \in WArgs /\ warg[w].t \in Transfers
      BY <1>2 DEF WTyped, Deliveries, Suits
    <2>3. WMoves(w, "claimSession", a)
      <3>1. wpc' = [wpc EXCEPT ![w] = "claimSession"] /\ warg' = [warg EXCEPT ![w].s = Min(found)]
        BY <1>4 DEF SeekSession, WGoto
      <3> HIDE DEF found
      <3> QED
        BY <3>1 DEF WMoves
    <2> HIDE DEF found
    <2>4. a \in WArgs /\ a.t \in Transfers /\ a.s \in Sessions
      BY <2>1, <2>2 DEF WArgs
    <2> HIDE DEF a
    <2>5. Suits("claimSession", a) /\ "claimSession" \in WPlaces
      BY <2>4 DEF Suits, Asked, WSteps, WPlaces
    <2> QED
      BY <1>1, <2>3, <2>4, <2>5 DEF WGoes, Typed
  <1> QED
    BY <1>3, <1>4

LEMMA SessionsTyped ==
  ASSUME WTyped, NEW w \in Webhooks,
         ClaimSession(w) \/ SettleSession(w) \/ ReleaseSession(w) \/ EnrollRead(w)
  PROVE  Typed(w)
  <1>1. /\ wpc[w] \in Asked /\ wpc[w] \in WSteps
        /\ warg[w] \in WArgs /\ warg[w].s \in Sessions /\ warg[w].t \in Transfers
    BY DEF ClaimSession, SettleSession, ReleaseSession, EnrollRead, Asked, WSteps, WTyped, Deliveries, Suits
  <1>2. AmountOf(w) \in Nat
    BY <1>1, AmountTyped
  <1>3. \A p \in Asked \cup {"mark"} : Suits(p, warg[w]) /\ p \in WPlaces
    BY <1>1 DEF Suits, Asked, WSteps, WPlaces
  <1>4. CASE ClaimSession(w)
    <2>1. World'
      BY <1>1, <1>4, RootSame DEF ClaimSession, World, WTyped
    <2>2. WGoes(w)
      BY <1>1, <1>3, <1>4, ToStudentGoes, NextStep DEF ClaimSession, Asked
    <2> QED
      BY <2>1, <2>2 DEF Typed
  <1>5. CASE SettleSession(w)
    <2> DEFINE booked == PostEntry(received, warg[w].s, AmountOf(w))
    <2>1. booked \in [Sessions -> Entry]
      BY <1>1, <1>2, PostTyped DEF WTyped, World
    <2>2. /\ received' \in {booked, received}
          /\ UNCHANGED faults \/ \E kind : Fault(kind)
          /\ \E p \in {"enrollRead", "mark", "releaseSession"} : WGoto(w, p)
      BY <1>5 DEF SettleSession, LedgerFails
    <2> HIDE DEF booked
    <2>3. faults' \in 0..MaxFaults
      BY <2>2, FaultTyped DEF WTyped, World, TypeOK
    <2>4. TypeOK' /\ RootPriced'
      BY <1>5, <2>3, RootTyped DEF SettleSession, WTyped, World, TypeOK, RootPriced
    <2>5. World'
      BY <1>5, <2>1, <2>2, <2>4 DEF SettleSession, World, WTyped
    <2>6. WGoes(w)
      BY <1>3, <1>5, <2>2, NextStep DEF SettleSession, Asked
    <2> QED
      BY <2>5, <2>6 DEF Typed
  <1>6. CASE ReleaseSession(w)
    <2>1. World'
      BY <1>1, <1>6, RootSame DEF ReleaseSession, World, WTyped
    <2>2. WGoes(w)
      BY <1>1, <1>6, ToStudentGoes DEF ReleaseSession
    <2> QED
      BY <2>1, <2>2 DEF Typed
  <1>7. CASE EnrollRead(w)
    <2>1. wsnap' \in [Webhooks -> Document] /\ \A v \in Webhooks : wsnap'[v].price \in Prices
      BY <1>7, KeepsWorld DEF EnrollRead, WTyped, World, TypeOK, RootPriced
    <2>2. World'
      BY <1>7, <2>1, RootSame DEF EnrollRead, gateway, World, WTyped
    <2>3. WGoes(w)
      BY <1>3, <1>7, NextStep DEF EnrollRead, Asked
    <2> QED
      BY <2>2, <2>3 DEF Typed
  <1> QED
    BY <1>4, <1>5, <1>6, <1>7

LEMMA RefilledTyped ==
  ASSUME WTyped, NEW w \in Webhooks, FreeSlots(wsnap[w]) # {}, NEW c \in Courses
  PROVE  LET copy == ReEnrolled(wsnap[w], Min(FreeSlots(wsnap[w])), c)
         IN  /\ WholeSave(wsnap[w], copy) \in Document
             /\ WholeSave(wsnap[w], copy).price \in Prices
  <1> DEFINE e    == Min(FreeSlots(wsnap[w]))
             copy == ReEnrolled(wsnap[w], e, c)
  <1>1. /\ wsnap[w] \in Document /\ doc \in Document
        /\ doc.price \in Prices /\ wsnap[w].price \in Prices
    BY DEF WTyped, World, TypeOK, RootPriced
  <1>2. e \in Slots
    BY <1>1, FreeSlotsTyped
  <1> HIDE DEF e
  <1>3. copy \in Document /\ copy.price \in Prices
    BY <1>1, <1>2, ReEnrolledTyped
  <1> HIDE DEF copy
  <1>4. WholeSave(wsnap[w], copy) \in Document /\ WholeSave(wsnap[w], copy).price \in Prices
    BY <1>1, <1>3, SavesTyped, SavedPriced DEF WTyped, World
  <1> QED
    BY <1>4 DEF copy, e

LEMMA EnrollSaveTyped ==
  ASSUME WTyped, NEW w \in Webhooks, EnrollSave(w)
  PROVE  Typed(w)
  <1>1. warg[w] \in WArgs /\ warg[w].s \in Sessions /\ warg[w].t \in Transfers
    BY DEF EnrollSave, Asked, WSteps, WTyped, Deliveries, Suits
  <1>2. Suits("mark", warg[w]) /\ "mark" \in WPlaces
    BY <1>1 DEF Suits, Asked, WSteps, WPlaces
  <1>3. SessionOf[warg[w].s].course \in Courses
    BY <1>1, SePayAssumption
  <1>4. doc' \in Document /\ doc'.price \in Prices
    BY <1>3, RefilledTyped DEF EnrollSave, WTyped, World, TypeOK, RootPriced
  <1>5. TypeOK' /\ RootPriced'
    BY <1>4, RootTyped DEF EnrollSave, WTyped, World, TypeOK
  <1>6. World'
    BY <1>5 DEF EnrollSave, gateway, World, WTyped
  <1> QED
    BY <1>2, <1>6, NextStep DEF EnrollSave, Typed

LEMMA SeekStudentTyped ==
  ASSUME WTyped, NEW w \in Webhooks, SeekStudent(w)
  PROVE  Typed(w)
  <1> DEFINE unpaid == {e \in InEffect(doc) : ~doc.enr[e].paid}
             a == [warg[w] EXCEPT !.fresh = (unpaid = {}),
                                  !.e = IF unpaid = {} THEN @ ELSE Min(unpaid)]
             p == IF unpaid = {} THEN "freshRead" ELSE "claimStudent"
  <1>1. CASE WEnd(w, "unmatched")
    <2>1. "unmatched" \in WOutcomes
      BY DEF WOutcomes
    <2>2. WGoes(w) /\ wsnap' \in [Webhooks -> Document] /\ \A v \in Webhooks : wsnap'[v].price \in Prices
      BY <1>1, <2>1, EndGoes
    <2> QED
      BY <2>2, RootSame DEF SeekStudent, gateway, Typed, World, WTyped
  <1>2. CASE ~WEnd(w, "unmatched")
    <2>1. /\ wpc[w] = "seekStudent" /\ doc.price = AmountOf(w)
          /\ WMoves(w, p, a) /\ UNCHANGED wsnap
      <3>1. /\ wpc[w] = "seekStudent" /\ doc.price = AmountOf(w) /\ UNCHANGED wsnap
            /\ warg' = [warg EXCEPT ![w].fresh = (unpaid = {}),
                                    ![w].e = IF unpaid = {} THEN @ ELSE Min(unpaid)]
            /\ wpc' = [wpc EXCEPT ![w] = p]
        BY <1>2 DEF SeekStudent, WGoto
      <3> HIDE DEF unpaid, p
      <3> QED
        BY <3>1 DEF WMoves, WTyped, Deliveries
    <2>2. wpc[w] \in WSteps /\ warg[w] \in WArgs /\ warg[w].s = 0 /\ warg[w].t \in Transfers
      BY <2>1 DEF WSteps, Asked, WTyped, Deliveries, Suits
    <2>3. AmountOf(w) \in Nat \ {0} /\ doc.price \in Prices
      BY <2>2, AmountTyped DEF WTyped, World, RootPriced
    <2>4. \E c \in Courses : Price[c] = TransferOf[warg[w].t].amount
      BY <2>1, <2>3 DEF Prices, AmountOf
    <2>5. unpaid # {} => Min(unpaid) \in Slots
      <3>1. unpaid \subseteq Slots /\ Slots \subseteq Nat
        BY SlotsOfDocument DEF WTyped, World, TypeOK, Slots
      <3> HIDE DEF unpaid
      <3> QED
        BY <3>1, MinIsMember
    <2>6. a \in WArgs /\ a.t = warg[w].t /\ a.s = 0 /\ p \in {"freshRead", "claimStudent"}
      <3> HIDE DEF unpaid
      <3> QED
        BY <2>2, <2>5 DEF WArgs
    <2> HIDE DEF a, p, unpaid
    <2>7. Suits(p, a) /\ p \in WPlaces
      BY <2>2, <2>4, <2>6 DEF Suits, Asked, WSteps, WPlaces
    <2>8. World'
      BY <2>1, RootSame DEF SeekStudent, gateway, World, WTyped
    <2> QED
      BY <2>1, <2>6, <2>7, <2>8 DEF WGoes, Typed
  <1> QED
    BY <1>1, <1>2

(* The end of a delivery that leaves the gateway alone.                    *)
LEMMA EndTypedW ==
  ASSUME WTyped, NEW w \in Webhooks, NEW o \in WOutcomes, WEnd(w, o),
         UNCHANGED <<ledger, notes, locals, faults, gateway>>,
         doc' \in Document, doc'.price \in Prices
  PROVE  Typed(w)
  <1>1. TypeOK' /\ RootPriced'
    BY RootTyped DEF WTyped, World, TypeOK
  <1>2. WGoes(w) /\ wsnap' \in [Webhooks -> Document] /\ \A v \in Webhooks : wsnap'[v].price \in Prices
    BY EndGoes
  <1> QED
    BY <1>1, <1>2 DEF Typed, World, WTyped, gateway

LEMMA ClaimStudentTyped ==
  ASSUME WTyped, NEW w \in Webhooks, ClaimStudent(w)
  PROVE  Typed(w)
  <1>1. /\ doc \in Document /\ doc.price \in Prices /\ "unmatched" \in WOutcomes
        /\ warg[w] \in WArgs /\ warg[w].s = 0 /\ warg[w].t \in Transfers /\ wpc[w] \in WSteps
    BY DEF ClaimStudent, WOutcomes, WSteps, Asked, WTyped, World, TypeOK, RootPriced, Deliveries, Suits
  <1>2. CASE doc.paid
    BY <1>1, <1>2, EndTypedW DEF ClaimStudent
  <1>3. CASE ~doc.paid
    <2> DEFINE n == AmountOf(w)
               e == warg[w].e
               x == [doc.enr[e] EXCEPT !.paid = TRUE, !.status = "active"]
               new == [doc EXCEPT !.paid = TRUE, !.paidAmount = n, !.enr = [doc.enr EXCEPT ![e] = x]]
    <2>1. n \in Nat /\ e \in Slots /\ x \in Enrollment
      <3>1. AmountOf(w) \in Nat /\ warg[w].e \in Slots
        BY <1>1, AmountTyped DEF WArgs
      <3>2. doc.enr[warg[w].e] \in Enrollment
        BY <1>1, <3>1 DEF Document
      <3> QED
        BY <3>1, <3>2 DEF Enrollment
    <2>2. doc' = new /\ WGoto(w, "settleStudent") /\ UNCHANGED <<warg, wsnap>>
      BY <1>3 DEF ClaimStudent, Claimed
    <2> HIDE DEF n, x, e
    <2>3. new \in Document /\ new.price = doc.price
      BY <1>1, <2>1 DEF Document
    <2> HIDE DEF new
    <2>4. TypeOK' /\ RootPriced'
      BY <1>1, <2>2, <2>3, RootTyped DEF ClaimStudent, WTyped, World, TypeOK
    <2>5. Suits("settleStudent", warg[w]) /\ "settleStudent" \in WPlaces
      BY <1>1 DEF Suits, Asked, WSteps, WPlaces
    <2>6. WGoes(w)
      BY <2>2, <2>5, NextStep
    <2> QED
      BY <2>2, <2>4, <2>6 DEF ClaimStudent, gateway, Typed, World, WTyped
  <1> QED
    BY <1>2, <1>3

LEMMA FreshReadTyped ==
  ASSUME WTyped, NEW w \in Webhooks, FreshRead(w)
  PROVE  Typed(w)
  <1>1. /\ doc \in Document /\ doc.price \in Prices /\ "unmatched" \in WOutcomes
        /\ Suits("freshRead", warg[w])
    BY DEF FreshRead, WOutcomes, WTyped, World, TypeOK, RootPriced, Deliveries
  <1>2. CASE doc.paid
    <2>1. WEnd(w, "unmatched") /\ UNCHANGED <<vars, gateway>>
      BY <1>2 DEF FreshRead
    <2> QED
      BY <1>1, <2>1, EndTypedW DEF vars
  <1>3. CASE ~doc.paid
    <2>1. WKeep(w, doc) /\ WGoto(w, "freshSave") /\ UNCHANGED warg
      BY <1>3 DEF FreshRead
    <2>2. Suits("freshSave", warg[w]) /\ "freshSave" \in WPlaces
      BY <1>1 DEF Suits, Asked, WSteps, WPlaces
    <2>3. wsnap' \in [Webhooks -> Document] /\ \A v \in Webhooks : wsnap'[v].price \in Prices
      BY <1>1, <2>1, KeepsWorld
    <2>4. WGoes(w)
      BY <2>1, <2>2, NextStep
    <2> QED
      BY <2>3, <2>4, RootSame DEF FreshRead, gateway, Typed, World, WTyped
  <1> QED
    BY <1>2, <1>3

LEMMA FreshSaveTyped ==
  ASSUME WTyped, NEW w \in Webhooks, FreshSave(w)
  PROVE  Typed(w)
  <1> DEFINE c == CourseAt(AmountOf(w))
             e == Min(FreeSlots(wsnap[w]))
             copy == ReEnrolled(wsnap[w], e, c)
  <1>1. /\ doc \in Document /\ doc.price \in Prices /\ "unmatched" \in WOutcomes
        /\ wsnap[w] \in Document /\ warg[w] \in WArgs
        /\ wpc[w] = "freshSave" /\ wpc[w] \in WSteps /\ Suits("freshSave", warg[w])
    BY DEF FreshSave, WOutcomes, WSteps, WTyped, World, TypeOK, RootPriced, Deliveries
  <1>2. c \in Courses
    BY <1>1 DEF Suits, CourseAt, AmountOf
  <1>3. e \in Slots
    BY <1>1, FreeSlotsTyped DEF FreshSave
  <1>4. WholeSave(wsnap[w], copy) \in Document /\ WholeSave(wsnap[w], copy).price \in Prices
    <2> HIDE DEF c
    <2> QED
      BY <1>2, RefilledTyped DEF FreshSave
  <1>5. CASE doc.v # wsnap[w].v
    BY <1>1, <1>5, EndTypedW DEF FreshSave
  <1>6. CASE doc.v = wsnap[w].v
    <2> DEFINE a == [warg[w] EXCEPT !.e = e]
    <2>1. /\ doc' = WholeSave(wsnap[w], copy)
          /\ WGoto(w, "settleStudent") /\ warg' = [warg EXCEPT ![w].e = e] /\ UNCHANGED wsnap
      BY <1>6 DEF FreshSave
    <2> HIDE DEF c, e, copy
    <2>2. WMoves(w, "settleStudent", a)
      BY <2>1 DEF WMoves, WGoto
    <2>3. a \in WArgs /\ a.t \in Transfers /\ a.s = 0
      BY <1>1, <1>3 DEF WArgs, Suits, Asked, WSteps
    <2> HIDE DEF a
    <2>4. Suits("settleStudent", a) /\ "settleStudent" \in WPlaces
      BY <2>3 DEF Suits, Asked, WSteps, WPlaces
    <2>5. TypeOK' /\ RootPriced'
      BY <1>4, <2>1, RootTyped DEF FreshSave, WTyped, World, TypeOK
    <2>6. WGoes(w)
      BY <2>2, <2>3, <2>4 DEF WGoes
    <2> QED
      BY <2>1, <2>5, <2>6 DEF FreshSave, gateway, Typed, World, WTyped
  <1> QED
    BY <1>5, <1>6

LEMMA SettleStudentTyped ==
  ASSUME WTyped, NEW w \in Webhooks, SettleStudent(w)
  PROVE  Typed(w)
  <1> DEFINE booked == PostEntry(ledger, StudentKey(w), AmountOf(w))
  <1>1. /\ warg[w].t \in Transfers /\ warg[w].s = 0 /\ wpc[w] \in WSteps
        /\ doc \in Document /\ doc.price \in Prices /\ ledger \in [Keys -> Entry]
    BY DEF SettleStudent, WSteps, Asked, WTyped, World, TypeOK, RootPriced, Deliveries, Suits
  <1>2. booked \in [Keys -> Entry]
    BY <1>1, AmountTyped, PostTyped
  <1>3. /\ ledger' \in {ledger, booked}
        /\ UNCHANGED faults \/ \E kind : Fault(kind)
        /\ \E p \in {"mark", "dropRead", "takeBack"} : WGoto(w, p)
    BY DEF SettleStudent, LedgerFails
  <1>4. \A p \in {"mark", "dropRead", "takeBack"} : Suits(p, warg[w]) /\ p \in WPlaces
    BY <1>1 DEF Suits, Asked, WSteps, WPlaces
  <1> HIDE DEF booked
  <1>5. faults' \in 0..MaxFaults
    BY <1>3, FaultTyped DEF WTyped, World, TypeOK
  <1>6. TypeOK' /\ RootPriced'
    BY <1>1, <1>2, <1>3, <1>5, RootTyped DEF SettleStudent
  <1>7. WGoes(w)
    BY <1>3, <1>4, NextStep DEF SettleStudent
  <1> QED
    BY <1>6, <1>7 DEF SettleStudent, gateway, Typed, World, WTyped

LEMMA TakeBackTyped ==
  ASSUME WTyped, NEW w \in Webhooks, TakeBack(w) \/ DropSave(w)
  PROVE  Typed(w)
  <1>1. /\ doc \in Document /\ doc.price \in Prices /\ "unmatched" \in WOutcomes
        /\ wsnap[w] \in Document /\ wsnap[w].price \in Prices /\ warg[w].e \in Slots
    BY DEF WOutcomes, WTyped, World, TypeOK, RootPriced, Deliveries, WArgs
  <1>2. CASE TakeBack(w)
    <2> DEFINE e == warg[w].e
               x == [doc.enr[e] EXCEPT !.paid = FALSE, !.status = "pending_payment"]
    <2>1. x \in Enrollment
      <3>1. doc.enr[e] \in Enrollment
        BY <1>1 DEF Document
      <3> QED
        BY <3>1 DEF Enrollment
    <2>2. /\ doc' = [doc EXCEPT !.paid = FALSE, !.paidAmount = 0, !.enr = [@ EXCEPT ![e] = x]]
          /\ WEnd(w, "unmatched") /\ UNCHANGED <<ledger, notes, locals, faults, gateway>>
      BY <1>2 DEF TakeBack
    <2> HIDE DEF x
    <2>3. doc' \in Document /\ doc'.price = doc.price
      BY <1>1, <2>1, <2>2 DEF Document
    <2> QED
      BY <1>1, <2>2, <2>3, EndTypedW
  <1>3. CASE DropSave(w)
    <2> DEFINE copy == Dropped(wsnap[w], warg[w].e)
    <2>1. copy \in Document /\ copy.price \in Prices
      BY <1>1, DroppedTyped
    <2> HIDE DEF copy
    <2>2. WholeSave(wsnap[w], copy) \in Document /\ WholeSave(wsnap[w], copy).price \in Prices
      BY <1>1, <2>1, SavesTyped, SavedPriced
    <2>3. doc' \in Document /\ doc'.price \in Prices
      BY <1>1, <1>3, <2>2 DEF DropSave, copy
    <2> QED
      BY <1>1, <1>3, <2>3, EndTypedW DEF DropSave
  <1> QED
    BY <1>2, <1>3

LEMMA DropReadTyped ==
  ASSUME WTyped, NEW w \in Webhooks, DropRead(w)
  PROVE  Typed(w)
  <1>1. doc \in Document /\ doc.price \in Prices /\ Suits("dropRead", warg[w])
    BY DEF DropRead, WTyped, World, TypeOK, RootPriced, Deliveries
  <1>2. Suits("dropSave", warg[w]) /\ "dropSave" \in WPlaces
    BY <1>1 DEF Suits, Asked, WSteps, WPlaces
  <1>3. wsnap' \in [Webhooks -> Document] /\ \A v \in Webhooks : wsnap'[v].price \in Prices
    BY <1>1, KeepsWorld DEF DropRead
  <1>4. WGoes(w)
    BY <1>2, NextStep DEF DropRead
  <1> QED
    BY <1>3, <1>4, RootSame DEF DropRead, gateway, Typed, World, WTyped

LEMMA MarkTyped ==
  ASSUME WTyped, NEW w \in Webhooks, Mark(w)
  PROVE  Typed(w)
  <1> DEFINE k == IF warg[w].s # 0 THEN <<"session", warg[w].s>> ELSE StudentKey(w)
  <1>1. warg[w].s \in Sessions \cup {0} /\ "matched" \in WOutcomes
    BY DEF WTyped, Deliveries, WArgs, WOutcomes
  <1>2. k \in SessionKeys \cup Keys
    <2>1. StudentKey(w) \in Keys
      BY AmountTyped DEF Mark, WSteps
    <2> QED
      BY <1>1, <2>1 DEF SessionKeys
  <1> HIDE DEF k
  <1>3. event' = [event EXCEPT ![warg[w].t] = [state |-> "matched", key |-> k]]
    BY DEF Mark, k
  <1>4. event' \in [Transfers -> [state : {"none", "open", "matched"},
                                  key : SessionKeys \cup Keys \cup {NoKey}]]
    BY <1>2, <1>3 DEF WTyped, World
  <1>5. WGoes(w) /\ wsnap' \in [Webhooks -> Document] /\ \A v \in Webhooks : wsnap'[v].price \in Prices
    BY <1>1, EndGoes DEF Mark
  <1> QED
    BY <1>4, <1>5, RootSame DEF Mark, Typed, World, WTyped

LEMMA WebhookCrashTyped ==
  ASSUME WTyped, NEW w \in Webhooks, WebhookCrash(w)
  PROVE  Typed(w)
  <1>1. faults' \in 0..MaxFaults
    BY FaultTyped DEF WebhookCrash, WTyped, World
  <1>2. TypeOK' /\ RootPriced'
    BY <1>1, RootTyped DEF WebhookCrash, WTyped, World, TypeOK, RootPriced
  <1>3. WGoes(w) /\ wsnap' \in [Webhooks -> Document] /\ \A v \in Webhooks : wsnap'[v].price \in Prices
    BY EndGoes DEF WebhookCrash, WOutcomes
  <1> QED
    BY <1>2, <1>3 DEF WebhookCrash, gateway, Typed, World, WTyped

LEMMA WebhookTyped ==
  ASSUME WTyped, NEW w \in Webhooks, Webhook(w)
  PROVE  Typed(w)
  BY DeliverTyped, SeekSessionTyped, SessionsTyped, EnrollSaveTyped, SeekStudentTyped,
     ClaimStudentTyped, FreshReadTyped, FreshSaveTyped, SettleStudentTyped, TakeBackTyped,
     DropReadTyped, MarkTyped, WebhookCrashTyped DEF Webhook

LEMMA WTypedInit == SePayInit => WTyped
  <1> SUFFICES ASSUME SePayInit PROVE WTyped
    OBVIOUS
  <1>1. TypeOK
    BY InitType DEF SePayInit
  <1>2. RootPriced
    BY NewDocPriced DEF SePayInit, Init, RootPriced
  <1>3. NoEntry \in Entry
    BY DEF NoEntry, Entry
  <1>4. \A w \in Webhooks : Suits("new", NoWArg)
    BY NoWArgTyped DEF Suits, Asked, WSteps
  <1>5. World
    BY <1>1, <1>2, <1>3, FreshTyped, NewDocPriced DEF SePayInit, World
  <1>6. wpc \in [Webhooks -> WPlaces] /\ warg \in [Webhooks -> WArgs]
    BY NoWArgTyped DEF SePayInit, WPlaces
  <1> QED
    BY <1>4, <1>5, <1>6 DEF SePayInit, WTyped, Deliveries

LEMMA WTypedStep == WTyped /\ [SePayNext]_svars => WTyped'
  <1> SUFFICES ASSUME WTyped, [SePayNext]_svars PROVE WTyped'
    OBVIOUS
  <1>1. CASE UNCHANGED <<gateway, wlocals>> /\ [Next]_vars
    <2>1. TypeOK' /\ RootPriced'
      BY <1>1, NextType, PricedStep DEF WTyped, World
    <2> QED
      BY <1>1, <2>1 DEF gateway, wlocals, WTyped, World, Deliveries
  <1>2. ASSUME NEW s \in Sessions, CreateSession(s) \/ PollRead(s) \/ PollSave(s)
        PROVE  WTyped'
    <2>1. TypeOK' /\ RootPriced'
      BY <1>2, RootSame DEF CreateSession, PollRead, PollSave
    <2>2. UNCHANGED wlocals /\ UNCHANGED <<event, received>>
      BY <1>2 DEF CreateSession, PollRead, PollSave
    <2>3. /\ sess' \in [Sessions -> {"absent", "pending", "paid", "expired"}]
          /\ polls' \subseteq Sessions
      BY <1>2 DEF CreateSession, PollRead, PollSave, WTyped, World
    <2> QED
      BY <2>1, <2>2, <2>3 DEF wlocals, WTyped, World, Deliveries
  <1>3. ASSUME NEW w \in Webhooks, Webhook(w) PROVE WTyped'
    BY <1>3, WebhookTyped, GoesTyped DEF Typed, WTyped
  <1>4. ASSUME NEW s \in Sessions, VoidReceived(s) PROVE WTyped'
    <2>1. UNCHANGED <<vars, sess, polls, event, wlocals>>
      BY <1>4 DEF VoidReceived
    <2>2. TypeOK' /\ RootPriced'
      BY <2>1, RootSame
    <2>3. received' \in [Sessions -> Entry]
      BY <1>4 DEF VoidReceived, VoidEntry, Entry, WTyped, World
    <2> QED
      BY <2>1, <2>2, <2>3 DEF wlocals, WTyped, World, Deliveries
  <1> QED
    BY <1>1, <1>2, <1>3, <1>4 DEF SePayNext, svars

(* Every variable of gateway and tuition always holds a value of its kind. *)
THEOREM SePayTypeCorrect == SePaySpec => []SePayTypeOK
  <1>1. WTyped => SePayTypeOK
    BY DEF WTyped, World, Deliveries, WPlaces, WArgs, SePayTypeOK
  <1> QED
    BY <1>1, WTypedInit, WTypedStep, PTL DEF SePaySpec

-----------------------------------------------------------------------------
(* A paid session is in the ledger, or the delivery that has claimed it is *)
(* about to book or to release it, or some delivery has died.              *)
Owes(w, s) == wpc[w] \in {"settleSession", "releaseSession"} /\ warg[w].s = s

PaidInv ==
  \A s \in Sessions : sess[s] = "paid" =>
    Booking(received[s]) \/ \E w \in Webhooks : wpc[w] = "dead" \/ Owes(w, s)

LEMMA VoidedCounts ==
  ASSUME WTyped, NEW s \in Sessions, VoidReceived(s)
  PROVE  /\ "void" \in Operations
         /\ \A r \in Sessions : received[r].status # "none" =>
              /\ received'[r].amount = received[r].amount
              /\ received'[r].status = received[r].status \/ received'[r].status = "void"
  BY DEF VoidReceived, VoidEntry, WTyped, World, Entry

(* The steps of delivery w that neither touch a session nor leave a claim. *)
Elsewhere(w) ==
  /\ wpc[w] \notin {"settleSession", "releaseSession", "dead"}
  /\ UNCHANGED <<sess, received>>

LEMMA WebhookKinds ==
  ASSUME NEW w \in Webhooks, Webhook(w)
  PROVE  Elsewhere(w) \/ ClaimSession(w) \/ SettleSession(w) \/ ReleaseSession(w) \/ WebhookCrash(w)
  BY DEF Webhook, Elsewhere, Deliver, SeekSession, EnrollRead, EnrollSave, SeekStudent,
         ClaimStudent, FreshRead, FreshSave, SettleStudent, TakeBack, DropRead, DropSave, Mark, gateway

LEMMA PaidInvStep == WTyped /\ PaidInv /\ [SePayNext]_svars => PaidInv'
  <1> SUFFICES ASSUME WTyped, PaidInv, [SePayNext]_svars PROVE PaidInv'
    OBVIOUS
  <1> USE DEF PaidInv, Owes
  <1>1. CASE UNCHANGED <<gateway, wlocals>>
    BY <1>1 DEF gateway, wlocals
  <1>2. ASSUME NEW s \in Sessions, CreateSession(s) \/ PollRead(s) \/ PollSave(s)
        PROVE  PaidInv'
    <2>1. \A r \in Sessions : sess'[r] = "paid" => sess[r] = "paid"
      BY <1>2 DEF CreateSession, PollRead, PollSave, WTyped, World
    <2>2. UNCHANGED <<received, wlocals>>
      BY <1>2 DEF CreateSession, PollRead, PollSave
    <2> QED
      BY <2>1, <2>2 DEF wlocals
  <1>3. ASSUME NEW w \in Webhooks, Webhook(w) PROVE PaidInv'
    <2>0. \A v \in Webhooks \ {w} : wpc'[v] = wpc[v] /\ warg'[v] = warg[v]
      BY <1>3, WebhookTyped, WMoved DEF Typed, WGoes
    <2>1. CASE Elsewhere(w)
      BY <2>0, <2>1 DEF Elsewhere
    <2>2. CASE ClaimSession(w)
      <3> DEFINE s == warg[w].s
      <3>1. wpc[w] = "claimSession" /\ UNCHANGED received
        BY <2>2 DEF ClaimSession
      <3>2. \/ UNCHANGED sess
            \/ /\ sess' = [sess EXCEPT ![s] = "paid"] /\ wpc'[w] = "settleSession" /\ warg'[w].s = s
        BY <2>2 DEF ClaimSession, WGoto, WTyped, Deliveries
      <3>3. ASSUME NEW r \in Sessions, sess'[r] = "paid"
            PROVE  sess[r] = "paid" \/ (wpc'[w] = "settleSession" /\ warg'[w].s = r)
        BY <3>2, <3>3 DEF WTyped, World
      <3> HIDE DEF s
      <3> QED
        BY <2>0, <3>1, <3>3
    <2>3. CASE SettleSession(w)
      <3> DEFINE s == warg[w].s
                 booked == PostEntry(received, s, AmountOf(w))
      <3>0. wpc[w] = "settleSession" /\ s \in Sessions /\ AmountOf(w) \in Nat
        BY <2>3, AmountTyped DEF SettleSession, WSteps, Asked, WTyped, Deliveries, Suits
      <3>1. UNCHANGED <<sess, warg>>
        BY <2>3 DEF SettleSession
      <3>2. \/ Accepts(received, s, AmountOf(w)) /\ received' = booked
            \/ received' \in {received, booked} /\ wpc'[w] = "releaseSession"
        BY <2>3 DEF SettleSession, LedgerFails, WGoto, WTyped, Deliveries
      <3>3. \A r \in Sessions : received[r].status # "none" => booked[r] = received[r]
        BY <3>0 DEF PostEntry, Free, WTyped, World
      <3>4. Accepts(received, s, AmountOf(w)) => Booking(booked[s])
        BY <3>0, AcceptedPosts DEF Booking, WTyped, World
      <3> HIDE DEF booked, s
      <3>5. ASSUME NEW r \in Sessions, sess[r] = "paid"
            PROVE  Booking(received'[r]) \/ \E v \in Webhooks : (wpc[v] = "dead" \/ Owes(v, r))'
        <4>1. CASE r = s
          BY <3>1, <3>2, <3>4, <4>1 DEF s
        <4>2. CASE r # s
          <5>1. Booking(received[r]) => Booking(received'[r])
            BY <3>2, <3>3 DEF Booking
          <5> QED
            BY <2>0, <3>0, <3>1, <3>5, <4>2, <5>1 DEF s
        <4> QED
          BY <4>1, <4>2
      <3> QED
        BY <3>1, <3>5
    <2>4. CASE ReleaseSession(w)
      <3> DEFINE s == warg[w].s
      <3>1. sess' = [sess EXCEPT ![s] = "pending"] /\ UNCHANGED received /\ wpc[w] = "releaseSession"
        BY <2>4 DEF ReleaseSession
      <3>2. s \in Sessions
        BY <3>1 DEF WSteps, Asked, WTyped, Deliveries, Suits
      <3>3. ASSUME NEW r \in Sessions, sess'[r] = "paid" PROVE r # s /\ sess[r] = "paid"
        BY <3>1, <3>2, <3>3 DEF WTyped, World
      <3> QED
        BY <2>0, <3>1, <3>3
    <2>5. CASE WebhookCrash(w)
      <3>1. wpc'[w] = "dead"
        BY <2>5 DEF WebhookCrash, WEnd, WGoto, WTyped, Deliveries
      <3>2. UNCHANGED <<sess, received>>
        BY <2>5 DEF WebhookCrash, gateway
      <3> QED
        BY <3>1, <3>2
    <2> QED
      BY <1>3, <2>1, <2>2, <2>3, <2>4, <2>5, WebhookKinds
  <1>4. ASSUME NEW s \in Sessions, VoidReceived(s) PROVE PaidInv'
    <2>1. UNCHANGED <<sess, wpc, warg>>
      BY <1>4 DEF VoidReceived, wlocals
    <2>2. \A r \in Sessions : Booking(received[r]) => Booking(received'[r])
      BY <1>4, VoidedCounts DEF Booking
    <2> QED
      BY <2>1, <2>2
  <1> QED
    BY <1>1, <1>2, <1>3, <1>4 DEF SePayNext, svars

(* A session shown as paid has its payment in the ledger, unless an        *)
(* administrator has voided it, once all deliveries have ended             *)
(* (webhookRoutes.js:345).                                                 *)
THEOREM PaidSessionsAreBooked == SePaySpec => []PaidSessionIsBooked
  <1>1. SePayInit => PaidInv
    BY DEF SePayInit, PaidInv
  <1>2. PaidInv => PaidSessionIsBooked
    BY DEF PaidInv, Owes, PaidSessionIsBooked, AllSettled, Delivering, WOutcomes
  <1> QED
    BY <1>1, <1>2, PaidInvStep, WTypedInit, WTypedStep, PTL DEF SePaySpec

-----------------------------------------------------------------------------
(* A matched transfer stays booked.  Only a void by hand changes a payment *)
(* that is booked, and leaves its amount: the requests fill free keys and  *)
(* void refunds, the deliveries fill free keys.                            *)
Taken(book, k, n) == Booking(book[k]) /\ book[k].amount = n

Firm ==
  /\ \A s \in Sessions : received[s].status # "none" => received'[s] = received[s]
  /\ \A k \in PaymentKeys : ledger[k].status # "none" => ledger'[k] = ledger[k]

BooksKept ==
  /\ \A s \in Sessions : \A n : Taken(received, s, n) => Taken(received', s, n)
  /\ \A k \in PaymentKeys : \A n : Taken(ledger, k, n) => Taken(ledger', k, n)

LEMMA FirmKeeps ==
  ASSUME Firm
  PROVE  BooksKept
  BY DEF Firm, BooksKept, Taken, Booking

LEMMA BooksKeep ==
  ASSUME TypeOK, Books, NEW k \in PaymentKeys, ledger[k].status # "none"
  PROVE  ledger'[k] = ledger[k]
  <1>1. ledger \in [Keys -> Entry] /\ k \in Keys
    BY PaymentsAreKeys DEF TypeOK
  <1>2. CASE UNCHANGED ledger
    BY <1>2
  <1>3. ASSUME NEW q, NEW amt \in Nat, ledger' = PostEntry(ledger, q, amt)
        PROVE  ledger'[k] = ledger[k]
    BY <1>1, <1>3 DEF PostEntry, Free
  <1>4. ASSUME NEW r \in Requests, ledger' = VoidEntry(ledger, RefundKey(r))
        PROVE  ledger'[k] = ledger[k]
    <2>1. k # RefundKey(r)
      BY DEF PaymentKeys, RefundKey
    <2> QED
      BY <1>1, <1>4, <2>1, VoidKeeps
  <1> QED
    BY <1>2, <1>3, <1>4 DEF Books

LEMMA RequestsBook ==
  ASSUME TypeOK, Next
  PROVE  Books \/ \E k \in Keys : LedgerVoid(k)
  <1>1. ASSUME NEW r \in Requests, PaySettle(r) \/ EnrSettle(r) \/ AddSettle(r) PROVE Books
    <2>1. arg[r].amt \in Nat /\ PaymentKey(r) \in Keys
      BY KeysApart DEF TypeOK, Argument
    <2> QED
      BY <1>1, <2>1 DEF PaySettle, EnrSettle, AddSettle, Settle, Books
  <1> QED
    BY <1>1, QuietSteps, BookingSteps DEF Next, Continue

LEMMA WebhookBooks ==
  ASSUME WTyped, NEW w \in Webhooks, Webhook(w)
  PROVE  Firm
  <1>2. CASE SettleSession(w)
    <2> DEFINE booked == PostEntry(received, warg[w].s, AmountOf(w))
    <2>1. AmountOf(w) \in Nat
      BY <1>2, AmountTyped DEF SettleSession, WSteps
    <2>2. \A s \in Sessions : received[s].status # "none" => booked[s] = received[s]
      BY <2>1 DEF PostEntry, Free, WTyped, World
    <2>3. received' \in {received, booked} /\ UNCHANGED ledger
      BY <1>2 DEF SettleSession, LedgerFails
    <2> HIDE DEF booked
    <2> QED
      BY <2>2, <2>3 DEF Firm
  <1>3. CASE SettleStudent(w)
    <2> DEFINE booked == PostEntry(ledger, StudentKey(w), AmountOf(w))
    <2>1. AmountOf(w) \in Nat
      BY <1>3, AmountTyped DEF SettleStudent, WSteps
    <2>2. \A k \in Keys : ledger[k].status # "none" => booked[k] = ledger[k]
      BY <2>1 DEF PostEntry, Free, WTyped, World, TypeOK
    <2>3. ledger' \in {ledger, booked} /\ UNCHANGED received
      BY <1>3 DEF SettleStudent, LedgerFails, gateway
    <2> HIDE DEF booked
    <2> QED
      BY <2>2, <2>3, PaymentsAreKeys DEF Firm
  <1>4. CASE ~SettleSession(w) /\ ~SettleStudent(w)
    <2>1. UNCHANGED <<ledger, received>>
      BY <1>4 DEF Webhook, Deliver, SeekSession, ClaimSession, ReleaseSession, EnrollRead, EnrollSave,
                  SeekStudent, ClaimStudent, FreshRead, FreshSave, TakeBack, DropRead, DropSave, Mark,
                  WebhookCrash, gateway, vars
    <2> QED
      BY <2>1 DEF Firm
  <1> QED
    BY <1>2, <1>3, <1>4

LEMMA StepBooks ==
  ASSUME WTyped, [SePayNext]_svars
  PROVE  BooksKept
  <1>0. received \in [Sessions -> Entry] /\ ledger \in [Keys -> Entry]
    BY DEF WTyped, World, TypeOK
  <1>1. CASE UNCHANGED <<ledger, received>>
    BY <1>1 DEF BooksKept
  <1>2. CASE Books /\ UNCHANGED gateway
    <2>1. Firm
      BY <1>2, BooksKeep DEF Firm, gateway, WTyped, World
    <2> QED
      BY <2>1, FirmKeeps
  <1>3. ASSUME NEW k \in Keys, LedgerVoid(k), UNCHANGED gateway PROVE BooksKept
    <2>1. /\ "void" \in Operations /\ UNCHANGED received
          /\ \A q \in Keys : /\ ledger'[q].amount = ledger[q].amount
                             /\ ledger'[q].status = ledger[q].status \/ ledger'[q].status = "void"
      BY <1>0, <1>3 DEF LedgerVoid, VoidEntry, gateway, Entry
    <2> QED
      BY <2>1, PaymentsAreKeys DEF BooksKept, Taken, Booking
  <1>4. ASSUME NEW s \in Sessions, VoidReceived(s) PROVE BooksKept
    <2>1. UNCHANGED ledger
      BY <1>4 DEF VoidReceived, vars
    <2>2. \A r \in Sessions : \A n : Taken(received, r, n) => Taken(received', r, n)
      BY <1>4, VoidedCounts DEF Taken, Booking
    <2> QED
      BY <2>1, <2>2 DEF BooksKept
  <1>5. ASSUME NEW w \in Webhooks, Webhook(w) PROVE BooksKept
    BY <1>5, WebhookBooks, FirmKeeps
  <1>6. Next => Books \/ \E k \in Keys : LedgerVoid(k)
    BY RequestsBook DEF WTyped, World
  <1> QED
    BY <1>1, <1>2, <1>3, <1>4, <1>5, <1>6
       DEF SePayNext, svars, vars, gateway, CreateSession, PollRead, PollSave

(* What a payment that was confirmed by a request or a transfer rests on,  *)
(* as functions of step, locals, event and books.                          *)
Rests == {"enrollRead", "enrollSave", "mark"}

Proven(p, a, rec, led) ==
  /\ p \in Rests /\ a.s # 0 => Taken(rec, a.s, TransferOf[a.t].amount)
  /\ p = "mark" /\ a.s = 0 => Taken(led, <<"pay", a.e>>, TransferOf[a.t].amount)

Backed(ev, rec, led, n) ==
  ev.state = "matched" =>
    \/ \E s \in Sessions : ev.key = <<"session", s>> /\ Taken(rec, s, n)
    \/ ev.key \in PaymentKeys /\ Taken(led, ev.key, n)

KnowsInv ==
  /\ \A w \in Webhooks : Proven(wpc[w], warg[w], received, ledger)
  /\ \A t \in Transfers : Backed(event[t], received, ledger, TransferOf[t].amount)

LEMMA SessionsPositive == 0 \notin Sessions
  BY SePayAssumption

LEMMA KeptProof ==
  ASSUME BooksKept, NEW a \in WArgs, NEW p, Proven(p, a, received, ledger)
  PROVE  Proven(p, a, received', ledger')
  <1>1. a.s # 0 => a.s \in Sessions
    BY DEF WArgs
  <1>2. <<"pay", a.e>> \in PaymentKeys
    BY DEF WArgs, PaymentKeys
  <1> QED
    BY <1>1, <1>2 DEF Proven, BooksKept

LEMMA KeptBacking ==
  ASSUME BooksKept, NEW ev, NEW n, Backed(ev, received, ledger, n)
  PROVE  Backed(ev, received', ledger', n)
  BY DEF Backed, BooksKept

(* A step of delivery w that proves what it goes on with and marks only    *)
(* what it has proved.                                                     *)
Sound(w) ==
  /\ \A v \in Webhooks \ {w} : wpc'[v] = wpc[v] /\ warg'[v] = warg[v]
  /\ Proven(wpc'[w], warg'[w], received', ledger')
  /\ \A t \in Transfers :
       Backed(event'[t], received', ledger', TransferOf[t].amount) \/ event'[t] = event[t]

LEMMA SoundStep ==
  ASSUME WTyped, KnowsInv, BooksKept, NEW w \in Webhooks, Sound(w)
  PROVE  KnowsInv'
  <1>1. ASSUME NEW v \in Webhooks PROVE Proven(wpc'[v], warg'[v], received', ledger')
    <2>1. warg[v] \in WArgs /\ Proven(wpc[v], warg[v], received, ledger)
      BY DEF WTyped, Deliveries, KnowsInv
    <2>2. Proven(wpc[v], warg[v], received', ledger')
      BY <2>1, KeptProof
    <2> QED
      BY <2>2 DEF Sound
  <1>2. ASSUME NEW t \in Transfers PROVE Backed(event'[t], received', ledger', TransferOf[t].amount)
    <2>1. Backed(event[t], received', ledger', TransferOf[t].amount)
      BY KeptBacking DEF KnowsInv
    <2> QED
      BY <2>1 DEF Sound
  <1> QED
    BY <1>1, <1>2 DEF KnowsInv

LEMMA StillKnows ==
  ASSUME WTyped, KnowsInv, BooksKept, UNCHANGED <<event, wlocals>>
  PROVE  KnowsInv'
  BY KeptProof, KeptBacking DEF KnowsInv, WTyped, Deliveries, wlocals

(* The steps that lead to no step resting on a payment.                    *)
LEMMA OtherSteps ==
  ASSUME WTyped, NEW w \in Webhooks, Webhook(w),
         ~SettleSession(w), ~EnrollRead(w), ~EnrollSave(w), ~SettleStudent(w), ~Mark(w)
  PROVE  /\ wpc'[w] \notin Rests
         /\ \A t \in Transfers : event'[t] = event[t] \/ event'[t].state # "matched"
  <1>0. wpc \in [Webhooks -> WPlaces] /\ warg \in [Webhooks -> WArgs]
        /\ event \in [Transfers -> [state : {"none", "open", "matched"},
                                    key : SessionKeys \cup Keys \cup {NoKey}]]
    BY DEF WTyped, World, Deliveries
  <1> USE <1>0 DEF WGoto, WEnd, ToStudent, Rests, gateway
  <1>1. ASSUME NEW t \in Transfers, Deliver(w, t)
        PROVE  /\ wpc'[w] \notin Rests
               /\ \A u \in Transfers : event'[u] = event[u] \/ event'[u].state # "matched"
    BY <1>1 DEF Deliver
  <1>2. CASE SeekSession(w) \/ ClaimSession(w) \/ ReleaseSession(w)
    BY <1>2 DEF SeekSession, ClaimSession, ReleaseSession
  <1>3. CASE SeekStudent(w)
    <2> DEFINE p == IF {e \in InEffect(doc) : ~doc.enr[e].paid} = {} THEN "freshRead" ELSE "claimStudent"
    <2>1. p \notin Rests /\ "unmatched" \notin Rests
      OBVIOUS
    <2>2. (WGoto(w, "unmatched") \/ WGoto(w, p)) /\ UNCHANGED event
      BY <1>3 DEF SeekStudent
    <2> HIDE DEF p
    <2> QED
      BY <2>1, <2>2
  <1>4. CASE ClaimStudent(w) \/ FreshRead(w) \/ FreshSave(w)
    BY <1>4 DEF ClaimStudent, FreshRead, FreshSave
  <1>5. CASE TakeBack(w) \/ DropRead(w) \/ DropSave(w) \/ WebhookCrash(w)
    BY <1>5 DEF TakeBack, DropRead, DropSave, WebhookCrash
  <1> QED
    BY <1>1, <1>2, <1>3, <1>4, <1>5 DEF Webhook

LEMMA WebhookSound ==
  ASSUME WTyped, KnowsInv, NEW w \in Webhooks, Webhook(w)
  PROVE  Sound(w)
  <1>0. \A v \in Webhooks \ {w} : wpc'[v] = wpc[v] /\ warg'[v] = warg[v]
    BY WebhookTyped, WMoved DEF Typed, WGoes
  <1>1. /\ wpc \in [Webhooks -> WPlaces] /\ warg[w] \in WArgs /\ Suits(wpc[w], warg[w])
        /\ Proven(wpc[w], warg[w], received, ledger)
    BY DEF WTyped, Deliveries, KnowsInv
  <1>2. CASE SettleSession(w)
    <2> DEFINE s == warg[w].s
               booked == PostEntry(received, s, AmountOf(w))
    <2>1. /\ wpc[w] = "settleSession" /\ UNCHANGED <<event, warg>>
          /\ \/ Accepts(received, s, AmountOf(w)) /\ received' = booked
             \/ wpc'[w] = "releaseSession"
      BY <1>1, <1>2 DEF SettleSession, WGoto
    <2>2. s \in Sessions /\ AmountOf(w) \in Nat
      BY <1>1, <2>1, AmountTyped DEF WSteps, Asked, Suits
    <2>3. Accepts(received, s, AmountOf(w)) => Taken(booked, s, AmountOf(w))
      BY <2>2, AcceptedPosts DEF Taken, Booking, WTyped, World
    <2> HIDE DEF booked
    <2>4. Proven(wpc'[w], warg'[w], received', ledger')
      BY <2>1, <2>2, <2>3, SessionsPositive DEF Proven, Rests, AmountOf
    <2> QED
      BY <1>0, <2>1, <2>4 DEF Sound
  <1>3. CASE EnrollRead(w) \/ EnrollSave(w)
    <2>1. /\ wpc[w] \in Rests \cap Asked /\ UNCHANGED <<warg, event, received>>
      BY <1>3 DEF EnrollRead, EnrollSave, Rests, Asked, gateway
    <2>2. warg[w].s # 0
      BY <1>1, <2>1, SessionsPositive DEF Suits
    <2> QED
      BY <1>0, <1>1, <2>1, <2>2 DEF Sound, Proven
  <1>4. CASE SettleStudent(w)
    <2> DEFINE booked == PostEntry(ledger, StudentKey(w), AmountOf(w))
    <2>1. /\ wpc[w] = "settleStudent" /\ UNCHANGED <<event, warg>>
          /\ \/ Accepts(ledger, StudentKey(w), AmountOf(w)) /\ ledger' = booked /\ wpc'[w] = "mark"
             \/ wpc'[w] \in {"dropRead", "takeBack"}
      BY <1>1, <1>4 DEF SettleStudent, WGoto, gateway
    <2>2. StudentKey(w) \in Keys /\ AmountOf(w) \in Nat /\ warg[w].s = 0
      BY <1>1, <2>1, AmountTyped DEF WSteps, Asked, Suits
    <2>3. Accepts(ledger, StudentKey(w), AmountOf(w)) => Taken(booked, StudentKey(w), AmountOf(w))
      BY <2>2, AcceptedPosts DEF Taken, Booking, WTyped, World, TypeOK
    <2> HIDE DEF booked
    <2>4. Proven(wpc'[w], warg'[w], received', ledger')
      BY <2>1, <2>2, <2>3 DEF Proven, Rests, AmountOf, StudentKey
    <2> QED
      BY <1>0, <2>1, <2>4 DEF Sound
  <1>5. CASE Mark(w)
    <2> DEFINE t == warg[w].t
               k == IF warg[w].s # 0 THEN <<"session", warg[w].s>> ELSE StudentKey(w)
    <2>1. /\ wpc[w] = "mark" /\ wpc'[w] = "matched" /\ UNCHANGED <<ledger, received>>
          /\ event' = [event EXCEPT ![t] = [state |-> "matched", key |-> k]]
      BY <1>1, <1>5 DEF Mark, WEnd, WGoto, vars
    <2>2. /\ warg[w].s # 0 => warg[w].s \in Sessions /\ Taken(received, warg[w].s, TransferOf[t].amount)
          /\ warg[w].s = 0 => StudentKey(w) \in PaymentKeys
                              /\ Taken(ledger, StudentKey(w), TransferOf[t].amount)
      BY <1>1, <2>1 DEF Proven, Rests, WArgs, StudentKey, PaymentKeys
    <2>3. Backed([state |-> "matched", key |-> k], received, ledger, TransferOf[t].amount)
      BY <2>2 DEF Backed
    <2> HIDE DEF k
    <2>4. \A u \in Transfers : event'[u] = event[u] \/ (u = t /\ event'[u] = [state |-> "matched", key |-> k])
      BY <2>1 DEF WTyped, World
    <2>5. \A u \in Transfers : Backed(event'[u], received, ledger, TransferOf[u].amount) \/ event'[u] = event[u]
      BY <2>3, <2>4
    <2>6. Proven(wpc'[w], warg'[w], received', ledger')
      BY <2>1 DEF Proven, Rests
    <2> QED
      BY <1>0, <2>1, <2>5, <2>6 DEF Sound
  <1>6. CASE ~(SettleSession(w) \/ EnrollRead(w) \/ EnrollSave(w) \/ SettleStudent(w) \/ Mark(w))
    <2>1. /\ wpc'[w] \notin Rests
          /\ \A t \in Transfers : event'[t] = event[t] \/ event'[t].state # "matched"
      BY <1>6, OtherSteps
    <2> QED
      BY <1>0, <2>1 DEF Sound, Proven, Backed, Rests
  <1> QED
    BY <1>2, <1>3, <1>4, <1>5, <1>6

LEMMA KnowsStep == WTyped /\ KnowsInv /\ [SePayNext]_svars => KnowsInv'
  <1> SUFFICES ASSUME WTyped, KnowsInv, [SePayNext]_svars PROVE KnowsInv'
    OBVIOUS
  <1>1. BooksKept
    BY StepBooks
  <1>2. CASE UNCHANGED <<event, wlocals>>
    BY <1>1, <1>2, StillKnows
  <1>3. ASSUME NEW w \in Webhooks, Webhook(w) PROVE KnowsInv'
    BY <1>1, <1>3, WebhookSound, SoundStep
  <1> QED
    BY <1>2, <1>3 DEF SePayNext, svars, gateway, CreateSession, PollRead, PollSave, VoidReceived

-----------------------------------------------------------------------------
(* No two matched transfers rest on one session: a claimed session is held *)
(* by one delivery only, it is not pending, and no transfer is matched     *)
(* with it before that delivery marks its own.                             *)
HoldSteps == {"settleSession", "releaseSession"} \cup Rests

Held(p, a, s)  == p \in HoldSteps /\ a.s = s
Behind(ev, s)  == ev.state = "matched" /\ ev.key = <<"session", s>>
Holds(w, s)    == Held(wpc[w], warg[w], s)
Backs(t, s)    == Behind(event[t], s)

OnceAt(s) ==
  /\ \A v, w \in Webhooks : Holds(v, s) /\ Holds(w, s) => v = w
  /\ \A w \in Webhooks : Holds(w, s) =>
       sess[s] \in {"paid", "expired"} /\ \A t \in Transfers : ~Backs(t, s)
  /\ \A t \in Transfers : Backs(t, s) => sess[s] \in {"paid", "expired"}
  /\ \A t, u \in Transfers : Backs(t, s) /\ Backs(u, s) => t = u

OnceInv == \A s \in Sessions : OnceAt(s)

(* A step that claims no session, releases none and marks no transfer.     *)
Holding(w) ==
  /\ UNCHANGED sess
  /\ \A v \in Webhooks \ {w} : wpc'[v] = wpc[v] /\ warg'[v] = warg[v]
  /\ \A s \in Sessions : Held(wpc'[w], warg'[w], s) => Holds(w, s)
  /\ \A t \in Transfers : event'[t] = event[t] \/ event'[t].state # "matched"

LEMMA HoldingStep ==
  ASSUME OnceInv, NEW w \in Webhooks, Holding(w)
  PROVE  OnceInv'
  <1>1. \A v \in Webhooks, s \in Sessions : Held(wpc'[v], warg'[v], s) => Held(wpc[v], warg[v], s)
    BY DEF Holding, Holds
  <1>2. \A t \in Transfers, s \in Sessions : Behind(event'[t], s) => Behind(event[t], s)
    BY DEF Holding, Behind
  <1> QED
    BY <1>1, <1>2 DEF Holding, OnceInv, OnceAt, Holds, Backs

LEMMA SessionsOnce ==
  ASSUME WTyped, OnceInv, UNCHANGED <<event, wlocals>>,
         \A s \in Sessions : sess[s] \in {"paid", "expired"} => sess'[s] \in {"paid", "expired"}
  PROVE  OnceInv'
  BY DEF OnceInv, OnceAt, Holds, Backs, wlocals

LEMMA WebhookHolds ==
  ASSUME WTyped, NEW w \in Webhooks, Webhook(w), ~ClaimSession(w), ~ReleaseSession(w), ~Mark(w)
  PROVE  Holding(w)
  <1>0. /\ \A v \in Webhooks \ {w} : wpc'[v] = wpc[v] /\ warg'[v] = warg[v]
        /\ wpc \in [Webhooks -> WPlaces] /\ warg[w] \in WArgs /\ Suits(wpc[w], warg[w])
    BY WebhookTyped, WMoved DEF Typed, WGoes, WTyped, Deliveries
  <1>1. UNCHANGED sess
    BY DEF Webhook, Deliver, SeekSession, SettleSession, EnrollRead, EnrollSave, SeekStudent, ClaimStudent,
           FreshRead, FreshSave, SettleStudent, TakeBack, DropRead, DropSave, WebhookCrash, gateway
  <1>2. CASE SettleSession(w) \/ EnrollRead(w) \/ EnrollSave(w)
    <2>1. wpc[w] \in HoldSteps /\ UNCHANGED <<warg, event>>
      BY <1>2 DEF SettleSession, EnrollRead, EnrollSave, HoldSteps, Rests, gateway
    <2> QED
      BY <1>0, <1>1, <2>1 DEF Holding, Holds, Held
  <1>3. CASE SettleStudent(w)
    <2>1. warg[w].s = 0 /\ UNCHANGED <<warg, event>>
      BY <1>0, <1>3 DEF SettleStudent, gateway, Suits, Asked
    <2> QED
      BY <1>0, <1>1, <2>1, SessionsPositive DEF Holding, Held
  <1>4. CASE ~(SettleSession(w) \/ EnrollRead(w) \/ EnrollSave(w) \/ SettleStudent(w))
    <2>1. /\ wpc'[w] \notin Rests
          /\ \A t \in Transfers : event'[t] = event[t] \/ event'[t].state # "matched"
      BY <1>4, OtherSteps
    <2>2. wpc'[w] \notin {"settleSession", "releaseSession"}
      <3> USE <1>0 DEF WGoto, WEnd, ToStudent
      <3>1. ASSUME NEW t \in Transfers, Deliver(w, t) PROVE wpc'[w] \notin {"settleSession", "releaseSession"}
        BY <3>1 DEF Deliver
      <3>2. CASE SeekSession(w) \/ ClaimStudent(w) \/ FreshRead(w) \/ FreshSave(w)
        BY <3>2 DEF SeekSession, ClaimStudent, FreshRead, FreshSave
      <3>3. CASE TakeBack(w) \/ DropRead(w) \/ DropSave(w) \/ WebhookCrash(w)
        BY <3>3 DEF TakeBack, DropRead, DropSave, WebhookCrash
      <3>4. CASE SeekStudent(w)
        BY <3>4 DEF SeekStudent
      <3> QED
        BY <1>4, <3>1, <3>2, <3>3, <3>4 DEF Webhook
    <2> QED
      BY <1>0, <1>1, <2>1, <2>2 DEF Holding, Held, HoldSteps
  <1> QED
    BY <1>2, <1>3, <1>4

LEMMA ClaimSessionOnce ==
  ASSUME WTyped, OnceInv, NEW w \in Webhooks, ClaimSession(w)
  PROVE  OnceInv'
  <1>p. PICK s \in Sessions : s = warg[w].s
    BY DEF WTyped, Deliveries, ClaimSession, Suits, Asked, WSteps
  <1>0. /\ \A v \in Webhooks \ {w} : wpc'[v] = wpc[v] /\ warg'[v] = warg[v]
        /\ wpc \in [Webhooks -> WPlaces] /\ warg \in [Webhooks -> WArgs] /\ s \in Sessions
        /\ UNCHANGED event /\ wpc[w] = "claimSession"
        /\ sess \in [Sessions -> {"absent", "pending", "paid", "expired"}]
    <2>1. Webhook(w)
      BY DEF Webhook
    <2> QED
      BY <1>p, <2>1, WebhookTyped, WMoved
         DEF Typed, WGoes, WTyped, World, Deliveries, ClaimSession, Suits, Asked, WSteps
  <1>1. CASE sess[s] # "pending"
    <2>1. wpc'[w] = "seekStudent" /\ UNCHANGED sess
      BY <1>0, <1>1, <1>p DEF ClaimSession, ToStudent, WGoto
    <2>2. Holding(w)
      BY <1>0, <2>1 DEF Holding, Held, HoldSteps, Rests
    <2> QED
      BY <2>2, HoldingStep
  <1>2. CASE sess[s] = "pending"
    <2>1. sess' = [sess EXCEPT ![s] = "paid"] /\ UNCHANGED warg
      BY <1>2, <1>p DEF ClaimSession
    <2>2. \A r \in Sessions \ {s} : /\ sess'[r] = sess[r]
                                    /\ ~Held(wpc'[w], warg'[w], r)
      BY <1>0, <1>p, <2>1 DEF Held
    <2>3. /\ sess'[s] = "paid"
          /\ \A v \in Webhooks \ {w} : ~Held(wpc'[v], warg'[v], s)
          /\ \A t \in Transfers : ~Behind(event'[t], s)
      BY <1>0, <1>2, <2>1 DEF OnceInv, OnceAt, Holds, Backs
    <2>4. ASSUME NEW r \in Sessions \ {s} PROVE OnceAt(r)'
      <3>1. \A v \in Webhooks : Held(wpc'[v], warg'[v], r) => Held(wpc[v], warg[v], r)
        BY <1>0, <2>2
      <3> QED
        BY <1>0, <2>2, <3>1 DEF OnceInv, OnceAt, Holds, Backs
    <2>5. OnceAt(s)'
      BY <2>3 DEF OnceAt, Holds, Backs
    <2> QED
      BY <2>4, <2>5 DEF OnceInv
  <1> QED
    BY <1>1, <1>2

LEMMA ReleaseSessionOnce ==
  ASSUME WTyped, OnceInv, NEW w \in Webhooks, ReleaseSession(w)
  PROVE  OnceInv'
  <1>p. PICK s \in Sessions : s = warg[w].s
    BY DEF WTyped, Deliveries, ReleaseSession, Suits, Asked, WSteps
  <1>0. /\ \A v \in Webhooks \ {w} : wpc'[v] = wpc[v] /\ warg'[v] = warg[v]
        /\ wpc'[w] = "seekStudent" /\ wpc[w] = "releaseSession" /\ s \in Sessions
        /\ UNCHANGED event /\ sess' = [sess EXCEPT ![s] = "pending"]
        /\ sess \in [Sessions -> {"absent", "pending", "paid", "expired"}]
    <2>1. Webhook(w)
      BY DEF Webhook
    <2> QED
      BY <1>p, <2>1, WebhookTyped, WMoved
         DEF Typed, WGoes, WTyped, World, Deliveries, ReleaseSession, ToStudent, WGoto, Suits, Asked, WSteps
  <1>1. \A v \in Webhooks, r \in Sessions : Held(wpc'[v], warg'[v], r) => v # w /\ Held(wpc[v], warg[v], r)
    BY <1>0 DEF Held, HoldSteps, Rests
  <1>2. Held(wpc[w], warg[w], s)
    BY <1>0, <1>p DEF Held, HoldSteps
  <1>3. /\ \A v \in Webhooks : ~Held(wpc'[v], warg'[v], s)
        /\ \A t \in Transfers : ~Behind(event'[t], s)
    BY <1>0, <1>1, <1>2 DEF OnceInv, OnceAt, Holds, Backs
  <1>4. ASSUME NEW r \in Sessions \ {s} PROVE OnceAt(r)'
    BY <1>0, <1>1 DEF OnceInv, OnceAt, Holds, Backs
  <1>5. OnceAt(s)'
    BY <1>3 DEF OnceAt, Holds, Backs
  <1> QED
    BY <1>4, <1>5 DEF OnceInv

LEMMA MarkOnce ==
  ASSUME WTyped, OnceInv, NEW w \in Webhooks, Mark(w)
  PROVE  OnceInv'
  <1>p. PICK s \in Sessions \cup {0} : s = warg[w].s
    BY DEF WTyped, Deliveries, WArgs
  <1> DEFINE x == warg[w].t
             k == IF s # 0 THEN <<"session", s>> ELSE StudentKey(w)
  <1>0. /\ \A v \in Webhooks \ {w} : wpc'[v] = wpc[v] /\ warg'[v] = warg[v]
        /\ wpc'[w] = "matched" /\ wpc[w] = "mark" /\ UNCHANGED sess
        /\ event' = [event EXCEPT ![x] = [state |-> "matched", key |-> k]]
        /\ s \in Sessions \cup {0}
    <2>1. Webhook(w)
      BY DEF Webhook
    <2> QED
      BY <1>p, <2>1, WebhookTyped, WMoved DEF Typed, WGoes, WTyped, Deliveries, Mark, WEnd, WGoto, WArgs
  <1>1. \A v \in Webhooks, r \in Sessions : Held(wpc'[v], warg'[v], r) => v # w /\ Held(wpc[v], warg[v], r)
    BY <1>0 DEF Held, HoldSteps, Rests
  <1>2. \A r \in Sessions : k = <<"session", r>> => r = s
    BY <1>0, SessionsPositive DEF StudentKey
  <1>3. \A t \in Transfers, r \in Sessions : Behind(event'[t], r) => Behind(event[t], r) \/ (t = x /\ r = s)
    <2> HIDE DEF k
    <2> QED
      BY <1>0, <1>2 DEF Behind, WTyped, World
  <1> HIDE DEF x, k
  <1>4. ASSUME NEW r \in Sessions, r # s PROVE OnceAt(r)'
    BY <1>0, <1>1, <1>3, <1>4 DEF OnceInv, OnceAt, Holds, Backs
  <1>5. ASSUME s \in Sessions PROVE OnceAt(s)'
    <2>1. Held(wpc[w], warg[w], s)
      BY <1>0, <1>p DEF Held, HoldSteps, Rests
    <2>2. /\ sess[s] \in {"paid", "expired"}
          /\ \A v \in Webhooks : ~Held(wpc'[v], warg'[v], s)
          /\ \A t \in Transfers : ~Behind(event[t], s)
      BY <1>0, <1>1, <1>5, <2>1 DEF OnceInv, OnceAt, Holds, Backs
    <2> QED
      BY <1>0, <1>3, <1>5, <2>2 DEF OnceAt, Holds, Backs
  <1> QED
    BY <1>4, <1>5 DEF OnceInv

LEMMA OnceStep == WTyped /\ OnceInv /\ [SePayNext]_svars => OnceInv'
  <1> SUFFICES ASSUME WTyped, OnceInv, [SePayNext]_svars PROVE OnceInv'
    OBVIOUS
  <1>1. CASE UNCHANGED <<gateway, wlocals>>
    BY <1>1, SessionsOnce DEF gateway
  <1>2. ASSUME NEW s \in Sessions, CreateSession(s) \/ PollRead(s) \/ PollSave(s) \/ VoidReceived(s)
        PROVE  OnceInv'
    BY <1>2, SessionsOnce DEF CreateSession, PollRead, PollSave, VoidReceived, WTyped, World
  <1>3. ASSUME NEW w \in Webhooks, Webhook(w) PROVE OnceInv'
    <2>1. CASE ~ClaimSession(w) /\ ~ReleaseSession(w) /\ ~Mark(w)
      BY <1>3, <2>1, WebhookHolds, HoldingStep
    <2> QED
      BY <2>1, ClaimSessionOnce, ReleaseSessionOnce, MarkOnce
  <1> QED
    BY <1>1, <1>2, <1>3 DEF SePayNext, svars

(* A transfer reported as matched was booked with its amount and is in the *)
(* ledger unless an administrator has voided it, and no other matched      *)
(* transfer rests on its payment session, whatever fails                   *)
(* (webhookRoutes.js:258 and 345).                                         *)
THEOREM MatchedAreBooked == SePaySpec => []MatchedIsBooked
  <1>1. SePayInit => KnowsInv /\ OnceInv
    BY DEF SePayInit, KnowsInv, OnceInv, OnceAt, Proven, Backed, Rests, HoldSteps, Holds, Held, Backs, Behind
  <1>2. WTyped /\ KnowsInv /\ OnceInv => MatchedIsBooked
    <2> SUFFICES ASSUME WTyped, KnowsInv, OnceInv, NEW t \in Matched
                 PROVE  /\ Booking(EntryOf(event[t].key))
                        /\ EntryOf(event[t].key).amount = TransferOf[t].amount
                        /\ \A u \in Matched \ {t} :
                             event[t].key \in SessionKeys => event[u].key # event[t].key
      BY DEF MatchedIsBooked
    <2>1. t \in Transfers /\ Backed(event[t], received, ledger, TransferOf[t].amount)
      BY DEF Matched, KnowsInv
    <2>2. CASE \E s \in Sessions : event[t].key = <<"session", s>>
                                   /\ Taken(received, s, TransferOf[t].amount)
      <3>1. PICK s \in Sessions : event[t].key = <<"session", s>> /\ Taken(received, s, TransferOf[t].amount)
        BY <2>2
      <3>2. EntryOf(event[t].key) = received[s]
        BY <3>1 DEF EntryOf, SessionKeys
      <3>3. \A u \in Matched : event[u].key = event[t].key => u = t
        BY <3>1 DEF Matched, OnceInv, OnceAt, Backs, Behind
      <3> QED
        BY <3>1, <3>2, <3>3 DEF Taken
    <2>3. CASE event[t].key \in PaymentKeys /\ Taken(ledger, event[t].key, TransferOf[t].amount)
      <3>1. event[t].key \notin SessionKeys
        BY <2>3 DEF PaymentKeys, SessionKeys
      <3> QED
        BY <2>3, <3>1 DEF EntryOf, Taken
    <2> QED
      BY <2>1, <2>2, <2>3 DEF Backed, Matched
  <1> QED
    BY <1>1, <1>2, KnowsStep, OnceStep, WTypedInit, WTypedStep, PTL DEF SePaySpec

(* With the gateway at work beside the requests, too, a payment is in the  *)
(* ledger when it is answered with 200, and until an administrator voids   *)
(* that very entry (ledgerService.js:114-131).                             *)
LEMMA GatewaySparesSettled ==
  ASSUME WTyped, UNCHANGED locals, Firm \/ UNCHANGED ledger
  PROVE  BookedStep
  <1> SUFFICES ASSUME NEW q \in Requests, Answered(q)', Answered(q) => BookedFor(q)
               PROVE  BookedFor(q)'
    BY DEF BookedStep
  <1>1. UNCHANGED <<pc, arg>> /\ PaymentKey(q)' = PaymentKey(q)
    BY DEF locals, PaymentKey
  <1>2. PaymentKey(q) \in PaymentKeys /\ Posted(ledger, PaymentKey(q))
    BY <1>1 DEF WTyped, World, TypeOK, Argument, PaymentKey, PaymentKeys, Answered, BookedFor
  <1>3. ledger'[PaymentKey(q)] = ledger[PaymentKey(q)]
    BY <1>2 DEF Firm, Posted
  <1> QED
    BY <1>1, <1>3 DEF Answered, BookedFor, Posted

THEOREM ConfirmedStayBooked == SePaySpec => SettledIsBooked
  <1>1. WTyped /\ [SePayNext]_svars => [BookedStep]_vars
    <2> SUFFICES ASSUME WTyped, SePayNext PROVE [BookedStep]_vars
      BY DEF svars
    <2>1. CASE Next
      BY <2>1, SettledStep DEF WTyped, World
    <2>2. ASSUME NEW w \in Webhooks, Webhook(w) PROVE BookedStep
      <3>1. UNCHANGED locals
        BY <2>2 DEF vars, Webhook, Deliver, SeekSession, ClaimSession, SettleSession, ReleaseSession,
             EnrollRead, EnrollSave, SeekStudent, ClaimStudent, FreshRead, FreshSave, SettleStudent,
             TakeBack, DropRead, DropSave, Mark, WebhookCrash
      <3> QED
        BY <2>2, <3>1, WebhookBooks, GatewaySparesSettled
    <2>3. ASSUME NEW s \in Sessions, CreateSession(s) \/ PollRead(s) \/ PollSave(s) \/ VoidReceived(s)
          PROVE  UNCHANGED vars
      BY <2>3 DEF CreateSession, PollRead, PollSave, VoidReceived
    <2> QED
      BY <2>1, <2>2, <2>3 DEF SePayNext
  <1> QED
    BY <1>1, WTypedInit, WTypedStep, PTL DEF SePaySpec, SettledIsBooked, BookedStep

-----------------------------------------------------------------------------
(* The ledger shows no more payments than money came in.  While nothing    *)
(* fails and nothing is sent again, a transfer is worked on by one         *)
(* delivery, which spends it when it books it; what was booked is then     *)
(* covered by the transfers spent and the payments confirmed.  A heal run  *)
(* books without any money coming in, and is left out.                     *)
HealSteps == {"healCheck", "healPost"}
NoHeal    == \A r \in Requests : pc[r] \notin HealSteps

Confirmed == {r \in Requests : pc[r] = "settled"}
Asks      == [r \in Requests |-> arg[r].amt]
Collected == Total(Asks, Confirmed)

(* A delivery at step p with locals a works on transfer t, or spends it.   *)
On(p, a, t)     == p # "new" /\ p \notin WOutcomes /\ a.t = t
Spends(p, a, t) == p \in Rests /\ a.t = t

Alone ==
  \A w \in Webhooks :
    /\ wpc[w] # "dead"
    /\ \A t \in Transfers : On(wpc[w], warg[w], t) =>
         event[t].state = "open" /\ \A v \in Webhooks : On(wpc[v], warg[v], t) => v = w

Brought == [t \in Transfers |-> TransferOf[t].amount]
Spent   == {t \in Transfers : \/ event[t].state = "matched"
                              \/ \E w \in Webhooks : Spends(wpc[w], warg[w], t)}

BookedIsSpent == Booked <= Total(Brought, Spent) + Collected

MoneyInv == faults = 0 => Alone /\ BookedIsSpent

LEMMA AtMost ==
  ASSUME NEW n \in Nat, NEW p \in Nat, NEW q \in Nat, q <= p + n, NEW c \in Nat, NEW d, d = n + c
  PROVE  q + c <= p + d
  OBVIOUS

LEMMA PaymentsTyped ==
  ASSUME TypeOK
  PROVE  Payments \in Nat
  BY PaymentKeysFinite, PaymentsAreKeys, PostedTotalTyped DEF TypeOK, Payments

LEMMA PaymentsSame ==
  ASSUME TypeOK, \A k \in PaymentKeys : ledger'[k] = ledger[k]
  PROVE  Payments' = Payments
  BY PaymentKeysFinite, PaymentsAreKeys, PostedTotalKept DEF TypeOK, Payments

LEMMA ConfirmedFinite ==
  ASSUME TypeOK
  PROVE  IsFiniteSet(Confirmed) /\ Collected \in Nat /\ \A r \in Confirmed : Asks[r] \in Nat
  <1>1. Confirmed \in SUBSET Requests
    BY DEF Confirmed
  <1>2. IsFiniteSet(Confirmed)
    BY <1>1, RequestsAssumption, FS_Subset
  <1>3. \A r \in Confirmed : Asks[r] \in Nat
    BY <1>1 DEF Asks, TypeOK, Argument
  <1> QED
    BY <1>2, <1>3, TotalTyped DEF Collected

(* No request but a heal run is at the steps of one.                       *)
LEMMA NoHealStep ==
  ASSUME "heal" \notin Operations, TypeOK, NoHeal, [Next]_vars
  PROVE  NoHeal'
  <1>0. pc \in [Requests -> {"new"} \cup Steps \cup Outcomes]
    BY DEF TypeOK
  <1> USE DEF HealSteps, Goto, End, Refuse
  <1>1. CASE UNCHANGED vars
    BY <1>1 DEF vars, locals, NoHeal
  <1>2. ASSUME NEW r \in Requests, \E p : pc' = [pc EXCEPT ![r] = p] /\ p \notin HealSteps
        PROVE  NoHeal'
    BY <1>0, <1>2 DEF NoHeal
  <1>3. ASSUME NEW r \in Requests, Begin(r)
        PROVE  \E p : pc' = [pc EXCEPT ![r] = p] /\ p \notin HealSteps
    <2>1. ~HealRead(r)
      BY DEF HealRead, Arrive
    <2>2. ASSUME NEW e \in Slots, EnrClaim(r, e)
          PROVE  \E p : pc' = [pc EXCEPT ![r] = p] /\ p \notin HealSteps
      BY <2>2 DEF EnrClaim
    <2>3. ASSUME NEW c \in Courses, NEW op \in {"add", "addPaid"}, AddRead(r, c, op)
          PROVE  \E p : pc' = [pc EXCEPT ![r] = p] /\ p \notin HealSteps
      BY <2>3 DEF AddRead
    <2>4. ASSUME NEW e \in Slots, NEW amt \in Amounts, CancelRead(r, e, amt)
          PROVE  \E p : pc' = [pc EXCEPT ![r] = p] /\ p \notin HealSteps
      BY <2>4 DEF CancelRead
    <2>5. ASSUME NEW amt \in Amounts, NEW id \in RefundIds, RefundRead(r, amt, id)
          PROVE  \E p : pc' = [pc EXCEPT ![r] = p] /\ p \notin HealSteps
      BY <2>5 DEF RefundRead
    <2>6. CASE PayRead(r)
      BY <2>6 DEF PayRead
    <2> QED
      BY <1>3, <2>1, <2>2, <2>3, <2>4, <2>5, <2>6 DEF Begin
  <1>4. ASSUME NEW r \in Requests, Continue(r) \/ Crash(r)
        PROVE  \E p : pc' = [pc EXCEPT ![r] = p] /\ p \notin HealSteps
    <2>1. ~HealCheck(r) /\ ~HealPost(r)
      BY DEF HealCheck, HealPost, NoHeal
    <2>2. CASE PaySettle(r) \/ EnrSettle(r) \/ AddSettle(r)
      BY <2>2 DEF PaySettle, EnrSettle, AddSettle, Settle
    <2>3. CASE PostRefund(r) \/ IssueNote(r) \/ VoidRefund(r)
      BY <2>3 DEF PostRefund, IssueNote, VoidRefund, AfterRefund, RefundThrows
    <2>4. CASE PayClaim(r) \/ PaySave(r) \/ PayUndo(r)
      BY <2>4 DEF PayClaim, PaySave, PayUndo
    <2>6. CASE EnrRead(r) \/ EnrSave(r) \/ Undo(r) \/ AddSave(r)
      BY <2>6 DEF EnrRead, EnrSave, Undo, AddSave
    <2>5. CASE \/ CountNotes(r) \/ CancelSave(r) \/ Crash(r)
               \/ RefundFill(r) \/ RefundClaim(r) \/ RefundSave(r) \/ RefundRestore(r)
      BY <2>5 DEF CountNotes, CancelSave, Crash, RefundFill, RefundClaim, RefundSave, RefundRestore
    <2> QED
      BY <1>4, <2>1, <2>2, <2>3, <2>4, <2>5, <2>6 DEF Continue
  <1>5. ASSUME NEW k \in Keys, LedgerVoid(k) PROVE NoHeal'
    BY <1>5 DEF LedgerVoid, locals, NoHeal
  <1> QED
    BY <1>1, <1>2, <1>3, <1>4, <1>5 DEF Next

(* A step of a request that confirms nothing and books no payment.         *)
LEMMA ActsMoney ==
  ASSUME TypeOK, NEW r \in Requests, Acts(r), pc[r] # "settled"
  PROVE  Collected' = Collected
  <1>1. Confirmed' = Confirmed
    BY DEF Acts, Confirmed
  <1>2. \A q \in Confirmed : Asks'[q] = Asks[q]
    BY DEF Acts, Confirmed, Asks
  <1>3. Total(Asks', Confirmed) = Total(Asks, Confirmed)
    BY <1>2, ConfirmedFinite, TotalSame
  <1> QED
    BY <1>1, <1>3 DEF Collected

(* A step that confirms a payment.                                         *)
LEMMA SettleMoney ==
  ASSUME TypeOK, NEW r \in Requests, NEW undo \in Steps, Settle(r, undo),
         pc[r] # "settled", \A kind : ~Fault(kind)
  PROVE  Payments' + Collected <= Payments + Collected'
  <1> DEFINE k   == PaymentKey(r)
             amt == arg[r].amt
  <1>0. /\ Payments \in Nat /\ Collected \in Nat /\ amt \in Nat
        /\ pc \in [Requests -> {"new"} \cup Steps \cup Outcomes]
    BY PaymentsTyped, ConfirmedFinite DEF TypeOK, Argument
  <1>1. CASE /\ ledger' = IF amt = 0 THEN ledger ELSE PostEntry(ledger, k, amt)
             /\ End(r, "settled")
    <2>1. /\ Confirmed' = Confirmed \cup {r} /\ r \notin Confirmed
          /\ \A q \in Requests : Asks'[q] = Asks[q]
      BY <1>0, <1>1 DEF End, Goto, Confirmed, Asks, TypeOK
    <2>2. /\ IsFiniteSet(Confirmed) /\ (\A q \in Confirmed : Asks[q] \in Nat) /\ Asks[r] = amt
          /\ Confirmed \subseteq Requests
      BY ConfirmedFinite DEF Asks, Confirmed
    <2> DEFINE C == Confirmed \cup {r}
    <2>3. IsFiniteSet(C)
      BY <2>2, FS_AddElement
    <2>4. Total(Asks', C) = Asks'[r] + Total(Asks', C \ {r})
      <3>1. \A q \in C : Asks'[q] \in Nat
        BY <1>0, <2>1, <2>2
      <3> QED
        BY <2>3, <3>1, TotalSplit
    <2>5. Total(Asks', Confirmed) = Total(Asks, Confirmed)
      BY <2>1, <2>2, TotalSame
    <2>6. C \ {r} = Confirmed
      BY <2>1
    <2>7. Collected' = amt + Collected
      BY <2>1, <2>2, <2>4, <2>5, <2>6 DEF Collected
    <2>8. Payments' <= Payments + amt /\ Payments' \in Nat
      <3>1. CASE amt = 0
        <4>1. Payments' = Payments
          BY <1>1, <3>1, PaymentsSame
        <4> QED
          BY <1>0, <4>1
      <3>2. CASE amt # 0
        <4>1. ledger' = PostEntry(ledger, k, amt)
          BY <1>1, <3>2
        <4>2. PostedTotal(ledger', PaymentKeys) <= PostedTotal(ledger, PaymentKeys) + amt
          BY <1>0, <4>1, PaymentKeysFinite, PaymentsAreKeys, PostingAddsNoMore DEF TypeOK
        <4>3. ledger' \in [Keys -> Entry]
          BY <1>0, <4>1, PostTyped DEF TypeOK
        <4> QED
          BY <4>2, <4>3, PaymentKeysFinite, PaymentsAreKeys, PostedTotalTyped DEF Payments
      <3> QED
        BY <3>1, <3>2
    <2> HIDE DEF amt, C
    <2> QED
      BY <1>0, <2>7, <2>8, AtMost
  <1>2. CASE Goto(r, undo) /\ UNCHANGED <<arg, ledger>>
    <2>1. Acts(r)
      BY <1>0, <1>2 DEF Acts, Goto, Steps
    <2>2. Collected' = Collected
      BY <2>1, ActsMoney
    <2>3. Payments' = Payments
      BY <1>2, PaymentsSame
    <2> QED
      BY <1>0, <2>2, <2>3
  <1> QED
    BY <1>1, <1>2 DEF Settle

LEMMA LessBeside ==
  ASSUME NEW n \in Nat, NEW p \in Nat, n <= p, NEW c \in Nat, NEW d, d = c
  PROVE  n + c <= p + d
  OBVIOUS

(* Hence the requests book no more payments than they confirm.             *)
LEMMA RequestsPay ==
  ASSUME TypeOK, NoHeal, Next, faults' = 0
  PROVE  Payments' + Collected <= Payments + Collected'
  <1>0. Payments \in Nat /\ Collected \in Nat
    BY PaymentsTyped, ConfirmedFinite
  <1>v. ASSUME NEW k \in Keys, LedgerVoid(k)
        PROVE  Payments' + Collected <= Payments + Collected'
    <2>1. ledger' = VoidEntry(ledger, k) /\ ledger \in [Keys -> Entry] /\ UNCHANGED <<pc, arg>>
      BY <1>v DEF LedgerVoid, locals, TypeOK
    <2>2. /\ ledger' \in [Keys -> Entry]
          /\ PostedTotal(ledger', PaymentKeys) <= PostedTotal(ledger, PaymentKeys)
      BY <2>1, PaymentKeysFinite, PaymentsAreKeys, VoidingAddsNothing
    <2>3. PostedTotal(ledger', PaymentKeys) \in Nat
      BY <2>2, PaymentKeysFinite, PaymentsAreKeys, PostedTotalTyped
    <2>4. Collected' = Collected
      BY <2>1 DEF Collected, Confirmed, Asks
    <2>5. Payments' \in Nat /\ Payments' <= Payments
      BY <2>2, <2>3 DEF Payments
    <2> QED
      BY <1>0, <2>4, <2>5, LessBeside
  <1> SUFFICES ASSUME ~ \E k \in Keys : LedgerVoid(k)
               PROVE  Payments' + Collected <= Payments + Collected'
    BY <1>v
  <1>1. \A kind : ~Fault(kind)
    BY TuitionAssumption DEF TypeOK, Fault
  <1>2. PICK r \in Requests : Begin(r) \/ Continue(r) \/ Crash(r)
    BY DEF Next
  <1>3. pc[r] # "settled"
    <2> USE DEF Outcomes, Arrive
    <2>1. CASE Begin(r)
      BY <2>1 DEF Begin, PayRead, HealRead, EnrClaim, AddRead, CancelRead, RefundRead
    <2>2. CASE Crash(r)
      BY <2>2 DEF Crash, InFlight
    <2>3. CASE Continue(r)
      BY <2>3 DEF Continue, PayClaim, PaySave, PaySettle, PayUndo, EnrRead, EnrSave, EnrSettle, Undo,
           AddSave, AddSettle, PostRefund, CountNotes, IssueNote, VoidRefund, CancelSave, RefundFill,
           RefundClaim, RefundSave, RefundRestore, HealCheck, HealPost
    <2> QED
      BY <1>2, <2>1, <2>2, <2>3
  <1>4. CASE PaySettle(r) \/ EnrSettle(r) \/ AddSettle(r)
    BY <1>1, <1>3, <1>4, SettleMoney DEF PaySettle, EnrSettle, AddSettle, Steps
  <1>5. CASE Acts(r) /\ \A k \in PaymentKeys : ledger'[k] = ledger[k]
    <2>1. Collected' = Collected /\ Payments' = Payments
      BY <1>3, <1>5, ActsMoney, PaymentsSame
    <2> QED
      BY <1>0, <2>1
  <1>6. CASE PostRefund(r) \/ VoidRefund(r)
    <2>1. Acts(r)
      BY <1>6, BookingSteps
    <2>2. RefundKey(r) \notin PaymentKeys
      BY DEF RefundKey, PaymentKeys
    <2>3. \/ UNCHANGED ledger
          \/ ledger' = PostEntry(ledger, RefundKey(r), arg[r].amt)
          \/ ledger' = VoidEntry(ledger, RefundKey(r))
      BY <1>1, <1>6 DEF PostRefund, VoidRefund
    <2>4. \A k \in PaymentKeys : ledger'[k] = ledger[k]
      BY <2>2, <2>3, PaymentsAreKeys DEF PostEntry, VoidEntry, TypeOK
    <2> QED
      BY <1>5, <2>1, <2>4
  <1>7. CASE ~(PaySettle(r) \/ EnrSettle(r) \/ AddSettle(r) \/ PostRefund(r) \/ VoidRefund(r))
    <2>1. ~HealPost(r)
      BY DEF HealPost, NoHeal, HealSteps
    <2>2. Acts(r)
      BY <1>2, <1>7, <2>1, QuietSteps DEF Continue
    <2>3. UNCHANGED ledger
      BY <1>2, <1>7, <2>1 DEF Begin, Continue, Crash, PayRead, HealRead, EnrClaim, AddRead, CancelRead,
           RefundRead, Refuse, PayClaim, PaySave, PayUndo, EnrRead, EnrSave, Undo, AddSave, CountNotes,
           IssueNote, CancelSave, RefundFill, RefundClaim, RefundSave, RefundRestore, HealCheck
    <2> QED
      BY <1>5, <2>2, <2>3
  <1> QED
    BY <1>4, <1>6, <1>7

LEMMA MoreSpent ==
  ASSUME NEW b \in Nat, NEW c \in Nat, NEW s \in Nat, b <= s + c,
         NEW d \in Nat, NEW e \in Nat, NEW t \in Nat, s <= t, d + c <= b + e
  PROVE  d <= t + e
  OBVIOUS

LEMMA SpentFinite ==
  /\ IsFiniteSet(Spent) /\ Spent \subseteq Transfers
  /\ \A t \in Transfers : Brought[t] \in Nat
  /\ Total(Brought, Spent) \in Nat
  <1>1. Spent \in SUBSET Transfers
    BY DEF Spent
  <1>2. IsFiniteSet(Spent)
    BY <1>1, FiniteAssumption, FS_Subset
  <1>3. \A t \in Transfers : Brought[t] \in Nat
    BY SePayAssumption DEF Brought
  <1> QED
    BY <1>1, <1>2, <1>3, TotalTyped

LEMMA BookedTyped ==
  ASSUME WTyped
  PROVE  Payments \in Nat /\ PostedTotal(received, Sessions) \in Nat /\ Booked \in Nat /\ Collected \in Nat
  <1>1. Payments \in Nat /\ Collected \in Nat
    BY PaymentsTyped, ConfirmedFinite DEF WTyped, World
  <1>2. received \in [Sessions -> Entry]
    BY DEF WTyped, World
  <1>3. PostedTotal(received, Sessions) \in Nat
    BY <1>2, FiniteAssumption, PostedTotalTyped
  <1> QED
    BY <1>1, <1>3 DEF Booked

LEMMA BookedTypedNext ==
  ASSUME WTyped'
  PROVE  Payments' \in Nat /\ Booked' \in Nat /\ Collected' \in Nat
  <1>1. received' \in [Sessions -> Entry] /\ ledger' \in [Keys -> Entry] /\ arg' \in [Requests -> Argument]
    BY DEF WTyped, World, TypeOK
  <1>2. PostedTotal(received', Sessions) \in Nat
    BY <1>1, FiniteAssumption, PostedTotalTyped
  <1>3. PostedTotal(ledger', PaymentKeys) \in Nat
    BY <1>1, PaymentKeysFinite, PaymentsAreKeys, PostedTotalTyped
  <1>4. Collected' \in Nat
    <2> DEFINE C == {r \in Requests : pc'[r] = "settled"}
               h == [r \in Requests |-> arg'[r].amt]
    <2>1. IsFiniteSet(C) /\ \A r \in C : h[r] \in Nat
      BY <1>1, RequestsAssumption, FS_Subset DEF Argument
    <2> HIDE DEF C, h
    <2>2. Total(h, C) \in Nat
      BY <2>1, TotalTyped
    <2> QED
      BY <2>2 DEF Collected, Confirmed, Asks, C, h
  <1> QED
    BY <1>2, <1>3, <1>4 DEF Booked, Payments

(* A step of delivery w that books nothing and starts no work.             *)
Passes(w) ==
  /\ UNCHANGED <<ledger, received>>
  /\ wpc'[w] # "dead"
  /\ \A t \in Transfers : /\ On(wpc'[w], warg'[w], t) => On(wpc[w], warg[w], t)
                          /\ Spends(wpc[w], warg[w], t) =>
                               event'[t].state = "matched" \/ Spends(wpc'[w], warg'[w], t)
  /\ \A t \in Transfers : event'[t] = event[t] \/ (On(wpc[w], warg[w], t) /\ ~On(wpc'[w], warg'[w], t)
                                                   /\ event'[t].state = "matched")

(* One that starts to work on a transfer no other delivery works on.       *)
Starts(w) ==
  /\ UNCHANGED <<ledger, received>>
  /\ wpc[w] = "new" /\ wpc'[w] = "seekSession"
  /\ \E t \in Transfers :
       /\ \A v \in Webhooks : ~On(wpc[v], warg[v], t)
       /\ warg'[w].t = t
       /\ event[t].state # "matched" /\ event'[t].state = "open"
       /\ \A u \in Transfers \ {t} : event'[u] = event[u]

(* One that books its transfer and spends it.                              *)
Pays(w) ==
  /\ UNCHANGED <<event, warg>>
  /\ wpc[w] \in WSteps \ Rests /\ wpc'[w] \in Rests
  /\ Booked' <= Booked + AmountOf(w)

(* What the three have in common.                                          *)
Works(w) ==
  /\ UNCHANGED locals
  /\ \A v \in Webhooks \ {w} : wpc'[v] = wpc[v] /\ warg'[v] = warg[v]

LEMMA RestsAreSteps ==
  /\ \A p, a, t : Spends(p, a, t) => On(p, a, t)
  /\ \A p \in WSteps : \A a : On(p, a, a.t)
  BY DEF Spends, On, Rests, WSteps, WOutcomes, WPlaces

LEMMA SameBooked ==
  ASSUME UNCHANGED <<ledger, received>>
  PROVE  Booked' = Booked
  BY DEF Booked, Payments

LEMMA SameCollected ==
  ASSUME UNCHANGED locals
  PROVE  Collected' = Collected
  BY DEF locals, Collected, Confirmed, Asks

(* More transfers spent, no more payments.                                 *)
LEMMA SpendsMore ==
  ASSUME WTyped, WTyped', BookedIsSpent, Spent \subseteq Spent', Booked' + Collected <= Booked + Collected'
  PROVE  BookedIsSpent'
  <1>1. Total(Brought, Spent') \in Nat /\ Total(Brought, Spent) <= Total(Brought, Spent')
    <2> DEFINE S == Spent'
    <2>1. IsFiniteSet(S) /\ S \subseteq Transfers
      BY FiniteAssumption, FS_Subset DEF Spent
    <2> HIDE DEF S
    <2>2. \A t \in S : Brought[t] \in Nat
      BY <2>1, SpentFinite
    <2>3. Total(Brought, S) \in Nat
      BY <2>1, <2>2, TotalTyped
    <2>4. Spent \in SUBSET S /\ \A t \in Spent : Brought[t] \in Nat /\ Brought[t] <= Brought[t]
      BY SpentFinite DEF S
    <2>5. Total(Brought, Spent) <= Total(Brought, S)
      BY <2>1, <2>2, <2>4, TotalLess
    <2> QED
      BY <2>3, <2>5 DEF S
  <1>2. Brought' = Brought
    BY DEF Brought
  <1>3. Booked' <= Total(Brought, Spent') + Collected'
    BY <1>1, BookedTyped, BookedTypedNext, SpentFinite, MoreSpent DEF BookedIsSpent
  <1> QED
    BY <1>2, <1>3 DEF BookedIsSpent

LEMMA PassesMoney ==
  ASSUME WTyped, WTyped', Alone, BookedIsSpent, NEW w \in Webhooks, Works(w), Passes(w)
  PROVE  Alone' /\ BookedIsSpent'
  <1>1. \A v \in Webhooks, t \in Transfers : On(wpc'[v], warg'[v], t) => On(wpc[v], warg[v], t)
    BY DEF Works, Passes
  <1>2. \A v \in Webhooks : wpc'[v] # "dead"
    BY DEF Works, Passes, Alone
  <1>3. ASSUME NEW v \in Webhooks, NEW t \in Transfers, On(wpc'[v], warg'[v], t)
        PROVE  event'[t].state = "open" /\ \A u \in Webhooks : On(wpc'[u], warg'[u], t) => u = v
    <2>1. event[t].state = "open" /\ \A u \in Webhooks : On(wpc[u], warg[u], t) => u = v
      BY <1>1, <1>3 DEF Alone
    <2>2. event'[t] = event[t]
      BY <1>3, <2>1 DEF Passes
    <2> QED
      BY <1>1, <2>1, <2>2
  <1>4. Alone'
    BY <1>2, <1>3 DEF Alone
  <1>5. Spent \subseteq Spent'
    <2>1. ASSUME NEW t \in Transfers, event[t].state = "matched" PROVE event'[t].state = "matched"
      BY <2>1 DEF Passes
    <2>2. ASSUME NEW t \in Transfers, NEW v \in Webhooks, Spends(wpc[v], warg[v], t)
          PROVE  event'[t].state = "matched" \/ Spends(wpc'[v], warg'[v], t)
      BY <2>2 DEF Passes, Works
    <2> QED
      BY <2>1, <2>2 DEF Spent
  <1>6. Booked' = Booked /\ Collected' = Collected
    BY SameBooked, SameCollected DEF Passes, Works
  <1>7. Booked' + Collected <= Booked + Collected'
    BY <1>6, BookedTyped
  <1> QED
    BY <1>4, <1>5, <1>7, SpendsMore

LEMMA StartsMoney ==
  ASSUME WTyped, WTyped', Alone, BookedIsSpent, NEW w \in Webhooks, Works(w), Starts(w)
  PROVE  Alone' /\ BookedIsSpent'
  <1>1. PICK x \in Transfers :
          /\ \A v \in Webhooks : ~On(wpc[v], warg[v], x)
          /\ warg'[w].t = x
          /\ event[x].state # "matched" /\ event'[x].state = "open"
          /\ \A t \in Transfers \ {x} : event'[t] = event[t]
    BY DEF Starts
  <1>3. \A t \in Transfers : On(wpc'[w], warg'[w], t) => t = x
    BY <1>1 DEF On
  <1>4. ASSUME NEW v \in Webhooks, NEW t \in Transfers, On(wpc'[v], warg'[v], t)
        PROVE  event'[t].state = "open" /\ \A u \in Webhooks : On(wpc'[u], warg'[u], t) => u = v
    BY <1>1, <1>3, <1>4 DEF Works, Alone
  <1>5. \A v \in Webhooks : wpc'[v] # "dead"
    BY DEF Works, Starts, Alone
  <1>6. Alone'
    BY <1>4, <1>5 DEF Alone
  <1>7. Spent \subseteq Spent'
    <2>1. \A t \in Transfers : event[t].state = "matched" => event'[t].state = "matched"
      BY <1>1
    <2>2. \A v \in Webhooks, t \in Transfers : Spends(wpc[v], warg[v], t) => Spends(wpc'[v], warg'[v], t)
      BY DEF Works, Starts, Spends, Rests
    <2> QED
      BY <2>1, <2>2 DEF Spent
  <1>8. Booked' = Booked /\ Collected' = Collected
    BY SameBooked, SameCollected DEF Starts, Works
  <1>9. Booked' + Collected <= Booked + Collected'
    BY <1>8, BookedTyped
  <1> QED
    BY <1>6, <1>7, <1>9, SpendsMore

LEMMA OneMoreSpent ==
  ASSUME NEW b \in Nat, NEW c \in Nat, NEW s \in Nat, b <= s + c,
         NEW d \in Nat, NEW n \in Nat, d <= b + n, NEW u \in Nat, s <= u
  PROVE  d <= (n + u) + c
  OBVIOUS

LEMMA PaysMoney ==
  ASSUME WTyped, WTyped', Alone, BookedIsSpent, NEW w \in Webhooks, Works(w), Pays(w)
  PROVE  Alone' /\ BookedIsSpent'
  <1>0. wpc[w] \in WSteps /\ warg[w].t \in Transfers /\ AmountOf(w) \in Nat
    BY AmountTyped DEF Pays
  <1>p. PICK x \in Transfers : x = warg[w].t
    BY <1>0
  <1>1. \A v \in Webhooks, t \in Transfers : On(wpc'[v], warg'[v], t) => On(wpc[v], warg[v], t)
    BY DEF Works, Pays, On, WSteps, WOutcomes
  <1>2. Alone'
    BY <1>1 DEF Alone, Works, Pays, Rests
  <1>3. On(wpc[w], warg[w], x) /\ x \in Spent'
    BY <1>0, <1>p, RestsAreSteps DEF Pays, Spends, Spent
  <1>4. x \notin Spent
    <2>1. event[x].state = "open" /\ \A v \in Webhooks : On(wpc[v], warg[v], x) => v = w
      BY <1>3 DEF Alone
    <2>2. \A v \in Webhooks : ~Spends(wpc[v], warg[v], x)
      BY <2>1, RestsAreSteps DEF Pays, Spends
    <2> QED
      BY <2>1, <2>2 DEF Spent
  <1>5. Spent \subseteq Spent' \ {x}
    <2>1. \A v \in Webhooks, t \in Transfers : Spends(wpc[v], warg[v], t) => Spends(wpc'[v], warg'[v], t)
      BY DEF Works, Pays, Spends
    <2>2. UNCHANGED event
      BY DEF Pays
    <2>3. Spent \subseteq Spent'
      BY <2>1, <2>2 DEF Spent
    <2> QED
      BY <1>4, <2>3
  <1> DEFINE S == Spent'
  <1>6. IsFiniteSet(S) /\ S \subseteq Transfers
    BY FiniteAssumption, FS_Subset DEF Spent
  <1>7. Spent \in SUBSET (S \ {x}) /\ x \in S
    BY <1>3, <1>5
  <1> HIDE DEF S
  <1>8. (\A t \in S : Brought[t] \in Nat) /\ \A t \in S \ {x} : Brought[t] \in Nat
    BY <1>6, SpentFinite
  <1>9. IsFiniteSet(S \ {x})
    BY <1>6, FS_RemoveElement
  <1>10. Total(Brought, S) = Brought[x] + Total(Brought, S \ {x})
    BY <1>6, <1>7, <1>8, TotalSplit
  <1>11. Total(Brought, S \ {x}) \in Nat
    BY <1>8, <1>9, TotalTyped
  <1>12. Total(Brought, Spent) <= Total(Brought, S \ {x})
    <2>1. \A t \in Spent : Brought[t] \in Nat /\ Brought[t] <= Brought[t]
      BY SpentFinite
    <2> QED
      BY <1>7, <1>8, <1>9, <2>1, TotalLess
  <1>13. Brought[x] = AmountOf(w) /\ Brought' = Brought
    BY <1>p DEF Brought, AmountOf
  <1>14. Booked' <= Booked + Brought[x] /\ Brought[x] \in Nat /\ Booked <= Total(Brought, Spent) + Collected
    BY <1>0, <1>13 DEF Pays, BookedIsSpent
  <1>15. Booked' <= (Brought[x] + Total(Brought, S \ {x})) + Collected
    BY <1>11, <1>12, <1>14, BookedTyped, BookedTypedNext, SpentFinite, OneMoreSpent
  <1>16. Collected' = Collected
    BY SameCollected DEF Works
  <1>17. Booked' <= Total(Brought, S) + Collected'
    BY <1>10, <1>15, <1>16
  <1>18. BookedIsSpent'
    BY <1>13, <1>17 DEF BookedIsSpent, S
  <1> QED
    BY <1>2, <1>18

LEMMA MoreTogether ==
  ASSUME NEW p \in Nat, NEW q \in Nat, NEW n \in Nat, NEW x \in Nat, x <= p + n
  PROVE  /\ x + q <= (p + q) + n
         /\ q + x <= (q + p) + n
  OBVIOUS

LEMMA SameBeside ==
  ASSUME NEW p \in Nat, NEW q \in Nat, NEW c \in Nat, NEW d \in Nat, NEW x \in Nat, x + c <= p + d
  PROVE  (x + q) + c <= (p + q) + d
  OBVIOUS

(* Every step of a delivery that nothing disturbs is of one of these kinds.*)
LEMMA DeliveryKinds ==
  ASSUME WTyped, Alone, NEW w \in Webhooks, Webhook(w), \A kind : ~Fault(kind)
  PROVE  Works(w) /\ (Passes(w) \/ Starts(w) \/ Pays(w))
  <1>0. /\ wpc \in [Webhooks -> WPlaces] /\ warg \in [Webhooks -> WArgs]
        /\ event \in [Transfers -> [state : {"none", "open", "matched"},
                                    key : SessionKeys \cup Keys \cup {NoKey}]]
        /\ Suits(wpc[w], warg[w])
    BY DEF WTyped, World, Deliveries
  <1>1. Works(w)
    <2>1. \A v \in Webhooks \ {w} : wpc'[v] = wpc[v] /\ warg'[v] = warg[v]
      BY WebhookTyped, WMoved DEF Typed, WGoes
    <2>2. UNCHANGED locals
      BY DEF Webhook, Deliver, SeekSession, ClaimSession, SettleSession, ReleaseSession, EnrollRead,
             EnrollSave, SeekStudent, ClaimStudent, FreshRead, FreshSave, SettleStudent, TakeBack,
             DropRead, DropSave, Mark, WebhookCrash, vars
    <2> QED
      BY <2>1, <2>2 DEF Works
  <1> SUFFICES Passes(w) \/ Starts(w) \/ Pays(w)
    BY <1>1
  <1>2. ASSUME NEW t \in Transfers, Deliver(w, t) PROVE Passes(w) \/ Starts(w)
    <2>1. ~Unanswered(t) /\ wpc[w] = "new"
      BY <1>2 DEF Deliver
    <2>2. \A v \in Webhooks : ~On(wpc[v], warg[v], t)
      BY <2>1 DEF Unanswered, Delivering, On
    <2>3. CASE event[t].state = "matched"
      <3>1. wpc'[w] = "duplicate" /\ UNCHANGED <<ledger, received>> /\ event' = event
        BY <1>0, <1>2, <2>3 DEF Deliver, WEnd, WGoto
      <3> QED
        BY <2>1, <3>1 DEF Passes, On, Spends, Rests, WOutcomes
    <2>4. CASE event[t].state # "matched"
      <3>1. /\ wpc'[w] = "seekSession" /\ warg'[w].t = t /\ UNCHANGED <<ledger, received>>
            /\ event'[t].state = "open" /\ \A u \in Transfers \ {t} : event'[u] = event[u]
        BY <1>0, <1>2, <2>4 DEF Deliver, WGoto, WArgs
      <3> QED
        BY <2>1, <2>2, <2>4, <3>1 DEF Starts
    <2> QED
      BY <2>3, <2>4
  <1>3. CASE SettleSession(w)
    <2>0. /\ warg[w].s \in Sessions /\ AmountOf(w) \in Nat /\ wpc[w] = "settleSession"
          /\ received \in [Sessions -> Entry]
      BY <1>0, <1>3, AmountTyped DEF SettleSession, Suits, Asked, WSteps, WTyped, World
    <2>1. UNCHANGED <<event, warg, ledger>>
      BY <1>3 DEF SettleSession
    <2>2. CASE received' = PostEntry(received, warg[w].s, AmountOf(w)) /\ wpc'[w] \in Rests
      <3>1. PostedTotal(received', Sessions) <= PostedTotal(received, Sessions) + AmountOf(w)
        BY <2>0, <2>2, FiniteAssumption, PostingAddsNoMore
      <3>2. received' \in [Sessions -> Entry]
        BY <2>0, <2>2, PostTyped
      <3>3. PostedTotal(received', Sessions) \in Nat
        BY <3>2, FiniteAssumption, PostedTotalTyped
      <3>4. Payments' = Payments
        BY <2>1 DEF Payments
      <3>5. Booked' <= Booked + AmountOf(w)
        BY <2>0, <3>1, <3>3, <3>4, BookedTyped, MoreTogether DEF Booked
      <3> QED
        BY <2>0, <2>1, <2>2, <3>5 DEF Pays, Rests, WSteps
    <2>3. CASE ~(received' = PostEntry(received, warg[w].s, AmountOf(w)) /\ wpc'[w] \in Rests)
      <3>1. wpc'[w] = "releaseSession" /\ UNCHANGED received
        BY <1>0, <1>3, <2>3 DEF SettleSession, LedgerFails, WGoto, Rests
      <3> QED
        BY <2>0, <2>1, <3>1 DEF Passes, On, Spends, Rests, WOutcomes
    <2> QED
      BY <2>2, <2>3
  <1>4. CASE SettleStudent(w)
    <2>0. /\ AmountOf(w) \in Nat /\ wpc[w] = "settleStudent"
          /\ ledger \in [Keys -> Entry]
      BY <1>4, AmountTyped DEF SettleStudent, WSteps, WTyped, World, TypeOK
    <2>1. CASE ledger' = PostEntry(ledger, StudentKey(w), AmountOf(w)) /\ wpc'[w] = "mark"
      <3>1. PostedTotal(ledger', PaymentKeys) <= PostedTotal(ledger, PaymentKeys) + AmountOf(w)
        BY <2>0, <2>1, PaymentKeysFinite, PaymentsAreKeys, PostingAddsNoMore
      <3>2. ledger' \in [Keys -> Entry]
        BY <2>0, <2>1, PostTyped
      <3>3. PostedTotal(ledger', PaymentKeys) \in Nat
        BY <3>2, PaymentKeysFinite, PaymentsAreKeys, PostedTotalTyped
      <3>4. UNCHANGED <<received, event, warg>>
        BY <1>4 DEF SettleStudent, gateway
      <3>5. Booked' <= Booked + AmountOf(w)
        BY <2>0, <3>1, <3>3, <3>4, BookedTyped, MoreTogether DEF Booked, Payments
      <3> QED
        BY <2>0, <2>1, <3>4, <3>5 DEF Pays, Rests, WSteps
    <2>2. CASE ~(ledger' = PostEntry(ledger, StudentKey(w), AmountOf(w)) /\ wpc'[w] = "mark")
      <3>1. wpc'[w] \in {"dropRead", "takeBack"} /\ UNCHANGED <<ledger, received, event, warg>>
        BY <1>0, <1>4, <2>2 DEF SettleStudent, LedgerFails, WGoto, gateway
      <3> QED
        BY <2>0, <3>1 DEF Passes, On, Spends, Rests, WOutcomes
    <2> QED
      BY <2>1, <2>2
  <1>5. CASE Mark(w)
    <2>1. /\ wpc[w] = "mark" /\ wpc'[w] = "matched" /\ UNCHANGED <<ledger, received>>
          /\ warg[w].t \in Transfers
          /\ event'[warg[w].t].state = "matched"
          /\ \A t \in Transfers \ {warg[w].t} : event'[t] = event[t]
      BY <1>0, <1>5 DEF Mark, WEnd, WGoto, Suits, WSteps, vars
    <2>2. \A t \in Transfers : On(wpc[w], warg[w], t) <=> t = warg[w].t
      BY <2>1 DEF On, WOutcomes
    <2> QED
      BY <2>1, <2>2 DEF Passes, On, Spends, WOutcomes
  <1>6. CASE EnrollRead(w) \/ EnrollSave(w)
    <2>1. /\ wpc[w] \in Rests /\ wpc'[w] \in Rests
          /\ UNCHANGED <<ledger, received, event, warg>>
      BY <1>0, <1>6 DEF EnrollRead, EnrollSave, Rests, WGoto, gateway, vars
    <2> QED
      BY <2>1 DEF Passes, On, Spends, Rests, WOutcomes
  <1>7. CASE \/ SeekSession(w) \/ ClaimSession(w) \/ ReleaseSession(w) \/ SeekStudent(w) \/ ClaimStudent(w)
             \/ FreshRead(w) \/ FreshSave(w) \/ TakeBack(w) \/ DropRead(w) \/ DropSave(w)
    <2>1. UNCHANGED <<ledger, received, event>> /\ wpc[w] \in WSteps \ Rests
      BY <1>7 DEF SeekSession, ClaimSession, ReleaseSession, SeekStudent, ClaimStudent, FreshRead,
                  FreshSave, TakeBack, DropRead, DropSave, gateway, vars, WSteps, Rests
    <2>2. WEnd(w, "unmatched") \/ warg'[w].t = warg[w].t
      BY <1>0, <1>7 DEF SeekSession, ClaimSession, ReleaseSession, SeekStudent, ClaimStudent, FreshRead,
                  FreshSave, TakeBack, DropRead, DropSave, ToStudent, WArgs
    <2>3. wpc'[w] # "dead"
      BY <1>0, <1>7 DEF SeekSession, ClaimSession, ReleaseSession, SeekStudent, ClaimStudent, FreshRead,
                  FreshSave, TakeBack, DropRead, DropSave, ToStudent, WGoto, WEnd
    <2>4. \A t \in Transfers : On(wpc'[w], warg'[w], t) => On(wpc[w], warg[w], t)
      <3>1. CASE WEnd(w, "unmatched")
        BY <1>0, <3>1 DEF WEnd, WGoto, On, WOutcomes
      <3>2. CASE warg'[w].t = warg[w].t
        BY <2>1, <3>2 DEF On, WSteps, WOutcomes
      <3> QED
        BY <2>2, <3>1, <3>2
    <2> QED
      BY <2>1, <2>3, <2>4 DEF Passes, Spends
  <1>8. ~WebhookCrash(w)
    BY DEF WebhookCrash
  <1> QED
    BY <1>1, <1>2, <1>3, <1>4, <1>5, <1>6, <1>7, <1>8 DEF Webhook

LEMMA NoFaultNext ==
  ASSUME TypeOK, Next, faults' = 0
  PROVE  faults = 0
  <1>1. \A kind : ~Fault(kind)
    BY TuitionAssumption DEF TypeOK, Fault
  <1> SUFFICES ASSUME ~ \E k \in Keys : LedgerVoid(k) PROVE faults = 0
    BY DEF LedgerVoid
  <1>2. PICK r \in Requests : Begin(r) \/ Continue(r) \/ Crash(r)
    BY DEF Next
  <1>3. ~Crash(r)
    BY <1>1 DEF Crash
  <1>4. CASE Begin(r)
    BY <1>4 DEF Begin, PayRead, HealRead, EnrClaim, AddRead, CancelRead, RefundRead, Refuse
  <1>5. CASE PaySettle(r) \/ EnrSettle(r) \/ AddSettle(r)
    BY <1>1, <1>5 DEF PaySettle, EnrSettle, AddSettle, Settle
  <1>6. CASE PostRefund(r) \/ IssueNote(r) \/ VoidRefund(r) \/ HealPost(r)
    BY <1>1, <1>6 DEF PostRefund, IssueNote, VoidRefund, HealPost
  <1>7. CASE ~(PaySettle(r) \/ EnrSettle(r) \/ AddSettle(r)
               \/ PostRefund(r) \/ IssueNote(r) \/ VoidRefund(r) \/ HealPost(r)) /\ Continue(r)
    BY <1>7 DEF Continue, PayClaim, PaySave, PayUndo, EnrRead, EnrSave, Undo, AddSave, CountNotes,
                CancelSave, RefundFill, RefundClaim, RefundSave, RefundRestore, HealCheck, Refuse
  <1> QED
    BY <1>2, <1>3, <1>4, <1>5, <1>6, <1>7

LEMMA MoneyStep == "heal" \notin Operations /\ WTyped /\ WTyped' /\ NoHeal /\ MoneyInv /\ [SePayNext]_svars => MoneyInv'
  <1> SUFFICES ASSUME "heal" \notin Operations, WTyped, WTyped', NoHeal, MoneyInv, [SePayNext]_svars, faults' = 0
               PROVE  Alone' /\ BookedIsSpent'
    BY DEF MoneyInv
  <1>1. \A kind : ~Fault(kind)
    BY TuitionAssumption DEF WTyped, World, TypeOK, Fault
  <1>2. faults = 0 => Alone /\ BookedIsSpent
    BY DEF MoneyInv
  <1>3. ASSUME UNCHANGED <<event, wlocals>>, faults = 0, Booked' + Collected <= Booked + Collected'
        PROVE  Alone' /\ BookedIsSpent'
    <2>1. Alone' /\ Spent' = Spent
      BY <1>2, <1>3 DEF wlocals, Alone, Spent
    <2> QED
      BY <1>2, <1>3, <2>1, SpendsMore
  <1>4. CASE UNCHANGED svars
    <2>1. Booked' = Booked /\ Collected' = Collected /\ UNCHANGED <<event, wlocals, faults>>
      BY <1>4, SameBooked, SameCollected DEF svars, vars, gateway
    <2> QED
      BY <1>3, <2>1, BookedTyped
  <1>5. ASSUME NEW s \in Sessions, CreateSession(s) \/ PollRead(s) \/ PollSave(s)
        PROVE  Alone' /\ BookedIsSpent'
    <2>1. UNCHANGED <<ledger, received, locals>> /\ UNCHANGED <<event, wlocals, faults>>
      BY <1>5 DEF CreateSession, PollRead, PollSave, vars
    <2>2. Booked' = Booked /\ Collected' = Collected
      BY <2>1, SameBooked, SameCollected
    <2> QED
      BY <1>3, <2>1, <2>2, BookedTyped
  <1>6. CASE Next /\ UNCHANGED <<gateway, wlocals>>
    <2>1. Payments' + Collected <= Payments + Collected'
      BY <1>6, RequestsPay DEF WTyped, World
    <2>2. faults = 0
      BY <1>6, NoFaultNext DEF WTyped, World
    <2>3. UNCHANGED received
      BY <1>6 DEF gateway
    <2>4. Booked' + Collected <= Booked + Collected'
      <3>1. Payments' \in Nat
        BY BookedTypedNext
      <3> QED
        BY <2>1, <2>3, <3>1, BookedTyped, BookedTypedNext, SameBeside DEF Booked
    <2> QED
      BY <1>3, <1>6, <2>2, <2>4 DEF gateway
  <1>7. ASSUME NEW w \in Webhooks, Webhook(w) PROVE Alone' /\ BookedIsSpent'
    <2>1. faults = 0
      BY <1>1, <1>7 DEF Webhook, Deliver, SeekSession, ClaimSession, SettleSession, ReleaseSession, EnrollRead,
             EnrollSave, SeekStudent, ClaimStudent, FreshRead, FreshSave, SettleStudent, TakeBack,
             DropRead, DropSave, Mark, WebhookCrash, LedgerFails, vars
    <2> QED
      BY <1>1, <1>2, <1>7, <2>1, DeliveryKinds, PassesMoney, StartsMoney, PaysMoney
  <1>8. ASSUME NEW s \in Sessions, VoidReceived(s) PROVE Alone' /\ BookedIsSpent'
    <2>1. /\ received' = VoidEntry(received, s) /\ received \in [Sessions -> Entry]
          /\ UNCHANGED <<ledger, locals>> /\ UNCHANGED <<event, wlocals, faults>>
      BY <1>8 DEF VoidReceived, vars, WTyped, World
    <2>2. PostedTotal(received', Sessions) <= PostedTotal(received, Sessions)
      BY <2>1, FiniteAssumption, VoidingAddsNothing
    <2>3. Payments' = Payments /\ Collected' = Collected
      BY <2>1, SameCollected DEF Payments
    <2>4. PostedTotal(received', Sessions) \in Nat
      <3>1. received' \in [Sessions -> Entry]
        BY DEF WTyped, World
      <3> QED
        BY <3>1, FiniteAssumption, PostedTotalTyped
    <2>5. Booked' <= Booked
      BY <2>2, <2>3, <2>4, BookedTyped, LessBeside DEF Booked
    <2>6. Booked' + Collected <= Booked + Collected'
      BY <2>3, <2>5, BookedTyped, BookedTypedNext, LessBeside
    <2> QED
      BY <1>3, <2>1, <2>6
  <1> QED
    BY <1>4, <1>5, <1>6, <1>7, <1>8 DEF SePayNext

(* The ledger shows no more payments than money came in: cashier and       *)
(* gateway do not book one payment twice, however their requests and       *)
(* deliveries are interleaved, while nothing fails, nothing is sent again  *)
(* and no heal run books for a payment that is on its way.                 *)
THEOREM NothingIsPaidTwice ==
  ASSUME "heal" \notin Operations
  PROVE  SePaySpec => []NoDoublePayment
  <1>1. SePayInit => NoHeal /\ MoneyInv
    <2> SUFFICES ASSUME SePayInit PROVE NoHeal /\ MoneyInv
      OBVIOUS
    <2>1. NoHeal
      BY DEF SePayInit, Init, NoHeal, HealSteps
    <2>2. Alone
      BY DEF SePayInit, Alone, On
    <2>3. PostedKeys(ledger, PaymentKeys) = {} /\ PostedKeys(received, Sessions) = {}
      BY PaymentsAreKeys DEF SePayInit, Init, PostedKeys, Posted, NoEntry
    <2>4. Payments = 0 /\ PostedTotal(received, Sessions) = 0
      BY <2>3, PostedTotalIsTotal, TotalOfNone DEF Payments
    <2>5. Spent = {} /\ Confirmed = {}
      BY DEF SePayInit, Init, Spent, Spends, Rests, Confirmed
    <2>6. Total(Brought, Spent) = 0 /\ Collected = 0
      BY <2>5, TotalOfNone DEF Collected
    <2>7. BookedIsSpent
      BY <2>4, <2>6 DEF BookedIsSpent, Booked
    <2> QED
      BY <2>1, <2>2, <2>7 DEF MoneyInv
  <1>2. WTyped /\ NoHeal /\ [SePayNext]_svars => NoHeal'
    <2>1. [SePayNext]_svars => [Next]_vars \/ UNCHANGED locals
      BY DEF SePayNext, svars, vars, CreateSession, PollRead, PollSave, VoidReceived, Webhook,
           Deliver, SeekSession, ClaimSession, SettleSession, ReleaseSession, EnrollRead, EnrollSave,
           SeekStudent, ClaimStudent, FreshRead, FreshSave, SettleStudent, TakeBack, DropRead, DropSave,
           Mark, WebhookCrash
    <2> QED
      BY <2>1, NoHealStep DEF WTyped, World, locals, NoHeal
  <1>3. WTyped /\ MoneyInv => NoDoublePayment
    <2> SUFFICES ASSUME WTyped, Alone, BookedIsSpent PROVE Booked <= MoneyIn
      BY DEF MoneyInv, NoDoublePayment
    <2> DEFINE Came == {t \in Transfers : event[t].state # "none"}
    <2>1. Spent \in SUBSET Came
      <3>1. ASSUME NEW t \in Transfers, NEW w \in Webhooks, Spends(wpc[w], warg[w], t)
            PROVE  event[t].state = "open"
        BY <3>1, RestsAreSteps DEF Alone
      <3> QED
        BY <3>1 DEF Spent
    <2>2. IsFiniteSet(Came) /\ \A t \in Came : Brought[t] \in Nat
      <3>1. Came \in SUBSET Transfers
        OBVIOUS
      <3> QED
        BY <3>1, FiniteAssumption, FS_Subset, SpentFinite
    <2>3. MoneyIn = Total(Brought, Came) + Collected
      <3>1. MapThenSumSet(LAMBDA t : TransferOf[t].amount, Came) = Total(Brought, Came)
        BY DEF Total, Brought, MapThenSumSet, MapThenFoldSet
      <3>2. MapThenSumSet(LAMBDA r : arg[r].amt, Confirmed) = Collected
        BY DEF Collected, Total, Asks, Confirmed, MapThenSumSet, MapThenFoldSet
      <3> QED
        BY <3>1, <3>2 DEF MoneyIn, Confirmed
    <2> HIDE DEF Came
    <2>4. \A t \in Spent : Brought[t] \in Nat /\ Brought[t] <= Brought[t]
      BY SpentFinite
    <2>5. Total(Brought, Spent) <= Total(Brought, Came) /\ Total(Brought, Came) \in Nat
      BY <2>1, <2>2, <2>4, TotalLess, TotalTyped
    <2> QED
      BY <2>3, <2>5, BookedTyped, SpentFinite DEF BookedIsSpent
  <1> QED
    BY <1>1, <1>2, <1>3, MoneyStep, WTypedInit, WTypedStep, PTL DEF SePaySpec

-----------------------------------------------------------------------------
(* No two matched transfers rest on one payment of the student.  The claim *)
(* { paid: false } -> { paid: true } on the root is a lock: one request or *)
(* delivery holds it, gives it back only with its own rollback, and a      *)
(* transfer that was matched keeps it for good.  Requests that make the    *)
(* root unpaid or an enrollment paid behind that lock break it: so do      *)
(* refunds, cancellations and PUT /enrollments/:id/pay.                    *)
Unlinked   == \A s \in Sessions : ~SessionOf[s].linked
WritesHold == FaultKinds \cap {"ledger", "lostReply", "hookLedger", "hookLostReply"} = {}

Claiming == {"paySave", "paySettle", "payUndo"}
Plain    == {"new", "payClaim", "addSave", "healCheck", "healPost"} \cup Outcomes

HasClaim(p, a) == p \in {"settleStudent", "takeBack"} \/ (p = "mark" /\ a.s = 0)
OfStudent(ev)  == ev.state = "matched" /\ ev.key \notin SessionKeys

Cashiers == {r \in Requests : pc[r] \in Claiming}
Couriers == {w \in Webhooks : HasClaim(wpc[w], warg[w])}
Served   == {t \in Transfers : OfStudent(event[t])}

(* Requests and deliveries stay at some of the steps: a root that is       *)
(* unpaid has an enrollment to attach the payment to, none is made for it. *)
Fresh == {"freshRead", "freshSave", "dropRead", "dropSave"}

Stays(p, a) ==
  /\ p \in Claiming \cup Plain
  /\ a.op # "addPaid"
  /\ p = "addSave" => a.amt = 0

Attaches(p, a) ==
  /\ p \notin Fresh /\ ~a.fresh
  /\ Unlinked => p \notin {"enrollRead", "enrollSave"}

StepsInv ==
  /\ \A r \in Requests : Stays(pc[r], arg[r])
  /\ \A w \in Webhooks : Attaches(wpc[w], warg[w])

(* The lock has one holder, and while it is held the root is paid.         *)
Lock(R, W, T, paid) ==
  /\ \A q, r \in R : q = r
  /\ \A v, w \in W : v = w
  /\ \A t, u \in T : t = u
  /\ R = {} \/ (W = {} /\ T = {})
  /\ W = {} \/ T = {}
  /\ (R # {} \/ W # {} \/ T # {}) => paid

ClaimInv == Lock(Cashiers, Couriers, Served, doc.paid)

(* Every list of enrollments has a primary one and none that was closed;   *)
(* while the root is unpaid, so is one of the enrollments.                 *)
Led(list) ==
  /\ \A e \in Slots : list[e].status \in {"absent", "pending_payment", "active"}
  /\ \E e \in Slots : list[e].primary /\ list[e].status # "absent"
Due(list) == \E e \in Slots : list[e].status \in {"pending_payment", "active"} /\ ~list[e].paid

LedInv ==
  /\ Led(doc.enr) /\ (~doc.paid => Due(doc.enr))
  /\ \A r \in Requests : Led(snap[r].enr)
  /\ \A w \in Webhooks : Led(wsnap[w].enr)

(* While no ledger write fails, no claim is taken back: the first one to   *)
(* claim the root finds the keys of its payment free, and nobody claims it *)
(* after.                                                                  *)
Unsettled ==
  \/ \E r \in Requests : pc[r] \in {"paySave", "paySettle"}
  \/ \E w \in Webhooks : wpc[w] = "settleStudent"

NoneBooked(book) == \A e \in Slots : Free(book, <<"pay", e>>)

StaysInv == WritesHold =>
  /\ \A r \in Requests : pc[r] # "payUndo"
  /\ \A w \in Webhooks : wpc[w] # "takeBack"
  /\ \A w \in Webhooks : wpc[w] = "enrollSave" /\ wsnap[w].paid => doc.paid
  /\ (doc.paid /\ ~Unsettled) \/ NoneBooked(ledger)

LockInv == StepsInv /\ ClaimInv /\ LedInv /\ StaysInv

LEMMA LockFewer ==
  ASSUME NEW R, NEW W, NEW T, NEW p, Lock(R, W, T, p),
         NEW R2 \in SUBSET R, NEW W2 \in SUBSET W, NEW T2 \in SUBSET T, NEW p2, p => p2
  PROVE  Lock(R2, W2, T2, p2)
  BY DEF Lock

LEMMA LockTaken ==
  ASSUME NEW R, NEW W, NEW T, NEW p, Lock(R, W, T, p), ~p
  PROVE  R = {} /\ W = {} /\ T = {}
  BY DEF Lock

(* Where the holders go.                                                   *)
LEMMA CashiersMove ==
  ASSUME TypeOK, NEW r \in Requests, NEW p, Goto(r, p)
  PROVE  /\ Cashiers' = IF p \in Claiming THEN Cashiers \cup {r} ELSE Cashiers \ {r}
         /\ pc'[r] = p /\ \A q \in Requests \ {r} : pc'[q] = pc[q]
  <1>1. pc'[r] = p /\ \A q \in Requests \ {r} : pc'[q] = pc[q]
    BY DEF TypeOK, Goto
  <1> QED
    BY <1>1 DEF Cashiers

LEMMA HoldersStay ==
  /\ UNCHANGED pc => Cashiers' = Cashiers
  /\ UNCHANGED wlocals => Couriers' = Couriers
  /\ UNCHANGED event => Served' = Served
  BY DEF Cashiers, Couriers, Served, wlocals

(* The operations in play.                                                 *)
LEMMA RequestKinds ==
  ASSUME Operations \subseteq {"pay", "add", "heal"}, StepsInv,
         NEW r \in Requests, Begin(r) \/ Continue(r) \/ Crash(r)
  PROVE  \/ PayRead(r) \/ PayClaim(r) \/ PaySave(r) \/ PaySettle(r) \/ PayUndo(r)
         \/ (\E c \in Courses : AddRead(r, c, "add")) \/ AddSave(r)
         \/ HealRead(r) \/ HealCheck(r) \/ HealPost(r) \/ Crash(r)
  <1>1. pc[r] \in Claiming \cup Plain
    BY DEF StepsInv, Stays
  <1>2. /\ ~EnrRead(r) /\ ~EnrSave(r) /\ ~EnrSettle(r) /\ ~Undo(r) /\ ~AddSettle(r)
        /\ ~PostRefund(r) /\ ~CountNotes(r) /\ ~IssueNote(r) /\ ~VoidRefund(r) /\ ~CancelSave(r)
        /\ ~RefundFill(r) /\ ~RefundClaim(r) /\ ~RefundSave(r) /\ ~RefundRestore(r)
    BY <1>1 DEF Claiming, Plain, Outcomes, EnrRead, EnrSave, EnrSettle, Undo, AddSettle, PostRefund,
       CountNotes, IssueNote, VoidRefund, CancelSave, RefundFill, RefundClaim, RefundSave, RefundRestore
  <1>3. /\ \A e \in Slots : ~EnrClaim(r, e)
        /\ \A c \in Courses : ~AddRead(r, c, "addPaid")
        /\ \A e \in Slots, amt \in Amounts : ~CancelRead(r, e, amt)
        /\ \A amt \in Amounts \ {0}, id \in RefundIds : ~RefundRead(r, amt, id)
    BY DEF EnrClaim, AddRead, CancelRead, RefundRead, Arrive
  <1> QED
    BY <1>2, <1>3 DEF Begin, Continue

(* A request that holds no claim afterwards and leaves document and        *)
(* payments alone.                                                         *)
Idles(r) ==
  /\ UNCHANGED doc
  /\ \E p \in Plain : Goto(r, p)
  /\ \E d \in {snap[r], doc, NewDoc} : Keep(r, d)
  /\ \A e \in Slots : ledger'[<<"pay", e>>] = ledger[<<"pay", e>>]

LEMMA IdleSteps ==
  ASSUME TypeOK, NEW r \in Requests,
         \/ PayRead(r) \/ (PayClaim(r) /\ doc.paid) \/ (PaySave(r) /\ doc.v # snap[r].v)
         \/ (\E c \in Courses : AddRead(r, c, "add"))
         \/ HealRead(r) \/ HealCheck(r) \/ HealPost(r) \/ Crash(r)
  PROVE  Idles(r)
  <1>0. /\ snap = [snap EXCEPT ![r] = snap[r]] /\ pc = [pc EXCEPT ![r] = pc[r]]
        /\ {"new", "payClaim", "addSave", "healCheck", "healPost", "ok", "failed", "refused", "dead"} \subseteq Plain
    BY DEF TypeOK, Plain, Outcomes
  <1>1. CASE PayRead(r)
    BY <1>0, <1>1 DEF PayRead, Refuse, End, Idles, Keep, Goto
  <1>2. CASE PayClaim(r) /\ doc.paid
    BY <1>0, <1>2 DEF PayClaim, Refuse, End, Idles, Keep, Goto
  <1>3. CASE PaySave(r) /\ doc.v # snap[r].v
    BY <1>0, <1>3 DEF PaySave, End, Idles, Keep, Goto
  <1>4. CASE \E c \in Courses : AddRead(r, c, "add")
    BY <1>0, <1>4 DEF AddRead, Refuse, End, Idles, Keep, Goto
  <1>5. CASE HealRead(r) \/ HealCheck(r) \/ Crash(r)
    BY <1>0, <1>5 DEF HealRead, HealCheck, Crash, End, Idles, Keep, Goto
  <1>6. CASE HealPost(r)
    <2>1. \A e \in Slots : ledger'[<<"pay", e>>] = ledger[<<"pay", e>>]
      <3>1. \A i, n : \A e \in Slots :
              PostEntry(ledger, <<"heal", i>>, n)[<<"pay", e>>] = ledger[<<"pay", e>>]
        <4>1. \A i, e : <<"heal", i>> # <<"pay", e>>
          OBVIOUS
        <4>2. \A e \in Slots : <<"pay", e>> \in Keys
          BY DEF Keys
        <4> QED
          BY <4>1, <4>2 DEF PostEntry, TypeOK
      <3>2. UNCHANGED ledger \/ \E i, n : ledger' = PostEntry(ledger, <<"heal", i>>, n)
        BY <1>6 DEF HealPost
      <3> QED
        BY <3>1, <3>2
    <2>2. (\E p \in Plain : Goto(r, p)) /\ (\E d \in {snap[r], doc, NewDoc} : Keep(r, d)) /\ UNCHANGED doc
      BY <1>0, <1>6 DEF HealPost, End, Keep, Goto
    <2> QED
      BY <2>1, <2>2 DEF Idles
  <1> QED
    BY <1>1, <1>2, <1>3, <1>4, <1>5, <1>6

-----------------------------------------------------------------------------
(* A delivery that neither takes nor passes on a claim.                    *)
WIdles(w) ==
  /\ UNCHANGED <<doc, ledger, locals>>
  /\ \A v \in Webhooks \ {w} : wpc'[v] = wpc[v] /\ warg'[v] = warg[v] /\ wsnap'[v] = wsnap[v]
  /\ wpc'[w] \notin {"settleStudent", "takeBack"} /\ (wpc'[w] = "mark" => warg'[w].s # 0)
  /\ wsnap'[w] \in {wsnap[w], doc, NewDoc} /\ (wpc'[w] = "enrollSave" => wsnap'[w] = doc)
  /\ \A t \in Transfers : OfStudent(event'[t]) => OfStudent(event[t])

LEMMA Carried ==
  ASSUME WTyped, NEW w \in Webhooks
  PROVE  /\ wpc \in [Webhooks -> WPlaces] /\ warg \in [Webhooks -> WArgs]
         /\ wsnap \in [Webhooks -> Document] /\ warg[w] \in WArgs
         /\ (wpc[w] \in Asked => warg[w].s # 0)
         /\ (wpc[w] \notin Asked \cup {"mark"} => warg[w].s = 0)
         /\ (wpc[w] \in WSteps => warg[w].t \in Transfers)
  BY SessionsPositive DEF WTyped, World, Deliveries, Suits

LEMMA WIdleSteps ==
  ASSUME WTyped, StepsInv, NEW w \in Webhooks,
         \/ \E t \in Transfers : Deliver(w, t)
         \/ SeekSession(w) \/ ClaimSession(w) \/ SettleSession(w) \/ ReleaseSession(w)
         \/ EnrollRead(w) \/ SeekStudent(w) \/ (ClaimStudent(w) /\ doc.paid) \/ WebhookCrash(w)
  PROVE  WIdles(w)
  <1>0. /\ wpc \in [Webhooks -> WPlaces] /\ warg \in [Webhooks -> WArgs] /\ wsnap \in [Webhooks -> Document]
        /\ (wpc[w] \in Asked => warg[w].s # 0)
    BY Carried
  <1> USE DEF WGoto, WKeep, WEnd, ToStudent
  <1>1. ASSUME NEW t \in Transfers, Deliver(w, t) PROVE WIdles(w)
    <2>1. \A u \in Transfers : OfStudent(event'[u]) => OfStudent(event[u])
      <3>1. \A u \in Transfers : event'[u].key = event[u].key
                                 /\ (event'[u].state = "matched" => event[u].state = "matched")
        BY <1>1 DEF Deliver, WTyped, World
      <3> QED
        BY <3>1 DEF OfStudent
    <2>2. /\ UNCHANGED <<doc, ledger, locals>>
          /\ \A v \in Webhooks \ {w} : wpc'[v] = wpc[v] /\ warg'[v] = warg[v] /\ wsnap'[v] = wsnap[v]
          /\ wpc'[w] \in {"duplicate", "seekSession"}
          /\ wsnap'[w] \in {wsnap[w], NewDoc}
      BY <1>0, <1>1 DEF Deliver
    <2> QED
      BY <2>1, <2>2 DEF WIdles
  <1>2. CASE SeekSession(w) \/ ClaimSession(w) \/ ReleaseSession(w)
    <2>1. /\ UNCHANGED <<doc, ledger, locals, event, wsnap>>
          /\ \A v \in Webhooks \ {w} : wpc'[v] = wpc[v] /\ warg'[v] = warg[v]
          /\ wpc'[w] \in {"seekStudent", "claimSession", "settleSession"}
      BY <1>0, <1>2 DEF SeekSession, ClaimSession, ReleaseSession, vars, gateway
    <2> QED
      BY <2>1 DEF WIdles
  <1>3. CASE SettleSession(w)
    <2>1. /\ UNCHANGED <<doc, ledger, locals, event, wsnap, warg>>
          /\ \A v \in Webhooks \ {w} : wpc'[v] = wpc[v]
          /\ wpc'[w] \in {"enrollRead", "mark", "releaseSession"} /\ warg[w].s # 0
      BY <1>0, <1>3 DEF SettleSession, Asked
    <2> QED
      BY <2>1 DEF WIdles
  <1>4. CASE EnrollRead(w)
    <2>1. /\ UNCHANGED <<doc, ledger, locals, event, warg>>
          /\ \A v \in Webhooks \ {w} : wpc'[v] = wpc[v] /\ wsnap'[v] = wsnap[v]
          /\ wpc'[w] = "enrollSave" /\ wsnap'[w] = doc
      BY <1>0, <1>4 DEF EnrollRead, vars, gateway
    <2> QED
      BY <2>1 DEF WIdles
  <1>5. CASE SeekStudent(w)
    <2>1. /\ UNCHANGED <<doc, ledger, locals, event>>
          /\ \A v \in Webhooks \ {w} : wpc'[v] = wpc[v] /\ warg'[v] = warg[v] /\ wsnap'[v] = wsnap[v]
          /\ wpc'[w] \in {"unmatched", "freshRead", "claimStudent"} /\ wsnap'[w] \in {wsnap[w], NewDoc}
      BY <1>0, <1>5 DEF SeekStudent, vars, gateway
    <2> QED
      BY <2>1 DEF WIdles
  <1>6. CASE (ClaimStudent(w) /\ doc.paid) \/ WebhookCrash(w)
    <2>1. /\ UNCHANGED <<doc, ledger, locals, event>>
          /\ \A v \in Webhooks \ {w} : wpc'[v] = wpc[v] /\ warg'[v] = warg[v] /\ wsnap'[v] = wsnap[v]
          /\ wpc'[w] \in {"unmatched", "dead"} /\ wsnap'[w] \in {wsnap[w], NewDoc}
      BY <1>0, <1>6 DEF ClaimStudent, WebhookCrash, gateway
    <2> QED
      BY <2>1 DEF WIdles
  <1> QED
    BY <1>1, <1>2, <1>3, <1>4, <1>5, <1>6

(* The deliveries not at one of these steps: a claim is taken, settled,    *)
(* taken back or passed on to the transfer, or a session is enrolled.      *)
LEMMA WebhookLocks ==
  ASSUME StepsInv, NEW w \in Webhooks, Webhook(w)
  PROVE  \/ \E t \in Transfers : Deliver(w, t)
         \/ SeekSession(w) \/ ClaimSession(w) \/ SettleSession(w) \/ ReleaseSession(w)
         \/ EnrollRead(w) \/ SeekStudent(w) \/ ClaimStudent(w) \/ WebhookCrash(w)
         \/ EnrollSave(w) \/ SettleStudent(w) \/ TakeBack(w) \/ Mark(w)
  BY DEF StepsInv, Attaches, Fresh, Webhook, FreshRead, FreshSave, DropRead, DropSave

(* A session is created or expires: nothing of the student changes.        *)
LEMMA NoVoids ==
  ASSUME Operations \subseteq {"pay", "add", "heal"}
  PROVE  (\A k \in Keys : ~LedgerVoid(k)) /\ (\A s \in Sessions : ~VoidReceived(s))
  BY DEF LedgerVoid, VoidReceived

LEMMA SessionsApart ==
  ASSUME NEW s \in Sessions, CreateSession(s) \/ PollRead(s) \/ PollSave(s)
  PROVE  UNCHANGED <<doc, ledger, locals, event, wlocals>>
  BY DEF CreateSession, PollRead, PollSave, vars

-----------------------------------------------------------------------------
(* Where requests and deliveries stay.                                     *)
LEMMA RequestStays ==
  ASSUME Operations \subseteq {"pay", "add", "heal"}, TypeOK, StepsInv,
         NEW r \in Requests, Begin(r) \/ Continue(r) \/ Crash(r)
  PROVE  \A q \in Requests : Stays(pc'[q], arg'[q])
  <1>0. /\ pc \in [Requests -> {"new"} \cup Steps \cup Outcomes] /\ arg \in [Requests -> Argument]
        /\ arg[r] \in Argument /\ Stays(pc[r], arg[r])
    BY DEF TypeOK, StepsInv
  <1>1. SUFFICES ASSUME TRUE
                 PROVE  /\ \A q \in Requests \ {r} : pc'[q] = pc[q] /\ arg'[q] = arg[q]
                        /\ Stays(pc'[r], arg'[r])
    BY DEF StepsInv
  <1> USE <1>0 DEF Goto, Argument, NoArg, Claiming, Plain, Outcomes, Stays
  <1>2. CASE PayRead(r)
    <2>1. \A n : [NoArg EXCEPT !.op = "pay", !.amt = n].op = "pay"
      OBVIOUS
    <2> HIDE DEF NoArg
    <2>2. Refuse(r) \/ \E a : a.op = "pay" /\ Goto(r, "payClaim") /\ arg' = [arg EXCEPT ![r] = a]
      BY <1>2, <2>1 DEF PayRead
    <2>3. NoArg.op = "none"
      BY DEF NoArg
    <2> QED
      BY <2>2, <2>3 DEF Refuse, End
  <1>8. CASE HealRead(r)
    BY <1>8 DEF HealRead
  <1>3. CASE PayClaim(r) \/ PaySave(r) \/ PayUndo(r)
    BY <1>3 DEF PayClaim, PaySave, PayUndo, Refuse, End
  <1>4. CASE PaySettle(r)
    BY <1>4 DEF PaySettle, Settle, End
  <1>5. ASSUME NEW c \in Courses, AddRead(r, c, "add")
        PROVE  /\ \A q \in Requests \ {r} : pc'[q] = pc[q] /\ arg'[q] = arg[q]
               /\ Stays(pc'[r], arg'[r])
    <2>1. LET a == [NoArg EXCEPT !.op = "add", !.course = c, !.amt = 0]
          IN  a.op = "add" /\ a.amt = 0
      OBVIOUS
    <2> HIDE DEF NoArg
    <2>2. Refuse(r) \/ \E a : /\ a.op = "add" /\ a.amt = 0
                              /\ Goto(r, "addSave") /\ arg' = [arg EXCEPT ![r] = a]
      BY <1>5, <2>1 DEF AddRead
    <2>3. NoArg.op = "none"
      BY DEF NoArg
    <2> QED
      BY <2>2, <2>3 DEF Refuse, End
  <1>6. CASE AddSave(r)
    BY <1>6 DEF AddSave, End
  <1>7. CASE HealCheck(r) \/ HealPost(r) \/ Crash(r)
    BY <1>7 DEF HealCheck, HealPost, Crash, End
  <1> QED
    BY <1>2, <1>3, <1>4, <1>5, <1>6, <1>7, <1>8, RequestKinds

LEMMA UnpaidIsDue ==
  ASSUME Due(doc.enr)
  PROVE  {e \in InEffect(doc) : ~doc.enr[e].paid} # {}
  BY DEF Due, InEffect, Present

LEMMA WebhookStays ==
  ASSUME WTyped, StepsInv, LedInv, NEW w \in Webhooks, Webhook(w)
  PROVE  \A v \in Webhooks : Attaches(wpc'[v], warg'[v])
  <1>0. /\ wpc \in [Webhooks -> WPlaces] /\ warg \in [Webhooks -> WArgs] /\ warg[w] \in WArgs
        /\ Attaches(wpc[w], warg[w])
    BY Carried DEF StepsInv
  <1>1. SUFFICES ASSUME TRUE
                 PROVE  /\ \A v \in Webhooks \ {w} : wpc'[v] = wpc[v] /\ warg'[v] = warg[v]
                        /\ Attaches(wpc'[w], warg'[w])
    BY DEF StepsInv
  <1>2. \A v \in Webhooks \ {w} : wpc'[v] = wpc[v] /\ warg'[v] = warg[v]
    BY WebhookTyped, WMoved DEF Typed, WGoes
  <1> USE <1>0 DEF WGoto, WEnd, ToStudent, NoWArg, WArgs, Fresh, Attaches
  <1>3. ASSUME NEW t \in Transfers, Deliver(w, t) PROVE Attaches(wpc'[w], warg'[w])
    BY <1>3 DEF Deliver
  <1>4. CASE SeekSession(w) \/ ClaimSession(w) \/ ReleaseSession(w)
    BY <1>4 DEF SeekSession, ClaimSession, ReleaseSession
  <1>5. CASE SettleSession(w)
    <2>1. warg[w].s \in Sessions
      BY <1>5 DEF SettleSession, WTyped, Deliveries, Suits, Asked
    <2> QED
      BY <1>5, <2>1 DEF SettleSession, Unlinked
  <1>6. CASE EnrollRead(w) \/ EnrollSave(w)
    BY <1>6 DEF EnrollRead, EnrollSave
  <1>7. CASE SeekStudent(w)
    <2> DEFINE unpaid == {e \in InEffect(doc) : ~doc.enr[e].paid}
    <2>1. WEnd(w, "unmatched")
          \/ (/\ ~doc.paid /\ wpc' = [wpc EXCEPT ![w] = IF unpaid = {} THEN "freshRead" ELSE "claimStudent"]
              /\ \E n : warg' = [warg EXCEPT ![w].fresh = (unpaid = {}), ![w].e = n])
      BY <1>7 DEF SeekStudent
    <2>2. ~doc.paid => unpaid # {}
      BY UnpaidIsDue DEF LedInv
    <2> HIDE DEF unpaid
    <2> QED
      BY <2>1, <2>2
  <1>8. CASE ClaimStudent(w) \/ SettleStudent(w)
    BY <1>8 DEF ClaimStudent, SettleStudent
  <1>9. CASE TakeBack(w) \/ Mark(w) \/ WebhookCrash(w)
    BY <1>9 DEF TakeBack, Mark, WebhookCrash
  <1> QED
    BY <1>2, <1>3, <1>4, <1>5, <1>6, <1>7, <1>8, <1>9, WebhookLocks

LEMMA StepsStep ==
  ASSUME Operations \subseteq {"pay", "add", "heal"}, WTyped, StepsInv, LedInv, [SePayNext]_svars
  PROVE  StepsInv'
  <1>1. CASE UNCHANGED locals /\ UNCHANGED wlocals
    BY <1>1 DEF StepsInv, locals, wlocals
  <1>2. CASE UNCHANGED locals /\ \E w \in Webhooks : Webhook(w)
    BY <1>2, WebhookStays DEF StepsInv, locals
  <1>3. ASSUME NEW r \in Requests, Begin(r) \/ Continue(r) \/ Crash(r), UNCHANGED wlocals
        PROVE  StepsInv'
    BY <1>3, RequestStays DEF StepsInv, wlocals, WTyped, World
  <1>4. ASSUME NEW w \in Webhooks, Webhook(w) PROVE UNCHANGED locals
    BY <1>4 DEF Webhook, Deliver, SeekSession, ClaimSession, SettleSession, ReleaseSession,
       EnrollRead, EnrollSave, SeekStudent, ClaimStudent, FreshRead, FreshSave, SettleStudent,
       TakeBack, DropRead, DropSave, Mark, WebhookCrash, vars
  <1> QED
    BY <1>1, <1>2, <1>3, <1>4, SessionsApart, NoVoids DEF SePayNext, Next, svars, vars

-----------------------------------------------------------------------------
(* The lock.                                                               *)
LEMMA RequestLocks ==
  ASSUME Operations \subseteq {"pay", "add", "heal"}, TypeOK, StepsInv, ClaimInv, NEW r \in Requests,
         Begin(r) \/ Continue(r) \/ Crash(r), UNCHANGED <<event, wlocals>>
  PROVE  ClaimInv'
  <1>0. Couriers' = Couriers /\ Served' = Served
    BY HoldersStay
  <1>1. CASE Idles(r)
    <2>1. Cashiers' \in SUBSET Cashiers /\ doc' = doc
      BY <1>1, CashiersMove DEF Idles, Plain, Claiming, Outcomes
    <2> QED
      BY <1>0, <2>1, LockFewer DEF ClaimInv
  <1>2. CASE PayClaim(r) /\ ~doc.paid
    <2>1. Goto(r, "paySave") /\ doc'.paid
      BY <1>2 DEF PayClaim, TypeOK, Document
    <2>2. Cashiers = {} /\ Couriers = {} /\ Served = {}
      BY <1>2, LockTaken DEF ClaimInv
    <2>3. Cashiers' = {r}
      BY <2>1, <2>2, CashiersMove DEF Claiming
    <2> QED
      BY <1>0, <2>1, <2>2, <2>3 DEF ClaimInv, Lock
  <1>3. CASE PaySave(r) /\ doc.v = snap[r].v
    <2>1. r \in Cashiers /\ Goto(r, "paySettle")
      BY <1>3 DEF PaySave, Cashiers, Claiming
    <2>2. Cashiers' = Cashiers
      BY <2>1, CashiersMove DEF Claiming
    <2>3. doc'.paid = doc.paid
      BY <1>3 DEF PaySave, PaidCopy, WholeSave, Scalars, TypeOK, Document
    <2> QED
      BY <1>0, <2>2, <2>3 DEF ClaimInv
  <1>4. CASE PaySettle(r)
    <2>1. UNCHANGED doc /\ r \in Cashiers /\ \E p : Goto(r, p)
      BY <1>4 DEF PaySettle, Settle, End, Cashiers, Claiming
    <2>2. Cashiers' \in SUBSET Cashiers
      BY <2>1, CashiersMove
    <2> QED
      BY <1>0, <2>1, <2>2, LockFewer DEF ClaimInv
  <1>5. CASE PayUndo(r)
    <2>1. r \in Cashiers /\ Goto(r, "failed")
      BY <1>5 DEF PayUndo, End, Cashiers, Claiming
    <2>2. Couriers = {} /\ Served = {} /\ \A q \in Cashiers : q = r
      BY <2>1 DEF ClaimInv, Lock
    <2>3. Cashiers' = {}
      BY <2>1, <2>2, CashiersMove DEF Claiming
    <2> QED
      BY <1>0, <2>2, <2>3 DEF ClaimInv, Lock
  <1>6. CASE AddSave(r)
    <2>1. arg[r].amt = 0 /\ Goto(r, "ok")
      BY <1>6 DEF AddSave, StepsInv, Stays, End
    <2>2. Cashiers' \in SUBSET Cashiers
      BY <2>1, CashiersMove DEF Claiming
    <2>3. doc'.paid = doc.paid
      <3>1. \A new, e : AddedCopy(snap[r], e, new, 0).paid = snap[r].paid
        BY DEF AddedCopy, TypeOK, Document
      <3>2. \A copy, x, n : copy.paid = snap[r].paid
              => [Scalars(snap[r], copy) EXCEPT !.enr = x, !.v = n].paid = doc.paid
        BY DEF Scalars, TypeOK, Document
      <3>3. \E copy, x, n : copy.paid = snap[r].paid
              /\ doc' = [Scalars(snap[r], copy) EXCEPT !.enr = x, !.v = n]
        <4> DEFINE e   == Min(Slots \ Present(doc))
                   new == Registration(arg[r].course, arg[r].op = "addPaid")
                   copy == AddedCopy(snap[r], e, new, arg[r].amt)
        <4>1. doc' = [Scalars(snap[r], copy) EXCEPT !.enr = [@ EXCEPT ![e] = new], !.v = @ + 1]
          BY <1>6 DEF AddSave
        <4>2. copy.paid = snap[r].paid
          BY <2>1, <3>1
        <4> HIDE DEF e, new, copy
        <4> QED
          BY <4>1, <4>2
      <3> QED
        BY <3>2, <3>3
    <2> QED
      BY <1>0, <2>2, <2>3, LockFewer DEF ClaimInv
  <1> QED
    BY <1>1, <1>2, <1>3, <1>4, <1>5, <1>6, RequestKinds, IdleSteps

LEMMA DeliveryLocks ==
  ASSUME WTyped, StepsInv, ClaimInv, NEW w \in Webhooks, Webhook(w)
  PROVE  ClaimInv'
  <1>0. /\ \A v \in Webhooks \ {w} : wpc'[v] = wpc[v] /\ warg'[v] = warg[v]
        /\ wpc \in [Webhooks -> WPlaces] /\ warg \in [Webhooks -> WArgs]
        /\ (wpc[w] \in Asked => warg[w].s # 0)
        /\ (wpc[w] \notin Asked \cup {"mark"} => warg[w].s = 0)
        /\ (wpc[w] \in WSteps => warg[w].t \in Transfers)
    BY WebhookTyped, WMoved, Carried DEF Typed, WGoes
  <1>t. event \in [Transfers -> [state : {"none", "open", "matched"},
                                 key : SessionKeys \cup Keys \cup {NoKey}]]
    BY DEF WTyped, World
  <1>m. Couriers' = IF HasClaim(wpc'[w], warg'[w]) THEN Couriers \cup {w} ELSE Couriers \ {w}
    BY <1>0 DEF Couriers
  <1>r. Cashiers' = Cashiers
    <2>1. UNCHANGED pc
      BY DEF Webhook, Deliver, SeekSession, ClaimSession, SettleSession, ReleaseSession,
       EnrollRead, EnrollSave, SeekStudent, ClaimStudent, FreshRead, FreshSave, SettleStudent,
       TakeBack, DropRead, DropSave, Mark, WebhookCrash, vars, locals
    <2> QED
      BY <2>1, HoldersStay
  <1> USE DEF WGoto, WEnd
  <1>1. CASE WIdles(w)
    <2>1. Couriers' \in SUBSET Couriers
      BY <1>1, <1>m DEF WIdles, HasClaim
    <2>2. Served' \in SUBSET Served /\ doc' = doc
      BY <1>1 DEF WIdles, Served
    <2> QED
      BY <1>r, <2>1, <2>2, LockFewer DEF ClaimInv
  <1>2. CASE EnrollSave(w)
    <2>1. Couriers' \in SUBSET Couriers /\ Served' = Served
      BY <1>0, <1>2, <1>m, HoldersStay DEF EnrollSave, HasClaim, Asked, gateway
    <2>2. doc.paid => doc'.paid
      <3>1. doc \in Document /\ wsnap[w] \in Document
        BY DEF WTyped, World, TypeOK
      <3>2. \A e, c : ReEnrolled(wsnap[w], e, c).paid
        BY <3>1 DEF ReEnrolled, Document
      <3>3. \A copy : copy.paid /\ doc.paid => WholeSave(wsnap[w], copy).paid
        BY <3>1 DEF WholeSave, Scalars, Document
      <3> QED
        BY <1>2, <3>2, <3>3 DEF EnrollSave
    <2> QED
      BY <1>r, <2>1, <2>2, LockFewer DEF ClaimInv
  <1>3. CASE ClaimStudent(w) /\ ~doc.paid
    <2>1. doc'.paid /\ UNCHANGED event
      BY <1>3 DEF ClaimStudent, gateway, WTyped, World, TypeOK, Document
    <2>2. Cashiers = {} /\ Couriers = {} /\ Served = {}
      BY <1>3, LockTaken DEF ClaimInv
    <2>3. Couriers' \in SUBSET {w} /\ Served' = {}
      BY <1>m, <2>1, <2>2, HoldersStay
    <2> QED
      BY <1>r, <2>1, <2>2, <2>3 DEF ClaimInv, Lock
  <1>4. CASE SettleStudent(w)
    <2>1. w \in Couriers /\ UNCHANGED doc /\ Served' = Served
      BY <1>4, HoldersStay DEF SettleStudent, Couriers, HasClaim, gateway
    <2>2. Couriers' \in SUBSET Couriers
      BY <1>m, <2>1
    <2> QED
      BY <1>r, <2>1, <2>2, LockFewer DEF ClaimInv
  <1>5. CASE TakeBack(w)
    <2>1. w \in Couriers /\ wpc'[w] = "unmatched" /\ Served' = Served
      BY <1>0, <1>5, HoldersStay DEF TakeBack, Couriers, HasClaim, gateway
    <2>2. Cashiers = {} /\ Served = {} /\ \A v \in Couriers : v = w
      BY <2>1 DEF ClaimInv, Lock
    <2>3. Couriers' = {}
      BY <1>m, <2>1, <2>2 DEF HasClaim
    <2> QED
      BY <1>r, <2>1, <2>2, <2>3 DEF ClaimInv, Lock
  <1>6. CASE Mark(w)
    <2> DEFINE k == IF warg[w].s # 0 THEN <<"session", warg[w].s>> ELSE StudentKey(w)
    <2>1. /\ wpc[w] = "mark" /\ wpc'[w] = "matched" /\ UNCHANGED doc
          /\ event' = [event EXCEPT ![warg[w].t] = [state |-> "matched", key |-> k]]
      BY <1>0, <1>6 DEF Mark, vars
    <2>2. Couriers' = Couriers \ {w}
      BY <1>m, <2>1 DEF HasClaim
    <2>3. CASE warg[w].s # 0
      <3>1. k \in SessionKeys
        BY <1>0, <2>3 DEF SessionKeys, WArgs
      <3> HIDE DEF k
      <3>2. \A t \in Transfers : OfStudent(event'[t]) => OfStudent(event[t])
        BY <1>t, <2>1, <3>1 DEF OfStudent
      <3>3. Served' \in SUBSET Served
        BY <3>2 DEF Served
      <3> QED
        BY <1>r, <2>1, <2>2, <3>3, LockFewer DEF ClaimInv
    <2>4. CASE warg[w].s = 0
      <3>1. w \in Couriers
        BY <2>1, <2>4 DEF Couriers, HasClaim
      <3>2. Cashiers = {} /\ Served = {} /\ doc.paid /\ \A v \in Couriers : v = w
        BY <3>1 DEF ClaimInv, Lock
      <3>3. PICK x \in Transfers : x = warg[w].t
        BY <1>0, <2>1 DEF WSteps
      <3> HIDE DEF k
      <3>4. Served' \in SUBSET {x}
        <4>1. \A t \in Transfers \ {x} : event'[t] = event[t]
          BY <1>t, <2>1, <3>3
        <4> QED
          BY <3>2, <4>1 DEF Served
      <3>5. Couriers' = {}
        BY <2>2, <3>2
      <3> QED
        BY <1>r, <2>1, <3>2, <3>4, <3>5 DEF ClaimInv, Lock
    <2> QED
      BY <2>3, <2>4
  <1> QED
    BY <1>1, <1>2, <1>3, <1>4, <1>5, <1>6, WebhookLocks, WIdleSteps

LEMMA ClaimStep ==
  ASSUME Operations \subseteq {"pay", "add", "heal"}, WTyped, StepsInv, ClaimInv, [SePayNext]_svars
  PROVE  ClaimInv'
  <1>1. CASE UNCHANGED <<doc, locals, event, wlocals>>
    BY <1>1, HoldersStay DEF ClaimInv, locals
  <1>2. ASSUME NEW r \in Requests, Begin(r) \/ Continue(r) \/ Crash(r), UNCHANGED <<gateway, wlocals>>
        PROVE  ClaimInv'
    BY <1>2, RequestLocks DEF WTyped, World, gateway
  <1> QED
    BY <1>1, <1>2, DeliveryLocks, SessionsApart, NoVoids DEF SePayNext, Next, svars, vars, gateway

-----------------------------------------------------------------------------
(* The lists.                                                              *)
LEMMA SaveFields ==
  ASSUME doc \in Document, NEW loaded, NEW copy
  PROVE  /\ WholeSave(loaded, copy).enr = copy.enr
         /\ WholeSave(loaded, copy).paid = (IF copy.paid # loaded.paid THEN copy.paid ELSE doc.paid)
         /\ Scalars(loaded, copy).enr = doc.enr
         /\ Scalars(loaded, copy).paid = (IF copy.paid # loaded.paid THEN copy.paid ELSE doc.paid)
  BY DEF WholeSave, Scalars, Document

LEMMA NewDocLed == Led(NewDoc.enr)
  BY FirstSlot DEF Led, NewDoc, Pending, Absent

LEMMA CopiesLed ==
  ASSUME NEW d \in Document, Led(d.enr)
  PROVE  /\ Led(PaidCopy(d).enr) /\ PaidCopy(d).paid = d.paid
         /\ Led([PaidCopy(d) EXCEPT !.v = @ + 1].enr)
         /\ Led(UnpaidCopy(d).enr) /\ Due(UnpaidCopy(d).enr) /\ ~UnpaidCopy(d).paid
  <1>1. \A x \in Enrollment :
          /\ x.status \in {"pending_payment", "active"} =>
               /\ Opened(x).status \in {"pending_payment", "active"} /\ Opened(x).primary = x.primary
               /\ Closed(x).status = "pending_payment" /\ Closed(x).primary = x.primary /\ ~Closed(x).paid
    BY DEF Enrollment, Opened, Closed
  <1>2. \A e \in Slots : d.enr[e] \in Enrollment
    BY DEF Document
  <1>3. PICK p \in Slots : d.enr[p].primary /\ d.enr[p].status \in {"pending_payment", "active"}
    BY DEF Led
  <1>4. p \in Present(d) /\ PayOpens(d, p)
    BY <1>3 DEF Present, PayOpens
  <1>5. /\ PaidCopy(d).enr = [e \in Slots |-> IF e \in Present(d) /\ PayOpens(d, e) THEN Opened(d.enr[e]) ELSE d.enr[e]]
        /\ UnpaidCopy(d).enr = [e \in Slots |-> IF e \in Present(d) /\ PayOpens(d, e) THEN Closed(d.enr[e]) ELSE d.enr[e]]
        /\ PaidCopy(d).paid = d.paid /\ ~UnpaidCopy(d).paid
        /\ [PaidCopy(d) EXCEPT !.v = @ + 1].enr = PaidCopy(d).enr
    BY DEF PaidCopy, UnpaidCopy, Document
  <1>6. \A e \in Present(d) : d.enr[e].status \in {"pending_payment", "active"}
    BY DEF Led, Present
  <1>7. Led(PaidCopy(d).enr)
    BY <1>1, <1>2, <1>3, <1>4, <1>5, <1>6 DEF Led
  <1>8. Led(UnpaidCopy(d).enr) /\ Due(UnpaidCopy(d).enr)
    <2> DEFINE list == UnpaidCopy(d).enr
    <2>1. \A e \in Slots : list[e] = IF e \in Present(d) /\ PayOpens(d, e) THEN Closed(d.enr[e]) ELSE d.enr[e]
      BY <1>5
    <2> HIDE DEF list
    <2>2. \A e \in Slots : list[e].status \in {"absent", "pending_payment", "active"}
      BY <1>1, <1>2, <1>6, <2>1 DEF Led
    <2>3. list[p].primary /\ list[p].status = "pending_payment" /\ ~list[p].paid
      BY <1>1, <1>2, <1>3, <1>4, <2>1
    <2> QED
      BY <2>2, <2>3 DEF Led, Due, list
  <1> QED
    BY <1>5, <1>7, <1>8

LEMMA ReEnrolledLed ==
  ASSUME NEW d \in Document, Led(d.enr), NEW e \in Slots, NEW c
  PROVE  Led(ReEnrolled(d, e, c).enr) /\ ReEnrolled(d, e, c).paid
  <1>1. Opened(Pending(c, TRUE)).status = "active" /\ Opened(Pending(c, TRUE)).primary
    BY DEF Opened, Pending
  <1>2. \A x \in Enrollment : [x EXCEPT !.primary = FALSE].status = x.status
    BY DEF Enrollment
  <1>3. /\ ReEnrolled(d, e, c).enr = [i \in Slots |-> IF i = e THEN Opened(Pending(c, TRUE))
                                                     ELSE [d.enr[i] EXCEPT !.primary = FALSE]]
        /\ ReEnrolled(d, e, c).paid
    BY DEF ReEnrolled, Document
  <1>4. \A i \in Slots : d.enr[i] \in Enrollment
    BY DEF Document
  <1> DEFINE list == ReEnrolled(d, e, c).enr
  <1>5. /\ list[e].status = "active" /\ list[e].primary
        /\ \A i \in Slots \ {e} : list[i].status = d.enr[i].status
    BY <1>1, <1>2, <1>3, <1>4
  <1> HIDE DEF list
  <1>6. Led(list)
    BY <1>5 DEF Led
  <1> QED
    BY <1>3, <1>6 DEF list

LEMMA ListsLed ==
  ASSUME NEW list \in [Slots -> Enrollment], Led(list), NEW e \in Slots
  PROVE  /\ Led(Claimed(list, e))
         /\ LET back == [list EXCEPT ![e] = [list[e] EXCEPT !.paid = FALSE, !.status = "pending_payment"]]
            IN  Led(back) /\ Due(back)
  <1>1. /\ \A x \in Enrollment :
             /\ [x EXCEPT !.paid = TRUE, !.status = "active"].primary = x.primary
             /\ [x EXCEPT !.paid = TRUE, !.status = "active"].status = "active"
             /\ [x EXCEPT !.paid = FALSE, !.status = "pending_payment"].primary = x.primary
             /\ [x EXCEPT !.paid = FALSE, !.status = "pending_payment"].status = "pending_payment"
             /\ ~[x EXCEPT !.paid = FALSE, !.status = "pending_payment"].paid
        /\ \A i \in Slots : list[i] \in Enrollment
    BY DEF Enrollment
  <1>2. PICK p \in Slots : list[p].primary /\ list[p].status # "absent"
    BY DEF Led
  <1>3. Led(Claimed(list, e))
    BY <1>1, <1>2 DEF Claimed, Led
  <1>4. LET back == [list EXCEPT ![e] = [list[e] EXCEPT !.paid = FALSE, !.status = "pending_payment"]]
        IN  Led(back) /\ Due(back)
    BY <1>1, <1>2 DEF Led, Due
  <1> QED
    BY <1>3, <1>4

LEMMA AddedLed ==
  ASSUME NEW list \in [Slots -> Enrollment], Led(list), NEW e \in Slots, list[e].status = "absent", NEW c
  PROVE  Led([list EXCEPT ![e] = Pending(c, FALSE)]) /\ Due([list EXCEPT ![e] = Pending(c, FALSE)])
  <1>1. Pending(c, FALSE).status = "pending_payment" /\ ~Pending(c, FALSE).paid
    BY DEF Pending
  <1>2. PICK p \in Slots : list[p].primary /\ list[p].status # "absent"
    BY DEF Led
  <1> QED
    BY <1>1, <1>2 DEF Led, Due

LEMMA RequestLeads ==
  ASSUME Operations \subseteq {"pay", "add", "heal"}, TypeOK, StepsInv, ClaimInv, LedInv, NEW r \in Requests,
         Begin(r) \/ Continue(r) \/ Crash(r), UNCHANGED wlocals
  PROVE  LedInv'
  <1>0. /\ doc \in Document /\ snap \in [Requests -> Document] /\ snap[r] \in Document
        /\ Led(doc.enr) /\ Led(snap[r].enr) /\ (~doc.paid => Due(doc.enr))
    BY DEF TypeOK, LedInv
  <1>1. SUFFICES /\ Led(doc'.enr) /\ (~doc'.paid => Due(doc'.enr))
                 /\ \E d : Led(d.enr) /\ Keep(r, d)
    <2>1. ASSUME NEW d, Led(d.enr), Keep(r, d) PROVE \A q \in Requests : Led(snap'[q].enr)
      BY <1>0, <2>1 DEF Keep, LedInv
    <2> QED
      BY <2>1 DEF LedInv, wlocals
  <1>2. CASE Idles(r)
    BY <1>0, <1>2, NewDocLed DEF Idles
  <1>3. CASE PayClaim(r) /\ ~doc.paid
    <2>1. doc'.enr = doc.enr /\ doc'.paid /\ Keep(r, doc')
      BY <1>0, <1>3 DEF PayClaim, Document
    <2> QED
      BY <1>0, <2>1
  <1>4. CASE PaySave(r) /\ doc.v = snap[r].v
    <2>1. /\ doc' = WholeSave(snap[r], PaidCopy(snap[r])) /\ Keep(r, [PaidCopy(snap[r]) EXCEPT !.v = @ + 1])
          /\ r \in Cashiers
      BY <1>4 DEF PaySave, Cashiers, Claiming
    <2>2. doc.paid
      BY <2>1 DEF ClaimInv, Lock
    <2>3. /\ Led(PaidCopy(snap[r]).enr) /\ PaidCopy(snap[r]).paid = snap[r].paid
          /\ Led([PaidCopy(snap[r]) EXCEPT !.v = @ + 1].enr)
      BY <1>0, CopiesLed
    <2>4. doc'.enr = PaidCopy(snap[r]).enr /\ doc'.paid
      BY <1>0, <2>1, <2>2, <2>3, SaveFields
    <2> QED
      BY <2>1, <2>3, <2>4
  <1>5. CASE PaySettle(r)
    <2>1. UNCHANGED doc /\ (UNCHANGED snap \/ Keep(r, NewDoc))
      BY <1>5 DEF PaySettle, Settle, End
    <2>2. UNCHANGED snap => Keep(r, snap[r])
      BY <1>0 DEF Keep
    <2> QED
      BY <1>0, <2>1, <2>2, NewDocLed
  <1>6. CASE PayUndo(r)
    <2>1. /\ doc' = (IF doc.v = snap[r].v THEN WholeSave(snap[r], UnpaidCopy(snap[r])) ELSE doc)
          /\ Keep(r, NewDoc)
      BY <1>6 DEF PayUndo, End
    <2>2. Led(UnpaidCopy(snap[r]).enr) /\ Due(UnpaidCopy(snap[r]).enr)
      BY <1>0, CopiesLed
    <2> QED
      BY <1>0, <2>1, <2>2, NewDocLed, SaveFields
  <1>7. CASE AddSave(r)
    <2> DEFINE e   == Min(Slots \ Present(doc))
               c   == arg[r].course
               new == Registration(c, arg[r].op = "addPaid")
               copy == AddedCopy(snap[r], e, new, arg[r].amt)
    <2>1. arg[r].amt = 0 /\ arg[r].op # "addPaid" /\ c \in Courses
      BY <1>7 DEF AddSave, StepsInv, Stays, TypeOK, Argument
    <2>2. new = Pending(c, FALSE)
      BY <2>1 DEF Registration
    <2>3. e \in Slots /\ doc.enr[e].status = "absent"
      <3>1. e \in Slots \ Present(doc)
        BY <1>0, <1>7, MinIsMember, SlotsOfDocument DEF AddSave
      <3> HIDE DEF e
      <3> QED
        BY <3>1 DEF Present
    <2>4. /\ doc' = [Scalars(snap[r], copy) EXCEPT !.enr = [@ EXCEPT ![e] = new], !.v = @ + 1]
          /\ Keep(r, NewDoc)
      BY <1>7, <2>1 DEF AddSave, End
    <2> HIDE DEF e, new, copy, c
    <2>5. doc'.enr = [doc.enr EXCEPT ![e] = Pending(c, FALSE)]
      <3>1. Scalars(snap[r], copy).enr = doc.enr
        BY <1>0, SaveFields
      <3>2. doc'.enr = [Scalars(snap[r], copy).enr EXCEPT ![e] = new]
        BY <1>0, <2>4 DEF Scalars, Document
      <3> QED
        BY <2>2, <3>1, <3>2
    <2>6. Led(doc'.enr) /\ Due(doc'.enr)
      <3>1. doc.enr \in [Slots -> Enrollment]
        BY <1>0 DEF Document
      <3>2. Led([doc.enr EXCEPT ![e] = Pending(c, FALSE)]) /\ Due([doc.enr EXCEPT ![e] = Pending(c, FALSE)])
        BY <1>0, <2>3, <3>1, AddedLed
      <3> QED
        BY <2>5, <3>2
    <2> QED
      BY <2>4, <2>6, NewDocLed
  <1> QED
    BY <1>2, <1>3, <1>4, <1>5, <1>6, <1>7, RequestKinds, IdleSteps

LEMMA DeliveryLeads ==
  ASSUME WTyped, StepsInv, ClaimInv, LedInv, StaysInv, Unlinked \/ WritesHold,
         NEW w \in Webhooks, Webhook(w)
  PROVE  LedInv'
  <1>0. /\ doc \in Document /\ wsnap \in [Webhooks -> Document] /\ wsnap[w] \in Document /\ warg[w].e \in Slots
        /\ doc.enr \in [Slots -> Enrollment]
        /\ Led(doc.enr) /\ Led(wsnap[w].enr) /\ (~doc.paid => Due(doc.enr))
    BY Carried DEF WTyped, World, TypeOK, LedInv, Document, WArgs
  <1>s. UNCHANGED snap
    BY DEF Webhook, Deliver, SeekSession, ClaimSession, SettleSession, ReleaseSession,
       EnrollRead, EnrollSave, SeekStudent, ClaimStudent, FreshRead, FreshSave, SettleStudent,
       TakeBack, DropRead, DropSave, Mark, WebhookCrash, vars, locals
  <1>1. SUFFICES /\ Led(doc'.enr) /\ (~doc'.paid => Due(doc'.enr))
                 /\ \A v \in Webhooks : wsnap'[v] \in {wsnap[v], doc, NewDoc}
    BY <1>0, <1>s, NewDocLed DEF LedInv
  <1> USE DEF WEnd, WKeep
  <1>2. CASE WIdles(w)
    BY <1>0, <1>2 DEF WIdles
  <1>3. CASE EnrollSave(w)
    <2>1. \E e \in Slots : \E c : doc' = doc \/ doc' = WholeSave(wsnap[w], ReEnrolled(wsnap[w], e, c))
      <3>1. Min(FreeSlots(wsnap[w])) \in Slots
        BY <1>0, <1>3, FreeSlotsTyped DEF EnrollSave
      <3> QED
        BY <1>3, <3>1 DEF EnrollSave
    <2>2. WritesHold /\ (wsnap[w].paid => doc.paid) /\ UNCHANGED wsnap
      <3>1. wpc[w] = "enrollSave" /\ UNCHANGED wsnap
        BY <1>3 DEF EnrollSave
      <3>2. ~Unlinked
        BY <3>1 DEF StepsInv, Attaches
      <3> QED
        BY <3>1, <3>2 DEF StaysInv
    <2>3. CASE doc' = doc
      BY <1>0, <2>2, <2>3
    <2>4. ASSUME NEW e \in Slots, NEW c, doc' = WholeSave(wsnap[w], ReEnrolled(wsnap[w], e, c))
          PROVE  Led(doc'.enr) /\ doc'.paid
      <3>1. Led(ReEnrolled(wsnap[w], e, c).enr) /\ ReEnrolled(wsnap[w], e, c).paid
        BY <1>0, ReEnrolledLed
      <3> QED
        BY <1>0, <2>2, <2>4, <3>1, SaveFields
    <2> QED
      BY <2>1, <2>2, <2>3, <2>4
  <1>4. CASE ClaimStudent(w) /\ ~doc.paid
    <2>1. doc'.enr = Claimed(doc.enr, warg[w].e) /\ doc'.paid /\ UNCHANGED wsnap
      BY <1>0, <1>4 DEF ClaimStudent, Document
    <2> QED
      BY <1>0, <2>1, ListsLed
  <1>5. CASE SettleStudent(w)
    BY <1>0, <1>5 DEF SettleStudent
  <1>6. CASE TakeBack(w)
    <2>1. doc'.enr = [doc.enr EXCEPT ![warg[w].e] =
                        [doc.enr[warg[w].e] EXCEPT !.paid = FALSE, !.status = "pending_payment"]]
      BY <1>0, <1>6 DEF TakeBack, Document
    <2>2. \A v \in Webhooks : wsnap'[v] \in {wsnap[v], NewDoc}
      BY <1>0, <1>6 DEF TakeBack
    <2>3. Led(doc'.enr) /\ Due(doc'.enr)
      BY <1>0, <2>1, ListsLed
    <2> QED
      BY <2>2, <2>3
  <1>7. CASE Mark(w)
    BY <1>0, <1>7 DEF Mark, vars
  <1> QED
    BY <1>2, <1>3, <1>4, <1>5, <1>6, <1>7, WebhookLocks, WIdleSteps

LEMMA LedStep ==
  ASSUME Operations \subseteq {"pay", "add", "heal"}, Unlinked \/ WritesHold,
         WTyped, StepsInv, ClaimInv, LedInv, StaysInv, [SePayNext]_svars
  PROVE  LedInv'
  <1>1. CASE UNCHANGED <<doc, locals, wlocals>>
    BY <1>1 DEF LedInv, locals, wlocals
  <1>2. ASSUME NEW r \in Requests, Begin(r) \/ Continue(r) \/ Crash(r), UNCHANGED wlocals
        PROVE  LedInv'
    BY <1>2, RequestLeads DEF WTyped, World
  <1> QED
    BY <1>1, <1>2, DeliveryLeads, SessionsApart, NoVoids DEF SePayNext, Next, svars, vars

-----------------------------------------------------------------------------
(* No claim is taken back while all writes hold.                           *)
LEMMA NoneBookedAccepts ==
  ASSUME NoneBooked(ledger), NEW e \in Slots, NEW n
  PROVE  Accepts(ledger, <<"pay", e>>, n)
  BY DEF NoneBooked, Accepts

LEMMA NoWriteFails ==
  ASSUME WritesHold
  PROVE  /\ ~Fault("ledger") /\ ~Fault("lostReply")
         /\ \A book, before, after : ~LedgerFails(book, before, after)
  BY DEF WritesHold, Fault, LedgerFails

LEMMA RequestRemains ==
  ASSUME Operations \subseteq {"pay", "add", "heal"}, TypeOK, StepsInv, ClaimInv, StaysInv, WritesHold,
         NEW r \in Requests, Begin(r) \/ Continue(r) \/ Crash(r), UNCHANGED wlocals
  PROVE  StaysInv'
  <1>0. /\ \A q \in Requests : pc[q] # "payUndo"
        /\ \A w \in Webhooks : wpc[w] # "takeBack"
        /\ \A w \in Webhooks : wpc[w] = "enrollSave" /\ wsnap[w].paid => doc.paid
        /\ (doc.paid /\ ~Unsettled) \/ NoneBooked(ledger)
        /\ UNCHANGED <<wpc, wsnap>>
    BY DEF StaysInv, wlocals
  <1>1. SUFFICES /\ pc'[r] # "payUndo" /\ \A q \in Requests \ {r} : pc'[q] = pc[q]
                 /\ doc.paid => doc'.paid
                 /\ (doc'.paid /\ ~Unsettled') \/ NoneBooked(ledger')
    BY <1>0 DEF StaysInv
  <1>2. ASSUME NEW p, Goto(r, p), p \notin {"paySave", "paySettle", "payUndo"}, doc.paid => doc'.paid,
               \A e \in Slots : ledger'[<<"pay", e>>] = ledger[<<"pay", e>>]
        PROVE  /\ pc'[r] # "payUndo" /\ \A q \in Requests \ {r} : pc'[q] = pc[q]
               /\ (doc'.paid /\ ~Unsettled') \/ NoneBooked(ledger')
    <2>1. pc'[r] = p /\ \A q \in Requests \ {r} : pc'[q] = pc[q]
      BY <1>2, CashiersMove
    <2>2. Unsettled' => Unsettled
      BY <1>0, <1>2, <2>1 DEF Unsettled
    <2>3. NoneBooked(ledger) => NoneBooked(ledger')
      BY <1>2 DEF NoneBooked, Free
    <2> QED
      BY <1>0, <1>2, <2>1, <2>2, <2>3
  <1>3. CASE Idles(r)
    BY <1>2, <1>3 DEF Idles, Plain, Outcomes
  <1>4. CASE AddSave(r)
    <2>1. arg[r].amt = 0
      BY <1>4 DEF AddSave, StepsInv, Stays
    <2>2. Goto(r, "ok") /\ UNCHANGED ledger
      BY <1>4, <2>1 DEF AddSave, End
    <2>3. doc.paid => doc'.paid
      <3> DEFINE e   == Min(Slots \ Present(doc))
                 new == Registration(arg[r].course, arg[r].op = "addPaid")
                 copy == AddedCopy(snap[r], e, new, arg[r].amt)
      <3>1. doc' = [Scalars(snap[r], copy) EXCEPT !.enr = [@ EXCEPT ![e] = new], !.v = @ + 1]
        BY <1>4 DEF AddSave
      <3>2. copy.paid = snap[r].paid
        BY <2>1 DEF AddedCopy, TypeOK, Document
      <3> HIDE DEF e, new, copy
      <3>3. Scalars(snap[r], copy).paid = doc.paid
        BY <3>2, SaveFields DEF TypeOK
      <3> QED
        BY <3>1, <3>3 DEF TypeOK, Scalars, Document
    <2> QED
      BY <1>2, <2>2, <2>3
  <1>5. CASE PayClaim(r) /\ ~doc.paid
    <2>1. NoneBooked(ledger) /\ UNCHANGED ledger /\ Goto(r, "paySave")
      BY <1>0, <1>5 DEF PayClaim
    <2>2. NoneBooked(ledger')
      BY <2>1
    <2> QED
      BY <1>5, <2>1, <2>2, CashiersMove
  <1>6. CASE PaySave(r) /\ doc.v = snap[r].v
    <2>1. pc[r] = "paySave" /\ UNCHANGED ledger /\ Goto(r, "paySettle")
      BY <1>6 DEF PaySave
    <2>2. NoneBooked(ledger) /\ r \in Cashiers
      BY <1>0, <2>1 DEF Unsettled, Cashiers, Claiming
    <2>3. NoneBooked(ledger')
      BY <2>1, <2>2
    <2>4. doc'.paid = doc.paid
      BY <1>6 DEF PaySave, PaidCopy, WholeSave, Scalars, TypeOK, Document
    <2> QED
      BY <2>1, <2>3, <2>4, CashiersMove
  <1>7. CASE PaySettle(r)
    <2>1. pc[r] = "paySettle" /\ arg[r].op # "addPaid" /\ arg[r].e \in Slots
      BY <1>7 DEF PaySettle, StepsInv, Stays, TypeOK, Argument
    <2>2. NoneBooked(ledger) /\ r \in Cashiers
      BY <1>0, <2>1 DEF Unsettled, Cashiers, Claiming
    <2>3. Accepts(ledger, PaymentKey(r), arg[r].amt)
      BY <2>1, <2>2, NoneBookedAccepts DEF PaymentKey
    <2>4. Goto(r, "settled") /\ UNCHANGED doc
      BY <1>7, <2>3, NoWriteFails DEF PaySettle, Settle, End
    <2>5. doc.paid /\ Couriers = {} /\ \A q \in Cashiers : q = r
      BY <2>2 DEF ClaimInv, Lock
    <2>6. ~Unsettled'
      <3>1. \A w \in Webhooks : wpc'[w] # "settleStudent"
        BY <1>0, <2>5 DEF Couriers, HasClaim
      <3>2. \A q \in Requests : pc'[q] \notin {"paySave", "paySettle"}
        BY <2>4, <2>5, CashiersMove DEF Cashiers, Claiming
      <3> QED
        BY <3>1, <3>2 DEF Unsettled
    <2> QED
      BY <2>4, <2>5, <2>6, CashiersMove
  <1>8. ~PayUndo(r)
    BY <1>0 DEF PayUndo
  <1> QED
    BY <1>3, <1>4, <1>5, <1>6, <1>7, <1>8, RequestKinds, IdleSteps

LEMMA DeliveryRemains ==
  ASSUME WTyped, StepsInv, ClaimInv, StaysInv, WritesHold, NEW w \in Webhooks, Webhook(w)
  PROVE  StaysInv'
  <1>0. /\ \A q \in Requests : pc[q] # "payUndo"
        /\ \A v \in Webhooks : wpc[v] # "takeBack"
        /\ \A v \in Webhooks : wpc[v] = "enrollSave" /\ wsnap[v].paid => doc.paid
        /\ (doc.paid /\ ~Unsettled) \/ NoneBooked(ledger)
        /\ doc \in Document /\ wsnap[w] \in Document
    BY DEF StaysInv, WTyped, World, TypeOK
  <1>v. /\ \A v \in Webhooks \ {w} : wpc'[v] = wpc[v] /\ warg'[v] = warg[v]
        /\ wpc \in [Webhooks -> WPlaces] /\ wsnap \in [Webhooks -> Document]
        /\ UNCHANGED pc
    <2>1. UNCHANGED pc
      BY DEF Webhook, Deliver, SeekSession, ClaimSession, SettleSession, ReleaseSession,
       EnrollRead, EnrollSave, SeekStudent, ClaimStudent, FreshRead, FreshSave, SettleStudent,
       TakeBack, DropRead, DropSave, Mark, WebhookCrash, vars, locals
    <2> QED
      BY <2>1, WebhookTyped, WMoved, Carried DEF Typed, WGoes
  <1>1. SUFFICES /\ wpc'[w] # "takeBack" /\ (doc.paid => doc'.paid)
                 /\ (wpc'[w] = "enrollSave" /\ wsnap'[w].paid => doc'.paid)
                 /\ \A v \in Webhooks \ {w} : wsnap'[v] = wsnap[v]
                 /\ (doc'.paid /\ ~Unsettled') \/ NoneBooked(ledger')
    BY <1>0, <1>v DEF StaysInv
  <1>2. ASSUME wpc'[w] # "settleStudent", UNCHANGED ledger, doc.paid => doc'.paid
        PROVE  (doc'.paid /\ ~Unsettled') \/ NoneBooked(ledger')
    <2>1. Unsettled' => Unsettled
      BY <1>v, <1>2 DEF Unsettled
    <2>2. NoneBooked(ledger) => NoneBooked(ledger')
      BY <1>2
    <2> QED
      BY <1>0, <1>2, <2>1, <2>2
  <1> USE DEF WGoto, WEnd, WKeep
  <1>3. CASE WIdles(w)
    BY <1>0, <1>2, <1>3 DEF WIdles
  <1>4. CASE EnrollSave(w)
    <2>1. doc.paid => doc'.paid
      <3>1. \A e, c : ReEnrolled(wsnap[w], e, c).paid
        BY <1>0 DEF ReEnrolled, Document
      <3>2. \A copy : copy.paid /\ doc.paid => WholeSave(wsnap[w], copy).paid
        BY <1>0 DEF WholeSave, Scalars, Document
      <3> QED
        BY <1>4, <3>1, <3>2 DEF EnrollSave
    <2>2. wpc'[w] = "mark" /\ UNCHANGED <<ledger, wsnap>>
      BY <1>v, <1>4 DEF EnrollSave
    <2> QED
      BY <1>2, <2>1, <2>2
  <1>5. CASE ClaimStudent(w) /\ ~doc.paid
    <2>1. wpc'[w] = "settleStudent" /\ UNCHANGED <<ledger, wsnap>>
      BY <1>v, <1>5 DEF ClaimStudent
    <2>2. NoneBooked(ledger')
      BY <1>0, <1>5, <2>1
    <2> QED
      BY <1>5, <2>1, <2>2
  <1>6. CASE SettleStudent(w)
    <2>1. wpc[w] = "settleStudent" /\ warg[w].e \in Slots
      BY <1>6, Carried DEF SettleStudent, WArgs
    <2>2. NoneBooked(ledger) /\ w \in Couriers
      BY <1>0, <2>1 DEF Unsettled, Couriers, HasClaim
    <2>3. Accepts(ledger, StudentKey(w), AmountOf(w))
      BY <2>1, <2>2, NoneBookedAccepts DEF StudentKey
    <2>4. wpc' = [wpc EXCEPT ![w] = "mark"] /\ UNCHANGED <<doc, wsnap>>
      BY <1>6, <2>3, NoWriteFails DEF SettleStudent
    <2>5. doc.paid /\ Cashiers = {} /\ \A v \in Couriers : v = w
      BY <2>2 DEF ClaimInv, Lock
    <2>6. ~Unsettled'
      <3>1. \A v \in Webhooks : wpc'[v] # "settleStudent"
        BY <1>v, <2>4, <2>5 DEF Couriers, HasClaim
      <3>2. \A q \in Requests : pc'[q] \notin {"paySave", "paySettle"}
        BY <1>v, <2>5 DEF Cashiers, Claiming
      <3> QED
        BY <3>1, <3>2 DEF Unsettled
    <2> QED
      BY <1>v, <2>4, <2>5, <2>6
  <1>7. ~TakeBack(w)
    BY <1>0 DEF TakeBack
  <1>8. CASE Mark(w)
    <2>1. wpc'[w] = "matched" /\ UNCHANGED <<doc, ledger>> /\ \A v \in Webhooks \ {w} : wsnap'[v] = wsnap[v]
      BY <1>v, <1>8 DEF Mark, vars
    <2> QED
      BY <1>2, <2>1
  <1> QED
    BY <1>3, <1>4, <1>5, <1>6, <1>7, <1>8, WebhookLocks, WIdleSteps

LEMMA StaysStep ==
  ASSUME Operations \subseteq {"pay", "add", "heal"},
         WTyped, StepsInv, ClaimInv, StaysInv, [SePayNext]_svars
  PROVE  StaysInv'
  <1> SUFFICES ASSUME WritesHold PROVE StaysInv'
    BY DEF StaysInv
  <1>1. CASE UNCHANGED <<doc, ledger, locals, wlocals>>
    BY <1>1 DEF StaysInv, locals, wlocals, Unsettled
  <1>2. ASSUME NEW r \in Requests, Begin(r) \/ Continue(r) \/ Crash(r), UNCHANGED wlocals
        PROVE  StaysInv'
    BY <1>2, RequestRemains DEF WTyped, World
  <1> QED
    BY <1>1, <1>2, DeliveryRemains, SessionsApart, NoVoids DEF SePayNext, Next, svars, vars

LEMMA LockInit == SePayInit => LockInv
  <1> SUFFICES ASSUME SePayInit PROVE LockInv
    OBVIOUS
  <1>1. StepsInv
    BY DEF SePayInit, Init, StepsInv, Stays, Attaches, Plain, Claiming, NoArg, NoWArg, Fresh
  <1>2. Cashiers = {} /\ Couriers = {} /\ Served = {}
    BY DEF SePayInit, Init, Cashiers, Couriers, Served, Claiming, HasClaim, OfStudent
  <1>3. LedInv
    <2>1. Due(NewDoc.enr)
      BY FirstSlot DEF Due, NewDoc, Pending
    <2> QED
      BY <2>1, NewDocLed DEF SePayInit, Init, LedInv
  <1>4. StaysInv
    <2>1. NoneBooked(ledger)
      BY DEF SePayInit, Init, NoneBooked, Free, NoEntry, Keys
    <2> QED
      BY <2>1 DEF SePayInit, Init, StaysInv
  <1> QED
    BY <1>1, <1>2, <1>3, <1>4 DEF LockInv, ClaimInv, Lock

(* No two matched transfers rest on one payment of the student (the claim  *)
(* of an unpaid student, webhookRoutes.js:483), whatever dies and is sent  *)
(* again: beside cashiers, registrations and heal runs, when no session    *)
(* names the student or no ledger write fails.                             *)
THEOREM StudentsMatchedOnce ==
  ASSUME Operations \subseteq {"pay", "add", "heal"}, Unlinked \/ WritesHold
  PROVE  SePaySpec => []StudentMatchedOnce
  <1>1. WTyped /\ LockInv /\ [SePayNext]_svars => LockInv'
    BY StepsStep, ClaimStep, LedStep, StaysStep DEF LockInv
  <1>2. WTyped /\ LockInv => StudentMatchedOnce
    <2>1. \A t \in Matched : event[t].key \notin SessionKeys => t \in Served
      BY DEF Matched, Served, OfStudent
    <2> QED
      BY <2>1 DEF StudentMatchedOnce, Matched, Served, LockInv, ClaimInv, Lock
  <1> QED
    BY <1>1, <1>2, LockInit, WTypedInit, WTypedStep, PTL DEF SePaySpec
=============================================================================
