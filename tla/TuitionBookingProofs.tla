------------------------ MODULE TuitionBookingProofs ------------------------
(***************************************************************************)
(* Proofs about what Tuition books: what is open as paid has a payment of  *)
(* its own, what is given back was paid, refunds and credit notes match,   *)
(* and concurrent payments book a tuition once and at its price.  All hold *)
(* for every number of requests, enrollments and courses.                  *)
(*                                                                         *)
(* Handlers work on copies of the document, so most of what is said of the *)
(* document is said of every copy as well, by operators of a document d.   *)
(***************************************************************************)
EXTENDS TuitionProofs

-----------------------------------------------------------------------------
(* The shape of documents.                                                 *)

(* The enrollments of a document: the first exists, at most one is         *)
(* primary, and the primary one is not cancelled.  Without refunds none is *)
(* refunded; without cancellations none is cancelled, and the first one    *)
(* stays primary and gives the root its price.                             *)
Shaped(d) ==
  /\ 1 \in Present(d)
  /\ \A e \in Slots : d.enr[e].primary => d.enr[e].status \notin {"absent", "cancelled"}
  /\ \A e, f \in Slots : d.enr[e].primary /\ d.enr[f].primary => e = f
  /\ \A e \in Slots : d.enr[e].paid => d.enr[e].status \notin {"absent", "refunded"}
  /\ "refund" \notin Operations => \A e \in Slots : d.enr[e].status # "refunded"
  /\ "cancel" \notin Operations =>
       /\ \A e \in Slots : d.enr[e].status # "cancelled"
       /\ d.enr[1].primary
       /\ PriceOf(d, 1) = d.price

(* A copy d has no enrollment, and no course, that document c has not; one *)
(* of the same version has all of them and the root price.                 *)
Agrees(d, c) ==
  /\ d.v <= c.v
  /\ \A e \in Present(d) : e \in Present(c) /\ d.enr[e].course = c.enr[e].course
  /\ d.v = c.v => Present(c) \subseteq Present(d) /\ d.price = c.price

(* Document c may become n: enrollments keep their courses, and a new      *)
(* enrollment or root price comes with a new version.                      *)
Follows(c, n) ==
  /\ \A e \in Present(c) : e \in Present(n) /\ n.enr[e].course = c.enr[e].course
  /\ \/ c.v < n.v
     \/ c.v = n.v /\ Present(n) = Present(c) /\ n.price = c.price

(* Copy c is d with its enrollments changed, but none added or removed.    *)
Reworks(d, c) ==
  /\ c.v = d.v /\ Present(c) = Present(d)
  /\ \A e \in Slots : c.enr[e].course = d.enr[e].course

(* The steps that serve each operation.                                    *)
Serves(step, op) ==
  \/ step \in {"new"} \cup Outcomes
  \/ op = "pay" /\ step \in {"payClaim", "paySave", "paySettle", "payUndo"}
  \/ op = "enrPay" /\ step \in {"enrRead", "enrSave", "enrSettle", "undo"}
  \/ op \in {"add", "addPaid"} /\ step = "addSave"
  \/ op = "addPaid" /\ step \in {"addSettle", "undo"}
  \/ op \in {"refund", "cancel"} /\ step \in {"postRefund", "countNotes", "issueNote", "voidRefund"}
  \/ op = "refund" /\ step \in {"refundFill", "refundClaim", "refundSave", "restore", "restored"}
  \/ op = "cancel" /\ step = "cancelSave"
  \/ op = "heal" /\ step \in {"healCheck", "healPost"}

(* What the step of a request says of its argument a and its copy d.       *)
Fits(step, a, d) ==
  /\ a.op \in Operations \cup {"none"}
  /\ Serves(step, a.op)
  /\ step \in {"enrSave", "enrSettle", "addSettle", "undo"} => a.e \in Present(d)
  /\ a.op = "cancel" /\ step \notin Outcomes => a.e \in Present(d)
  /\ a.op = "refund" => a.id \in RefundIds
  /\ step = "addSave" => a.amt = IF a.op = "addPaid" THEN Price[a.course] ELSE 0
  /\ step \in {"refundFill", "refundClaim", "refundSave", "postRefund"} => a.amt > 0

Requested == \A r \in Requests : Fits(pc[r], arg[r], snap[r])
Claiming  == \A r \in Requests : pc[r] = "enrRead" => arg[r].e \in Present(doc)

(* No request voids a payment; only an administrator does, by hand.        *)
PaymentsStand ==
  "void" \notin Operations => \A k \in PaymentKeys : ledger[k].status \in {"none", "posted"}

CopiesShaped ==
  /\ Shaped(NewDoc) /\ Shaped(doc) /\ \A r \in Requests : Shaped(snap[r])
  /\ Agrees(NewDoc, doc) /\ \A r \in Requests : Agrees(snap[r], doc)

ShapeInv == TypeOK /\ CopiesShaped /\ Requested /\ Claiming /\ PaymentsStand

(* What agrees with a document agrees with what the document becomes.      *)
LEMMA FollowsAgrees ==
  ASSUME NEW c \in Document, NEW n \in Document, NEW d \in Document, Follows(c, n), Agrees(d, c)
  PROVE  Agrees(d, n)
  <1>1. d.v \in Nat /\ c.v \in Nat /\ n.v \in Nat
    BY DEF Document
  <1> QED
    BY <1>1 DEF Follows, Agrees

(* The shape is one of enrollments and root price alone.                   *)
LEMMA SameShape ==
  ASSUME NEW d, NEW c, c.enr = d.enr, c.price = d.price, Shaped(d)
  PROVE  Shaped(c)
  BY DEF Shaped, Present, PriceOf

(* With its root alone changed, a document is the same to its copies.      *)
LEMMA RootChange ==
  ASSUME NEW d, NEW c, c.enr = d.enr, c.price = d.price, c.v = d.v
  PROVE  Follows(d, c) /\ Reworks(d, c) /\ (Shaped(d) => Shaped(c))
  BY SameShape DEF Follows, Reworks, Present

(* What the copy operators make of a document.                             *)
LEMMA PaidCopyShaped ==
  ASSUME NEW d \in Document, Shaped(d)
  PROVE  /\ Shaped(PaidCopy(d)) /\ Reworks(d, PaidCopy(d)) /\ PaidCopy(d).price = d.price
         /\ Shaped(UnpaidCopy(d)) /\ Reworks(d, UnpaidCopy(d)) /\ UnpaidCopy(d).price = d.price
  <1> DEFINE p == PaidCopy(d)
             u == UnpaidCopy(d)
  <1>0. d.enr \in [Slots -> Enrollment] /\ 1 \in Slots
    BY FirstSlot DEF Document
  <1>1. p.enr = [e \in Slots |-> IF e \in Present(d) /\ PayOpens(d, e) THEN Opened(d.enr[e]) ELSE d.enr[e]]
        /\ p.price = d.price /\ p.v = d.v
    BY DEF PaidCopy, Document
  <1>2. u.enr = [e \in Slots |-> IF e \in Present(d) /\ PayOpens(d, e) THEN Closed(d.enr[e]) ELSE d.enr[e]]
        /\ u.price = d.price /\ u.v = d.v
    BY DEF UnpaidCopy, Document
  <1>3. ASSUME NEW x \in Enrollment
        PROVE  /\ Opened(x).course = x.course /\ Opened(x).primary = x.primary
               /\ Opened(x).status = IF x.status \in {"pending_payment", "refunded"} THEN "active" ELSE x.status
               /\ Closed(x).course = x.course /\ Closed(x).primary = x.primary /\ ~Closed(x).paid
               /\ Closed(x).status = IF x.status = "active" THEN "pending_payment" ELSE x.status
    BY DEF Opened, Closed, Enrollment
  <1> HIDE DEF p, u
  <1>4. \A e \in Slots : /\ p.enr[e].course = d.enr[e].course /\ p.enr[e].primary = d.enr[e].primary
                         /\ p.enr[e].status \in {d.enr[e].status, "active"}
                         /\ p.enr[e].status = "absent" <=> d.enr[e].status = "absent"
                         /\ p.enr[e].status \in {"cancelled", "refunded"} => p.enr[e].status = d.enr[e].status
                         /\ d.enr[e].status = "cancelled" => p.enr[e].status = "cancelled"
                         /\ p.enr[e].paid /\ ~d.enr[e].paid => p.enr[e].status \notin {"absent", "refunded"}
                         /\ p.enr[e].status # d.enr[e].status => p.enr[e].status = "active"
    BY <1>0, <1>1, <1>3 DEF Present
  <1>5. \A e \in Slots : /\ u.enr[e].course = d.enr[e].course /\ u.enr[e].primary = d.enr[e].primary
                         /\ u.enr[e].status = "absent" <=> d.enr[e].status = "absent"
                         /\ u.enr[e].status \in {"cancelled", "refunded"} <=> d.enr[e].status \in {"cancelled", "refunded"}
                         /\ u.enr[e].status \in {"cancelled", "refunded"} => u.enr[e].status = d.enr[e].status
                         /\ u.enr[e].paid => d.enr[e].paid /\ u.enr[e].status = d.enr[e].status
    BY <1>0, <1>2, <1>3 DEF Present
  <1>6. Reworks(d, p) /\ Reworks(d, u)
    BY <1>1, <1>2, <1>4, <1>5 DEF Reworks, Present
  <1>7. Shaped(p)
    BY <1>0, <1>1, <1>4 DEF Shaped, Present, PriceOf
  <1>8. Shaped(u)
    BY <1>0, <1>2, <1>5 DEF Shaped, Present, PriceOf
  <1> QED
    BY <1>1, <1>2, <1>6, <1>7, <1>8 DEF p, u

LEMMA RefundedCopyShaped ==
  ASSUME NEW d \in Document, Shaped(d), "refund" \in Operations
  PROVE  Shaped(RefundedCopy(d)) /\ Reworks(d, RefundedCopy(d)) /\ RefundedCopy(d).price = d.price
  <1> DEFINE c == RefundedCopy(d)
  <1>0. d.enr \in [Slots -> Enrollment] /\ 1 \in Slots
    BY FirstSlot DEF Document
  <1>1. /\ c.enr = [e \in Slots |-> IF d.enr[e].paid THEN [d.enr[e] EXCEPT !.paid = FALSE, !.status = "refunded"]
                                                     ELSE d.enr[e]]
        /\ c.price = d.price /\ c.v = d.v
    BY DEF RefundedCopy, Document
  <1> HIDE DEF c
  <1>2. ASSUME NEW e \in Slots
        PROVE  /\ c.enr[e].course = d.enr[e].course /\ c.enr[e].primary = d.enr[e].primary
               /\ ~c.enr[e].paid
               /\ c.enr[e].status = IF d.enr[e].paid THEN "refunded" ELSE d.enr[e].status
    <2> DEFINE x == d.enr[e]
    <2>1. x \in Enrollment
      BY <1>0
    <2>2. c.enr[e] = IF x.paid THEN [x EXCEPT !.paid = FALSE, !.status = "refunded"] ELSE x
      BY <1>1
    <2> HIDE DEF x
    <2>3. CASE x.paid
      BY <2>1, <2>2, <2>3 DEF x, Enrollment
    <2>4. CASE ~x.paid
      BY <2>1, <2>2, <2>4 DEF x, Enrollment
    <2> QED
      BY <2>3, <2>4
  <1>3. Present(c) = Present(d)
    BY <1>2 DEF Shaped, Present
  <1>4. \A e \in Slots : c.enr[e].primary => c.enr[e].status \notin {"absent", "cancelled"}
    BY <1>2 DEF Shaped
  <1>5. "cancel" \notin Operations => /\ \A e \in Slots : c.enr[e].status # "cancelled"
                                      /\ c.enr[1].primary
                                      /\ PriceOf(c, 1) = c.price
    BY <1>0, <1>1, <1>2 DEF Shaped, PriceOf
  <1>6. Shaped(c)
    BY <1>2, <1>3, <1>4, <1>5 DEF Shaped
  <1> QED
    BY <1>1, <1>2, <1>3, <1>6 DEF c, Reworks

LEMMA TakenBackShaped ==
  ASSUME NEW d \in Document, Shaped(d), NEW e \in Present(d), NEW amt \in Nat
  PROVE  /\ Shaped(TakenBack(d, e, amt)) /\ Reworks(d, TakenBack(d, e, amt))
         /\ TakenBack(d, e, amt).price = d.price
  <1> DEFINE c == TakenBack(d, e, amt)
             x == [d.enr[e] EXCEPT !.paid = FALSE, !.status = "pending_payment"]
  <1>0. d.enr \in [Slots -> Enrollment] /\ 1 \in Slots /\ e \in Slots
    BY FirstSlot DEF Document, Present
  <1>1. c.enr = [d.enr EXCEPT ![e] = x] /\ c.price = d.price /\ c.v = d.v
    BY DEF TakenBack, Document
  <1>2. x.course = d.enr[e].course /\ x.primary = d.enr[e].primary /\ ~x.paid /\ x.status = "pending_payment"
    BY <1>0 DEF Enrollment
  <1> HIDE DEF c, x
  <1>3. c.enr[e] = x /\ \A i \in Slots \ {e} : c.enr[i] = d.enr[i]
    BY <1>0, <1>1
  <1>4. Present(c) = Present(d)
    BY <1>2, <1>3 DEF Present
  <1>5. Shaped(c)
    BY <1>0, <1>1, <1>2, <1>3, <1>4 DEF Shaped, PriceOf, Present
  <1> QED
    BY <1>0, <1>1, <1>2, <1>3, <1>4, <1>5 DEF c, Reworks

LEMMA CancelledShaped ==
  ASSUME NEW d \in Document, Shaped(d), "cancel" \in Operations, NEW e \in Present(d), NEW amt \in Nat
  PROVE  Shaped(Cancelled(d, e, amt)) /\ Reworks(d, Cancelled(d, e, amt))
  <1> DEFINE c == Cancelled(d, e, amt)
             rest == {i \in Present(d) \ {e} : d.enr[i].status # "cancelled"}
             x == [d.enr[e] EXCEPT !.status = "cancelled", !.paid = FALSE, !.primary = FALSE, !.refunded = amt]
  <1>0. d.enr \in [Slots -> Enrollment] /\ 1 \in Slots /\ e \in Slots
    BY FirstSlot DEF Document, Present
  <1>1. /\ c.enr = [i \in Slots |-> IF i = e THEN x
                                    ELSE IF d.enr[e].primary /\ rest # {} /\ i = Min(rest)
                                         THEN [d.enr[i] EXCEPT !.primary = TRUE]
                                         ELSE d.enr[i]]
        /\ c.v = d.v
    BY DEF Cancelled, Document
  <1>2. x.course = d.enr[e].course /\ ~x.primary /\ ~x.paid /\ x.status = "cancelled"
    BY <1>0 DEF Enrollment
  <1>3. rest # {} => Min(rest) \in rest
    BY MinIsMember DEF Present
  <1> HIDE DEF x
  <1>4. c.enr[e] = x
    BY <1>0, <1>1
  <1>5. ASSUME NEW i \in Slots \ {e}
        PROVE  /\ c.enr[i].course = d.enr[i].course /\ c.enr[i].status = d.enr[i].status
               /\ c.enr[i].paid = d.enr[i].paid
               /\ c.enr[i].primary => d.enr[i].primary \/ (d.enr[e].primary /\ rest # {} /\ i = Min(rest))
    <2> HIDE DEF rest
    <2>1. CASE d.enr[e].primary /\ rest # {} /\ i = Min(rest)
      <3>1. c.enr[i] = [d.enr[i] EXCEPT !.primary = TRUE] /\ d.enr[i] \in Enrollment
        BY <1>0, <1>1, <2>1
      <3> QED
        BY <2>1, <3>1 DEF Enrollment
    <2>2. CASE ~(d.enr[e].primary /\ rest # {} /\ i = Min(rest))
      <3>1. c.enr[i] = d.enr[i]
        BY <1>0, <1>1, <2>2
      <3> QED
        BY <3>1
    <2> QED
      BY <2>1, <2>2
  <1> HIDE DEF c, rest
  <1>6. Present(c) = Present(d)
    BY <1>0, <1>2, <1>4, <1>5 DEF Present
  <1>7. \A i \in Slots : c.enr[i].primary => c.enr[i].status \notin {"absent", "cancelled"}
    <2>1. rest # {} => Min(rest) \in Present(d) /\ d.enr[Min(rest)].status # "cancelled"
      BY <1>3 DEF rest
    <2>2. ASSUME NEW i \in Slots, c.enr[i].primary
          PROVE  c.enr[i].status \notin {"absent", "cancelled"}
      <3>1. i # e
        BY <1>2, <1>4, <2>2
      <3>2. c.enr[i].status = d.enr[i].status
        BY <1>5, <3>1
      <3>3. d.enr[i].primary \/ (rest # {} /\ i = Min(rest))
        BY <1>5, <2>2, <3>1
      <3> QED
        BY <2>1, <3>2, <3>3 DEF Shaped, Present
    <2> QED
      BY <2>2
  <1>8. \A i, j \in Slots : c.enr[i].primary /\ c.enr[j].primary => i = j
    BY <1>0, <1>2, <1>4, <1>5 DEF Shaped
  <1>9. Shaped(c)
    <2>1. 1 \in Present(c)
      BY <1>6 DEF Shaped
    <2>2. \A i \in Slots : c.enr[i].paid => c.enr[i].status \notin {"absent", "refunded"}
      BY <1>2, <1>4, <1>5 DEF Shaped
    <2>3. "refund" \notin Operations => \A i \in Slots : c.enr[i].status # "refunded"
      BY <1>2, <1>4, <1>5 DEF Shaped
    <2> QED
      BY <1>7, <1>8, <2>1, <2>2, <2>3 DEF Shaped
  <1>10. \A i \in Slots : c.enr[i].course = d.enr[i].course
    BY <1>2, <1>4, <1>5
  <1> QED
    BY <1>1, <1>6, <1>9, <1>10 DEF c, Reworks

(* A copy of the current version is saved as it is.                        *)
LEMMA WholeSaveIsCopy ==
  ASSUME doc \in Document, NEW loaded \in Document, NEW copy \in Document,
         Agrees(loaded, doc), doc.v = loaded.v
  PROVE  /\ WholeSave(loaded, copy).enr = copy.enr
         /\ WholeSave(loaded, copy).price = copy.price
         /\ WholeSave(loaded, copy).v = doc.v + 1
  BY DEF WholeSave, Scalars, Document, Agrees

LEMMA WholeSaveFollows ==
  ASSUME doc \in Document, NEW loaded \in Document, NEW copy \in Document,
         Agrees(loaded, doc), doc.v = loaded.v, Reworks(loaded, copy), Shaped(copy)
  PROVE  /\ Follows(doc, WholeSave(loaded, copy)) /\ Shaped(WholeSave(loaded, copy))
         /\ Agrees([copy EXCEPT !.v = @ + 1], WholeSave(loaded, copy))
         /\ Shaped([copy EXCEPT !.v = @ + 1])
  <1> DEFINE new == WholeSave(loaded, copy)
             next == [copy EXCEPT !.v = @ + 1]
  <1>1. new.enr = copy.enr /\ new.price = copy.price /\ new.v = doc.v + 1
    BY WholeSaveIsCopy
  <1>2. next.enr = copy.enr /\ next.price = copy.price /\ next.v = copy.v + 1 /\ doc.v \in Nat
    BY DEF Document
  <1> HIDE DEF new, next
  <1>3. copy.v = doc.v
    BY DEF Reworks
  <1>4. \A e \in Present(doc) : e \in Present(copy) /\ copy.enr[e].course = doc.enr[e].course
    <2>1. \A e \in Present(doc) : e \in Present(loaded) /\ loaded.enr[e].course = doc.enr[e].course
      BY DEF Agrees
    <2> QED
      BY <2>1 DEF Reworks, Present
  <1>5. Follows(doc, new)
    BY <1>1, <1>2, <1>4 DEF Follows, Present
  <1>6. Shaped(new) /\ Shaped(next)
    BY <1>1, <1>2, SameShape
  <1>7. Agrees(next, new)
    BY <1>1, <1>2, <1>3 DEF Agrees, Present
  <1> QED
    BY <1>5, <1>6, <1>7 DEF new, next

-----------------------------------------------------------------------------
(* The shape is kept by every step, one lemma for each endpoint.           *)

(* A step of r leaves the other requests alone.                            *)
Kept(r) == \A q \in Requests \ {r} : pc'[q] = pc[q] /\ arg'[q] = arg[q] /\ snap'[q] = snap[q]

(* What it leaves r with fits.                                             *)
LeavesFit(r) ==
  /\ Fits(pc'[r], arg'[r], snap'[r])
  /\ pc'[r] = "enrRead" => arg'[r].e \in Present(doc')

(* Every step of a request books like one of Books.                        *)
LEMMA StepBooks ==
  ASSUME TypeOK, NEW r \in Requests, Begin(r) \/ Continue(r) \/ Crash(r)
  PROVE  Books
  <1>1. ASSUME NEW undo, Settle(r, undo) PROVE Books
    <2>1. arg[r].amt \in Nat /\ PaymentKey(r) \in Keys
      BY KeysApart DEF TypeOK, Argument
    <2> QED
      BY <1>1, <2>1 DEF Settle, Books
  <1>2. CASE PaySettle(r) \/ EnrSettle(r) \/ AddSettle(r)
    BY <1>1, <1>2 DEF PaySettle, EnrSettle, AddSettle
  <1>3. CASE PostRefund(r) \/ VoidRefund(r) \/ HealPost(r)
    BY <1>3, BookingSteps
  <1>4. CASE ~(PaySettle(r) \/ EnrSettle(r) \/ AddSettle(r)
               \/ PostRefund(r) \/ VoidRefund(r) \/ HealPost(r))
    BY <1>4, QuietSteps DEF Continue
  <1> QED
    BY <1>2, <1>3, <1>4

LEMMA BooksTyped ==
  ASSUME TypeOK, Books
  PROVE  ledger' \in [Keys -> Entry]
  <1>1. ledger \in [Keys -> Entry]
    BY DEF TypeOK
  <1>2. ASSUME NEW q, NEW amt \in Nat, ledger' = PostEntry(ledger, q, amt)
        PROVE  ledger' \in [Keys -> Entry]
    BY <1>1, <1>2, LedgerTyped
  <1>3. ASSUME NEW q, ledger' = VoidEntry(ledger, q) PROVE ledger' \in [Keys -> Entry]
    BY <1>1, <1>3, VoidTyped
  <1> QED
    BY <1>1, <1>2, <1>3 DEF Books

(* Such a step keeps every posted payment, and voids none.                 *)
LEMMA PaymentsLast ==
  ASSUME TypeOK, PaymentsStand, Books
  PROVE  /\ PaymentsStand'
         /\ \A k \in PaymentKeys : Posted(ledger, k) => ledger'[k] = ledger[k]
  <1> SUFFICES ASSUME NEW k \in PaymentKeys
               PROVE  /\ ledger[k].status # "void" => ledger'[k].status # "void"
                      /\ Posted(ledger, k) => ledger'[k] = ledger[k]
    <2>1. \A k \in PaymentKeys : ledger[k].status \in {"none", "posted", "void"}
                                /\ ledger'[k].status \in {"none", "posted", "void"}
      BY PaymentsAreKeys, BooksTyped DEF TypeOK, Entry
    <2> QED
      BY <2>1 DEF PaymentsStand
  <1>1. k \in Keys /\ ledger \in [Keys -> Entry]
    BY DEF TypeOK, PaymentKeys, Keys
  <1>2. CASE UNCHANGED ledger
    BY <1>1, <1>2
  <1>3. ASSUME NEW q, NEW amt \in Nat, ledger' = PostEntry(ledger, q, amt)
        PROVE  /\ ledger[k].status # "void" => ledger'[k].status # "void"
               /\ Posted(ledger, k) => ledger'[k] = ledger[k]
    BY <1>1, <1>3 DEF PostEntry, Posted, Free
  <1>4. ASSUME NEW r \in Requests, ledger' = VoidEntry(ledger, RefundKey(r))
        PROVE  /\ ledger[k].status # "void" => ledger'[k].status # "void"
               /\ Posted(ledger, k) => ledger'[k] = ledger[k]
    <2>1. k # RefundKey(r)
      BY DEF PaymentKeys, RefundKey
    <2> QED
      BY <1>1, <1>4, <2>1, VoidKeeps
  <1> QED
    BY <1>2, <1>3, <1>4 DEF Books

LEMMA StepShape ==
  ASSUME ShapeInv, TypeOK', NEW r \in Requests, Kept(r), Books, LeavesFit(r),
         Follows(doc, doc'), Shaped(doc'), Shaped(snap'[r]), Agrees(snap'[r], doc')
  PROVE  ShapeInv'
  <1>0. TypeOK
    BY DEF ShapeInv
  <1>1. doc \in Document /\ doc' \in Document /\ NewDoc \in Document
    BY <1>0, FreshTyped DEF TypeOK
  <1>2. Agrees(NewDoc, doc')
    BY <1>1, FollowsAgrees DEF ShapeInv, CopiesShaped
  <1>3. ASSUME NEW q \in Requests \ {r}
        PROVE  /\ Shaped(snap'[q]) /\ Agrees(snap'[q], doc') /\ Fits(pc'[q], arg'[q], snap'[q])
               /\ pc'[q] = "enrRead" => arg'[q].e \in Present(doc')
    <2>1. snap[q] \in Document /\ Shaped(snap[q]) /\ Agrees(snap[q], doc)
          /\ Fits(pc[q], arg[q], snap[q])
      BY <1>0 DEF TypeOK, ShapeInv, CopiesShaped, Requested
    <2>2. Agrees(snap[q], doc')
      BY <1>1, <2>1, FollowsAgrees
    <2>3. pc'[q] = pc[q] /\ arg'[q] = arg[q] /\ snap'[q] = snap[q]
      BY DEF Kept
    <2>4. pc[q] = "enrRead" => arg[q].e \in Present(doc)
      BY DEF ShapeInv, Claiming
    <2> QED
      BY <2>1, <2>2, <2>3, <2>4 DEF Follows
  <1>4. PaymentsStand'
    BY <1>0, PaymentsLast DEF ShapeInv
  <1>5. CopiesShaped'
    <2>1. Shaped(NewDoc)
      BY DEF ShapeInv, CopiesShaped
    <2>2. \A q \in Requests : Shaped(snap'[q]) /\ Agrees(snap'[q], doc')
      BY <1>3
    <2> QED
      BY <1>2, <2>1, <2>2 DEF CopiesShaped
  <1>6. Requested' /\ Claiming'
    BY <1>3 DEF Requested, Claiming, LeavesFit
  <1> QED
    BY <1>4, <1>5, <1>6 DEF ShapeInv

(* A step whose request keeps its copy, drops it or takes a new one.       *)
LEMMA CopyShape ==
  ASSUME ShapeInv, TypeOK', NEW r \in Requests, Kept(r), Books, LeavesFit(r),
         Follows(doc, doc'), Shaped(doc'), snap'[r] \in {snap[r], NewDoc, doc, doc'}
  PROVE  ShapeInv'
  <1>1. doc \in Document /\ doc' \in Document /\ NewDoc \in Document /\ snap[r] \in Document
    BY FreshTyped DEF TypeOK, ShapeInv
  <1>2. /\ Shaped(doc) /\ Shaped(NewDoc) /\ Shaped(snap[r])
        /\ Agrees(snap[r], doc) /\ Agrees(NewDoc, doc)
    BY DEF ShapeInv, CopiesShaped
  <1>3. Agrees(snap[r], doc') /\ Agrees(NewDoc, doc')
    BY <1>1, <1>2, FollowsAgrees
  <1>4. Agrees(doc, doc') /\ Agrees(doc', doc')
    BY <1>1 DEF Agrees, Follows, Document
  <1> QED
    BY <1>2, <1>3, <1>4, StepShape

(* Root fields alone changed, or nothing.                                  *)
RootStep == doc'.enr = doc.enr /\ doc'.price = doc.price /\ doc'.v = doc.v

LEMMA RootShape ==
  ASSUME ShapeInv, TypeOK', NEW r \in Requests, Kept(r), Books, LeavesFit(r),
         RootStep, snap'[r] \in {snap[r], NewDoc, doc, doc'}
  PROVE  ShapeInv'
  <1>1. Shaped(doc)
    BY DEF ShapeInv, CopiesShaped
  <1>2. Follows(doc, doc') /\ Shaped(doc')
    BY <1>1, RootChange DEF RootStep
  <1> QED
    BY <1>2, CopyShape

(* What an answer leaves behind fits.                                      *)
LEMMA EndFits ==
  ASSUME ShapeInv, NEW r \in Requests, NEW o \in Outcomes, End(r, o)
  PROVE  Kept(r) /\ LeavesFit(r) /\ snap'[r] = NewDoc
  <1>1. pc'[r] = o /\ snap'[r] = NewDoc /\ arg'[r] \in {NoArg, arg[r]} /\ Kept(r)
    BY DEF End, Goto, Keep, Kept, ShapeInv, TypeOK
  <1>2. arg[r].op \in Operations \cup {"none"} /\ (arg[r].op = "refund" => arg[r].id \in RefundIds)
    BY DEF ShapeInv, Requested, Fits
  <1>3. arg'[r].op \in Operations \cup {"none"} /\ (arg'[r].op = "refund" => arg'[r].id \in RefundIds)
    BY <1>1, <1>2 DEF NoArg
  <1> QED
    BY <1>1, <1>3 DEF LeavesFit, Fits, Serves, Outcomes

LEMMA EndShape ==
  ASSUME ShapeInv, TypeOK', NEW r \in Requests, NEW o \in Outcomes, End(r, o), Books,
         Follows(doc, doc'), Shaped(doc')
  PROVE  ShapeInv'
  BY EndFits, CopyShape

LEMMA EndRootShape ==
  ASSUME ShapeInv, TypeOK', NEW r \in Requests, NEW o \in Outcomes, End(r, o), Books, RootStep
  PROVE  ShapeInv'
  BY EndFits, RootShape

(* settlePayment.                                                          *)
LEMMA SettleShape ==
  ASSUME ShapeInv, TypeOK', NEW r \in Requests, Books, NEW undo \in {"payUndo", "undo"},
         Settle(r, undo), Serves(undo, arg[r].op), undo = "undo" => arg[r].e \in Present(snap[r])
  PROVE  ShapeInv'
  <1>1. CASE End(r, "settled") /\ UNCHANGED doc
    BY <1>1, EndRootShape DEF RootStep, Outcomes
  <1>2. CASE Goto(r, undo) /\ UNCHANGED <<doc, arg, snap>>
    <2>1. Kept(r) /\ pc'[r] = undo
      BY <1>2 DEF Kept, Goto, ShapeInv, TypeOK
    <2>2. arg[r].op \in Operations \cup {"none"}
      BY DEF ShapeInv, Requested, Fits
    <2>3. arg[r].op \notin {"cancel", "refund"}
      BY DEF Serves, Outcomes
    <2>4. LeavesFit(r)
      BY <1>2, <2>1, <2>2, <2>3 DEF LeavesFit, Fits
    <2> QED
      BY <1>2, <2>1, <2>4, RootShape DEF RootStep
  <1> QED
    BY <1>1, <1>2 DEF Settle

(* PUT /pay.                                                               *)
LEMMA PayShape ==
  ASSUME ShapeInv, TypeOK', NEW r \in Requests, Books,
         PayRead(r) \/ PayClaim(r) \/ PaySave(r) \/ PaySettle(r) \/ PayUndo(r)
  PROVE  ShapeInv'
  <1>0. TypeOK /\ arg[r].op \in Operations \cup {"none"} /\ snap[r] \in Document /\ doc \in Document
        /\ Shaped(snap[r]) /\ Agrees(snap[r], doc) /\ Fits(pc[r], arg[r], snap[r])
    BY DEF ShapeInv, CopiesShaped, Requested, Fits, TypeOK
  <1>1. CASE Refuse(r)
    BY <1>1, EndRootShape DEF Refuse, RootStep, Outcomes
  <1>2. CASE PayRead(r) /\ ~doc.paid
    <2>1. /\ pc' = [pc EXCEPT ![r] = "payClaim"] /\ UNCHANGED <<doc, snap>> /\ "pay" \in Operations
          /\ \E n : arg' = [arg EXCEPT ![r] = [NoArg EXCEPT !.op = "pay", !.amt = n]]
      BY <1>2 DEF PayRead, Goto, Arrive
    <2>2. Kept(r) /\ pc'[r] = "payClaim" /\ arg'[r].op = "pay"
      BY <1>0, <2>1 DEF Kept, TypeOK, NoArg
    <2>3. LeavesFit(r)
      BY <2>1, <2>2 DEF LeavesFit, Fits, Serves
    <2> QED
      BY <2>1, <2>2, <2>3, RootShape DEF RootStep
  <1>3. CASE PayClaim(r) /\ ~doc.paid
    <2>1. /\ doc' = [doc EXCEPT !.paid = TRUE, !.paidAmount = arg[r].amt]
          /\ snap' = [snap EXCEPT ![r] = doc'] /\ pc' = [pc EXCEPT ![r] = "paySave"] /\ UNCHANGED arg
          /\ pc[r] = "payClaim"
      BY <1>3 DEF PayClaim, Goto, Keep
    <2>2. Kept(r) /\ pc'[r] = "paySave" /\ snap'[r] = doc' /\ RootStep
      BY <1>0, <2>1 DEF Kept, TypeOK, RootStep, Document
    <2>3. arg[r].op = "pay"
      BY <1>0, <2>1 DEF Fits, Serves, Outcomes
    <2>4. LeavesFit(r)
      BY <1>0, <2>1, <2>2, <2>3 DEF LeavesFit, Fits, Serves
    <2> QED
      BY <2>2, <2>4, RootShape
  <1>4. CASE PaySave(r) /\ doc.v = snap[r].v
    <2> DEFINE copy == PaidCopy(snap[r])
               new  == WholeSave(snap[r], copy)
               next == [copy EXCEPT !.v = @ + 1]
    <2>1. copy \in Document /\ Reworks(snap[r], copy) /\ Shaped(copy)
      BY <1>0, FirstSlot, CopiesTyped, PaidCopyShaped
    <2> HIDE DEF copy
    <2>2. Follows(doc, new) /\ Shaped(new) /\ Agrees(next, new) /\ Shaped(next)
      BY <1>0, <1>4, <2>1, WholeSaveFollows
    <2> HIDE DEF new, next
    <2>3. /\ doc' = new /\ snap' = [snap EXCEPT ![r] = next] /\ pc' = [pc EXCEPT ![r] = "paySettle"]
          /\ \E a : arg' = [arg EXCEPT ![r].e = PrimaryOf(copy), ![r].amt = a]
      BY <1>4 DEF PaySave, new, next, copy, Goto, Keep
    <2>4. arg'[r].op = arg[r].op /\ Kept(r) /\ snap'[r] = next /\ pc'[r] = "paySettle"
      BY <1>0, <2>3 DEF Kept, TypeOK, Argument
    <2>5. arg[r].op = "pay"
      BY <1>0, <1>4 DEF PaySave, Fits, Serves, Outcomes
    <2>6. LeavesFit(r)
      BY <1>0, <2>4, <2>5 DEF LeavesFit, Fits, Serves
    <2> QED
      BY <2>2, <2>3, <2>4, <2>6, StepShape
  <1>5. CASE PaySave(r) /\ doc.v # snap[r].v
    BY <1>5, EndRootShape DEF PaySave, RootStep, Outcomes
  <1>6. CASE PaySettle(r)
    <2>1. Serves("payUndo", arg[r].op)
      BY <1>0, <1>6 DEF PaySettle, Fits, Serves, Outcomes
    <2> QED
      BY <1>6, <2>1, SettleShape DEF PaySettle
  <1>7. CASE PayUndo(r)
    <2>1. CASE doc.v = snap[r].v
      <3> DEFINE copy == UnpaidCopy(snap[r])
      <3>1. copy \in Document /\ Reworks(snap[r], copy) /\ Shaped(copy)
        BY <1>0, FirstSlot, CopiesTyped, PaidCopyShaped
      <3> HIDE DEF copy
      <3>2. Follows(doc, WholeSave(snap[r], copy)) /\ Shaped(WholeSave(snap[r], copy))
        BY <1>0, <2>1, <3>1, WholeSaveFollows
      <3>3. doc' = WholeSave(snap[r], copy) /\ End(r, "failed")
        BY <1>7, <2>1 DEF PayUndo, copy
      <3> QED
        BY <3>2, <3>3, EndShape DEF Outcomes
    <2>2. CASE doc.v # snap[r].v
      BY <1>7, <2>2, EndRootShape DEF PayUndo, RootStep, Outcomes
    <2> QED
      BY <2>1, <2>2
  <1> QED
    BY <1>1, <1>2, <1>3, <1>4, <1>5, <1>6, <1>7 DEF PayRead, PayClaim

(* An enrollment is claimed, or a root cache is added up: documents        *)
(* without a new enrollment or root price.                                 *)
LEMMA ClaimedShape ==
  ASSUME NEW d \in Document, Shaped(d), NEW e \in Present(d), NEW c,
         c = [d EXCEPT !.enr = Claimed(d.enr, e)]
  PROVE  c.price = d.price /\ c.v = d.v /\ Present(c) = Present(d) /\ Shaped(c) /\ Follows(d, c)
  <1>0. d.enr \in [Slots -> Enrollment] /\ e \in Slots /\ 1 \in Slots
    BY FirstSlot DEF Document, Present
  <1>1. c.enr = [d.enr EXCEPT ![e] = [d.enr[e] EXCEPT !.paid = TRUE, !.status = "active"]]
        /\ c.price = d.price /\ c.v = d.v
    BY DEF Claimed, Document
  <1>2. c.enr[e] = [d.enr[e] EXCEPT !.paid = TRUE, !.status = "active"]
        /\ \A i \in Slots \ {e} : c.enr[i] = d.enr[i]
    BY <1>0, <1>1
  <1>3. c.enr[e].course = d.enr[e].course /\ c.enr[e].primary = d.enr[e].primary
        /\ c.enr[e].status = "active"
    <2> DEFINE x == d.enr[e]
    <2>1. x \in Enrollment /\ c.enr[e] = [x EXCEPT !.paid = TRUE, !.status = "active"]
      BY <1>0, <1>2
    <2> HIDE DEF x
    <2>2. c.enr[e].course = x.course /\ c.enr[e].primary = x.primary /\ c.enr[e].status = "active"
      BY <2>1 DEF Enrollment
    <2> QED
      BY <2>2 DEF x
  <1>4. Present(c) = Present(d)
    BY <1>2, <1>3 DEF Present
  <1>5. Shaped(c)
    <2>1. \A i \in Slots : c.enr[i].primary = d.enr[i].primary /\ c.enr[i].course = d.enr[i].course
      BY <1>2, <1>3
    <2>2. \A i \in Slots : c.enr[i].status = d.enr[i].status \/ c.enr[i].status = "active"
      BY <1>2, <1>3
    <2>3. \A i \in Slots : c.enr[i].paid => c.enr[i].status \notin {"absent", "refunded"}
      BY <1>2, <1>3 DEF Shaped
    <2> QED
      BY <1>0, <1>1, <1>4, <2>1, <2>2, <2>3 DEF Shaped, PriceOf
  <1>6. Follows(d, c)
    BY <1>1, <1>2, <1>3, <1>4 DEF Follows, Present
  <1> QED
    BY <1>1, <1>4, <1>5, <1>6

LEMMA ScalarsAreRoot ==
  ASSUME doc \in Document, NEW d, NEW c, c.price = d.price
  PROVE  /\ Scalars(d, c).enr = doc.enr /\ Scalars(d, c).v = doc.v
         /\ Scalars(d, c).price = doc.price
  BY DEF Scalars, Document

LEMMA CollectedIsRoot ==
  ASSUME NEW d \in Document, NEW e, NEW amt
  PROVE  /\ CollectedCopy(d, e, amt).enr = d.enr /\ CollectedCopy(d, e, amt).v = d.v
         /\ CollectedCopy(d, e, amt).price = d.price
  BY DEF CollectedCopy, Document

(* PUT /enrollments/:enrollmentId/pay, and the rollback.                   *)
LEMMA EnrShape ==
  ASSUME ShapeInv, TypeOK', NEW r \in Requests, Books,
         \/ \E e \in Slots : EnrClaim(r, e)
         \/ EnrRead(r) \/ EnrSave(r) \/ EnrSettle(r) \/ Undo(r)
  PROVE  ShapeInv'
  <1>0. TypeOK /\ snap[r] \in Document /\ doc \in Document /\ arg[r] \in Argument
        /\ Shaped(snap[r]) /\ Agrees(snap[r], doc) /\ Fits(pc[r], arg[r], snap[r]) /\ Shaped(doc)
    BY DEF ShapeInv, CopiesShaped, Requested, TypeOK
  <1>1. ASSUME NEW e \in Slots, EnrClaim(r, e) PROVE ShapeInv'
    <2>1. CASE Refuse(r)
      BY <2>1, EndRootShape DEF Refuse, RootStep, Outcomes
    <2>2. CASE ~doc.enr[e].paid
      <3>1. /\ doc' = [doc EXCEPT !.enr = Claimed(doc.enr, e)] /\ e \in Present(doc)
            /\ \E n : arg' = [arg EXCEPT ![r] = [NoArg EXCEPT !.op = "enrPay", !.e = e, !.amt = n]]
            /\ pc' = [pc EXCEPT ![r] = "enrRead"] /\ UNCHANGED snap /\ "enrPay" \in Operations
        BY <1>1, <2>2 DEF EnrClaim, Goto, Arrive
      <3>2. Present(doc') = Present(doc) /\ Shaped(doc') /\ Follows(doc, doc')
        BY <1>0, <3>1, ClaimedShape
      <3>3. Kept(r) /\ pc'[r] = "enrRead" /\ arg'[r].op = "enrPay" /\ arg'[r].e = e
        BY <1>0, <3>1 DEF Kept, TypeOK, NoArg
      <3>4. LeavesFit(r)
        BY <3>1, <3>2, <3>3 DEF LeavesFit, Fits, Serves
      <3> QED
        BY <3>1, <3>2, <3>3, <3>4, CopyShape
    <2> QED
      BY <1>1, <2>1, <2>2 DEF EnrClaim
  <1>2. CASE EnrRead(r)
    <2>1. /\ snap' = [snap EXCEPT ![r] = doc] /\ pc' = [pc EXCEPT ![r] = "enrSave"]
          /\ UNCHANGED <<doc, arg>> /\ pc[r] = "enrRead"
      BY <1>2 DEF EnrRead, Goto, Keep
    <2>2. Kept(r) /\ pc'[r] = "enrSave" /\ snap'[r] = doc
      BY <1>0, <2>1 DEF Kept, TypeOK
    <2>3. arg[r].op = "enrPay" /\ "enrPay" \in Operations /\ arg[r].e \in Present(doc)
      BY <1>0, <2>1 DEF Fits, Serves, Outcomes, ShapeInv, Claiming
    <2>4. LeavesFit(r)
      BY <2>1, <2>2, <2>3 DEF LeavesFit, Fits, Serves
    <2> QED
      BY <2>1, <2>2, <2>4, RootShape DEF RootStep
  <1>3. CASE EnrSave(r)
    <2> DEFINE copy == CollectedCopy(snap[r], arg[r].e, arg[r].amt)
    <2>1. copy.enr = snap[r].enr /\ copy.v = snap[r].v /\ copy.price = snap[r].price
      BY <1>0, CollectedIsRoot
    <2>2. doc' = Scalars(snap[r], copy) /\ pc[r] = "enrSave"
          /\ \/ End(r, "ok")
             \/ Goto(r, "enrSettle") /\ Keep(r, copy) /\ UNCHANGED arg
      BY <1>3 DEF EnrSave
    <2> HIDE DEF copy
    <2>3. RootStep
      BY <1>0, <2>1, <2>2, ScalarsAreRoot DEF RootStep
    <2>4. CASE End(r, "ok")
      BY <2>3, <2>4, EndRootShape DEF Outcomes
    <2>5. CASE Goto(r, "enrSettle") /\ Keep(r, copy) /\ UNCHANGED arg
      <3>1. Kept(r) /\ pc'[r] = "enrSettle" /\ snap'[r] = copy /\ arg' = arg
        BY <1>0, <2>5 DEF Kept, TypeOK, Goto, Keep
      <3>2. arg[r].op = "enrPay" /\ "enrPay" \in Operations /\ arg[r].e \in Present(copy)
        BY <1>0, <2>1, <2>2 DEF Fits, Serves, Outcomes, Present
      <3>3. LeavesFit(r)
        BY <3>1, <3>2 DEF LeavesFit, Fits, Serves
      <3>4. Shaped(copy)
        BY <1>0, <2>1, SameShape
      <3>5. Agrees(copy, doc')
        BY <1>0, <2>1, <2>3 DEF Agrees, Present, RootStep
      <3>6. Follows(doc, doc') /\ Shaped(doc')
        BY <1>0, <2>3, RootChange DEF RootStep
      <3> QED
        BY <3>1, <3>3, <3>4, <3>5, <3>6, StepShape
    <2> QED
      BY <2>2, <2>4, <2>5
  <1>4. CASE EnrSettle(r)
    <2>1. Serves("undo", arg[r].op) /\ arg[r].e \in Present(snap[r])
      BY <1>0, <1>4 DEF EnrSettle, Fits, Serves, Outcomes
    <2> QED
      BY <1>4, <2>1, SettleShape DEF EnrSettle
  <1>5. CASE Undo(r)
    <2>1. CASE doc.v = snap[r].v
      <3> DEFINE copy == TakenBack(snap[r], arg[r].e, arg[r].amt)
      <3>1. arg[r].e \in Present(snap[r]) /\ arg[r].amt \in Nat /\ arg[r].e \in Slots
        BY <1>0, <1>5 DEF Undo, Fits, Present, Argument
      <3>2. copy \in Document /\ Reworks(snap[r], copy) /\ Shaped(copy)
        BY <1>0, <3>1, CopiesTyped, TakenBackShaped
      <3> HIDE DEF copy
      <3>3. Follows(doc, WholeSave(snap[r], copy)) /\ Shaped(WholeSave(snap[r], copy))
        BY <1>0, <2>1, <3>2, WholeSaveFollows
      <3>4. doc' = WholeSave(snap[r], copy) /\ End(r, "failed")
        BY <1>5, <2>1 DEF Undo, copy
      <3> QED
        BY <3>3, <3>4, EndShape DEF Outcomes
    <2>2. CASE doc.v # snap[r].v
      BY <1>5, <2>2, EndRootShape DEF Undo, RootStep, Outcomes
    <2> QED
      BY <2>1, <2>2
  <1> QED
    BY <1>1, <1>2, <1>3, <1>4, <1>5

(* A registration appended to a document.                                  *)
LEMMA AppendedShape ==
  ASSUME NEW d \in Document, Shaped(d), NEW e \in Slots \ Present(d), NEW x \in Enrollment,
         x.status \in {"pending_payment", "active"}, ~x.primary, NEW c,
         c.enr = [d.enr EXCEPT ![e] = x], c.price = d.price
  PROVE  Shaped(c) /\ Present(c) = Present(d) \cup {e}
         /\ \A i \in Present(d) : c.enr[i] = d.enr[i]
  <1>0. d.enr \in [Slots -> Enrollment] /\ 1 \in Slots /\ 1 \in Present(d)
    BY FirstSlot DEF Document, Shaped
  <1>1. c.enr[e] = x /\ \A i \in Slots \ {e} : c.enr[i] = d.enr[i]
    BY <1>0
  <1>2. Present(c) = Present(d) \cup {e} /\ \A i \in Present(d) : c.enr[i] = d.enr[i]
    BY <1>1 DEF Present
  <1>3. \A i \in Slots : c.enr[i].primary => i # e
    BY <1>1
  <1>4. Shaped(c)
    BY <1>0, <1>1, <1>2, <1>3 DEF Shaped, PriceOf
  <1> QED
    BY <1>2, <1>4

(* What a saved registration x of request r does at the end of the array.  *)
Appends(r, e, x) ==
  /\ e \in Slots \ Present(doc)
  /\ x \in Enrollment /\ x.course = arg[r].course /\ ~x.primary
  /\ x.status \in {"pending_payment", "active"}
  /\ (x.paid <=> arg[r].op = "addPaid")
  /\ doc'.enr = [doc.enr EXCEPT ![e] = x] /\ doc'.price = doc.price /\ doc'.v = doc.v + 1
  /\ Kept(r)
  /\ \/ End(r, "ok") /\ ~(arg[r].amt > 0)
     \/ /\ arg[r].amt > 0 /\ pc'[r] = "addSettle" /\ arg'[r] = [arg[r] EXCEPT !.e = e]
        /\ snap'[r].enr = [snap[r].enr EXCEPT ![e] = x] /\ snap'[r].price = snap[r].price
        /\ snap'[r].v = snap[r].v + 1

LEMMA AddSaveAppends ==
  ASSUME TypeOK, NEW r \in Requests, AddSave(r)
  PROVE  \E e, x : Appends(r, e, x)
  <1> DEFINE e    == Min(Slots \ Present(doc))
             x    == Registration(arg[r].course, arg[r].op = "addPaid")
             copy == AddedCopy(snap[r], e, x, arg[r].amt)
  <1>1. snap[r] \in Document /\ arg[r].course \in Courses /\ doc \in Document /\ arg[r] \in Argument
        /\ pc \in [Requests -> {"new"} \cup Steps \cup Outcomes]
        /\ arg \in [Requests -> Argument] /\ snap \in [Requests -> Document]
    BY DEF TypeOK, Argument
  <1>2. e \in Slots \ Present(doc)
    <2>1. Slots \ Present(doc) # {}
      BY <1>1, SlotsOfDocument DEF AddSave
    <2> QED
      BY <2>1, MinIsMember
  <1>3. /\ x \in Enrollment /\ x.course = arg[r].course /\ ~x.primary
        /\ x.status \in {"pending_payment", "active"}
        /\ (x.paid <=> arg[r].op = "addPaid")
    <2>1. Pending(arg[r].course, FALSE) \in Enrollment
      BY <1>1, FreshEnrollments
    <2>2. x \in Enrollment
      BY <2>1, OpenedClosedTyped DEF Registration
    <2>3. CASE arg[r].op = "addPaid"
      BY <2>1, <2>2, <2>3 DEF Registration, Opened, Pending, Enrollment
    <2>4. CASE arg[r].op # "addPaid"
      BY <2>2, <2>4 DEF Registration, Pending
    <2> QED
      BY <2>3, <2>4
  <1> HIDE DEF e, x
  <1>4. copy.enr = [snap[r].enr EXCEPT ![e] = x] /\ copy.price = snap[r].price /\ copy.v = snap[r].v
    BY <1>1 DEF AddedCopy, Document
  <1>5. /\ doc' = [Scalars(snap[r], copy) EXCEPT !.enr = [@ EXCEPT ![e] = x], !.v = @ + 1]
        /\ IF arg[r].amt > 0
           THEN /\ snap' = [snap EXCEPT ![r] = [copy EXCEPT !.v = @ + 1]]
                /\ arg' = [arg EXCEPT ![r].e = e]
                /\ pc' = [pc EXCEPT ![r] = "addSettle"]
           ELSE End(r, "ok")
    BY DEF AddSave, e, x, copy, Keep, Goto
  <1>6. [copy EXCEPT !.v = @ + 1].enr = copy.enr /\ [copy EXCEPT !.v = @ + 1].price = copy.price
        /\ [copy EXCEPT !.v = @ + 1].v = copy.v + 1
    BY <1>1 DEF AddedCopy, Document
  <1> HIDE DEF copy
  <1>7. doc'.enr = [doc.enr EXCEPT ![e] = x] /\ doc'.price = doc.price /\ doc'.v = doc.v + 1
    BY <1>1, <1>4, <1>5 DEF Scalars, Document
  <1>8. CASE arg[r].amt > 0
    <2>1. pc'[r] = "addSettle" /\ snap'[r] = [copy EXCEPT !.v = @ + 1] /\ Kept(r)
      BY <1>1, <1>5, <1>8 DEF Kept
    <2>2. arg' = [arg EXCEPT ![r] = [arg[r] EXCEPT !.e = e]]
      BY <1>1, <1>5, <1>8
    <2>3. arg'[r] = [arg[r] EXCEPT !.e = e]
      BY <1>1, <2>2
    <2>4. snap'[r].enr = [snap[r].enr EXCEPT ![e] = x] /\ snap'[r].price = snap[r].price
          /\ snap'[r].v = snap[r].v + 1
      BY <1>4, <1>6, <2>1
    <2> QED
      BY <1>2, <1>3, <1>7, <1>8, <2>1, <2>3, <2>4 DEF Appends
  <1>9. CASE ~(arg[r].amt > 0)
    <2>1. Kept(r) /\ End(r, "ok")
      BY <1>1, <1>5, <1>9 DEF Kept, End, Goto, Keep
    <2> QED
      BY <1>2, <1>3, <1>7, <1>9, <2>1 DEF Appends
  <1> QED
    BY <1>8, <1>9

(* POST /enrollments.                                                      *)
LEMMA AddShape ==
  ASSUME ShapeInv, TypeOK', NEW r \in Requests, Books,
         \/ \E c \in Courses, op \in {"add", "addPaid"} : AddRead(r, c, op)
         \/ AddSave(r) \/ AddSettle(r)
  PROVE  ShapeInv'
  <1>0. TypeOK /\ snap[r] \in Document /\ doc \in Document /\ arg[r] \in Argument
        /\ Shaped(snap[r]) /\ Agrees(snap[r], doc) /\ Fits(pc[r], arg[r], snap[r]) /\ Shaped(doc)
    BY DEF ShapeInv, CopiesShaped, Requested, TypeOK
  <1>1. ASSUME NEW c \in Courses, NEW op \in {"add", "addPaid"}, AddRead(r, c, op)
        PROVE  ShapeInv'
    <2>1. CASE Refuse(r)
      BY <2>1, EndRootShape DEF Refuse, RootStep, Outcomes
    <2>2. CASE ~Duplicate(doc, c)
      <3> DEFINE amt == IF op = "addPaid" THEN Price[c] ELSE 0
      <3>1. /\ arg' = [arg EXCEPT ![r] = [NoArg EXCEPT !.op = op, !.course = c, !.amt = amt]]
            /\ snap' = [snap EXCEPT ![r] = doc] /\ pc' = [pc EXCEPT ![r] = "addSave"]
            /\ UNCHANGED doc /\ op \in Operations
        BY <1>1, <2>2 DEF AddRead, Goto, Keep, Arrive
      <3> HIDE DEF amt
      <3>2. Kept(r) /\ pc'[r] = "addSave" /\ snap'[r] = doc
            /\ arg'[r].op = op /\ arg'[r].course = c /\ arg'[r].amt = amt
        BY <1>0, <3>1 DEF Kept, TypeOK, NoArg
      <3>3. LeavesFit(r)
        BY <3>1, <3>2 DEF LeavesFit, Fits, Serves, amt
      <3> QED
        BY <3>1, <3>2, <3>3, RootShape DEF RootStep
    <2> QED
      BY <1>1, <2>1, <2>2 DEF AddRead
  <1>2. CASE AddSave(r)
    <2>1. PICK e, x : Appends(r, e, x)
      BY <1>0, <1>2, AddSaveAppends
    <2> DEFINE new == doc'
    <2>2. e \in Slots \ Present(doc) /\ x \in Enrollment /\ Shaped(new)
          /\ Present(new) = Present(doc) \cup {e} /\ \A i \in Present(doc) : new.enr[i] = doc.enr[i]
      BY <1>0, <2>1, AppendedShape DEF Appends
    <2>3. new.v = doc.v + 1 /\ Follows(doc, new)
      BY <1>0, <2>1, <2>2 DEF Appends, Follows, Document
    <2>4. CASE End(r, "ok")
      BY <2>2, <2>3, <2>4, EndShape DEF Outcomes
    <2>5. CASE pc'[r] = "addSettle" /\ arg'[r] = [arg[r] EXCEPT !.e = e]
               /\ snap'[r].enr = [snap[r].enr EXCEPT ![e] = x] /\ snap'[r].price = snap[r].price
               /\ snap'[r].v = snap[r].v + 1
      <3> DEFINE next == snap'[r]
      <3>1. e \in Slots \ Present(snap[r])
        BY <1>0, <2>2 DEF Agrees
      <3>2. Shaped(next) /\ Present(next) = Present(snap[r]) \cup {e}
            /\ \A i \in Present(snap[r]) : next.enr[i] = snap[r].enr[i]
        BY <1>0, <2>1, <2>5, <3>1, AppendedShape DEF Appends
      <3>3. Agrees(next, new)
        <4>1. next.v <= new.v
          BY <1>0, <2>3, <2>5 DEF Agrees, Document
        <4>2. next.enr[e] = x /\ new.enr[e] = x
          BY <1>0, <2>1, <2>2, <2>5 DEF Appends, Document
        <4>3. \A i \in Present(next) : i \in Present(new) /\ next.enr[i].course = new.enr[i].course
          BY <1>0, <2>2, <3>2, <4>2 DEF Agrees
        <4>4. next.v = new.v => Present(new) \subseteq Present(next) /\ next.price = new.price
          <5>1. next.v = new.v => snap[r].v = doc.v
            BY <1>0, <2>3, <2>5 DEF Document
          <5> QED
            BY <1>0, <2>1, <2>2, <2>5, <3>2, <5>1 DEF Agrees, Appends
        <4> QED
          BY <4>1, <4>3, <4>4 DEF Agrees
      <3>4. arg[r].op \in {"add", "addPaid"} /\ arg[r].amt > 0 /\ pc[r] = "addSave"
        BY <1>0, <1>2, <2>1, <2>5 DEF AddSave, Fits, Serves, Outcomes, Appends, End, Goto, TypeOK
      <3>5. arg[r].op = "addPaid" /\ "addPaid" \in Operations
        BY <1>0, <3>4 DEF Fits
      <3>6. arg'[r].op = "addPaid" /\ arg'[r].e = e
        BY <1>0, <2>5, <3>5 DEF Argument
      <3>7. LeavesFit(r)
        BY <2>2, <2>5, <3>2, <3>5, <3>6 DEF LeavesFit, Fits, Serves
      <3> QED
        BY <2>1, <2>2, <2>3, <3>2, <3>3, <3>7, StepShape DEF Appends
    <2> QED
      BY <2>1, <2>4, <2>5 DEF Appends
  <1>3. CASE AddSettle(r)
    <2>1. Serves("undo", arg[r].op) /\ arg[r].e \in Present(snap[r])
      BY <1>0, <1>3 DEF AddSettle, Fits, Serves, Outcomes
    <2> QED
      BY <1>3, <2>1, SettleShape DEF AddSettle
  <1> QED
    BY <1>1, <1>2, <1>3

(* postRefund.  A refund that is done goes on, answers, or is restored.    *)
LEMMA AfterRefundShape ==
  ASSUME ShapeInv, TypeOK', NEW r \in Requests, Books, UNCHANGED doc,
         pc[r] \in {"postRefund", "countNotes", "issueNote", "voidRefund"},
         (\E b \in BOOLEAN : AfterRefund(r, b)) \/ RefundThrows(r)
  PROVE  ShapeInv'
  <1>0. TypeOK /\ Fits(pc[r], arg[r], snap[r])
    BY DEF ShapeInv, Requested
  <1>1. \/ \E o \in Outcomes : End(r, o)
        \/ /\ UNCHANGED <<arg, snap>>
           /\ \/ arg[r].op = "cancel" /\ Goto(r, "cancelSave")
              \/ arg[r].op # "cancel" /\ (Goto(r, "restored") \/ Goto(r, "restore"))
    BY DEF AfterRefund, RefundThrows, Outcomes
  <1>2. ASSUME NEW o \in Outcomes, End(r, o) PROVE ShapeInv'
    BY <1>2, EndRootShape DEF RootStep
  <1>3. ASSUME NEW step \in {"cancelSave", "restored", "restore"}, Goto(r, step), UNCHANGED <<arg, snap>>,
               step = "cancelSave" <=> arg[r].op = "cancel"
        PROVE  ShapeInv'
    <2>1. Kept(r) /\ pc'[r] = step
      BY <1>0, <1>3 DEF Kept, Goto, TypeOK
    <2>2. arg[r].op \in {"refund", "cancel"}
      BY <1>0 DEF Fits, Serves, Outcomes
    <2>3. arg[r].op = "cancel" => arg[r].e \in Present(snap[r])
      BY <1>0 DEF Fits, Outcomes
    <2>4. LeavesFit(r)
      BY <1>0, <1>3, <2>1, <2>2, <2>3 DEF LeavesFit, Fits, Serves
    <2> QED
      BY <1>3, <2>1, <2>4, RootShape DEF RootStep
  <1> QED
    BY <1>1, <1>2, <1>3

LEMMA PostRefundShape ==
  ASSUME ShapeInv, TypeOK', NEW r \in Requests, Books,
         PostRefund(r) \/ CountNotes(r) \/ IssueNote(r) \/ VoidRefund(r)
  PROVE  ShapeInv'
  <1>0. TypeOK /\ Fits(pc[r], arg[r], snap[r]) /\ arg[r] \in Argument
    BY DEF ShapeInv, Requested, TypeOK
  <1>1. /\ UNCHANGED doc
        /\ pc[r] \in {"postRefund", "countNotes", "issueNote", "voidRefund"}
    BY DEF PostRefund, CountNotes, IssueNote, VoidRefund
  <1>2. \/ (\E b \in BOOLEAN : AfterRefund(r, b)) \/ RefundThrows(r)
        \/ /\ UNCHANGED snap /\ \E n : arg' \in {arg, [arg EXCEPT ![r].note = n]}
           /\ \E step \in {"countNotes", "issueNote", "voidRefund"} : Goto(r, step)
    <2>1. CASE PostRefund(r)
      BY <2>1 DEF PostRefund
    <2>2. CASE CountNotes(r)
      BY <2>2 DEF CountNotes
    <2>3. CASE IssueNote(r)
      BY <2>3 DEF IssueNote
    <2>4. CASE VoidRefund(r)
      BY <2>4 DEF VoidRefund
    <2> QED
      BY <2>1, <2>2, <2>3, <2>4
  <1>3. ASSUME NEW n, arg' \in {arg, [arg EXCEPT ![r].note = n]}, UNCHANGED snap,
               NEW step \in {"countNotes", "issueNote", "voidRefund"}, Goto(r, step)
        PROVE  ShapeInv'
    <2>1. Kept(r) /\ pc'[r] = step /\ snap'[r] = snap[r]
          /\ arg'[r].op = arg[r].op /\ arg'[r].e = arg[r].e /\ arg'[r].id = arg[r].id
      BY <1>0, <1>3 DEF Kept, Goto, TypeOK, Argument
    <2>2. arg[r].op \in {"refund", "cancel"} /\ arg[r].op \in Operations \cup {"none"}
          /\ (arg[r].op = "cancel" => arg[r].e \in Present(snap[r]))
          /\ (arg[r].op = "refund" => arg[r].id \in RefundIds)
      BY <1>0, <1>1 DEF Fits, Serves, Outcomes
    <2>3. LeavesFit(r)
      BY <2>1, <2>2 DEF LeavesFit, Fits, Serves
    <2> QED
      BY <1>1, <2>1, <2>3, RootShape DEF RootStep
  <1> QED
    BY <1>1, <1>2, <1>3, AfterRefundShape

(* DELETE /enrollments/:enrollmentId.                                      *)
LEMMA CancelShape ==
  ASSUME ShapeInv, TypeOK', NEW r \in Requests, Books,
         (\E e \in Slots, amt \in Amounts : CancelRead(r, e, amt)) \/ CancelSave(r)
  PROVE  ShapeInv'
  <1>0. TypeOK /\ snap[r] \in Document /\ doc \in Document /\ arg[r] \in Argument
        /\ Shaped(snap[r]) /\ Agrees(snap[r], doc) /\ Fits(pc[r], arg[r], snap[r]) /\ Shaped(doc)
    BY DEF ShapeInv, CopiesShaped, Requested, TypeOK
  <1>1. ASSUME NEW e \in Slots, NEW amt \in Amounts, CancelRead(r, e, amt)
        PROVE  ShapeInv'
    <2>1. CASE Refuse(r)
      BY <2>1, EndRootShape DEF Refuse, RootStep, Outcomes
    <2>2. CASE doc.enr[e].status # "cancelled"
      <3> DEFINE step == IF amt > 0 THEN "postRefund" ELSE "cancelSave"
      <3>1. /\ arg' = [arg EXCEPT ![r] = [NoArg EXCEPT !.op = "cancel", !.e = e, !.amt = amt]]
            /\ snap' = [snap EXCEPT ![r] = doc] /\ pc' = [pc EXCEPT ![r] = step]
            /\ UNCHANGED doc /\ "cancel" \in Operations /\ e \in Present(doc)
        BY <1>1, <2>2 DEF CancelRead, Goto, Keep, Arrive
      <3> HIDE DEF step
      <3>2. Kept(r) /\ pc'[r] = step /\ snap'[r] = doc
            /\ arg'[r].op = "cancel" /\ arg'[r].e = e /\ arg'[r].amt = amt
        BY <1>0, <3>1 DEF Kept, TypeOK, NoArg
      <3>3. step = "cancelSave" \/ (step = "postRefund" /\ amt > 0)
        BY DEF step
      <3>4. LeavesFit(r)
        BY <3>1, <3>2, <3>3 DEF LeavesFit, Fits, Serves
      <3> QED
        BY <3>1, <3>2, <3>4, RootShape DEF RootStep
    <2> QED
      BY <1>1, <2>1, <2>2 DEF CancelRead
  <1>2. CASE CancelSave(r) /\ doc.v = snap[r].v
    <2> DEFINE copy == Cancelled(snap[r], arg[r].e, arg[r].amt)
    <2>1. arg[r].op = "cancel" /\ "cancel" \in Operations /\ arg[r].e \in Present(snap[r])
          /\ arg[r].amt \in Nat /\ arg[r].e \in Slots
      BY <1>0, <1>2 DEF CancelSave, Fits, Serves, Outcomes, Present, Argument
    <2>2. copy \in Document /\ Reworks(snap[r], copy) /\ Shaped(copy)
      BY <1>0, <2>1, CopiesTyped, CancelledShaped
    <2> HIDE DEF copy
    <2>3. Follows(doc, WholeSave(snap[r], copy)) /\ Shaped(WholeSave(snap[r], copy))
      BY <1>0, <1>2, <2>2, WholeSaveFollows
    <2>4. doc' = WholeSave(snap[r], copy) /\ End(r, "ok")
      BY <1>2 DEF CancelSave, copy
    <2> QED
      BY <2>3, <2>4, EndShape DEF Outcomes
  <1>3. CASE CancelSave(r) /\ doc.v # snap[r].v
    BY <1>3, EndRootShape DEF CancelSave, RootStep, Outcomes
  <1> QED
    BY <1>1, <1>2, <1>3

(* PUT /refund.                                                            *)
LEMMA RefundShape ==
  ASSUME ShapeInv, TypeOK', NEW r \in Requests, Books,
         \/ \E amt \in Amounts \ {0}, id \in RefundIds : RefundRead(r, amt, id)
         \/ RefundFill(r) \/ RefundClaim(r) \/ RefundSave(r) \/ RefundRestore(r)
  PROVE  ShapeInv'
  <1>0. TypeOK /\ snap[r] \in Document /\ doc \in Document /\ arg[r] \in Argument
        /\ Shaped(snap[r]) /\ Agrees(snap[r], doc) /\ Fits(pc[r], arg[r], snap[r]) /\ Shaped(doc)
        /\ arg[r].op \in Operations \cup {"none"}
    BY DEF ShapeInv, CopiesShaped, Requested, TypeOK, Fits
  <1>1. CASE Refuse(r)
    BY <1>1, EndRootShape DEF Refuse, RootStep, Outcomes
  <1>2. ASSUME NEW amt \in Amounts \ {0}, NEW id \in RefundIds, RefundRead(r, amt, id), ~Refuse(r)
        PROVE  ShapeInv'
    <2>1. PICK step \in {"refundClaim", "refundFill"} :
            /\ \E a, b : arg' = [arg EXCEPT ![r] = [NoArg EXCEPT !.op = "refund", !.id = id, !.amt = amt,
                                                      !.avail = a, !.full = b]]
            /\ pc' = [pc EXCEPT ![r] = step] /\ UNCHANGED <<doc, snap>> /\ "refund" \in Operations
      BY <1>2 DEF RefundRead, Goto, Arrive
    <2>2. Kept(r) /\ pc'[r] = step /\ arg'[r].op = "refund" /\ arg'[r].amt = amt /\ amt > 0
          /\ arg'[r].id = id
      BY <1>0, <2>1, TuitionAssumption DEF Kept, TypeOK, NoArg
    <2>3. LeavesFit(r)
      BY <2>1, <2>2 DEF LeavesFit, Fits, Serves
    <2> QED
      BY <2>1, <2>2, <2>3, RootShape DEF RootStep
  <1>3. CASE RefundFill(r)
    <2>1. doc' \in {doc, [doc EXCEPT !.paidAmount = arg[r].avail]} /\ pc[r] = "refundFill"
          /\ pc' = [pc EXCEPT ![r] = "refundClaim"] /\ UNCHANGED <<arg, snap>>
      BY <1>3 DEF RefundFill, Goto
    <2>2. Kept(r) /\ pc'[r] = "refundClaim" /\ RootStep
      BY <1>0, <2>1 DEF Kept, TypeOK, RootStep, Document
    <2>3. arg[r].op = "refund"
      BY <1>0, <2>1 DEF Fits, Serves, Outcomes
    <2>4. LeavesFit(r)
      BY <1>0, <2>1, <2>2, <2>3 DEF LeavesFit, Fits, Serves
    <2> QED
      BY <2>1, <2>2, <2>4, RootShape
  <1>4. CASE RefundClaim(r) /\ ~Refuse(r)
    <2>1. PICK step \in {"refundSave", "postRefund"} :
            /\ \E p, n : doc' \in {[doc EXCEPT !.paid = p, !.paidAmount = n], [doc EXCEPT !.paidAmount = n]}
            /\ snap' = [snap EXCEPT ![r] = doc'] /\ pc' = [pc EXCEPT ![r] = step] /\ UNCHANGED arg
            /\ pc[r] = "refundClaim"
      BY <1>4 DEF RefundClaim, Goto, Keep
    <2>2. Kept(r) /\ pc'[r] = step /\ snap'[r] = doc' /\ RootStep
      BY <1>0, <2>1 DEF Kept, TypeOK, RootStep, Document
    <2>3. arg[r].op = "refund"
      BY <1>0, <2>1 DEF Fits, Serves, Outcomes
    <2>4. LeavesFit(r)
      BY <1>0, <2>1, <2>2, <2>3 DEF LeavesFit, Fits, Serves
    <2> QED
      BY <2>2, <2>4, RootShape
  <1>5. CASE RefundSave(r) /\ doc.v = snap[r].v
    <2> DEFINE copy == RefundedCopy(snap[r])
    <2>1. arg[r].op = "refund" /\ "refund" \in Operations
      BY <1>0, <1>5 DEF RefundSave, Fits, Serves, Outcomes
    <2>2. copy \in Document /\ Reworks(snap[r], copy) /\ Shaped(copy)
      BY <1>0, <2>1, FirstSlot, CopiesTyped, RefundedCopyShaped
    <2> HIDE DEF copy
    <2>3. Follows(doc, WholeSave(snap[r], copy)) /\ Shaped(WholeSave(snap[r], copy))
      BY <1>0, <1>5, <2>2, WholeSaveFollows
    <2>4. doc' = WholeSave(snap[r], copy) /\ pc' = [pc EXCEPT ![r] = "postRefund"]
          /\ UNCHANGED <<arg, snap>> /\ pc[r] = "refundSave"
      BY <1>5 DEF RefundSave, copy, Goto
    <2>5. Kept(r) /\ pc'[r] = "postRefund" /\ snap'[r] = snap[r]
      BY <1>0, <2>4 DEF Kept, TypeOK
    <2>6. LeavesFit(r)
      BY <1>0, <2>1, <2>4, <2>5 DEF LeavesFit, Fits, Serves
    <2> QED
      BY <2>3, <2>4, <2>5, <2>6, CopyShape
  <1>6. CASE RefundSave(r) /\ doc.v # snap[r].v
    BY <1>6, EndRootShape DEF RefundSave, RootStep, Outcomes
  <1>7. CASE RefundRestore(r)
    <2>1. RootStep
      BY <1>0, <1>7 DEF RefundRestore, RootStep, Document
    <2>2. \E o \in Outcomes : End(r, o)
      BY <1>7 DEF RefundRestore, Outcomes
    <2> QED
      BY <2>1, <2>2, EndRootShape
  <1> QED
    BY <1>1, <1>2, <1>3, <1>4, <1>5, <1>6, <1>7

(* POST /heal-orphans, and a crash.                                        *)
LEMMA HealShape ==
  ASSUME ShapeInv, TypeOK', NEW r \in Requests, Books,
         HealRead(r) \/ HealCheck(r) \/ HealPost(r) \/ Crash(r)
  PROVE  ShapeInv'
  <1>0. TypeOK /\ Fits(pc[r], arg[r], snap[r]) /\ arg[r] \in Argument
    BY DEF ShapeInv, Requested, TypeOK
  <1>1. CASE HealRead(r)
    <2>1. PICK step \in {"healCheck"} :
            /\ \E S : arg' = [arg EXCEPT ![r] = [NoArg EXCEPT !.op = "heal", !.todo = S]]
            /\ pc' = [pc EXCEPT ![r] = step] /\ snap' = [snap EXCEPT ![r] = doc]
            /\ UNCHANGED doc /\ "heal" \in Operations
      BY <1>1 DEF HealRead, Goto, Keep, Arrive
    <2>2. Kept(r) /\ pc'[r] = step /\ arg'[r].op = "heal" /\ snap'[r] = doc
      BY <1>0, <2>1 DEF Kept, TypeOK, NoArg
    <2>3. LeavesFit(r)
      BY <2>1, <2>2 DEF LeavesFit, Fits, Serves
    <2> QED
      BY <2>1, <2>2, <2>3, RootShape DEF RootStep
  <1>2. ASSUME NEW S, arg' = [arg EXCEPT ![r].todo = S], UNCHANGED <<doc, snap>>,
               pc[r] \in {"healCheck", "healPost"}, pc' = [pc EXCEPT ![r] = "healPost"]
        PROVE  ShapeInv'
    <2>1. Kept(r) /\ pc'[r] = "healPost" /\ snap'[r] = snap[r] /\ arg'[r].op = arg[r].op
      BY <1>0, <1>2 DEF Kept, TypeOK, Argument
    <2>2. arg[r].op = "heal" /\ "heal" \in Operations
      BY <1>0, <1>2 DEF Fits, Serves, Outcomes
    <2>3. LeavesFit(r)
      BY <2>1, <2>2 DEF LeavesFit, Fits, Serves
    <2> QED
      BY <1>2, <2>1, <2>3, RootShape DEF RootStep
  <1>3. CASE HealCheck(r)
    <2>1. \E S : arg' = [arg EXCEPT ![r].todo = S]
      BY <1>3 DEF HealCheck
    <2>2. UNCHANGED <<doc, snap>> /\ pc[r] = "healCheck" /\ pc' = [pc EXCEPT ![r] = "healPost"]
      BY <1>3 DEF HealCheck, Goto
    <2> QED
      BY <1>2, <2>1, <2>2
  <1>4. CASE HealPost(r)
    <2>1. CASE arg[r].todo = {}
      BY <1>4, <2>1, EndRootShape DEF HealPost, RootStep, Outcomes
    <2>2. CASE arg[r].todo # {}
      <3>1. \E S : arg' = [arg EXCEPT ![r].todo = S]
        BY <1>4, <2>2 DEF HealPost
      <3>2. UNCHANGED <<doc, snap, pc>> /\ pc[r] = "healPost"
        BY <1>4, <2>2 DEF HealPost
      <3>3. pc' = [pc EXCEPT ![r] = "healPost"]
        BY <1>0, <3>2 DEF TypeOK
      <3> QED
        BY <1>2, <3>1, <3>2, <3>3
    <2> QED
      BY <2>1, <2>2
  <1>5. CASE Crash(r)
    BY <1>5, EndRootShape DEF Crash, RootStep, Outcomes
  <1> QED
    BY <1>1, <1>3, <1>4, <1>5

LEMMA InitShape == Init => ShapeInv
  <1> SUFFICES ASSUME Init PROVE ShapeInv
    OBVIOUS
  <1>1. TypeOK
    BY InitType
  <1>2. 1 \in Slots /\ FirstCourse \in Courses
    BY FirstSlot, TuitionAssumption
  <1>3. Shaped(NewDoc)
    <2>1. NewDoc.enr = [e \in Slots |-> IF e = 1 THEN Pending(FirstCourse, TRUE) ELSE Absent]
          /\ NewDoc.price = Price[FirstCourse]
      BY DEF NewDoc
    <2>2. NewDoc.enr[1] = Pending(FirstCourse, TRUE) /\ \A e \in Slots \ {1} : NewDoc.enr[e] = Absent
      BY <1>2, <2>1
    <2>3. /\ NewDoc.enr[1].status = "pending_payment" /\ NewDoc.enr[1].primary
          /\ ~NewDoc.enr[1].paid /\ NewDoc.enr[1].course = FirstCourse
          /\ \A e \in Slots \ {1} : /\ NewDoc.enr[e].status = "absent"
                                    /\ ~NewDoc.enr[e].primary /\ ~NewDoc.enr[e].paid
      BY <2>2 DEF Pending, Absent
    <2> QED
      BY <1>2, <2>1, <2>3 DEF Shaped, Present, PriceOf
  <1>4. Agrees(NewDoc, NewDoc)
    BY FreshTyped DEF Agrees, Document
  <1>5. Fits("new", NoArg, NewDoc)
    BY DEF Fits, NoArg, Serves
  <1>6. CopiesShaped /\ Requested /\ Claiming
    BY <1>3, <1>4, <1>5 DEF Init, CopiesShaped, Requested, Claiming
  <1>7. PaymentsStand
    BY DEF Init, PaymentsStand, PaymentKeys, Keys, NoEntry
  <1> QED
    BY <1>1, <1>6, <1>7 DEF ShapeInv

LEMMA StutterShape == ShapeInv /\ UNCHANGED vars => ShapeInv'
  BY DEF ShapeInv, TypeOK, CopiesShaped, Requested, Claiming, PaymentsStand, vars, locals

LEMMA NextShape ==
  ASSUME ShapeInv, NEW r \in Requests, Begin(r) \/ Continue(r) \/ Crash(r)
  PROVE  ShapeInv' /\ Books
  <1>1. TypeOK /\ Next
    BY DEF ShapeInv, Next
  <1>2. TypeOK' /\ Books
    BY <1>1, NextType, StepBooks
  <1>3. CASE Begin(r)
    BY <1>2, <1>3, PayShape, EnrShape, AddShape, CancelShape, RefundShape, HealShape DEF Begin
  <1>4. CASE Continue(r)
    BY <1>2, <1>4, PayShape, EnrShape, AddShape, PostRefundShape, CancelShape, RefundShape, HealShape
       DEF Continue
  <1>5. CASE Crash(r)
    BY <1>2, <1>5, HealShape
  <1> QED
    BY <1>2, <1>3, <1>4, <1>5

(* A void by hand changes no document.                                     *)
LEMMA VoidShape ==
  ASSUME ShapeInv, NEW k \in Keys, LedgerVoid(k)
  PROVE  ShapeInv'
  <1>1. TypeOK'
    BY NextType DEF ShapeInv, Next
  <1> QED
    BY <1>1 DEF LedgerVoid, ShapeInv, CopiesShaped, Requested, Claiming, PaymentsStand, locals

(* Every copy of the document that a handler works on is well-shaped and   *)
(* consistent with the document, in every reachable state.                 *)
THEOREM ShapeInvariance == Spec => []ShapeInv
  <1>1. ShapeInv /\ [Next]_vars => ShapeInv'
    BY StutterShape, NextShape, VoidShape DEF Next
  <1> QED
    BY <1>1, InitShape, PTL DEF Spec

(* A step leaves the other requests alone, and counts the fault it has.    *)
LEMMA StepKept ==
  ASSUME TypeOK, NEW r \in Requests, Begin(r) \/ Continue(r) \/ Crash(r)
  PROVE  Kept(r) /\ (UNCHANGED faults \/ \E kind : Fault(kind))
  <1> USE DEF Kept, End, Goto, Keep, Refuse
  <1> DEFINE Goal == Kept(r) /\ (UNCHANGED faults \/ \E kind : Fault(kind))
  <1>0. pc \in [Requests -> {"new"} \cup Steps \cup Outcomes] /\ arg \in [Requests -> Argument]
        /\ snap \in [Requests -> Document]
    BY DEF TypeOK
  <1>1. CASE PayRead(r) \/ PayClaim(r) \/ PayUndo(r)
    BY <1>0, <1>1 DEF PayRead, PayClaim, PayUndo
  <1>2. CASE PaySave(r)
    BY <1>0, <1>2 DEF PaySave
  <1>3. ASSUME NEW undo, Settle(r, undo) PROVE Goal
    BY <1>0, <1>3 DEF Settle
  <1>4. CASE PaySettle(r) \/ EnrSettle(r) \/ AddSettle(r)
    BY <1>3, <1>4 DEF PaySettle, EnrSettle, AddSettle
  <1>5. CASE (\E e \in Slots : EnrClaim(r, e)) \/ EnrRead(r)
    BY <1>0, <1>5 DEF EnrClaim, EnrRead
  <1>6. CASE EnrSave(r) \/ Undo(r)
    BY <1>0, <1>6 DEF EnrSave, Undo
  <1>7. CASE \E c \in Courses, op \in {"add", "addPaid"} : AddRead(r, c, op)
    BY <1>0, <1>7 DEF AddRead
  <1>8. CASE AddSave(r)
    BY <1>0, <1>8 DEF AddSave
  <1>9. ASSUME (\E b : AfterRefund(r, b)) \/ RefundThrows(r) PROVE Kept(r)
    BY <1>0, <1>9 DEF AfterRefund, RefundThrows
  <1>10. CASE PostRefund(r)
    <2>1. Kept(r)
      BY <1>0, <1>9, <1>10 DEF PostRefund
    <2>2. UNCHANGED faults \/ \E kind : Fault(kind)
      BY <1>10 DEF PostRefund
    <2> QED
      BY <2>1, <2>2
  <1>11. CASE CountNotes(r)
    BY <1>0, <1>11 DEF CountNotes
  <1>12. CASE IssueNote(r)
    <2>1. Kept(r)
      BY <1>0, <1>9, <1>12 DEF IssueNote
    <2>2. UNCHANGED faults \/ \E kind : Fault(kind)
      BY <1>12 DEF IssueNote
    <2> QED
      BY <2>1, <2>2
  <1>13. CASE VoidRefund(r)
    <2>1. Kept(r)
      BY <1>0, <1>9, <1>13 DEF VoidRefund
    <2>2. UNCHANGED faults \/ \E kind : Fault(kind)
      BY <1>13 DEF VoidRefund
    <2> QED
      BY <2>1, <2>2
  <1>14. CASE (\E e \in Slots, amt \in Amounts : CancelRead(r, e, amt)) \/ CancelSave(r)
    BY <1>0, <1>14 DEF CancelRead, CancelSave
  <1>15. CASE \E amt \in Amounts \ {0}, id \in RefundIds : RefundRead(r, amt, id)
    BY <1>0, <1>15 DEF RefundRead
  <1>16. CASE RefundFill(r) \/ RefundClaim(r) \/ RefundSave(r) \/ RefundRestore(r)
    BY <1>0, <1>16 DEF RefundFill, RefundClaim, RefundSave, RefundRestore
  <1>17. CASE HealRead(r) \/ HealCheck(r)
    BY <1>0, <1>17 DEF HealRead, HealCheck
  <1>18. CASE HealPost(r)
    <2>1. CASE arg[r].todo = {}
      BY <1>0, <1>18, <2>1 DEF HealPost
    <2>2. CASE arg[r].todo # {}
      <3>1. \E S : arg' = [arg EXCEPT ![r].todo = S]
        BY <1>18, <2>2 DEF HealPost
      <3>2. UNCHANGED <<pc, snap>> /\ (UNCHANGED faults \/ \E kind : Fault(kind))
        BY <1>18, <2>2 DEF HealPost
      <3> QED
        BY <1>0, <3>1, <3>2
    <2> QED
      BY <2>1, <2>2
  <1>19. CASE Crash(r)
    BY <1>0, <1>19 DEF Crash
  <1>20. CASE Begin(r)
    BY <1>1, <1>5, <1>7, <1>14, <1>15, <1>17, <1>20 DEF Begin
  <1>21. CASE Continue(r)
    BY <1>1, <1>2, <1>4, <1>5, <1>6, <1>8, <1>10, <1>11, <1>12, <1>13, <1>14, <1>16, <1>17, <1>18,
       <1>21 DEF Continue
  <1> QED
    BY <1>19, <1>20, <1>21

(* Without a fault there was none before.                                  *)
LEMMA NoFault ==
  ASSUME TypeOK, faults' = 0
  PROVE  /\ \A kind : ~Fault(kind)
         /\ UNCHANGED faults \/ (\E kind : Fault(kind)) => faults = 0
  BY TuitionAssumption DEF TypeOK, Fault

-----------------------------------------------------------------------------
(* What is open as paid is backed: a payment is in the ledger, or a        *)
(* request has promised to book one.  A refund leaves the payment where it *)
(* is, so an enrollment once backed stays backed, and no request need know *)
(* which of the two holds.  Cancellations can leave the root without a     *)
(* price, and PUT /pay then opens the primary enrollment for nothing; that *)
(* enrollment has to be backed before, which a refund's reopening breaks.  *)
Promising == {"enrRead", "enrSave", "enrSettle", "addSettle", "paySettle"}

Backed == {e \in Slots : \/ Covered(e)
                         \/ \E r \in Requests : /\ pc[r] \in Promising
                                                /\ arg[r].e = e /\ arg[r].amt > 0}

(* Set B backs what document d has open as paid, or would for nothing.     *)
Backs(d, B) ==
  \A e \in InEffect(d) :
    PriceOf(d, e) > 0 /\ (d.enr[e].paid \/ (PayOpens(d, e) /\ d.price = 0)) => e \in B

(* So it does for what a request is about to take back or give back.       *)
Owes(step, a) == step = "undo" \/ (a.op = "cancel" /\ a.amt > 0)

BackedInv ==
  faults = 0 =>
    /\ Backs(doc, Backed) /\ \A r \in Requests : Backs(snap[r], Backed)
    /\ \A r \in Requests : Owes(pc[r], arg[r]) => arg[r].e \in Backed
    /\ \A e \in Slots : Free(ledger, <<"cancel", e>>) \/ e \in Backed

(* The step of r keeps its promise, or makes it good.                      *)
HandsOver(r) ==
  pc[r] \in Promising /\ arg[r].amt > 0 =>
    \/ pc'[r] \in Promising /\ arg'[r] = arg[r]
    \/ \E k \in PaymentsOf(arg[r].e) : Posted(ledger', k)

(* The step of r, taken without a fault, in a backed state.                *)
Calm(r) == "void" \notin Operations /\ ShapeInv /\ BackedInv /\ faults = 0 /\ Kept(r) /\ Books

(* What else it leaves is backed when the backing has grown.               *)
LEMMA StepBacked ==
  ASSUME NEW r \in Requests, Calm(r), Backed \subseteq Backed',
         Backs(doc', Backed'), Backs(snap'[r], Backed'),
         Owes(pc'[r], arg'[r]) => arg'[r].e \in Backed',
         \A e \in Slots : \/ Free(ledger, <<"cancel", e>>) => Free(ledger', <<"cancel", e>>)
                          \/ e \in Backed'
  PROVE  BackedInv'
  <1> DEFINE B == Backed
             C == Backed'
  <1>1. /\ \A q \in Requests : Backs(snap[q], B) /\ (Owes(pc[q], arg[q]) => arg[q].e \in B)
        /\ \A e \in Slots : Free(ledger, <<"cancel", e>>) \/ e \in B
    BY DEF Calm, BackedInv
  <1>2. B \subseteq C
    OBVIOUS
  <1> HIDE DEF B, C
  <1>3. \A q \in Requests : Backs(snap[q], C)
    BY <1>1, <1>2 DEF Backs
  <1>4. \A q \in Requests \ {r} : Backs(snap'[q], C) /\ (Owes(pc'[q], arg'[q]) => arg'[q].e \in C)
    BY <1>1, <1>2, <1>3 DEF Calm, Kept
  <1>5. \A e \in Slots : Free(ledger', <<"cancel", e>>) \/ e \in C
    BY <1>1, <1>2 DEF C
  <1> QED
    BY <1>4, <1>5 DEF BackedInv, C

(* Such a step takes no backing away.                                      *)
LEMMA BackedStays ==
  ASSUME NEW r \in Requests, Calm(r),
         HandsOver(r)
  PROVE  Backed \subseteq Backed'
  <1> SUFFICES ASSUME NEW e \in Backed PROVE e \in Backed'
    OBVIOUS
  <1>0. TypeOK /\ PaymentsStand /\ Books /\ Kept(r)
    BY DEF Calm, ShapeInv
  <1>1. CASE Covered(e)
    <2>1. PICK k \in PaymentsOf(e) : Posted(ledger, k)
      BY <1>1 DEF Covered
    <2>2. k \in PaymentKeys
      BY <2>1 DEF PaymentsOf, PaymentKeys, Backed
    <2>3. Posted(ledger', k)
      BY <1>0, <2>1, <2>2, PaymentsLast DEF Posted
    <2> QED
      BY <2>1, <2>3 DEF Backed, Covered
  <1>2. ASSUME NEW q \in Requests, pc[q] \in Promising, arg[q].e = e, arg[q].amt > 0
        PROVE  e \in Backed'
    <2>1. \/ pc'[q] \in Promising /\ arg'[q] = arg[q]
          \/ \E k \in PaymentsOf(arg[q].e) : Posted(ledger', k)
      BY <1>0, <1>2 DEF Kept, HandsOver
    <2> QED
      BY <1>2, <2>1 DEF Backed, Covered
  <1> QED
    BY <1>1, <1>2 DEF Backed

(* The keys of cancellations, which only postRefund fills.                 *)
CancelsFree == \A e \in Slots : Free(ledger, <<"cancel", e>>) => Free(ledger', <<"cancel", e>>)

(* Whether a document is backed depends on its enrollments and root price. *)
LEMMA SameBacks ==
  ASSUME NEW d, NEW c, NEW B, NEW C, c.enr = d.enr, c.price = d.price, B \subseteq C, Backs(d, B)
  PROVE  Backs(c, C)
  BY DEF Backs, InEffect, Present, PriceOf, PayOpens

(* A new document has nothing to back.                                     *)
LEMMA NewDocBacks ==
  ASSUME NEW B
  PROVE  Backs(NewDoc, B)
  <1>1. \A e \in Slots : NewDoc.enr[e] = IF e = 1 THEN Pending(FirstCourse, TRUE) ELSE Absent
    BY DEF NewDoc
  <1>2. \A e \in InEffect(NewDoc) : ~NewDoc.enr[e].paid /\ PriceOf(NewDoc, e) = NewDoc.price
    <2>1. NewDoc.price = Price[FirstCourse]
      BY DEF NewDoc
    <2> QED
      BY <1>1, <2>1 DEF InEffect, Present, PriceOf, Pending, Absent
  <1>3. \A e \in InEffect(NewDoc) : ~(PriceOf(NewDoc, e) > 0 /\ NewDoc.price = 0)
    BY <1>2
  <1> QED
    BY <1>2, <1>3 DEF Backs

(* A step that neither promises nor takes a promise back.                  *)
LEMMA CalmBacked ==
  ASSUME NEW r \in Requests, Calm(r), CancelsFree,
         HandsOver(r),
         Backs(doc', Backed'), snap'[r] \in {snap[r], NewDoc, doc, doc'},
         Owes(pc'[r], arg'[r]) => \/ Owes(pc[r], arg[r]) /\ arg'[r].e = arg[r].e
                                  \/ arg'[r].e \in Backed'
  PROVE  BackedInv'
  <1> DEFINE B == Backed
             C == Backed'
  <1>1. B \subseteq C
    BY BackedStays
  <1>2. Backs(doc, B) /\ Backs(snap[r], B) /\ (Owes(pc[r], arg[r]) => arg[r].e \in B)
    BY DEF Calm, BackedInv
  <1> HIDE DEF B, C
  <1>3. Backs(NewDoc, C)
    BY NewDocBacks
  <1>4. Backs(snap'[r], C)
    BY <1>1, <1>2, <1>3, SameBacks DEF C
  <1>5. Owes(pc'[r], arg'[r]) => arg'[r].e \in C
    BY <1>1, <1>2 DEF C
  <1> QED
    BY <1>1, <1>4, <1>5, StepBacked DEF B, C, CancelsFree

LEMMA RootBacked ==
  ASSUME NEW r \in Requests, Calm(r), CancelsFree, RootStep,
         HandsOver(r),
         snap'[r] \in {snap[r], NewDoc, doc, doc'},
         Owes(pc'[r], arg'[r]) => \/ Owes(pc[r], arg[r]) /\ arg'[r].e = arg[r].e
                                  \/ arg'[r].e \in Backed'
  PROVE  BackedInv'
  <1>1. Backs(doc', Backed')
    <2> DEFINE B == Backed
               C == Backed'
    <2>1. B \subseteq C
      BY BackedStays
    <2>2. Backs(doc, B)
      BY DEF Calm, BackedInv
    <2> HIDE DEF B, C
    <2>3. Backs(doc', C)
      BY <2>1, <2>2, SameBacks DEF RootStep
    <2> QED
      BY <2>3 DEF C
  <1> QED
    BY <1>1, CalmBacked

(* A request answers.                                                      *)
LEMMA EndBacked ==
  ASSUME NEW r \in Requests, Calm(r), CancelsFree, NEW o \in Outcomes, End(r, o), HandsOver(r),
         Backs(doc', Backed')
  PROVE  BackedInv'
  <1>1. pc'[r] = o /\ snap'[r] = NewDoc /\ arg'[r] \in {NoArg, arg[r]}
    BY EndFits DEF End, Goto, Keep, Calm, ShapeInv, TypeOK
  <1>2. Owes(pc'[r], arg'[r]) => Owes(pc[r], arg[r]) /\ arg'[r].e = arg[r].e
    BY <1>1 DEF Owes, NoArg, Outcomes
  <1> QED
    BY <1>1, <1>2, CalmBacked

LEMMA EndRootBacked ==
  ASSUME NEW r \in Requests, Calm(r), CancelsFree, NEW o \in Outcomes, End(r, o), HandsOver(r),
         RootStep
  PROVE  BackedInv'
  <1>1. pc'[r] = o /\ snap'[r] = NewDoc /\ arg'[r] \in {NoArg, arg[r]}
    BY EndFits DEF End, Goto, Keep, Calm, ShapeInv, TypeOK
  <1>2. Owes(pc'[r], arg'[r]) => Owes(pc[r], arg[r]) /\ arg'[r].e = arg[r].e
    BY <1>1 DEF Owes, NoArg, Outcomes
  <1> QED
    BY <1>1, <1>2, RootBacked

(* The enrollment that PUT /pay opens is the one it books for.             *)
LEMMA OpensPrimary ==
  ASSUME NEW d \in Document, Shaped(d), NEW e \in Present(d), PayOpens(d, e)
  PROVE  e = PrimaryOf(d)
  <1>1. e \in Slots /\ Primaries(d) \subseteq Slots /\ 1 \in Present(d)
    BY SlotsOfDocument DEF Shaped, Present
  <1>2. CASE Primaries(d) = {}
    BY <1>1, <1>2 DEF PayOpens, Primaries, PrimaryOf
  <1>3. CASE Primaries(d) # {}
    <2>1. Min(Primaries(d)) \in Primaries(d)
      BY <1>1, <1>3, MinIsMember
    <2>2. Min(Primaries(d)) = e
      <3> DEFINE m == Min(Primaries(d))
      <3>1. m \in Present(d) /\ d.enr[m].primary
        BY <2>1 DEF Primaries
      <3> HIDE DEF m
      <3>2. m = e
        BY <1>1, <3>1 DEF PayOpens, Shaped, Present
      <3> QED
        BY <3>2 DEF m
    <2> QED
      BY <1>3, <2>2 DEF PrimaryOf
  <1> QED
    BY <1>2, <1>3

LEMMA PaidCopyPrimary ==
  ASSUME NEW d \in Document
  PROVE  PrimaryOf(PaidCopy(d)) = PrimaryOf(d)
  <1> DEFINE c == PaidCopy(d)
  <1>1. d.enr \in [Slots -> Enrollment]
        /\ \A e \in Slots : c.enr[e] \in {d.enr[e], Opened(d.enr[e])}
    BY DEF PaidCopy, Document
  <1>2. \A x \in Enrollment : Opened(x).primary = x.primary /\ (Opened(x).status = "absent" <=> x.status = "absent")
    BY DEF Opened, Enrollment
  <1> HIDE DEF c
  <1>3. \A e \in Slots : /\ c.enr[e].primary = d.enr[e].primary
                         /\ (c.enr[e].status = "absent" <=> d.enr[e].status = "absent")
    BY <1>1, <1>2
  <1>4. Primaries(c) = Primaries(d)
    BY <1>3 DEF Primaries, Present
  <1> QED
    BY <1>4 DEF PrimaryOf, c

LEMMA PaidCopyBacks ==
  ASSUME NEW d \in Document, Shaped(d), NEW B, Backs(d, B),
         PrimaryOf(d) \in B \/ d.price = 0, ~({"cancel", "refund"} \subseteq Operations)
  PROVE  Backs(PaidCopy(d), B)
  <1> DEFINE c == PaidCopy(d)
             opens(e) == e \in Present(d) /\ PayOpens(d, e)
  <1>0. d.enr \in [Slots -> Enrollment] /\ 1 \in Slots
    BY FirstSlot DEF Document
  <1>1. c.price = d.price /\ Present(c) = Present(d)
        /\ \A e \in Slots : c.enr[e] = IF opens(e) THEN Opened(d.enr[e]) ELSE d.enr[e]
    BY <1>0, PaidCopyShaped DEF PaidCopy, Document, Reworks
  <1>2. \A e \in Slots : /\ Opened(d.enr[e]).primary = d.enr[e].primary
                         /\ Opened(d.enr[e]).course = d.enr[e].course
                         /\ d.enr[e].status = "cancelled" => Opened(d.enr[e]).status = "cancelled"
    <2>1. \A x \in Enrollment : /\ Opened(x).primary = x.primary /\ Opened(x).course = x.course
                                /\ x.status = "cancelled" => Opened(x).status = "cancelled"
      BY DEF Opened, Enrollment
    <2> QED
      BY <1>0, <2>1
  <1> HIDE DEF c
  <1> SUFFICES ASSUME NEW e \in InEffect(c), PriceOf(c, e) > 0,
                      c.enr[e].paid \/ (PayOpens(c, e) /\ c.price = 0)
               PROVE  e \in B
    BY DEF Backs, c
  <1>3. e \in Present(d) /\ e \in Slots /\ PriceOf(c, e) = PriceOf(d, e)
        /\ (PayOpens(c, e) <=> PayOpens(d, e))
    BY <1>1, <1>2 DEF InEffect, Present, PriceOf, PayOpens
  <1>4. CASE ~PayOpens(d, e)
    BY <1>1, <1>3, <1>4 DEF Backs, InEffect
  <1>5. CASE PayOpens(d, e) /\ d.price = 0 /\ e \in InEffect(d)
    BY <1>3, <1>5 DEF Backs
  <1>6. CASE PayOpens(d, e) /\ d.price = 0 /\ e \notin InEffect(d)
    <2>1. d.enr[e].status = "refunded"
      BY <1>1, <1>2, <1>3, <1>6 DEF InEffect
    <2>2. "cancel" \notin Operations
      BY <1>3, <2>1 DEF Shaped
    <2>3. d.enr[1].primary /\ PriceOf(d, 1) = d.price /\ 1 \in Present(d)
      BY <2>2 DEF Shaped
    <2>4. e = 1
      BY <1>0, <1>3, <1>6, <2>3 DEF PayOpens, Shaped
    <2> QED
      BY <1>3, <1>6, <2>3, <2>4
  <1>7. CASE PayOpens(d, e) /\ d.price # 0
    BY <1>3, <1>7, OpensPrimary
  <1> QED
    BY <1>4, <1>5, <1>6, <1>7

(* Closing enrollments needs no backing.                                   *)
LEMMA ClosingBacks ==
  ASSUME NEW d \in Document, Shaped(d), NEW B, Backs(d, B)
  PROVE  Backs(UnpaidCopy(d), B) /\ Backs(RefundedCopy(d), B)
  <1>0. d.enr \in [Slots -> Enrollment]
    BY DEF Document
  <1>1. ASSUME NEW c, c.price = d.price, Present(c) = Present(d),
               \A e \in Slots : /\ c.enr[e].course = d.enr[e].course /\ c.enr[e].primary = d.enr[e].primary
                                /\ c.enr[e].paid => d.enr[e].paid
                                /\ e \in InEffect(c) => e \in InEffect(d)
        PROVE  Backs(c, B)
    <2> SUFFICES ASSUME NEW e \in InEffect(c), PriceOf(c, e) > 0,
                        c.enr[e].paid \/ (PayOpens(c, e) /\ c.price = 0)
                 PROVE  e \in B
      BY DEF Backs
    <2>1. e \in Slots /\ e \in InEffect(d)
      BY <1>1 DEF InEffect, Present
    <2>2. PriceOf(c, e) = PriceOf(d, e) /\ (PayOpens(c, e) <=> PayOpens(d, e))
      BY <1>1, <2>1 DEF PriceOf, PayOpens
    <2> QED
      BY <1>1, <2>1, <2>2 DEF Backs
  <1>2. Backs(UnpaidCopy(d), B)
    <2> DEFINE c == UnpaidCopy(d)
    <2>1. c.price = d.price /\ Present(c) = Present(d)
          /\ \A e \in Slots : c.enr[e] \in {Closed(d.enr[e]), d.enr[e]}
      BY <1>0, PaidCopyShaped DEF UnpaidCopy, Document, Reworks
    <2>2. \A x \in Enrollment : /\ Closed(x).primary = x.primary /\ Closed(x).course = x.course
                                /\ ~Closed(x).paid
                                /\ x.status \in {"cancelled", "refunded"} => Closed(x).status = x.status
      BY DEF Closed, Enrollment
    <2> HIDE DEF c
    <2>3. \A e \in Slots : /\ c.enr[e].course = d.enr[e].course /\ c.enr[e].primary = d.enr[e].primary
                           /\ c.enr[e].paid => d.enr[e].paid
                           /\ d.enr[e].status \in {"cancelled", "refunded"} => c.enr[e].status = d.enr[e].status
      BY <1>0, <2>1, <2>2
    <2>4. \A e \in Slots : e \in InEffect(c) => e \in InEffect(d)
      BY <2>1, <2>3 DEF InEffect
    <2> QED
      BY <1>1, <2>1, <2>3, <2>4 DEF c
  <1>3. Backs(RefundedCopy(d), B)
    <2> DEFINE c == RefundedCopy(d)
    <2>1. c.price = d.price
          /\ \A e \in Slots : c.enr[e] = IF d.enr[e].paid
                                         THEN [d.enr[e] EXCEPT !.paid = FALSE, !.status = "refunded"]
                                         ELSE d.enr[e]
      BY <1>0 DEF RefundedCopy, Document
    <2> HIDE DEF c
    <2>2. ASSUME NEW e \in Slots
          PROVE  /\ c.enr[e].course = d.enr[e].course /\ c.enr[e].primary = d.enr[e].primary
                 /\ c.enr[e].paid => d.enr[e].paid
                 /\ c.enr[e].status = d.enr[e].status
                    \/ (c.enr[e].status = "refunded" /\ d.enr[e].status # "absent")
      <3> DEFINE x == d.enr[e]
      <3>1. x \in Enrollment /\ (x.paid => x.status # "absent")
        BY <1>0 DEF Shaped
      <3>2. c.enr[e] = IF x.paid THEN [x EXCEPT !.paid = FALSE, !.status = "refunded"] ELSE x
        BY <2>1
      <3> HIDE DEF x
      <3>3. CASE x.paid
        BY <3>1, <3>2, <3>3 DEF x, Enrollment
      <3>4. CASE ~x.paid
        BY <3>1, <3>2, <3>4 DEF x, Enrollment
      <3> QED
        BY <3>3, <3>4
    <2>3. Present(c) = Present(d)
      BY <2>2 DEF Present
    <2>4. \A e \in Slots : e \in InEffect(c) => e \in InEffect(d)
      BY <2>2, <2>3 DEF InEffect
    <2> QED
      BY <1>1, <2>1, <2>2, <2>3, <2>4 DEF c
  <1> QED
    BY <1>2, <1>3

(* An enrollment in B may be claimed or taken back.                        *)
LEMMA OneChangedBacks ==
  ASSUME NEW d \in Document, NEW e \in Present(d), NEW c, NEW B, Backs(d, B),
         c.price = d.price, Present(c) = Present(d),
         \A i \in Slots : c.enr[i].course = d.enr[i].course /\ c.enr[i].primary = d.enr[i].primary,
         \A i \in Slots \ {e} : c.enr[i] = d.enr[i],
         PriceOf(d, e) > 0 => e \in B
  PROVE  Backs(c, B)
  <1> SUFFICES ASSUME NEW i \in InEffect(c), PriceOf(c, i) > 0,
                      c.enr[i].paid \/ (PayOpens(c, i) /\ c.price = 0)
               PROVE  i \in B
    BY DEF Backs
  <1>1. i \in Slots /\ PriceOf(c, i) = PriceOf(d, i) /\ (PayOpens(c, i) <=> PayOpens(d, i))
    BY DEF InEffect, Present, PriceOf, PayOpens
  <1>2. CASE i = e
    BY <1>1, <1>2
  <1>3. CASE i # e
    <2>1. i \in InEffect(d)
      BY <1>1, <1>3 DEF InEffect
    <2> QED
      BY <1>1, <1>3, <2>1 DEF Backs
  <1> QED
    BY <1>2, <1>3

LEMMA SameList ==
  ASSUME NEW d, NEW c, c.enr = d.enr
  PROVE  /\ Present(c) = Present(d) /\ InEffect(c) = InEffect(d) /\ Primaries(c) = Primaries(d)
         /\ \A e : PriceOf(c, e) = PriceOf(d, e)
  BY DEF Present, InEffect, Primaries, PriceOf

(* After a cancellation the root has the price of the enrollment that      *)
(* PUT /pay would open.                                                    *)
LEMMA CancelledBacks ==
  ASSUME NEW d \in Document, Shaped(d), "cancel" \in Operations, NEW e \in Present(d), NEW amt \in Nat,
         NEW B, Backs(d, B)
  PROVE  Backs(Cancelled(d, e, amt), B)
  <1> DEFINE c == Cancelled(d, e, amt)
             lead == IF Primaries(c) \cap InEffect(c) # {}
                     THEN Min(Primaries(c) \cap InEffect(c))
                     ELSE Min(InEffect(c))
  <1>0. d.enr \in [Slots -> Enrollment] /\ e \in Slots
    BY DEF Document, Present
  <1>1. c.price = IF InEffect(c) = {} THEN 0 ELSE PriceOf(c, lead)
    <2> DEFINE list == [i \in Slots |->
                 IF i = e
                 THEN [d.enr[i] EXCEPT !.status = "cancelled", !.paid = FALSE,
                                       !.primary = FALSE, !.refunded = amt]
                 ELSE IF /\ d.enr[e].primary
                         /\ {j \in Present(d) \ {e} : d.enr[j].status # "cancelled"} # {}
                         /\ i = Min({j \in Present(d) \ {e} : d.enr[j].status # "cancelled"})
                      THEN [d.enr[i] EXCEPT !.primary = TRUE]
                      ELSE d.enr[i]]
               new == [d EXCEPT !.enr = list]
               first == IF Primaries(new) \cap InEffect(new) # {}
                        THEN Min(Primaries(new) \cap InEffect(new))
                        ELSE Min(InEffect(new))
               price == IF InEffect(new) = {} THEN 0 ELSE PriceOf(new, first)
               paid == \E i \in Present(new) : list[i].status # "cancelled" /\ list[i].paid
    <2>1. c = [new EXCEPT !.price = price, !.paid = paid, !.paidAmount = Minus(@, amt)]
      BY DEF Cancelled
    <2>2. new.enr = list
      BY DEF Document
    <2>3. new \in [paid : BOOLEAN, paidAmount : Nat, price : Nat, v : Nat, enr : {list}]
      BY DEF Document
    <2> HIDE DEF c, new, list, price, paid
    <2>4. c.price = price /\ c.enr = new.enr
      BY <2>1, <2>3
    <2>5. InEffect(c) = InEffect(new) /\ Primaries(c) = Primaries(new) /\ \A i : PriceOf(c, i) = PriceOf(new, i)
      BY <2>4, SameList
    <2> QED
      BY <2>4, <2>5 DEF price
  <1>2. /\ c.enr[e].status = "cancelled"
        /\ \A i \in Slots \ {e} : /\ c.enr[i].course = d.enr[i].course /\ c.enr[i].status = d.enr[i].status
                                  /\ c.enr[i].paid = d.enr[i].paid
    <2> DEFINE rest == {i \in Present(d) \ {e} : d.enr[i].status # "cancelled"}
    <2>1. c.enr = [i \in Slots |-> IF i = e THEN [d.enr[i] EXCEPT !.status = "cancelled", !.paid = FALSE,
                                                    !.primary = FALSE, !.refunded = amt]
                                   ELSE IF d.enr[e].primary /\ rest # {} /\ i = Min(rest)
                                        THEN [d.enr[i] EXCEPT !.primary = TRUE]
                                        ELSE d.enr[i]]
      BY DEF Cancelled, Document
    <2> HIDE DEF c, rest
    <2>2. \A x \in Enrollment :
            /\ [x EXCEPT !.status = "cancelled", !.paid = FALSE, !.primary = FALSE, !.refunded = amt].status
                 = "cancelled"
            /\ [x EXCEPT !.primary = TRUE].course = x.course
            /\ [x EXCEPT !.primary = TRUE].status = x.status
            /\ [x EXCEPT !.primary = TRUE].paid = x.paid
      BY DEF Enrollment
    <2>3. \A i \in Slots \ {e} : c.enr[i] \in {d.enr[i], [d.enr[i] EXCEPT !.primary = TRUE]}
      BY <2>1
    <2>4. c.enr[e].status = "cancelled"
      <3> DEFINE x == d.enr[e]
      <3>1. x \in Enrollment
            /\ c.enr[e] = [x EXCEPT !.status = "cancelled", !.paid = FALSE, !.primary = FALSE, !.refunded = amt]
        BY <1>0, <2>1
      <3> HIDE DEF x
      <3> QED
        BY <3>1, <2>2
    <2> QED
      BY <1>0, <2>2, <2>3, <2>4
  <1>3. Shaped(c) /\ Present(c) = Present(d)
    BY CancelledShaped DEF Reworks
  <1> HIDE DEF c
  <1> SUFFICES ASSUME NEW i \in InEffect(c), PriceOf(c, i) > 0,
                      c.enr[i].paid \/ (PayOpens(c, i) /\ c.price = 0)
               PROVE  i \in B
    BY DEF Backs, c
  <1>4. i \in Slots \ {e} /\ i \in InEffect(d) /\ PriceOf(c, i) = PriceOf(d, i)
    BY <1>2, <1>3 DEF InEffect, Present, PriceOf
  <1>5. CASE c.enr[i].paid
    BY <1>2, <1>4, <1>5 DEF Backs
  <1>6. CASE PayOpens(c, i) /\ c.price = 0
    <2>1. InEffect(c) \subseteq Slots /\ Primaries(c) \cap InEffect(c) \subseteq Slots
      BY DEF InEffect, Present
    <2>2. lead = i
      <3>1. CASE c.enr[i].primary
        <4>1. Primaries(c) \cap InEffect(c) = {i}
          BY <1>3, <1>4, <3>1 DEF Shaped, Primaries, InEffect, Present
        <4>2. Min({i}) = i
          BY <1>4, MinIsMember
        <4> QED
          BY <4>1, <4>2
      <3>2. CASE Present(c) = {i}
        <4>1. InEffect(c) = {i} /\ Primaries(c) \cap InEffect(c) \subseteq {i}
          BY <3>2 DEF InEffect
        <4>2. Min({i}) = i
          BY <1>4, MinIsMember
        <4>3. Primaries(c) \cap InEffect(c) = {} \/ Primaries(c) \cap InEffect(c) = {i}
          BY <4>1
        <4> QED
          BY <4>1, <4>2, <4>3
      <3> QED
        BY <1>6, <3>1, <3>2 DEF PayOpens
    <2>3. PriceOf(c, i) = 0
      BY <1>1, <1>6, <2>2
    <2> QED
      BY <2>3
  <1> QED
    BY <1>5, <1>6

(* A saved registration is backed by the promise its request makes.        *)
LEMMA AppendedBacks ==
  ASSUME NEW d \in Document, Shaped(d), NEW e \in Slots \ Present(d), NEW x \in Enrollment, ~x.primary,
         NEW c, c.enr = [d.enr EXCEPT ![e] = x], c.price = d.price, NEW B, Backs(d, B),
         x.status \in {"pending_payment", "active"}, x.paid /\ Price[x.course] > 0 => e \in B
  PROVE  Backs(c, B)
  <1>0. d.enr \in [Slots -> Enrollment] /\ 1 \in Present(d) /\ 1 \in Slots
    BY FirstSlot DEF Document, Shaped
  <1>1. c.enr[e] = x /\ \A i \in Slots \ {e} : c.enr[i] = d.enr[i]
    BY <1>0
  <1>2. Present(c) = Present(d) \cup {e}
    BY AppendedShape
  <1> SUFFICES ASSUME NEW i \in InEffect(c), PriceOf(c, i) > 0,
                      c.enr[i].paid \/ (PayOpens(c, i) /\ c.price = 0)
               PROVE  i \in B
    BY DEF Backs
  <1>3. i \in Slots /\ e # 1 /\ 1 \in Present(c) /\ e \in Present(c)
    BY <1>0, <1>2 DEF InEffect, Present
  <1>4. PayOpens(c, i) => c.enr[i].primary
    BY <1>3 DEF PayOpens
  <1>5. CASE i = e
    BY <1>1, <1>4, <1>5 DEF PriceOf
  <1>6. CASE i # e
    <2>1. i \in InEffect(d) /\ PriceOf(d, i) = PriceOf(c, i) /\ c.enr[i] = d.enr[i]
      BY <1>1, <1>2, <1>3, <1>6 DEF InEffect, PriceOf
    <2>2. d.enr[i].paid \/ (PayOpens(d, i) /\ d.price = 0)
      BY <1>4, <2>1 DEF PayOpens
    <2> QED
      BY <2>1, <2>2 DEF Backs
  <1> QED
    BY <1>5, <1>6

(* The keys of cancellations stay free where payments are booked.          *)
LEMMA CancelKeys ==
  ASSUME TypeOK,
         \/ UNCHANGED ledger
         \/ \E k \in PaymentKeys, amt \in Nat : ledger' = PostEntry(ledger, k, amt)
         \/ \E k : ledger' = VoidEntry(ledger, k)
  PROVE  CancelsFree
  <1> SUFFICES ASSUME NEW e \in Slots, Free(ledger, <<"cancel", e>>)
               PROVE  Free(ledger', <<"cancel", e>>)
    BY DEF CancelsFree
  <1>1. <<"cancel", e>> \in Keys /\ ledger \in [Keys -> Entry]
    BY DEF TypeOK, Keys
  <1>2. \A k \in PaymentKeys : k # <<"cancel", e>>
    BY DEF PaymentKeys
  <1>3. ASSUME NEW k \in PaymentKeys, NEW amt \in Nat, ledger' = PostEntry(ledger, k, amt)
        PROVE  Free(ledger', <<"cancel", e>>)
    BY <1>1, <1>2, <1>3 DEF PostEntry, Free
  <1>4. ASSUME NEW k, ledger' = VoidEntry(ledger, k)
        PROVE  Free(ledger', <<"cancel", e>>)
    BY <1>1, <1>4 DEF VoidEntry, Free, Posted
  <1> QED
    BY <1>3, <1>4

LEMMA PaymentKeyIsOne ==
  ASSUME TypeOK, NEW r \in Requests
  PROVE  PaymentKey(r) \in PaymentsOf(arg[r].e) /\ PaymentKey(r) \in PaymentKeys /\ PaymentKey(r) \in Keys
         /\ arg[r].e \in Slots /\ arg[r].amt \in Nat
  BY DEF TypeOK, Argument, PaymentKey, PaymentsOf, PaymentKeys, Keys

(* settlePayment either books, or finds the enrollment's payment booked.   *)
LEMMA SettleBacked ==
  ASSUME NEW r \in Requests, Calm(r), \A kind : ~Fault(kind), NEW undo \in {"payUndo", "undo"},
         Settle(r, undo), pc[r] \in Promising
  PROVE  BackedInv'
  <1> DEFINE k == PaymentKey(r)
             e == arg[r].e
  <1>0. TypeOK /\ PaymentsStand /\ ledger \in [Keys -> Entry] /\ k \in PaymentsOf(e) /\ k \in PaymentKeys
        /\ k \in Keys /\ e \in Slots /\ arg[r].amt \in Nat
    BY PaymentKeyIsOne DEF Calm, ShapeInv, TypeOK
  <1>1. CASE /\ arg[r].amt = 0 \/ Accepts(ledger, k, arg[r].amt)
             /\ ledger' = IF arg[r].amt = 0 THEN ledger ELSE PostEntry(ledger, k, arg[r].amt)
             /\ End(r, "settled") /\ UNCHANGED doc
    <2>1. CancelsFree
      BY <1>0, <1>1, CancelKeys
    <2>2. HandsOver(r)
      <3>1. CASE arg[r].amt = 0
        BY <1>0, <3>1 DEF HandsOver
      <3>2. CASE arg[r].amt # 0
        BY <1>0, <1>1, <3>2, AcceptedIsPosted DEF HandsOver
      <3> QED
        BY <3>1, <3>2
    <2> QED
      BY <1>1, <2>1, <2>2, EndRootBacked DEF RootStep, Outcomes
  <1>2. CASE /\ arg[r].amt > 0 /\ ~Accepts(ledger, k, arg[r].amt)
             /\ Goto(r, undo) /\ UNCHANGED <<ledger, doc, arg, snap>>
    <2>1. CancelsFree
      BY <1>0, <1>2, CancelKeys
    <2>2. Posted(ledger, k)
      BY <1>0, <1>2 DEF Calm, Accepts, Free, Posted, PaymentsStand
    <2>3. HandsOver(r)
      BY <1>0, <1>2, <2>2 DEF HandsOver
    <2>4. e \in Backed' /\ arg'[r].e = e
      BY <1>0, <1>2, <2>2 DEF Backed, Covered
    <2> QED
      BY <1>2, <2>1, <2>3, <2>4, RootBacked DEF RootStep
  <1> QED
    BY <1>1, <1>2 DEF Settle

(* PUT /pay.                                                               *)
LEMMA PayBacked ==
  ASSUME NEW r \in Requests, Calm(r), \A kind : ~Fault(kind), ~({"cancel", "refund"} \subseteq Operations),
         PayRead(r) \/ PayClaim(r) \/ PaySave(r) \/ PaySettle(r) \/ PayUndo(r)
  PROVE  BackedInv'
  <1>0. TypeOK /\ snap[r] \in Document /\ doc \in Document /\ arg[r] \in Argument
        /\ Shaped(snap[r]) /\ Agrees(snap[r], doc) /\ Fits(pc[r], arg[r], snap[r]) /\ Shaped(doc)
        /\ Backs(doc, Backed) /\ Backs(snap[r], Backed)
    BY DEF Calm, ShapeInv, CopiesShaped, Requested, TypeOK, BackedInv
  <1>1. CASE ~PaySettle(r)
    <2>0. UNCHANGED ledger /\ CancelsFree
      BY <1>0, <1>1, CancelKeys DEF PayRead, PayClaim, PaySave, PayUndo, Refuse
    <2>1. HandsOver(r)
      BY <1>1 DEF HandsOver, PayRead, PayClaim, PaySave, PayUndo, Arrive, Promising
    <2>2. CASE Refuse(r)
      BY <2>0, <2>1, <2>2, EndRootBacked DEF Refuse, RootStep, Outcomes
    <2>3. CASE PayRead(r) /\ ~doc.paid
      <3>1. /\ pc' = [pc EXCEPT ![r] = "payClaim"] /\ UNCHANGED <<doc, snap>>
            /\ \E n : arg' = [arg EXCEPT ![r] = [NoArg EXCEPT !.op = "pay", !.amt = n]]
        BY <2>3 DEF PayRead, Goto
      <3>2. ~Owes(pc'[r], arg'[r])
        BY <1>0, <3>1 DEF TypeOK, NoArg, Owes
      <3> QED
        BY <2>0, <2>1, <3>1, <3>2, RootBacked DEF RootStep
    <2>4. CASE PayClaim(r) /\ ~doc.paid
      <3>1. /\ doc' = [doc EXCEPT !.paid = TRUE, !.paidAmount = arg[r].amt]
            /\ snap' = [snap EXCEPT ![r] = doc'] /\ pc' = [pc EXCEPT ![r] = "paySave"] /\ UNCHANGED arg
        BY <2>4 DEF PayClaim, Goto, Keep
      <3>2. pc'[r] = "paySave" /\ snap'[r] = doc' /\ RootStep
        BY <1>0, <3>1 DEF TypeOK, RootStep, Document
      <3>3. Owes(pc'[r], arg'[r]) => Owes(pc[r], arg[r]) /\ arg'[r].e = arg[r].e
        BY <3>1, <3>2 DEF Owes
      <3> QED
        BY <2>0, <2>1, <3>2, <3>3, RootBacked
    <2>5. CASE PaySave(r) /\ doc.v = snap[r].v
      <3> DEFINE copy == PaidCopy(snap[r])
                 new  == WholeSave(snap[r], copy)
                 next == [copy EXCEPT !.v = @ + 1]
                 B    == Backed
                 C    == Backed'
                 amt  == IF copy.paidAmount > 0 THEN copy.paidAmount ELSE copy.price
      <3>1. copy \in Document /\ copy.price = snap[r].price
        BY <1>0, FirstSlot, CopiesTyped, PaidCopyShaped
      <3>2. PrimaryOf(copy) = PrimaryOf(snap[r]) /\ PrimaryOf(copy) \in Slots
        BY <1>0, <3>1, PaidCopyPrimary, SlotsOfDocument
      <3>3. new.enr = copy.enr /\ new.price = copy.price
        BY <1>0, <2>5, <3>1, FirstSlot, CopiesTyped, WholeSaveIsCopy
      <3>4. next.enr = copy.enr /\ next.price = copy.price
        BY <3>1 DEF Document
      <3>5. amt \in Nat /\ (amt = 0 => copy.price = 0)
        BY <3>1 DEF Document
      <3>6. arg' = [arg EXCEPT ![r].e = PrimaryOf(copy), ![r].amt = amt]
            /\ doc' = new /\ snap' = [snap EXCEPT ![r] = next] /\ pc' = [pc EXCEPT ![r] = "paySettle"]
        BY <2>5 DEF PaySave, Goto, Keep
      <3> HIDE DEF copy, new, next, amt
      <3>7. pc'[r] = "paySettle" /\ arg'[r].e = PrimaryOf(copy) /\ arg'[r].amt = amt
            /\ arg'[r].op = arg[r].op /\ snap'[r] = next
        BY <1>0, <3>6 DEF TypeOK, Argument
      <3>8. PrimaryOf(snap[r]) \in C \/ snap[r].price = 0
        BY <3>1, <3>2, <3>5, <3>7 DEF Backed, Promising
      <3>9. B \subseteq C
        BY <2>1, BackedStays
      <3>10. Backs(snap[r], C)
        BY <1>0, <3>9, SameBacks
      <3> HIDE DEF B, C
      <3>11. Backs(copy, C)
        BY <1>0, <3>8, <3>10, PaidCopyBacks DEF copy
      <3>12. Backs(new, C) /\ Backs(next, C)
        BY <3>3, <3>4, <3>11, SameBacks
      <3>13. ~Owes(pc'[r], arg'[r])
        BY <1>0, <2>5, <3>7 DEF PaySave, Owes, Fits, Serves, Outcomes
      <3> QED
        BY <2>0, <3>6, <3>7, <3>9, <3>12, <3>13, StepBacked DEF B, C, CancelsFree
    <2>6. CASE PaySave(r) /\ doc.v # snap[r].v
      BY <2>0, <2>1, <2>6, EndRootBacked DEF PaySave, RootStep, Outcomes
    <2>7. CASE PayUndo(r) /\ doc.v = snap[r].v
      <3> DEFINE copy == UnpaidCopy(snap[r])
      <3>1. copy \in Document
        BY <1>0, FirstSlot, CopiesTyped
      <3>2. WholeSave(snap[r], copy).enr = copy.enr /\ WholeSave(snap[r], copy).price = copy.price
        BY <1>0, <2>7, <3>1, WholeSaveIsCopy
      <3>3. Backs(copy, Backed)
        BY <1>0, ClosingBacks
      <3> HIDE DEF copy
      <3>4. doc' = WholeSave(snap[r], copy) /\ End(r, "failed")
        BY <2>7 DEF PayUndo, copy
      <3>5. Backs(doc', Backed')
        BY <2>1, <3>2, <3>3, <3>4, BackedStays, SameBacks
      <3> QED
        BY <2>0, <2>1, <3>4, <3>5, EndBacked DEF Outcomes
    <2>8. CASE PayUndo(r) /\ doc.v # snap[r].v
      BY <2>0, <2>1, <2>8, EndRootBacked DEF PayUndo, RootStep, Outcomes
    <2> QED
      BY <1>1, <2>2, <2>3, <2>4, <2>5, <2>6, <2>7, <2>8 DEF PayRead, PayClaim
  <1>2. CASE PaySettle(r)
    BY <1>2, SettleBacked DEF PaySettle, Promising
  <1> QED
    BY <1>1, <1>2

(* PUT /enrollments/:enrollmentId/pay, and the rollback.                   *)
LEMMA EnrBacked ==
  ASSUME NEW r \in Requests, Calm(r), \A kind : ~Fault(kind),
         \/ \E e \in Slots : EnrClaim(r, e)
         \/ EnrRead(r) \/ EnrSave(r) \/ EnrSettle(r) \/ Undo(r)
  PROVE  BackedInv'
  <1>0. TypeOK /\ snap[r] \in Document /\ doc \in Document /\ arg[r] \in Argument
        /\ Shaped(snap[r]) /\ Agrees(snap[r], doc) /\ Fits(pc[r], arg[r], snap[r]) /\ Shaped(doc)
        /\ Backs(doc, Backed) /\ Backs(snap[r], Backed)
        /\ (Owes(pc[r], arg[r]) => arg[r].e \in Backed)
    BY DEF Calm, ShapeInv, CopiesShaped, Requested, TypeOK, BackedInv
  <1>1. ASSUME NEW e \in Slots, EnrClaim(r, e) PROVE BackedInv'
    <2>0. CancelsFree /\ HandsOver(r)
      BY <1>0, <1>1, CancelKeys DEF EnrClaim, Refuse, HandsOver, Arrive, Promising
    <2>1. CASE Refuse(r)
      BY <2>0, <2>1, EndRootBacked DEF Refuse, RootStep, Outcomes
    <2>2. CASE ~doc.enr[e].paid
      <3> DEFINE new == doc'
                 C   == Backed'
      <3>1. /\ doc' = [doc EXCEPT !.enr = Claimed(doc.enr, e)] /\ e \in Present(doc)
            /\ arg' = [arg EXCEPT ![r] = [NoArg EXCEPT !.op = "enrPay", !.e = e, !.amt = PriceOf(doc, e)]]
            /\ pc' = [pc EXCEPT ![r] = "enrRead"] /\ UNCHANGED snap
        BY <1>1, <2>2 DEF EnrClaim, Goto
      <3>2. new.price = doc.price /\ Present(new) = Present(doc)
        BY <1>0, <3>1, ClaimedShape
      <3>3. pc'[r] = "enrRead" /\ arg'[r].op = "enrPay" /\ arg'[r].e = e /\ arg'[r].amt = PriceOf(doc, e)
        BY <1>0, <3>1 DEF TypeOK, NoArg
      <3>4. PriceOf(doc, e) > 0 => e \in C
        BY <3>3 DEF Backed, Promising
      <3>5. Backs(doc, C)
        BY <1>0, <2>0, BackedStays, SameBacks
      <3> HIDE DEF C
      <3>6. /\ \A i \in Slots \ {e} : new.enr[i] = doc.enr[i]
            /\ \A i \in Slots : new.enr[i].course = doc.enr[i].course /\ new.enr[i].primary = doc.enr[i].primary
        <4>1. new.enr = [doc.enr EXCEPT ![e] = [doc.enr[e] EXCEPT !.paid = TRUE, !.status = "active"]]
              /\ doc.enr \in [Slots -> Enrollment]
          BY <1>0, <3>1 DEF Claimed, Document
        <4> DEFINE x == doc.enr[e]
        <4>2. x \in Enrollment
          BY <4>1
        <4>3. [x EXCEPT !.paid = TRUE, !.status = "active"].course = x.course
              /\ [x EXCEPT !.paid = TRUE, !.status = "active"].primary = x.primary
          <5> HIDE DEF x
          <5> QED
            BY <4>2 DEF Enrollment
        <4> QED
          BY <4>1, <4>3
      <3> HIDE DEF new
      <3>7. Backs(new, C)
        BY <1>0, <3>1, <3>2, <3>4, <3>5, <3>6, OneChangedBacks
      <3>8. ~Owes(pc'[r], arg'[r])
        BY <3>3 DEF Owes
      <3>9. snap'[r] = snap[r]
        BY <3>1
      <3> QED
        BY <2>0, <3>7, <3>8, <3>9, CalmBacked DEF new, C
    <2> QED
      BY <1>1, <2>1, <2>2 DEF EnrClaim
  <1>2. CASE EnrRead(r)
    <2>1. /\ snap' = [snap EXCEPT ![r] = doc] /\ pc' = [pc EXCEPT ![r] = "enrSave"]
          /\ UNCHANGED <<doc, ledger, arg>> /\ pc[r] = "enrRead"
      BY <1>2 DEF EnrRead, Goto, Keep
    <2>2. pc'[r] = "enrSave" /\ snap'[r] = doc /\ RootStep /\ CancelsFree
      BY <1>0, <2>1, CancelKeys DEF TypeOK, RootStep
    <2>3. HandsOver(r)
      BY <2>1, <2>2 DEF HandsOver, Promising
    <2>4. Owes(pc'[r], arg'[r]) => Owes(pc[r], arg[r]) /\ arg'[r].e = arg[r].e
      BY <2>1, <2>2 DEF Owes
    <2> QED
      BY <2>2, <2>3, <2>4, RootBacked
  <1>3. CASE EnrSave(r)
    <2> DEFINE copy == CollectedCopy(snap[r], arg[r].e, arg[r].amt)
    <2>1. copy.enr = snap[r].enr /\ copy.v = snap[r].v /\ copy.price = snap[r].price
      BY <1>0, CollectedIsRoot
    <2>2. doc' = Scalars(snap[r], copy) /\ pc[r] = "enrSave" /\ UNCHANGED ledger
          /\ \/ End(r, "ok") /\ arg[r].amt = 0
             \/ Goto(r, "enrSettle") /\ Keep(r, copy) /\ UNCHANGED arg
      BY <1>3 DEF EnrSave
    <2> HIDE DEF copy
    <2>3. RootStep /\ CancelsFree
      BY <1>0, <2>1, <2>2, ScalarsAreRoot, CancelKeys DEF RootStep
    <2>4. CASE End(r, "ok") /\ arg[r].amt = 0
      <3>1. HandsOver(r)
        BY <2>4 DEF HandsOver
      <3> QED
        BY <2>3, <2>4, <3>1, EndRootBacked DEF Outcomes
    <2>5. CASE Goto(r, "enrSettle") /\ Keep(r, copy) /\ UNCHANGED arg
      <3>1. pc'[r] = "enrSettle" /\ snap'[r] = copy
        BY <1>0, <2>5 DEF TypeOK, Goto, Keep
      <3>2. HandsOver(r)
        BY <2>5, <3>1 DEF HandsOver, Promising
      <3>3. Owes(pc'[r], arg'[r]) => arg'[r].e \in Backed'
        BY <1>0, <2>2, <2>5, <3>1, <3>2, BackedStays DEF Owes
      <3>4. Backs(doc', Backed') /\ Backs(snap'[r], Backed')
        BY <1>0, <2>1, <2>3, <3>1, <3>2, BackedStays, SameBacks DEF RootStep
      <3>5. Backed \subseteq Backed'
        BY <3>2, BackedStays
      <3> QED
        BY <2>3, <3>3, <3>4, <3>5, StepBacked DEF CancelsFree
    <2> QED
      BY <2>2, <2>4, <2>5
  <1>4. CASE EnrSettle(r)
    BY <1>4, SettleBacked DEF EnrSettle, Promising
  <1>5. CASE Undo(r)
    <2>0. CancelsFree /\ HandsOver(r)
      BY <1>0, <1>5, CancelKeys DEF Undo, HandsOver, Promising
    <2>1. CASE doc.v = snap[r].v
      <3> DEFINE copy == TakenBack(snap[r], arg[r].e, arg[r].amt)
                 d == snap[r]
                 e == arg[r].e
      <3>1. e \in Present(d) /\ arg[r].amt \in Nat /\ e \in Slots /\ e \in Backed
        BY <1>0, <1>5 DEF Undo, Fits, Present, Argument, Owes
      <3>2. copy \in Document /\ Reworks(d, copy) /\ copy.price = d.price
        BY <1>0, <3>1, CopiesTyped, TakenBackShaped
      <3>3. /\ \A i \in Slots \ {e} : copy.enr[i] = d.enr[i]
            /\ copy.enr[e].primary = d.enr[e].primary /\ copy.enr[e].course = d.enr[e].course
        <4> DEFINE x == d.enr[e]
        <4>1. copy.enr = [d.enr EXCEPT ![e] = [x EXCEPT !.paid = FALSE, !.status = "pending_payment"]]
              /\ d.enr \in [Slots -> Enrollment]
          BY <1>0 DEF TakenBack, Document
        <4>2. x \in Enrollment
          BY <3>1, <4>1
        <4>3. [x EXCEPT !.paid = FALSE, !.status = "pending_payment"].course = x.course
              /\ [x EXCEPT !.paid = FALSE, !.status = "pending_payment"].primary = x.primary
          <5> HIDE DEF x
          <5> QED
            BY <4>2 DEF Enrollment
        <4> QED
          BY <3>1, <4>1, <4>3
      <3> HIDE DEF copy
      <3>4. Present(copy) = Present(d)
            /\ \A i \in Slots : copy.enr[i].course = d.enr[i].course /\ copy.enr[i].primary = d.enr[i].primary
        BY <3>2, <3>3 DEF Reworks
      <3>5. Backs(copy, Backed)
        BY <1>0, <3>1, <3>2, <3>3, <3>4, OneChangedBacks
      <3>6. WholeSave(d, copy).enr = copy.enr /\ WholeSave(d, copy).price = copy.price
        BY <1>0, <2>1, <3>2, WholeSaveIsCopy
      <3>7. doc' = WholeSave(d, copy) /\ End(r, "failed")
        BY <1>5, <2>1 DEF Undo, copy
      <3>8. Backs(doc', Backed')
        BY <2>0, <3>5, <3>6, <3>7, BackedStays, SameBacks
      <3> QED
        BY <2>0, <3>7, <3>8, EndBacked DEF Outcomes
    <2>2. CASE doc.v # snap[r].v
      BY <1>5, <2>0, <2>2, EndRootBacked DEF Undo, RootStep, Outcomes
    <2> QED
      BY <2>1, <2>2
  <1> QED
    BY <1>1, <1>2, <1>3, <1>4, <1>5

(* POST /enrollments.                                                      *)
LEMMA AddBacked ==
  ASSUME NEW r \in Requests, Calm(r), \A kind : ~Fault(kind),
         \/ \E c \in Courses, op \in {"add", "addPaid"} : AddRead(r, c, op)
         \/ AddSave(r) \/ AddSettle(r)
  PROVE  BackedInv'
  <1>0. TypeOK /\ snap[r] \in Document /\ doc \in Document /\ arg[r] \in Argument
        /\ Shaped(snap[r]) /\ Agrees(snap[r], doc) /\ Fits(pc[r], arg[r], snap[r]) /\ Shaped(doc)
        /\ Backs(doc, Backed) /\ Backs(snap[r], Backed)
    BY DEF Calm, ShapeInv, CopiesShaped, Requested, TypeOK, BackedInv
  <1>1. ASSUME NEW c \in Courses, NEW op \in {"add", "addPaid"}, AddRead(r, c, op)
        PROVE  BackedInv'
    <2>0. CancelsFree /\ HandsOver(r)
      BY <1>0, <1>1, CancelKeys DEF AddRead, Refuse, HandsOver, Arrive, Promising
    <2>1. CASE Refuse(r)
      BY <2>0, <2>1, EndRootBacked DEF Refuse, RootStep, Outcomes
    <2>2. CASE ~Duplicate(doc, c)
      <3>1. /\ \E n : arg' = [arg EXCEPT ![r] = [NoArg EXCEPT !.op = op, !.course = c, !.amt = n]]
            /\ snap' = [snap EXCEPT ![r] = doc] /\ pc' = [pc EXCEPT ![r] = "addSave"] /\ UNCHANGED doc
        BY <1>1, <2>2 DEF AddRead, Goto, Keep
      <3>2. pc'[r] = "addSave" /\ snap'[r] = doc /\ arg'[r].op = op
        BY <1>0, <3>1 DEF TypeOK, NoArg
      <3>3. ~Owes(pc'[r], arg'[r])
        BY <3>2 DEF Owes
      <3> QED
        BY <2>0, <3>1, <3>2, <3>3, RootBacked DEF RootStep
    <2> QED
      BY <1>1, <2>1, <2>2 DEF AddRead
  <1>2. CASE AddSave(r)
    <2> DEFINE new  == doc'
               next == snap'[r]
               C    == Backed'
    <2>0. CancelsFree /\ HandsOver(r) /\ pc[r] = "addSave"
      BY <1>0, <1>2, CancelKeys DEF AddSave, HandsOver, Promising
    <2>1. PICK e, x : Appends(r, e, x)
      BY <1>0, <1>2, AddSaveAppends
    <2>2. arg[r].amt = (IF arg[r].op = "addPaid" THEN Price[arg[r].course] ELSE 0) /\ arg[r].op # "cancel"
      BY <1>0, <2>0 DEF Fits, Serves, Outcomes
    <2>3. Backs(doc, C) /\ Backs(snap[r], C) /\ Backed \subseteq C
      BY <1>0, <2>0, BackedStays, SameBacks
    <2>4. x.paid /\ Price[x.course] > 0 => e \in C
      <3> SUFFICES ASSUME x.paid, Price[x.course] > 0 PROVE e \in C
        OBVIOUS
      <3>1. arg[r].amt > 0
        BY <2>1, <2>2 DEF Appends
      <3>2. pc'[r] = "addSettle" /\ arg'[r] = [arg[r] EXCEPT !.e = e]
        BY <2>1, <3>1 DEF Appends
      <3>3. arg'[r].e = e /\ arg'[r].amt = arg[r].amt /\ e \in Slots
        BY <1>0, <2>1, <3>2 DEF Argument, Appends
      <3> QED
        BY <3>1, <3>2, <3>3 DEF Backed, Promising
    <2> HIDE DEF C
    <2>5. Backs(new, C)
      BY <1>0, <2>1, <2>3, <2>4, AppendedBacks DEF Appends
    <2>6. CASE End(r, "ok")
      BY <2>0, <2>5, <2>6, EndBacked DEF C, Outcomes
    <2>7. CASE pc'[r] = "addSettle" /\ arg'[r] = [arg[r] EXCEPT !.e = e]
               /\ next.enr = [snap[r].enr EXCEPT ![e] = x] /\ next.price = snap[r].price
      <3>1. e \in Slots \ Present(snap[r])
        BY <1>0, <2>1 DEF Agrees, Appends
      <3>2. Backs(next, C)
        BY <1>0, <2>1, <2>3, <2>4, <2>7, <3>1, AppendedBacks DEF Appends
      <3>3. ~Owes(pc'[r], arg'[r])
        BY <1>0, <2>2, <2>7 DEF Owes, Argument
      <3> QED
        BY <2>0, <2>3, <2>5, <3>2, <3>3, StepBacked DEF C, CancelsFree
    <2> QED
      BY <2>1, <2>6, <2>7 DEF Appends
  <1>3. CASE AddSettle(r)
    BY <1>3, SettleBacked DEF AddSettle, Promising
  <1> QED
    BY <1>1, <1>2, <1>3

(* postRefund: a cancellation gives back what is backed.                   *)
LEMMA PostRefundBacked ==
  ASSUME NEW r \in Requests, Calm(r), \A kind : ~Fault(kind),
         PostRefund(r) \/ CountNotes(r) \/ IssueNote(r) \/ VoidRefund(r)
  PROVE  BackedInv'
  <1>0. TypeOK /\ snap[r] \in Document /\ arg[r] \in Argument /\ Fits(pc[r], arg[r], snap[r])
        /\ Backs(doc, Backed) /\ Backs(snap[r], Backed)
        /\ (Owes(pc[r], arg[r]) => arg[r].e \in Backed)
    BY DEF Calm, ShapeInv, Requested, TypeOK, BackedInv
  <1>1. UNCHANGED doc /\ HandsOver(r)
    BY DEF PostRefund, CountNotes, IssueNote, VoidRefund, HandsOver, Promising
  <1>2. \/ snap'[r] = NewDoc /\ arg'[r] \in {NoArg, arg[r]}
        \/ snap'[r] = snap[r] /\ arg'[r].op = arg[r].op /\ arg'[r].e = arg[r].e /\ arg'[r].amt = arg[r].amt
    <2>1. ASSUME (\E b : AfterRefund(r, b)) \/ RefundThrows(r)
          PROVE  \/ snap'[r] = NewDoc /\ arg'[r] \in {NoArg, arg[r]}
                 \/ snap'[r] = snap[r] /\ arg'[r] = arg[r]
      BY <1>0, <2>1 DEF AfterRefund, RefundThrows, End, Keep, TypeOK
    <2>2. CASE PostRefund(r)
      BY <2>1, <2>2 DEF PostRefund
    <2>3. CASE CountNotes(r)
      BY <1>0, <2>3 DEF CountNotes, TypeOK, Argument
    <2>4. CASE IssueNote(r)
      BY <2>1, <2>4 DEF IssueNote
    <2>5. CASE VoidRefund(r)
      BY <2>1, <2>5 DEF VoidRefund
    <2> QED
      BY <2>2, <2>3, <2>4, <2>5
  <1>3. pc'[r] # "undo"
    <2>1. ASSUME (\E b : AfterRefund(r, b)) \/ RefundThrows(r) PROVE pc'[r] # "undo"
      BY <1>0, <2>1 DEF AfterRefund, RefundThrows, End, Goto, TypeOK
    <2>2. CASE PostRefund(r)
      BY <1>0, <2>1, <2>2 DEF PostRefund, Goto, TypeOK
    <2>3. CASE CountNotes(r)
      BY <1>0, <2>3 DEF CountNotes, Goto, TypeOK
    <2>4. CASE IssueNote(r)
      BY <1>0, <2>1, <2>4 DEF IssueNote, Goto, TypeOK
    <2>5. CASE VoidRefund(r)
      BY <1>0, <2>1, <2>5 DEF VoidRefund
    <2> QED
      BY <2>2, <2>3, <2>4, <2>5
  <1>4. snap'[r] \in {snap[r], NewDoc, doc, doc'}
        /\ (Owes(pc'[r], arg'[r]) => Owes(pc[r], arg[r]) /\ arg'[r].e = arg[r].e)
    BY <1>2, <1>3 DEF Owes, NoArg
  <1>5. CASE ~PostRefund(r)
    <2>1. UNCHANGED ledger \/ \E k : ledger' = VoidEntry(ledger, k)
      BY <1>5 DEF CountNotes, IssueNote, VoidRefund
    <2>2. CancelsFree
      BY <1>0, <2>1, CancelKeys
    <2> QED
      BY <1>1, <1>4, <2>2, RootBacked DEF RootStep
  <1>6. CASE PostRefund(r)
    <2>1. Backed \subseteq Backed'
      BY <1>1, BackedStays
    <2>2. Backs(doc', Backed') /\ Backs(snap'[r], Backed')
      <3>1. Backs(NewDoc, Backed)
        BY NewDocBacks
      <3> QED
        BY <1>0, <1>1, <1>4, <2>1, <3>1, SameBacks
    <2>3. Owes(pc'[r], arg'[r]) => arg'[r].e \in Backed'
      BY <1>0, <1>4, <2>1
    <2>4. ASSUME NEW e \in Slots
          PROVE  \/ Free(ledger, <<"cancel", e>>) => Free(ledger', <<"cancel", e>>)
                 \/ e \in Backed'
      <3>1. CASE RefundKey(r) = <<"cancel", e>>
        <4>1. arg[r].op = "cancel" /\ arg[r].e = e
          BY <3>1 DEF RefundKey
        <4>2. arg[r].amt > 0
          BY <1>0, <1>6 DEF PostRefund, Fits
        <4> QED
          BY <1>0, <2>1, <4>1, <4>2 DEF Owes
      <3>2. CASE RefundKey(r) # <<"cancel", e>>
        <4>1. ledger \in [Keys -> Entry] /\ <<"cancel", e>> \in Keys
          BY <1>0 DEF TypeOK, Keys
        <4>2. ledger' = ledger \/ ledger' = PostEntry(ledger, RefundKey(r), arg[r].amt)
          BY <1>6 DEF PostRefund
        <4> QED
          BY <3>2, <4>1, <4>2 DEF PostEntry, Free
      <3> QED
        BY <3>1, <3>2
    <2> QED
      BY <2>1, <2>2, <2>3, <2>4, StepBacked
  <1> QED
    BY <1>5, <1>6

(* DELETE /enrollments/:enrollmentId.                                      *)
LEMMA CancelBacked ==
  ASSUME NEW r \in Requests, Calm(r),
         (\E e \in Slots, amt \in Amounts : CancelRead(r, e, amt)) \/ CancelSave(r)
  PROVE  BackedInv'
  <1>0. TypeOK /\ snap[r] \in Document /\ doc \in Document /\ arg[r] \in Argument
        /\ Shaped(snap[r]) /\ Agrees(snap[r], doc) /\ Fits(pc[r], arg[r], snap[r]) /\ Shaped(doc)
        /\ Backs(doc, Backed) /\ Backs(snap[r], Backed)
    BY DEF Calm, ShapeInv, CopiesShaped, Requested, TypeOK, BackedInv
  <1>1. UNCHANGED ledger /\ CancelsFree /\ HandsOver(r)
    BY <1>0, CancelKeys DEF CancelRead, CancelSave, Refuse, HandsOver, Arrive, Promising
  <1>2. ASSUME NEW e \in Slots, NEW amt \in Amounts, CancelRead(r, e, amt)
        PROVE  BackedInv'
    <2>1. CASE Refuse(r)
      BY <1>1, <2>1, EndRootBacked DEF Refuse, RootStep, Outcomes
    <2>2. CASE doc.enr[e].status # "cancelled"
      <3>1. /\ arg' = [arg EXCEPT ![r] = [NoArg EXCEPT !.op = "cancel", !.e = e, !.amt = amt]]
            /\ snap' = [snap EXCEPT ![r] = doc] /\ UNCHANGED doc /\ e \in Present(doc)
            /\ amt <= (IF doc.enr[e].paid THEN PriceOf(doc, e) ELSE 0)
            /\ pc' = [pc EXCEPT ![r] = IF amt > 0 THEN "postRefund" ELSE "cancelSave"]
        BY <1>2, <2>2 DEF CancelRead, Keep, Goto
      <3>2. snap'[r] = doc /\ arg'[r].e = e /\ arg'[r].amt = amt /\ pc'[r] # "undo"
        BY <1>0, <3>1 DEF TypeOK, NoArg
      <3>3. amt > 0 => e \in Backed
        <4> SUFFICES ASSUME amt > 0 PROVE e \in Backed
          OBVIOUS
        <4>1. amt \in Nat /\ PriceOf(doc, e) \in Nat
          BY <1>0, TuitionAssumption, SlotsOfDocument
        <4>2. doc.enr[e].paid /\ PriceOf(doc, e) > 0
          BY <3>1, <4>1
        <4>3. e \in InEffect(doc)
          BY <1>0, <2>2, <3>1, <4>2 DEF Shaped, InEffect
        <4> QED
          BY <1>0, <4>2, <4>3 DEF Backs
      <3>4. Backed \subseteq Backed'
        BY <1>1, BackedStays
      <3>5. Owes(pc'[r], arg'[r]) => arg'[r].e \in Backed'
        BY <3>2, <3>3, <3>4 DEF Owes
      <3> QED
        BY <1>1, <3>1, <3>2, <3>5, RootBacked DEF RootStep
    <2> QED
      BY <1>2, <2>1, <2>2 DEF CancelRead
  <1>3. CASE CancelSave(r) /\ doc.v = snap[r].v
    <2> DEFINE copy == Cancelled(snap[r], arg[r].e, arg[r].amt)
    <2>1. arg[r].op = "cancel" /\ "cancel" \in Operations /\ arg[r].e \in Present(snap[r])
          /\ arg[r].amt \in Nat /\ arg[r].e \in Slots
      BY <1>0, <1>3 DEF CancelSave, Fits, Serves, Outcomes, Present, Argument
    <2>2. copy \in Document
      BY <1>0, <2>1, CopiesTyped
    <2>3. Backs(copy, Backed)
      BY <1>0, <2>1, CancelledBacks
    <2> HIDE DEF copy
    <2>4. WholeSave(snap[r], copy).enr = copy.enr /\ WholeSave(snap[r], copy).price = copy.price
      BY <1>0, <1>3, <2>2, WholeSaveIsCopy
    <2>5. doc' = WholeSave(snap[r], copy) /\ End(r, "ok")
      BY <1>3 DEF CancelSave, copy
    <2>6. Backs(doc', Backed')
      BY <1>1, <2>3, <2>4, <2>5, BackedStays, SameBacks
    <2> QED
      BY <1>1, <2>5, <2>6, EndBacked DEF Outcomes
  <1>4. CASE CancelSave(r) /\ doc.v # snap[r].v
    BY <1>1, <1>4, EndRootBacked DEF CancelSave, RootStep, Outcomes
  <1> QED
    BY <1>2, <1>3, <1>4

(* PUT /refund.                                                            *)
LEMMA RefundBacked ==
  ASSUME NEW r \in Requests, Calm(r),
         \/ \E amt \in Amounts \ {0}, id \in RefundIds : RefundRead(r, amt, id)
         \/ RefundFill(r) \/ RefundClaim(r) \/ RefundSave(r) \/ RefundRestore(r)
  PROVE  BackedInv'
  <1>0. TypeOK /\ snap[r] \in Document /\ doc \in Document /\ arg[r] \in Argument
        /\ Shaped(snap[r]) /\ Agrees(snap[r], doc) /\ Fits(pc[r], arg[r], snap[r]) /\ Shaped(doc)
        /\ Backs(doc, Backed) /\ Backs(snap[r], Backed)
    BY DEF Calm, ShapeInv, CopiesShaped, Requested, TypeOK, BackedInv
  <1>1. UNCHANGED ledger /\ CancelsFree /\ HandsOver(r)
    BY <1>0, CancelKeys DEF RefundRead, RefundFill, RefundClaim, RefundSave, RefundRestore, Refuse,
       HandsOver, Arrive, Promising
  <1>2. CASE Refuse(r)
    BY <1>1, <1>2, EndRootBacked DEF Refuse, RootStep, Outcomes
  <1>3. ASSUME NEW amt \in Amounts \ {0}, NEW id \in RefundIds, RefundRead(r, amt, id), ~Refuse(r)
        PROVE  BackedInv'
    <2>1. PICK step \in {"refundClaim", "refundFill"} :
            /\ \E a, b : arg' = [arg EXCEPT ![r] = [NoArg EXCEPT !.op = "refund", !.id = id, !.amt = amt,
                                                      !.avail = a, !.full = b]]
            /\ pc' = [pc EXCEPT ![r] = step] /\ UNCHANGED <<doc, snap>>
      BY <1>3 DEF RefundRead, Goto
    <2>2. ~Owes(pc'[r], arg'[r])
      BY <1>0, <2>1 DEF TypeOK, NoArg, Owes
    <2> QED
      BY <1>1, <2>1, <2>2, RootBacked DEF RootStep
  <1>4. CASE RefundFill(r) \/ (RefundClaim(r) /\ ~Refuse(r))
    <2>1. /\ \E p, n : doc' \in {doc, [doc EXCEPT !.paidAmount = n], [doc EXCEPT !.paid = p, !.paidAmount = n]}
          /\ snap' \in {snap, [snap EXCEPT ![r] = doc']} /\ UNCHANGED arg
          /\ \E step \in {"refundClaim", "refundSave", "postRefund"} : pc' = [pc EXCEPT ![r] = step]
      <3>1. CASE RefundFill(r)
        BY <3>1 DEF RefundFill, Goto
      <3>2. CASE RefundClaim(r) /\ ~Refuse(r)
        BY <3>2 DEF RefundClaim, Goto, Keep
      <3> QED
        BY <1>4, <3>1, <3>2
    <2>2. RootStep /\ snap'[r] \in {snap[r], doc'} /\ pc'[r] # "undo"
      BY <1>0, <2>1 DEF TypeOK, RootStep, Document
    <2>3. Owes(pc'[r], arg'[r]) => Owes(pc[r], arg[r]) /\ arg'[r].e = arg[r].e
      BY <2>1, <2>2 DEF Owes
    <2> QED
      BY <1>1, <2>2, <2>3, RootBacked
  <1>5. CASE RefundSave(r) /\ doc.v = snap[r].v
    <2> DEFINE copy == RefundedCopy(snap[r])
    <2>1. copy \in Document
      BY <1>0, FirstSlot, CopiesTyped
    <2>2. Backs(copy, Backed)
      BY <1>0, ClosingBacks
    <2> HIDE DEF copy
    <2>3. WholeSave(snap[r], copy).enr = copy.enr /\ WholeSave(snap[r], copy).price = copy.price
      BY <1>0, <1>5, <2>1, WholeSaveIsCopy
    <2>4. doc' = WholeSave(snap[r], copy) /\ pc' = [pc EXCEPT ![r] = "postRefund"] /\ UNCHANGED <<arg, snap>>
      BY <1>5 DEF RefundSave, copy, Goto
    <2>5. Backs(doc', Backed')
      BY <1>1, <2>2, <2>3, <2>4, BackedStays, SameBacks
    <2>6. snap'[r] = snap[r] /\ (Owes(pc'[r], arg'[r]) => Owes(pc[r], arg[r]) /\ arg'[r].e = arg[r].e)
      BY <1>0, <2>4 DEF TypeOK, Owes
    <2> QED
      BY <1>1, <2>5, <2>6, CalmBacked
  <1>6. CASE RefundSave(r) /\ doc.v # snap[r].v
    BY <1>1, <1>6, EndRootBacked DEF RefundSave, RootStep, Outcomes
  <1>7. CASE RefundRestore(r)
    <2>1. RootStep
      BY <1>0, <1>7 DEF RefundRestore, RootStep, Document
    <2>2. \E o \in Outcomes : End(r, o)
      BY <1>7 DEF RefundRestore, Outcomes
    <2> QED
      BY <1>1, <2>1, <2>2, EndRootBacked
  <1> QED
    BY <1>2, <1>3, <1>4, <1>5, <1>6, <1>7

(* POST /heal-orphans.                                                     *)
LEMMA HealBacked ==
  ASSUME NEW r \in Requests, Calm(r), HealRead(r) \/ HealCheck(r) \/ HealPost(r)
  PROVE  BackedInv'
  <1>0. TypeOK /\ arg[r] \in Argument /\ snap[r] \in Document
    BY DEF Calm, ShapeInv, TypeOK
  <1>1. UNCHANGED doc /\ HandsOver(r)
    BY DEF HealRead, HealCheck, HealPost, HandsOver, Arrive, Promising
  <1>2. CASE HealRead(r)
    <2>1. /\ \E S : arg' = [arg EXCEPT ![r] = [NoArg EXCEPT !.op = "heal", !.todo = S]]
          /\ snap' = [snap EXCEPT ![r] = doc] /\ pc' = [pc EXCEPT ![r] = "healCheck"] /\ UNCHANGED ledger
      BY <1>2 DEF HealRead, Goto, Keep
    <2>2. snap'[r] = doc /\ ~Owes(pc'[r], arg'[r]) /\ CancelsFree
      BY <1>0, <2>1, CancelKeys DEF TypeOK, NoArg, Owes
    <2> QED
      BY <1>1, <2>2, RootBacked DEF RootStep
  <1>3. ASSUME CancelsFree, UNCHANGED snap, NEW S, arg' = [arg EXCEPT ![r].todo = S], pc'[r] = "healPost"
        PROVE  BackedInv'
    <2>1. arg'[r].op = arg[r].op /\ arg'[r].e = arg[r].e /\ arg'[r].amt = arg[r].amt
      BY <1>0, <1>3 DEF TypeOK, Argument
    <2>2. Owes(pc'[r], arg'[r]) => Owes(pc[r], arg[r]) /\ arg'[r].e = arg[r].e
      BY <1>3, <2>1 DEF Owes
    <2> QED
      BY <1>1, <1>3, <2>2, RootBacked DEF RootStep
  <1>4. CASE HealCheck(r)
    <2>1. \E S : arg' = [arg EXCEPT ![r].todo = S]
      BY <1>4 DEF HealCheck
    <2>2. UNCHANGED <<ledger, snap>> /\ pc'[r] = "healPost"
      BY <1>0, <1>4 DEF HealCheck, Goto, TypeOK
    <2> QED
      BY <1>0, <1>3, <2>1, <2>2, CancelKeys
  <1>5. CASE HealPost(r) /\ arg[r].todo = {}
    <2>1. End(r, "ok") /\ UNCHANGED ledger
      BY <1>5 DEF HealPost
    <2> QED
      BY <1>0, <1>1, <2>1, CancelKeys, EndRootBacked DEF RootStep, Outcomes
  <1>6. CASE HealPost(r) /\ arg[r].todo # {}
    <2> DEFINE e == Min(arg[r].todo)
               n == PriceOf(snap[r], e)
    <2>1. e \in Slots
      BY <1>0, <1>6, MinIsMember DEF Argument
    <2>2. n \in Nat /\ <<"heal", e>> \in PaymentKeys
      BY <1>0, <2>1, SlotsOfDocument DEF PaymentKeys
    <2>3. UNCHANGED ledger \/ ledger' = PostEntry(ledger, <<"heal", e>>, n)
      BY <1>6 DEF HealPost
    <2>4. \E S : arg' = [arg EXCEPT ![r].todo = S]
      BY <1>6 DEF HealPost
    <2>5. UNCHANGED snap /\ pc'[r] = "healPost"
      BY <1>6 DEF HealPost
    <2> HIDE DEF e, n
    <2>6. CancelsFree
      BY <1>0, <2>2, <2>3, CancelKeys
    <2> QED
      BY <1>3, <2>4, <2>5, <2>6
  <1> QED
    BY <1>2, <1>4, <1>5, <1>6

(* What is open as paid is backed in every reachable state, unless both    *)
(* cancellations and refunds are in play.                                  *)
LEMMA BackedInvariance ==
  ASSUME ~({"cancel", "refund"} \subseteq Operations), "void" \notin Operations
  PROVE  Spec => [](ShapeInv /\ BackedInv)
  <1>1. Init => ShapeInv /\ BackedInv
    <2> SUFFICES ASSUME Init PROVE BackedInv
      BY InitShape
    <2>1. Backs(NewDoc, Backed)
      BY NewDocBacks
    <2>2. doc = NewDoc /\ \A r \in Requests : snap[r] = NewDoc /\ pc[r] = "new" /\ arg[r] = NoArg
      BY DEF Init
    <2>3. \A r \in Requests : ~Owes(pc[r], arg[r])
      BY <2>2 DEF Owes, NoArg
    <2>4. \A e \in Slots : Free(ledger, <<"cancel", e>>)
      BY DEF Init, Free, NoEntry, Keys
    <2> QED
      BY <2>1, <2>2, <2>3, <2>4 DEF BackedInv
  <1>2. ShapeInv /\ BackedInv /\ [Next]_vars => ShapeInv' /\ BackedInv'
    <2> SUFFICES ASSUME ShapeInv, BackedInv, [Next]_vars PROVE ShapeInv' /\ BackedInv'
      OBVIOUS
    <2>1. CASE UNCHANGED vars
      <3>1. ShapeInv'
        BY <2>1, StutterShape
      <3>2. BackedInv'
        BY <2>1 DEF BackedInv, Backed, Covered, vars, locals
      <3> QED
        BY <3>1, <3>2
    <2>2. ASSUME NEW r \in Requests, Begin(r) \/ Continue(r) \/ Crash(r)
          PROVE  ShapeInv' /\ BackedInv'
      <3>1. ShapeInv' /\ Books
        BY <2>2, NextShape
      <3>2. TypeOK
        BY DEF ShapeInv
      <3>3. Kept(r) /\ (UNCHANGED faults \/ \E kind : Fault(kind))
        BY <2>2, <3>2, StepKept
      <3>4. CASE faults' = 0
        <4>1. faults = 0 /\ \A kind : ~Fault(kind)
          BY <3>2, <3>3, <3>4, NoFault
        <4>2. Calm(r)
          BY <3>1, <3>3, <4>1 DEF Calm
        <4> SUFFICES BackedInv'
          BY <3>1
        <4>3. CASE Begin(r)
          <5>1. CASE PayRead(r)
            BY <4>1, <4>2, <5>1, PayBacked
          <5>2. CASE HealRead(r)
            BY <4>2, <5>2, HealBacked
          <5>3. CASE \E e \in Slots : EnrClaim(r, e)
            BY <4>1, <4>2, <5>3, EnrBacked
          <5>4. CASE \E c \in Courses, op \in {"add", "addPaid"} : AddRead(r, c, op)
            BY <4>1, <4>2, <5>4, AddBacked
          <5>5. CASE \E e \in Slots, amt \in Amounts : CancelRead(r, e, amt)
            BY <4>2, <5>5, CancelBacked
          <5>6. CASE \E amt \in Amounts \ {0}, id \in RefundIds : RefundRead(r, amt, id)
            BY <4>2, <5>6, RefundBacked
          <5> QED
            BY <4>3, <5>1, <5>2, <5>3, <5>4, <5>5, <5>6 DEF Begin
        <4>4. CASE Continue(r)
          <5>1. CASE PayClaim(r) \/ PaySave(r) \/ PaySettle(r) \/ PayUndo(r)
            BY <4>1, <4>2, <5>1, PayBacked
          <5>2. CASE EnrRead(r) \/ EnrSave(r) \/ EnrSettle(r) \/ Undo(r)
            BY <4>1, <4>2, <5>2, EnrBacked
          <5>3. CASE AddSave(r) \/ AddSettle(r)
            BY <4>1, <4>2, <5>3, AddBacked
          <5>4. CASE PostRefund(r) \/ CountNotes(r) \/ IssueNote(r) \/ VoidRefund(r)
            BY <4>1, <4>2, <5>4, PostRefundBacked
          <5>5. CASE CancelSave(r)
            BY <4>2, <5>5, CancelBacked
          <5>6. CASE RefundFill(r) \/ RefundClaim(r) \/ RefundSave(r) \/ RefundRestore(r)
            BY <4>2, <5>6, RefundBacked
          <5>7. CASE HealCheck(r) \/ HealPost(r)
            BY <4>2, <5>7, HealBacked
          <5> QED
            BY <4>4, <5>1, <5>2, <5>3, <5>4, <5>5, <5>6, <5>7 DEF Continue
        <4>5. ~Crash(r)
          BY <4>1 DEF Crash
        <4> QED
          BY <2>2, <4>3, <4>4, <4>5
      <3>5. CASE faults' # 0
        BY <3>1, <3>5 DEF BackedInv
      <3> QED
        BY <3>4, <3>5
    <2> QED
      BY <2>1, <2>2 DEF Next, LedgerVoid
  <1> QED
    BY <1>1, <1>2, PTL DEF Spec

(* No promise outlives the requests: what is backed then is in the ledger. *)
LEMMA SettledBacking ==
  ASSUME TypeOK, Settled
  PROVE  \A e \in Backed : Covered(e)
  <1>1. \A r \in Requests : pc[r] \notin Promising
    BY DEF TypeOK, Settled, Quiet, InFlight, Outcomes, Promising
  <1> QED
    BY <1>1 DEF Backed

(* Once all requests have ended and nothing failed, every enrollment open  *)
(* as paid has a payment of its own in the ledger, whichever endpoints     *)
(* opened it, took it back or refunded it meanwhile.  Cancellations leave  *)
(* the root without a price, and PUT /pay then reopens a refunded          *)
(* enrollment for nothing; hence one of the two must be out of play, and   *)
(* nobody voids a payment by hand.                                         *)
THEOREM OpenIsBooked ==
  ASSUME ~({"cancel", "refund"} \subseteq Operations), "void" \notin Operations
  PROVE  Spec => []PaidIsBooked
  <1>1. ShapeInv /\ BackedInv => PaidIsBooked
    <2> SUFFICES ASSUME ShapeInv, BackedInv, Settled, faults = 0,
                        NEW e \in Open, PriceOf(doc, e) > 0
                 PROVE  Covered(e)
      BY DEF PaidIsBooked
    <2>1. e \in InEffect(doc) /\ doc.enr[e].paid
      BY DEF Open, PaidAmong
    <2>2. e \in Backed
      BY <2>1 DEF BackedInv, Backs
    <2> QED
      BY <2>2, SettledBacking DEF ShapeInv
  <1> QED
    BY <1>1, BackedInvariance, PTL

(* What a cancellation gave back had been taken in for that enrollment     *)
(* (DELETE /enrollments/:enrollmentId, studentRoutes.js), when no refund   *)
(* of the root and no void by hand is in play.                             *)
THEOREM CancelledWasBooked ==
  ASSUME ~({"cancel", "refund"} \subseteq Operations), "void" \notin Operations
  PROVE  Spec => []RefundWasPaid
  <1>1. ShapeInv /\ BackedInv => RefundWasPaid
    <2> SUFFICES ASSUME ShapeInv, BackedInv, Settled, faults = 0,
                        NEW e \in Slots, Posted(ledger, <<"cancel", e>>)
                 PROVE  Covered(e)
      BY DEF RefundWasPaid
    <2>1. e \in Backed
      BY DEF BackedInv, Free, Posted
    <2> QED
      BY <2>1, SettledBacking DEF ShapeInv
  <1> QED
    BY <1>1, BackedInvariance, PTL

-----------------------------------------------------------------------------
(* Credit notes.  A posted refund has its note, except while its request   *)
(* is still between the entry and the note, or is about to void the entry. *)
(* Those requests hold different keys, because each has created its entry; *)
(* so a note is issued, or an entry voided, for a refund without a note.   *)
Noting == {"countNotes", "issueNote", "voidRefund"}

Noted == {k \in RefundKeys : Posted(ledger, k)
                             /\ \A r \in Requests : pc[r] \in Noting => RefundKey(r) # k}

NotesApart ==
  /\ \A r \in Requests : pc[r] \in Noting => Posted(ledger, RefundKey(r))
  /\ \A q, r \in Requests : pc[q] \in Noting /\ pc[r] \in Noting /\ q # r => RefundKey(q) # RefundKey(r)

NotesInv ==
  faults = 0 => NotesApart /\ IsFiniteSet(Noted) /\ notes = Cardinality(Noted)

LEMMA RefundKeyTyped ==
  ASSUME ShapeInv, NEW r \in Requests, pc[r] \in Noting \cup {"postRefund"}
  PROVE  RefundKey(r) \in RefundKeys
  <1>1. arg[r] \in Argument /\ Fits(pc[r], arg[r], snap[r])
    BY DEF ShapeInv, TypeOK, Requested
  <1>2. arg[r].op \in {"refund", "cancel"}
    BY <1>1 DEF Fits, Serves, Noting, Outcomes
  <1>3. arg[r].op = "refund" => arg[r].id \in RefundIds
    BY <1>1 DEF Fits
  <1> QED
    BY <1>1, <1>2, <1>3 DEF RefundKey, RefundKeys, PaymentKeys, Keys, Argument

(* A step that leaves the refunds of the ledger, and what waits for a      *)
(* note, as they are.                                                      *)
LEMMA NotesStay ==
  ASSUME TypeOK, NotesApart, NEW r \in Requests, Kept(r),
         \A k \in RefundKeys : Posted(ledger', k) <=> Posted(ledger, k),
         \A q \in Requests : pc[q] \in Noting => RefundKey(q) \in RefundKeys,
         pc'[r] \in Noting <=> pc[r] \in Noting,
         pc[r] \in Noting => /\ arg'[r].op = arg[r].op /\ arg'[r].e = arg[r].e
                             /\ arg'[r].id = arg[r].id
  PROVE  NotesApart' /\ Noted' = Noted
  <1>1. ASSUME NEW q \in Requests
        PROVE  /\ pc'[q] \in Noting <=> pc[q] \in Noting
               /\ pc[q] \in Noting => RefundKey(q)' = RefundKey(q)
    BY DEF Kept, RefundKey
  <1>2. NotesApart'
    BY <1>1 DEF NotesApart
  <1>3. Noted' = Noted
    BY <1>1 DEF Noted
  <1> QED
    BY <1>2, <1>3

(* A refund is posted: its key was free, and it waits for its note.        *)
LEMMA NotePosted ==
  ASSUME TypeOK, NotesApart, NEW r \in Requests, Kept(r), UNCHANGED arg,
         pc[r] \notin Noting, pc'[r] \in Noting,
         ~Posted(ledger, RefundKey(r)), Posted(ledger', RefundKey(r)),
         \A k \in RefundKeys : k # RefundKey(r) => (Posted(ledger', k) <=> Posted(ledger, k)),
         \A q \in Requests : pc[q] \in Noting => RefundKey(q) \in RefundKeys
  PROVE  NotesApart' /\ Noted' = Noted
  <1>1. \A q \in Requests : RefundKey(q)' = RefundKey(q)
    BY DEF RefundKey
  <1>2. \A q \in Requests \ {r} : pc'[q] = pc[q]
    BY DEF Kept
  <1>3. \A q \in Requests : pc[q] \in Noting => q # r /\ RefundKey(q) # RefundKey(r)
    BY DEF NotesApart
  <1>4. NotesApart'
    <2>1. ASSUME NEW q \in Requests, pc'[q] \in Noting PROVE Posted(ledger', RefundKey(q)')
      BY <1>1, <1>2, <1>3, <2>1 DEF NotesApart
    <2>2. ASSUME NEW p \in Requests, NEW q \in Requests, pc'[p] \in Noting, pc'[q] \in Noting, p # q
          PROVE  RefundKey(p)' # RefundKey(q)'
      BY <1>1, <1>2, <1>3, <2>2 DEF NotesApart
    <2> QED
      BY <2>1, <2>2 DEF NotesApart
  <1>5. ASSUME NEW k \in RefundKeys
        PROVE  (k \in Noted') <=> (k \in Noted)
    <2>1. CASE k = RefundKey(r)
      <3>1. k \notin Noted
        BY <2>1 DEF Noted
      <3>2. k \notin Noted'
        BY <1>1, <2>1 DEF Noted
      <3> QED
        BY <3>1, <3>2
    <2>2. CASE k # RefundKey(r)
      <3>1. (\A q \in Requests : pc'[q] \in Noting => RefundKey(q)' # k)
            <=> (\A q \in Requests : pc[q] \in Noting => RefundKey(q) # k)
        BY <1>1, <1>2, <1>3, <2>2
      <3> QED
        BY <2>2, <3>1 DEF Noted
    <2> QED
      BY <2>1, <2>2
  <1>6. Noted' = Noted
    BY <1>5 DEF Noted
  <1> QED
    BY <1>4, <1>6

(* The note of r is issued.                                                *)
LEMMA NoteIssued ==
  ASSUME TypeOK, NotesApart, NEW r \in Requests, Kept(r), UNCHANGED ledger,
         RefundKey(r) \in RefundKeys, pc[r] \in Noting, pc'[r] \notin Noting
  PROVE  NotesApart' /\ RefundKey(r) \notin Noted /\ Noted' = Noted \cup {RefundKey(r)}
  <1>1. ASSUME NEW q \in Requests
        PROVE  /\ pc'[q] \in Noting <=> pc[q] \in Noting /\ q # r
               /\ q # r => RefundKey(q)' = RefundKey(q)
    BY DEF Kept, RefundKey
  <1>2. NotesApart'
    BY <1>1 DEF NotesApart
  <1>3. RefundKey(r) \notin Noted
    BY DEF Noted
  <1> DEFINE K == RefundKey(r)
  <1>4. Posted(ledger, K)
    BY DEF NotesApart
  <1>5. \A q \in Requests : pc[q] \in Noting /\ q # r => RefundKey(q) # K
    BY DEF NotesApart
  <1> HIDE DEF K
  <1>6. ASSUME NEW k \in RefundKeys
        PROVE  (k \in Noted') <=> (k \in Noted \cup {K})
    <2>1. CASE k = K
      BY <1>1, <1>4, <1>5, <2>1 DEF Noted
    <2>2. CASE k # K
      <3>1. (\A q \in Requests : pc'[q] \in Noting => RefundKey(q)' # k)
            <=> (\A q \in Requests : pc[q] \in Noting => RefundKey(q) # k)
        BY <1>1, <2>2 DEF K
      <3> QED
        BY <2>2, <3>1 DEF Noted
    <2> QED
      BY <2>1, <2>2
  <1>7. Noted' = Noted \cup {K}
    BY <1>6 DEF Noted, K
  <1> QED
    BY <1>2, <1>3, <1>7 DEF K

(* The refund of r is voided.                                              *)
LEMMA NoteVoided ==
  ASSUME TypeOK, NotesApart, NEW r \in Requests, Kept(r),
         RefundKey(r) \in RefundKeys, pc[r] \in Noting, pc'[r] \notin Noting,
         ~Posted(ledger', RefundKey(r)),
         \A k \in RefundKeys : k # RefundKey(r) => (Posted(ledger', k) <=> Posted(ledger, k)),
         \A q \in Requests : pc[q] \in Noting => RefundKey(q) \in RefundKeys
  PROVE  NotesApart' /\ Noted' = Noted
  <1>1. ASSUME NEW q \in Requests
        PROVE  /\ pc'[q] \in Noting <=> pc[q] \in Noting /\ q # r
               /\ q # r => RefundKey(q)' = RefundKey(q)
    BY DEF Kept, RefundKey
  <1> DEFINE K == RefundKey(r)
  <1>2. \A q \in Requests : pc[q] \in Noting /\ q # r => RefundKey(q) # K
    BY DEF NotesApart
  <1> HIDE DEF K
  <1>3. NotesApart'
    BY <1>1, <1>2 DEF NotesApart, K
  <1>4. ASSUME NEW k \in RefundKeys
        PROVE  (k \in Noted') <=> (k \in Noted)
    <2>1. CASE k = K
      BY <2>1 DEF Noted, K
    <2>2. CASE k # K
      <3>1. (\A q \in Requests : pc'[q] \in Noting => RefundKey(q)' # k)
            <=> (\A q \in Requests : pc[q] \in Noting => RefundKey(q) # k)
        BY <1>1, <2>2 DEF K
      <3> QED
        BY <2>2, <3>1 DEF Noted, K
    <2> QED
      BY <2>1, <2>2
  <1>5. Noted' = Noted
    BY <1>4 DEF Noted
  <1> QED
    BY <1>3, <1>5

(* The steps of the other operations book no refund and issue no note.     *)
NoRefund(r) ==
  /\ UNCHANGED notes
  /\ \A k \in RefundKeys : ledger'[k] = ledger[k]
  /\ pc[r] \notin Noting /\ pc'[r] \notin Noting

LEMMA PostPaymentKeeps ==
  ASSUME TypeOK, NEW k \in PaymentKeys, NEW amt, ledger' = PostEntry(ledger, k, amt)
  PROVE  \A q \in RefundKeys : ledger'[q] = ledger[q]
  BY DEF TypeOK, PostEntry, RefundKeys

LEMMA OtherSteps ==
  ASSUME TypeOK, NEW r \in Requests,
         \/ Begin(r)
         \/ Continue(r) /\ ~(PostRefund(r) \/ CountNotes(r) \/ IssueNote(r) \/ VoidRefund(r))
  PROVE  NoRefund(r)
  <1> USE DEF NoRefund, End, Goto, Refuse, Noting, Outcomes
  <1>0. pc \in [Requests -> {"new"} \cup Steps \cup Outcomes] /\ arg[r] \in Argument
        /\ arg[r].todo \subseteq Slots
    BY DEF TypeOK, Argument
  <1>1. CASE PayRead(r) \/ PayClaim(r) \/ PaySave(r) \/ PayUndo(r)
    BY <1>0, <1>1 DEF PayRead, Arrive, PayClaim, PaySave, PayUndo
  <1>2. ASSUME NEW undo \in {"payUndo", "undo"}, pc[r] \in {"paySettle", "enrSettle", "addSettle"},
               Settle(r, undo)
        PROVE  NoRefund(r)
    <2>1. PaymentKey(r) \in PaymentKeys
      BY <1>0 DEF PaymentKey, PaymentKeys, Argument
    <2>2. \/ UNCHANGED ledger
          \/ ledger' = PostEntry(ledger, PaymentKey(r), arg[r].amt)
      BY <1>2 DEF Settle
    <2>3. \A q \in RefundKeys : ledger'[q] = ledger[q]
      BY <2>1, <2>2, PostPaymentKeeps
    <2> QED
      BY <1>0, <1>2, <2>3 DEF Settle
  <1>3. CASE PaySettle(r) \/ EnrSettle(r) \/ AddSettle(r)
    BY <1>2, <1>3 DEF PaySettle, EnrSettle, AddSettle
  <1>4. CASE (\E e \in Slots : EnrClaim(r, e)) \/ EnrRead(r) \/ EnrSave(r) \/ Undo(r)
    BY <1>0, <1>4 DEF EnrClaim, Arrive, EnrRead, EnrSave, Undo
  <1>5. CASE (\E c \in Courses, op \in {"add", "addPaid"} : AddRead(r, c, op)) \/ AddSave(r)
    BY <1>0, <1>5 DEF AddRead, Arrive, AddSave
  <1>6. CASE (\E e \in Slots, amt \in Amounts : CancelRead(r, e, amt)) \/ CancelSave(r)
    BY <1>0, <1>6 DEF CancelRead, Arrive, CancelSave
  <1>7. CASE (\E amt \in Amounts \ {0}, id \in RefundIds : RefundRead(r, amt, id))
             \/ RefundFill(r) \/ RefundClaim(r) \/ RefundSave(r) \/ RefundRestore(r)
    BY <1>0, <1>7 DEF RefundRead, Arrive, RefundFill, RefundClaim, RefundSave, RefundRestore
  <1>8. CASE HealRead(r) \/ HealCheck(r)
    BY <1>0, <1>8 DEF HealRead, Arrive, HealCheck
  <1>9. CASE HealPost(r)
    <2>1. CASE arg[r].todo = {}
      BY <1>0, <1>9, <2>1 DEF HealPost
    <2>2. CASE arg[r].todo # {}
      <3> DEFINE e == Min(arg[r].todo)
      <3>1. e \in Slots
        BY <1>0, <2>2, MinIsMember
      <3> HIDE DEF e
      <3>2. \/ UNCHANGED ledger
            \/ ledger' = PostEntry(ledger, <<"heal", e>>, PriceOf(snap[r], e))
        BY <1>9, <2>2 DEF HealPost, e
      <3>3. \A q \in RefundKeys : ledger'[q] = ledger[q]
        BY <3>1, <3>2, PostPaymentKeeps DEF PaymentKeys
      <3>4. UNCHANGED <<pc, notes>> /\ pc[r] = "healPost"
        BY <1>9, <2>2 DEF HealPost
      <3> QED
        BY <3>3, <3>4
    <2> QED
      BY <2>1, <2>2
  <1> QED
    BY <1>1, <1>3, <1>4, <1>5, <1>6, <1>7, <1>8, <1>9 DEF Begin, Continue

(* The steps of a refund.                                                  *)
LEMMA RefundSteps ==
  ASSUME ShapeInv, NotesApart, IsFiniteSet(Noted), notes = Cardinality(Noted),
         NEW r \in Requests, Kept(r), \A kind : ~Fault(kind),
         PostRefund(r) \/ CountNotes(r) \/ IssueNote(r) \/ VoidRefund(r)
  PROVE  NotesApart' /\ IsFiniteSet(Noted') /\ notes' = Cardinality(Noted')
  <1>0. /\ TypeOK /\ pc \in [Requests -> {"new"} \cup Steps \cup Outcomes]
        /\ arg \in [Requests -> Argument] /\ ledger \in [Keys -> Entry] /\ notes \in Nat
        /\ \A q \in Requests : pc[q] \in Noting => RefundKey(q) \in RefundKeys
        /\ RefundKeys \subseteq Keys
    BY RefundKeyTyped DEF ShapeInv, TypeOK, RefundKeys
  <1>1. ASSUME (\E b : AfterRefund(r, b)) \/ RefundThrows(r) PROVE pc'[r] \notin Noting
    BY <1>0, <1>1 DEF AfterRefund, RefundThrows, End, Goto, Outcomes, Noting
  <1> DEFINE K == RefundKey(r)
  <1>2. CASE PostRefund(r)
    <2>1. K \in RefundKeys /\ pc[r] = "postRefund" /\ ledger' = PostEntry(ledger, K, arg[r].amt)
          /\ UNCHANGED notes
      BY <1>0, <1>2, RefundKeyTyped DEF PostRefund, Noting
    <2>2. CASE Free(ledger, K)
      <3>1. UNCHANGED arg /\ pc'[r] = "countNotes"
        BY <1>0, <1>2, <2>2 DEF PostRefund, Goto
      <3>2. ~Posted(ledger, K) /\ Posted(ledger', K)
            /\ \A k \in RefundKeys : k # K => (Posted(ledger', k) <=> Posted(ledger, k))
        BY <1>0, <2>1, <2>2 DEF PostEntry, Free, Posted
      <3> HIDE DEF K
      <3>3. NotesApart' /\ Noted' = Noted
        BY <1>0, <2>1, <3>1, <3>2, NotePosted DEF K, Noting
      <3> QED
        BY <2>1, <3>3
    <2>3. CASE ~Free(ledger, K)
      <3>1. pc'[r] \notin Noting /\ UNCHANGED ledger
        BY <1>1, <1>2, <2>1, <2>3 DEF PostRefund, PostEntry
      <3>2. NotesApart' /\ Noted' = Noted
        BY <1>0, <2>1, <3>1, NotesStay DEF Noting
      <3> QED
        BY <2>1, <3>2
    <2> QED
      BY <2>2, <2>3
  <1>3. CASE CountNotes(r)
    <2>1. UNCHANGED <<ledger, notes>> /\ pc[r] \in Noting /\ pc'[r] \in Noting
          /\ arg'[r].op = arg[r].op /\ arg'[r].e = arg[r].e /\ arg'[r].id = arg[r].id
      BY <1>0, <1>3 DEF CountNotes, Goto, Noting, Argument
    <2>2. NotesApart' /\ Noted' = Noted
      BY <1>0, <2>1, NotesStay
    <2> QED
      BY <2>1, <2>2
  <1>4. CASE IssueNote(r)
    <2>1. UNCHANGED ledger /\ pc[r] \in Noting /\ K \in RefundKeys
      BY <1>0, <1>4 DEF IssueNote, Noting
    <2>2. CASE notes' = notes + 1 /\ AfterRefund(r, TRUE)
      <3>1. pc'[r] \notin Noting
        BY <1>1, <2>2
      <3>2. NotesApart' /\ K \notin Noted /\ Noted' = Noted \cup {K}
        BY <1>0, <2>1, <3>1, NoteIssued
      <3> HIDE DEF K
      <3>3. IsFiniteSet(Noted \cup {K}) /\ Cardinality(Noted \cup {K}) = Cardinality(Noted) + 1
        BY <3>2, FS_AddElement
      <3> QED
        BY <2>2, <3>2, <3>3
    <2>3. CASE Goto(r, "voidRefund") /\ UNCHANGED <<notes, arg, snap>>
      <3>1. pc'[r] \in Noting /\ UNCHANGED arg
        BY <1>0, <2>3 DEF Goto, Noting
      <3>2. NotesApart' /\ Noted' = Noted
        BY <1>0, <2>1, <3>1, NotesStay
      <3> QED
        BY <2>3, <3>2
    <2> QED
      BY <1>4, <2>2, <2>3 DEF IssueNote
  <1>5. CASE VoidRefund(r)
    <2>1. pc[r] \in Noting /\ K \in RefundKeys /\ UNCHANGED notes
          /\ ledger' = VoidEntry(ledger, K) /\ RefundThrows(r)
      BY <1>0, <1>5 DEF VoidRefund, Noting
    <2>2. pc'[r] \notin Noting
      BY <1>1, <2>1
    <2>3. ~Posted(ledger', K)
          /\ \A k \in RefundKeys : k # K => (Posted(ledger', k) <=> Posted(ledger, k))
      BY <1>0, <2>1 DEF VoidEntry, Posted
    <2> HIDE DEF K
    <2>4. NotesApart' /\ Noted' = Noted
      BY <1>0, <2>1, <2>2, <2>3, NoteVoided DEF K
    <2> QED
      BY <2>1, <2>4
  <1> QED
    BY <1>2, <1>3, <1>4, <1>5

(* Every posted refund has its credit note and no voided one has           *)
(* (postRefund and issueCreditNote), though concurrent refunds may draw    *)
(* the same number, whatever requests are in play and however many of them *)
(* run at the same time.  A void by hand leaves the note, so it is not.    *)
THEOREM NotesMatch ==
  ASSUME "void" \notin Operations
  PROVE  Spec => []NotesMatchRefunds
  <1>1. Init => NotesInv
    <2> SUFFICES ASSUME Init PROVE NotesInv
      OBVIOUS
    <2>1. NotesApart /\ Noted = {}
      BY DEF Init, NotesApart, Noted, Noting, Posted, NoEntry, RefundKeys
    <2> QED
      BY <2>1, FS_EmptySet DEF NotesInv, Init
  <1>2. ShapeInv /\ NotesInv /\ [Next]_vars => NotesInv'
    <2> SUFFICES ASSUME ShapeInv, NotesInv, [Next]_vars, faults' = 0
                 PROVE  NotesApart' /\ IsFiniteSet(Noted') /\ notes' = Cardinality(Noted')
      BY DEF NotesInv
    <2>1. CASE UNCHANGED vars
      <3>1. faults = 0 /\ UNCHANGED notes
        BY <2>1 DEF vars
      <3>2. (NotesApart' <=> NotesApart) /\ Noted' = Noted
        BY <2>1 DEF vars, locals, NotesApart, Noted, RefundKey, Posted
      <3> QED
        BY <3>1, <3>2 DEF NotesInv
    <2>2. ASSUME NEW r \in Requests, Begin(r) \/ Continue(r) \/ Crash(r)
          PROVE  NotesApart' /\ IsFiniteSet(Noted') /\ notes' = Cardinality(Noted')
      <3>1. TypeOK /\ Kept(r) /\ (UNCHANGED faults \/ \E kind : Fault(kind))
        BY <2>2, StepKept DEF ShapeInv
      <3>2. faults = 0 /\ \A kind : ~Fault(kind)
        BY <3>1, NoFault
      <3>3. NotesApart /\ IsFiniteSet(Noted) /\ notes = Cardinality(Noted)
        BY <3>2 DEF NotesInv
      <3>4. ~Crash(r)
        BY <3>2 DEF Crash
      <3>5. CASE PostRefund(r) \/ CountNotes(r) \/ IssueNote(r) \/ VoidRefund(r)
        BY <3>1, <3>2, <3>3, <3>5, RefundSteps
      <3>6. CASE ~(PostRefund(r) \/ CountNotes(r) \/ IssueNote(r) \/ VoidRefund(r))
        <4>1. NoRefund(r)
          BY <2>2, <3>1, <3>4, <3>6, OtherSteps
        <4>2. /\ \A k \in RefundKeys : Posted(ledger', k) <=> Posted(ledger, k)
              /\ UNCHANGED notes /\ pc[r] \notin Noting /\ pc'[r] \notin Noting
          BY <4>1 DEF NoRefund, Posted
        <4>3. \A q \in Requests : pc[q] \in Noting => RefundKey(q) \in RefundKeys
          BY RefundKeyTyped
        <4>4. NotesApart' /\ Noted' = Noted
          BY <3>1, <3>3, <4>2, <4>3, NotesStay
        <4> QED
          BY <3>3, <4>2, <4>4
      <3> QED
        BY <3>5, <3>6
    <2> QED
      BY <2>1, <2>2 DEF Next, LedgerVoid
  <1>3. NotesInv => NotesMatchRefunds
    <2> SUFFICES ASSUME NotesInv, Settled, faults = 0
                 PROVE  notes = Cardinality({k \in RefundKeys : Posted(ledger, k)})
      BY DEF NotesMatchRefunds
    <2>1. \A r \in Requests : pc[r] \notin Noting
      BY DEF Settled, Quiet, InFlight, Outcomes, Noting
    <2>2. Noted = {k \in RefundKeys : Posted(ledger, k)}
      BY <2>1 DEF Noted
    <2> QED
      BY <2>2 DEF NotesInv
  <1> QED
    BY <1>1, <1>2, <1>3, ShapeInvariance, PTL DEF Spec

-----------------------------------------------------------------------------
(* Bookings of one tuition.  A paid registration books under a key of its  *)
(* own (add), so it must not meet a payment of the same enrollment (pay):  *)
(* from the $push on its enrollment is paid in the document and in every   *)
(* copy that knows it, is not the primary one, and is never claimed by     *)
(* PUT /enrollments/:id/pay.                                               *)
Collecting == {"pay", "enrPay", "add", "addPaid"}

(* The enrollments with a booked, or about to be booked, registration.     *)
Added ==
  {e \in Slots : \/ Posted(ledger, <<"add", e>>)
                 \/ \E r \in Requests : pc[r] = "addSettle" /\ arg[r].e = e}

Adds(step, a) == a.op = "addPaid" /\ step \in {"addSettle", "undo"}

(* The enrollments in A that document d has are paid.                      *)
OpenIn(d, A) == \A e \in A : e \in Present(d) => d.enr[e].paid

(* A request collects for none of A, except the registration itself.       *)
Spares(step, a, A, l) ==
  /\ a.op = "enrPay" /\ step \in {"enrRead", "enrSave", "enrSettle", "undo"} => a.e \notin A
  /\ Adds(step, a) => Free(l, <<"add", a.e>>)
  /\ step = "paySettle" => a.e = 1

KeysFree ==
  /\ \A e \in Added : e \in Present(doc) /\ e # 1 /\ Free(ledger, <<"pay", e>>)
  /\ \A e \in Slots : Free(ledger, <<"heal", e>>)
  /\ \A e \in Slots \ Present(doc) : Free(ledger, <<"pay", e>>) /\ Free(ledger, <<"add", e>>)

AddsApart ==
  \A q, r \in Requests : q # r /\ Adds(pc[q], arg[q]) /\ Adds(pc[r], arg[r]) => arg[q].e # arg[r].e

AddedInv ==
  /\ KeysFree /\ AddsApart
  /\ OpenIn(doc, Added) /\ \A r \in Requests : OpenIn(snap[r], Added)
  /\ \A r \in Requests : Spares(pc[r], arg[r], Added, ledger)

LEMMA NewDocOpen ==
  ASSUME NEW A, 1 \notin A
  PROVE  OpenIn(NewDoc, A)
  BY DEF OpenIn, Present, NewDoc, Absent

(* A step that books nothing and registers nothing.                        *)
LEMMA SameAdded ==
  ASSUME AddedInv, NEW r \in Requests, Kept(r), UNCHANGED ledger, Present(doc') = Present(doc),
         OpenIn(doc', Added), OpenIn(snap'[r], Added),
         pc'[r] = "addSettle" => pc[r] = "addSettle" /\ arg'[r].e = arg[r].e,
         Adds(pc'[r], arg'[r]) => Adds(pc[r], arg[r]) /\ arg'[r].e = arg[r].e,
         Spares(pc'[r], arg'[r], Added, ledger)
  PROVE  AddedInv'
  <1> DEFINE A == Added'
  <1>1. \A q \in Requests \ {r} : pc'[q] = pc[q] /\ arg'[q] = arg[q] /\ snap'[q] = snap[q]
    BY DEF Kept
  <1>2. A \subseteq Added
    BY <1>1 DEF Added
  <1> HIDE DEF A
  <1>3. KeysFree'
    BY <1>2 DEF AddedInv, KeysFree, A
  <1>4. AddsApart'
    BY <1>1 DEF AddedInv, AddsApart
  <1>5. OpenIn(doc', A) /\ \A q \in Requests : OpenIn(snap'[q], A)
    BY <1>1, <1>2 DEF AddedInv, OpenIn
  <1>6. \A q \in Requests : Spares(pc'[q], arg'[q], A, ledger')
    BY <1>1, <1>2 DEF AddedInv, Spares
  <1> QED
    BY <1>3, <1>4, <1>5, <1>6 DEF AddedInv, A

(* A request that ends.                                                    *)
LEMMA EndAdded ==
  ASSUME ShapeInv, AddedInv, NEW r \in Requests, NEW o \in Outcomes, End(r, o), UNCHANGED ledger,
         Present(doc') = Present(doc), OpenIn(doc', Added)
  PROVE  AddedInv'
  <1>1. Kept(r) /\ pc'[r] = o /\ snap'[r] = NewDoc
    BY EndFits DEF ShapeInv, TypeOK, End, Goto
  <1>2. OpenIn(snap'[r], Added)
    BY <1>1, NewDocOpen DEF AddedInv, KeysFree
  <1>3. ~Adds(o, arg'[r]) /\ Spares(o, arg'[r], Added, ledger) /\ o # "addSettle"
    BY DEF Adds, Spares, Outcomes
  <1> QED
    BY <1>1, <1>2, <1>3, SameAdded

(* A saved copy keeps open what is open in it.                             *)
LEMMA WholeOpen ==
  ASSUME ShapeInv, NEW r \in Requests, NEW copy \in Document, Reworks(snap[r], copy),
         doc.v = snap[r].v, doc' = WholeSave(snap[r], copy), NEW A, OpenIn(copy, A)
  PROVE  Present(doc') = Present(doc) /\ OpenIn(doc', A)
  <1>1. doc \in Document /\ snap[r] \in Document /\ Agrees(snap[r], doc)
    BY DEF ShapeInv, TypeOK, CopiesShaped
  <1>2. doc'.enr = copy.enr
    BY <1>1, WholeSaveIsCopy
  <1>3. Present(doc') = Present(copy) /\ OpenIn(doc', A)
    BY <1>2 DEF Present, OpenIn
  <1>4. Present(copy) = Present(doc)
    BY <1>1 DEF Reworks, Agrees
  <1> QED
    BY <1>3, <1>4

(* Without cancellations the first enrollment is the primary one.          *)
LEMMA FirstIsPrimary ==
  ASSUME NEW d \in Document, Shaped(d), "cancel" \notin Operations
  PROVE  /\ PrimaryOf(d) = 1
         /\ \A e \in Present(d) : PayOpens(d, e) => e = 1
  <1>1. 1 \in Slots /\ 1 \in Primaries(d) /\ Primaries(d) \subseteq Slots
    BY FirstSlot, SlotsOfDocument DEF Shaped, Primaries
  <1>2. Min(Primaries(d)) \in Primaries(d)
    BY <1>1, MinIsMember
  <1> DEFINE m == Min(Primaries(d))
  <1> HIDE DEF m
  <1>3. m \in Slots /\ d.enr[m].primary /\ d.enr[1].primary
    BY <1>1, <1>2 DEF m, Primaries
  <1>4. m = 1
    BY <1>1, <1>3 DEF Shaped
  <1>5. PrimaryOf(d) = 1
    BY <1>1, <1>4 DEF PrimaryOf, m
  <1> QED
    BY <1>5, OpensPrimary

(* PUT /pay up to the ledger.                                              *)
LEMMA PayAdded ==
  ASSUME ShapeInv, AddedInv, Operations \subseteq Collecting \cup {"void"}, NEW r \in Requests,
         PayRead(r) \/ PayClaim(r) \/ PaySave(r) \/ PayUndo(r)
  PROVE  AddedInv'
  <1> USE DEF Adds, Spares, Outcomes
  <1>0. TypeOK /\ snap[r] \in Document /\ doc \in Document /\ arg[r] \in Argument
        /\ Shaped(snap[r]) /\ Agrees(snap[r], doc) /\ Fits(pc[r], arg[r], snap[r])
        /\ OpenIn(doc, Added) /\ OpenIn(snap[r], Added) /\ 1 \notin Added /\ "cancel" \notin Operations
    BY DEF ShapeInv, CopiesShaped, Requested, TypeOK, AddedInv, KeysFree, Collecting
  <1>1. Kept(r) /\ UNCHANGED ledger
    BY <1>0, StepKept DEF PayRead, PayClaim, PaySave, PayUndo, Refuse, Begin, Continue
  <1>2. CASE Refuse(r)
    BY <1>0, <1>2, EndAdded DEF Refuse
  <1>3. CASE PayRead(r) /\ ~Refuse(r)
    <2>1. pc'[r] = "payClaim" /\ UNCHANGED <<doc, snap>>
      BY <1>0, <1>3 DEF PayRead, Goto, TypeOK
    <2> QED
      BY <1>0, <1>1, <2>1, SameAdded
  <1>4. CASE PayClaim(r) /\ ~Refuse(r)
    <2>1. pc'[r] = "paySave" /\ doc'.enr = doc.enr /\ snap'[r] = doc'
      BY <1>0, <1>4 DEF PayClaim, Goto, Keep, TypeOK, Document
    <2>2. Present(doc') = Present(doc) /\ OpenIn(doc', Added)
      BY <1>0, <2>1 DEF Present, OpenIn
    <2> QED
      BY <1>0, <1>1, <2>1, <2>2, SameAdded
  <1>5. CASE PaySave(r) /\ doc.v = snap[r].v
    <2> DEFINE copy == PaidCopy(snap[r])
               next == [copy EXCEPT !.v = @ + 1]
    <2>1. copy \in Document /\ Reworks(snap[r], copy) /\ PrimaryOf(copy) = 1
      BY <1>0, CopiesTyped, FirstSlot, PaidCopyShaped, PaidCopyPrimary, FirstIsPrimary
    <2>2. \A e \in Slots : snap[r].enr[e].paid => copy.enr[e].paid
      <3>1. \A x \in Enrollment : Opened(x).paid
        BY DEF Opened, Enrollment
      <3> QED
        BY <1>0, <3>1 DEF PaidCopy, Document
    <2>3. pc'[r] = "paySettle" /\ snap' = [snap EXCEPT ![r] = next]
          /\ doc' = WholeSave(snap[r], copy) /\ \E n : arg' = [arg EXCEPT ![r].e = PrimaryOf(copy), ![r].amt = n]
      BY <1>0, <1>5 DEF PaySave, Goto, Keep, TypeOK
    <2>4. snap'[r] = next /\ next.enr = copy.enr
      BY <1>0, <2>1, <2>3 DEF TypeOK, Document
    <2> HIDE DEF copy, next
    <2>5. arg'[r].e = 1
      BY <1>0, <2>1, <2>3 DEF TypeOK, Argument
    <2>6. OpenIn(copy, Added) /\ OpenIn(next, Added)
      BY <1>0, <2>1, <2>2, <2>4 DEF OpenIn, Reworks, Present
    <2>7. Present(doc') = Present(doc) /\ OpenIn(doc', Added)
      BY <2>1, <2>3, <2>6, <1>5, WholeOpen
    <2> QED
      BY <1>1, <2>3, <2>4, <2>5, <2>6, <2>7, SameAdded
  <1>6. CASE PaySave(r) /\ doc.v # snap[r].v
    BY <1>0, <1>6, EndAdded DEF PaySave
  <1>7. CASE PayUndo(r)
    <2>1. End(r, "failed")
      BY <1>7 DEF PayUndo
    <2>2. CASE doc.v = snap[r].v
      <3> DEFINE copy == UnpaidCopy(snap[r])
      <3>1. copy \in Document /\ Reworks(snap[r], copy)
        BY <1>0, CopiesTyped, FirstSlot, PaidCopyShaped
      <3>2. \A e \in Slots : e # 1 => copy.enr[e] = snap[r].enr[e]
        BY <1>0, FirstIsPrimary DEF UnpaidCopy, Document
      <3>3. doc' = WholeSave(snap[r], copy)
        BY <1>7, <2>2 DEF PayUndo
      <3> HIDE DEF copy
      <3>4. OpenIn(copy, Added)
        BY <1>0, <3>1, <3>2 DEF OpenIn, Reworks, Present
      <3>5. Present(doc') = Present(doc) /\ OpenIn(doc', Added)
        BY <2>2, <3>1, <3>3, <3>4, WholeOpen
      <3> QED
        BY <1>1, <2>1, <3>5, EndAdded
    <2>3. CASE doc.v # snap[r].v
      BY <1>0, <1>1, <1>7, <2>1, <2>3, EndAdded DEF PayUndo
    <2> QED
      BY <2>2, <2>3
  <1> QED
    BY <1>2, <1>3, <1>4, <1>5, <1>6, <1>7

(* PUT /enrollments/:id/pay up to the ledger, and what takes it back.      *)
LEMMA EnrAdded ==
  ASSUME ShapeInv, AddedInv, Operations \subseteq Collecting \cup {"void"}, NEW r \in Requests,
         (\E e \in Slots : EnrClaim(r, e)) \/ EnrRead(r) \/ EnrSave(r) \/ Undo(r)
  PROVE  AddedInv'
  <1> USE DEF Adds, Spares, Outcomes
  <1>0. TypeOK /\ snap[r] \in Document /\ doc \in Document /\ arg[r] \in Argument
        /\ Shaped(snap[r]) /\ Agrees(snap[r], doc) /\ Fits(pc[r], arg[r], snap[r])
        /\ OpenIn(doc, Added) /\ OpenIn(snap[r], Added) /\ Spares(pc[r], arg[r], Added, ledger)
    BY DEF ShapeInv, CopiesShaped, Requested, TypeOK, AddedInv
  <1>1. Kept(r) /\ UNCHANGED ledger
    BY <1>0, StepKept DEF EnrClaim, EnrRead, EnrSave, Undo, Refuse, Begin, Continue
  <1>2. ASSUME NEW e \in Slots, EnrClaim(r, e), ~Refuse(r)
        PROVE  AddedInv'
    <2>1. /\ e \in Present(doc) /\ ~doc.enr[e].paid /\ UNCHANGED snap
          /\ doc' = [doc EXCEPT !.enr = Claimed(doc.enr, e)] /\ pc' = [pc EXCEPT ![r] = "enrRead"]
          /\ \E n : arg' = [arg EXCEPT ![r] = [NoArg EXCEPT !.op = "enrPay", !.e = e, !.amt = n]]
      BY <1>2 DEF EnrClaim, Goto
    <2>2. pc'[r] = "enrRead" /\ arg'[r].op = "enrPay" /\ arg'[r].e = e /\ snap'[r] = snap[r]
      BY <1>0, <2>1 DEF TypeOK, NoArg
    <2>3. e \notin Added
      BY <1>0, <2>1 DEF OpenIn
    <2>4. Present(doc') = Present(doc) /\ \A i \in Slots : i # e => doc'.enr[i] = doc.enr[i]
      <3>1. /\ doc'.enr = Claimed(doc.enr, e) /\ doc.enr \in [Slots -> Enrollment]
        BY <1>0, <2>1 DEF Document
      <3>2. \A i \in Slots : i # e => doc'.enr[i] = doc.enr[i]
        BY <3>1 DEF Claimed
      <3>3. doc'.enr[e].status = "active"
        <4> DEFINE y == doc.enr[e]
        <4>1. y \in Enrollment /\ doc'.enr = [doc.enr EXCEPT ![e] = [y EXCEPT !.paid = TRUE, !.status = "active"]]
          BY <3>1 DEF Claimed
        <4>2. [y EXCEPT !.paid = TRUE, !.status = "active"].status = "active"
          <5> HIDE DEF y
          <5> QED
            BY <4>1 DEF Enrollment
        <4> QED
          BY <3>1, <4>1, <4>2
      <3> QED
        BY <2>1, <3>2, <3>3 DEF Present
    <2>5. OpenIn(doc', Added)
      BY <1>0, <2>3, <2>4 DEF OpenIn, Present
    <2> QED
      BY <1>0, <1>1, <2>2, <2>3, <2>4, <2>5, SameAdded
  <1>3. CASE EnrRead(r)
    <2>1. UNCHANGED <<doc, arg>> /\ snap'[r] = doc /\ pc'[r] = "enrSave" /\ pc[r] = "enrRead"
      BY <1>0, <1>3 DEF EnrRead, Goto, Keep, TypeOK
    <2> QED
      BY <1>0, <1>1, <2>1, SameAdded
  <1>4. CASE EnrSave(r)
    <2> DEFINE copy == CollectedCopy(snap[r], arg[r].e, arg[r].amt)
    <2>0. copy.enr = snap[r].enr /\ copy.price = snap[r].price
      BY <1>0, CollectedIsRoot
    <2>1. doc' = Scalars(snap[r], copy) /\ pc[r] = "enrSave"
          /\ \/ End(r, "ok")
             \/ Goto(r, "enrSettle") /\ Keep(r, copy) /\ UNCHANGED arg
      BY <1>4 DEF EnrSave
    <2> HIDE DEF copy
    <2>2. doc'.enr = doc.enr
      BY <1>0, <2>0, <2>1, ScalarsAreRoot
    <2>3. Present(doc') = Present(doc) /\ OpenIn(doc', Added) /\ OpenIn(copy, Added)
      BY <1>0, <2>0, <2>2 DEF Present, OpenIn
    <2>4. CASE End(r, "ok")
      BY <1>1, <2>3, <2>4, EndAdded
    <2>5. CASE Goto(r, "enrSettle") /\ Keep(r, copy) /\ UNCHANGED arg
      <3>1. pc'[r] = "enrSettle" /\ snap'[r] = copy /\ arg' = arg
        BY <1>0, <2>5 DEF Goto, Keep, TypeOK
      <3> QED
        BY <1>0, <1>1, <2>1, <2>3, <3>1, SameAdded
    <2> QED
      BY <2>1, <2>4, <2>5
  <1>5. CASE Undo(r)
    <2>1. End(r, "failed") /\ pc[r] = "undo"
      BY <1>5 DEF Undo
    <2>2. CASE doc.v = snap[r].v
      <3> DEFINE copy == TakenBack(snap[r], arg[r].e, arg[r].amt)
      <3>1. arg[r].e \in Present(snap[r]) /\ arg[r].amt \in Nat /\ arg[r].e \in Slots
        BY <1>0, <2>1 DEF Fits, Present, Argument
      <3>2. copy \in Document /\ Reworks(snap[r], copy)
        BY <1>0, <3>1, CopiesTyped, TakenBackShaped
      <3>3. \A i \in Slots : i # arg[r].e => copy.enr[i] = snap[r].enr[i]
        BY <1>0, <3>1 DEF TakenBack, Document
      <3>4. doc' = WholeSave(snap[r], copy)
        BY <1>5, <2>2 DEF Undo
      <3> HIDE DEF copy
      <3>5. arg[r].e \notin Added
        <4>1. CASE arg[r].op = "enrPay"
          BY <1>0, <2>1, <4>1
        <4>2. CASE arg[r].op = "addPaid"
          <5>1. Free(ledger, <<"add", arg[r].e>>)
            BY <1>0, <2>1, <4>2
          <5>2. ASSUME NEW q \in Requests, pc[q] = "addSettle", arg[q].e = arg[r].e PROVE FALSE
            <6>1. arg[q].op = "addPaid" /\ q # r
              BY <2>1, <5>2 DEF ShapeInv, Requested, Fits, Serves
            <6> QED
              BY <2>1, <4>2, <5>2, <6>1 DEF AddedInv, AddsApart
          <5> QED
            BY <5>1, <5>2 DEF Added, Posted, Free
        <4> QED
          BY <1>0, <2>1, <4>1, <4>2 DEF Fits, Serves
      <3>6. OpenIn(copy, Added)
        BY <1>0, <3>2, <3>3, <3>5 DEF OpenIn, Reworks, Present
      <3>7. Present(doc') = Present(doc) /\ OpenIn(doc', Added)
        BY <2>2, <3>2, <3>4, <3>6, WholeOpen
      <3> QED
        BY <1>1, <2>1, <3>7, EndAdded
    <2>3. CASE doc.v # snap[r].v
      BY <1>0, <1>1, <1>5, <2>1, <2>3, EndAdded DEF Undo
    <2> QED
      BY <2>2, <2>3
  <1>6. CASE Refuse(r)
    BY <1>0, <1>6, EndAdded DEF Refuse
  <1> QED
    BY <1>2, <1>3, <1>4, <1>5, <1>6

(* POST /enrollments up to the ledger.                                     *)
LEMMA AddAdded ==
  ASSUME ShapeInv, AddedInv, Operations \subseteq Collecting \cup {"void"}, NEW r \in Requests,
         (\E c \in Courses, op \in {"add", "addPaid"} : AddRead(r, c, op)) \/ AddSave(r)
  PROVE  AddedInv'
  <1>0. TypeOK /\ snap[r] \in Document /\ doc \in Document /\ arg[r] \in Argument
        /\ Shaped(doc) /\ Agrees(snap[r], doc) /\ Fits(pc[r], arg[r], snap[r])
        /\ OpenIn(doc, Added) /\ OpenIn(snap[r], Added)
    BY DEF ShapeInv, CopiesShaped, Requested, TypeOK, AddedInv
  <1>1. Kept(r) /\ UNCHANGED ledger
    BY <1>0, StepKept DEF AddRead, AddSave, Refuse, Begin, Continue
  <1>2. CASE Refuse(r)
    BY <1>0, <1>2, EndAdded DEF Refuse, Outcomes
  <1>3. ASSUME NEW c \in Courses, NEW op \in {"add", "addPaid"}, AddRead(r, c, op), ~Refuse(r)
        PROVE  AddedInv'
    <2>1. pc'[r] = "addSave" /\ snap'[r] = doc /\ UNCHANGED doc
          /\ \E n : arg' = [arg EXCEPT ![r] = [NoArg EXCEPT !.op = op, !.course = c, !.amt = n]]
      BY <1>0, <1>3 DEF AddRead, Goto, Keep, TypeOK
    <2>2. arg'[r].op = op
      BY <1>0, <2>1 DEF TypeOK, NoArg
    <2> QED
      BY <1>0, <1>1, <1>3, <2>1, <2>2, SameAdded DEF Adds, Spares
  <1>4. CASE AddSave(r)
    <2> DEFINE A == Added'
               new == doc'
               next == snap'[r]
    <2>1. PICK e, x : Appends(r, e, x)
      BY <1>0, <1>4, AddSaveAppends
    <2>2. pc[r] = "addSave"
      BY <1>4 DEF AddSave
    <2>3. e \in Slots /\ e \notin Present(doc) /\ e # 1 /\ 1 \in Present(doc)
          /\ new.enr = [doc.enr EXCEPT ![e] = x] /\ doc.enr \in [Slots -> Enrollment]
          /\ x \in Enrollment /\ x.status \in {"pending_payment", "active"}
      BY <1>0, <2>1 DEF Appends, Shaped, Document
    <2>4. Present(new) = Present(doc) \cup {e} /\ new.enr[e] = x
          /\ \A i \in Slots : i # e => new.enr[i] = doc.enr[i]
      BY <2>3 DEF Present
    <2>5. e \notin Added /\ Free(ledger, <<"pay", e>>) /\ Free(ledger, <<"add", e>>)
      BY <2>3 DEF AddedInv, KeysFree
    <2>6. /\ KeysFree /\ AddsApart /\ \A q \in Requests : OpenIn(snap[q], Added)
          /\ \A q \in Requests : Spares(pc[q], arg[q], Added, ledger)
      BY DEF AddedInv
    <2>7. CASE arg[r].amt > 0
      <3>1. pc'[r] = "addSettle" /\ arg'[r] = [arg[r] EXCEPT !.e = e]
            /\ next.enr = [snap[r].enr EXCEPT ![e] = x]
        BY <2>1, <2>7 DEF Appends
      <3>2. arg'[r].e = e /\ arg'[r].op = arg[r].op /\ arg[r].op = "addPaid"
        BY <1>0, <2>2, <2>3, <2>7, <3>1 DEF Argument, Fits
      <3>3. x.paid
        BY <2>1, <3>2 DEF Appends
      <3>4. \A q \in Requests \ {r} : pc'[q] = pc[q] /\ arg'[q] = arg[q] /\ snap'[q] = snap[q]
        BY <1>1 DEF Kept
      <3>5. A \subseteq Added \cup {e}
        BY <1>1, <2>2, <3>2, <3>4 DEF Added
      <3> HIDE DEF A, new, next
      <3>6. \A q \in Requests : e \notin Present(snap[q])
        BY <2>3 DEF ShapeInv, CopiesShaped, Agrees
      <3>7. ASSUME NEW q \in Requests,
                   \/ Adds(pc[q], arg[q])
                   \/ (arg[q].op = "enrPay" /\ pc[q] \in {"enrRead", "enrSave", "enrSettle", "undo"})
            PROVE  arg[q].e # e
        <4>1. Fits(pc[q], arg[q], snap[q]) /\ (pc[q] = "enrRead" => arg[q].e \in Present(doc))
          BY DEF ShapeInv, Requested, Claiming
        <4>2. CASE pc[q] = "enrRead"
          BY <2>3, <4>1, <4>2
        <4>3. CASE pc[q] # "enrRead"
          BY <3>6, <3>7, <4>1, <4>3 DEF Fits, Adds
        <4> QED
          BY <4>2, <4>3
      <3>8. KeysFree'
        <4>1. \A i \in A : i \in Present(new) /\ i # 1 /\ Free(ledger', <<"pay", i>>)
          BY <1>1, <2>3, <2>4, <2>5, <2>6, <3>5 DEF KeysFree
        <4>2. \A i \in Slots : Free(ledger', <<"heal", i>>)
          BY <1>1, <2>6 DEF KeysFree
        <4>3. \A i \in Slots \ Present(new) : Free(ledger', <<"pay", i>>) /\ Free(ledger', <<"add", i>>)
          BY <1>1, <2>4, <2>6 DEF KeysFree
        <4> QED
          BY <4>1, <4>2, <4>3 DEF KeysFree, A, new
      <3>9. AddsApart'
        <4>1. ASSUME NEW p \in Requests, NEW q \in Requests, p # q,
                     Adds(pc'[p], arg'[p]), Adds(pc'[q], arg'[q])
              PROVE  arg'[p].e # arg'[q].e
          <5>1. CASE p = r
            <6>1. q \in Requests \ {r} /\ arg'[r].e = e
              BY <3>2, <4>1, <5>1
            <6>2. pc'[q] = pc[q] /\ arg'[q] = arg[q]
              BY <3>4, <6>1
            <6>3. Adds(pc[q], arg[q])
              BY <4>1, <6>2 DEF Adds
            <6>4. arg[q].e # e
              BY <3>7, <6>1, <6>3 DEF Adds
            <6> QED
              BY <5>1, <6>1, <6>2, <6>4
          <5>2. CASE q = r
            <6>1. p \in Requests \ {r} /\ arg'[r].e = e
              BY <3>2, <4>1, <5>2
            <6>2. pc'[p] = pc[p] /\ arg'[p] = arg[p]
              BY <3>4, <6>1
            <6>3. Adds(pc[p], arg[p])
              BY <4>1, <6>2 DEF Adds
            <6>4. arg[p].e # e
              BY <3>7, <6>1, <6>3 DEF Adds
            <6> QED
              BY <5>2, <6>1, <6>2, <6>4
          <5>3. CASE p # r /\ q # r
            BY <2>6, <3>4, <4>1, <5>3 DEF AddsApart
          <5> QED
            BY <5>1, <5>2, <5>3
        <4> QED
          BY <4>1 DEF AddsApart
      <3>10. OpenIn(new, A)
        BY <1>0, <2>3, <2>4, <3>3, <3>5 DEF OpenIn, Present
      <3>11. OpenIn(next, A)
        <4>1. snap[r].enr \in [Slots -> Enrollment]
          BY <1>0 DEF Document
        <4>2. next.enr[e] = x /\ \A i \in Slots : i # e => next.enr[i] = snap[r].enr[i]
          BY <2>3, <3>1, <4>1 DEF next
        <4> QED
          BY <1>0, <3>3, <3>5, <4>2 DEF OpenIn, Present
      <3>12. \A q \in Requests \ {r} : OpenIn(snap'[q], A)
        BY <2>6, <3>4, <3>5, <3>6 DEF OpenIn
      <3>13. \A q \in Requests \ {r} : Spares(pc'[q], arg'[q], A, ledger')
        BY <1>1, <2>6, <3>4, <3>5, <3>7 DEF Spares
      <3>14. Spares(pc'[r], arg'[r], A, ledger')
        BY <1>1, <2>5, <3>1, <3>2 DEF Spares
      <3> QED
        BY <3>8, <3>9, <3>10, <3>11, <3>12, <3>13, <3>14 DEF AddedInv, A, new, next
    <2>8. CASE ~(arg[r].amt > 0)
      <3>1. End(r, "ok")
        BY <2>1, <2>8 DEF Appends
      <3>2. pc'[r] = "ok" /\ snap'[r] = NewDoc
        BY <1>0, <3>1 DEF End, Goto, Keep, TypeOK
      <3>3. \A q \in Requests \ {r} : pc'[q] = pc[q] /\ arg'[q] = arg[q] /\ snap'[q] = snap[q]
        BY <1>1 DEF Kept
      <3>4. A \subseteq Added
        BY <1>1, <3>2, <3>3 DEF Added
      <3> HIDE DEF A, new, next
      <3>5. KeysFree'
        <4>1. \A i \in A : i \in Present(new) /\ i # 1 /\ Free(ledger', <<"pay", i>>)
          BY <1>1, <2>4, <2>6, <3>4 DEF KeysFree
        <4>2. \A i \in Slots : Free(ledger', <<"heal", i>>)
          BY <1>1, <2>6 DEF KeysFree
        <4>3. \A i \in Slots \ Present(new) : Free(ledger', <<"pay", i>>) /\ Free(ledger', <<"add", i>>)
          BY <1>1, <2>4, <2>6 DEF KeysFree
        <4> QED
          BY <4>1, <4>2, <4>3 DEF KeysFree, A, new
      <3>6. AddsApart'
        BY <2>6, <3>2, <3>3 DEF AddsApart, Adds
      <3>7. OpenIn(new, A)
        BY <1>0, <2>3, <2>4, <2>5, <3>4 DEF OpenIn, Present
      <3>8. \A q \in Requests \ {r} : OpenIn(snap'[q], A)
        BY <2>6, <3>3, <3>4 DEF OpenIn
      <3>9. OpenIn(snap'[r], A)
        BY <2>6, <3>2, <3>4, NewDocOpen DEF KeysFree
      <3>10. \A q \in Requests \ {r} : Spares(pc'[q], arg'[q], A, ledger')
        BY <1>1, <2>6, <3>3, <3>4 DEF Spares
      <3>11. Spares(pc'[r], arg'[r], A, ledger')
        BY <3>2 DEF Spares, Adds
      <3> QED
        BY <3>5, <3>6, <3>7, <3>8, <3>9, <3>10, <3>11 DEF AddedInv, A, new
    <2> QED
      BY <2>7, <2>8
  <1> QED
    BY <1>2, <1>3, <1>4

(* The ledger's turn.                                                      *)
LEMMA SettleAdded ==
  ASSUME ShapeInv, AddedInv, Operations \subseteq Collecting \cup {"void"}, "lostReply" \notin FaultKinds,
         NEW r \in Requests, PaySettle(r) \/ EnrSettle(r) \/ AddSettle(r)
  PROVE  AddedInv'
  <1> DEFINE A == Added'
             e == arg[r].e
             k == PaymentKey(r)
  <1>0. TypeOK /\ arg[r] \in Argument /\ Fits(pc[r], arg[r], snap[r]) /\ Agrees(snap[r], doc)
        /\ Spares(pc[r], arg[r], Added, ledger) /\ ledger \in [Keys -> Entry]
        /\ arg \in [Requests -> Argument] /\ pc \in [Requests -> {"new"} \cup Steps \cup Outcomes]
        /\ snap \in [Requests -> Document]
    BY DEF ShapeInv, CopiesShaped, Requested, TypeOK, AddedInv
  <1>1. Kept(r)
    BY <1>0, StepKept DEF Continue
  <1>2. \A q \in Requests \ {r} : pc'[q] = pc[q] /\ arg'[q] = arg[q] /\ snap'[q] = snap[q]
    BY <1>1 DEF Kept
  <1>3. PICK u \in {"payUndo", "undo"} :
          /\ Settle(r, u)
          /\ \/ pc[r] = "paySettle" /\ u = "payUndo"
             \/ pc[r] \in {"enrSettle", "addSettle"} /\ u = "undo"
    BY DEF PaySettle, EnrSettle, AddSettle
  <1>4. /\ UNCHANGED doc /\ arg' = arg
        /\ \/ /\ pc'[r] = "settled" /\ snap'[r] = NewDoc
              /\ UNCHANGED ledger \/ ledger' = PostEntry(ledger, k, arg[r].amt)
           \/ pc'[r] = u /\ snap' = snap /\ UNCHANGED ledger
    <2>1. ~Fault("lostReply")
      BY DEF Fault
    <2> QED
      BY <1>0, <1>3, <2>1 DEF Settle, End, Goto, Keep
  <1>5. \/ pc[r] = "paySettle" /\ arg[r].op = "pay" /\ e = 1 /\ k = <<"pay", e>>
        \/ pc[r] = "enrSettle" /\ arg[r].op = "enrPay" /\ e \notin Added /\ k = <<"pay", e>>
        \/ pc[r] = "addSettle" /\ arg[r].op = "addPaid" /\ e \in Added /\ k = <<"add", e>>
    BY <1>0, <1>3 DEF Fits, Serves, Outcomes, Spares, PaymentKey, Added, Argument
  <1>6. e \in Present(doc)
    BY <1>0, <1>3, <1>5 DEF Fits, Agrees, ShapeInv, CopiesShaped, Shaped
  <1>7. /\ KeysFree /\ AddsApart
        /\ OpenIn(doc, Added) /\ \A q \in Requests : OpenIn(snap[q], Added)
        /\ \A q \in Requests : Spares(pc[q], arg[q], Added, ledger)
    BY DEF AddedInv
  <1> HIDE DEF A, e, k
  <1>8. \A i \in Keys : i # k => ledger'[i] = ledger[i]
    BY <1>0, <1>4 DEF PostEntry
  <1>9. \A i \in Slots : <<"pay", i>> \in Keys /\ <<"add", i>> \in Keys /\ <<"heal", i>> \in Keys
    BY DEF Keys
  <1>10. A \subseteq Added
    <2> SUFFICES ASSUME NEW i \in Slots,
                        \/ Posted(ledger', <<"add", i>>)
                        \/ \E q \in Requests : pc'[q] = "addSettle" /\ arg'[q].e = i
                 PROVE  i \in Added
      BY DEF A, Added
    <2>1. CASE \E q \in Requests : pc'[q] = "addSettle" /\ arg'[q].e = i
      <3>1. PICK q \in Requests : pc'[q] = "addSettle" /\ arg'[q].e = i
        BY <2>1
      <3>2. q # r
        BY <1>3, <1>4, <3>1
      <3>3. pc[q] = "addSettle" /\ arg[q].e = i
        BY <1>2, <3>1, <3>2
      <3> QED
        BY <3>3 DEF Added
    <2>2. CASE Posted(ledger', <<"add", i>>)
      <3>1. CASE k = <<"add", i>>
        BY <1>5, <3>1
      <3>2. CASE k # <<"add", i>>
        BY <1>8, <1>9, <2>2, <3>2 DEF Added, Posted
      <3> QED
        BY <3>1, <3>2
    <2> QED
      BY <2>1, <2>2
  <1>11. KeysFree'
    <2>1. ASSUME NEW i \in A PROVE i \in Present(doc') /\ i # 1 /\ Free(ledger', <<"pay", i>>)
      <3>1. i \in Added /\ i \in Slots /\ i \in Present(doc) /\ i # 1 /\ Free(ledger, <<"pay", i>>)
        BY <1>7, <1>10 DEF KeysFree, Added
      <3>2. k # <<"pay", i>>
        BY <1>5, <3>1
      <3> QED
        BY <1>4, <1>8, <1>9, <3>1, <3>2 DEF Free
    <2>2. ASSUME NEW i \in Slots PROVE Free(ledger', <<"heal", i>>)
      <3>1. k # <<"heal", i>> /\ Free(ledger, <<"heal", i>>)
        BY <1>5, <1>7 DEF KeysFree
      <3> QED
        BY <1>8, <1>9, <3>1 DEF Free
    <2>3. ASSUME NEW i \in Slots \ Present(doc')
          PROVE  Free(ledger', <<"pay", i>>) /\ Free(ledger', <<"add", i>>)
      <3>1. i \notin Present(doc) /\ Free(ledger, <<"pay", i>>) /\ Free(ledger, <<"add", i>>)
        BY <1>4, <1>7, <2>3 DEF KeysFree
      <3>2. k # <<"pay", i>> /\ k # <<"add", i>>
        BY <1>5, <1>6, <3>1
      <3> QED
        BY <1>8, <1>9, <3>1, <3>2 DEF Free
    <2> QED
      BY <2>1, <2>2, <2>3 DEF KeysFree, A
  <1>12. Adds(pc'[r], arg'[r]) => Adds(pc[r], arg[r]) /\ UNCHANGED ledger
    BY <1>3, <1>4, <1>5 DEF Adds
  <1>13. AddsApart'
    <2>1. \A q \in Requests : arg'[q].e = arg[q].e
      BY <1>4
    <2>2. \A q \in Requests : Adds(pc'[q], arg'[q]) => Adds(pc[q], arg[q])
      BY <1>2, <1>12
    <2> QED
      BY <1>7, <2>1, <2>2 DEF AddsApart
  <1>14. OpenIn(doc', A) /\ \A q \in Requests : OpenIn(snap'[q], A)
    <2>1. OpenIn(doc', A)
      BY <1>4, <1>7, <1>10 DEF OpenIn
    <2>2. \A q \in Requests : snap'[q] = snap[q] \/ snap'[q] = NewDoc
      BY <1>2, <1>4
    <2>3. OpenIn(NewDoc, A)
      BY <1>7, <1>10, NewDocOpen DEF KeysFree
    <2> QED
      BY <1>7, <1>10, <2>1, <2>2, <2>3 DEF OpenIn
  <1>15. ASSUME NEW q \in Requests PROVE Spares(pc'[q], arg'[q], A, ledger')
    <2>1. CASE q = r
      BY <1>3, <1>4, <1>5, <1>7, <1>10, <1>12, <2>1 DEF Spares, Adds, e
    <2>2. CASE q # r
      <3>1. pc'[q] = pc[q] /\ arg'[q] = arg[q] /\ Spares(pc[q], arg[q], Added, ledger)
        BY <1>2, <1>7, <2>2
      <3>2. Adds(pc[q], arg[q]) => Free(ledger', <<"add", arg[q].e>>)
        <4> SUFFICES ASSUME Adds(pc[q], arg[q]) PROVE Free(ledger', <<"add", arg[q].e>>)
          OBVIOUS
        <4>1. Free(ledger, <<"add", arg[q].e>>) /\ arg[q].e \in Slots
          BY <1>0, <3>1 DEF Spares, Argument
        <4>2. k # <<"add", arg[q].e>>
          <5>1. CASE k = <<"pay", e>>
            BY <5>1
          <5>2. CASE pc[r] = "addSettle" /\ arg[r].op = "addPaid" /\ k = <<"add", e>>
            <6>1. Adds(pc[r], arg[r])
              BY <5>2 DEF Adds
            <6>2. arg[q].e # arg[r].e
              BY <1>7, <2>2, <6>1 DEF AddsApart
            <6> QED
              BY <5>2, <6>2 DEF e
          <5> QED
            BY <1>5, <5>1, <5>2
        <4> QED
          BY <1>8, <1>9, <4>1, <4>2 DEF Free
      <3> QED
        BY <1>10, <3>1, <3>2 DEF Spares
    <2> QED
      BY <2>1, <2>2
  <1> QED
    BY <1>11, <1>13, <1>14, <1>15 DEF AddedInv, A

(* A void by hand: the key stays taken.                                    *)
LEMMA VoidAdded ==
  ASSUME ShapeInv, AddedInv, NEW k \in Keys, LedgerVoid(k)
  PROVE  AddedInv'
  <1>1. UNCHANGED <<doc, pc, arg, snap>>
    BY DEF LedgerVoid, locals
  <1>2. /\ \A q \in Keys : Free(ledger', q) <=> Free(ledger, q)
        /\ \A q \in Keys : Posted(ledger', q) => Posted(ledger, q)
    <2>1. ledger \in [Keys -> Entry] /\ Posted(ledger, k) /\ ledger' = VoidEntry(ledger, k)
      BY DEF ShapeInv, TypeOK, LedgerVoid
    <2> QED
      BY <2>1 DEF VoidEntry, Free, Posted, Entry
  <1>3. \A e \in Slots : <<"pay", e>> \in Keys /\ <<"add", e>> \in Keys /\ <<"heal", e>> \in Keys
    BY DEF Keys
  <1>4. Added' \subseteq Added
    BY <1>1, <1>2, <1>3 DEF Added
  <1>5. KeysFree'
    BY <1>1, <1>2, <1>3, <1>4 DEF AddedInv, KeysFree, Added
  <1>6. AddsApart'
    BY <1>1 DEF AddedInv, AddsApart
  <1>7. OpenIn(doc', Added') /\ \A r \in Requests : OpenIn(snap'[r], Added')
    BY <1>1, <1>4 DEF AddedInv, OpenIn
  <1>8. ASSUME NEW r \in Requests
        PROVE  Spares(pc'[r], arg'[r], Added', ledger')
    <2>1. Spares(pc[r], arg[r], Added, ledger) /\ arg[r].e \in Slots
      BY DEF AddedInv, ShapeInv, TypeOK, Argument
    <2> QED
      BY <1>1, <1>2, <1>3, <1>4, <2>1 DEF Spares
  <1> QED
    BY <1>5, <1>6, <1>7, <1>8 DEF AddedInv

(* The tuition of one enrollment is booked once, whichever of PUT /pay,    *)
(* PUT /enrollments/:id/pay and POST /enrollments collect it at the same   *)
(* time, though ledger writes fail or the process dies, and though entries *)
(* are voided by hand (a void entry keeps its key); only a write that fails *)
(* and is applied all the same must not happen.                            *)
THEOREM CollectedOnce ==
  ASSUME Operations \subseteq Collecting \cup {"void"}, "lostReply" \notin FaultKinds
  PROVE  Spec => []BookedOnce
  <1>1. Init => AddedInv
    <2> SUFFICES ASSUME Init PROVE AddedInv
      OBVIOUS
    <2>1. ledger = [k \in Keys |-> NoEntry] /\ doc = NewDoc
          /\ \A r \in Requests : pc[r] = "new" /\ arg[r] = NoArg /\ snap[r] = NewDoc
      BY DEF Init
    <2>2. Added = {}
      BY <2>1 DEF Added, Posted, NoEntry, Keys
    <2>3. KeysFree /\ AddsApart
      BY <2>1, <2>2 DEF KeysFree, AddsApart, Adds, Free, NoEntry, Keys, NoArg
    <2> QED
      BY <2>1, <2>2, <2>3 DEF AddedInv, OpenIn, Spares, Adds, NoArg
  <1>2. ShapeInv /\ AddedInv /\ [Next]_vars => AddedInv'
    <2> SUFFICES ASSUME ShapeInv, AddedInv, [Next]_vars PROVE AddedInv'
      OBVIOUS
    <2>1. CASE UNCHANGED vars
      <3>1. Added' = Added
        BY <2>1 DEF vars, locals, Added, Posted
      <3> QED
        BY <2>1, <3>1 DEF vars, locals, AddedInv, KeysFree, AddsApart
    <2>2. ASSUME NEW r \in Requests, Begin(r) PROVE AddedInv'
      <3>1. CASE PayRead(r)
        BY <3>1, PayAdded
      <3>2. CASE \E e \in Slots : EnrClaim(r, e)
        BY <3>2, EnrAdded
      <3>3. CASE \E c \in Courses, op \in {"add", "addPaid"} : AddRead(r, c, op)
        BY <3>3, AddAdded
      <3> QED
        BY <2>2, <3>1, <3>2, <3>3 DEF Begin, HealRead, CancelRead, RefundRead, Arrive, Collecting
    <2>3. ASSUME NEW r \in Requests, Continue(r) PROVE AddedInv'
      <3>1. Fits(pc[r], arg[r], snap[r])
        BY DEF ShapeInv, Requested
      <3>2. arg[r].op \in {"pay", "enrPay", "add", "addPaid", "void", "none"}
        BY <3>1 DEF Fits, Collecting
      <3>3. pc[r] \notin {"postRefund", "countNotes", "issueNote", "voidRefund", "cancelSave", "refundFill",
                          "refundClaim", "refundSave", "restore", "restored", "healCheck", "healPost"}
        BY <3>1, <3>2 DEF Fits, Serves, Outcomes
      <3>4. CASE PayClaim(r) \/ PaySave(r) \/ PayUndo(r)
        BY <3>4, PayAdded
      <3>5. CASE EnrRead(r) \/ EnrSave(r) \/ Undo(r)
        BY <3>5, EnrAdded
      <3>6. CASE AddSave(r)
        BY <3>6, AddAdded
      <3>7. CASE PaySettle(r) \/ EnrSettle(r) \/ AddSettle(r)
        BY <3>7, SettleAdded
      <3> QED
        BY <2>3, <3>3, <3>4, <3>5, <3>6, <3>7
           DEF Continue, PostRefund, CountNotes, IssueNote, VoidRefund, CancelSave, RefundFill,
               RefundClaim, RefundSave, RefundRestore, HealCheck, HealPost
    <2>4. ASSUME NEW r \in Requests, Crash(r) PROVE AddedInv'
      BY <2>4, EndAdded DEF Crash, Outcomes, AddedInv
    <2>5. ASSUME NEW k \in Keys, LedgerVoid(k) PROVE AddedInv'
      BY <2>5, VoidAdded
    <2> QED
      BY <2>1, <2>2, <2>3, <2>4, <2>5 DEF Next
  <1>3. AddedInv => BookedOnce
    <2> SUFFICES ASSUME AddedInv, NEW e \in Slots
                 PROVE  Cardinality({k \in PaymentsOf(e) : Posted(ledger, k)}) <= 1
      BY DEF BookedOnce
    <2> DEFINE S == {k \in PaymentsOf(e) : Posted(ledger, k)}
    <2>1. PaymentsOf(e) = {<<"pay", e>>, <<"add", e>>, <<"heal", e>>}
      BY DEF PaymentsOf
    <2>2. <<"heal", e>> \notin S
      BY DEF AddedInv, KeysFree, Free, Posted
    <2>3. ~(<<"pay", e>> \in S /\ <<"add", e>> \in S)
      BY DEF AddedInv, KeysFree, Added, Free, Posted
    <2>4. S = {} \/ S = {<<"pay", e>>} \/ S = {<<"add", e>>}
      BY <2>1, <2>2, <2>3
    <2>5. Cardinality({}) = 0 /\ \A x : Cardinality({x}) = 1
      BY FS_EmptySet, FS_Singleton
    <2> HIDE DEF S
    <2>6. Cardinality(S) \in {0, 1}
      BY <2>4, <2>5
    <2> QED
      BY <2>6 DEF S
  <1> QED
    BY <1>1, <1>2, <1>3, ShapeInvariance, PTL DEF Spec

-----------------------------------------------------------------------------
(* The price of a payment.  PUT /pay takes paidAmount for its amount when  *)
(* that is not zero, and the price of the root otherwise; so an unpaid     *)
(* root must have no paidAmount, which holds as long as nothing is taken   *)
(* back or refunded.  Every entry of the ledger has the price of its       *)
(* enrollment then, and no payment collides with another amount.           *)
AtPrice(d, a) == a.e \in Present(d) /\ a.amt = PriceOf(d, a.e)

(* What a request knows of the amount it collects.                         *)
Priced(step, a, d, c) ==
  /\ step \notin {"payUndo", "undo"}
  /\ step = "payClaim" => a.amt = Price[FirstCourse]
  /\ step = "paySave" => d.paid /\ d.paidAmount = Price[FirstCourse]
  /\ step \in {"paySettle", "enrRead", "enrSave", "enrSettle", "addSettle", "settled"} => AtPrice(c, a)
  /\ step = "enrRead" => c.paid \/ c.enr[a.e].paid
  /\ step = "enrSave" => d.paid \/ d.enr[a.e].paid

(* Entries of payments have the price of their enrollment.                 *)
EntriesAtPrice ==
  \A e \in Slots, k \in PaymentKeys : k[2] = e /\ Posted(ledger, k) =>
     e \in Present(doc) /\ ledger[k].amount = PriceOf(doc, e)

UnpaidIsZero == ~doc.paid => doc.paidAmount = 0

PricedInv ==
  /\ UnpaidIsZero /\ EntriesAtPrice
  /\ \A r \in Requests : snap[r].paid => doc.paid
  /\ \A r \in Requests : Priced(pc[r], arg[r], snap[r], doc)

(* The root is paid once and for all, and enrollments keep their prices.   *)
Grows(d, c) ==
  /\ d.paid => c.paid
  /\ \A e \in Present(d) : e \in Present(c) /\ c.enr[e].course = d.enr[e].course

LEMMA FirstPrice ==
  ASSUME ShapeInv, "cancel" \notin Operations
  PROVE  doc.price = Price[FirstCourse] /\ PriceOf(doc, 1) = Price[FirstCourse] /\ 1 \in Present(doc)
         /\ \A r \in Requests : snap[r].price = Price[FirstCourse]
  <1>1. ASSUME NEW d \in Document, Shaped(d), NEW c \in Document, Shaped(c), Agrees(d, c)
        PROVE  c.price = d.price
    <2>1. 1 \in Present(c) /\ PriceOf(d, 1) = PriceOf(c, 1)
      BY <1>1 DEF Agrees, Shaped, PriceOf
    <2> QED
      BY <1>1, <2>1 DEF Shaped
  <1>2. NewDoc.price = Price[FirstCourse] /\ NewDoc \in Document
    BY FreshTyped DEF NewDoc
  <1>3. Shaped(NewDoc) /\ Shaped(doc) /\ Agrees(NewDoc, doc) /\ doc \in Document
        /\ \A r \in Requests : snap[r] \in Document /\ Shaped(snap[r]) /\ Agrees(snap[r], doc)
    BY DEF ShapeInv, TypeOK, CopiesShaped
  <1>4. doc.price = Price[FirstCourse]
    BY <1>1, <1>2, <1>3
  <1>5. \A r \in Requests : snap[r].price = doc.price
    BY <1>1, <1>3
  <1> QED
    BY <1>3, <1>4, <1>5 DEF Shaped

(* A step that books nothing.                                              *)
LEMMA SamePrices ==
  ASSUME PricedInv, NEW r \in Requests, Kept(r), UNCHANGED ledger, Grows(doc, doc'),
         ~doc'.paid => doc'.paidAmount = 0, snap'[r].paid => doc'.paid,
         \A q \in Requests \ {r} : pc[q] = "enrRead" => doc'.paid \/ doc'.enr[arg[q].e].paid,
         Priced(pc'[r], arg'[r], snap'[r], doc')
  PROVE  PricedInv'
  <1>1. \A q \in Requests \ {r} : pc'[q] = pc[q] /\ arg'[q] = arg[q] /\ snap'[q] = snap[q]
    BY DEF Kept
  <1>2. \A e \in Present(doc) : e \in Present(doc') /\ PriceOf(doc', e) = PriceOf(doc, e)
    BY DEF Grows, PriceOf
  <1>3. EntriesAtPrice'
    BY <1>2 DEF PricedInv, EntriesAtPrice
  <1>4. \A q \in Requests : snap'[q].paid => doc'.paid
    BY <1>1 DEF PricedInv, Grows
  <1>5. ASSUME NEW q \in Requests PROVE Priced(pc'[q], arg'[q], snap'[q], doc')
    <2>1. CASE q # r
      <3>1. Priced(pc[q], arg[q], snap[q], doc) /\ (AtPrice(doc, arg[q]) => AtPrice(doc', arg[q]))
        BY <1>2 DEF PricedInv, AtPrice
      <3>2. Priced(pc[q], arg[q], snap[q], doc')
        BY <2>1, <3>1 DEF Priced
      <3> QED
        BY <1>1, <2>1, <3>2
    <2> QED
      BY <2>1
  <1> QED
    BY <1>3, <1>4, <1>5 DEF PricedInv, UnpaidIsZero

(* A request that ends, confirming nothing.                                *)
LEMMA EndPriced ==
  ASSUME ShapeInv, PricedInv, NEW r \in Requests, NEW o \in Outcomes \ {"settled"}, End(r, o),
         UNCHANGED ledger, Grows(doc, doc'), ~doc'.paid => doc'.paidAmount = 0,
         \A q \in Requests \ {r} : pc[q] = "enrRead" => doc'.paid \/ doc'.enr[arg[q].e].paid
  PROVE  PricedInv'
  <1>1. Kept(r) /\ pc'[r] = o /\ snap'[r] = NewDoc
    BY EndFits DEF ShapeInv, TypeOK, End, Goto
  <1>2. ~snap'[r].paid
    BY <1>1 DEF NewDoc
  <1>3. Priced(o, arg'[r], snap'[r], doc')
    BY DEF Priced, Outcomes
  <1> QED
    BY <1>1, <1>2, <1>3, SamePrices

LEMMA RefusePriced ==
  ASSUME ShapeInv, PricedInv, NEW r \in Requests, Refuse(r)
  PROVE  PricedInv'
  <1>1. Grows(doc, doc')
    BY DEF Refuse, Grows
  <1> QED
    BY <1>1, EndPriced DEF Refuse, Outcomes, PricedInv, UnpaidIsZero, Priced

LEMMA SavedRoot ==
  ASSUME doc \in Document, NEW l \in Document, NEW c \in Document
  PROVE  /\ Scalars(l, c).paid = IF c.paid # l.paid THEN c.paid ELSE doc.paid
         /\ Scalars(l, c).paidAmount = IF c.paidAmount # l.paidAmount THEN c.paidAmount ELSE doc.paidAmount
         /\ WholeSave(l, c).paid = IF c.paid # l.paid THEN c.paid ELSE doc.paid
  BY DEF WholeSave, Scalars, Document

(* PUT /pay up to the ledger.                                              *)
LEMMA PayPriced ==
  ASSUME ShapeInv, PricedInv, Operations \subseteq Collecting, NEW r \in Requests,
         PayRead(r) \/ PayClaim(r) \/ PaySave(r) \/ PayUndo(r)
  PROVE  PricedInv'
  <1>0. TypeOK /\ snap[r] \in Document /\ doc \in Document /\ arg[r] \in Argument
        /\ Shaped(snap[r]) /\ Agrees(snap[r], doc) /\ "cancel" \notin Operations
        /\ Priced(pc[r], arg[r], snap[r], doc) /\ (snap[r].paid => doc.paid) /\ UnpaidIsZero
        /\ \A q \in Requests : pc[q] = "enrRead" => doc.paid \/ doc.enr[arg[q].e].paid
    BY DEF ShapeInv, CopiesShaped, TypeOK, PricedInv, Priced, Collecting
  <1>1. Kept(r) /\ UNCHANGED ledger
    BY <1>0, StepKept DEF PayRead, PayClaim, PaySave, PayUndo, Refuse, Begin, Continue, Priced
  <1>2. doc.price = Price[FirstCourse] /\ snap[r].price = Price[FirstCourse]
        /\ PriceOf(doc, 1) = Price[FirstCourse] /\ 1 \in Present(doc)
    BY <1>0, FirstPrice
  <1>3. CASE Refuse(r)
    BY <1>3, RefusePriced
  <1>4. CASE PayRead(r) /\ ~Refuse(r)
    <2>1. /\ UNCHANGED <<doc, snap>> /\ pc'[r] = "payClaim" /\ ~doc.paid
          /\ arg' = [arg EXCEPT ![r] = [NoArg EXCEPT !.op = "pay",
                       !.amt = IF doc.paidAmount > 0 THEN doc.paidAmount ELSE doc.price]]
      BY <1>0, <1>4 DEF PayRead, Goto, TypeOK
    <2>2. arg'[r].amt = Price[FirstCourse]
      BY <1>0, <1>2, <2>1 DEF TypeOK, NoArg, UnpaidIsZero
    <2>3. Grows(doc, doc') /\ Priced(pc'[r], arg'[r], snap'[r], doc')
      BY <2>1, <2>2 DEF Grows, Priced
    <2> QED
      BY <1>0, <1>1, <2>1, <2>3, SamePrices DEF UnpaidIsZero
  <1>5. CASE PayClaim(r) /\ ~Refuse(r)
    <2>1. doc' = [doc EXCEPT !.paid = TRUE, !.paidAmount = arg[r].amt] /\ snap'[r] = doc'
          /\ pc'[r] = "paySave" /\ pc[r] = "payClaim"
      BY <1>0, <1>5 DEF PayClaim, Goto, Keep, TypeOK
    <2>2. doc'.paid /\ doc'.paidAmount = Price[FirstCourse] /\ doc'.enr = doc.enr
      BY <1>0, <2>1 DEF Document, Priced
    <2>3. Grows(doc, doc') /\ Priced(pc'[r], arg'[r], snap'[r], doc')
      BY <2>1, <2>2 DEF Grows, Priced, Present
    <2> QED
      BY <1>1, <2>1, <2>2, <2>3, SamePrices
  <1>6. CASE PaySave(r) /\ doc.v = snap[r].v
    <2> DEFINE copy == PaidCopy(snap[r])
               next == [copy EXCEPT !.v = @ + 1]
    <2>1. copy \in Document /\ Reworks(snap[r], copy) /\ PrimaryOf(copy) = 1 /\ copy.price = snap[r].price
      BY <1>0, CopiesTyped, FirstSlot, PaidCopyShaped, PaidCopyPrimary, FirstIsPrimary
    <2>2. snap[r].paid /\ snap[r].paidAmount = Price[FirstCourse] /\ Price[FirstCourse] \in Nat
      BY <1>0, <1>6, TuitionAssumption DEF PaySave, Priced
    <2>3. copy.paid = snap[r].paid /\ copy.paidAmount = snap[r].paidAmount
      BY <1>0 DEF PaidCopy, Document
    <2>4. /\ doc' = WholeSave(snap[r], copy) /\ snap' = [snap EXCEPT ![r] = next]
          /\ pc'[r] = "paySettle"
          /\ arg' = [arg EXCEPT ![r].e = PrimaryOf(copy),
                          ![r].amt = IF copy.paidAmount > 0 THEN copy.paidAmount ELSE copy.price]
      BY <1>0, <1>6 DEF PaySave, Goto, Keep, TypeOK
    <2> HIDE DEF copy
    <2>5. arg'[r].e = 1 /\ arg'[r].amt = Price[FirstCourse]
      <3>1. (IF copy.paidAmount > 0 THEN copy.paidAmount ELSE copy.price) = Price[FirstCourse]
        BY <1>2, <2>1, <2>2, <2>3
      <3> QED
        BY <1>0, <2>1, <2>4, <3>1 DEF TypeOK, Argument
    <2>6. doc'.paid /\ doc'.enr = copy.enr
      BY <1>0, <1>6, <2>1, <2>2, <2>3, <2>4, SavedRoot, WholeSaveIsCopy
    <2>7. \A e \in Present(doc) : e \in Present(doc') /\ doc'.enr[e].course = doc.enr[e].course
      <3>1. \A e \in Present(doc) : e \in Present(snap[r]) /\ snap[r].enr[e].course = doc.enr[e].course
        BY <1>0, <1>6 DEF Agrees
      <3> QED
        BY <2>1, <2>6, <3>1 DEF Reworks, Present
    <2>8. Grows(doc, doc')
      BY <2>6, <2>7 DEF Grows
    <2>9. Priced(pc'[r], arg'[r], snap'[r], doc')
      <3>1. AtPrice(doc', arg'[r])
        BY <1>2, <2>5, <2>7 DEF AtPrice, PriceOf
      <3> QED
        BY <2>4, <3>1 DEF Priced
    <2> QED
      BY <1>1, <2>6, <2>8, <2>9, SamePrices
  <1>7. CASE PaySave(r) /\ doc.v # snap[r].v
    <2>1. End(r, "failed") /\ UNCHANGED doc
      BY <1>7 DEF PaySave
    <2>2. Grows(doc, doc')
      BY <2>1 DEF Grows
    <2> QED
      BY <1>0, <1>1, <2>1, <2>2, EndPriced DEF Outcomes, UnpaidIsZero
  <1>8. ~PayUndo(r)
    BY <1>0 DEF PayUndo, Priced
  <1> QED
    BY <1>3, <1>4, <1>5, <1>6, <1>7, <1>8

(* PUT /enrollments/:id/pay up to the ledger.                              *)
LEMMA EnrPriced ==
  ASSUME ShapeInv, PricedInv, NEW r \in Requests,
         (\E e \in Slots : EnrClaim(r, e)) \/ EnrRead(r) \/ EnrSave(r) \/ Undo(r)
  PROVE  PricedInv'
  <1>0. TypeOK /\ snap[r] \in Document /\ doc \in Document /\ arg[r] \in Argument
        /\ Fits(pc[r], arg[r], snap[r]) /\ Shaped(doc)
        /\ Priced(pc[r], arg[r], snap[r], doc) /\ (snap[r].paid => doc.paid) /\ UnpaidIsZero
        /\ \A q \in Requests : pc[q] = "enrRead" => doc.paid \/ doc.enr[arg[q].e].paid
    BY DEF ShapeInv, CopiesShaped, TypeOK, PricedInv, Priced, Requested
  <1>1. Kept(r) /\ UNCHANGED ledger
    BY <1>0, StepKept DEF EnrClaim, EnrRead, EnrSave, Undo, Refuse, Begin, Continue
  <1>2. CASE Refuse(r)
    BY <1>2, RefusePriced
  <1>3. ASSUME NEW e \in Slots, EnrClaim(r, e), ~Refuse(r)
        PROVE  PricedInv'
    <2>1. /\ e \in Present(doc) /\ UNCHANGED snap
          /\ doc' = [doc EXCEPT !.enr = Claimed(doc.enr, e)] /\ pc' = [pc EXCEPT ![r] = "enrRead"]
          /\ arg' = [arg EXCEPT ![r] =
                       [NoArg EXCEPT !.op = "enrPay", !.e = e, !.amt = PriceOf(doc, e)]]
      BY <1>3 DEF EnrClaim, Goto
    <2>2. pc'[r] = "enrRead" /\ arg'[r].e = e /\ arg'[r].amt = PriceOf(doc, e) /\ snap'[r] = snap[r]
      BY <1>0, <2>1 DEF TypeOK, NoArg
    <2>3. doc'.paid = doc.paid /\ doc'.paidAmount = doc.paidAmount
          /\ \A i \in Slots : /\ doc'.enr[i].course = doc.enr[i].course
                              /\ doc.enr[i].paid \/ i = e => doc'.enr[i].paid
          /\ Present(doc') = Present(doc)
      <3>1. doc'.enr = Claimed(doc.enr, e) /\ doc.enr \in [Slots -> Enrollment]
            /\ doc'.paid = doc.paid /\ doc'.paidAmount = doc.paidAmount
        BY <1>0, <2>1 DEF Document
      <3> DEFINE x == doc.enr[e]
                 y == [x EXCEPT !.paid = TRUE, !.status = "active"]
      <3>2. x \in Enrollment /\ doc'.enr = [doc.enr EXCEPT ![e] = y]
        BY <3>1 DEF Claimed
      <3>3. y.course = x.course /\ y.paid
        <4> HIDE DEF x
        <4> QED
          BY <3>2 DEF Enrollment
      <3>4. Present(doc') = Present(doc)
        BY <1>0, <2>1, ClaimedShape
      <3> HIDE DEF y
      <3> QED
        BY <3>1, <3>2, <3>3, <3>4
    <2>4. Grows(doc, doc')
      BY <2>3 DEF Grows, Present
    <2>5. Priced(pc'[r], arg'[r], snap'[r], doc')
      BY <2>1, <2>2, <2>3 DEF Priced, AtPrice, PriceOf
    <2>6. \A q \in Requests : pc[q] = "enrRead" => doc'.paid \/ doc'.enr[arg[q].e].paid
      <3>1. \A q \in Requests : arg[q].e \in Slots
        BY <1>0 DEF TypeOK, Argument
      <3> QED
        BY <1>0, <2>3, <3>1
    <2> QED
      BY <1>0, <1>1, <2>2, <2>3, <2>4, <2>5, <2>6, SamePrices DEF UnpaidIsZero
  <1>4. CASE EnrRead(r)
    <2>1. UNCHANGED <<doc, arg>> /\ snap'[r] = doc /\ pc'[r] = "enrSave" /\ pc[r] = "enrRead"
      BY <1>0, <1>4 DEF EnrRead, Goto, Keep, TypeOK
    <2>2. Grows(doc, doc') /\ Priced(pc'[r], arg'[r], snap'[r], doc')
      BY <1>0, <2>1 DEF Grows, Priced, AtPrice
    <2> QED
      BY <1>0, <1>1, <2>1, <2>2, SamePrices DEF UnpaidIsZero
  <1>5. CASE EnrSave(r)
    <2> DEFINE copy == CollectedCopy(snap[r], arg[r].e, arg[r].amt)
    <2>1. copy \in Document /\ copy.enr = snap[r].enr /\ copy.price = snap[r].price
      <3>1. arg[r].e \in Slots /\ arg[r].amt \in Nat
        BY <1>0 DEF Argument
      <3> QED
        BY <1>0, <3>1, CopiesTyped, CollectedIsRoot
    <2>2. copy.paid
      <3>1. pc[r] = "enrSave" /\ arg[r].e \in Present(snap[r])
        BY <1>0, <1>5 DEF EnrSave, Fits
      <3>2. snap[r].paid \/ arg[r].e \in PaidAmong(snap[r])
        BY <1>0, <3>1 DEF Priced, PaidAmong
      <3>3. copy.paid <=> \/ snap[r].paid
                          \/ snap[r].enr[arg[r].e].primary \/ Present(snap[r]) = {arg[r].e}
                          \/ \A i \in Present(snap[r]) : snap[r].enr[i].paid \/ snap[r].enr[i].status = "cancelled"
                          \/ PaidAmong(snap[r]) # {}
        BY <1>0 DEF CollectedCopy, Document
      <3> QED
        BY <3>2, <3>3
    <2>3. doc' = Scalars(snap[r], copy) /\ pc[r] = "enrSave"
          /\ \/ End(r, "ok")
             \/ Goto(r, "enrSettle") /\ Keep(r, copy) /\ UNCHANGED arg
      BY <1>5 DEF EnrSave
    <2> HIDE DEF copy
    <2>4. doc'.enr = doc.enr /\ doc'.paid
      BY <1>0, <2>1, <2>2, <2>3, ScalarsAreRoot, SavedRoot
    <2>5. Grows(doc, doc')
      BY <2>4 DEF Grows, Present
    <2>6. CASE End(r, "ok")
      BY <1>1, <2>4, <2>5, <2>6, EndPriced DEF Outcomes
    <2>7. CASE Goto(r, "enrSettle") /\ Keep(r, copy) /\ UNCHANGED arg
      <3>1. pc'[r] = "enrSettle" /\ arg' = arg
        BY <1>0, <2>7 DEF Goto, TypeOK
      <3>2. AtPrice(doc, arg[r])
        BY <1>0, <2>3 DEF Priced
      <3>3. AtPrice(doc', arg'[r])
        BY <2>4, <3>1, <3>2 DEF AtPrice, Present, PriceOf
      <3>4. Priced(pc'[r], arg'[r], snap'[r], doc')
        BY <3>1, <3>3 DEF Priced
      <3> QED
        BY <1>1, <2>4, <2>5, <3>4, SamePrices
    <2> QED
      BY <2>3, <2>6, <2>7
  <1>6. ~Undo(r)
    BY <1>0 DEF Undo, Priced
  <1> QED
    BY <1>2, <1>3, <1>4, <1>5, <1>6

(* POST /enrollments up to the ledger.                                     *)
LEMMA AddSaveRoot ==
  ASSUME TypeOK, NEW r \in Requests, AddSave(r), snap[r].paid => doc.paid
  PROVE  /\ arg[r].amt > 0 => doc'.paid
         /\ ~(arg[r].amt > 0) => doc'.paid = doc.paid /\ doc'.paidAmount = doc.paidAmount
  <1> DEFINE e    == Min(Slots \ Present(doc))
             x    == Registration(arg[r].course, arg[r].op = "addPaid")
             copy == AddedCopy(snap[r], e, x, arg[r].amt)
  <1>1. snap[r] \in Document /\ doc \in Document /\ arg[r].amt \in Nat
    BY DEF TypeOK, Argument
  <1>2. doc' = [Scalars(snap[r], copy) EXCEPT !.enr = [@ EXCEPT ![e] = x], !.v = @ + 1]
    BY DEF AddSave
  <1> HIDE DEF e, x
  <1>3. copy.paid = (snap[r].paid \/ arg[r].amt > 0) /\ copy.paidAmount = snap[r].paidAmount + arg[r].amt
    BY <1>1 DEF AddedCopy, Document
  <1> HIDE DEF copy
  <1>4. doc'.paid = (IF copy.paid # snap[r].paid THEN copy.paid ELSE doc.paid)
        /\ doc'.paidAmount = (IF copy.paidAmount # snap[r].paidAmount THEN copy.paidAmount ELSE doc.paidAmount)
    BY <1>1, <1>2 DEF Scalars, Document
  <1>5. snap[r].paidAmount \in Nat /\ snap[r].paid \in BOOLEAN /\ doc.paid \in BOOLEAN
    BY <1>1 DEF Document
  <1>6. CASE arg[r].amt > 0
    <2>1. copy.paid
      BY <1>3, <1>6
    <2> QED
      BY <1>4, <1>5, <1>6, <2>1
  <1>7. CASE ~(arg[r].amt > 0)
    <2>1. copy.paid = snap[r].paid /\ copy.paidAmount = snap[r].paidAmount
      BY <1>1, <1>3, <1>5, <1>7
    <2> QED
      BY <1>4, <1>7, <2>1
  <1> QED
    BY <1>6, <1>7

LEMMA AddPriced ==
  ASSUME ShapeInv, PricedInv, NEW r \in Requests,
         (\E c \in Courses, op \in {"add", "addPaid"} : AddRead(r, c, op)) \/ AddSave(r)
  PROVE  PricedInv'
  <1>0. TypeOK /\ snap[r] \in Document /\ doc \in Document /\ arg[r] \in Argument
        /\ Fits(pc[r], arg[r], snap[r]) /\ Shaped(doc) /\ (snap[r].paid => doc.paid) /\ UnpaidIsZero
        /\ \A q \in Requests : pc[q] = "enrRead" => arg[q].e \in Present(doc) /\ (doc.paid \/ doc.enr[arg[q].e].paid)
    BY DEF ShapeInv, CopiesShaped, TypeOK, PricedInv, Priced, Requested, Claiming
  <1>1. Kept(r) /\ UNCHANGED ledger
    BY <1>0, StepKept DEF AddRead, AddSave, Refuse, Begin, Continue
  <1>2. CASE Refuse(r)
    BY <1>2, RefusePriced
  <1>3. ASSUME NEW c \in Courses, NEW op \in {"add", "addPaid"}, AddRead(r, c, op), ~Refuse(r)
        PROVE  PricedInv'
    <2>1. pc'[r] = "addSave" /\ snap'[r] = doc /\ UNCHANGED doc
      BY <1>0, <1>3 DEF AddRead, Goto, Keep, TypeOK
    <2>2. Grows(doc, doc') /\ Priced(pc'[r], arg'[r], snap'[r], doc')
      BY <2>1 DEF Grows, Priced
    <2> QED
      BY <1>0, <1>1, <2>1, <2>2, SamePrices DEF UnpaidIsZero
  <1>4. CASE AddSave(r)
    <2>1. PICK e, x : Appends(r, e, x)
      BY <1>0, <1>4, AddSaveAppends
    <2>2. pc[r] = "addSave" /\ (arg[r].amt > 0 => doc'.paid)
          /\ (~(arg[r].amt > 0) => doc'.paid = doc.paid /\ doc'.paidAmount = doc.paidAmount)
      BY <1>0, <1>4, AddSaveRoot DEF AddSave
    <2>3. e \in Slots /\ e \notin Present(doc) /\ doc'.enr = [doc.enr EXCEPT ![e] = x]
          /\ doc.enr \in [Slots -> Enrollment] /\ x.status \in {"pending_payment", "active"}
          /\ x.course = arg[r].course
      BY <1>0, <2>1 DEF Appends, Document
    <2>4. e \in Present(doc') /\ doc'.enr[e] = x
          /\ \A i \in Present(doc) : i \in Present(doc') /\ doc'.enr[i] = doc.enr[i]
      BY <2>3 DEF Present
    <2>5. Grows(doc, doc')
      BY <2>2, <2>4 DEF Grows
    <2>6. \A q \in Requests : pc[q] = "enrRead" => doc'.paid \/ doc'.enr[arg[q].e].paid
      BY <1>0, <2>4, <2>5 DEF Grows
    <2>7. CASE arg[r].amt > 0
      <3>1. pc'[r] = "addSettle" /\ arg'[r] = [arg[r] EXCEPT !.e = e]
        BY <2>1, <2>7 DEF Appends
      <3>2. arg'[r].e = e /\ arg'[r].amt = arg[r].amt
        BY <1>0, <2>3, <3>1 DEF Argument
      <3>3. arg[r].amt = Price[arg[r].course]
        BY <1>0, <2>2, <2>7 DEF Fits
      <3>4. AtPrice(doc', arg'[r])
        BY <2>3, <2>4, <3>2, <3>3 DEF AtPrice, PriceOf
      <3>5. Priced(pc'[r], arg'[r], snap'[r], doc')
        BY <3>1, <3>4 DEF Priced
      <3> QED
        BY <1>1, <2>2, <2>5, <2>6, <2>7, <3>5, SamePrices
    <2>8. CASE ~(arg[r].amt > 0)
      <3>1. End(r, "ok")
        BY <2>1, <2>8 DEF Appends
      <3> QED
        BY <1>0, <1>1, <2>2, <2>5, <2>6, <2>8, <3>1, EndPriced DEF Outcomes, UnpaidIsZero
    <2> QED
      BY <2>7, <2>8
  <1> QED
    BY <1>2, <1>3, <1>4

(* The ledger's turn: the entry is accepted, because an earlier one under  *)
(* its key has the same amount.                                            *)
LEMMA SettlePriced ==
  ASSUME ShapeInv, PricedInv, Operations \subseteq Collecting,
         FaultKinds \cap {"ledger", "lostReply"} = {}, NEW r \in Requests, PaySettle(r) \/ EnrSettle(r) \/ AddSettle(r)
  PROVE  PricedInv'
  <1> DEFINE k == PaymentKey(r)
             e == arg[r].e
             amt == arg[r].amt
  <1>0. TypeOK /\ arg[r] \in Argument /\ ledger \in [Keys -> Entry] /\ UnpaidIsZero /\ EntriesAtPrice
        /\ Priced(pc[r], arg[r], snap[r], doc) /\ PaymentsStand
        /\ arg \in [Requests -> Argument] /\ pc \in [Requests -> {"new"} \cup Steps \cup Outcomes]
        /\ snap \in [Requests -> Document]
    BY DEF ShapeInv, TypeOK, PricedInv
  <1>1. Kept(r)
    BY <1>0, StepKept DEF Continue
  <1>2. e \in Present(doc) /\ amt = PriceOf(doc, e) /\ e \in Slots /\ amt \in Nat
    BY <1>0 DEF PaySettle, EnrSettle, AddSettle, Priced, AtPrice, Argument
  <1>3. k \in PaymentKeys /\ k \in Keys /\ k[2] = e
    BY <1>2 DEF PaymentKey, PaymentKeys, Keys
  <1>4. Accepts(ledger, k, amt)
    BY <1>0, <1>2, <1>3 DEF PaymentsStand, EntriesAtPrice, Accepts, Free, Posted, Collecting
  <1>5. ~Fault("ledger") /\ ~Fault("lostReply")
    BY DEF Fault
  <1>6. /\ ledger' = IF amt = 0 THEN ledger ELSE PostEntry(ledger, k, amt)
        /\ End(r, "settled") /\ UNCHANGED <<doc, notes, faults>>
    BY <1>4, <1>5 DEF PaySettle, EnrSettle, AddSettle, Settle
  <1>7. pc'[r] = "settled" /\ arg'[r] = arg[r] /\ snap'[r] = NewDoc
        /\ \A q \in Requests \ {r} : pc'[q] = pc[q] /\ arg'[q] = arg[q] /\ snap'[q] = snap[q]
    BY <1>0, <1>1, <1>6 DEF End, Goto, Keep, Kept
  <1> HIDE DEF k, e, amt
  <1>8. EntriesAtPrice'
    <2> SUFFICES ASSUME NEW i \in Slots, NEW q \in PaymentKeys, q[2] = i, Posted(ledger', q)
                 PROVE  i \in Present(doc') /\ ledger'[q].amount = PriceOf(doc', i)
      BY DEF EntriesAtPrice
    <2>0. q \in Keys
      BY DEF PaymentKeys, Keys
    <2>1. CASE Posted(ledger, q)
      <3>1. ledger'[q] = ledger[q]
        BY <1>0, <1>2, <1>6, <2>0, <2>1, PostKeeps
      <3> QED
        BY <1>0, <1>6, <2>1, <3>1 DEF EntriesAtPrice
    <2>2. CASE ~Posted(ledger, q)
      <3>1. q = k /\ ledger'[q].amount = amt
        BY <1>0, <1>3, <1>6, <2>0, <2>2 DEF PostEntry, Posted
      <3> QED
        BY <1>2, <1>3, <1>6, <3>1
    <2> QED
      BY <2>1, <2>2
  <1>9. \A q \in Requests : snap'[q].paid => doc'.paid
    BY <1>6, <1>7 DEF PricedInv, NewDoc
  <1>10. ASSUME NEW q \in Requests PROVE Priced(pc'[q], arg'[q], snap'[q], doc')
    <2>1. CASE q = r
      <3>1. AtPrice(doc', arg'[r])
        BY <1>2, <1>6, <1>7 DEF AtPrice, e, amt
      <3> QED
        BY <1>7, <2>1, <3>1 DEF Priced
    <2>2. CASE q # r
      BY <1>6, <1>7, <2>2 DEF PricedInv
    <2> QED
      BY <2>1, <2>2
  <1> QED
    BY <1>0, <1>6, <1>8, <1>9, <1>10 DEF PricedInv, UnpaidIsZero

(* The amounts agree with the prices in every reachable state.             *)
LEMMA PricedInvariance ==
  ASSUME Operations \subseteq Collecting, FaultKinds \cap {"ledger", "lostReply"} = {}
  PROVE  Spec => [](ShapeInv /\ PricedInv)
  <1>1. Init => PricedInv
    <2> SUFFICES ASSUME Init PROVE PricedInv
      OBVIOUS
    <2>1. doc = NewDoc /\ \A r \in Requests : pc[r] = "new" /\ snap[r] = NewDoc
      BY DEF Init
    <2>2. EntriesAtPrice
      BY DEF Init, EntriesAtPrice, PaymentKeys, Keys, Posted, NoEntry
    <2>3. \A r \in Requests : Priced(pc[r], arg[r], snap[r], doc)
      BY <2>1 DEF Priced
    <2> QED
      BY <2>1, <2>2, <2>3 DEF PricedInv, UnpaidIsZero, NewDoc
  <1>2. ShapeInv /\ PricedInv /\ [Next]_vars => PricedInv'
    <2> SUFFICES ASSUME ShapeInv, PricedInv, [Next]_vars PROVE PricedInv'
      OBVIOUS
    <2>1. CASE UNCHANGED vars
      <3>1. EntriesAtPrice' /\ UnpaidIsZero'
        BY <2>1 DEF vars, locals, PricedInv, EntriesAtPrice, UnpaidIsZero
      <3> QED
        BY <2>1, <3>1 DEF vars, locals, PricedInv
    <2>2. ASSUME NEW r \in Requests, Begin(r) PROVE PricedInv'
      <3>1. CASE PayRead(r)
        BY <3>1, PayPriced
      <3>2. CASE \E e \in Slots : EnrClaim(r, e)
        BY <3>2, EnrPriced
      <3>3. CASE \E c \in Courses, op \in {"add", "addPaid"} : AddRead(r, c, op)
        BY <3>3, AddPriced
      <3> QED
        BY <2>2, <3>1, <3>2, <3>3 DEF Begin, HealRead, CancelRead, RefundRead, Arrive, Collecting
    <2>3. ASSUME NEW r \in Requests, Continue(r) PROVE PricedInv'
      <3>1. Fits(pc[r], arg[r], snap[r])
        BY DEF ShapeInv, Requested
      <3>2. arg[r].op \in {"pay", "enrPay", "add", "addPaid", "none"}
        BY <3>1 DEF Fits, Collecting
      <3>3. pc[r] \notin {"postRefund", "countNotes", "issueNote", "voidRefund", "cancelSave", "refundFill",
                          "refundClaim", "refundSave", "restore", "restored", "healCheck", "healPost"}
        BY <3>1, <3>2 DEF Fits, Serves, Outcomes
      <3>4. CASE PayClaim(r) \/ PaySave(r) \/ PayUndo(r)
        BY <3>4, PayPriced
      <3>5. CASE EnrRead(r) \/ EnrSave(r) \/ Undo(r)
        BY <3>5, EnrPriced
      <3>6. CASE AddSave(r)
        BY <3>6, AddPriced
      <3>7. CASE PaySettle(r) \/ EnrSettle(r) \/ AddSettle(r)
        BY <3>7, SettlePriced
      <3> QED
        BY <2>3, <3>3, <3>4, <3>5, <3>6, <3>7
           DEF Continue, PostRefund, CountNotes, IssueNote, VoidRefund, CancelSave, RefundFill,
               RefundClaim, RefundSave, RefundRestore, HealCheck, HealPost
    <2>4. ASSUME NEW r \in Requests, Crash(r) PROVE PricedInv'
      <3>1. End(r, "dead") /\ UNCHANGED <<doc, ledger>>
        BY <2>4 DEF Crash
      <3>2. Grows(doc, doc')
        BY <3>1 DEF Grows
      <3> QED
        BY <3>1, <3>2, EndPriced DEF Outcomes, PricedInv, UnpaidIsZero, Priced
    <2> QED
      BY <2>1, <2>2, <2>3, <2>4 DEF Next, LedgerVoid, Collecting
  <1> QED
    BY <1>1, <1>2, ShapeInvariance, PTL DEF Spec

(* A payment confirmed for an enrollment is the price of that enrollment,  *)
(* whichever endpoint collected it and in whatever order the handlers run. *)
(* Ledger writes must not fail: what PUT /pay takes back it takes back     *)
(* from a copy, and a paidAmount that remains is the next amount.          *)
THEOREM CollectedAtPrice ==
  ASSUME Operations \subseteq Collecting, FaultKinds \cap {"ledger", "lostReply"} = {}
  PROVE  Spec => []SettledAtPrice
  <1>1. ShapeInv /\ PricedInv => SettledAtPrice
    BY DEF PricedInv, Priced, AtPrice, SettledAtPrice
  <1> QED
    BY <1>1, PricedInvariance, PTL

-----------------------------------------------------------------------------
(* What is collected.  No refund is posted where payments are all there    *)
(* is, and a fault is then a crash, whose request never answers.  So when  *)
(* all requests have answered nothing failed, every open enrollment has a  *)
(* posted payment, and that payment has its price; the payments are        *)
(* different ones because their keys name the enrollment.                  *)
NothingBack  == \A k \in RefundKeys : Free(ledger, k)
FaultIsDeath == faults = 0 \/ \E r \in Requests : pc[r] = "dead"
PlainInv     == NothingBack /\ FaultIsDeath

(* The steps of the requests that collect.                                 *)
LEMMA CollectingSteps ==
  ASSUME ShapeInv, Operations \subseteq Collecting, NEW r \in Requests, Begin(r) \/ Continue(r)
  PROVE  \/ PayRead(r) \/ PayClaim(r) \/ PaySave(r) \/ PayUndo(r)
         \/ (\E e \in Slots : EnrClaim(r, e)) \/ EnrRead(r) \/ EnrSave(r) \/ Undo(r)
         \/ (\E c \in Courses, op \in {"add", "addPaid"} : AddRead(r, c, op)) \/ AddSave(r)
         \/ PaySettle(r) \/ EnrSettle(r) \/ AddSettle(r)
  <1>1. Fits(pc[r], arg[r], snap[r])
    BY DEF ShapeInv, Requested
  <1>2. arg[r].op \in {"pay", "enrPay", "add", "addPaid", "none"}
    BY <1>1 DEF Fits, Collecting
  <1>3. pc[r] \notin {"postRefund", "countNotes", "issueNote", "voidRefund", "cancelSave", "refundFill",
                      "refundClaim", "refundSave", "restore", "restored", "healCheck", "healPost"}
    BY <1>1, <1>2 DEF Fits, Serves, Outcomes
  <1>4. CASE Begin(r)
    BY <1>4 DEF Begin, HealRead, CancelRead, RefundRead, Arrive, Collecting
  <1>5. CASE Continue(r)
    BY <1>3, <1>5
       DEF Continue, PostRefund, CountNotes, IssueNote, VoidRefund, CancelSave, RefundFill,
           RefundClaim, RefundSave, RefundRestore, HealCheck, HealPost
  <1> QED
    BY <1>4, <1>5

(* A step of a request that does not crash.                                *)
LEMMA PlainStep ==
  ASSUME ShapeInv, Operations \subseteq Collecting, FaultKinds \cap {"ledger", "lostReply"} = {},
         NEW r \in Requests, Begin(r) \/ Continue(r)
  PROVE  /\ UNCHANGED faults /\ pc[r] # "dead"
         /\ \A k \in RefundKeys : ledger'[k] = ledger[k]
  <1> DEFINE Goal == /\ UNCHANGED faults /\ pc[r] # "dead"
                     /\ \A k \in RefundKeys : ledger'[k] = ledger[k]
  <1> USE DEF Refuse, End
  <1>1. CASE PayRead(r) \/ PayClaim(r) \/ PaySave(r) \/ PayUndo(r)
    BY <1>1 DEF PayRead, PayClaim, PaySave, PayUndo, Arrive
  <1>2. CASE (\E e \in Slots : EnrClaim(r, e)) \/ EnrRead(r) \/ EnrSave(r) \/ Undo(r)
    BY <1>2 DEF EnrClaim, EnrRead, EnrSave, Undo, Arrive
  <1>3. CASE (\E c \in Courses, op \in {"add", "addPaid"} : AddRead(r, c, op)) \/ AddSave(r)
    BY <1>3 DEF AddRead, AddSave, Arrive
  <1>4. ASSUME NEW undo, Settle(r, undo), pc[r] \in {"paySettle", "enrSettle", "addSettle"}
        PROVE  Goal
    <2>1. ~Fault("ledger") /\ ~Fault("lostReply")
      BY DEF Fault
    <2>2. UNCHANGED faults /\ (UNCHANGED ledger \/ ledger' = PostEntry(ledger, PaymentKey(r), arg[r].amt))
      BY <1>4, <2>1 DEF Settle
    <2>3. PaymentKey(r) \notin RefundKeys
      <3>1. arg[r].e \in Slots
        BY DEF ShapeInv, TypeOK, Argument
      <3> QED
        BY <3>1 DEF PaymentKey, RefundKeys, PaymentKeys
    <2>4. \A k \in RefundKeys : ledger'[k] = ledger[k]
      <3>1. ledger \in [Keys -> Entry] /\ RefundKeys \subseteq Keys
        BY DEF ShapeInv, TypeOK, RefundKeys
      <3> QED
        BY <2>2, <2>3, <3>1 DEF PostEntry
    <2> QED
      BY <1>4, <2>2, <2>4
  <1>5. CASE PaySettle(r) \/ EnrSettle(r) \/ AddSettle(r)
    BY <1>4, <1>5 DEF PaySettle, EnrSettle, AddSettle
  <1> QED
    BY <1>1, <1>2, <1>3, <1>5, CollectingSteps

LEMMA PlainInvariance ==
  ASSUME Operations \subseteq Collecting, FaultKinds \cap {"ledger", "lostReply"} = {}
  PROVE  Spec => []PlainInv
  <1>1. Init => PlainInv
    BY DEF Init, PlainInv, NothingBack, FaultIsDeath, RefundKeys, Free, NoEntry
  <1>2. ShapeInv /\ PlainInv /\ [Next]_vars => PlainInv'
    <2> SUFFICES ASSUME ShapeInv, PlainInv, [Next]_vars PROVE PlainInv'
      OBVIOUS
    <2>1. CASE UNCHANGED vars
      BY <2>1 DEF vars, locals, PlainInv, NothingBack, FaultIsDeath, Free
    <2>2. ASSUME NEW r \in Requests, Begin(r) \/ Continue(r) PROVE PlainInv'
      <3>1. /\ UNCHANGED faults /\ pc[r] # "dead"
            /\ \A k \in RefundKeys : ledger'[k] = ledger[k]
        BY <2>2, PlainStep
      <3>2. Kept(r)
        BY <2>2, StepKept DEF ShapeInv
      <3>3. NothingBack'
        BY <3>1 DEF PlainInv, NothingBack, Free
      <3>4. FaultIsDeath'
        BY <3>1, <3>2 DEF PlainInv, FaultIsDeath, Kept
      <3> QED
        BY <3>3, <3>4 DEF PlainInv
    <2>3. ASSUME NEW r \in Requests, Crash(r) PROVE PlainInv'
      <3>1. pc'[r] = "dead" /\ UNCHANGED ledger
        BY <2>3 DEF Crash, End, Goto, ShapeInv, TypeOK
      <3> QED
        BY <3>1 DEF PlainInv, NothingBack, FaultIsDeath, Free
    <2> QED
      BY <2>1, <2>2, <2>3 DEF Next, LedgerVoid, Collecting
  <1> QED
    BY <1>1, <1>2, ShapeInvariance, PTL DEF Spec

(* The total of what is open, and of what is posted.                       *)
Tuitions(d) == [e \in Slots |-> PriceOf(d, e)]

LEMMA OpenTotal ==
  MapThenSumSet(LAMBDA e : PriceOf(doc, e), Open) = Total(Tuitions(doc), Open)
  <1> DEFINE h == Tuitions(doc)
             Plain(f) == f = [s \in SUBSET Open |->
                                IF s = {} THEN 0 ELSE PriceOf(doc, Pick(s)) + f[s \ {Pick(s)}]]
             Named(f) == f = [s \in SUBSET Open |->
                                IF s = {} THEN 0 ELSE h[Pick(s)] + f[s \ {Pick(s)}]]
  <1>1. \A e \in Open : h[e] = PriceOf(doc, e)
    BY DEF Tuitions, Open, PaidAmong, Present
  <1>2. ASSUME NEW f PROVE Plain(f) <=> Named(f)
    <2>1. \A s \in SUBSET Open : s # {} => h[Pick(s)] = PriceOf(doc, Pick(s))
      BY <1>1, PickIsMember
    <2> HIDE DEF h
    <2> QED
      BY <2>1
  <1>3. (CHOOSE f : Plain(f)) = (CHOOSE f : Named(f))
    <2> HIDE DEF Plain, Named
    <2> QED
      BY <1>2
  <1>4. MapThenSumSet(LAMBDA e : PriceOf(doc, e), Open) = (CHOOSE f : Plain(f))[Open]
    BY DEF MapThenSumSet, MapThenFoldSet, Pick
  <1>5. Total(h, Open) = (CHOOSE f : Named(f))[Open]
    BY TotalIsFold
  <1> HIDE DEF Plain, Named, h
  <1>6. MapThenSumSet(LAMBDA e : PriceOf(doc, e), Open) = Total(h, Open)
    BY <1>3, <1>4, <1>5
  <1> QED
    BY <1>6 DEF h

LEMMA OpenTyped ==
  ASSUME TypeOK
  PROVE  /\ IsFiniteSet(Open) /\ \A e \in Open : Tuitions(doc)[e] \in Nat
         /\ Total(Tuitions(doc), Open) \in Nat
  <1> DEFINE h == Tuitions(doc)
  <1>1. IsFiniteSet(Slots) /\ Open \in SUBSET Slots
    BY TuitionAssumption, FS_Interval DEF Slots, Open, PaidAmong, Present
  <1>2. \A e \in Slots : h[e] \in Nat
    BY TuitionAssumption DEF TypeOK, Tuitions, PriceOf, Document, Enrollment
  <1> HIDE DEF h
  <1>3. IsFiniteSet(Open) /\ \A e \in Open : h[e] \in Nat
    BY <1>1, <1>2, FS_Subset
  <1>4. Total(h, Open) \in Nat
    BY <1>3, TotalTyped
  <1> QED
    BY <1>3, <1>4 DEF h

LEMMA NothingRefunded ==
  ASSUME NothingBack
  PROVE  Refunds = 0
  <1>1. PostedKeys(ledger, RefundKeys) = {}
    BY DEF NothingBack, PostedKeys, Posted, Free
  <1> QED
    BY <1>1, PostedTotalIsTotal, TotalOfNone DEF Refunds

(* When all have answered, what is open is paid for by different entries.  *)
LEMMA OpenIsPaidFor ==
  ASSUME ShapeInv, BackedInv, PricedInv, faults = 0, Settled
  PROVE  Total(Tuitions(doc), Open) <= Payments
  <1> DEFINE h == Tuitions(doc)
             S == {e \in Open : h[e] > 0}
             R == PostedKeys(ledger, PaymentKeys)
             k == AmountsOf(ledger, PaymentKeys)
             m == [e \in S |-> CHOOSE q \in PaymentsOf(e) : Posted(ledger, q)]
  <1>1. TypeOK /\ doc \in Document /\ ledger \in [Keys -> Entry]
    BY DEF ShapeInv, TypeOK
  <1>2. Open \in SUBSET Slots /\ Open \in SUBSET Present(doc)
    BY DEF Open, PaidAmong, Present
  <1>3. \A e \in Slots : h[e] = PriceOf(doc, e)
    BY DEF Tuitions
  <1>4. IsFiniteSet(Open) /\ \A e \in Open : h[e] \in Nat
    BY <1>1, OpenTyped
  <1>5. Total(h, Open) = Total(h, S)
    <2> HIDE DEF h
    <2> QED
      BY <1>4, TotalOfPositive
  <1>6. IsFiniteSet(S) /\ \A e \in S : h[e] \in Nat
    <2>1. S \in SUBSET Open
      OBVIOUS
    <2> HIDE DEF h
    <2> QED
      BY <1>4, <2>1, FS_Subset
  <1>7. IsFiniteSet(R) /\ \A q \in R : k[q] \in Nat
    BY <1>1, PaymentKeysFinite, PaymentsAreKeys, AmountsTyped
  <1>8. ASSUME NEW e \in S
        PROVE  m[e] \in R /\ h[e] <= k[m[e]] /\ m[e][2] = e
    <2>1. e \in Slots /\ e \in Open /\ PriceOf(doc, e) > 0
      BY <1>2, <1>3
    <2>2. e \in InEffect(doc) /\ doc.enr[e].paid
      BY <2>1 DEF Open, PaidAmong
    <2>3. Covered(e)
      BY <1>1, <2>1, <2>2, SettledBacking DEF BackedInv, Backs
    <2>4. m[e] \in PaymentsOf(e) /\ Posted(ledger, m[e])
      BY <2>3 DEF Covered
    <2> HIDE DEF m
    <2>5. m[e] \in PaymentKeys /\ m[e][2] = e
      BY <2>1, <2>4 DEF PaymentsOf, PaymentKeys
    <2>6. ledger[m[e]].amount = PriceOf(doc, e)
      BY <2>1, <2>4, <2>5 DEF PricedInv, EntriesAtPrice
    <2>7. k[m[e]] = h[e] /\ m[e] \in R
      BY <1>3, <2>1, <2>4, <2>5, <2>6 DEF AmountsOf, PostedKeys
    <2>8. h[e] \in Nat
      BY <1>6
    <2> HIDE DEF h, k, R
    <2> QED
      BY <2>5, <2>7, <2>8
  <1>9. Payments = Total(k, R)
    BY PostedTotalIsTotal DEF Payments
  <1> HIDE DEF h, S, R, k, m
  <1>10. \A e, i \in S : m[e] = m[i] => e = i
    BY <1>8
  <1>11. \A e \in S : m[e] \in R /\ h[e] <= k[m[e]]
    BY <1>8
  <1>12. Total(h, S) <= Total(k, R)
    BY <1>6, <1>7, <1>10, <1>11, TotalInto
  <1>13. Total(h, Open) <= Payments
    BY <1>5, <1>9, <1>12
  <1> QED
    BY <1>13 DEF h

(* What the ledger took in pays for what is open, whichever endpoints      *)
(* collected it, in whatever order their handlers ran, and wherever they   *)
(* died.  A ledger write that fails can leave an enrollment open that      *)
(* another request has saved meanwhile (the undo meets a VersionError).    *)
THEOREM OpenIsCollected ==
  ASSUME Operations \subseteq Collecting, FaultKinds \cap {"ledger", "lostReply"} = {}
  PROVE  Spec => []PaidIsCollected
  <1>1. ShapeInv /\ BackedInv /\ PricedInv /\ PlainInv => PaidIsCollected
    <2> SUFFICES ASSUME ShapeInv, BackedInv, PricedInv, PlainInv, Settled
                 PROVE  MapThenSumSet(LAMBDA e : PriceOf(doc, e), Open) + Refunds <= Payments
      BY DEF PaidIsCollected
    <2>1. faults = 0
      BY DEF PlainInv, FaultIsDeath, Settled
    <2>2. Refunds = 0
      BY NothingRefunded DEF PlainInv
    <2>3. Total(Tuitions(doc), Open) <= Payments
      BY <2>1, OpenIsPaidFor
    <2>4. Total(Tuitions(doc), Open) \in Nat
      BY OpenTyped DEF ShapeInv
    <2> QED
      BY <2>2, <2>3, <2>4, OpenTotal
  <1>2. ~({"cancel", "refund"} \subseteq Operations) /\ "void" \notin Operations
    BY DEF Collecting
  <1> QED
    BY <1>1, <1>2, BackedInvariance, PricedInvariance, PlainInvariance, PTL

-----------------------------------------------------------------------------
(* One request at a time.  Between requests the document and the ledger    *)
(* are in balance: the root is paid when some enrollment is, its amount is *)
(* what the ledger took in, a paid enrollment with a price has a payment,  *)
(* and the keys of an unpaid one are free.  A request that collects first  *)
(* opens an enrollment and adds to the root, so the document shows a       *)
(* payment that the ledger lacks; the entry restores the balance, and so   *)
(* does the undo.  A crash leaves the difference behind, and nothing is    *)
(* claimed from then on.                                                   *)
Unbooked(l, e) == \A k \in PaymentsOf(e) : Free(l, k)

(* Document d and ledger l show the same payments, enrollment e aside.     *)
BookedBut(d, l, e) ==
  \A i \in Slots \ {e} :
    IF d.enr[i].paid THEN PriceOf(d, i) > 0 => \E k \in PaymentsOf(i) : Posted(l, k)
                     ELSE Unbooked(l, i)

Balanced(d, l) ==
  /\ d.paid <=> \E i \in Slots : d.enr[i].paid
  /\ d.paidAmount = PostedTotal(l, PaymentKeys)
  /\ BookedBut(d, l, 0)

(* The list shows a payment of amt for e, and so does the root.            *)
ClaimedFor(d, l, e, amt) ==
  e \in Slots /\ d.enr[e].paid /\ Unbooked(l, e) /\ BookedBut(d, l, e) /\ amt = PriceOf(d, e)

OwesFor(d, l, e, amt) ==
  ClaimedFor(d, l, e, amt) /\ d.paid /\ d.paidAmount = PostedTotal(l, PaymentKeys) + amt

(* Copy c shows what document d is by now.                                 *)
Current(c, d) ==
  c.v = d.v /\ c.enr = d.enr /\ c.paid = d.paid /\ c.paidAmount = d.paidAmount /\ c.price = d.price

(* What holds while a request is at a step, with argument a and copy c.    *)
Stage(step, a, c, d, l) ==
  /\ step \in {"payClaim", "addSave", "healCheck", "healPost"} => Balanced(d, l)
  /\ step = "payClaim" => ~d.paid /\ a.amt = d.price
  /\ step \in {"paySave", "paySettle", "payUndo", "enrSave", "enrSettle", "addSave", "addSettle", "undo"} =>
       Current(c, d)
  /\ step = "paySave" =>
       d.paid /\ d.paidAmount = d.price /\ \A i \in Slots : ~d.enr[i].paid /\ Unbooked(l, i)
  /\ step \in {"paySettle", "payUndo"} => a.e = 1 /\ \A i \in Slots \ {1} : ~d.enr[i].paid
  /\ step \in {"paySettle", "payUndo", "enrSettle", "addSettle", "undo"} => OwesFor(d, l, a.e, a.amt)
  /\ step \in {"enrRead", "enrSave"} =>
       /\ ClaimedFor(d, l, a.e, a.amt) /\ d.paidAmount = PostedTotal(l, PaymentKeys)
       /\ d.paid <=> \E i \in Slots \ {a.e} : d.enr[i].paid
  /\ step = "healCheck" => \A e \in a.todo : e \in Slots /\ d.enr[e].paid /\ PriceOf(d, e) > 0
  /\ step = "healPost" => a.todo = {}

(* No two requests are running.                                            *)
Sole == \A q, r \in Requests : InFlight(q) /\ InFlight(r) => q = r

SerialInv ==
  (\A r \in Requests : pc[r] # "dead") =>
    /\ Sole
    /\ Quiet => Balanced(doc, ledger)
    /\ \A r \in Requests : InFlight(r) => Stage(pc[r], arg[r], snap[r], doc, ledger)

(* Where a step of r leads.                                                *)
Lands(r) ==
  \/ pc'[r] \in Outcomes /\ Balanced(doc', ledger')
  \/ pc'[r] \in Steps /\ Stage(pc'[r], arg'[r], snap'[r], doc', ledger')

(* The balance depends on the list, the root and the payments.             *)
LEMMA BalanceMoves ==
  ASSUME NEW d, NEW c, NEW l, Balanced(d, l), c.enr = d.enr, c.paid = d.paid, c.paidAmount = d.paidAmount
  PROVE  Balanced(c, l)
  BY DEF Balanced, BookedBut, PriceOf

(* Nothing is booked where all keys are free.                              *)
LEMMA NoneBooked ==
  ASSUME NEW l, \A i \in Slots : Unbooked(l, i)
  PROVE  PostedTotal(l, PaymentKeys) = 0
  <1>1. ASSUME NEW k \in PaymentKeys PROVE ~Posted(l, k)
    <2>1. PICK x \in {"pay", "add", "heal"}, i \in Slots : k = <<x, i>>
      BY DEF PaymentKeys
    <2>2. k \in PaymentsOf(i)
      BY <2>1 DEF PaymentsOf
    <2> QED
      BY <2>1, <2>2 DEF Unbooked, Free, Posted
  <1>2. PostedKeys(l, PaymentKeys) = {}
    BY <1>1 DEF PostedKeys
  <1> QED
    BY <1>2, PostedTotalIsTotal, TotalOfNone

LEMMA UnpaidIsUnbooked ==
  ASSUME NEW d \in Document, NEW l, Balanced(d, l), ~d.paid
  PROVE  d.paidAmount = 0 /\ \A i \in Slots : ~d.enr[i].paid /\ Unbooked(l, i)
  <1>1. 0 \notin Slots
    BY DEF Slots
  <1>2. \A i \in Slots : ~d.enr[i].paid /\ Unbooked(l, i)
    BY <1>1 DEF Balanced, BookedBut
  <1>3. PostedTotal(l, PaymentKeys) = 0
    BY <1>2, NoneBooked
  <1> QED
    BY <1>2, <1>3 DEF Balanced

(* The entry restores the balance; one of nothing is not needed.           *)
LEMMA DebtPaid ==
  ASSUME NEW d \in Document, NEW l \in [Keys -> Entry], NEW e, NEW amt \in Nat, OwesFor(d, l, e, amt),
         NEW k \in PaymentsOf(e)
  PROVE  /\ amt = 0 => Balanced(d, l)
         /\ amt > 0 => Balanced(d, PostEntry(l, k, amt))
  <1> DEFINE n == PostEntry(l, k, amt)
  <1>0. /\ e \in Slots /\ d.enr[e].paid /\ d.paid /\ Unbooked(l, e) /\ amt = PriceOf(d, e)
        /\ BookedBut(d, l, e) /\ d.paidAmount = PostedTotal(l, PaymentKeys) + amt
    BY DEF OwesFor, ClaimedFor
  <1>1. k \in PaymentKeys /\ k \in Keys /\ Free(l, k)
    BY <1>0 DEF PaymentsOf, PaymentKeys, Keys, Unbooked
  <1>2. PostedTotal(l, PaymentKeys) \in Nat /\ PostedTotal(n, PaymentKeys) = PostedTotal(l, PaymentKeys) + amt
    BY <1>1, PaymentKeysFinite, PaymentsAreKeys, PostedTotalTyped, PostingAdds
  <1>3. d.paid <=> \E i \in Slots : d.enr[i].paid
    BY <1>0
  <1>4. ASSUME amt = 0 PROVE Balanced(d, l)
    <2>1. d.paidAmount = PostedTotal(l, PaymentKeys)
      BY <1>0, <1>2, <1>4
    <2>2. ~(PriceOf(d, e) > 0)
      BY <1>0, <1>4
    <2>3. BookedBut(d, l, 0)
      BY <1>0, <2>2 DEF BookedBut
    <2> QED
      BY <1>3, <2>1, <2>3 DEF Balanced
  <1>5. ASSUME amt > 0 PROVE Balanced(d, n)
    <2>1. n[k].status = "posted" /\ \A q \in Keys \ {k} : n[q] = l[q]
      BY <1>1 DEF PostEntry
    <2>2. d.paidAmount = PostedTotal(n, PaymentKeys)
      BY <1>0, <1>2
    <2> HIDE DEF n
    <2>3. BookedBut(d, n, 0)
      <3> SUFFICES ASSUME NEW i \in Slots \ {0}
                   PROVE  IF d.enr[i].paid
                          THEN PriceOf(d, i) > 0 => \E q \in PaymentsOf(i) : Posted(n, q)
                          ELSE Unbooked(n, i)
        BY DEF BookedBut
      <3>1. CASE i = e
        BY <1>0, <2>1, <3>1 DEF Posted
      <3>2. CASE i # e
        <4>1. \A q \in PaymentsOf(i) : q \in Keys \ {k}
          BY <3>2 DEF PaymentsOf, Keys
        <4>2. \A q \in PaymentsOf(i) : n[q] = l[q]
          BY <2>1, <4>1
        <4> QED
          BY <1>0, <3>2, <4>2 DEF BookedBut, Posted, Unbooked, Free
      <3> QED
        BY <3>1, <3>2
    <2> QED
      BY <1>3, <2>2, <2>3 DEF Balanced
  <1> QED
    BY <1>4, <1>5 DEF n

(* So does taking the payment back from the document.                      *)
LEMMA DebtTaken ==
  ASSUME NEW d \in Document, NEW l \in [Keys -> Entry], NEW e, NEW amt \in Nat, OwesFor(d, l, e, amt),
         Shaped(d), "cancel" \notin Operations
  PROVE  Balanced(TakenBack(d, e, amt), l)
  <1> DEFINE t == TakenBack(d, e, amt)
  <1>0. /\ e \in Slots /\ Unbooked(l, e) /\ BookedBut(d, l, e)
        /\ d.paidAmount = PostedTotal(l, PaymentKeys) + amt
        /\ \A i \in Slots : d.enr[i].status # "cancelled"
    BY DEF OwesFor, ClaimedFor, Shaped
  <1>1. PostedTotal(l, PaymentKeys) \in Nat
    BY PaymentKeysFinite, PaymentsAreKeys, PostedTotalTyped
  <1>2. d.enr \in [Slots -> Enrollment]
    BY DEF Document
  <1>3. /\ \A i \in Slots \ {e} : t.enr[i] = d.enr[i]
        /\ ~t.enr[e].paid /\ t.enr[e].course = d.enr[e].course
        /\ t.paidAmount = Minus(d.paidAmount, amt)
        /\ t.paid = \E i \in Slots : t.enr[i].paid /\ t.enr[i].status # "cancelled"
    BY <1>0, <1>2 DEF TakenBack, Document, Enrollment
  <1> HIDE DEF t
  <1>4. t.paidAmount = PostedTotal(l, PaymentKeys)
    BY <1>0, <1>1, <1>3 DEF Minus
  <1>5. t.paid <=> \E i \in Slots : t.enr[i].paid
    BY <1>0, <1>3
  <1>6. BookedBut(t, l, 0)
    BY <1>0, <1>3 DEF BookedBut, PriceOf
  <1>7. Balanced(t, l)
    BY <1>4, <1>5, <1>6 DEF Balanced
  <1> QED
    BY <1>7 DEF t

(* A save of a current copy writes it as it is.                            *)
LEMMA CurrentSaved ==
  ASSUME doc \in Document, NEW l \in Document, Current(l, doc), NEW c \in Document
  PROVE  /\ Current([c EXCEPT !.v = doc.v + 1], WholeSave(l, c))
         /\ c.v = doc.v /\ c.enr = doc.enr => Current(c, Scalars(l, c))
  BY DEF Current, WholeSave, Scalars, Document

(* Whoever moves is the only request running, one that arrives the first.  *)
LEMMA Alone ==
  ASSUME Sole, MaxInFlight = 1, NEW r \in Requests, Begin(r) \/ Continue(r) \/ Crash(r)
  PROVE  /\ \A q \in Requests \ {r} : ~InFlight(q)
         /\ Begin(r) => Quiet
         /\ Continue(r) => InFlight(r)
  <1>1. CASE Begin(r)
    <2>1. PICK op : Arrive(r, op)
      BY <1>1 DEF Begin, PayRead, HealRead, EnrClaim, AddRead, CancelRead, RefundRead
    <2> DEFINE S == {q \in Requests : InFlight(q)}
    <2>2. IsFiniteSet(S)
      BY RequestsAssumption, FS_Subset
    <2>3. Cardinality(S) < 1
      BY <2>1 DEF Arrive
    <2> HIDE DEF S
    <2>4. Cardinality(S) = 0
      BY <2>2, <2>3, FS_CardinalityType
    <2>5. S = {}
      BY <2>2, <2>4, FS_EmptySet
    <2>6. Quiet
      BY <2>5 DEF Quiet, S
    <2>7. ~Continue(r)
      BY <2>1 DEF Arrive, Continue, PayClaim, PaySave, PaySettle, PayUndo, EnrRead, EnrSave, EnrSettle, Undo,
                  AddSave, AddSettle, PostRefund, CountNotes, IssueNote, VoidRefund, CancelSave, RefundFill,
                  RefundClaim, RefundSave, RefundRestore, HealCheck, HealPost
    <2> QED
      BY <2>6, <2>7 DEF Quiet
  <1>2. CASE Continue(r) \/ Crash(r)
    <2>1. InFlight(r)
      BY <1>2 DEF InFlight, Outcomes, Crash, Continue, PayClaim, PaySave, PaySettle, PayUndo, EnrRead, EnrSave,
                  EnrSettle, Undo, AddSave, AddSettle, PostRefund, CountNotes, IssueNote, VoidRefund, CancelSave,
                  RefundFill, RefundClaim, RefundSave, RefundRestore, HealCheck, HealPost
    <2>2. ~Begin(r)
      BY <2>1 DEF InFlight, Begin, PayRead, HealRead, EnrClaim, AddRead, CancelRead, RefundRead, Arrive
    <2> QED
      BY <2>1, <2>2 DEF Sole
  <1> QED
    BY <1>1, <1>2

(* What it finds, while nothing has crashed.                               *)
LEMMA AloneHere ==
  ASSUME SerialInv, \A q \in Requests : pc[q] # "dead", MaxInFlight = 1,
         NEW r \in Requests, Begin(r) \/ Continue(r)
  PROVE  /\ \A q \in Requests \ {r} : ~InFlight(q)
         /\ Begin(r) => Balanced(doc, ledger)
         /\ Continue(r) => Stage(pc[r], arg[r], snap[r], doc, ledger)
  BY Alone DEF SerialInv

LEMMA SerialMove ==
  ASSUME SerialInv, NEW r \in Requests, Kept(r), \A q \in Requests \ {r} : ~InFlight(q), Lands(r)
  PROVE  SerialInv'
  <1>1. \A q \in Requests \ {r} : pc'[q] \in {"new"} \cup Outcomes
    BY DEF Kept, InFlight
  <1>2. CASE pc'[r] \in Outcomes /\ Balanced(doc', ledger')
    BY <1>1, <1>2 DEF SerialInv, Sole, InFlight
  <1>3. CASE pc'[r] \in Steps /\ Stage(pc'[r], arg'[r], snap'[r], doc', ledger')
    <2>1. pc'[r] # "new" /\ pc'[r] \notin Outcomes
      BY <1>3 DEF Steps, Outcomes
    <2> QED
      BY <1>1, <1>3, <2>1 DEF SerialInv, Sole, InFlight, Quiet
  <1> QED
    BY <1>2, <1>3 DEF Lands

(* A request that ends where the document and the ledger are in balance.   *)
LEMMA EndLands ==
  ASSUME TypeOK, NEW r \in Requests, NEW o \in Outcomes, End(r, o), Balanced(doc', ledger')
  PROVE  Lands(r)
  BY DEF End, Goto, TypeOK, Lands

(* The ledger's turn.                                                      *)
LEMMA SettleLands ==
  ASSUME TypeOK, NEW r \in Requests, NEW undo \in {"payUndo", "undo"}, Settle(r, undo),
         "lostReply" \notin FaultKinds,
         OwesFor(doc, ledger, arg[r].e, arg[r].amt),
         Stage(undo, arg[r], snap[r], doc, ledger)
  PROVE  Lands(r)
  <1> DEFINE amt == arg[r].amt
             k == PaymentKey(r)
  <1>0. doc \in Document /\ ledger \in [Keys -> Entry] /\ amt \in Nat /\ arg[r].e \in Slots
        /\ pc \in [Requests -> {"new"} \cup Steps \cup Outcomes]
    BY DEF TypeOK, Argument
  <1>1. k \in PaymentsOf(arg[r].e)
    BY DEF PaymentKey, PaymentsOf
  <1>2. ~Fault("lostReply")
    BY DEF Fault
  <1>3. CASE /\ ledger' = IF amt = 0 THEN ledger ELSE PostEntry(ledger, k, amt)
             /\ End(r, "settled") /\ UNCHANGED <<doc, notes, faults>>
    <2>1. Balanced(doc, ledger')
      <3>1. /\ amt = 0 => Balanced(doc, ledger)
            /\ amt > 0 => Balanced(doc, PostEntry(ledger, k, amt))
        <4> HIDE DEF amt, k
        <4> QED
          BY <1>0, <1>1, DebtPaid DEF amt
      <3> QED
        BY <1>0, <1>3, <3>1
    <2>2. Balanced(doc', ledger')
      BY <1>3, <2>1
    <2> QED
      BY <1>3, <2>2, EndLands DEF Outcomes
  <1>4. CASE UNCHANGED ledger /\ Goto(r, undo) /\ UNCHANGED <<doc, notes, arg, snap>>
    <2>1. pc'[r] = undo /\ undo \in Steps
      BY <1>0, <1>4 DEF Goto, Steps
    <2> QED
      BY <1>4, <2>1 DEF Lands
  <1> QED
    BY <1>2, <1>3, <1>4 DEF Settle

(* PUT /pay.                                                               *)
LEMMA PayReadLands ==
  ASSUME ShapeInv, "cancel" \notin Operations, Balanced(doc, ledger), NEW r \in Requests, PayRead(r)
  PROVE  Lands(r)
  <1>0. TypeOK /\ doc \in Document /\ pc \in [Requests -> {"new"} \cup Steps \cup Outcomes]
        /\ arg \in [Requests -> Argument]
    BY DEF ShapeInv, TypeOK
  <1>1. CASE Refuse(r)
    BY <1>0, <1>1, EndLands DEF Refuse, Outcomes
  <1>2. CASE ~doc.paid
    <2>1. doc.paidAmount = 0
      BY <1>0, <1>2, UnpaidIsUnbooked
    <2>2. \E n : /\ n = (IF doc.paidAmount > 0 THEN doc.paidAmount ELSE doc.price)
                 /\ arg' = [arg EXCEPT ![r] = [NoArg EXCEPT !.op = "pay", !.amt = n]]
                 /\ pc' = [pc EXCEPT ![r] = "payClaim"] /\ UNCHANGED <<doc, ledger>>
      BY <1>2 DEF PayRead, Goto
    <2>3. pc'[r] = "payClaim" /\ arg'[r].amt = doc.price /\ UNCHANGED <<doc, ledger>>
      BY <1>0, <2>1, <2>2 DEF NoArg
    <2>4. Stage("payClaim", arg'[r], snap'[r], doc, ledger)
      BY <1>2, <2>3 DEF Stage
    <2> QED
      BY <2>3, <2>4 DEF Lands, Steps
  <1> QED
    BY <1>1, <1>2 DEF PayRead

LEMMA PayClaimLands ==
  ASSUME ShapeInv, NEW r \in Requests, Stage(pc[r], arg[r], snap[r], doc, ledger), PayClaim(r)
  PROVE  Lands(r)
  <1>0. TypeOK /\ doc \in Document /\ pc \in [Requests -> {"new"} \cup Steps \cup Outcomes]
        /\ snap \in [Requests -> Document]
    BY DEF ShapeInv, TypeOK
  <1>1. Balanced(doc, ledger) /\ ~doc.paid /\ arg[r].amt = doc.price
    BY DEF PayClaim, Stage
  <1>2. \A i \in Slots : ~doc.enr[i].paid /\ Unbooked(ledger, i)
    BY <1>0, <1>1, UnpaidIsUnbooked
  <1>3. /\ doc' = [doc EXCEPT !.paid = TRUE, !.paidAmount = arg[r].amt]
        /\ snap'[r] = doc' /\ pc'[r] = "paySave" /\ UNCHANGED ledger
    BY <1>0, <1>1 DEF PayClaim, Keep, Goto
  <1>4. doc'.paid /\ doc'.paidAmount = doc'.price /\ doc'.enr = doc.enr
    BY <1>0, <1>1, <1>3 DEF Document
  <1>5. Stage("paySave", arg'[r], snap'[r], doc', ledger')
    BY <1>2, <1>3, <1>4 DEF Stage, Current
  <1> QED
    BY <1>3, <1>5 DEF Lands, Steps

(* The whole save opens the first enrollment, and books for that one.      *)
LEMMA OpensFirst ==
  ASSUME NEW d \in Document, Shaped(d), "cancel" \notin Operations, \A i \in Slots : ~d.enr[i].paid
  PROVE  /\ PaidCopy(d) \in Document /\ PrimaryOf(PaidCopy(d)) = 1
         /\ \A i \in Slots : PaidCopy(d).enr[i].paid <=> i = 1
         /\ \A i \in Slots : PaidCopy(d).enr[i].course = d.enr[i].course
         /\ PaidCopy(d).paid = d.paid /\ PaidCopy(d).paidAmount = d.paidAmount
         /\ PaidCopy(d).price = d.price
  <1>1. 1 \in Present(d) /\ d.enr[1].primary /\ d.enr \in [Slots -> Enrollment]
    BY DEF Shaped, Document
  <1>2. PayOpens(d, 1)
    BY <1>1 DEF PayOpens
  <1>3. PrimaryOf(d) = 1
    BY <1>1, <1>2, OpensPrimary
  <1>4. \A i \in Present(d) : PayOpens(d, i) <=> i = 1
    BY <1>1, <1>2 DEF PayOpens, Shaped, Present
  <1>5. /\ PaidCopy(d).paid = d.paid /\ PaidCopy(d).paidAmount = d.paidAmount /\ PaidCopy(d).price = d.price
        /\ PaidCopy(d).enr = [e \in Slots |-> IF e \in Present(d) /\ PayOpens(d, e) THEN Opened(d.enr[e]) ELSE d.enr[e]]
    BY DEF PaidCopy, Document
  <1>6. \A x \in Enrollment : Opened(x).paid /\ Opened(x).course = x.course
    BY DEF Opened, Enrollment
  <1>7. \A i \in Slots : /\ PaidCopy(d).enr[i].paid <=> i = 1
                         /\ PaidCopy(d).enr[i].course = d.enr[i].course
    BY <1>1, <1>4, <1>5, <1>6
  <1>8. PaidCopy(d) \in Document
    BY FirstSlot, CopiesTyped
  <1> QED
    BY <1>3, <1>5, <1>7, <1>8, PaidCopyPrimary

LEMMA PaySaveLands ==
  ASSUME ShapeInv, "cancel" \notin Operations, NEW r \in Requests, Stage(pc[r], arg[r], snap[r], doc, ledger),
         PaySave(r)
  PROVE  Lands(r)
  <1> DEFINE copy == PaidCopy(snap[r])
  <1>0. TypeOK /\ doc \in Document /\ pc \in [Requests -> {"new"} \cup Steps \cup Outcomes]
        /\ snap \in [Requests -> Document] /\ arg \in [Requests -> Argument] /\ ledger \in [Keys -> Entry]
        /\ Shaped(snap[r]) /\ snap[r] \in Document
    BY DEF ShapeInv, TypeOK, CopiesShaped
  <1>1. /\ Current(snap[r], doc) /\ doc.paid /\ doc.paidAmount = doc.price
        /\ \A i \in Slots : ~doc.enr[i].paid /\ Unbooked(ledger, i)
    BY DEF PaySave, Stage
  <1>2. \A i \in Slots : ~snap[r].enr[i].paid
    BY <1>1 DEF Current
  <1>3. /\ copy \in Document /\ PrimaryOf(copy) = 1
        /\ \A i \in Slots : copy.enr[i].paid <=> i = 1
        /\ \A i \in Slots : copy.enr[i].course = snap[r].enr[i].course
        /\ copy.paid = snap[r].paid /\ copy.paidAmount = snap[r].paidAmount /\ copy.price = snap[r].price
        /\ copy.v = snap[r].v
    BY <1>0, <1>2, OpensFirst DEF PaidCopy, Document
  <1>4. /\ doc' = WholeSave(snap[r], copy) /\ snap'[r] = [copy EXCEPT !.v = @ + 1]
        /\ pc'[r] = "paySettle" /\ arg'[r].e = PrimaryOf(copy) /\ UNCHANGED ledger
        /\ arg'[r].amt = IF copy.paidAmount > 0 THEN copy.paidAmount ELSE copy.price
    BY <1>0, <1>1 DEF PaySave, Current, Keep, Goto, Argument
  <1> HIDE DEF copy
  <1>5. [copy EXCEPT !.v = @ + 1] = [copy EXCEPT !.v = doc.v + 1]
    BY <1>1, <1>3 DEF Current
  <1>6. Current(snap'[r], doc')
    BY <1>0, <1>1, <1>3, <1>4, <1>5, CurrentSaved
  <1>7. snap'[r].enr = copy.enr /\ snap'[r].paid = copy.paid /\ snap'[r].paidAmount = copy.paidAmount
    BY <1>3, <1>4 DEF Document
  <1>8. doc'.enr = copy.enr /\ doc'.paid = doc.paid /\ doc'.paidAmount = doc.paidAmount
    BY <1>1, <1>3, <1>6, <1>7 DEF Current
  <1>9. arg'[r].e = 1 /\ arg'[r].amt = doc.price
    <2>1. copy.paidAmount = doc.price /\ copy.price = doc.price
      BY <1>1, <1>3 DEF Current
    <2> QED
      BY <1>3, <1>4, <2>1
  <1>10. 1 \in Slots /\ PriceOf(doc', 1) = doc.price
    <2>1. PriceOf(snap[r], 1) = snap[r].price /\ 1 \in Slots
      BY <1>0 DEF Shaped, Present
    <2>2. copy.enr[1].course = snap[r].enr[1].course
      BY <1>3, <2>1
    <2> QED
      BY <1>1, <1>8, <2>1, <2>2 DEF PriceOf, Current
  <1>11. OwesFor(doc', ledger, 1, doc.price)
    <2>1. PostedTotal(ledger, PaymentKeys) = 0
      BY <1>1, NoneBooked
    <2>2. ClaimedFor(doc', ledger, 1, doc.price)
      BY <1>1, <1>3, <1>8, <1>10 DEF ClaimedFor, BookedBut
    <2>3. doc.price \in Nat
      BY <1>0 DEF Document
    <2> QED
      BY <1>1, <1>8, <2>1, <2>2, <2>3 DEF OwesFor
  <1>12. \A i \in Slots \ {1} : ~doc'.enr[i].paid
    BY <1>3, <1>8
  <1>13. Stage("paySettle", arg'[r], snap'[r], doc', ledger')
    BY <1>4, <1>6, <1>9, <1>11, <1>12 DEF Stage
  <1> QED
    BY <1>4, <1>13 DEF Lands, Steps

LEMMA PayUndoLands ==
  ASSUME ShapeInv, "cancel" \notin Operations, NEW r \in Requests, Stage(pc[r], arg[r], snap[r], doc, ledger), PayUndo(r)
  PROVE  Lands(r)
  <1> DEFINE copy == UnpaidCopy(snap[r])
  <1>0. TypeOK /\ doc \in Document /\ snap[r] \in Document /\ Shaped(snap[r])
    BY DEF ShapeInv, TypeOK, CopiesShaped
  <1>1. /\ Current(snap[r], doc) /\ OwesFor(doc, ledger, 1, arg[r].amt)
        /\ \A i \in Slots \ {1} : ~doc.enr[i].paid
    BY DEF PayUndo, Stage
  <1>2. copy \in Document /\ ~copy.paid /\ copy.paidAmount = 0 /\ \A i \in Slots : ~copy.enr[i].paid
    <2>1. copy \in Document
      BY <1>0, FirstSlot, CopiesTyped
    <2>2. /\ ~copy.paid /\ copy.paidAmount = 0
          /\ copy.enr = [e \in Slots |-> IF e \in Present(snap[r]) /\ PayOpens(snap[r], e)
                                         THEN Closed(snap[r].enr[e]) ELSE snap[r].enr[e]]
      BY <1>0 DEF UnpaidCopy, Document
    <2>3. \A x \in Enrollment : ~Closed(x).paid
      BY DEF Closed, Enrollment
    <2>4. snap[r].enr \in [Slots -> Enrollment] /\ \A i \in Slots \ {1} : ~snap[r].enr[i].paid
      BY <1>0, <1>1 DEF Document, Current
    <2>5. PayOpens(snap[r], 1) /\ 1 \in Present(snap[r])
      BY <1>0 DEF Shaped, PayOpens
    <2> HIDE DEF copy
    <2> QED
      BY <2>1, <2>2, <2>3, <2>4, <2>5
  <1>3. doc' = WholeSave(snap[r], copy) /\ End(r, "failed") /\ UNCHANGED ledger
    BY <1>1 DEF PayUndo, Current
  <1> HIDE DEF copy
  <1>4. doc'.enr = copy.enr /\ doc'.paid = copy.paid /\ doc'.paidAmount = copy.paidAmount
    <2>1. Current([copy EXCEPT !.v = doc.v + 1], doc')
      BY <1>0, <1>1, <1>2, <1>3, CurrentSaved
    <2> QED
      BY <1>2, <2>1 DEF Current, Document
  <1>5. \A i \in Slots : Unbooked(ledger, i)
    BY <1>1 DEF OwesFor, ClaimedFor, BookedBut
  <1>6. PostedTotal(ledger, PaymentKeys) = 0
    BY <1>5, NoneBooked
  <1>7. Balanced(doc', ledger)
    BY <1>2, <1>4, <1>5, <1>6 DEF Balanced, BookedBut
  <1>8. Balanced(doc', ledger')
    BY <1>3, <1>7
  <1> QED
    BY <1>0, <1>3, <1>8, EndLands DEF Outcomes

(* PUT /enrollments/:enrollmentId/pay, and the undo.                       *)
LEMMA EnrClaimLands ==
  ASSUME ShapeInv, Balanced(doc, ledger), NEW r \in Requests, NEW e \in Slots, EnrClaim(r, e)
  PROVE  Lands(r)
  <1>0. TypeOK /\ doc \in Document /\ pc \in [Requests -> {"new"} \cup Steps \cup Outcomes]
        /\ arg \in [Requests -> Argument] /\ doc.enr \in [Slots -> Enrollment]
    BY DEF ShapeInv, TypeOK, Document
  <1>1. CASE Refuse(r)
    BY <1>0, <1>1, EndLands DEF Refuse, Outcomes
  <1>2. CASE ~doc.enr[e].paid
    <2>1. \E n : /\ n = PriceOf(doc, e)
                 /\ arg' = [arg EXCEPT ![r] = [NoArg EXCEPT !.op = "enrPay", !.e = e, !.amt = n]]
                 /\ pc' = [pc EXCEPT ![r] = "enrRead"]
                 /\ doc' = [doc EXCEPT !.enr = Claimed(doc.enr, e)] /\ UNCHANGED ledger
      BY <1>2 DEF EnrClaim, Goto
    <2>2. pc'[r] = "enrRead" /\ arg'[r].e = e /\ arg'[r].amt = PriceOf(doc, e) /\ UNCHANGED ledger
      BY <1>0, <2>1 DEF NoArg
    <2>3. /\ doc'.paid = doc.paid /\ doc'.paidAmount = doc.paidAmount
          /\ doc'.enr[e].paid /\ doc'.enr[e].course = doc.enr[e].course
          /\ \A i \in Slots \ {e} : doc'.enr[i] = doc.enr[i]
      BY <1>0, <2>1 DEF Claimed, Document, Enrollment
    <2>4. 0 \notin Slots
      BY DEF Slots
    <2>5. Unbooked(ledger, e) /\ BookedBut(doc, ledger, e)
      BY <1>2, <2>4 DEF Balanced, BookedBut
    <2>6. ClaimedFor(doc', ledger, e, PriceOf(doc, e))
      <3>1. BookedBut(doc', ledger, e)
        BY <2>3, <2>5 DEF BookedBut, PriceOf
      <3> QED
        BY <2>3, <2>5, <3>1 DEF ClaimedFor, PriceOf
    <2>7. /\ doc'.paidAmount = PostedTotal(ledger, PaymentKeys)
          /\ doc'.paid <=> \E i \in Slots \ {e} : doc'.enr[i].paid
      <3>1. doc.paid <=> \E i \in Slots \ {e} : doc.enr[i].paid
        BY <1>2 DEF Balanced
      <3> QED
        BY <2>3, <3>1 DEF Balanced
    <2>8. Stage("enrRead", arg'[r], snap'[r], doc', ledger')
      BY <2>2, <2>6, <2>7 DEF Stage
    <2> QED
      BY <2>2, <2>8 DEF Lands, Steps
  <1> QED
    BY <1>1, <1>2 DEF EnrClaim

LEMMA EnrReadLands ==
  ASSUME ShapeInv, NEW r \in Requests, Stage(pc[r], arg[r], snap[r], doc, ledger), EnrRead(r)
  PROVE  Lands(r)
  <1>1. pc'[r] = "enrSave" /\ snap'[r] = doc /\ UNCHANGED <<doc, ledger, arg>>
    BY DEF EnrRead, Keep, Goto, ShapeInv, TypeOK
  <1>2. Stage("enrRead", arg[r], snap[r], doc, ledger)
    BY DEF EnrRead
  <1>3. Stage("enrSave", arg'[r], snap'[r], doc', ledger')
    BY <1>1, <1>2 DEF Stage, Current
  <1> QED
    BY <1>1, <1>3 DEF Lands, Steps

LEMMA EnrSaveLands ==
  ASSUME ShapeInv, NEW r \in Requests, Stage(pc[r], arg[r], snap[r], doc, ledger), EnrSave(r)
  PROVE  Lands(r)
  <1> DEFINE e    == arg[r].e
             amt  == arg[r].amt
             copy == CollectedCopy(snap[r], e, amt)
  <1>0. TypeOK /\ doc \in Document /\ pc \in [Requests -> {"new"} \cup Steps \cup Outcomes]
        /\ snap \in [Requests -> Document] /\ snap[r] \in Document /\ e \in Slots /\ amt \in Nat
        /\ ledger \in [Keys -> Entry] /\ e \in Present(snap[r])
    BY DEF ShapeInv, TypeOK, Argument, EnrSave, Requested, Fits
  <1>1. /\ Current(snap[r], doc) /\ ClaimedFor(doc, ledger, e, amt)
        /\ doc.paidAmount = PostedTotal(ledger, PaymentKeys)
    BY DEF EnrSave, Stage
  <1>2. copy \in Document
    BY <1>0, CopiesTyped
  <1>3. /\ copy.v = doc.v /\ copy.enr = doc.enr /\ copy.price = doc.price
        /\ copy.paidAmount = doc.paidAmount + amt /\ copy.paid
    <2>1. PaidAmong(snap[r]) # {}
      BY <1>0, <1>1 DEF PaidAmong, ClaimedFor, Current
    <2> QED
      BY <1>0, <1>1, <2>1 DEF CollectedCopy, Current, Document
  <1>4. /\ doc' = Scalars(snap[r], copy) /\ UNCHANGED ledger
        /\ \/ amt = 0 /\ End(r, "ok")
           \/ pc'[r] = "enrSettle" /\ snap'[r] = copy /\ UNCHANGED arg
    BY <1>0 DEF EnrSave, Goto, Keep
  <1> HIDE DEF copy
  <1>5. Current(copy, doc')
    BY <1>0, <1>1, <1>2, <1>3, <1>4, CurrentSaved
  <1>6. OwesFor(doc', ledger, e, amt)
    <2>1. doc'.enr = doc.enr /\ doc'.paid /\ doc'.paidAmount = doc.paidAmount + amt
      BY <1>3, <1>5 DEF Current
    <2>2. ClaimedFor(doc', ledger, e, amt)
      BY <1>1, <2>1 DEF ClaimedFor, BookedBut, PriceOf
    <2> QED
      BY <1>1, <2>1, <2>2 DEF OwesFor
  <1>7. CASE amt = 0 /\ End(r, "ok")
    <2>1. doc' \in Document
      BY <1>0, <1>2, <1>4, SavesTyped
    <2>2. <<"pay", e>> \in PaymentsOf(e)
      BY DEF PaymentsOf
    <2>3. Balanced(doc', ledger)
      BY <1>0, <1>6, <1>7, <2>1, <2>2, DebtPaid
    <2> QED
      BY <1>0, <1>4, <1>7, <2>3, EndLands DEF Outcomes
  <1>8. CASE pc'[r] = "enrSettle" /\ snap'[r] = copy /\ UNCHANGED arg
    <2>1. Stage("enrSettle", arg'[r], snap'[r], doc', ledger')
      BY <1>4, <1>5, <1>6, <1>8 DEF Stage
    <2> QED
      BY <1>8, <2>1 DEF Lands, Steps
  <1> QED
    BY <1>4, <1>7, <1>8

LEMMA UndoLands ==
  ASSUME ShapeInv, "cancel" \notin Operations, NEW r \in Requests,
         Stage(pc[r], arg[r], snap[r], doc, ledger), Undo(r)
  PROVE  Lands(r)
  <1> DEFINE e    == arg[r].e
             amt  == arg[r].amt
             copy == TakenBack(snap[r], e, amt)
  <1>0. TypeOK /\ doc \in Document /\ snap[r] \in Document /\ Shaped(snap[r])
        /\ e \in Slots /\ amt \in Nat /\ ledger \in [Keys -> Entry]
    BY DEF ShapeInv, TypeOK, CopiesShaped, Argument
  <1>1. Current(snap[r], doc) /\ OwesFor(doc, ledger, e, amt)
    BY DEF Undo, Stage
  <1>2. OwesFor(snap[r], ledger, e, amt)
    BY <1>1 DEF OwesFor, ClaimedFor, BookedBut, PriceOf, Current
  <1>3. Balanced(copy, ledger) /\ copy \in Document
    <2> HIDE DEF e, amt
    <2> QED
      BY <1>0, <1>2, DebtTaken, CopiesTyped
  <1>4. doc' = WholeSave(snap[r], copy) /\ End(r, "failed") /\ UNCHANGED ledger
    BY <1>1 DEF Undo, Current
  <1> HIDE DEF copy
  <1>5. doc'.enr = copy.enr /\ doc'.paid = copy.paid /\ doc'.paidAmount = copy.paidAmount
    <2>1. Current([copy EXCEPT !.v = doc.v + 1], doc')
      BY <1>0, <1>1, <1>3, <1>4, CurrentSaved
    <2> QED
      BY <1>3, <2>1 DEF Current, Document
  <1>6. Balanced(doc', ledger)
    BY <1>3, <1>5, BalanceMoves
  <1>7. Balanced(doc', ledger')
    BY <1>4, <1>6
  <1> QED
    BY <1>0, <1>4, <1>7, EndLands DEF Outcomes

(* POST /enrollments.                                                      *)
LEMMA AddReadLands ==
  ASSUME ShapeInv, Balanced(doc, ledger), NEW r \in Requests, NEW c \in Courses, NEW op, AddRead(r, c, op)
  PROVE  Lands(r)
  <1>0. TypeOK
    BY DEF ShapeInv
  <1>1. CASE Refuse(r)
    BY <1>0, <1>1, EndLands DEF Refuse, Outcomes
  <1>2. CASE ~Duplicate(doc, c)
    <2>1. pc'[r] = "addSave" /\ snap'[r] = doc /\ UNCHANGED <<doc, ledger>>
      BY <1>0, <1>2 DEF AddRead, Goto, Keep, TypeOK
    <2>2. Stage("addSave", arg'[r], snap'[r], doc', ledger')
      BY <2>1 DEF Stage, Current
    <2> QED
      BY <2>1, <2>2 DEF Lands, Steps
  <1> QED
    BY <1>1, <1>2 DEF AddRead

(* The new enrollment, at the end of the list; a paid one has a price.     *)
LEMMA AddSaveLands ==
  ASSUME ShapeInv, "addPaid" \in Operations => \A c \in Courses : Price[c] > 0,
         NEW r \in Requests, Stage(pc[r], arg[r], snap[r], doc, ledger), AddSave(r)
  PROVE  Lands(r)
  <1> DEFINE e    == Min(Slots \ Present(doc))
             x    == Registration(arg[r].course, arg[r].op = "addPaid")
             amt  == arg[r].amt
             copy == AddedCopy(snap[r], e, x, amt)
  <1>0. TypeOK /\ doc \in Document /\ pc \in [Requests -> {"new"} \cup Steps \cup Outcomes]
        /\ snap \in [Requests -> Document] /\ snap[r] \in Document /\ amt \in Nat
        /\ ledger \in [Keys -> Entry] /\ arg \in [Requests -> Argument] /\ arg[r] \in Argument
        /\ arg[r].course \in Courses /\ doc.enr \in [Slots -> Enrollment] /\ Shaped(doc)
    BY DEF ShapeInv, TypeOK, Argument, Document, CopiesShaped
  <1>1. Current(snap[r], doc) /\ Balanced(doc, ledger)
    BY DEF AddSave, Stage
  <1>2. e \in Slots \ Present(doc)
    <2>1. Slots \ Present(doc) \in SUBSET Nat /\ Slots \ Present(doc) # {}
      BY DEF AddSave, Slots, Present
    <2> QED
      BY <2>1, LeastIsMember
  <1>3. ~doc.enr[e].paid
    BY <1>0, <1>2 DEF Shaped, Present
  <1>4. x.course = arg[r].course /\ (x.paid <=> arg[r].op = "addPaid") /\ x \in Enrollment
    BY <1>0 DEF Registration, Opened, Pending, Enrollment
  <1>5. (x.paid <=> amt > 0) /\ (x.paid => amt = Price[arg[r].course])
    <2>1. Fits("addSave", arg[r], snap[r])
      BY DEF ShapeInv, Requested, AddSave
    <2>2. amt = IF arg[r].op = "addPaid" THEN Price[arg[r].course] ELSE 0
      BY <2>1 DEF Fits
    <2>3. arg[r].op = "addPaid" => Price[arg[r].course] > 0
      BY <1>0, <2>1 DEF Fits
    <2> HIDE DEF x, amt
    <2> QED
      BY <1>4, <2>2, <2>3
  <1>6. /\ doc' = [Scalars(snap[r], copy) EXCEPT !.enr = [@ EXCEPT ![e] = x], !.v = @ + 1]
        /\ UNCHANGED ledger
        /\ \/ ~(amt > 0) /\ End(r, "ok")
           \/ /\ amt > 0 /\ pc'[r] = "addSettle" /\ snap'[r] = [copy EXCEPT !.v = @ + 1]
              /\ arg'[r] = [arg[r] EXCEPT !.e = e]
    BY <1>0 DEF AddSave, Goto, Keep
  <1> HIDE DEF e, x
  <1>7. /\ copy.paid = (snap[r].paid \/ amt > 0) /\ copy.paidAmount = snap[r].paidAmount + amt
        /\ copy.enr = [snap[r].enr EXCEPT ![e] = x] /\ copy.v = snap[r].v /\ copy.price = snap[r].price
    BY <1>0 DEF AddedCopy, Document
  <1> DEFINE save == Scalars(snap[r], copy)
  <1>8. /\ save.paid = (doc.paid \/ amt > 0) /\ save.paidAmount = doc.paidAmount + amt
        /\ save.enr = doc.enr /\ save.v = doc.v /\ save.price = doc.price /\ save \in Document
    <2>1. save \in [paid : BOOLEAN, paidAmount : Nat, price : Nat, v : Nat, enr : [Slots -> Enrollment]]
          /\ save.enr = doc.enr /\ save.v = doc.v
          /\ save.paid = (IF copy.paid # snap[r].paid THEN copy.paid ELSE doc.paid)
          /\ save.paidAmount = (IF copy.paidAmount # snap[r].paidAmount THEN copy.paidAmount ELSE doc.paidAmount)
          /\ save.price = (IF copy.price # snap[r].price THEN copy.price ELSE doc.price)
      <3>1. copy.paid \in BOOLEAN /\ copy.paidAmount \in Nat /\ copy.price \in Nat
        <4>1. snap[r].paidAmount \in Nat /\ snap[r].price \in Nat
          BY <1>0 DEF Document
        <4> HIDE DEF copy
        <4> QED
          BY <1>0, <1>7, <4>1
      <3> HIDE DEF copy
      <3> QED
        BY <1>0, <3>1 DEF Scalars, Document
    <2>2. snap[r].paid = doc.paid /\ snap[r].paidAmount = doc.paidAmount /\ doc.paid \in BOOLEAN
      BY <1>0, <1>1 DEF Current, Document
    <2> HIDE DEF copy, save
    <2> QED
      BY <1>7, <2>1, <2>2 DEF Document
  <1>9. /\ doc'.paid = (doc.paid \/ amt > 0) /\ doc'.paidAmount = doc.paidAmount + amt
        /\ doc'.enr = [doc.enr EXCEPT ![e] = x] /\ doc'.v = doc.v + 1 /\ doc'.price = doc.price
    <2> HIDE DEF save
    <2>1. doc' = [save EXCEPT !.enr = [@ EXCEPT ![e] = x], !.v = @ + 1]
      BY <1>6 DEF save
    <2> QED
      BY <1>8, <2>1 DEF Document
  <1> HIDE DEF copy, save
  <1>10. doc'.enr[e] = x /\ \A i \in Slots \ {e} : doc'.enr[i] = doc.enr[i]
    BY <1>0, <1>2, <1>9
  <1>11. Unbooked(ledger, e) /\ BookedBut(doc', ledger, e)
    <2>1. 0 \notin Slots
      BY DEF Slots
    <2> QED
      BY <1>1, <1>2, <1>3, <1>10, <2>1 DEF Balanced, BookedBut, PriceOf
  <1>12. doc.paid <=> \E i \in Slots \ {e} : doc.enr[i].paid
    BY <1>1, <1>3 DEF Balanced
  <1>13. CASE ~(amt > 0) /\ End(r, "ok")
    <2>1. ~x.paid /\ amt = 0
      BY <1>0, <1>5, <1>13
    <2>2. BookedBut(doc', ledger, 0)
      BY <1>10, <1>11, <2>1 DEF BookedBut
    <2>3. doc'.paid <=> \E i \in Slots : doc'.enr[i].paid
      <3>1. doc'.paid <=> doc.paid
        <4>1. ~(amt > 0) /\ doc.paid \in BOOLEAN
          BY <1>0, <1>13 DEF Document
        <4> HIDE DEF amt
        <4> QED
          BY <1>9, <4>1
      <3> QED
        BY <1>2, <1>10, <1>12, <2>1, <3>1
    <2>4. doc'.paidAmount = PostedTotal(ledger, PaymentKeys)
      <3>1. doc.paidAmount \in Nat
        BY <1>0 DEF Document
      <3> QED
        BY <1>1, <1>9, <2>1, <3>1 DEF Balanced
    <2>5. Balanced(doc', ledger')
      BY <1>6, <2>2, <2>3, <2>4 DEF Balanced
    <2> QED
      BY <1>0, <1>13, <2>5, EndLands DEF Outcomes
  <1>14. CASE /\ amt > 0 /\ pc'[r] = "addSettle" /\ snap'[r] = [copy EXCEPT !.v = @ + 1]
              /\ arg'[r] = [arg[r] EXCEPT !.e = e]
    <2>1. arg'[r].e = e /\ arg'[r].amt = amt
      BY <1>0, <1>14 DEF Argument
    <2>2. OwesFor(doc', ledger, e, amt)
      <3>1. ClaimedFor(doc', ledger, e, amt)
        BY <1>2, <1>4, <1>5, <1>10, <1>11, <1>14 DEF ClaimedFor, PriceOf
      <3> QED
        BY <1>1, <1>9, <1>14, <3>1 DEF OwesFor, Balanced
    <2>3. Current(snap'[r], doc')
      <3>1. /\ snap'[r].paid = copy.paid /\ snap'[r].paidAmount = copy.paidAmount
            /\ snap'[r].enr = copy.enr /\ snap'[r].price = copy.price /\ snap'[r].v = copy.v + 1
        <4>1. copy \in Document
          <5> DEFINE enr == [snap[r].enr EXCEPT ![e] = x]
          <5>1. /\ snap[r].enr \in [Slots -> Enrollment] /\ snap[r].paidAmount \in Nat
                /\ (snap[r].paid \/ amt > 0) \in BOOLEAN
            BY <1>0 DEF Document
          <5>2. enr \in [Slots -> Enrollment]
            BY <1>2, <1>4, <5>1
          <5>4. snap[r].paidAmount + amt \in Nat
            BY <1>0, <5>1
          <5>3. copy = [snap[r] EXCEPT !.enr = enr, !.paidAmount = @ + amt, !.paid = @ \/ amt > 0]
            BY DEF copy, AddedCopy
          <5> HIDE DEF enr
          <5> QED
            BY <1>0, <5>1, <5>2, <5>3, <5>4 DEF Document
        <4> QED
          BY <1>14, <4>1 DEF Document
      <3> QED
        BY <1>1, <1>7, <1>9, <3>1 DEF Current
    <2>4. Stage("addSettle", arg'[r], snap'[r], doc', ledger')
      BY <1>6, <2>1, <2>2, <2>3 DEF Stage
    <2> QED
      BY <1>14, <2>4 DEF Lands, Steps
  <1> QED
    BY <1>6, <1>13, <1>14

(* The heal run finds nothing to book.                                     *)
LEMMA HealLands ==
  ASSUME ShapeInv, NEW r \in Requests,
         \/ HealRead(r) /\ Balanced(doc, ledger)
         \/ Stage(pc[r], arg[r], snap[r], doc, ledger) /\ (HealCheck(r) \/ HealPost(r))
  PROVE  Lands(r)
  <1>0. TypeOK /\ pc \in [Requests -> {"new"} \cup Steps \cup Outcomes] /\ arg \in [Requests -> Argument]
    BY DEF ShapeInv, TypeOK
  <1>1. CASE HealRead(r) /\ Balanced(doc, ledger)
    <2>1. /\ \E T : /\ T = {e \in InEffect(doc) \cap PaidAmong(doc) : PriceOf(doc, e) > 0}
                    /\ arg' = [arg EXCEPT ![r] = [NoArg EXCEPT !.op = "heal", !.todo = T]]
          /\ pc' = [pc EXCEPT ![r] = "healCheck"] /\ UNCHANGED <<doc, ledger>>
      BY <1>1 DEF HealRead, Goto
    <2>2. pc'[r] = "healCheck" /\ UNCHANGED <<doc, ledger>>
          /\ arg'[r].todo = {e \in InEffect(doc) \cap PaidAmong(doc) : PriceOf(doc, e) > 0}
      BY <1>0, <2>1 DEF NoArg
    <2>3. \A e \in arg'[r].todo : e \in Slots /\ doc.enr[e].paid /\ PriceOf(doc, e) > 0
      BY <2>2 DEF PaidAmong, Present
    <2>4. Stage("healCheck", arg'[r], snap'[r], doc', ledger')
      BY <1>1, <2>2, <2>3 DEF Stage
    <2> QED
      BY <2>2, <2>4 DEF Lands, Steps
  <1>2. CASE Stage(pc[r], arg[r], snap[r], doc, ledger) /\ HealCheck(r)
    <2>1. /\ pc'[r] = "healPost" /\ UNCHANGED <<doc, ledger>>
          /\ arg'[r].todo = {e \in arg[r].todo : ~Covered(e)}
      BY <1>0, <1>2 DEF HealCheck, Goto, Argument
    <2>2. Balanced(doc, ledger) /\ \A e \in arg[r].todo : e \in Slots /\ doc.enr[e].paid /\ PriceOf(doc, e) > 0
      BY <1>2 DEF HealCheck, Stage
    <2>3. arg'[r].todo = {}
      <3>1. 0 \notin Slots
        BY DEF Slots
      <3>2. \A e \in arg[r].todo : Covered(e)
        BY <2>2, <3>1 DEF Balanced, BookedBut, Covered
      <3> QED
        BY <2>1, <3>2
    <2>4. Stage("healPost", arg'[r], snap'[r], doc', ledger')
      BY <2>1, <2>2, <2>3 DEF Stage
    <2> QED
      BY <2>1, <2>4 DEF Lands, Steps
  <1>3. CASE Stage(pc[r], arg[r], snap[r], doc, ledger) /\ HealPost(r)
    <2>1. Balanced(doc, ledger) /\ arg[r].todo = {}
      BY <1>3 DEF HealPost, Stage
    <2>2. End(r, "ok") /\ UNCHANGED <<doc, ledger>>
      BY <1>3, <2>1 DEF HealPost
    <2> QED
      BY <1>0, <2>1, <2>2, EndLands DEF Outcomes
  <1> QED
    BY <1>1, <1>2, <1>3


(* The steps of the requests that collect, and of the heal run.            *)
LEMMA SerialSteps ==
  ASSUME ShapeInv, Operations \subseteq Collecting \cup {"heal"}, NEW r \in Requests, Begin(r) \/ Continue(r)
  PROVE  \/ PayRead(r) \/ PayClaim(r) \/ PaySave(r) \/ PayUndo(r)
         \/ (\E e \in Slots : EnrClaim(r, e)) \/ EnrRead(r) \/ EnrSave(r) \/ Undo(r)
         \/ (\E c \in Courses, op \in {"add", "addPaid"} : AddRead(r, c, op)) \/ AddSave(r)
         \/ PaySettle(r) \/ EnrSettle(r) \/ AddSettle(r)
         \/ HealRead(r) \/ HealCheck(r) \/ HealPost(r)
  <1>1. Fits(pc[r], arg[r], snap[r])
    BY DEF ShapeInv, Requested
  <1>2. arg[r].op \in {"pay", "enrPay", "add", "addPaid", "heal", "none"}
    BY <1>1 DEF Fits, Collecting
  <1>3. pc[r] \notin {"postRefund", "countNotes", "issueNote", "voidRefund", "cancelSave", "refundFill",
                      "refundClaim", "refundSave", "restore", "restored"}
    BY <1>1, <1>2 DEF Fits, Serves, Outcomes
  <1>4. CASE Begin(r)
    BY <1>4 DEF Begin, CancelRead, RefundRead, Arrive, Collecting
  <1>5. CASE Continue(r)
    BY <1>3, <1>5
       DEF Continue, PostRefund, CountNotes, IssueNote, VoidRefund, CancelSave, RefundFill,
           RefundClaim, RefundSave, RefundRestore
  <1> QED
    BY <1>4, <1>5

(* Where every step leads while nothing has crashed.                       *)
LEMMA StepLands ==
  ASSUME ShapeInv, SerialInv, \A q \in Requests : pc[q] # "dead", MaxInFlight = 1,
         Operations \subseteq Collecting \cup {"heal"}, "lostReply" \notin FaultKinds,
         "addPaid" \in Operations => \A c \in Courses : Price[c] > 0,
         NEW r \in Requests, Begin(r) \/ Continue(r)
  PROVE  Lands(r)
  <1>0. TypeOK /\ "cancel" \notin Operations
    BY DEF ShapeInv, Collecting
  <1>1. /\ Begin(r) => Balanced(doc, ledger)
        /\ Continue(r) => Stage(pc[r], arg[r], snap[r], doc, ledger)
    BY <1>0, AloneHere
  <1>2. CASE PayRead(r)
    BY <1>0, <1>1, <1>2, PayReadLands DEF Begin
  <1>3. CASE PayClaim(r)
    BY <1>1, <1>3, PayClaimLands DEF Continue
  <1>4. CASE PaySave(r)
    BY <1>0, <1>1, <1>4, PaySaveLands DEF Continue
  <1>5. CASE PayUndo(r)
    BY <1>0, <1>1, <1>5, PayUndoLands DEF Continue
  <1>6. ASSUME NEW e \in Slots, EnrClaim(r, e) PROVE Lands(r)
    BY <1>1, <1>6, EnrClaimLands DEF Begin
  <1>7. CASE EnrRead(r)
    BY <1>1, <1>7, EnrReadLands DEF Continue
  <1>8. CASE EnrSave(r)
    BY <1>1, <1>8, EnrSaveLands DEF Continue
  <1>9. CASE Undo(r)
    BY <1>0, <1>1, <1>9, UndoLands DEF Continue
  <1>10. ASSUME NEW c \in Courses, NEW op \in {"add", "addPaid"}, AddRead(r, c, op) PROVE Lands(r)
    BY <1>1, <1>10, AddReadLands DEF Begin
  <1>11. CASE AddSave(r)
    BY <1>1, <1>11, AddSaveLands DEF Continue
  <1>12. CASE PaySettle(r)
    <2>1. Settle(r, "payUndo") /\ pc[r] = "paySettle" /\ Stage("paySettle", arg[r], snap[r], doc, ledger)
      BY <1>1, <1>12 DEF PaySettle, Continue
    <2>2. OwesFor(doc, ledger, arg[r].e, arg[r].amt) /\ Stage("payUndo", arg[r], snap[r], doc, ledger)
      BY <2>1 DEF Stage
    <2> QED
      BY <1>0, <2>1, <2>2, SettleLands
  <1>13. CASE EnrSettle(r) \/ AddSettle(r)
    <2>1. /\ Settle(r, "undo") /\ pc[r] \in {"enrSettle", "addSettle"}
          /\ Stage(pc[r], arg[r], snap[r], doc, ledger)
      BY <1>1, <1>13 DEF EnrSettle, AddSettle, Continue
    <2>2. OwesFor(doc, ledger, arg[r].e, arg[r].amt) /\ Stage("undo", arg[r], snap[r], doc, ledger)
      BY <2>1 DEF Stage
    <2> QED
      BY <1>0, <2>1, <2>2, SettleLands
  <1>14. CASE HealRead(r) \/ HealCheck(r) \/ HealPost(r)
    BY <1>1, <1>14, HealLands DEF Begin, Continue
  <1> QED
    BY <1>2, <1>3, <1>4, <1>5, <1>6, <1>7, <1>8, <1>9, <1>10, <1>11, <1>12, <1>13, <1>14, SerialSteps

LEMMA InitSerial ==
  ASSUME Init
  PROVE  SerialInv
  <1>1. doc = NewDoc /\ ledger = [k \in Keys |-> NoEntry] /\ \A r \in Requests : ~InFlight(r)
    BY DEF Init, InFlight
  <1>2. \A i \in Slots : Unbooked(ledger, i) /\ ~doc.enr[i].paid
    BY <1>1, SlotsOfDocument DEF Unbooked, PaymentsOf, Keys, PaymentKeys, Free, NoEntry, NewDoc, Pending, Absent
  <1>3. PostedTotal(ledger, PaymentKeys) = 0
    BY <1>2, NoneBooked
  <1>4. Balanced(doc, ledger)
    BY <1>1, <1>2, <1>3 DEF Balanced, BookedBut, NewDoc
  <1> QED
    BY <1>1, <1>4 DEF SerialInv, Sole

(* Every reachable state of requests that run one at a time.               *)
LEMMA SerialInvariance ==
  ASSUME MaxInFlight = 1, Operations \subseteq Collecting \cup {"heal"}, "lostReply" \notin FaultKinds,
         "addPaid" \in Operations => \A c \in Courses : Price[c] > 0
  PROVE  Spec => []SerialInv
  <1>1. ShapeInv /\ SerialInv /\ [Next]_vars => SerialInv'
    <2> SUFFICES ASSUME ShapeInv, SerialInv, [Next]_vars PROVE SerialInv'
      OBVIOUS
    <2>1. CASE UNCHANGED vars
      BY <2>1 DEF vars, locals, SerialInv, Sole, InFlight, Quiet
    <2>2. ASSUME NEW r \in Requests, Begin(r) \/ Continue(r) PROVE SerialInv'
      <3>1. TypeOK /\ Kept(r) /\ pc[r] # "dead"
        <4>1. TypeOK
          BY DEF ShapeInv
        <4>2. pc[r] # "dead"
          BY <2>2 DEF Begin, Continue, PayRead, HealRead, EnrClaim, AddRead, CancelRead, RefundRead, Arrive,
                      PayClaim, PaySave, PaySettle, PayUndo, EnrRead, EnrSave, EnrSettle, Undo,
                      AddSave, AddSettle, PostRefund, CountNotes, IssueNote, VoidRefund, CancelSave, RefundFill,
                      RefundClaim, RefundSave, RefundRestore, HealCheck, HealPost
        <4> QED
          BY <2>2, <4>1, <4>2, StepKept
      <3>2. CASE \A q \in Requests : pc[q] # "dead"
        <4>1. Lands(r)
          BY <2>2, <3>2, StepLands
        <4>2. \A q \in Requests \ {r} : ~InFlight(q)
          BY <2>2, <3>1, <3>2, AloneHere
        <4> QED
          BY <3>1, <4>1, <4>2, SerialMove
      <3>3. ASSUME NEW q \in Requests, pc[q] = "dead" PROVE SerialInv'
        <4>1. pc'[q] = "dead"
          BY <3>1, <3>3 DEF Kept
        <4> QED
          BY <4>1 DEF SerialInv
      <3> QED
        BY <3>2, <3>3
    <2>3. ASSUME NEW r \in Requests, Crash(r) PROVE SerialInv'
      <3>1. pc'[r] = "dead"
        BY <2>3 DEF Crash, End, Goto, ShapeInv, TypeOK
      <3> QED
        BY <3>1 DEF SerialInv
    <2> QED
      BY <2>1, <2>2, <2>3 DEF Next, LedgerVoid, Collecting
  <1> QED
    BY <1>1, InitSerial, ShapeInvariance, PTL DEF Spec

(* The requests that collect, and the heal run, void and refund nothing.   *)
LEMMA SerialSpares ==
  ASSUME ShapeInv, Operations \subseteq Collecting \cup {"heal"}, NEW r \in Requests, Begin(r) \/ Continue(r)
  PROVE  \A k \in RefundKeys : ledger'[k] = ledger[k]
  <1> DEFINE Goal == \A k \in RefundKeys : ledger'[k] = ledger[k]
  <1> USE DEF Refuse, End
  <1>0. ledger \in [Keys -> Entry] /\ RefundKeys \subseteq Keys
    BY DEF ShapeInv, TypeOK, RefundKeys
  <1>1. CASE PayRead(r) \/ PayClaim(r) \/ PaySave(r) \/ PayUndo(r)
    BY <1>1 DEF PayRead, PayClaim, PaySave, PayUndo
  <1>2. CASE (\E e \in Slots : EnrClaim(r, e)) \/ EnrRead(r) \/ EnrSave(r) \/ Undo(r)
    BY <1>2 DEF EnrClaim, EnrRead, EnrSave, Undo
  <1>3. CASE (\E c \in Courses, op \in {"add", "addPaid"} : AddRead(r, c, op)) \/ AddSave(r)
    BY <1>3 DEF AddRead, AddSave
  <1>4. ASSUME NEW undo, Settle(r, undo) PROVE Goal
    <2>1. UNCHANGED ledger \/ ledger' = PostEntry(ledger, PaymentKey(r), arg[r].amt)
      BY <1>4 DEF Settle
    <2>2. PaymentKey(r) \notin RefundKeys
      <3>1. arg[r].e \in Slots
        BY DEF ShapeInv, TypeOK, Argument
      <3> QED
        BY <3>1 DEF PaymentKey, RefundKeys, PaymentKeys
    <2> QED
      BY <1>0, <2>1, <2>2 DEF PostEntry
  <1>5. CASE PaySettle(r) \/ EnrSettle(r) \/ AddSettle(r)
    BY <1>4, <1>5 DEF PaySettle, EnrSettle, AddSettle
  <1>6. CASE HealRead(r) \/ HealCheck(r)
    BY <1>6 DEF HealRead, HealCheck
  <1>7. CASE HealPost(r)
    <2>1. arg[r].todo \in SUBSET Slots
      BY DEF ShapeInv, TypeOK, Argument
    <2>2. UNCHANGED ledger \/ \E e \in Slots : \E amt : ledger' = PostEntry(ledger, <<"heal", e>>, amt)
      <3>1. CASE arg[r].todo = {}
        BY <1>7, <3>1 DEF HealPost
      <3>2. CASE arg[r].todo # {}
        <4>1. Min(arg[r].todo) \in Slots
          BY <2>1, <3>2, LeastIsMember DEF Slots
        <4> QED
          BY <1>7, <3>2, <4>1 DEF HealPost
      <3> QED
        BY <3>1, <3>2
    <2>3. \A e \in Slots : <<"heal", e>> \notin RefundKeys
      BY DEF RefundKeys, PaymentKeys
    <2> QED
      BY <1>0, <2>2, <2>3 DEF PostEntry
  <1> QED
    BY <1>1, <1>2, <1>3, <1>5, <1>6, <1>7, SerialSteps

LEMMA NothingBackInvariance ==
  ASSUME Operations \subseteq Collecting \cup {"heal"}
  PROVE  Spec => []NothingBack
  <1>1. Init => NothingBack
    BY DEF Init, NothingBack, RefundKeys, Free, NoEntry
  <1>2. ShapeInv /\ NothingBack /\ [Next]_vars => NothingBack'
    <2> SUFFICES ASSUME ShapeInv, NothingBack, [Next]_vars PROVE NothingBack'
      OBVIOUS
    <2>1. CASE UNCHANGED vars
      BY <2>1 DEF vars, locals, NothingBack, Free
    <2>2. ASSUME NEW r \in Requests, Begin(r) \/ Continue(r) PROVE NothingBack'
      BY <2>2, SerialSpares DEF NothingBack, Free
    <2>3. ASSUME NEW r \in Requests, Crash(r) PROVE NothingBack'
      BY <2>3 DEF Crash, NothingBack, Free
    <2> QED
      BY <2>1, <2>2, <2>3 DEF Next, LedgerVoid, Collecting
  <1> QED
    BY <1>1, <1>2, ShapeInvariance, PTL DEF Spec

(* Requests that arrive one after the other (the pay, enrollment payment,  *)
(* registration and heal handlers of studentRoutes.js and ledgerService.js)*)
(* leave the root marked paid exactly when some enrollment is open, with   *)
(* any number of ledger writes that fail.  A crash is where it ends:       *)
(* Settled asks that no request died.                                      *)
THEOREM RootsAgree ==
  ASSUME MaxInFlight = 1, Operations \subseteq Collecting \cup {"heal"}, "lostReply" \notin FaultKinds,
         "addPaid" \in Operations => \A c \in Courses : Price[c] > 0
  PROVE  Spec => []RootAgrees
  <1>1. ShapeInv /\ SerialInv => RootAgrees
    <2> SUFFICES ASSUME ShapeInv, SerialInv, Settled PROVE doc.paid <=> Open # {}
      BY DEF RootAgrees
    <2>1. Balanced(doc, ledger)
      BY DEF SerialInv, Settled
    <2>2. Open = {i \in Slots : doc.enr[i].paid}
      <3>1. doc \in Document /\ Shaped(doc) /\ "cancel" \notin Operations /\ "refund" \notin Operations
        BY DEF ShapeInv, TypeOK, CopiesShaped, Collecting
      <3> QED
        <4>1. \A e \in Slots : doc.enr[e].status \notin {"cancelled", "refunded"}
          BY <3>1 DEF Shaped
        <4>2. \A e \in Slots : doc.enr[e].paid => doc.enr[e].status # "absent"
          BY <3>1 DEF Shaped
        <4> QED
          BY <4>1, <4>2 DEF Open, InEffect, PaidAmong, Present
    <2> QED
      BY <2>1, <2>2 DEF Balanced
  <1> QED
    BY <1>1, ShapeInvariance, SerialInvariance, PTL

(* Of such requests the root's amount is what the ledger took in: every    *)
(* failed entry is undone to the last unit, and the heal run, which finds  *)
(* the open enrollments booked, adds nothing.                              *)
THEOREM AmountsAgree ==
  ASSUME MaxInFlight = 1, Operations \subseteq Collecting \cup {"heal"}, "lostReply" \notin FaultKinds,
         "addPaid" \in Operations => \A c \in Courses : Price[c] > 0
  PROVE  Spec => []AmountAgrees
  <1>1. ShapeInv /\ SerialInv /\ NothingBack => AmountAgrees
    <2> SUFFICES ASSUME ShapeInv, SerialInv, NothingBack, Settled PROVE doc.paidAmount + Refunds = Payments
      BY DEF AmountAgrees
    <2>1. Balanced(doc, ledger)
      BY DEF SerialInv, Settled
    <2>2. Refunds = 0
      BY NothingRefunded
    <2>3. doc.paidAmount \in Nat
      BY DEF ShapeInv, TypeOK, Document
    <2>4. doc.paidAmount = Payments
      BY <2>1 DEF Balanced, Payments
    <2> QED
      BY <2>2, <2>3, <2>4
  <1> QED
    BY <1>1, ShapeInvariance, SerialInvariance, NothingBackInvariance, PTL

-----------------------------------------------------------------------------
(* The heal run.  While it is the only request running nobody changes the  *)
(* document, so its list has all orphans: it read all that is open, drops  *)
(* what is covered, and takes off the list what it has booked.             *)
Orphans == {e \in Open : PriceOf(doc, e) > 0 /\ ~Covered(e)}

HealInv == Sole /\ \A r \in Requests : pc[r] \in {"healCheck", "healPost"} => Orphans \subseteq arg[r].todo

(* The step of a heal run books what it takes off the list.                *)
LEMMA HealBooks ==
  ASSUME ShapeInv, HealInv, "heal" \notin FaultKinds, "void" \notin Operations, NEW r \in Requests,
         Begin(r) \/ Continue(r), pc'[r] \in {"healCheck", "healPost"}
  PROVE  Orphans' \subseteq arg'[r].todo
  <1>0. TypeOK /\ pc \in [Requests -> {"new"} \cup Steps \cup Outcomes] /\ arg \in [Requests -> Argument]
        /\ ledger \in [Keys -> Entry] /\ PaymentsStand
    BY DEF ShapeInv, TypeOK
  <1>1. CASE HealRead(r)
    <2>1. /\ \E T : /\ T = {e \in InEffect(doc) \cap PaidAmong(doc) : PriceOf(doc, e) > 0}
                    /\ arg' = [arg EXCEPT ![r] = [NoArg EXCEPT !.op = "heal", !.todo = T]]
          /\ UNCHANGED <<doc, ledger>>
      BY <1>1 DEF HealRead
    <2>2. arg'[r].todo = {e \in Open : PriceOf(doc, e) > 0} /\ UNCHANGED <<doc, ledger>>
      BY <1>0, <2>1 DEF NoArg, Open
    <2> QED
      BY <2>2 DEF Orphans, Open, Covered
  <1>2. CASE HealCheck(r)
    <2>1. arg'[r].todo = {e \in arg[r].todo : ~Covered(e)} /\ UNCHANGED <<doc, ledger>>
      BY <1>0, <1>2 DEF HealCheck, Argument
    <2>2. Orphans \subseteq arg[r].todo
      BY <1>2 DEF HealInv, HealCheck
    <2> QED
      BY <2>1, <2>2 DEF Orphans, Open, Covered
  <1>3. CASE HealPost(r)
    <2>1. arg[r].todo # {} /\ UNCHANGED doc
      BY <1>0, <1>3 DEF HealPost, End, Goto
    <2>2. PICK e \in Slots : /\ arg'[r].todo = arg[r].todo \ {e}
                             /\ \E amt : ledger' = PostEntry(ledger, <<"heal", e>>, amt)
      <3>1. arg[r].todo \in SUBSET Slots
        BY <1>0 DEF Argument
      <3>2. Min(arg[r].todo) \in Slots
        BY <2>1, <3>1, LeastIsMember DEF Slots
      <3>3. ~Fault("heal")
        BY DEF Fault
      <3> QED
        BY <1>0, <1>3, <2>1, <3>2, <3>3 DEF HealPost, Argument
    <2>3. <<"heal", e>> \in PaymentKeys /\ <<"heal", e>> \in Keys /\ <<"heal", e>> \in PaymentsOf(e)
      BY DEF PaymentKeys, Keys, PaymentsOf
    <2>4. ledger'[<<"heal", e>>].status = "posted"
          /\ \A k \in PaymentKeys : Posted(ledger, k) => Posted(ledger', k)
      BY <1>0, <2>2, <2>3 DEF PostEntry, PaymentsStand, Posted, Entry, Free, Keys
    <2>5. Covered(e)' /\ \A i \in Slots : Covered(i) => Covered(i)'
      <3>1. \A i \in Slots : PaymentsOf(i) \subseteq PaymentKeys
        BY DEF PaymentsOf, PaymentKeys
      <3> QED
        BY <2>3, <2>4, <3>1 DEF Covered, Posted
    <2>6. Orphans \subseteq arg[r].todo
      BY <1>3 DEF HealInv, HealPost
    <2>7. Open \subseteq Slots /\ UNCHANGED Open
      BY <2>1 DEF Open, PaidAmong, Present, InEffect
    <2> QED
      BY <2>1, <2>2, <2>5, <2>6, <2>7 DEF Orphans, PriceOf
  <1>4. ASSUME NEW undo \in {"payUndo", "undo"}, Settle(r, undo) PROVE FALSE
    BY <1>0, <1>4 DEF Settle, End, Goto
  <1>5. HealRead(r) \/ HealCheck(r) \/ HealPost(r)
    <2> USE DEF Goto, End, Refuse
    <2>1. CASE Begin(r)
      BY <1>0, <2>1 DEF Begin, PayRead, EnrClaim, AddRead, CancelRead, RefundRead
    <2>2. CASE PayClaim(r) \/ PaySave(r) \/ PayUndo(r) \/ EnrRead(r) \/ EnrSave(r) \/ Undo(r) \/ AddSave(r)
      BY <1>0, <2>2 DEF PayClaim, PaySave, PayUndo, EnrRead, EnrSave, Undo, AddSave
    <2>3. CASE PaySettle(r) \/ EnrSettle(r) \/ AddSettle(r)
      BY <1>4, <2>3 DEF PaySettle, EnrSettle, AddSettle
    <2>4. CASE PostRefund(r) \/ CountNotes(r) \/ IssueNote(r) \/ VoidRefund(r)
      BY <1>0, <2>4 DEF PostRefund, CountNotes, IssueNote, VoidRefund, AfterRefund, RefundThrows
    <2>5. CASE CancelSave(r) \/ RefundFill(r) \/ RefundClaim(r) \/ RefundSave(r) \/ RefundRestore(r)
      BY <1>0, <2>5 DEF CancelSave, RefundFill, RefundClaim, RefundSave, RefundRestore
    <2> QED
      BY <2>1, <2>2, <2>3, <2>4, <2>5 DEF Continue
  <1> QED
    BY <1>1, <1>2, <1>3, <1>5

LEMMA HealInvariance ==
  ASSUME MaxInFlight = 1, "heal" \notin FaultKinds, "void" \notin Operations
  PROVE  Spec => []HealInv
  <1>1. Init => HealInv
    BY DEF Init, HealInv, Sole, InFlight
  <1>2. ShapeInv /\ HealInv /\ [Next]_vars => HealInv'
    <2> SUFFICES ASSUME ShapeInv, HealInv, [Next]_vars PROVE HealInv'
      OBVIOUS
    <2>1. CASE UNCHANGED vars
      BY <2>1 DEF vars, locals, HealInv, Sole, InFlight, Orphans, Open, Covered
    <2>2. ASSUME NEW r \in Requests, Begin(r) \/ Continue(r) \/ Crash(r) PROVE HealInv'
      <3>1. TypeOK /\ Sole
        BY DEF ShapeInv, HealInv
      <3>2. Kept(r) /\ \A q \in Requests \ {r} : ~InFlight(q)
        BY <2>2, <3>1, Alone, StepKept
      <3>3. Sole'
        BY <3>2 DEF Sole, Kept, InFlight
      <3>4. \A q \in Requests \ {r} : pc'[q] \notin {"healCheck", "healPost"}
        BY <3>2 DEF Kept, InFlight, Outcomes
      <3>5. pc'[r] \in {"healCheck", "healPost"} => Orphans' \subseteq arg'[r].todo
        <4>1. CASE Begin(r) \/ Continue(r)
          BY <4>1, HealBooks
        <4>2. CASE Crash(r)
          BY <3>1, <4>2 DEF Crash, End, Goto, TypeOK
        <4> QED
          BY <2>2, <4>1, <4>2
      <3> QED
        BY <3>3, <3>4, <3>5 DEF HealInv
    <2> QED
      BY <2>1, <2>2 DEF Next, LedgerVoid
  <1> QED
    BY <1>1, <1>2, ShapeInvariance, PTL DEF Spec

(* A heal run (healOrphanEnrollmentPayments) that answers, none of whose   *)
(* own writes failed, leaves no enrollment open as paid without a payment, *)
(* whatever requests of whatever kind, failing writes, lost replies and    *)
(* crashes came before it, if nobody works on the student beside it or     *)
(* voids a payment by hand.                                                *)
THEOREM HealLeavesNone ==
  ASSUME MaxInFlight = 1, "heal" \notin FaultKinds, "void" \notin Operations
  PROVE  Spec => HealLeavesNoOrphan
  <1>1. ShapeInv /\ HealInv /\ [Next]_vars =>
          [\A r \in Requests : pc[r] = "healPost" /\ pc'[r] = "ok" =>
             \A e \in Open : PriceOf(doc, e) > 0 => Covered(e)]_vars
    <2> SUFFICES ASSUME ShapeInv, HealInv, Next, NEW r \in Requests, pc[r] = "healPost", pc'[r] = "ok"
                 PROVE  \A e \in Open : PriceOf(doc, e) > 0 => Covered(e)
      OBVIOUS
    <2>0. TypeOK /\ pc \in [Requests -> {"new"} \cup Steps \cup Outcomes]
      BY DEF ShapeInv, TypeOK
    <2>1. PICK q \in Requests : Begin(q) \/ Continue(q) \/ Crash(q)
      BY DEF Next, LedgerVoid
    <2>2. q = r
      BY <2>0, <2>1, StepKept DEF Kept
    <2>3. HealPost(r)
      <3>1. ~Crash(r)
        BY <2>0 DEF Crash, End, Goto
      <3>2. ~Begin(r)
        BY DEF Begin, PayRead, HealRead, EnrClaim, AddRead, CancelRead, RefundRead, Arrive
      <3> QED
        BY <2>1, <2>2, <3>1, <3>2
           DEF Continue, PayClaim, PaySave, PaySettle, PayUndo, EnrRead, EnrSave, EnrSettle, Undo,
               AddSave, AddSettle, PostRefund, CountNotes, IssueNote, VoidRefund, CancelSave, RefundFill,
               RefundClaim, RefundSave, RefundRestore, HealCheck
    <2>4. arg[r].todo = {}
      BY <2>0, <2>3 DEF HealPost
    <2> QED
      BY <2>4 DEF HealInv, Orphans
  <1> QED
    BY <1>1, ShapeInvariance, HealInvariance, PTL DEF Spec, HealLeavesNoOrphan

=============================================================================
