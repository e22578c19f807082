--------------------------- MODULE AttendanceProofs ---------------------------
(***************************************************************************)
(* Proofs about Attendance for every number of sessions, days and requests *)
(* and every total of the course.                                          *)
(***************************************************************************)
EXTENDS Attendance, FiniteSetTheorems, TLAPS

(* Types.                                                                  *)
Locals == [op : Kinds \cup {"none"}, s : Sessions \cup {"none"},
           slot : Slots \cup {NoSlot} \cup (Days \X {"none"}),
           to : Statuses \cup Answers \cup {"none"}, copy : Progress]

Places == Steps \cup {"idle"}

(* A session that takes place has a time, and what a request was sent fits *)
(* the step it is at.                                                      *)
Placed == \A s \in Sessions : sched[s].status \in Statuses => sched[s].slot \in Slots

Known(r) == arg[r].s \in Sessions /\ sched[arg[r].s].status # "none"

Sent(r) ==
  /\ pc[r] = "insert" => arg[r].slot \in Slots /\ arg[r].to \in NewStatuses
  /\ pc[r] \in {"put", "cancel", "ask", "claim"} => Known(r)
  /\ pc[r] = "put" => /\ arg[r].to \in {"none", "scheduled", "cancelled", "no_show"}
                      /\ arg[r].slot \in Slots \cup {NoSlot}
  /\ pc[r] \in {"sync", "save", "log"} => arg[r].slot \in Days \X {"none"}
  /\ pc[r] = "edit" => arg[r].copy.done \in 0..Total

AllSent == \A r \in Requests : Sent(r)

Typed == AttendanceTypeOK /\ Placed /\ AllSent

LEMMA NoneTyped == NoArg \in Locals /\ NoCopy \in Progress /\ NoSession \in Session /\ Deleted \in Session
  BY DEF NoArg, Locals, NoCopy, Progress, NoSession, Session, Deleted

LEMMA NewAreStatuses == NewStatuses \subseteq Statuses
  BY AttendanceAssumption DEF Statuses, Occupying

LEMMA TotalIsNat == Total \in Nat /\ Total > 0 /\ MaxCredit \in Nat /\ MaxEdits \in Nat
  BY AttendanceAssumption

(* Days with a grade and sessions are finitely many.                       *)
LEMMA Counted ==
  /\ \A D \in SUBSET Days : Cardinality(D) \in Nat
  /\ \A S \in SUBSET Sessions : Cardinality(S) \in Nat
  BY AttendanceAssumption, FS_Subset, FS_CardinalityType

LEMMA RecountIsNat ==
  ASSUME NEW done \in Nat, NEW count \in Nat
  PROVE  Recount(done, count) \in Nat /\ Recount(done, count) >= Smaller(Total, done + 1)
  BY TotalIsNat DEF Recount, Smaller

(* A step of request r, seen from the locals of all requests: it goes to   *)
(* step p with locals a, or starts one, or ends.                           *)
Moves(r, p, a) == pc' = [pc EXCEPT ![r] = p] /\ arg' = [arg EXCEPT ![r] = a]

LEMMA Starting ==
  ASSUME Typed, NEW r \in Requests, NEW a \in Locals, NEW p \in Steps, Begin(r, a, p)
  PROVE  Moves(r, p, a) /\ pc[r] = "idle" /\ overlap' \in BOOLEAN
  BY DEF Begin, Moves, Typed, AttendanceTypeOK

LEMMA Ending ==
  ASSUME Typed, NEW r \in Requests, End(r)
  PROVE  Moves(r, "idle", NoArg) /\ behind' \subseteq Requests
  BY DEF End, Moves, Goto, Typed, AttendanceTypeOK

LEMMA Moving ==
  ASSUME Typed, NEW r \in Requests, NEW a \in Locals, NEW p \in Places, Moves(r, p, a)
  PROVE  /\ pc' \in [Requests -> Places] /\ arg' \in [Requests -> Locals]
         /\ pc'[r] = p /\ arg'[r] = a
         /\ \A q \in Requests \ {r} : pc'[q] = pc[q] /\ arg'[q] = arg[q]
  BY DEF Typed, AttendanceTypeOK, Moves, Places, Locals

(* What happens to the sessions: none comes to take place without a time,  *)
(* and none that was created is forgotten.                                 *)
SchedFits ==
  /\ sched' \in [Sessions -> Session]
  /\ Placed'
  /\ \A s \in Sessions : sched[s].status # "none" => sched'[s].status # "none"

LEMMA SchedStays == ASSUME Typed, UNCHANGED sched PROVE SchedFits
  BY DEF Typed, AttendanceTypeOK, SchedFits, Placed

LEMMA SchedOne ==
  ASSUME Typed, NEW s \in Sessions, NEW d \in Session, sched' = [sched EXCEPT ![s] = d],
         d.status # "none", d.status \in Statuses => d.slot \in Slots
  PROVE  SchedFits
  BY DEF Typed, AttendanceTypeOK, SchedFits, Placed

(* After a step of r that fits, all requests fit.                          *)
LEMMA SentStep ==
  ASSUME Typed, SchedFits, NEW r \in Requests, NEW a \in Locals, NEW p \in Places, Moves(r, p, a), Sent(r)'
  PROVE  AllSent'
  <1>1. \A q \in Requests \ {r} : pc'[q] = pc[q] /\ arg'[q] = arg[q]
    BY Moving
  <1>2. \A q \in Requests : Sent(q)
    BY DEF Typed, AllSent
  <1> QED
    BY <1>1, <1>2 DEF AllSent, Sent, Known, SchedFits

LEMMA SentStays == ASSUME Typed, SchedFits, UNCHANGED <<pc, arg>> PROVE AllSent'
  BY DEF Typed, AllSent, Sent, Known, SchedFits

LEMMA IdleSent == ASSUME NEW r, pc'[r] \in {"idle", "reset", "remove"} PROVE Sent(r)'
  BY DEF Sent

(* The variables other than the sessions and the locals.                   *)
RestFits ==
  /\ stu \in Progress /\ behind \subseteq Requests /\ credit \in 0..Total
  /\ ever \in Nat /\ taken \in Nat
  /\ reopened \subseteq Sessions /\ overlap \in BOOLEAN /\ edited \in BOOLEAN /\ edits \in 0..MaxEdits

LEMMA Parts == AttendanceTypeOK <=> /\ sched \in [Sessions -> Session] /\ RestFits
                                    /\ pc \in [Requests -> Places] /\ arg \in [Requests -> Locals]
  BY DEF AttendanceTypeOK, RestFits, Places, Locals

LEMMA StepTyped ==
  ASSUME Typed, SchedFits, RestFits', NEW r \in Requests, NEW a \in Locals, NEW p \in Places,
         Moves(r, p, a), Sent(r)'
  PROVE  Typed'
  <1>1. AllSent'
    BY SentStep
  <1>2. pc' \in [Requests -> Places] /\ arg' \in [Requests -> Locals]
    BY Moving
  <1>3. sched' \in [Sessions -> Session] /\ Placed'
    BY DEF SchedFits
  <1>4. AttendanceTypeOK'
    BY <1>2, <1>3 DEF AttendanceTypeOK, RestFits, Places, Locals
  <1> QED
    BY <1>1, <1>3, <1>4 DEF Typed

LEMMA QuietTyped ==
  ASSUME Typed, SchedFits, RestFits', UNCHANGED <<pc, arg>>
  PROVE  Typed'
  <1>1. AllSent'
    BY SentStays
  <1>2. sched' \in [Sessions -> Session] /\ Placed'
    BY DEF SchedFits
  <1>3. AttendanceTypeOK'
    BY <1>2 DEF Typed, AttendanceTypeOK, RestFits, Places, Locals
  <1> QED
    BY <1>1, <1>2, <1>3 DEF Typed

(* The requests that start.                                                *)
LEMMA StartTyped ==
  ASSUME Typed, NEW r \in Requests, NEW a \in Locals, NEW p \in Steps, Begin(r, a, p),
         UNCHANGED <<sched, stu, behind, credit, ever, taken, reopened, edited>>, edits' \in 0..MaxEdits,
         Moves(r, p, a) => Sent(r)'
  PROVE  Typed'
  <1>1. Moves(r, p, a) /\ overlap' \in BOOLEAN
    BY Starting
  <1>2. RestFits'
    BY <1>1, Parts DEF Typed, RestFits
  <1>3. SchedFits
    BY SchedStays
  <1> QED
    BY <1>1, <1>2, <1>3, StepTyped DEF Places

LEMMA StartsTyped ==
  ASSUME Typed, NEW r \in Requests,
         \/ \E slot \in Slots, to \in NewStatuses : Create(r, slot, to)
         \/ \E n \in Numbers : Edit(r, n)
         \/ \E s \in Sessions :
              \/ \E slot \in Slots \cup {NoSlot}, to \in {"none", "scheduled", "cancelled", "no_show"} : Put(r, s, slot, to)
              \/ Cancel(r, s) \/ Ask(r, s)
              \/ \E op \in Takes : Take(r, s, op)
         \/ \E day \in Days : Reset(r, day)
  PROVE  Typed'
  <1>0. /\ arg \in [Requests -> Locals] /\ pc \in [Requests -> Places] /\ edits \in 0..MaxEdits
        /\ stu \in Progress
    BY Parts DEF Typed, RestFits
  <1>1. ASSUME NEW slot \in Slots, NEW to \in NewStatuses, Create(r, slot, to)
        PROVE  Typed'
    <2> DEFINE a == [NoArg EXCEPT !.op = "create", !.slot = slot, !.to = to]
    <2>1. a \in Locals /\ a.slot = slot /\ a.to = to
      <3>1. to \in Statuses
        BY NewAreStatuses
      <3> QED
        BY <3>1, NoneTyped DEF NoArg, Locals, Kinds
    <2>2. Moves(r, "insert", a) => Sent(r)'
      BY <1>0, <2>1 DEF Moves, Sent
    <2>3. Begin(r, a, "insert") /\ UNCHANGED <<sched, stu, behind, credit, ever, taken, reopened, edited, edits>>
      BY <1>1 DEF Create
    <2> HIDE DEF a
    <2> QED
      BY <1>0, <2>1, <2>2, <2>3, StartTyped DEF Steps
  <1>2. ASSUME NEW s \in Sessions, NEW slot \in Slots \cup {NoSlot},
               NEW to \in {"none", "scheduled", "cancelled", "no_show"}, Put(r, s, slot, to)
        PROVE  Typed'
    <2> DEFINE a == [NoArg EXCEPT !.op = "put", !.s = s, !.slot = slot, !.to = to]
    <2>1. a \in Locals /\ a.s = s /\ a.slot = slot /\ a.to = to
      BY NoneTyped DEF NoArg, Locals, Kinds, Statuses, Occupying
    <2>2. /\ Begin(r, a, "put")
          /\ UNCHANGED <<sched, stu, behind, credit, ever, taken, reopened, edited>>
          /\ sched[s].status \in Statuses
      BY <1>2 DEF Put
    <2>3. Moves(r, "put", a) => Sent(r)'
      BY <1>0, <2>1, <2>2 DEF Moves, Sent, Known, Statuses, Occupying
    <2>4. edits' \in 0..MaxEdits
      <3>1. edits < MaxEdits /\ edits' = edits + 1
        BY <1>2 DEF Put
      <3> QED
        BY <1>0, <3>1, TotalIsNat
    <2> HIDE DEF a
    <2> QED
      BY <2>1, <2>2, <2>3, <2>4, StartTyped DEF Steps
  <1>3. ASSUME NEW s \in Sessions, Cancel(r, s) PROVE Typed'
    <2> DEFINE a == [NoArg EXCEPT !.op = "cancel", !.s = s]
    <2>1. a \in Locals /\ a.s = s
      BY NoneTyped DEF NoArg, Locals, Kinds
    <2>2. /\ Begin(r, a, "cancel") /\ UNCHANGED <<sched, stu, behind, credit, ever, taken, reopened, edited, edits>>
          /\ sched[s].status # "none"
      BY <1>3 DEF Cancel
    <2>3. Moves(r, "cancel", a) => Sent(r)'
      BY <1>0, <2>1, <2>2 DEF Moves, Sent, Known
    <2> HIDE DEF a
    <2> QED
      BY <1>0, <2>1, <2>2, <2>3, StartTyped DEF Steps
  <1>4. ASSUME NEW s \in Sessions, Ask(r, s) PROVE Typed'
    <2> DEFINE a == [NoArg EXCEPT !.op = "ask", !.s = s]
    <2>1. a \in Locals /\ a.s = s
      BY NoneTyped DEF NoArg, Locals, Kinds
    <2>2. /\ Begin(r, a, "ask") /\ UNCHANGED <<sched, stu, behind, credit, ever, taken, reopened, edited, edits>>
          /\ sched[s].status # "none"
      BY <1>4 DEF Ask
    <2>3. Moves(r, "ask", a) => Sent(r)'
      BY <1>0, <2>1, <2>2 DEF Moves, Sent, Known
    <2> HIDE DEF a
    <2> QED
      BY <1>0, <2>1, <2>2, <2>3, StartTyped DEF Steps
  <1>5. ASSUME NEW s \in Sessions, NEW op \in Takes, Take(r, s, op) PROVE Typed'
    <2> DEFINE a == [NoArg EXCEPT !.op = "take", !.s = s]
    <2>2. Begin(r, a, "claim")
      BY <1>5 DEF Take
    <2>3. /\ UNCHANGED <<sched, stu, behind, credit, ever, taken, reopened, edited, edits>>
          /\ sched[s].status # "none"
      BY <1>5 DEF Take, Ready
    <2>4. a \in Locals /\ a.s = s
      BY NoneTyped DEF NoArg, Locals, Kinds
    <2>5. Moves(r, "claim", a) => Sent(r)'
      BY <1>0, <2>3, <2>4 DEF Moves, Sent, Known
    <2> HIDE DEF a
    <2> QED
      BY <1>0, <2>2, <2>3, <2>4, <2>5, StartTyped DEF Steps
  <1>6. ASSUME NEW day \in Days, Reset(r, day) PROVE Typed'
    <2> DEFINE a == [NoArg EXCEPT !.op = "reset", !.slot = <<day, "none">>, !.copy = [stu EXCEPT !.done = 0]]
    <2>1. a \in Locals
      <3>1. [stu EXCEPT !.done = 0] \in Progress
        BY DEF Typed, AttendanceTypeOK, Progress
      <3>2. <<day, "none">> \in Days \X {"none"}
        OBVIOUS
      <3> QED
        BY <3>1, <3>2 DEF NoArg, Locals, Kinds
    <2>2. Begin(r, a, "reset") /\ UNCHANGED <<sched, stu, behind, credit, ever, taken, reopened, edited, edits>>
      BY <1>6 DEF Reset
    <2> HIDE DEF a
    <2>3. Moves(r, "reset", a) => Sent(r)'
      BY <1>0 DEF Moves, Sent
    <2> QED
      BY <1>0, <2>1, <2>2, <2>3, StartTyped DEF Steps
  <1>7. ASSUME NEW n \in Numbers, Edit(r, n) PROVE Typed'
    <2> DEFINE a == [NoArg EXCEPT !.op = "edit", !.copy = [stu EXCEPT !.done = n]]
    <2>1. a \in Locals /\ a.copy.done \in 0..Total
      <3>1. n \in 0..Total /\ n \in Nat
        BY AttendanceAssumption
      <3>2. [stu EXCEPT !.done = n] \in Progress /\ [stu EXCEPT !.done = n].done = n
        BY <1>0, <3>1 DEF Progress
      <3> QED
        BY <3>1, <3>2, NoneTyped DEF NoArg, Locals, Kinds
    <2>2. /\ Begin(r, a, "edit")
          /\ UNCHANGED <<sched, stu, behind, credit, ever, taken, reopened, edited>>
          /\ edits < MaxEdits /\ edits' = edits + 1
      BY <1>7 DEF Edit
    <2> HIDE DEF a
    <2>3. Moves(r, "edit", a) => Sent(r)'
      BY <1>0, <2>1 DEF Moves, Sent
    <2>4. edits' \in 0..MaxEdits
      BY <1>0, <2>2, TotalIsNat
    <2> QED
      BY <2>1, <2>2, <2>3, <2>4, StartTyped DEF Steps
  <1> QED
    BY <1>1, <1>2, <1>3, <1>4, <1>5, <1>6, <1>7

(* The requests that end.                                                  *)
LEMMA EndTyped ==
  ASSUME Typed, NEW r \in Requests, End(r), SchedFits,
         UNCHANGED <<stu, credit, taken, overlap, edited, edits>>, ever' \in Nat, reopened' \subseteq Sessions
  PROVE  Typed'
  <1>1. Moves(r, "idle", NoArg) /\ behind' \subseteq Requests
    BY Ending
  <1>2. pc'[r] = "idle" /\ NoArg \in Locals /\ "idle" \in Places
    BY <1>1, Moving, NoneTyped DEF Places
  <1>3. RestFits'
    BY <1>1, Parts DEF Typed, RestFits
  <1> QED
    BY <1>1, <1>2, <1>3, StepTyped, IdleSent

LEMMA EndsTyped ==
  ASSUME Typed, NEW r \in Requests,
         \/ Insert(r) \/ PutSave(r) \/ CancelSave(r) \/ AskClaim(r) \/ SaveFails(r)
         \/ \E day \in Days : ResetRemove(r, day)
  PROVE  Typed'
  <1>0. /\ arg \in [Requests -> Locals] /\ sched \in [Sessions -> Session] /\ Sent(r)
        /\ ever \in Nat /\ reopened \subseteq Sessions
    BY Parts DEF Typed, RestFits, AllSent
  <1>1. CASE Insert(r)
    <2>1. SchedFits
      <3>1. ASSUME NEW s \in With("none"),
                   sched' = [sched EXCEPT ![s] = [status |-> arg[r].to, confirm |-> "none", slot |-> arg[r].slot]]
            PROVE  SchedFits
        <4>1. arg[r].to \in Statuses /\ arg[r].to # "none" /\ arg[r].slot \in Slots
          BY <1>0, <1>1, NewAreStatuses DEF Insert, Sent, Statuses, Occupying
        <4>2. [status |-> arg[r].to, confirm |-> "none", slot |-> arg[r].slot] \in Session
          BY <4>1 DEF Session
        <4> QED
          BY <3>1, <4>1, <4>2, SchedOne DEF With
      <3> QED
        BY <1>1, <3>1, SchedStays DEF Insert
    <2> QED
      BY <1>0, <1>1, <2>1, EndTyped DEF Insert
  <1>2. CASE PutSave(r)
    <2> DEFINE s == arg[r].s
               to == IF arg[r].to = "none" THEN sched[s].status ELSE arg[r].to
               slot == IF arg[r].slot = NoSlot THEN sched[s].slot ELSE arg[r].slot
    <2>1. /\ s \in Sessions /\ sched[s].status # "none" /\ sched[s] \in Session
          /\ arg[r].to \in {"none", "scheduled", "cancelled", "no_show"}
          /\ arg[r].slot \in Slots \cup {NoSlot}
      BY <1>0, <1>2 DEF PutSave, Sent, Known
    <2>2. ASSUME sched[s].status # "deleted", sched' = [sched EXCEPT ![s].status = to, ![s].slot = slot]
          PROVE  SchedFits
      <3>1. sched[s].status \in Statuses /\ sched[s].slot \in Slots
        BY <2>1, <2>2 DEF Session, Typed, Placed
      <3>2. to \in Statuses /\ slot \in Slots
        BY <2>1, <3>1 DEF Statuses, Occupying
      <3> HIDE DEF to, slot
      <3>3. [sched[s] EXCEPT !.status = to, !.slot = slot] \in Session
        BY <2>1, <3>2 DEF Session
      <3>4. sched' = [sched EXCEPT ![s] = [sched[s] EXCEPT !.status = to, !.slot = slot]]
        BY <1>0, <2>1, <2>2 DEF Session
      <3>5. [sched[s] EXCEPT !.status = to, !.slot = slot].slot = slot
            /\ [sched[s] EXCEPT !.status = to, !.slot = slot].status = to
        BY <2>1 DEF Session
      <3>6. to # "none"
        BY <3>2 DEF Statuses, Occupying
      <3> QED
        BY <2>1, <3>2, <3>3, <3>4, <3>5, <3>6, SchedOne
    <2>3. SchedFits /\ reopened' \subseteq Sessions
      <3>1. \/ UNCHANGED <<sched, reopened>>
            \/ /\ sched[s].status # "deleted"
               /\ sched' = [sched EXCEPT ![s].status = to, ![s].slot = slot]
               /\ reopened' = reopened \/ reopened' = reopened \cup {s}
        BY <1>2 DEF PutSave
      <3> QED
        BY <1>0, <2>1, <2>2, <3>1, SchedStays
    <2> QED
      BY <1>0, <1>2, <2>3, EndTyped DEF PutSave
  <1>3. CASE CancelSave(r)
    <2> DEFINE s == arg[r].s
               d == [sched[s] EXCEPT !.status = "cancelled"]
    <2>1. s \in Sessions /\ sched[s].status # "none" /\ sched[s] \in Session
      BY <1>0, <1>3 DEF CancelSave, Sent, Known
    <2>2. UNCHANGED sched \/ (sched[s].status # "deleted" /\ sched' = [sched EXCEPT ![s] = d])
      BY <1>0, <1>3, <2>1 DEF CancelSave, Session
    <2>3. sched[s].status # "deleted" => d \in Session /\ d.status = "cancelled" /\ d.slot \in Slots
      BY <2>1 DEF Session, Typed, Placed, Statuses
    <2>4. SchedFits
      BY <2>1, <2>2, <2>3, SchedStays, SchedOne
    <2> QED
      BY <1>0, <1>3, <2>4, EndTyped DEF CancelSave, ghosts
  <1>4. CASE AskClaim(r)
    <2> DEFINE s == arg[r].s
               d == [sched[s] EXCEPT !.confirm = "pending"]
    <2>1. s \in Sessions /\ sched[s] \in Session
      BY <1>0, <1>4 DEF AskClaim, Sent, Known
    <2>2. UNCHANGED sched \/ (sched[s].status = "scheduled" /\ sched' = [sched EXCEPT ![s] = d])
      BY <1>0, <1>4, <2>1 DEF AskClaim, Session
    <2>3. sched[s].status = "scheduled" => d \in Session /\ d.status = "scheduled" /\ d.slot \in Slots
      BY <2>1 DEF Session, Typed, Placed, Statuses, Occupying, Answers
    <2>4. SchedFits
      BY <2>1, <2>2, <2>3, SchedStays, SchedOne
    <2> QED
      BY <1>0, <1>4, <2>4, EndTyped DEF AskClaim, ghosts
  <1>5. CASE SaveFails(r)
    BY <1>0, <1>5, SchedStays, EndTyped DEF SaveFails, ghosts
  <1>6. ASSUME NEW day \in Days, ResetRemove(r, day) PROVE Typed'
    <2>1. sched' = [s \in Sessions |-> IF s \in With("completed") \cap On(day) THEN Deleted ELSE sched[s]]
      BY <1>6 DEF ResetRemove
    <2>2. Deleted \in Session /\ Deleted.status = "deleted"
      BY NoneTyped DEF Deleted, NoSession
    <2>3. SchedFits
      BY <1>0, <2>1, <2>2 DEF SchedFits, Typed, Placed, Statuses, Occupying
    <2> QED
      BY <1>0, <1>6, <2>3, EndTyped DEF ResetRemove, ghosts
  <1> QED
    BY <1>1, <1>2, <1>3, <1>4, <1>5, <1>6

(* The requests that go on.                                                *)
LEMMA StepsTyped ==
  ASSUME Typed, NEW r \in Requests,
         \/ Claim(r) \/ Sync(r) \/ SyncSave(r) \/ LogSave(r)
         \/ EditSave(r) \/ ResetWrite(r)
  PROVE  Typed'
  <1>0. /\ arg \in [Requests -> Locals] /\ pc \in [Requests -> Places] /\ sched \in [Sessions -> Session]
        /\ Sent(r) /\ RestFits /\ stu \in Progress
    BY Parts DEF Typed, RestFits, AllSent
  <1>1. CASE Claim(r) /\ Claimable(arg[r].s)
    <2> DEFINE s == arg[r].s
               d == [sched[s] EXCEPT !.status = "completed", !.confirm = "accepted"]
               day == <<sched[s].slot[1], "none">>
               a == [NoArg EXCEPT !.op = "take", !.slot = day]
    <2>1. s \in Sessions /\ sched[s] \in Session
      BY <1>0, <1>1 DEF Claim, Sent, Known
    <2>2. sched[s].status = "scheduled" /\ sched[s].slot \in Slots /\ day \in Days \X {"none"}
      <3>1. sched[s].status = "scheduled" /\ sched[s].slot \in Slots
        BY <1>1, <2>1 DEF Claimable, Typed, Placed, Statuses, Occupying
      <3> QED
        BY <3>1 DEF Slots
    <2>3. sched' = [sched EXCEPT ![s] = d]
      BY <1>0, <1>1, <2>1 DEF Claim, Session
    <2>4. d \in Session /\ d.status = "completed" /\ d.slot = sched[s].slot
      BY <2>1 DEF Session, Statuses, Occupying, Answers
    <2>5. SchedFits
      BY <2>1, <2>2, <2>3, <2>4, SchedOne
    <2>7. Moves(r, "sync", a)
      BY <1>1 DEF Claim, Moves, Goto
    <2> HIDE DEF day
    <2>6. a \in Locals /\ a.slot = day
      BY <2>2, NoneTyped DEF NoArg, Locals, Kinds
    <2> HIDE DEF a, d
    <2>8. Sent(r)'
      BY <1>0, <2>2, <2>6, <2>7 DEF Moves, Sent
    <2>9. RestFits'
      BY <1>0, <1>1 DEF Claim, RestFits
    <2> QED
      BY <2>5, <2>6, <2>7, <2>8, <2>9, StepTyped DEF Places, Steps
  <1>2. CASE Claim(r) /\ ~Claimable(arg[r].s)
    BY <1>0, <1>2, SchedStays, EndTyped DEF Claim, RestFits
  <1>3. CASE Sync(r)
    <2> DEFINE n == Recount(stu.done, Cardinality(With("completed")))
               c == [done |-> n, closed |-> stu.closed \/ n >= Total, grades |-> stu.grades]
               a == [arg[r] EXCEPT !.copy = c]
    <2>1. n \in Nat
      <3>1. Cardinality(With("completed")) \in Nat
        BY Counted DEF With
      <3> QED
        BY <1>0, <3>1, RecountIsNat DEF Progress
    <2> HIDE DEF n
    <2>2. (stu.closed \/ n >= Total) \in BOOLEAN
      OBVIOUS
    <2>3. c \in Progress
      BY <1>0, <2>1, <2>2 DEF Progress
    <2>4. Moves(r, "save", a)
      BY <1>0, <1>3 DEF Sync, Moves, Goto, n, Locals
    <2> HIDE DEF c
    <2>5. a \in Locals /\ a.slot = arg[r].slot
      BY <1>0, <2>3 DEF Locals
    <2> HIDE DEF a
    <2>6. Sent(r)'
      BY <1>0, <1>3, <2>4, <2>5 DEF Sync, Moves, Sent
    <2>7. RestFits'
      BY <1>0, <1>3 DEF Sync, RestFits, ghosts
    <2> QED
      BY <1>3, <2>4, <2>5, <2>6, <2>7, StepTyped, SchedStays DEF Sync, Places, Steps
  <1>4. CASE SyncSave(r)
    <2>1. arg[r] \in Locals /\ arg[r].copy \in Progress
      BY <1>0 DEF Locals
    <2>2. Moves(r, "log", arg[r])
      BY <1>0, <1>4 DEF SyncSave, Moves, Goto
    <2>3. Sent(r)'
      BY <1>0, <1>4, <2>2 DEF SyncSave, SaveStudent, Moves, Sent
    <2>4. RestFits'
      BY <1>0, <1>4, <2>1 DEF SyncSave, SaveStudent, RestFits, ghosts, Holders
    <2> QED
      BY <1>4, <2>1, <2>2, <2>3, <2>4, StepTyped, SchedStays DEF SyncSave, Places, Steps
  <1>5. CASE LogSave(r)
    <2>1. arg[r].slot \in Days \X {"none"} /\ arg[r].copy \in Progress
      BY <1>0, <1>5 DEF LogSave, SaveStudent, Sent, Locals
    <2>2. Logged(arg[r].slot) \in Days
      BY <2>1 DEF Logged
    <2>3. [arg[r].copy EXCEPT !.grades = @ \cup {Logged(arg[r].slot)}] \in Progress
      BY <2>1, <2>2 DEF Progress
    <2>4. Moves(r, "idle", NoArg)
      BY <1>5 DEF LogSave, Moves
    <2>5. RestFits'
      BY <1>0, <1>5, <2>3 DEF LogSave, SaveStudent, RestFits, Holders
    <2>6. pc'[r] = "idle"
      BY <1>0, <2>4 DEF Moves
    <2> QED
      BY <1>5, <2>4, <2>5, <2>6, StepTyped, SchedStays, IdleSent, NoneTyped DEF LogSave, Places
  <1>6. CASE ResetWrite(r)
    <2>1. arg[r] \in Locals /\ arg[r].copy \in Progress
      BY <1>0 DEF Locals
    <2> DEFINE left == arg[r].copy.grades \ {arg[r].slot[1]}
    <2>2. left \subseteq Days /\ Cardinality(left) \in Nat
      BY <2>1, Counted DEF Progress
    <2>3. stu' = [arg[r].copy EXCEPT !.grades = left, !.done = Cardinality(left)]
      BY <1>6 DEF ResetWrite
    <2> HIDE DEF left
    <2>4. stu' \in Progress
      BY <2>1, <2>2, <2>3 DEF Progress
    <2> DEFINE a == [NoArg EXCEPT !.op = "reset"]
    <2>5. Moves(r, "remove", a) /\ a \in Locals
      BY <1>0, <1>6, NoneTyped DEF ResetWrite, Moves, Goto, Locals, Kinds, NoArg
    <2> HIDE DEF a
    <2>6. RestFits'
      BY <1>0, <1>6, <2>4, TotalIsNat DEF ResetWrite, RestFits
    <2>7. pc'[r] = "remove"
      BY <1>0, <2>5 DEF Moves
    <2> QED
      BY <1>6, <2>5, <2>6, <2>7, StepTyped, SchedStays, IdleSent DEF ResetWrite, Places, Steps
  <1>7. CASE EditSave(r)
    <2>1. arg[r].copy \in Progress /\ arg[r].copy.done \in 0..Total /\ pc[r] = "edit"
      BY <1>0, <1>7 DEF EditSave, SaveStudent, Sent, Locals
    <2>2. [stu EXCEPT !.done = arg[r].copy.done] \in Progress
      BY <1>0, <2>1 DEF Progress
    <2>3. Moves(r, "idle", NoArg)
      BY <1>7 DEF EditSave, Moves
    <2>4. stu' \in Progress /\ behind' \subseteq Requests
      BY <1>0, <1>7, <2>1, <2>2 DEF EditSave, SaveStudent, RestFits, Holders
    <2>5. credit' \in 0..Total
      BY <1>7, <2>1, TotalIsNat DEF EditSave
    <2>6. RestFits'
      BY <1>0, <1>7, <2>4, <2>5 DEF EditSave, RestFits
    <2>7. pc'[r] = "idle"
      BY <1>0, <2>3 DEF Moves
    <2> QED
      BY <1>7, <2>3, <2>6, <2>7, StepTyped, SchedStays, IdleSent, NoneTyped DEF EditSave, Places
  <1> QED
    BY <1>1, <1>2, <1>3, <1>4, <1>5, <1>6, <1>7

(* The steps of nobody's request.                                          *)
LEMMA OthersTyped ==
  ASSUME Typed,
         \/ \E s \in Sessions : Delete(s) \/ Dispute(s) \/ Reject(s)
         \/ OtherSave \/ ResetHistory \/ Crash \/ UNCHANGED avars
  PROVE  Typed'
  <1>0. sched \in [Sessions -> Session] /\ RestFits
    BY Parts DEF Typed
  <1>1. ASSUME NEW s \in Sessions, Delete(s) \/ Dispute(s) \/ Reject(s) PROVE Typed'
    <2>1. PICK d \in {Deleted, [sched[s] EXCEPT !.confirm = "disputed"],
                      [sched[s] EXCEPT !.status = "cancelled", !.confirm = "admin_rejected"]} :
            /\ sched' = [sched EXCEPT ![s] = d]
            /\ d = Deleted \/ sched[s].status = "scheduled"
      BY <1>0, <1>1 DEF Delete, Dispute, Reject, Session
    <2>2. sched[s] \in Session /\ (sched[s].status = "scheduled" => sched[s].slot \in Slots)
      BY <1>0 DEF Typed, Placed, Statuses, Occupying
    <2>3. d \in Session /\ d.status # "none" /\ (d.status \in Statuses => d.slot \in Slots)
      <3>1. CASE d = Deleted
        BY <3>1, NoneTyped DEF Deleted, NoSession, Statuses, Occupying
      <3>2. CASE d # Deleted
        BY <2>1, <2>2, <3>2 DEF Session, Answers, Statuses
      <3> QED
        BY <3>1, <3>2
    <2>4. SchedFits
      BY <2>1, <2>3, SchedOne
    <2>5. RestFits' /\ UNCHANGED <<pc, arg>>
      BY <1>0, <1>1 DEF Delete, Dispute, Reject, ghosts, RestFits
    <2> QED
      BY <2>4, <2>5, QuietTyped
  <1>2. CASE OtherSave \/ UNCHANGED avars
    <2>1. UNCHANGED <<sched, pc, arg>> /\ RestFits'
      BY <1>0, <1>2 DEF OtherSave, avars, ghosts, RestFits, Holders
    <2> QED
      BY <2>1, SchedStays, QuietTyped
  <1>3. CASE ResetHistory
    <2>1. UNCHANGED <<pc, arg>> /\ RestFits'
          /\ sched' = [s \in Sessions |-> IF sched[s].status = "none" THEN sched[s] ELSE Deleted]
      BY <1>0, <1>3 DEF ResetHistory, ghosts, RestFits
    <2>2. Deleted \in Session /\ Deleted.status = "deleted"
      BY NoneTyped DEF Deleted, NoSession
    <2>3. SchedFits
      BY <1>0, <2>1, <2>2 DEF SchedFits, Placed, Statuses, Occupying
    <2> QED
      BY <2>1, <2>3, QuietTyped
  <1>4. CASE Crash
    <2>1. /\ pc' = [r \in Requests |-> "idle"] /\ arg' = [r \in Requests |-> NoArg]
          /\ UNCHANGED sched /\ RestFits'
      BY <1>0, <1>4 DEF Crash, ghosts, RestFits
    <2>2. AllSent'
      BY <2>1 DEF AllSent, Sent
    <2>3. AttendanceTypeOK' /\ Placed'
      BY <1>0, <2>1, NoneTyped DEF AttendanceTypeOK, RestFits, Locals, Typed, Placed
    <2> QED
      BY <2>2, <2>3 DEF Typed
  <1> QED
    BY <1>1, <1>2, <1>3, <1>4

LEMMA TypedStep ==
  ASSUME Typed, [AttendanceNext]_avars
  PROVE  Typed'
  BY StartsTyped, EndsTyped, StepsTyped, OthersTyped DEF AttendanceNext

-----------------------------------------------------------------------------
(* A rejected session rests, unless its status was set by hand.            *)
Rests(s) == sched[s].confirm = "admin_rejected" => sched[s].status \in {"cancelled", "deleted"}

RejectedRest == \A s \in Sessions \ reopened : Rests(s)

(* What a step may do to a session that is at rest.                        *)
KeepsAtRest(s) ==
  \/ sched'[s].status = sched[s].status /\ sched'[s].confirm = sched[s].confirm
  \/ sched'[s].status \in {"cancelled", "deleted"}
  \/ sched[s].confirm # "admin_rejected" /\ sched'[s].confirm # "admin_rejected"

LEMMA KeptAtRest ==
  ASSUME Typed, [AttendanceNext]_avars, NEW s \in Sessions, s \notin reopened', Rests(s)
  PROVE  KeepsAtRest(s)
  <1>0. /\ sched \in [Sessions -> Session] /\ arg \in [Requests -> Locals]
        /\ \A r \in Requests : Sent(r)
    BY Parts DEF Typed, AllSent
  <1>1. UNCHANGED sched => KeepsAtRest(s)
    BY DEF KeepsAtRest
  <1>2. ASSUME NEW r \in Requests, Insert(r) PROVE KeepsAtRest(s)
    <2>1. \/ UNCHANGED sched
          \/ \E u \in With("none") :
               sched' = [sched EXCEPT ![u] = [status |-> arg[r].to, confirm |-> "none", slot |-> arg[r].slot]]
      BY <1>2 DEF Insert
    <2> QED
      BY <1>0, <1>1, <2>1 DEF With, KeepsAtRest, Rests
  <1>3. ASSUME NEW r \in Requests, PutSave(r) PROVE KeepsAtRest(s)
    <2> DEFINE u == arg[r].s
               to == IF arg[r].to = "none" THEN sched[u].status ELSE arg[r].to
               slot == IF arg[r].slot = NoSlot THEN sched[u].slot ELSE arg[r].slot
    <2>1. u \in Sessions /\ arg[r].to \in {"none", "scheduled", "cancelled", "no_show"}
      BY <1>0, <1>3 DEF PutSave, Sent, Known
    <2>2. CASE UNCHANGED sched
      BY <1>1, <2>2
    <2>3. CASE ~UNCHANGED sched
      <3>1. /\ sched' = [sched EXCEPT ![u].status = to, ![u].slot = slot]
            /\ reopened' = IF to \in {"scheduled", "no_show"} /\ to # sched[u].status
                           THEN reopened \cup {u} ELSE reopened
        BY <1>3, <2>3 DEF PutSave
      <3>2. s # u => sched'[s] = sched[s]
        BY <1>0, <2>1, <3>1
      <3>3. sched'[u].status = to /\ sched'[u].confirm = sched[u].confirm
        <4> HIDE DEF to, slot
        <4> QED
          BY <1>0, <2>1, <3>1 DEF Session
      <3>4. s = u => to = sched[u].status \/ to = "cancelled"
        BY <2>1, <3>1
      <3> QED
        BY <3>2, <3>3, <3>4 DEF KeepsAtRest
    <2> QED
      BY <2>2, <2>3
  <1>4. ASSUME NEW r \in Requests, CancelSave(r) \/ AskClaim(r) PROVE KeepsAtRest(s)
    <2>1. arg[r].s \in Sessions
      BY <1>0, <1>4 DEF CancelSave, AskClaim, Sent, Known
    <2>2. CASE CancelSave(r)
      BY <1>0, <2>1, <2>2 DEF CancelSave, KeepsAtRest, Session
    <2>3. CASE AskClaim(r)
      BY <1>0, <2>1, <2>3 DEF AskClaim, KeepsAtRest, Session
    <2> QED
      BY <1>4, <2>2, <2>3
  <1>5. ASSUME NEW r \in Requests, Claim(r) PROVE KeepsAtRest(s)
    <2>1. arg[r].s \in Sessions
      BY <1>0, <1>5 DEF Claim, Sent, Known
    <2>2. UNCHANGED sched
          \/ /\ sched[arg[r].s].status = "scheduled"
             /\ sched' = [sched EXCEPT ![arg[r].s].status = "completed", ![arg[r].s].confirm = "accepted"]
      BY <1>5 DEF Claim, Claimable
    <2> QED
      BY <1>0, <1>1, <2>1, <2>2 DEF KeepsAtRest, Rests, Session
  <1>6. ASSUME \/ \E r \in Requests, day \in Days : ResetRemove(r, day)
               \/ ResetHistory
               \/ \E u \in Sessions : Delete(u) \/ Dispute(u) \/ Reject(u)
        PROVE  KeepsAtRest(s)
    <2>1. Deleted.status = "deleted"
      BY DEF Deleted, NoSession
    <2>2. CASE (\E r \in Requests, day \in Days : ResetRemove(r, day)) \/ ResetHistory
      BY <2>1, <2>2 DEF ResetRemove, ResetHistory, KeepsAtRest
    <2>3. ASSUME NEW u \in Sessions, Delete(u) PROVE KeepsAtRest(s)
      BY <1>0, <2>1, <2>3 DEF Delete, KeepsAtRest
    <2>4. ASSUME NEW u \in Sessions, Dispute(u) \/ Reject(u) PROVE KeepsAtRest(s)
      BY <1>0, <2>4 DEF Dispute, Reject, KeepsAtRest, Session
    <2> QED
      BY <1>6, <2>2, <2>3, <2>4
  <1>7. ASSUME \/ \E r \in Requests :
                    \/ \E slot \in Slots, to \in NewStatuses : Create(r, slot, to)
                    \/ \E n \in Numbers : Edit(r, n)
                    \/ \E u \in Sessions :
                         \/ \E slot \in Slots \cup {NoSlot}, to \in {"none", "scheduled", "cancelled", "no_show"} :
                              Put(r, u, slot, to)
                         \/ Cancel(r, u) \/ Ask(r, u)
                         \/ \E op \in Takes : Take(r, u, op)
                    \/ \E day \in Days : Reset(r, day)
                    \/ Sync(r) \/ SyncSave(r) \/ LogSave(r) \/ SaveFails(r)
                    \/ EditSave(r) \/ ResetWrite(r)
               \/ OtherSave \/ Crash \/ UNCHANGED avars
        PROVE  UNCHANGED sched
    BY <1>7 DEF Create, Edit, Put, Cancel, Ask, Take, Reset, Sync, SyncSave, LogSave, SaveFails,
                EditSave, ResetWrite,
                OtherSave, Crash, avars
  <1> QED
    BY <1>1, <1>2, <1>3, <1>4, <1>5, <1>6, <1>7 DEF AttendanceNext

(* What was set by hand is not forgotten.                                  *)
LEMMA ReopenedGrows ==
  ASSUME [AttendanceNext]_avars
  PROVE  reopened \subseteq reopened'
  <1>1. ASSUME NEW r \in Requests, PutSave(r) PROVE reopened \subseteq reopened'
    BY <1>1 DEF PutSave
  <1>2. ASSUME \/ \E r \in Requests :
                    \/ \E slot \in Slots, to \in NewStatuses : Create(r, slot, to)
                    \/ \E n \in Numbers : Edit(r, n)
                    \/ \E u \in Sessions :
                         \/ \E slot \in Slots \cup {NoSlot}, to \in {"none", "scheduled", "cancelled", "no_show"} :
                              Put(r, u, slot, to)
                         \/ Cancel(r, u) \/ Ask(r, u)
                         \/ \E op \in Takes : Take(r, u, op)
                    \/ \E day \in Days : Reset(r, day) \/ ResetRemove(r, day)
                    \/ Insert(r) \/ CancelSave(r) \/ AskClaim(r) \/ Claim(r)
        PROVE  UNCHANGED reopened
    BY <1>2 DEF Create, Edit, Put, Cancel, Ask, Take, Reset, ResetRemove, Insert, CancelSave, AskClaim, Claim, ghosts
  <1>3. ASSUME \/ \E r \in Requests : Sync(r) \/ SyncSave(r) \/ LogSave(r) \/ SaveFails(r) \/ EditSave(r)
               \/ \E r \in Requests : ResetWrite(r)
               \/ \E u \in Sessions : Delete(u) \/ Dispute(u) \/ Reject(u)
               \/ OtherSave \/ ResetHistory \/ Crash \/ UNCHANGED avars
        PROVE  UNCHANGED reopened
    BY <1>3 DEF Sync, SyncSave, LogSave, SaveFails, EditSave, ResetWrite, Delete, Dispute, Reject,
                OtherSave, ResetHistory, Crash, ghosts, avars
  <1> QED
    BY <1>1, <1>2, <1>3 DEF AttendanceNext

LEMMA RejectedStep ==
  ASSUME Typed, RejectedRest, [AttendanceNext]_avars
  PROVE  /\ RejectedRest'
         /\ \A s \in Sessions \ reopened' :
              sched[s].confirm = "admin_rejected" => sched'[s].status \in {"cancelled", "deleted"}
  <1>1. \A s \in Sessions \ reopened' : Rests(s) /\ KeepsAtRest(s)
    BY ReopenedGrows, KeptAtRest DEF RejectedRest
  <1> QED
    BY <1>1 DEF RejectedRest, Rests, KeepsAtRest

-----------------------------------------------------------------------------
(* A request about to save a current copy of the student saves one that    *)
(* counts the session it has taken.                                        *)
Savers == {q \in Requests : pc[q] \in {"save", "log"}}

SavesCount == \A r \in Savers \ behind : arg[r].copy.done >= Smaller(Total, credit + taken + 1)

CountInv == TakenIsCounted /\ SavesCount

(* A step that moves neither the progress nor a copy about to be saved.    *)
LEMMA CountStays ==
  ASSUME CountInv, UNCHANGED <<stu, credit, taken>>,
         \A q \in Savers' \ behind' : q \in Savers \ behind /\ arg'[q].copy = arg[q].copy
  PROVE  CountInv'
  BY DEF CountInv, TakenIsCounted, SavesCount

LEMMA CountStep ==
  ASSUME Typed, CountInv, [AttendanceNext]_avars
  PROVE  CountInv'
  <1>0. /\ arg \in [Requests -> Locals] /\ pc \in [Requests -> Places] /\ RestFits
        /\ stu.done \in Nat /\ credit \in Nat /\ taken \in Nat
        /\ \A r \in Requests : arg[r].copy \in Progress /\ arg[r].copy.done \in Nat
    BY Parts, TotalIsNat DEF Typed, RestFits, Locals, Progress
  <1>1. ASSUME NEW r \in Requests, NEW a, NEW p, Moves(r, p, a), p \notin {"save", "log"},
               UNCHANGED <<stu, credit, taken>>, behind \ {r} \subseteq behind'
        PROVE  CountInv'
    <2>1. \A q \in Savers' : q \in Savers /\ q # r /\ arg'[q] = arg[q]
      BY <1>0, <1>1 DEF Moves, Savers
    <2> QED
      BY <1>1, <2>1, CountStays
  <1>2. ASSUME NEW r \in Requests, End(r), UNCHANGED <<stu, credit, taken>> PROVE CountInv'
    <2>1. Moves(r, "idle", NoArg) /\ behind' = behind \ {r}
      BY <1>2 DEF End, Goto, Moves
    <2> QED
      BY <1>1, <1>2, <2>1
  <1>3. ASSUME NEW r \in Requests, NEW a, NEW p, Begin(r, a, p), p \notin {"save", "log"},
               UNCHANGED <<stu, credit, taken, behind>>
        PROVE  CountInv'
    BY <1>1, <1>3 DEF Begin, Moves
  <1>4. ASSUME NEW r \in Requests,
               \/ \E slot \in Slots, to \in NewStatuses : Create(r, slot, to)
               \/ \E n \in Numbers : Edit(r, n)
               \/ \E s \in Sessions :
                    \/ \E slot \in Slots \cup {NoSlot}, to \in {"none", "scheduled", "cancelled", "no_show"} :
                         Put(r, s, slot, to)
                    \/ Cancel(r, s) \/ Ask(r, s)
                    \/ \E op \in Takes : Take(r, s, op)
               \/ \E day \in Days : Reset(r, day)
        PROVE  CountInv'
    <2>1. UNCHANGED <<stu, credit, taken, behind>>
      BY <1>4 DEF Create, Edit, Put, Cancel, Ask, Take, Reset
    <2>2. \E p \in Steps \ {"save", "log"} : \E a : Begin(r, a, p)
      <3>1. ASSUME NEW s \in Sessions, NEW op \in Takes, Take(r, s, op) PROVE \E a : Begin(r, a, "claim")
        BY <3>1 DEF Take
      <3>2. ASSUME NEW slot \in Slots, NEW to \in NewStatuses, Create(r, slot, to)
            PROVE  \E a : Begin(r, a, "insert")
        BY <3>2 DEF Create
      <3>3. ASSUME NEW s \in Sessions, NEW slot \in Slots \cup {NoSlot},
                   NEW to \in {"none", "scheduled", "cancelled", "no_show"}, Put(r, s, slot, to)
            PROVE  \E a : Begin(r, a, "put")
        BY <3>3 DEF Put
      <3>4. ASSUME NEW s \in Sessions, Cancel(r, s) PROVE \E a : Begin(r, a, "cancel")
        BY <3>4 DEF Cancel
      <3>5. ASSUME NEW s \in Sessions, Ask(r, s) PROVE \E a : Begin(r, a, "ask")
        BY <3>5 DEF Ask
      <3>6. ASSUME NEW day \in Days, Reset(r, day) PROVE \E a : Begin(r, a, "reset")
        BY <3>6 DEF Reset
      <3>7. ASSUME NEW n \in Numbers, Edit(r, n) PROVE \E a : Begin(r, a, "edit")
        BY <3>7 DEF Edit
      <3>8. \E p \in {"claim", "insert", "put", "cancel", "ask", "reset", "edit"} : \E a : Begin(r, a, p)
        BY <1>4, <3>1, <3>2, <3>3, <3>4, <3>5, <3>6, <3>7
      <3> QED
        BY <3>8 DEF Steps
    <2> QED
      BY <1>3, <2>1, <2>2
  <1>5. ASSUME NEW r \in Requests,
               \/ Insert(r) \/ PutSave(r) \/ CancelSave(r) \/ AskClaim(r) \/ SaveFails(r)
               \/ \E day \in Days : ResetRemove(r, day)
        PROVE  CountInv'
    BY <1>2, <1>5 DEF Insert, PutSave, CancelSave, AskClaim, SaveFails, ResetRemove, ghosts
  <1>6. ASSUME NEW r \in Requests, Claim(r) PROVE CountInv'
    <2>1. CASE End(r)
      BY <1>2, <1>6, <2>1 DEF Claim
    <2>2. CASE ~End(r)
      BY <1>1, <1>6, <2>2 DEF Claim, Goto, Moves
    <2> QED
      BY <2>1, <2>2
  <1>7. ASSUME NEW r \in Requests, Sync(r) PROVE CountInv'
    <2> DEFINE n == Recount(stu.done, Cardinality(With("completed")))
    <2>1. n >= Smaller(Total, stu.done + 1) /\ n \in Nat
      <3>1. Cardinality(With("completed")) \in Nat
        BY Counted DEF With
      <3> QED
        BY <1>0, <3>1, RecountIsNat
    <2>2. n >= Smaller(Total, credit + taken + 1)
      BY <1>0, <2>1, TotalIsNat DEF CountInv, TakenIsCounted, Smaller
    <2>3. arg'[r].copy.done = n /\ \A q \in Requests \ {r} : arg'[q] = arg[q] /\ pc'[q] = pc[q]
      BY <1>0, <1>7 DEF Sync, Goto, Locals
    <2>4. UNCHANGED <<stu, credit, taken>> /\ behind' = behind \ {r}
      BY <1>7 DEF Sync, ghosts
    <2> HIDE DEF n
    <2> QED
      BY <2>2, <2>3, <2>4 DEF CountInv, TakenIsCounted, SavesCount, Savers
  <1>8. ASSUME NEW r \in Requests, SyncSave(r) PROVE CountInv'
    <2>1. r \in Savers \ behind /\ stu' = arg[r].copy /\ UNCHANGED <<arg, credit, taken>>
      BY <1>8 DEF SyncSave, SaveStudent, Savers, Current, ghosts
    <2>2. \A q \in Requests \ {r} : pc'[q] = pc[q]
      BY <1>0, <1>8 DEF SyncSave, Goto
    <2>3. Savers' \ behind' \subseteq {r}
      BY <1>8, <2>2 DEF SyncSave, Savers, Holders
    <2>4. arg[r].copy.done >= Smaller(Total, credit + taken + 1)
      BY <2>1 DEF CountInv, SavesCount
    <2>5. stu'.done >= Smaller(Total, credit + taken)
      BY <1>0, <2>1, <2>4, TotalIsNat DEF Smaller
    <2> QED
      BY <2>1, <2>3, <2>4, <2>5 DEF CountInv, TakenIsCounted, SavesCount
  <1>9. ASSUME NEW r \in Requests, LogSave(r) PROVE CountInv'
    <2>1. /\ r \in Savers \ behind /\ taken' = taken + 1 /\ UNCHANGED credit
          /\ stu' = [arg[r].copy EXCEPT !.grades = @ \cup {Logged(arg[r].slot)}]
      BY <1>9 DEF LogSave, SaveStudent, Savers, Current
    <2>2. Savers' \ behind' = {}
      BY <1>0, <1>9 DEF LogSave, Savers, Holders
    <2>3. stu'.done = arg[r].copy.done
      BY <1>0, <2>1 DEF Progress
    <2>4. stu'.done >= Smaller(Total, credit' + taken')
      BY <1>0, <2>1, <2>3 DEF CountInv, SavesCount
    <2> QED
      BY <2>2, <2>4 DEF CountInv, TakenIsCounted, SavesCount
  <1>10. ASSUME NEW r \in Requests, ResetWrite(r) PROVE CountInv'
    <2> DEFINE left == arg[r].copy.grades \ {arg[r].slot[1]}
    <2>1. /\ credit' = 0 /\ taken' = 0 /\ UNCHANGED behind
          /\ stu' = [arg[r].copy EXCEPT !.grades = left, !.done = Cardinality(left)]
      BY <1>10 DEF ResetWrite
    <2>2. Cardinality(left) \in Nat
      BY <1>0, Counted DEF Progress
    <2> HIDE DEF left
    <2>3. stu'.done \in Nat
      BY <1>0, <2>1, <2>2 DEF Progress
    <2>4. \A q \in Savers' : q \in Savers /\ arg'[q] = arg[q]
      BY <1>0, <1>10 DEF ResetWrite, Goto, Savers
    <2>5. \A q \in Savers \ behind : arg[q].copy.done >= Smaller(Total, 1)
      BY <1>0, TotalIsNat DEF CountInv, SavesCount, Smaller, Savers
    <2> QED
      BY <2>1, <2>3, <2>4, <2>5, TotalIsNat DEF CountInv, TakenIsCounted, SavesCount, Smaller
  <1>11. ASSUME \/ \E s \in Sessions : Delete(s) \/ Dispute(s) \/ Reject(s)
                \/ OtherSave \/ ResetHistory \/ UNCHANGED avars
         PROVE  CountInv'
    <2>1. UNCHANGED <<stu, pc, arg, credit, taken>> /\ behind \subseteq behind'
      BY <1>11 DEF Delete, Dispute, Reject, OtherSave, ResetHistory, avars, ghosts
    <2> QED
      BY <2>1, CountStays DEF Savers
  <1>12. CASE Crash
    <2>1. UNCHANGED <<stu, credit, taken>> /\ Savers' = {}
      BY <1>12 DEF Crash, ghosts, Savers
    <2> QED
      BY <2>1, CountStays
  <1>13. ASSUME NEW r \in Requests, EditSave(r) PROVE CountInv'
    <2>1. arg[r].copy.done \in 0..Total /\ pc[r] = "edit" /\ r \in Holders \ behind
      BY <1>13 DEF EditSave, SaveStudent, Current, Holders, Typed, AllSent, Sent
    <2>2. taken' = 0 /\ stu'.done = arg[r].copy.done
      BY <1>0, <1>13 DEF EditSave, SaveStudent, RestFits, Progress
    <2>3. \A q \in Requests \ {r} : pc'[q] = pc[q] /\ arg'[q] = arg[q]
      BY <1>0, <1>13 DEF EditSave
    <2>4. \A q \in Savers' : q \in Savers /\ q # r /\ arg'[q] = arg[q]
      BY <1>0, <1>13, <2>3 DEF EditSave, Savers
    <2>5. CASE credit' = arg[r].copy.done /\ Savers \ behind' \subseteq {r}
      <3>1. TakenIsCounted'
        BY <2>1, <2>2, <2>5, TotalIsNat DEF TakenIsCounted, Smaller
      <3>2. SavesCount'
        BY <2>4, <2>5 DEF SavesCount
      <3> QED
        BY <3>1, <3>2 DEF CountInv
    <2>6. CASE credit' = 0 /\ behind' = behind \ {r}
      <3>1. TakenIsCounted'
        BY <2>1, <2>2, <2>6, TotalIsNat DEF TakenIsCounted, Smaller
      <3>2. \A q \in Savers \ behind : arg[q].copy.done >= Smaller(Total, 1)
        BY <1>0, TotalIsNat DEF CountInv, SavesCount, Smaller, Savers
      <3>3. SavesCount'
        BY <2>2, <2>4, <2>6, <3>2 DEF SavesCount
      <3> QED
        BY <3>1, <3>3 DEF CountInv
    <2>7. \/ credit' = arg[r].copy.done /\ Savers \ behind' \subseteq {r}
          \/ credit' = 0 /\ behind' = behind \ {r}
      <3>1. CASE credit' = arg[r].copy.done /\ behind' = (behind \cup Holders) \ {r}
        BY <3>1 DEF Savers, Holders
      <3>2. CASE /\ credit' = (IF Holders \ behind = {r} THEN arg[r].copy.done ELSE 0)
                 /\ behind' = behind \ {r}
        BY <3>2 DEF Savers, Holders
      <3> QED
        BY <1>13, <3>1, <3>2 DEF EditSave
    <2> QED
      BY <2>5, <2>6, <2>7
  <1> QED
    BY <1>4, <1>5, <1>6, <1>7, <1>8, <1>9, <1>10, <1>11, <1>12, <1>13 DEF AttendanceNext

-----------------------------------------------------------------------------
(* The whole invariant.                                                    *)
AttendanceInv == Typed /\ RejectedRest /\ CountInv

LEMMA AttendanceInitInv == AttendanceInit => AttendanceInv
  <1> SUFFICES ASSUME AttendanceInit
               PROVE  AttendanceInv
    OBVIOUS
  <1>1. credit \in 0..MaxCredit /\ credit \in Nat /\ credit < Total
    BY AttendanceAssumption DEF AttendanceInit
  <1>2. stu = [NoCopy EXCEPT !.done = credit]
    BY DEF AttendanceInit
  <1>3. stu \in Progress /\ stu.done = credit
    BY <1>1, <1>2 DEF NoCopy, Progress
  <1>4. AttendanceTypeOK
    <2>1. /\ sched \in [Sessions -> Session] /\ pc \in [Requests -> Places] /\ arg \in [Requests -> Locals]
      BY NoneTyped DEF AttendanceInit, Places
    <2>2. RestFits
      <3>1. ever = 0 /\ taken = 0 /\ edits = 0 /\ overlap = FALSE /\ edited = FALSE /\ reopened = {} /\ behind = {}
        BY DEF AttendanceInit
      <3>2. edits \in 0..MaxEdits /\ credit \in 0..Total
        BY <1>1, <3>1, TotalIsNat
      <3>3. overlap \in BOOLEAN /\ edited \in BOOLEAN
        BY <3>1
      <3> QED
        BY <1>3, <3>1, <3>2, <3>3 DEF RestFits
    <2> QED
      BY <2>1, <2>2, Parts
  <1>5. Placed /\ AllSent
    BY DEF AttendanceInit, Placed, AllSent, Sent, NoSession, Statuses, Occupying
  <1>6. RejectedRest
    BY DEF AttendanceInit, RejectedRest, Rests, NoSession
  <1>7. CountInv
    <2>1. taken = 0 /\ Savers = {}
      BY DEF AttendanceInit, Savers
    <2>2. stu.done >= Smaller(Total, credit + taken)
      BY <1>1, <1>3, <2>1, TotalIsNat DEF Smaller
    <2> QED
      BY <2>1, <2>2 DEF CountInv, TakenIsCounted, SavesCount
  <1> QED
    BY <1>4, <1>5, <1>6, <1>7 DEF AttendanceInv, Typed

LEMMA AttendanceStepInv == AttendanceInv /\ [AttendanceNext]_avars => AttendanceInv'
  BY TypedStep, RejectedStep, CountStep DEF AttendanceInv

LEMMA AttendanceInvariant == AttendanceSpec => []AttendanceInv
  BY AttendanceInitInv, AttendanceStepInv, PTL DEF AttendanceSpec

(* Every variable keeps its type; the days with a grade are days.          *)
THEOREM AttendanceTypeCorrect == AttendanceSpec => []AttendanceTypeOK
  <1>1. AttendanceInv => AttendanceTypeOK
    BY DEF AttendanceInv, Typed
  <1> QED
    BY <1>1, AttendanceInvariant, PTL

(* Of sessions taken at once none is lost: every answer that a session is  *)
(* taken has moved the progress, until the course is full or until a reset *)
(* or an edit of the progress by hand begins anew.  The version of the     *)
(* student is what protects it.                                            *)
THEOREM TakenAreCounted == AttendanceSpec => []TakenIsCounted
  <1>1. AttendanceInv => TakenIsCounted
    BY DEF AttendanceInv, CountInv
  <1> QED
    BY <1>1, AttendanceInvariant, PTL

(* A session an administrator has rejected is not completed, whatever      *)
(* answers were on their way, unless its status is set by hand.            *)
THEOREM RejectedStayRejected == AttendanceSpec => RejectedStays
  <1>1. AttendanceInv /\ [AttendanceNext]_avars =>
          [\A s \in Sessions \ reopened' :
             sched[s].confirm = "admin_rejected" => sched'[s].status \in {"cancelled", "deleted"}]_avars
    BY RejectedStep DEF AttendanceInv
  <1> QED
    BY <1>1, AttendanceInvariant, PTL DEF AttendanceSpec, RejectedStays

-----------------------------------------------------------------------------
(* One request at a time.  What the checks of a request have found still   *)
(* holds when it writes: while overlap is FALSE no other request has       *)
(* written in between, and what the rest of the system does to the         *)
(* sessions only takes some away.                                          *)
In(f, status) == {s \in Sessions : f[s].status = status}

\* The plan fits the course when n sessions are done.
Fitting(f, n) == Cardinality(In(f, "scheduled")) + Larger(Cardinality(In(f, "completed")), n) <= Total

OnDay(f, day) == {s \in Sessions : f[s].status \in Occupying /\ f[s].slot[1] = day}

OneADay(f) == \A s, t \in Sessions : f[s].status \in Occupying /\ t \in OnDay(f, f[s].slot[1]) => s = t

Alone == ~overlap => \A q, r \in Requests : pc[q] # "idle" /\ pc[r] # "idle" => q = r

(* A session that was claimed is still to be counted, a grade that will be *)
(* logged belongs to it, and the grades a reset counts were logged.        *)
Owed(r) ==
  /\ pc[r] = "sync" => stu.done + 1 <= credit + ever /\ Cardinality(stu.grades) + 1 <= ever
  /\ pc[r] \in {"save", "log"} => /\ arg[r].copy.done <= credit + ever
                                  /\ Cardinality(arg[r].copy.grades) + 1 <= ever
  /\ pc[r] \in {"reset", "edit"} => Cardinality(arg[r].copy.grades) <= ever

Ahead == /\ stu.done <= credit + ever
         /\ Cardinality(stu.grades) <= ever

AheadInv == ~overlap => Ahead /\ \A r \in Requests : Owed(r)

CompletedEver == Cardinality(In(sched, "completed")) <= ever

(* There is room for what a request is about to write: on the day and,     *)
(* until the progress is set by hand, in the course.                       *)
Planned(r) ==
  /\ pc[r] = "insert" => /\ edited \/ Cardinality(In(sched, "scheduled"))
                                         + Larger(Cardinality(In(sched, "completed")), stu.done) < Total
                         /\ OnDay(sched, arg[r].slot[1]) = {}
  /\ (pc[r] = "put" /\ arg[r].slot # NoSlot) => OnDay(sched, arg[r].slot[1]) \subseteq {arg[r].s}
  /\ pc[r] = "sync" => edited \/ Fitting(sched, stu.done + 1)
  /\ pc[r] \in {"save", "log"} =>
       edited \/ /\ Fitting(sched, arg[r].copy.done)
                 /\ Cardinality(arg[r].copy.grades) + 1 <= arg[r].copy.done
  /\ pc[r] = "reset" => edited \/ Cardinality(arg[r].copy.grades) <= stu.done

Room0 == /\ edited \/ (Fitting(sched, stu.done) /\ Cardinality(stu.grades) <= stu.done)
         /\ OneADay(sched)

RoomInv == (~overlap /\ reopened = {}) => Room0 /\ \A r \in Requests : Planned(r)

SerialInv == Alone /\ AheadInv /\ CompletedEver /\ RoomInv

LEMMA InCounts ==
  ASSUME NEW f, NEW status
  PROVE  IsFiniteSet(In(f, status)) /\ Cardinality(In(f, status)) \in Nat
  BY AttendanceAssumption, FS_Subset, FS_CardinalityType DEF In

LEMMA DoneIsNat ==
  ASSUME Typed
  PROVE  /\ sched \in [Sessions -> Session] /\ pc \in [Requests -> Places] /\ arg \in [Requests -> Locals]
         /\ stu.done \in Nat /\ stu.grades \subseteq Days /\ Cardinality(stu.grades) \in Nat
         /\ credit \in Nat /\ ever \in Nat /\ reopened \subseteq Sessions /\ overlap \in BOOLEAN
         /\ \A r \in Requests : /\ arg[r].copy \in Progress /\ arg[r].copy.done \in Nat
                                /\ arg[r].copy.grades \subseteq Days
                                /\ Cardinality(arg[r].copy.grades) \in Nat
  <1>1. sched \in [Sessions -> Session] /\ RestFits /\ pc \in [Requests -> Places] /\ arg \in [Requests -> Locals]
    BY Parts DEF Typed
  <1>2. stu \in Progress /\ \A r \in Requests : arg[r].copy \in Progress
    BY <1>1 DEF RestFits, Locals
  <1>3. \A p \in Progress : p.done \in Nat /\ p.grades \subseteq Days /\ Cardinality(p.grades) \in Nat
    BY Counted DEF Progress
  <1>4. credit \in Nat
    BY <1>1, TotalIsNat DEF RestFits
  <1> QED
    BY <1>1, <1>2, <1>3, <1>4 DEF RestFits

(* Sessions are only taken away from those that take place.                *)
Fewer(f, g) == \A s \in Sessions : g[s].status \in Occupying => g[s].status = f[s].status /\ g[s].slot = f[s].slot

LEMMA FewerFit ==
  ASSUME NEW f, NEW g, Fewer(f, g)
  PROVE  /\ Cardinality(In(g, "scheduled")) <= Cardinality(In(f, "scheduled"))
         /\ Cardinality(In(g, "completed")) <= Cardinality(In(f, "completed"))
         /\ \A n \in Nat : Fitting(f, n) => Fitting(g, n)
         /\ \A day : OnDay(g, day) \subseteq OnDay(f, day)
         /\ OneADay(f) => OneADay(g)
  <1>1. In(g, "scheduled") \subseteq In(f, "scheduled") /\ In(g, "completed") \subseteq In(f, "completed")
    BY DEF In, Fewer, Occupying
  <1>2. /\ Cardinality(In(g, "scheduled")) <= Cardinality(In(f, "scheduled"))
        /\ Cardinality(In(g, "completed")) <= Cardinality(In(f, "completed"))
    BY <1>1, InCounts, FS_Subset
  <1>3. ASSUME NEW n \in Nat, Fitting(f, n) PROVE Fitting(g, n)
    BY <1>2, <1>3, InCounts, TotalIsNat DEF Fitting, Larger
  <1>4. \A day : OnDay(g, day) \subseteq OnDay(f, day)
    BY DEF OnDay, Fewer
  <1>5. OneADay(f) => OneADay(g)
    <2> SUFFICES ASSUME OneADay(f), NEW s \in Sessions, NEW t \in Sessions,
                        g[s].status \in Occupying, t \in OnDay(g, g[s].slot[1])
                 PROVE  s = t
      BY DEF OneADay
    <2>1. f[s].status \in Occupying /\ f[s].slot = g[s].slot /\ t \in OnDay(f, f[s].slot[1])
      BY <1>4 DEF Fewer
    <2> QED
      BY <2>1 DEF OneADay
  <1> QED
    BY <1>2, <1>3, <1>4, <1>5

LEMMA FittingLess ==
  ASSUME NEW f, NEW n \in Nat, NEW m \in Nat, m <= n, Fitting(f, n)
  PROVE  Fitting(f, m)
  BY InCounts, TotalIsNat DEF Fitting, Larger

(* Steps that take sessions away, end requests or do neither.              *)
LEMMA CalmStep ==
  ASSUME Typed, Typed', SerialInv, Fewer(sched, sched'), UNCHANGED <<stu, credit, edited>>, ever <= ever',
         ~overlap' => ~overlap, reopened \subseteq reopened',
         \A q \in Requests : pc'[q] = "idle" \/ (pc'[q] = pc[q] /\ arg'[q] = arg[q])
  PROVE  SerialInv'
  <1>0. ever \in Nat /\ ever' \in Nat /\ credit \in Nat /\ stu.done \in Nat /\ Cardinality(stu.grades) \in Nat
    BY DoneIsNat DEF Typed, AttendanceTypeOK
  <1>1. Alone'
    BY DEF SerialInv, Alone
  <1>2. CompletedEver'
    BY <1>0, FewerFit, InCounts DEF SerialInv, CompletedEver
  <1>3. ASSUME ~overlap' PROVE Ahead' /\ \A r \in Requests : Owed(r)'
    <2>1. Ahead /\ \A r \in Requests : Owed(r)
      BY <1>3 DEF SerialInv, AheadInv
    <2>2. Ahead'
      BY <1>0, <2>1 DEF Ahead
    <2>3. ASSUME NEW r \in Requests PROVE Owed(r)'
      <3>1. CASE pc'[r] = "idle"
        BY <3>1 DEF Owed
      <3>2. CASE pc'[r] = pc[r] /\ arg'[r] = arg[r]
        <4>1. Cardinality(arg[r].copy.grades) \in Nat /\ arg[r].copy.done \in Nat
          BY DoneIsNat
        <4> QED
          BY <1>0, <2>1, <3>2, <4>1 DEF Owed
      <3> QED
        BY <3>1, <3>2
    <2> QED
      BY <2>2, <2>3
  <1>4. ASSUME ~overlap', reopened' = {} PROVE Room0' /\ \A r \in Requests : Planned(r)'
    <2>1. Room0 /\ \A r \in Requests : Planned(r)
      BY <1>4 DEF SerialInv, RoomInv
    <2>2. Room0'
      BY <1>0, <2>1, FewerFit DEF Room0
    <2>3. ASSUME NEW r \in Requests PROVE Planned(r)'
      <3>1. CASE pc'[r] = "idle"
        BY <3>1 DEF Planned
      <3>2. CASE pc'[r] = pc[r] /\ arg'[r] = arg[r]
        <4>1. Cardinality(arg[r].copy.grades) \in Nat /\ arg[r].copy.done \in Nat
          BY DoneIsNat
        <4>2. Planned(r)
          BY <2>1
        <4>3. pc[r] = "insert" => /\ edited \/ Cardinality(In(sched', "scheduled"))
                                                 + Larger(Cardinality(In(sched', "completed")), stu.done) < Total
                                  /\ OnDay(sched', arg[r].slot[1]) = {}
          <5>1. /\ Cardinality(In(sched', "scheduled")) <= Cardinality(In(sched, "scheduled"))
                /\ Cardinality(In(sched', "completed")) <= Cardinality(In(sched, "completed"))
                /\ OnDay(sched', arg[r].slot[1]) \subseteq OnDay(sched, arg[r].slot[1])
            BY FewerFit
          <5> QED
            BY <1>0, <4>2, <5>1, InCounts, TotalIsNat DEF Planned, Larger
        <4>4. (pc[r] = "put" /\ arg[r].slot # NoSlot) => OnDay(sched', arg[r].slot[1]) \subseteq {arg[r].s}
          BY <4>2, FewerFit DEF Planned
        <4>5. pc[r] = "sync" => edited \/ Fitting(sched', stu.done + 1)
          BY <1>0, <4>2, FewerFit DEF Planned
        <4>6. pc[r] \in {"save", "log"} => edited \/ Fitting(sched', arg[r].copy.done)
          BY <4>1, <4>2, FewerFit DEF Planned
        <4> QED
          BY <3>2, <4>2, <4>3, <4>4, <4>5, <4>6 DEF Planned
      <3> QED
        BY <3>1, <3>2
    <2> QED
      BY <2>2, <2>3
  <1> QED
    BY <1>1, <1>2, <1>3, <1>4 DEF SerialInv, AheadInv, RoomInv

(* A step of the one request in progress, of which its own part is shown.  *)
LEMMA WorkStep ==
  ASSUME Typed, Typed', SerialInv, NEW r \in Requests,
         overlap' = (overlap \/ \E q \in Requests \ {r} : pc[q] # "idle"),
         \A q \in Requests \ {r} : pc'[q] = pc[q],
         CompletedEver', ~overlap => Ahead' /\ Owed(r)',
         (~overlap /\ reopened' = {}) => Room0' /\ Planned(r)'
  PROVE  SerialInv'
  <1>1. ~overlap' => ~overlap /\ \A q \in Requests \ {r} : pc'[q] = "idle"
    OBVIOUS
  <1>2. Alone'
    BY <1>1 DEF Alone
  <1>3. AheadInv'
    <2>1. ASSUME ~overlap', NEW q \in Requests \ {r} PROVE Owed(q)'
      BY <1>1, <2>1 DEF Owed
    <2> QED
      BY <1>1, <2>1 DEF AheadInv
  <1>4. RoomInv'
    <2>1. ASSUME ~overlap', NEW q \in Requests \ {r} PROVE Planned(q)'
      BY <1>1, <2>1 DEF Planned
    <2> QED
      BY <1>1, <2>1 DEF RoomInv
  <1> QED
    BY <1>2, <1>3, <1>4 DEF SerialInv

LEMMA OnlyOne ==
  ASSUME Typed, Alone, NEW r \in Requests, pc[r] # "idle", UNCHANGED overlap
  PROVE  overlap' = (overlap \/ \E q \in Requests \ {r} : pc[q] # "idle")
  BY DEF Alone, Typed, AttendanceTypeOK

(* A request begins: what it has found holds of what it will write.        *)
LEMMA BeginStep ==
  ASSUME Typed, Typed', SerialInv, NEW r \in Requests, NEW a \in Locals,
         NEW p \in {"insert", "put", "cancel", "ask", "claim", "reset", "edit"}, Begin(r, a, p),
         UNCHANGED <<sched, stu, credit, ever, reopened, edited>>,
         p = "insert" => /\ Cardinality(In(sched, "scheduled"))
                              + Larger(Cardinality(In(sched, "completed")), stu.done) < Total
                         /\ OnDay(sched, a.slot[1]) = {},
         (p = "put" /\ a.slot # NoSlot) => OnDay(sched, a.slot[1]) \subseteq {a.s},
         p \in {"reset", "edit"} => a.copy.grades = stu.grades
  PROVE  SerialInv'
  <1>1. p \in Places /\ Moves(r, p, a) /\ pc[r] = "idle"
    BY Starting DEF Steps, Places
  <1>2. pc'[r] = p /\ arg'[r] = a /\ \A q \in Requests \ {r} : pc'[q] = pc[q]
    BY <1>1, Moving
  <1>3. overlap' = (overlap \/ \E q \in Requests \ {r} : pc[q] # "idle")
    BY <1>1 DEF Begin
  <1>4. CompletedEver'
    BY DEF SerialInv, CompletedEver
  <1>5. ASSUME ~overlap PROVE Ahead' /\ Owed(r)'
    <2>1. Ahead
      BY <1>5 DEF SerialInv, AheadInv
    <2> QED
      BY <1>2, <2>1 DEF Ahead, Owed
  <1>6. ASSUME ~overlap, reopened' = {} PROVE Room0' /\ Planned(r)'
    <2>1. Room0
      BY <1>6 DEF SerialInv, RoomInv
    <2>2. Room0'
      BY <2>1 DEF Room0
    <2>3. Planned(r)'
      BY <1>2, <2>1 DEF Room0, Planned
    <2> QED
      BY <2>2, <2>3
  <1> QED
    BY <1>2, <1>3, <1>4, <1>5, <1>6, WorkStep

LEMMA RoomSum ==
  ASSUME Typed, Room(Sessions)
  PROVE  Cardinality(In(sched, "scheduled")) + Larger(Cardinality(In(sched, "completed")), stu.done) < Total
  <1> DEFINE A == In(sched, "scheduled")
             B == In(sched, "completed")
  <1>1. IsFiniteSet(A) /\ IsFiniteSet(B) /\ Cardinality(A) \in Nat /\ Cardinality(B) \in Nat
    BY InCounts
  <1>2. A \cap B = {} /\ (With("scheduled") \cup With("completed")) \cap Sessions = A \cup B
        /\ With("completed") \cap Sessions = B
    BY DEF In, With
  <1>3. Cardinality(A \cup B) = Cardinality(A) + Cardinality(B)
    <2>1. Cardinality(A \cup B) = Cardinality(A) + Cardinality(B) - Cardinality(A \cap B)
      BY <1>1, FS_Union
    <2>2. Cardinality(A \cap B) = 0
      BY <1>2, FS_EmptySet
    <2> HIDE DEF A, B
    <2> QED
      BY <1>1, <2>1, <2>2
  <1>4. Cardinality(A \cup B) + Larger(0, stu.done - Cardinality(B)) < Total
    BY <1>2 DEF Room
  <1>5. stu.done \in Nat
    BY DoneIsNat
  <1> HIDE DEF A, B
  <1>6. Cardinality(A) + Larger(Cardinality(B), stu.done) < Total
    BY <1>1, <1>3, <1>4, <1>5, TotalIsNat DEF Larger
  <1> QED
    BY <1>6 DEF A, B

LEMMA SerialBegins ==
  ASSUME Typed, Typed', SerialInv, NEW r \in Requests,
         \/ \E slot \in Slots, to \in NewStatuses : Create(r, slot, to)
         \/ \E n \in Numbers : Edit(r, n)
         \/ \E s \in Sessions :
              \/ \E slot \in Slots \cup {NoSlot}, to \in {"none", "scheduled", "cancelled", "no_show"} : Put(r, s, slot, to)
              \/ Cancel(r, s) \/ Ask(r, s)
              \/ \E op \in Takes : Take(r, s, op)
         \/ \E day \in Days : Reset(r, day)
  PROVE  SerialInv'
  <1>0. NoArg \in Locals /\ stu \in Progress
    BY NoneTyped, Parts DEF Typed, RestFits
  <1>1. ASSUME NEW slot \in Slots, NEW to \in NewStatuses, Create(r, slot, to) PROVE SerialInv'
    <2> DEFINE a == [NoArg EXCEPT !.op = "create", !.slot = slot, !.to = to]
    <2>1. a \in Locals /\ a.slot = slot
      BY <1>0, NewAreStatuses DEF Locals, Kinds
    <2>2. Begin(r, a, "insert") /\ UNCHANGED <<sched, stu, credit, ever, reopened, edited>>
      BY <1>1 DEF Create
    <2>3. Room(Sessions) /\ OnDay(sched, slot[1]) = {}
      <3>1. On(slot[1]) \cap Sessions = {} /\ Room(Sessions)
        BY <1>1 DEF Create, Allowed
      <3> QED
        BY <3>1 DEF On, OnDay
    <2> HIDE DEF a
    <2>4. Cardinality(In(sched, "scheduled")) + Larger(Cardinality(In(sched, "completed")), stu.done) < Total
      BY <2>3, RoomSum
    <2> QED
      BY <2>1, <2>2, <2>3, <2>4, BeginStep
  <1>2. ASSUME NEW s \in Sessions, NEW slot \in Slots \cup {NoSlot},
               NEW to \in {"none", "scheduled", "cancelled", "no_show"}, Put(r, s, slot, to)
        PROVE  SerialInv'
    <2> DEFINE a == [NoArg EXCEPT !.op = "put", !.s = s, !.slot = slot, !.to = to]
    <2>1. a \in Locals /\ a.slot = slot /\ a.s = s
      BY <1>0 DEF Locals, Kinds, Statuses, Occupying
    <2>2. Begin(r, a, "put") /\ UNCHANGED <<sched, stu, credit, ever, reopened, edited>>
      BY <1>2 DEF Put
    <2>3. slot # NoSlot => On(slot[1]) \cap (Sessions \ {s}) = {}
      BY <1>2 DEF Put, Allowed
    <2>4. slot # NoSlot => OnDay(sched, slot[1]) \subseteq {s}
      BY <2>3 DEF On, OnDay
    <2> HIDE DEF a
    <2> QED
      BY <2>1, <2>2, <2>4, BeginStep
  <1>3. ASSUME NEW s \in Sessions, Cancel(r, s) PROVE SerialInv'
    <2> DEFINE a == [NoArg EXCEPT !.op = "cancel", !.s = s]
    <2>1. a \in Locals
      BY <1>0 DEF Locals, Kinds
    <2>2. Begin(r, a, "cancel") /\ UNCHANGED <<sched, stu, credit, ever, reopened, edited>>
      BY <1>3 DEF Cancel
    <2> HIDE DEF a
    <2> QED
      BY <2>1, <2>2, BeginStep
  <1>4. ASSUME NEW s \in Sessions, Ask(r, s) PROVE SerialInv'
    <2> DEFINE a == [NoArg EXCEPT !.op = "ask", !.s = s]
    <2>1. a \in Locals
      BY <1>0 DEF Locals, Kinds
    <2>2. Begin(r, a, "ask") /\ UNCHANGED <<sched, stu, credit, ever, reopened, edited>>
      BY <1>4 DEF Ask
    <2> HIDE DEF a
    <2> QED
      BY <2>1, <2>2, BeginStep
  <1>5. ASSUME NEW s \in Sessions, NEW op \in Takes, Take(r, s, op) PROVE SerialInv'
    <2> DEFINE a == [NoArg EXCEPT !.op = "take", !.s = s]
    <2>1. a \in Locals
      BY <1>0 DEF Locals, Kinds
    <2>2. Begin(r, a, "claim") /\ UNCHANGED <<sched, stu, credit, ever, reopened, edited>>
      BY <1>5 DEF Take
    <2> HIDE DEF a
    <2> QED
      BY <2>1, <2>2, BeginStep
  <1>6. ASSUME NEW day \in Days, Reset(r, day) PROVE SerialInv'
    <2> DEFINE c == [stu EXCEPT !.done = 0]
               a == [NoArg EXCEPT !.op = "reset", !.slot = <<day, "none">>, !.copy = c]
    <2>1. c \in Progress /\ c.grades = stu.grades
      BY <1>0 DEF Progress
    <2> HIDE DEF c
    <2>2. a \in Locals /\ a.copy = c
      BY <1>0, <2>1 DEF Locals, Kinds
    <2>3. Begin(r, a, "reset") /\ UNCHANGED <<sched, stu, credit, ever, reopened, edited>>
      BY <1>6 DEF Reset, c
    <2> HIDE DEF a
    <2> QED
      BY <2>1, <2>2, <2>3, BeginStep
  <1>7. ASSUME NEW n \in Numbers, Edit(r, n) PROVE SerialInv'
    <2> DEFINE c == [stu EXCEPT !.done = n]
               a == [NoArg EXCEPT !.op = "edit", !.copy = c]
    <2>1. c \in Progress /\ c.grades = stu.grades
      BY <1>0, AttendanceAssumption DEF Progress
    <2> HIDE DEF c
    <2>2. a \in Locals /\ a.copy = c
      BY <1>0, <2>1 DEF Locals, Kinds
    <2>3. Begin(r, a, "edit") /\ UNCHANGED <<sched, stu, credit, ever, reopened, edited>>
      BY <1>7 DEF Edit, c
    <2> HIDE DEF a
    <2> QED
      BY <2>1, <2>2, <2>3, BeginStep
  <1> QED
    BY <1>1, <1>2, <1>3, <1>4, <1>5, <1>6, <1>7

LEMMA FewerSame == ASSUME UNCHANGED sched PROVE Fewer(sched, sched')
  BY DEF Fewer

LEMMA FewerOne ==
  ASSUME Typed, NEW s \in Sessions, NEW d, sched' = [sched EXCEPT ![s] = d],
         d.status \in Occupying => d.status = sched[s].status /\ d.slot = sched[s].slot
  PROVE  Fewer(sched, sched')
  BY DEF Typed, AttendanceTypeOK, Fewer

LEMMA SerialEnds ==
  ASSUME Typed, Typed', SerialInv, NEW r \in Requests, End(r), UNCHANGED <<stu, credit, ever, overlap, edited>>,
         Fewer(sched, sched'), reopened \subseteq reopened'
  PROVE  SerialInv'
  <1>1. Moves(r, "idle", NoArg)
    BY Ending
  <1>2. pc'[r] = "idle" /\ \A q \in Requests \ {r} : pc'[q] = pc[q] /\ arg'[q] = arg[q]
    BY <1>1, NoneTyped, Moving DEF Places
  <1>3. ever \in Nat
    BY DoneIsNat
  <1> QED
    BY <1>2, <1>3, CalmStep

LEMMA SerialOthers ==
  ASSUME Typed, Typed', SerialInv,
         \/ \E s \in Sessions : Delete(s) \/ Dispute(s) \/ Reject(s)
         \/ OtherSave \/ ResetHistory \/ Crash \/ UNCHANGED avars
  PROVE  SerialInv'
  <1>0. ever \in Nat /\ sched \in [Sessions -> Session]
    BY DoneIsNat
  <1>1. UNCHANGED <<stu, credit, ever, overlap, reopened, edited>>
    BY DEF Delete, Dispute, Reject, OtherSave, ResetHistory, Crash, avars, ghosts
  <1>2. \A q \in Requests : pc'[q] = "idle" \/ (pc'[q] = pc[q] /\ arg'[q] = arg[q])
    BY DEF Delete, Dispute, Reject, OtherSave, ResetHistory, Crash, avars, ghosts
  <1>3. Fewer(sched, sched')
    <2>1. Deleted.status \notin Occupying
      BY DEF Deleted, NoSession, Occupying
    <2>2. ASSUME NEW s \in Sessions, Delete(s) PROVE Fewer(sched, sched')
      BY <1>0, <2>1, <2>2 DEF Delete, Fewer
    <2>3. ASSUME NEW s \in Sessions, Dispute(s) PROVE Fewer(sched, sched')
      <3>1. sched' = [sched EXCEPT ![s].confirm = "disputed"]
        BY <2>3 DEF Dispute
      <3> QED
        BY <1>0, <3>1 DEF Fewer, Session
    <2>4. ASSUME NEW s \in Sessions, Reject(s) PROVE Fewer(sched, sched')
      <3>1. sched' = [sched EXCEPT ![s].status = "cancelled", ![s].confirm = "admin_rejected"]
        BY <2>4 DEF Reject
      <3> QED
        BY <1>0, <3>1 DEF Fewer, Session, Occupying
    <2>5. CASE ResetHistory
      BY <2>1, <2>5 DEF ResetHistory, Fewer
    <2>6. CASE OtherSave \/ Crash \/ UNCHANGED avars
      BY <2>6, FewerSame DEF OtherSave, Crash, avars
    <2> QED
      BY <2>2, <2>3, <2>4, <2>5, <2>6
  <1> QED
    BY <1>0, <1>1, <1>2, <1>3, CalmStep

(* Requests that end and take sessions away at most.                       *)
LEMMA SerialQuietEnds ==
  ASSUME Typed, Typed', SerialInv, NEW r \in Requests,
         CancelSave(r) \/ AskClaim(r) \/ SaveFails(r) \/ \E day \in Days : ResetRemove(r, day)
  PROVE  SerialInv'
  <1>0. sched \in [Sessions -> Session] /\ Sent(r)
    BY DoneIsNat DEF Typed, AllSent
  <1>1. End(r) /\ UNCHANGED <<stu, credit, ever, overlap, reopened, edited>>
    BY DEF CancelSave, AskClaim, SaveFails, ResetRemove, ghosts
  <1>2. CASE CancelSave(r)
    <2>1. arg[r].s \in Sessions
      BY <1>0, <1>2 DEF CancelSave, Sent, Known
    <2>2. sched' = sched \/ sched' = [sched EXCEPT ![arg[r].s].status = "cancelled"]
      BY <1>2 DEF CancelSave
    <2>3. Fewer(sched, sched')
      BY <1>0, <2>1, <2>2 DEF Fewer, Session, Occupying
    <2> QED
      BY <1>1, <2>3, SerialEnds
  <1>3. CASE AskClaim(r)
    <2>1. arg[r].s \in Sessions
      BY <1>0, <1>3 DEF AskClaim, Sent, Known
    <2>2. sched' = sched \/ sched' = [sched EXCEPT ![arg[r].s].confirm = "pending"]
      BY <1>3 DEF AskClaim
    <2>3. Fewer(sched, sched')
      BY <1>0, <2>1, <2>2 DEF Fewer, Session
    <2> QED
      BY <1>1, <2>3, SerialEnds
  <1>4. CASE SaveFails(r)
    <2>1. Fewer(sched, sched')
      BY <1>4, FewerSame DEF SaveFails
    <2> QED
      BY <1>1, <2>1, SerialEnds
  <1>5. CASE \E day \in Days : ResetRemove(r, day)
    <2>1. Deleted.status \notin Occupying
      BY DEF Deleted, NoSession, Occupying
    <2>2. Fewer(sched, sched')
      BY <1>5, <2>1 DEF ResetRemove, Fewer
    <2> QED
      BY <1>1, <2>2, SerialEnds
  <1> QED
    BY <1>2, <1>3, <1>4, <1>5

(* What is known of a request that is not idle while it is alone.          *)
LEMMA SerialFacts ==
  ASSUME Typed, SerialInv, NEW r \in Requests
  PROVE  /\ Cardinality(In(sched, "completed")) <= ever
         /\ ~overlap => Ahead /\ Owed(r)
         /\ (~overlap /\ reopened = {}) => Room0 /\ Planned(r)
  BY DEF SerialInv, AheadInv, CompletedEver, RoomInv

(* A session that is added: one more of its status, on a day that was free.*)
AddsOne(f, g, s, d) ==
  /\ s \in Sessions /\ f[s].status = "none" /\ d.status \in Statuses
  /\ g[s] = d /\ \A t \in Sessions \ {s} : g[t] = f[t]

LEMMA AddedOne ==
  ASSUME NEW f, NEW g, NEW s, NEW d, AddsOne(f, g, s, d)
  PROVE  /\ In(g, d.status) = In(f, d.status) \cup {s}
         /\ Cardinality(In(g, d.status)) = Cardinality(In(f, d.status)) + 1
         /\ \A x \in {"scheduled", "completed"} : x # d.status => In(g, x) = In(f, x)
         /\ ((OnDay(f, d.slot[1]) = {} /\ OneADay(f)) => OneADay(g))
  <1>1. /\ s \in Sessions /\ f[s].status = "none" /\ d.status \in Statuses
        /\ g[s] = d /\ \A t \in Sessions \ {s} : g[t] = f[t]
    BY DEF AddsOne
  <1>2. In(g, d.status) = In(f, d.status) \cup {s} /\ s \notin In(f, d.status)
    BY <1>1 DEF In, Statuses, Occupying
  <1>3. Cardinality(In(g, d.status)) = Cardinality(In(f, d.status)) + 1
    BY <1>2, InCounts, FS_AddElement
  <1>4. \A x \in {"scheduled", "completed"} : x # d.status => In(g, x) = In(f, x)
    BY <1>1 DEF In
  <1>5. ASSUME OnDay(f, d.slot[1]) = {}, OneADay(f) PROVE OneADay(g)
    <2> SUFFICES ASSUME NEW t \in Sessions, NEW u \in Sessions, g[t].status \in Occupying,
                        g[u].status \in Occupying, g[u].slot[1] = g[t].slot[1], t # u
                 PROVE  FALSE
      BY DEF OneADay, OnDay
    <2>1. CASE t = s
      BY <1>1, <1>5, <2>1 DEF OnDay
    <2>2. CASE u = s
      BY <1>1, <1>5, <2>2 DEF OnDay
    <2>3. CASE t # s /\ u # s
      BY <1>1, <1>5, <2>3 DEF OneADay, OnDay
    <2> QED
      BY <2>1, <2>2, <2>3
  <1> QED
    BY <1>2, <1>3, <1>4, <1>5

LEMMA SerialInsert ==
  ASSUME Typed, Typed', SerialInv, NEW r \in Requests, Insert(r)
  PROVE  SerialInv'
  <1>0. /\ sched \in [Sessions -> Session] /\ Sent(r) /\ ever \in Nat /\ stu.done \in Nat /\ credit \in Nat
        /\ Cardinality(stu.grades) \in Nat
    BY DoneIsNat DEF Typed, AllSent
  <1>1. pc[r] = "insert" /\ End(r) /\ UNCHANGED <<stu, credit, overlap, reopened, edited>>
        /\ arg[r].slot \in Slots /\ arg[r].to \in Statuses
    BY <1>0, NewAreStatuses DEF Insert, Sent
  <1>2. CASE UNCHANGED <<sched, ever>>
    BY <1>1, <1>2, FewerSame, SerialEnds
  <1>3. CASE ~UNCHANGED <<sched, ever>>
    <2> DEFINE d == [status |-> arg[r].to, confirm |-> "none", slot |-> arg[r].slot]
    <2>1. PICK s \in With("none") : sched' = [sched EXCEPT ![s] = d]
      BY <1>3 DEF Insert
    <2>2. ever' = (IF arg[r].to = "completed" THEN ever + 1 ELSE ever)
      BY <1>3 DEF Insert
    <2>3. d \in Session /\ d.status = arg[r].to /\ d.slot = arg[r].slot /\ s \in Sessions /\ sched[s].status = "none"
      BY <1>1 DEF Session, With
    <2> HIDE DEF d
    <2> DEFINE g == sched'
    <2>4. /\ Cardinality(In(g, arg[r].to)) = Cardinality(In(sched, arg[r].to)) + 1
          /\ \A x \in {"scheduled", "completed"} : x # arg[r].to => In(g, x) = In(sched, x)
          /\ ((OnDay(sched, arg[r].slot[1]) = {} /\ OneADay(sched)) => OneADay(g))
      <3>1. d.status \in Statuses
        BY <1>1, <2>3
      <3>2. /\ Cardinality(In(g, d.status)) = Cardinality(In(sched, d.status)) + 1
            /\ \A x \in {"scheduled", "completed"} : x # d.status => In(g, x) = In(sched, x)
            /\ ((OnDay(sched, d.slot[1]) = {} /\ OneADay(sched)) => OneADay(g))
        <4>1. d \in Session /\ s \in Sessions /\ sched[s].status = "none"
          BY <2>3
        <4> HIDE DEF g
        <4>2. g = [sched EXCEPT ![s] = d]
          BY <2>1 DEF g
        <4>3. AddsOne(sched, g, s, d)
          BY <1>0, <3>1, <4>1, <4>2 DEF AddsOne
        <4> QED
          BY <4>3, AddedOne
      <3> QED
        BY <2>3, <3>2
    <2>5. pc'[r] = "idle" /\ \A q \in Requests \ {r} : pc'[q] = pc[q]
      BY <1>1, Ending, NoneTyped, Moving DEF Places
    <2>6. overlap' = (overlap \/ \E q \in Requests \ {r} : pc[q] # "idle")
      BY <1>1, OnlyOne DEF SerialInv
    <2>7. CompletedEver'
      <3>1. Cardinality(In(g, "completed")) <= ever'
        <4>1. Cardinality(In(sched, "completed")) <= ever /\ Cardinality(In(sched, "completed")) \in Nat
          BY SerialFacts, InCounts
        <4>2. CASE arg[r].to # "completed"
          BY <2>2, <2>4, <4>1, <4>2
        <4>3. CASE arg[r].to = "completed"
          BY <1>0, <2>2, <2>4, <4>1, <4>3
        <4> QED
          BY <1>1, <4>2, <4>3
      <3> QED
        BY <3>1 DEF CompletedEver
    <2>8. ASSUME ~overlap PROVE Ahead' /\ Owed(r)'
      <3>1. Ahead
        BY <2>8, SerialFacts
      <3>2. Ahead'
        BY <1>0, <1>1, <2>2, <3>1 DEF Ahead
      <3> QED
        BY <2>5, <3>2 DEF Owed
    <2>9. ASSUME ~overlap, reopened' = {} PROVE Room0' /\ Planned(r)'
      <3>1. Room0 /\ Planned(r)
        BY <1>1, <2>9, SerialFacts
      <3>2. (edited \/ Fitting(g, stu.done)) /\ OneADay(g)
        <4>1. /\ edited \/ Cardinality(In(sched, "scheduled"))
                              + Larger(Cardinality(In(sched, "completed")), stu.done) < Total
              /\ OnDay(sched, arg[r].slot[1]) = {} /\ OneADay(sched)
          BY <1>1, <3>1 DEF Room0, Planned
        <4>2. CASE arg[r].to = "scheduled"
          BY <1>0, <2>4, <4>1, <4>2, InCounts, TotalIsNat DEF Fitting, Larger
        <4>3. CASE arg[r].to = "completed"
          BY <1>0, <2>4, <4>1, <4>3, InCounts, TotalIsNat DEF Fitting, Larger
        <4>4. CASE arg[r].to \notin {"scheduled", "completed"}
          BY <1>0, <2>4, <4>1, <4>4, InCounts, TotalIsNat DEF Fitting, Larger
        <4> QED
          BY <2>4, <4>1, <4>2, <4>3, <4>4
      <3>3. Room0'
        BY <1>1, <3>1, <3>2 DEF Room0
      <3> QED
        BY <2>5, <3>3 DEF Planned
    <2> QED
      BY <2>5, <2>6, <2>7, <2>8, <2>9, WorkStep
  <1> QED
    BY <1>2, <1>3

(* A change by hand.  A status that reopens the session excuses the plan;  *)
(* otherwise a session is called off, or moved to a day that was free.     *)
LEMMA SerialPut ==
  ASSUME Typed, Typed', SerialInv, NEW r \in Requests, PutSave(r)
  PROVE  SerialInv'
  <1> DEFINE s == arg[r].s
             to == IF arg[r].to = "none" THEN sched[s].status ELSE arg[r].to
             slot == IF arg[r].slot = NoSlot THEN sched[s].slot ELSE arg[r].slot
             g == sched'
  <1>0. /\ sched \in [Sessions -> Session] /\ Sent(r) /\ ever \in Nat /\ stu.done \in Nat /\ credit \in Nat
        /\ Cardinality(stu.grades) \in Nat
    BY DoneIsNat DEF Typed, AllSent
  <1>1. pc[r] = "put" /\ End(r) /\ UNCHANGED <<stu, credit, ever, overlap, edited>>
    BY DEF PutSave
  <1>2. s \in Sessions /\ arg[r].to \in {"none", "scheduled", "cancelled", "no_show"}
    BY <1>0, <1>1 DEF Sent, Known
  <1>3. CASE UNCHANGED <<sched, reopened>>
    BY <1>1, <1>3, FewerSame, SerialEnds
  <1>4. CASE ~UNCHANGED <<sched, reopened>>
    <2>1. /\ sched' = [sched EXCEPT ![s].status = to, ![s].slot = slot]
          /\ reopened' = IF to \in {"scheduled", "no_show"} /\ to # sched[s].status
                         THEN reopened \cup {s} ELSE reopened
      BY <1>4 DEF PutSave
    <2>2. to = "completed" => sched[s].status = "completed"
      BY <1>2
    <2>3. (arg[r].slot = NoSlot) => slot = sched[s].slot
      OBVIOUS
    <2>4. (arg[r].slot # NoSlot) => slot = arg[r].slot
      OBVIOUS
    <2>5. to # sched[s].status => to \in {"scheduled", "cancelled", "no_show"}
      BY <1>2
    <2> HIDE DEF to, slot
    <2>6. g[s].status = to /\ g[s].slot = slot /\ \A t \in Sessions \ {s} : g[t] = sched[t]
      BY <1>0, <1>2, <2>1 DEF Session
    <2>7. reopened \subseteq reopened'
      BY <2>1
    <2>8. pc'[r] = "idle" /\ \A q \in Requests \ {r} : pc'[q] = pc[q]
      BY <1>1, Ending, NoneTyped, Moving DEF Places
    <2>9. overlap' = (overlap \/ \E q \in Requests \ {r} : pc[q] # "idle")
      BY <1>1, OnlyOne DEF SerialInv
    <2>10. CompletedEver'
      <3>1. In(g, "completed") \subseteq In(sched, "completed")
        BY <2>2, <2>6 DEF In
      <3>2. Cardinality(In(g, "completed")) <= Cardinality(In(sched, "completed"))
        BY <3>1, InCounts, FS_Subset
      <3> QED
        BY <1>0, <1>1, <3>2, SerialFacts, InCounts DEF CompletedEver
    <2>11. ASSUME ~overlap PROVE Ahead' /\ Owed(r)'
      <3>1. Ahead
        BY <2>11, SerialFacts
      <3> QED
        BY <1>1, <2>8, <3>1 DEF Ahead, Owed
    <2>12. CASE reopened' # {}
      BY <2>8, <2>9, <2>10, <2>11, <2>12, WorkStep
    <2>13. CASE (to = sched[s].status /\ arg[r].slot = NoSlot) \/ to \notin Occupying
      <3>1. Fewer(sched, g)
        BY <1>2, <2>3, <2>6, <2>13 DEF Fewer
      <3> QED
        BY <1>1, <2>7, <3>1, SerialEnds
    <2>14. CASE to = sched[s].status /\ arg[r].slot # NoSlot
      <3>1. ASSUME ~overlap, reopened' = {} PROVE Room0' /\ Planned(r)'
        <4>1. Room0 /\ Planned(r)
          BY <2>7, <3>1, SerialFacts
        <4>2. In(g, "scheduled") = In(sched, "scheduled") /\ In(g, "completed") = In(sched, "completed")
          BY <2>6, <2>14 DEF In
        <4>3. edited \/ Fitting(g, stu.done)
          BY <4>1, <4>2 DEF Fitting, Room0
        <4>4. OnDay(sched, slot[1]) \subseteq {s} /\ OneADay(sched)
          BY <1>1, <2>4, <2>14, <4>1 DEF Planned, Room0
        <4>5. OneADay(g)
          <5> SUFFICES ASSUME NEW t \in Sessions, NEW u \in Sessions, g[t].status \in Occupying,
                              g[u].status \in Occupying, g[u].slot[1] = g[t].slot[1], t # u
                       PROVE  FALSE
            BY DEF OneADay, OnDay
          <5>1. CASE t = s
            BY <2>6, <4>4, <5>1 DEF OnDay
          <5>2. CASE u = s
            BY <2>6, <4>4, <5>2 DEF OnDay
          <5>3. CASE t # s /\ u # s
            BY <2>6, <4>4, <5>3 DEF OneADay, OnDay
          <5> QED
            BY <5>1, <5>2, <5>3
        <4>6. Room0'
          BY <1>1, <4>1, <4>3, <4>5 DEF Room0
        <4> QED
          BY <2>8, <4>6 DEF Planned
      <3> QED
        BY <2>8, <2>9, <2>10, <2>11, <3>1, WorkStep
    <2>15. CASE to # sched[s].status /\ to \in {"scheduled", "no_show"}
      <3>1. reopened' # {}
        BY <2>1, <2>15
      <3> QED
        BY <2>12, <3>1
    <2> QED
      BY <2>5, <2>13, <2>14, <2>15 DEF Occupying
  <1> QED
    BY <1>3, <1>4

(* A session is claimed as taken: it moves from the plan to the sessions   *)
(* completed, and the progress is due one more.                            *)
LEMMA SerialClaim ==
  ASSUME Typed, Typed', SerialInv, NEW r \in Requests, Claim(r)
  PROVE  SerialInv'
  <1> DEFINE s == arg[r].s
             g == sched'
             A == In(sched, "scheduled")
             B == In(sched, "completed")
  <1>0. /\ sched \in [Sessions -> Session] /\ Sent(r) /\ ever \in Nat /\ stu.done \in Nat /\ credit \in Nat
        /\ Cardinality(stu.grades) \in Nat /\ pc \in [Requests -> Places] /\ arg \in [Requests -> Locals]
    BY DoneIsNat DEF Typed, AllSent
  <1>1. pc[r] = "claim" /\ UNCHANGED <<stu, credit, overlap, reopened, edited>>
    BY DEF Claim
  <1>2. s \in Sessions
    BY <1>0, <1>1 DEF Sent, Known
  <1>3. CASE ~Claimable(s)
    <2>1. End(r) /\ UNCHANGED <<sched, ever>>
      BY <1>3 DEF Claim
    <2> QED
      BY <1>1, <2>1, FewerSame, SerialEnds
  <1>4. CASE Claimable(s)
    <2>1. /\ sched' = [sched EXCEPT ![s].status = "completed", ![s].confirm = "accepted"]
          /\ ever' = ever + 1 /\ pc' = [pc EXCEPT ![r] = "sync"] /\ sched[s].status = "scheduled"
      BY <1>4 DEF Claim, Claimable, Goto
    <2>2. pc'[r] = "sync" /\ \A q \in Requests \ {r} : pc'[q] = pc[q]
      BY <1>0, <2>1
    <2>3. overlap' = (overlap \/ \E q \in Requests \ {r} : pc[q] # "idle")
      BY <1>1, OnlyOne DEF SerialInv
    <2>4. g[s].status = "completed" /\ g[s].slot = sched[s].slot /\ \A t \in Sessions \ {s} : g[t] = sched[t]
      BY <1>0, <1>2, <2>1 DEF Session
    <2>5. In(g, "scheduled") = A \ {s} /\ In(g, "completed") = B \cup {s} /\ s \in A /\ s \notin B
      BY <1>2, <2>1, <2>4 DEF In
    <2>6. /\ Cardinality(In(g, "scheduled")) = Cardinality(A) - 1
          /\ Cardinality(In(g, "completed")) = Cardinality(B) + 1
          /\ Cardinality(A) \in Nat /\ Cardinality(B) \in Nat
      <3>1. IsFiniteSet(A) /\ IsFiniteSet(B) /\ Cardinality(A) \in Nat /\ Cardinality(B) \in Nat
        BY InCounts
      <3>2. Cardinality(B \cup {s}) = Cardinality(B) + 1
        BY <2>5, <3>1, FS_AddElement
      <3>3. Cardinality(A \ {s}) = Cardinality(A) - 1
        BY <2>5, <3>1, FS_RemoveElement
      <3> QED
        BY <2>5, <3>1, <3>2, <3>3
    <2>7. CompletedEver'
      <3>1. Cardinality(B) <= ever
        BY SerialFacts
      <3> QED
        BY <1>0, <2>1, <2>6, <3>1 DEF CompletedEver
    <2>8. ASSUME ~overlap PROVE Ahead' /\ Owed(r)'
      <3>1. Ahead
        BY <2>8, SerialFacts
      <3>2. /\ stu.done + 1 <= credit + ever' /\ Cardinality(stu.grades) + 1 <= ever'
            /\ stu.done <= credit + ever' /\ Cardinality(stu.grades) <= ever'
        BY <1>0, <2>1, <3>1 DEF Ahead
      <3> QED
        BY <1>1, <2>2, <3>2 DEF Ahead, Owed
    <2>9. ASSUME ~overlap, reopened' = {} PROVE Room0' /\ Planned(r)'
      <3>1. Room0
        BY <1>1, <2>9, SerialFacts
      <3>2. edited \/ Fitting(g, stu.done + 1)
        <4>1. edited \/ Cardinality(A) + Larger(Cardinality(B), stu.done) <= Total
          BY <3>1 DEF Room0, Fitting
        <4> HIDE DEF A, B
        <4> QED
          BY <1>0, <2>6, <4>1, TotalIsNat DEF Fitting, Larger
      <3>3. edited \/ Fitting(g, stu.done)
        BY <1>0, <3>2, FittingLess
      <3>4. OneADay(g)
        <4>1. \A t \in Sessions : (g[t].status \in Occupying <=> sched[t].status \in Occupying)
                                  /\ g[t].slot = sched[t].slot
          BY <1>2, <2>1, <2>4 DEF Occupying
        <4>2. OneADay(sched)
          BY <3>1 DEF Room0
        <4> HIDE DEF g
        <4> QED
          BY <4>1, <4>2 DEF OneADay, OnDay
      <3>5. Room0'
        BY <1>1, <3>1, <3>3, <3>4 DEF Room0
      <3> QED
        BY <1>1, <2>2, <3>2, <3>5 DEF Planned
    <2> QED
      BY <2>2, <2>3, <2>7, <2>8, <2>9, WorkStep
  <1> QED
    BY <1>3, <1>4

LEMMA SerialSync ==
  ASSUME Typed, Typed', SerialInv, NEW r \in Requests, Sync(r)
  PROVE  SerialInv'
  <1> DEFINE C == Cardinality(In(sched, "completed"))
             n == Recount(stu.done, C)
  <1>0. /\ ever \in Nat /\ stu.done \in Nat /\ credit \in Nat /\ Cardinality(stu.grades) \in Nat
        /\ pc \in [Requests -> Places] /\ arg \in [Requests -> Locals] /\ C \in Nat
    BY DoneIsNat, InCounts
  <1>1. pc[r] = "sync" /\ UNCHANGED <<sched, stu, credit, ever, overlap, reopened, edited>>
    BY DEF Sync, ghosts
  <1>2. In(sched, "completed") = With("completed")
    BY DEF In, With
  <1>3. /\ pc'[r] = "save" /\ \A q \in Requests \ {r} : pc'[q] = pc[q]
        /\ arg'[r].copy.done = n /\ arg'[r].copy.grades = stu.grades
    BY <1>0, <1>2 DEF Sync, Goto, Locals
  <1>4. overlap' = (overlap \/ \E q \in Requests \ {r} : pc[q] # "idle")
    BY <1>1, OnlyOne DEF SerialInv
  <1>5. CompletedEver'
    BY <1>1 DEF SerialInv, CompletedEver
  <1>6. n \in Nat /\ (C > stu.done => n = C) /\ (C <= stu.done => n = Smaller(Total, stu.done + 1))
    BY <1>0, TotalIsNat DEF Recount, Smaller
  <1>7. ASSUME ~overlap PROVE Ahead' /\ Owed(r)'
    <2>1. Ahead /\ stu.done + 1 <= credit + ever /\ Cardinality(stu.grades) + 1 <= ever /\ C <= ever
      BY <1>1, <1>7, SerialFacts DEF Owed
    <2> HIDE DEF n, C
    <2>2. n <= credit + ever
      BY <1>0, <1>6, <2>1, TotalIsNat DEF Smaller
    <2> QED
      BY <1>1, <1>3, <2>1, <2>2 DEF Ahead, Owed
  <1>8. ASSUME ~overlap, reopened' = {} PROVE Room0' /\ Planned(r)'
    <2>1. Room0 /\ (edited \/ (Fitting(sched, stu.done + 1) /\ Cardinality(stu.grades) <= stu.done))
      BY <1>1, <1>8, SerialFacts DEF Planned, Room0
    <2>2. edited \/ Cardinality(In(sched, "scheduled")) + Larger(C, stu.done + 1) <= Total
      BY <2>1 DEF Fitting
    <2> HIDE DEF n, C
    <2>3. edited \/ /\ Cardinality(In(sched, "scheduled")) + Larger(C, n) <= Total
                    /\ Cardinality(stu.grades) + 1 <= n
      BY <1>0, <1>6, <2>1, <2>2, InCounts, TotalIsNat DEF Smaller, Larger
    <2>4. edited \/ Fitting(sched, n)
      BY <2>3 DEF Fitting, C
    <2>5. Room0'
      BY <1>1, <2>1 DEF Room0
    <2> QED
      BY <1>1, <1>3, <2>3, <2>4, <2>5 DEF Planned
  <1> QED
    BY <1>3, <1>4, <1>5, <1>7, <1>8, WorkStep

LEMMA SerialSyncSave ==
  ASSUME Typed, Typed', SerialInv, NEW r \in Requests, SyncSave(r)
  PROVE  SerialInv'
  <1>0. /\ ever \in Nat /\ credit \in Nat /\ pc \in [Requests -> Places] /\ arg \in [Requests -> Locals]
        /\ arg[r].copy.done \in Nat /\ Cardinality(arg[r].copy.grades) \in Nat
    BY DoneIsNat
  <1>1. pc[r] = "save" /\ stu' = arg[r].copy /\ UNCHANGED <<sched, arg, credit, ever, overlap, reopened, edited>>
    BY DEF SyncSave, SaveStudent, ghosts
  <1>2. pc'[r] = "log" /\ \A q \in Requests \ {r} : pc'[q] = pc[q]
    BY <1>0 DEF SyncSave, Goto, Places
  <1>3. overlap' = (overlap \/ \E q \in Requests \ {r} : pc[q] # "idle")
    BY <1>1, OnlyOne DEF SerialInv
  <1>4. CompletedEver'
    BY <1>1 DEF SerialInv, CompletedEver
  <1>5. ASSUME ~overlap PROVE Ahead' /\ Owed(r)'
    <2>1. arg[r].copy.done <= credit + ever /\ Cardinality(arg[r].copy.grades) + 1 <= ever
      BY <1>1, <1>5, SerialFacts DEF Owed
    <2>2. Cardinality(arg[r].copy.grades) <= ever
      BY <1>0, <2>1
    <2> QED
      BY <1>1, <1>2, <2>1, <2>2 DEF Ahead, Owed
  <1>6. ASSUME ~overlap, reopened' = {} PROVE Room0' /\ Planned(r)'
    <2>1. Room0 /\ (edited \/ /\ Fitting(sched, arg[r].copy.done)
                              /\ Cardinality(arg[r].copy.grades) + 1 <= arg[r].copy.done)
      BY <1>1, <1>6, SerialFacts DEF Planned
    <2>2. edited \/ Cardinality(arg[r].copy.grades) <= arg[r].copy.done
      BY <1>0, <2>1
    <2> QED
      BY <1>1, <1>2, <2>1, <2>2 DEF Room0, Planned
  <1> QED
    BY <1>2, <1>3, <1>4, <1>5, <1>6, WorkStep

LEMMA SerialLogSave ==
  ASSUME Typed, Typed', SerialInv, NEW r \in Requests, LogSave(r)
  PROVE  SerialInv'
  <1> DEFINE c == arg[r].copy
             G == c.grades \cup {Logged(arg[r].slot)}
  <1>0. /\ ever \in Nat /\ credit \in Nat /\ pc \in [Requests -> Places] /\ arg \in [Requests -> Locals]
        /\ c \in Progress /\ c.done \in Nat /\ c.grades \subseteq Days /\ Cardinality(c.grades) \in Nat
    BY DoneIsNat
  <1>1. pc[r] = "log" /\ UNCHANGED <<sched, credit, ever, overlap, reopened, edited>>
        /\ stu' = [c EXCEPT !.grades = @ \cup {Logged(arg[r].slot)}]
    BY DEF LogSave, SaveStudent
  <1>2. pc'[r] = "idle" /\ \A q \in Requests \ {r} : pc'[q] = pc[q]
    BY <1>0 DEF LogSave, Places
  <1>3. overlap' = (overlap \/ \E q \in Requests \ {r} : pc[q] # "idle")
    BY <1>1, OnlyOne DEF SerialInv
  <1>4. CompletedEver'
    BY <1>1 DEF SerialInv, CompletedEver
  <1>5. IsFiniteSet(c.grades)
    BY <1>0, AttendanceAssumption, FS_Subset
  <1>6. Cardinality(G) <= Cardinality(c.grades) + 1 /\ Cardinality(G) \in Nat
    <2> DEFINE day == Logged(arg[r].slot)
    <2>0. G = c.grades \cup {day}
      OBVIOUS
    <2> HIDE DEF c, day, G
    <2>1. CASE day \in c.grades
      <3>1. G = c.grades
        BY <2>0, <2>1
      <3> QED
        BY <1>0, <3>1
    <2>2. CASE day \notin c.grades
      <3>1. Cardinality(c.grades \cup {day}) = Cardinality(c.grades) + 1
        BY <1>5, <2>2, FS_AddElement
      <3>2. Cardinality(G) = Cardinality(c.grades) + 1
        BY <2>0, <3>1
      <3> QED
        BY <1>0, <3>2
    <2> QED
      BY <2>1, <2>2
  <1> HIDE DEF c
  <1>7. stu'.done = c.done /\ stu'.grades = G
    BY <1>0, <1>1 DEF Progress
  <1> HIDE DEF G
  <1>8. ASSUME ~overlap PROVE Ahead' /\ Owed(r)'
    <2>1. c.done <= credit + ever /\ Cardinality(c.grades) + 1 <= ever
      BY <1>1, <1>8, SerialFacts DEF Owed, c
    <2>2. Cardinality(G) <= ever
      BY <1>0, <1>6, <2>1
    <2> QED
      BY <1>1, <1>2, <1>7, <2>1, <2>2 DEF Ahead, Owed
  <1>9. ASSUME ~overlap, reopened' = {} PROVE Room0' /\ Planned(r)'
    <2>1. Room0 /\ (edited \/ (Fitting(sched, c.done) /\ Cardinality(c.grades) + 1 <= c.done))
      BY <1>1, <1>9, SerialFacts DEF Planned, c
    <2>2. edited \/ Cardinality(G) <= c.done
      BY <1>0, <1>6, <2>1
    <2> QED
      BY <1>1, <1>2, <1>7, <2>1, <2>2 DEF Room0, Planned
  <1> QED
    BY <1>2, <1>3, <1>4, <1>8, <1>9, WorkStep

LEMMA SerialResetWrite ==
  ASSUME Typed, Typed', SerialInv, NEW r \in Requests, ResetWrite(r)
  PROVE  SerialInv'
  <1> DEFINE c == arg[r].copy
             left == c.grades \ {arg[r].slot[1]}
  <1>0. /\ ever \in Nat /\ credit \in Nat /\ pc \in [Requests -> Places] /\ arg \in [Requests -> Locals]
        /\ c \in Progress /\ c.grades \subseteq Days /\ Cardinality(c.grades) \in Nat /\ stu.done \in Nat
    BY DoneIsNat
  <1>1. pc[r] = "reset" /\ UNCHANGED <<sched, ever, overlap, reopened, edited>> /\ credit' = 0
        /\ stu' = [c EXCEPT !.grades = left, !.done = Cardinality(left)]
    BY DEF ResetWrite
  <1>2. pc'[r] = "remove" /\ \A q \in Requests \ {r} : pc'[q] = pc[q]
    BY <1>0 DEF ResetWrite, Goto, Places
  <1>3. overlap' = (overlap \/ \E q \in Requests \ {r} : pc[q] # "idle")
    BY <1>1, OnlyOne DEF SerialInv
  <1>4. CompletedEver'
    BY <1>1 DEF SerialInv, CompletedEver
  <1>5. IsFiniteSet(c.grades) /\ left \subseteq c.grades
    BY <1>0, AttendanceAssumption, FS_Subset
  <1>6. Cardinality(left) <= Cardinality(c.grades) /\ Cardinality(left) \in Nat
    BY <1>5, FS_Subset, FS_CardinalityType
  <1> HIDE DEF c, left
  <1>7. stu'.done = Cardinality(left) /\ stu'.grades = left
    BY <1>0, <1>1 DEF Progress
  <1>8. ASSUME ~overlap PROVE Ahead' /\ Owed(r)'
    <2>1. Cardinality(c.grades) <= ever
      BY <1>1, <1>8, SerialFacts DEF Owed, c
    <2>2. Cardinality(left) <= ever /\ Cardinality(left) <= 0 + ever
      BY <1>0, <1>6, <2>1
    <2> QED
      BY <1>1, <1>2, <1>7, <2>2 DEF Ahead, Owed
  <1>9. ASSUME ~overlap, reopened' = {} PROVE Room0' /\ Planned(r)'
    <2>1. Room0 /\ (edited \/ (Fitting(sched, stu.done) /\ Cardinality(c.grades) <= stu.done))
      BY <1>1, <1>9, SerialFacts DEF Planned, Room0, c
    <2>2. edited \/ Fitting(sched, Cardinality(left))
      BY <1>0, <1>6, <2>1, FittingLess
    <2> QED
      BY <1>1, <1>2, <1>6, <1>7, <2>1, <2>2 DEF Room0, Planned
  <1> QED
    BY <1>2, <1>3, <1>4, <1>8, <1>9, WorkStep

(* The progress set by hand, with nothing else in progress: it counts as   *)
(* credited, and the course is no longer measured.                         *)
LEMMA SerialEditSave ==
  ASSUME Typed, Typed', SerialInv, NEW r \in Requests, EditSave(r)
  PROVE  SerialInv'
  <1> DEFINE c == arg[r].copy
  <1>0. /\ ever \in Nat /\ credit \in Nat /\ pc \in [Requests -> Places] /\ stu \in Progress
        /\ c \in Progress /\ c.done \in Nat /\ Cardinality(c.grades) \in Nat
    BY DoneIsNat, Parts DEF Typed, RestFits
  <1>1. /\ pc[r] = "edit" /\ r \notin behind /\ edited'
        /\ UNCHANGED <<sched, ever, overlap, reopened>>
    BY DEF EditSave, SaveStudent, Current
  <1>2. pc'[r] = "idle" /\ \A q \in Requests \ {r} : pc'[q] = pc[q]
    BY <1>0 DEF EditSave, Places
  <1>3. overlap' = (overlap \/ \E q \in Requests \ {r} : pc[q] # "idle")
    BY <1>1, OnlyOne DEF SerialInv
  <1>4. CompletedEver'
    BY <1>1 DEF SerialInv, CompletedEver
  <1>5. ASSUME ~overlap PROVE Ahead' /\ Owed(r)'
    <2>1. Cardinality(c.grades) <= ever /\ Cardinality(stu.grades) <= ever
      BY <1>1, <1>5, SerialFacts DEF Owed, Ahead
    <2>2. Holders \ behind = {r}
      BY <1>1, <1>5 DEF SerialInv, Alone, Holders
    <2>3. credit' = c.done
      BY <2>2 DEF EditSave
    <2>4. stu' = c \/ stu' = [stu EXCEPT !.done = c.done]
      BY DEF EditSave, SaveStudent
    <2> HIDE DEF c
    <2>5. stu'.done = c.done /\ (stu'.grades = c.grades \/ stu'.grades = stu.grades)
      BY <1>0, <2>4 DEF Progress
    <2>6. c.done <= c.done + ever
      BY <1>0
    <2>7. Ahead'
      BY <1>1, <2>1, <2>3, <2>5, <2>6 DEF Ahead
    <2> QED
      BY <1>2, <2>7 DEF Owed
  <1>6. ASSUME ~overlap, reopened' = {} PROVE Room0' /\ Planned(r)'
    <2>1. OneADay(sched)
      BY <1>1, <1>6, SerialFacts DEF Room0
    <2> QED
      BY <1>1, <1>2, <2>1 DEF Room0, Planned
  <1> QED
    BY <1>2, <1>3, <1>4, <1>5, <1>6, WorkStep

LEMMA SerialStep ==
  ASSUME Typed, SerialInv, [AttendanceNext]_avars
  PROVE  SerialInv'
  <1>1. Typed'
    BY TypedStep
  <1> QED
    BY <1>1, SerialBegins, SerialOthers, SerialQuietEnds, SerialInsert, SerialPut, SerialClaim, SerialSync,
       SerialSyncSave, SerialLogSave, SerialEditSave, SerialResetWrite DEF AttendanceNext

LEMMA SerialInit == AttendanceInit => SerialInv
  <1> SUFFICES ASSUME AttendanceInit
               PROVE  SerialInv
    OBVIOUS
  <1>1. credit \in Nat /\ credit < Total /\ ever = 0
    BY AttendanceAssumption DEF AttendanceInit
  <1>2. stu.done = credit /\ stu.grades = {}
    BY DEF AttendanceInit, NoCopy
  <1>3. \A s \in Sessions : sched[s].status = "none"
    BY DEF AttendanceInit, NoSession
  <1>4. In(sched, "scheduled") = {} /\ In(sched, "completed") = {}
    BY <1>3 DEF In
  <1>5. Cardinality({}) = 0
    BY FS_EmptySet
  <1>6. \A r \in Requests : pc[r] = "idle"
    BY DEF AttendanceInit
  <1>7. Alone /\ CompletedEver /\ AheadInv
    BY <1>1, <1>2, <1>4, <1>5, <1>6 DEF Alone, CompletedEver, AheadInv, Ahead, Owed
  <1>8. Fitting(sched, stu.done)
    BY <1>1, <1>2, <1>4, <1>5, TotalIsNat DEF Fitting, Larger
  <1>9. OneADay(sched)
    BY <1>3 DEF OneADay, Occupying
  <1>10. RoomInv
    BY <1>1, <1>2, <1>5, <1>6, <1>8, <1>9 DEF RoomInv, Room0, Planned
  <1> QED
    BY <1>7, <1>10 DEF SerialInv

LEMMA SerialInvariant == AttendanceSpec => [](Typed /\ SerialInv)
  <1>1. AttendanceInit => Typed /\ SerialInv
    BY AttendanceInitInv, SerialInit DEF AttendanceInv
  <1>2. Typed /\ SerialInv /\ [AttendanceNext]_avars => (Typed /\ SerialInv)'
    BY TypedStep, SerialStep
  <1> QED
    BY <1>1, <1>2, PTL DEF AttendanceSpec

(* Of requests one after another, attendance is a recount: the progress is *)
(* never ahead of the sessions that were credited or completed, whatever   *)
(* crashes between the two saves, is deleted, reset or answered twice.     *)
THEOREM ProgressIsCompleted == AttendanceSpec => []NeverAhead
  <1>1. Typed /\ SerialInv => NeverAhead
    BY DEF SerialInv, AheadInv, Ahead, NeverAhead
  <1> QED
    BY <1>1, SerialInvariant, PTL

(* Of requests one after another, and while no session is reopened by      *)
(* hand, the course is not overbooked and no day has two sessions: taking, *)
(* moving, crediting and resetting sessions keep what was planned within   *)
(* what is left of the course, until the progress is set by hand.          *)
THEOREM PlanFits == AttendanceSpec => []LimitsHold
  <1>1. Typed /\ SerialInv => LimitsHold
    <2> SUFFICES ASSUME Typed, SerialInv, ~overlap, reopened = {}
                 PROVE  /\ ~edited => Cardinality(With("scheduled"))
                                         + Larger(Cardinality(With("completed")), stu.done) <= Total
                        /\ \A day \in Days : Cardinality(On(day)) <= 1
      BY DEF LimitsHold
    <2>1. (edited \/ Fitting(sched, stu.done)) /\ OneADay(sched)
      BY DEF SerialInv, RoomInv, Room0
    <2>2. With("scheduled") = In(sched, "scheduled") /\ With("completed") = In(sched, "completed")
      BY DEF With, In
    <2>3. ASSUME NEW day \in Days PROVE Cardinality(On(day)) <= 1
      <3>1. \A s, t \in On(day) : s = t
        BY <2>1 DEF On, OneADay, OnDay
      <3>2. CASE On(day) = {}
        BY <3>2, FS_EmptySet
      <3>3. CASE On(day) # {}
        <4>1. PICK s \in On(day) : On(day) = {s}
          BY <3>1, <3>3
        <4> QED
          BY <4>1, FS_Singleton
      <3> QED
        BY <3>2, <3>3
    <2> QED
      BY <2>1, <2>2, <2>3 DEF Fitting
  <1> QED
    BY <1>1, SerialInvariant, PTL
=============================================================================
