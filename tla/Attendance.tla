------------------------------ MODULE Attendance ------------------------------
(***************************************************************************)
(* The sessions of one student with one teacher in one course: planned,    *)
(* moved and cancelled (routes/scheduleRoutes.js, with the limits of       *)
(* services/schedulingValidation.js), taken (services/attendanceService.js)*)
(* and reset (routes/studentRoutes.js), and the progress of the            *)
(* enrollment that counts them, which staff and the teacher may also set   *)
(* by hand.                                                                *)
(*                                                                         *)
(* A request first reads and checks, then writes: the checks of a request  *)
(* are one action, each write is one.  A session is written by status or   *)
(* without any condition; the student is saved under the version of the    *)
(* document, except by a reset, which neither asks for the version nor     *)
(* moves it, and by a teacher's edit, which asks but does not move it.     *)
(* The clock is left out: any day may be today, and the windows of         *)
(* attendance and the refusals for past days do not show.  Other students  *)
(* of the teacher, changes of the total, notes, grades' values, previews,  *)
(* notifications and permissions are left out.                             *)
(***************************************************************************)
EXTENDS Naturals, FiniteSetsExt

CONSTANTS
  Sessions,    \* schedule documents that may be created
  Days, Times, \* a session takes place at one of Times on one of Days
  Requests,    \* slots for requests in progress
  Operations,  \* kinds of requests an instance has
  Total,       \* totalSessions of the enrollment
  NewStatuses, \* statuses a client may create a session with
  Numbers,     \* numbers of sessions done that a client may send
  MaxCredit,   \* bound: sessions credited before the first is taken
  MaxEdits     \* bound: changes by hand (PUT) that are not attendance

ASSUME AttendanceAssumption ==
  /\ IsFiniteSet(Sessions) /\ IsFiniteSet(Days)
  /\ Total \in Nat \ {0}
  /\ NewStatuses \subseteq {"scheduled", "completed", "no_show", "cancelled"}
  /\ Numbers \subseteq 0..Total
  /\ MaxCredit \in 0..(Total - 1)
  /\ MaxEdits \in Nat

VARIABLES
  sched,     \* the schedule documents
  stu,       \* the enrollment: sessions done, whether closed, days with a grade
  pc,        \* pc[r]: next step of request r, or "idle"
  arg,       \* arg[r]: what it was sent and has read
  behind,    \* requests whose copy of the student has an older version
  credit,    \* sessions credited at the start or by the last edit of the
             \* progress; a reset forgets them
  ever,      \* number of completions of sessions so far
  taken,     \* number of them answered as taken since the last reset or edit
  reopened,  \* sessions set to scheduled or no_show by hand
  overlap,   \* two requests have been in progress at once
  edited,    \* the progress has been set by hand
  edits      \* number of changes by hand

ghosts == <<credit, ever, taken, reopened, overlap, edited, edits>>
avars  == <<sched, stu, pc, arg, behind, ghosts>>

Slots     == Days \X Times
NoSlot    == <<"none", "none">>
Occupying == {"scheduled", "completed", "no_show"}
Statuses  == Occupying \cup {"cancelled"}
Answers   == {"pending", "disputed", "accepted", "admin_rejected"}
NoSession == [status |-> "none", confirm |-> "none", slot |-> NoSlot]
Session   == [status : Statuses \cup {"none", "deleted"}, confirm : Answers \cup {"none"},
              slot : Slots \cup {NoSlot}]
Deleted   == [NoSession EXCEPT !.status = "deleted"]
Progress  == [done : Nat, closed : BOOLEAN, grades : SUBSET Days]
NoCopy    == [done |-> 0, closed |-> FALSE, grades |-> {}]
Takes     == {"accept", "approve", "direct"}
Kinds     == {"create", "put", "cancel", "ask", "take", "reset", "edit"}
Steps     == {"insert", "put", "cancel", "ask", "claim", "sync", "save", "log", "reset", "remove", "edit"}
NoArg     == [op |-> "none", s |-> "none", slot |-> NoSlot, to |-> "none", copy |-> NoCopy]

With(status) == {s \in Sessions : sched[s].status = status}
On(day)      == {s \in Sessions : sched[s].status \in Occupying /\ sched[s].slot[1] = day}
Larger(a, b) == IF a > b THEN a ELSE b
Smaller(a, b) == IF a < b THEN a ELSE b

(* A request passes its checks and goes on to its first write.             *)
Begin(r, a, step) ==
  /\ pc[r] = "idle"
  /\ a.op \in Operations
  /\ pc' = [pc EXCEPT ![r] = step]
  /\ arg' = [arg EXCEPT ![r] = a]
  /\ overlap' = (overlap \/ \E q \in Requests : pc[q] # "idle")

Goto(r, step) == pc' = [pc EXCEPT ![r] = step]
\* Done, or refused, or failed: its slot is free again.
End(r) == /\ Goto(r, "idle")
          /\ arg' = [arg EXCEPT ![r] = NoArg]
          /\ behind' = behind \ {r}

-----------------------------------------------------------------------------
(* The limits: the course is open and has a session left, counting the     *)
(* credited ones, and the student has no session that day.                 *)
Room(others) ==
  Cardinality((With("scheduled") \cup With("completed")) \cap others)
    + Larger(0, stu.done - Cardinality(With("completed") \cap others)) < Total

\* Operators called Bug... are mistakes the properties must notice.
BugAllowed(slot, others) == ~stu.closed /\ Room(others)

Allowed(slot, others) ==
  /\ ~stu.closed
  /\ Room(others)
  /\ On(slot[1]) \cap others = {}

\* The unique index: one session of the teacher at a time.
Taken(slot, others) == \E s \in others : sched[s].status \in Occupying /\ sched[s].slot = slot

(* POST /schedules, with any status.  One created as completed is refused  *)
(* within twelve hours of another; it is not counted until the next        *)
(* attendance.                                                             *)
Create(r, slot, to) ==
  /\ Begin(r, [NoArg EXCEPT !.op = "create", !.slot = slot, !.to = to], "insert")
  /\ Allowed(slot, Sessions)
  /\ UNCHANGED <<sched, stu, behind, credit, ever, taken, reopened, edited, edits>>

Insert(r) ==
  /\ pc[r] = "insert"
  /\ IF arg[r].to \in Occupying /\ Taken(arg[r].slot, Sessions)
     THEN UNCHANGED <<sched, ever>>
     ELSE \E s \in With("none") :
            /\ sched' = [sched EXCEPT ![s] = [status |-> arg[r].to, confirm |-> "none",
                                              slot |-> arg[r].slot]]
            /\ ever' = IF arg[r].to = "completed" THEN ever + 1 ELSE ever
  /\ End(r)
  /\ UNCHANGED <<stu, credit, taken, reopened, overlap, edited, edits>>

(* PUT /schedules/:id, other than taking it: a new time is checked, a new  *)
(* status is not; what was read does not restrict the write.               *)
Put(r, s, slot, to) ==
  /\ sched[s].status \in Statuses
  /\ edits < MaxEdits
  /\ edits' = edits + 1
  /\ Begin(r, [NoArg EXCEPT !.op = "put", !.s = s, !.slot = slot, !.to = to], "put")
  /\ slot = NoSlot => to # "none"
  /\ slot # NoSlot => Allowed(slot, Sessions \ {s})
  /\ UNCHANGED <<sched, stu, behind, credit, ever, taken, reopened, edited>>

PutSave(r) ==
  LET s    == arg[r].s
      to   == IF arg[r].to = "none" THEN sched[s].status ELSE arg[r].to
      slot == IF arg[r].slot = NoSlot THEN sched[s].slot ELSE arg[r].slot
  IN  /\ pc[r] = "put"
      /\ IF sched[s].status = "deleted" \/ (to \in Occupying /\ Taken(slot, Sessions \ {s}))
         THEN UNCHANGED <<sched, reopened>>
         ELSE /\ sched' = [sched EXCEPT ![s].status = to, ![s].slot = slot]
              /\ reopened' = IF to \in {"scheduled", "no_show"} /\ to # sched[s].status
                             THEN reopened \cup {s} ELSE reopened
      /\ End(r)
      /\ UNCHANGED <<stu, credit, ever, taken, overlap, edited, edits>>

(* PATCH cancel: refused for a session read as completed or cancelled.     *)
Cancel(r, s) ==
  /\ sched[s].status \in {"scheduled", "no_show"}
  /\ Begin(r, [NoArg EXCEPT !.op = "cancel", !.s = s], "cancel")
  /\ UNCHANGED <<sched, stu, behind, credit, ever, taken, reopened, edited, edits>>

CancelSave(r) ==
  LET s == arg[r].s IN
  /\ pc[r] = "cancel"
  /\ sched' = IF sched[s].status = "deleted" THEN sched
              ELSE [sched EXCEPT ![s].status = "cancelled"]
  /\ End(r)
  /\ UNCHANGED <<stu, ghosts>>

Delete(s) ==
  /\ "delete" \in Operations
  /\ sched[s].status \in Statuses
  /\ sched' = [sched EXCEPT ![s] = Deleted]
  /\ UNCHANGED <<stu, pc, arg, behind, ghosts>>

-----------------------------------------------------------------------------
(* Attendance.  The gate: the course is not closed and has a session left. *)
Gate == ~stu.closed /\ Larger(Cardinality(With("completed")), stu.done) < Total

(* A teacher asks the student to confirm.                                  *)
Ask(r, s) ==
  /\ sched[s].status = "scheduled"
  /\ sched[s].confirm \in {"none", "admin_rejected"}
  /\ Begin(r, [NoArg EXCEPT !.op = "ask", !.s = s], "ask")
  /\ Gate
  /\ UNCHANGED <<sched, stu, behind, credit, ever, taken, reopened, edited, edits>>

AskClaim(r) ==
  LET s == arg[r].s IN
  /\ pc[r] = "ask"
  /\ sched' = IF sched[s].status = "scheduled" /\ sched[s].confirm = "none"
              THEN [sched EXCEPT ![s].confirm = "pending"] ELSE sched
  /\ End(r)
  /\ UNCHANGED <<stu, ghosts>>

(* The student disputes, an administrator rejects: each reads and writes   *)
(* under the same condition.                                               *)
Dispute(s) ==
  /\ "dispute" \in Operations
  /\ sched[s].status = "scheduled" /\ sched[s].confirm = "pending"
  /\ sched' = [sched EXCEPT ![s].confirm = "disputed"]
  /\ UNCHANGED <<stu, pc, arg, behind, ghosts>>

Reject(s) ==
  /\ "dispute" \in Operations
  /\ sched[s].status = "scheduled" /\ sched[s].confirm = "disputed"
  /\ sched' = [sched EXCEPT ![s].status = "cancelled", ![s].confirm = "admin_rejected"]
  /\ UNCHANGED <<stu, pc, arg, behind, ghosts>>

(* A session is taken: the student accepts, an administrator approves a    *)
(* disputed one or takes any directly.                                     *)
Ready(op, s) ==
  /\ sched[s].status = "scheduled"
  /\ op = "accept" => sched[s].confirm = "pending"
  /\ op = "approve" => sched[s].confirm = "disputed"

Take(r, s, op) ==
  /\ op \in Operations
  /\ Begin(r, [NoArg EXCEPT !.op = "take", !.s = s], "claim")
  /\ Ready(op, s)
  /\ Gate
  /\ UNCHANGED <<sched, stu, behind, credit, ever, taken, reopened, edited, edits>>

(* The claim depends on the status alone.  Nothing asks later whether the  *)
(* student accepted or an administrator approved ("admin_approved").       *)
BugClaimable(s) == sched[s].status \in Statuses

Claimable(s) == sched[s].status = "scheduled"

Claim(r) ==
  LET s == arg[r].s IN
  /\ pc[r] = "claim"
  /\ IF Claimable(s)
     THEN /\ sched' = [sched EXCEPT ![s].status = "completed", ![s].confirm = "accepted"]
          /\ ever' = ever + 1
          /\ Goto(r, "sync")
          /\ arg' = [arg EXCEPT ![r] = [NoArg EXCEPT !.op = "take",
                                                      !.slot = <<sched[s].slot[1], "none">>]]
          /\ UNCHANGED behind
     ELSE End(r) /\ UNCHANGED <<sched, ever>>
  /\ UNCHANGED <<stu, credit, taken, reopened, overlap, edited, edits>>

(* Progress: the larger of what is stored and the sessions completed, and  *)
(* one more than before if that is no progress, at most the total.         *)
BugRecount(done, count) == Larger(count, done) + 1

Recount(done, count) ==
  IF count > done THEN count ELSE Smaller(Total, done + 1)

Sync(r) ==
  LET done == Recount(stu.done, Cardinality(With("completed"))) IN
  /\ pc[r] = "sync"
  /\ arg' = [arg EXCEPT ![r].copy = [done |-> done, closed |-> stu.closed \/ done >= Total,
                                     grades |-> stu.grades]]
  /\ behind' = behind \ {r}
  /\ Goto(r, "save")
  /\ UNCHANGED <<sched, stu, ghosts>>

(* The student is saved whole, unless its version has moved: then the      *)
(* request fails and its session stays completed.                          *)
Holders == {q \in Requests : pc[q] \in {"save", "log", "edit"}}

BugCurrent(r) == TRUE

Current(r) == r \notin behind

SaveStudent(r, step, new) ==
  /\ pc[r] = step
  /\ Current(r)
  /\ stu' = new

SaveFails(r) ==
  /\ r \in Holders
  /\ ~Current(r)
  /\ End(r)
  /\ UNCHANGED <<sched, stu, ghosts>>

SyncSave(r) ==
  /\ SaveStudent(r, "save", arg[r].copy)
  /\ Goto(r, "log")
  /\ behind' = behind \cup (Holders \ {r})
  /\ UNCHANGED <<sched, arg, ghosts>>

(* The second save writes the day into the log of grades.                  *)
BugLogged(slot) == slot

Logged(slot) == slot[1]

LogSave(r) ==
  /\ SaveStudent(r, "log", [arg[r].copy EXCEPT !.grades = @ \cup {Logged(arg[r].slot)}])
  /\ taken' = taken + 1
  /\ pc' = [pc EXCEPT ![r] = "idle"]
  /\ arg' = [arg EXCEPT ![r] = NoArg]
  /\ behind' = (behind \cup Holders) \ {r}
  /\ UNCHANGED <<sched, credit, ever, reopened, overlap, edited, edits>>

(* Anything else that saves the student, its sessions excepted.            *)
OtherSave ==
  /\ "other" \in Operations
  /\ behind' = behind \cup Holders
  /\ UNCHANGED <<sched, stu, pc, arg, ghosts>>

(* PUT /students/:id and PUT .../settings: the sessions done become what   *)
(* the client sends, for instance what its page has shown for an hour.     *)
Edit(r, n) ==
  /\ edits < MaxEdits
  /\ edits' = edits + 1
  /\ Begin(r, [NoArg EXCEPT !.op = "edit", !.copy = [stu EXCEPT !.done = n]], "edit")
  /\ UNCHANGED <<sched, stu, behind, credit, ever, taken, reopened, edited>>

(* Staff save the student whole.  A teacher's save writes the number alone *)
(* and does not move the version: a session being taken may overwrite it.  *)
EditSave(r) ==
  LET n == arg[r].copy.done IN
  /\ \/ /\ SaveStudent(r, "edit", arg[r].copy)
        /\ credit' = n
        /\ behind' = (behind \cup Holders) \ {r}
     \/ /\ SaveStudent(r, "edit", [stu EXCEPT !.done = n])
        /\ credit' = IF Holders \ behind = {r} THEN n ELSE 0
        /\ behind' = behind \ {r}
  /\ taken' = 0
  /\ edited' = TRUE
  /\ pc' = [pc EXCEPT ![r] = "idle"]
  /\ arg' = [arg EXCEPT ![r] = NoArg]
  /\ UNCHANGED <<sched, ever, reopened, overlap, edits>>

-----------------------------------------------------------------------------
(* Reset of today's attendance: the grade of the day goes, the sessions    *)
(* done become the number of days with a grade, the course stays closed;   *)
(* then the completed sessions of the day, by universal time, are deleted. *)
Reset(r, day) ==
  /\ day \in stu.grades
  /\ Begin(r, [NoArg EXCEPT !.op = "reset", !.slot = <<day, "none">>,
                         !.copy = [stu EXCEPT !.done = 0]], "reset")
  /\ UNCHANGED <<sched, stu, behind, credit, ever, taken, reopened, edited, edits>>

ResetWrite(r) ==
  LET left == arg[r].copy.grades \ {arg[r].slot[1]} IN
  /\ pc[r] = "reset"
  /\ stu' = [arg[r].copy EXCEPT !.grades = left, !.done = Cardinality(left)]
  /\ credit' = 0
  /\ taken' = 0
  /\ Goto(r, "remove")
  /\ arg' = [arg EXCEPT ![r] = [NoArg EXCEPT !.op = "reset"]]
  /\ UNCHANGED <<sched, behind, ever, reopened, overlap, edited, edits>>

ResetRemove(r, day) ==
  /\ pc[r] = "remove"
  /\ sched' = [s \in Sessions |->
                 IF s \in With("completed") \cap On(day)
                 THEN Deleted ELSE sched[s]]
  /\ End(r)
  /\ UNCHANGED <<stu, ghosts>>

(* Reset of the history: all sessions go, the progress stays.              *)
ResetHistory ==
  /\ "history" \in Operations
  /\ sched' = [s \in Sessions |-> IF sched[s].status = "none" THEN sched[s]
                                  ELSE Deleted]
  /\ UNCHANGED <<stu, pc, arg, behind, ghosts>>

(* The server dies.                                                        *)
Crash ==
  /\ \E r \in Requests : pc[r] # "idle"
  /\ pc' = [r \in Requests |-> "idle"]
  /\ arg' = [r \in Requests |-> NoArg]
  /\ behind' = {}
  /\ UNCHANGED <<sched, stu, ghosts>>

AttendanceInit ==
  /\ sched = [s \in Sessions |-> NoSession]
  /\ credit \in 0..MaxCredit
  /\ stu = [NoCopy EXCEPT !.done = credit]
  /\ pc = [r \in Requests |-> "idle"]
  /\ arg = [r \in Requests |-> NoArg]
  /\ behind = {} /\ ever = 0 /\ taken = 0 /\ reopened = {}
  /\ overlap = FALSE /\ edited = FALSE /\ edits = 0

AttendanceNext ==
  \/ \E r \in Requests :
       \/ \E slot \in Slots, to \in NewStatuses : Create(r, slot, to)
       \/ \E n \in Numbers : Edit(r, n)
       \/ \E s \in Sessions :
            \/ \E slot \in Slots \cup {NoSlot}, to \in {"none", "scheduled", "cancelled", "no_show"} :
                 Put(r, s, slot, to)
            \/ Cancel(r, s) \/ Ask(r, s)
            \/ \E op \in Takes : Take(r, s, op)
       \/ \E day \in Days : Reset(r, day) \/ ResetRemove(r, day)
       \/ Insert(r) \/ PutSave(r) \/ EditSave(r) \/ CancelSave(r) \/ AskClaim(r)
       \/ Claim(r) \/ Sync(r) \/ SyncSave(r) \/ LogSave(r) \/ SaveFails(r) \/ ResetWrite(r)
  \/ \E s \in Sessions : Delete(s) \/ Dispute(s) \/ Reject(s)
  \/ OtherSave \/ ResetHistory \/ Crash

AttendanceSpec == AttendanceInit /\ [][AttendanceNext]_avars

-----------------------------------------------------------------------------
(* Every variable has its type.                                            *)
AttendanceTypeOK ==
  /\ sched \in [Sessions -> Session]
  /\ stu \in Progress
  /\ pc \in [Requests -> Steps \cup {"idle"}]
  /\ arg \in [Requests -> [op : Kinds \cup {"none"}, s : Sessions \cup {"none"},
                slot : Slots \cup {NoSlot} \cup (Days \X {"none"}),
                to : Statuses \cup Answers \cup {"none"}, copy : Progress]]
  /\ behind \subseteq Requests
  /\ credit \in 0..Total
  /\ {ever, taken} \subseteq Nat
  /\ reopened \subseteq Sessions
  /\ {overlap, edited} \subseteq BOOLEAN /\ edits \in 0..MaxEdits

(* Every answer that a session is taken has moved the progress, however    *)
(* many were taken at once and whatever else saved the student, until the  *)
(* course is full.  A reset and an edit of the progress by hand begin anew:*)
(* they may undo what was counted before (the version check between the    *)
(* copy and the save, attendanceService.js:155 and 230).                   *)
TakenIsCounted == stu.done >= Smaller(Total, credit + taken)

(* A session an administrator has rejected is not completed, whatever      *)
(* answers were on their way; only a change of status by hand revives it.  *)
RejectedStays ==
  [][\A s \in Sessions \ reopened' :
       sched[s].confirm = "admin_rejected" => sched'[s].status \in {"cancelled", "deleted"}]_avars

(* The course is not overbooked: what is planned fits in what is left, and *)
(* the student has one session a day.  The limits are checked before the   *)
(* write and not at all when a session is set to scheduled by hand, so     *)
(* requests at once and reopened sessions are excused, and from the first  *)
(* a progress set by hand.                                                 *)
LimitsHold ==
  ~overlap /\ reopened = {} =>
    /\ ~edited => Cardinality(With("scheduled"))
                    + Larger(Cardinality(With("completed")), stu.done) <= Total
    /\ \A day \in Days : Cardinality(On(day)) <= 1

(* Without requests at once the progress is never ahead of the sessions    *)
(* completed.                                                              *)
NeverAhead == ~overlap => stu.done <= credit + ever

(* services/attendanceService.js:143: the counters are an idempotent       *)
(* recount of the completed sessions; those credited come on top.          *)
RecountIsIdempotent == stu.done <= credit + ever
=============================================================================
