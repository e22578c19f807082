-------------------------------- MODULE Exam --------------------------------
(***************************************************************************)
(* The exam attempts of one student (routes/studentRoutes.js,              *)
(* services/examAttemptStore.js, examAttemptService.js and                 *)
(* examProgressService.js) and the administrators who write the same       *)
(* progress array through PUT /students/:id.                               *)
(*                                                                         *)
(* The array examProgress is written in two ways.  A claim is one atomic   *)
(* findOneAndUpdate of one subject's entry, conditional on that entry; it  *)
(* leaves the version of the document alone.  A whole write replaces every *)
(* entry by those of an earlier copy: the student's practical work does it *)
(* under the version of the document, an administrator's tab without any   *)
(* condition.  Each awaited database operation is one action.              *)
(*                                                                         *)
(* A mark is abstracted to whether it passes: mc for the multiple choice   *)
(* part (50 %), essay for the practical part (5 of 10).  lockUntil is only *)
(* set together with khong_dat and never read by the server, so it has no  *)
(* variable.  The duration of an exam is assumed longer than the 90 s of a *)
(* soft release.  What staff may send to PUT exam-progress is left out (no *)
(* client does), and so is the button that removes countdowns and writes   *)
(* its copy of the entries as it is.                                       *)
(***************************************************************************)
EXTENDS Naturals, FiniteSets

CONSTANTS
  Subjects,       \* exam subjects
  Milestone,      \* subjects opened by the sessions the student has attended
  Requests,       \* slots for requests in progress
  Operations,     \* kinds of requests and writes an instance has
  MaxAttempts,    \* bound: attempts begun
  MaxWrites       \* bound: whole writes by administrators

ASSUME ExamAssumption ==
  /\ Subjects # {}
  /\ Milestone \subseteq Subjects
  /\ {MaxAttempts, MaxWrites} \subseteq Nat

VARIABLES
  essayRequired,  \* setting: subjects passed only with graded practical work
  entry,   \* the progress array of the student: entry[s] of subject s
  open,    \* the exam room is unlocked
  begun,   \* number of attempts begun; an attempt is its number
  age,     \* age[a]: "fresh" (within 90 s), "running", "over"
  tokens,  \* subject and attempt of the attempt tokens issued to the student
  pc,      \* pc[r]: next step of request r, or "idle"
  arg,     \* arg[r]: its subject, the attempt and the flag it carries
  snap,    \* snap[r]: its copy of the progress array
  behind,  \* requests that read the document in a version it no longer has
  copy,    \* the progress array in an administrator's tab
  writes,  \* whole writes by administrators so far
  stale,   \* a whole write was made from an outdated copy
  late,    \* a delayed start replaced an attempt graded meanwhile
  ended,   \* attempts a claim has ended
  graded   \* graded[a]: how often attempt a was graded

locals == <<pc, arg, snap, behind>>
ghosts == <<stale, late, ended, graded>>
admin  == <<essayRequired, copy, writes>>
evars  == <<entry, open, begun, age, tokens, locals, admin, ghosts>>

Attempts == 1..MaxAttempts
Verdicts == {"dat", "khong_dat"}
Absent   == [status |-> "absent", attempt |-> 0, state |-> "none",
             mc |-> FALSE, filed |-> FALSE, essay |-> "none"]
NotTaken == [Absent EXCEPT !.status = "chua_thi"]
Entry    == [status : {"absent", "chua_thi", "dang_thi"} \cup Verdicts,
             attempt : {0} \cup Attempts,
             state : {"none", "active", "submitted", "forfeited"},
             mc : BOOLEAN, filed : BOOLEAN, essay : {"none", "good", "bad"}]
Progress == [Subjects -> Entry]
NoCopy   == [s \in {} |-> Absent]
NoOne    == CHOOSE s \in Subjects : TRUE
NoArg    == [subject |-> NoOne, attempt |-> 0, flag |-> FALSE]

Goto(r, step) == pc' = [pc EXCEPT ![r] = step]

(* A request starts; read is what it keeps of the progress array.         *)
Begin(r, op, step, s, a, flag, read) ==
  /\ op \in Operations
  /\ pc[r] = "idle"
  /\ Goto(r, step)
  /\ arg' = [arg EXCEPT ![r] = [subject |-> s, attempt |-> a, flag |-> flag]]
  /\ snap' = [snap EXCEPT ![r] = read]
  /\ UNCHANGED behind

Finish(r) ==
  /\ Goto(r, "idle")
  /\ arg' = [arg EXCEPT ![r] = NoArg]
  /\ snap' = [snap EXCEPT ![r] = NoCopy]

-----------------------------------------------------------------------------
(* Claims (examAttemptStore.js): the entry of s is changed when it still   *)
(* is what the claim expects.  An ended attempt is noted.                  *)
\* Operators called Bug... are mistakes the properties must notice.
BugIsActive(s, a) == entry[s].attempt = a

BugIsOpen(s, a) ==
  /\ entry[s].state \in {"active", "submitted"}
  /\ a = 0 \/ entry[s].attempt = a

BugGivenUp(e) == [e EXCEPT !.state = "khong_dat", !.filed = FALSE]

IsActive(s, a) == entry[s].attempt = a /\ entry[s].state = "active"

IsOpen(s, a) ==
  /\ entry[s].status \in {"chua_thi", "dang_thi"}
  /\ entry[s].state \in {"active", "submitted"}
  /\ a = 0 \/ entry[s].attempt = a

Write(s, new) == entry' = [entry EXCEPT ![s] = new]

End(s, new) ==
  /\ Write(s, new)
  /\ ended' = ended \cup {entry[s].attempt}

(* No verdict, no hand-in: the attempt is given up.                        *)
GivenUp(e) == [e EXCEPT !.status = "khong_dat", !.state = "forfeited", !.filed = FALSE]

(* forfeitOpenStudentAttempt                                               *)
GiveUpOpen(s, a) ==
  IF IsOpen(s, a)
  THEN End(s, GivenUp(entry[s])) /\ UNCHANGED <<stale, late, graded>>
  ELSE UNCHANGED <<entry, ghosts>>

Gate(s) == entry[s].status = "dang_thi" \/ open \/ s \in Milestone

(* What starting an exam does with the entry it read (live: the attempt    *)
(* the client still holds).                                                *)
Decision(e, live) ==
  CASE e.status \in Verdicts -> "closed"
    [] e.status \notin Verdicts /\ e.filed -> "awaiting"
    [] e.status \notin Verdicts /\ ~e.filed
         /\ (e.status # "dang_thi" \/ e.state \notin {"active", "submitted"} \/ e.attempt = 0) -> "create"
    [] OTHER -> IF live = e.attempt THEN "resume" ELSE "abandon"

-----------------------------------------------------------------------------
(* POST exam-attempt                                                       *)
StartRead(r, s, live) ==
  LET e == entry[s]
      decision == Decision(e, live)
      expired == decision = "resume" /\ ~(e.state = "submitted" /\ e.mc) /\ age[e.attempt] = "over"
  IN  /\ Gate(s)
      /\ live = 0 \/ <<s, live>> \in tokens
      /\ \/ decision = "create" /\ Begin(r, "start", "startClaim", s, 0, e = Absent, NoCopy)
         \/ decision = "abandon" /\ Begin(r, "start", "startAbandon", s, e.attempt, FALSE, NoCopy)
         \/ expired /\ Begin(r, "start", "startExpire", s, e.attempt, FALSE, NoCopy)
      /\ UNCHANGED <<entry, open, begun, age, tokens, admin, ghosts>>

(* The exam was open and the client has lost it: given up.                 *)
StartAbandon(r) ==
  /\ pc[r] = "startAbandon"
  /\ GiveUpOpen(arg[r].subject, arg[r].attempt)
  /\ Finish(r)
  /\ UNCHANGED <<behind, open, begun, age, tokens, admin>>

(* The exam is resumed after its time: failed.                             *)
StartExpire(r) ==
  LET s == arg[r].subject IN
  /\ pc[r] = "startExpire"
  /\ IF IsActive(s, arg[r].attempt)
     THEN /\ End(s, [entry[s] EXCEPT !.status = "khong_dat", !.state = "forfeited"])
          /\ UNCHANGED <<stale, late, graded>>
     ELSE UNCHANGED <<entry, ghosts>>
  /\ Finish(r)
  /\ UNCHANGED <<behind, open, begun, age, tokens, admin>>

(* May the request put its new attempt into the entry?  A missing entry is *)
(* pushed, one that was there is claimed.                                  *)
BugClaims(r) == arg[r].flag \/ entry[arg[r].subject].status \in {"chua_thi", "dang_thi"}

Claims(r) ==
  LET now == entry[arg[r].subject] IN
  IF arg[r].flag
  THEN now = Absent
  ELSE now.state # "active" /\ now.status \in {"chua_thi", "dang_thi"}

(* The token of the attempt is issued.  An answer lost, or replaced by an  *)
(* error because the question bank is unavailable, is a token that         *)
(* the client never uses.                                                  *)
Issue(s, a) == tokens' = tokens \cup {<<s, a>>}

StartClaim(r) ==
  LET s == arg[r].subject IN
  /\ pc[r] = "startClaim"
  /\ Claims(r)
  /\ begun < MaxAttempts
  /\ begun' = begun + 1
  /\ Write(s, [entry[s] EXCEPT !.status = "dang_thi", !.attempt = begun + 1, !.state = "active"])
  /\ late' = (late \/ (entry[s].status = "dang_thi" /\ entry[s].state = "submitted"))
  /\ Issue(s, begun + 1)
  /\ Finish(r)
  /\ UNCHANGED <<behind, open, age, admin, stale, ended, graded>>

(* Nothing was claimed: the attempt another request began is issued, if    *)
(* there is one.                                                           *)
StartReread(r) ==
  LET s == arg[r].subject
      e == entry[s]
  IN  /\ pc[r] = "startClaim"
      /\ ~Claims(r)
      /\ IF e.state = "active" /\ e.attempt # 0 THEN Issue(s, e.attempt) ELSE UNCHANGED tokens
      /\ Finish(r)
      /\ UNCHANGED <<behind, entry, open, begun, age, admin, ghosts>>

-----------------------------------------------------------------------------
(* POST exam-attempt/submit: the answers are graded while the token is     *)
(* valid, ...                                                              *)
SubmitGrade(r, s, a, passed) ==
  /\ <<s, a>> \in tokens
  /\ age[a] # "over"
  /\ Begin(r, "submit", "submitClaim", s, a, passed, NoCopy)
  /\ UNCHANGED <<entry, open, begun, age, tokens, admin, ghosts>>

BugMarked(e, s, passed) ==
  [e EXCEPT !.state = "submitted", !.mc = passed, !.status = IF passed THEN "dat" ELSE "khong_dat"]

Marked(e, s, passed) ==
  LET marked == [e EXCEPT !.state = "submitted", !.mc = passed] IN
  IF passed
  THEN [marked EXCEPT !.status = IF s \in essayRequired THEN "dang_thi" ELSE "dat"]
  ELSE [marked EXCEPT !.status = "khong_dat", !.filed = FALSE]

(* ... and the mark is entered once.                                       *)
SubmitClaim(r) ==
  LET s == arg[r].subject
      a == arg[r].attempt
  IN  /\ pc[r] = "submitClaim"
      /\ IF IsActive(s, a)
         THEN /\ End(s, Marked(entry[s], s, arg[r].flag))
              /\ graded' = IF stale THEN graded ELSE [graded EXCEPT ![a] = @ + 1]
              /\ UNCHANGED <<stale, late>>
         ELSE UNCHANGED <<entry, ghosts>>
      /\ Finish(r)
      /\ UNCHANGED <<behind, open, begun, age, tokens, admin>>

(* POST exam-attempt/forfeit: an expired token will do.                    *)
Forfeit(s, a) ==
  /\ "forfeit" \in Operations
  /\ <<s, a>> \in tokens
  /\ IsActive(s, a)
  /\ End(s, [GivenUp(entry[s]) EXCEPT !.mc = FALSE])
  /\ UNCHANGED <<open, begun, age, tokens, locals, admin, stale, late, graded>>

(* POST exam-attempt/abandon: the client names an attempt it holds or, as  *)
(* the one it sends when the page closes, none.                            *)
Abandon(s, a) ==
  /\ "abandon" \in Operations
  /\ a = 0 \/ <<s, a>> \in tokens
  /\ IsOpen(s, a)
  /\ GiveUpOpen(s, a)
  /\ UNCHANGED <<open, begun, age, tokens, locals, admin>>

(* ... with soft: an attempt of the last 90 s is released, else given up.  *)
SoftRead(r, s) ==
  LET e == entry[s]
      young == e.state = "active" /\ e.attempt # 0 /\ age[e.attempt] = "fresh"
  IN  /\ IF young
         THEN Begin(r, "soft", "softClaim", s, e.attempt, FALSE, NoCopy)
         ELSE Begin(r, "soft", "softGiveUp", s, 0, FALSE, NoCopy)
      /\ UNCHANGED <<entry, open, begun, age, tokens, admin, ghosts>>

SoftClaim(r) ==
  LET s == arg[r].subject IN
  /\ pc[r] = "softClaim"
  /\ IF IsActive(s, arg[r].attempt)
     THEN /\ End(s, [entry[s] EXCEPT !.status = "chua_thi", !.attempt = 0, !.state = "none"])
          /\ Finish(r)
     ELSE /\ Goto(r, "softGiveUp")
          /\ UNCHANGED <<entry, ended, arg, snap>>
  /\ UNCHANGED <<behind, open, begun, age, tokens, admin, stale, late, graded>>

SoftGiveUp(r) ==
  /\ pc[r] = "softGiveUp"
  /\ GiveUpOpen(arg[r].subject, 0)
  /\ Finish(r)
  /\ UNCHANGED <<behind, open, begun, age, tokens, admin>>

-----------------------------------------------------------------------------
(* Whole writes                                                            *)
(* The requests a save under the version overtakes.                        *)
Saving == {q \in Requests : pc[q] = "practicalSave"}

(* PUT exam-progress by the student: once the multiple choice part is      *)
(* passed, practical work is handed in, or none (blank).                   *)
PracticalRead(r, s, op) ==
  LET e == entry[s] IN
  /\ e.state = "submitted" /\ e.status = "dang_thi" /\ e.mc
  /\ Begin(r, op, "practicalSave", s, 0, op = "practical", entry)
  /\ UNCHANGED <<entry, open, begun, age, tokens, admin, ghosts>>

(* The array is saved as it was read but for this entry, unless the        *)
(* version has moved (VersionError).                                       *)
PracticalSave(r) ==
  /\ pc[r] = "practicalSave"
  /\ IF r \in behind
     THEN /\ behind' = behind \ {r}
          /\ UNCHANGED <<entry, stale>>
     ELSE /\ entry' = [snap[r] EXCEPT ![arg[r].subject].filed = arg[r].flag]
          /\ stale' = (stale \/ snap[r] # entry)
          /\ behind' = Saving \ {r}
  /\ Finish(r)
  /\ UNCHANGED <<open, begun, age, tokens, admin, late, ended, graded>>

(* PUT unlock-exam, PUT lock-exam (of an open room): the enrollments and   *)
(* the flags are saved under the version.  They depend on nothing read but *)
(* open, which no other save moves unseen, so a save that is not refused   *)
(* is one action.                                                          *)
SetRoom(op) ==
  /\ op \in Operations
  /\ op = "lock" => open
  /\ open' = (op = "unlock")
  /\ behind' = Saving
  /\ UNCHANGED <<entry, begun, age, tokens, pc, arg, snap, admin, ghosts>>

(* PUT /students/:id with the progress array of an administrator's tab,    *)
(* one entry of which was changed; the answer refreshes the tab.           *)
AdminLoad ==
  /\ Operations \cap {"grade", "reset"} # {}
  /\ writes < MaxWrites
  /\ copy = NoCopy
  /\ copy' = entry
  /\ UNCHANGED <<entry, open, begun, age, tokens, locals, essayRequired, writes, ghosts>>

AdminWrite(op, entries) ==
  /\ op \in Operations
  /\ writes < MaxWrites
  /\ writes' = writes + 1
  /\ entry' = entries
  /\ stale' = (stale \/ copy # entry)
  /\ copy' = NoCopy
  /\ UNCHANGED <<open, begun, age, tokens, locals, essayRequired, late, ended, graded>>

(* The practical work is graded; with a passed multiple choice part that   *)
(* is the verdict.                                                         *)
Assessed(e, good) ==
  LET assessed == [e EXCEPT !.essay = IF good THEN "good" ELSE "bad"] IN
  IF e.mc THEN [assessed EXCEPT !.status = IF good THEN "dat" ELSE "khong_dat"] ELSE assessed

AdminGrade(s, good) ==
  /\ copy # NoCopy
  /\ copy[s].status \notin {"absent", "chua_thi"}
  /\ copy[s].filed
  /\ AdminWrite("grade", [copy EXCEPT ![s] = Assessed(@, good)])

(* A failed subject may be taken again.                                    *)
AdminReset(s) ==
  /\ copy # NoCopy
  /\ copy[s].status = "khong_dat"
  /\ AdminWrite("reset", [copy EXCEPT ![s].status = "chua_thi", ![s].mc = FALSE,
                                      ![s].filed = FALSE, ![s].essay = "none"])

(* Time passes for an open attempt.                                        *)
Pass(a) ==
  /\ a <= begun
  /\ a \notin ended
  /\ age[a] # "over"
  /\ age' = [age EXCEPT ![a] = IF @ = "fresh" THEN "running" ELSE "over"]
  /\ UNCHANGED <<entry, open, begun, tokens, locals, admin, ghosts>>

-----------------------------------------------------------------------------
ExamInit ==
  /\ entry \in [Subjects -> {Absent, NotTaken}]
  /\ open = FALSE
  /\ essayRequired \in SUBSET Subjects
  /\ begun = 0
  /\ age = [a \in Attempts |-> "fresh"]
  /\ tokens = {}
  /\ pc = [r \in Requests |-> "idle"]
  /\ arg = [r \in Requests |-> NoArg]
  /\ snap = [r \in Requests |-> NoCopy]
  /\ behind = {}
  /\ copy = NoCopy
  /\ writes = 0
  /\ stale = FALSE
  /\ late = FALSE
  /\ ended = {}
  /\ graded = [a \in Attempts |-> 0]

ExamNext ==
  \/ \E r \in Requests, s \in Subjects :
       \/ \E a \in {0} \cup Attempts : StartRead(r, s, a)
       \/ \E a \in Attempts, passed \in BOOLEAN : SubmitGrade(r, s, a, passed)
       \/ SoftRead(r, s)
       \/ \E op \in {"practical", "blank"} : PracticalRead(r, s, op)
  \/ \E r \in Requests :
       \/ StartAbandon(r) \/ StartExpire(r) \/ StartClaim(r) \/ StartReread(r)
       \/ SubmitClaim(r) \/ SoftClaim(r) \/ SoftGiveUp(r) \/ PracticalSave(r)
  \/ \E s \in Subjects :
       \/ \E a \in {0} \cup Attempts : Forfeit(s, a) \/ Abandon(s, a)
       \/ \E good \in BOOLEAN : AdminGrade(s, good)
       \/ AdminReset(s)
  \/ SetRoom("unlock") \/ SetRoom("lock")
  \/ AdminLoad
  \/ \E a \in Attempts : Pass(a)

ExamSpec == ExamInit /\ [][ExamNext]_evars

-----------------------------------------------------------------------------
(* Every variable has its type.                                            *)
ExamTypeOK ==
  /\ essayRequired \subseteq Subjects
  /\ entry \in Progress /\ open \in BOOLEAN
  /\ begun \in {0} \cup Attempts
  /\ age \in [Attempts -> {"fresh", "running", "over"}]
  /\ tokens \subseteq Subjects \X Attempts
  /\ pc \in [Requests -> {"idle", "startClaim", "startAbandon", "startExpire",
                         "submitClaim", "softClaim", "softGiveUp", "practicalSave"}]
  /\ arg \in [Requests -> [subject : Subjects, attempt : {0} \cup Attempts, flag : BOOLEAN]]
  /\ snap \in [Requests -> {NoCopy} \cup Progress]
  /\ behind \subseteq Requests
  /\ copy \in {NoCopy} \cup Progress
  /\ writes \in 0..MaxWrites
  /\ stale \in BOOLEAN /\ late \in BOOLEAN
  /\ ended \subseteq Attempts
  /\ graded \in [Attempts -> Nat]

(* A subject is passed only with a passed multiple choice part and, where  *)
(* it is required, practical work graded as good: whatever claims and      *)
(* whole writes from whatever copies have come together in the entry.      *)
Earned(s, e) ==
  e.status = "dat" => e.mc /\ (s \in essayRequired => e.essay = "good")

PassIsEarned == \A s \in Subjects : Earned(s, entry[s])

(* An attempt that was begun stays the active attempt of its subject until *)
(* a claim ends it: no second tab, no delayed start puts another attempt   *)
(* in its place.  A whole write from an outdated copy can, and is excused. *)
AttemptKept ==
  ~stale => \A a \in 1..begun \ ended : \E s \in Subjects : IsActive(s, a)

(* An attempt is graded at most once, however often its answers are sent.  *)
GradedOnce == ~stale => \A a \in Attempts : graded[a] <= 1

(* A verdict stays until an administrator writes the array: late answers,  *)
(* give-ups, expiries and starts of the student's requests leave it alone. *)
(* Excused are whole writes from an outdated copy, and a start so delayed  *)
(* that it replaced an attempt already graded as passed.                   *)
VerdictStands ==
  [][writes' = writes /\ ~stale' /\ ~late' =>
       \A s \in Subjects : entry[s].status \in Verdicts =>
         entry'[s].status = entry[s].status]_evars

(* docs/exam/EXAM_LOCK_GATE_FIX_2026-08-13.md:21: a failed subject is      *)
(* locked until an administrator resets it.                                *)
FailIsFinal ==
  [][writes' = writes =>
       \A s \in Subjects : entry[s].status = "khong_dat" =>
         entry'[s].status = "khong_dat"]_evars
=============================================================================
