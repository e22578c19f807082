----------------------------- MODULE ExamProofs -----------------------------
(***************************************************************************)
(* Proofs about Exam for every number of subjects, requests and attempts.  *)
(***************************************************************************)
EXTENDS Exam, TLAPS

(* An entry in which an open or graded attempt has a number and a pass is  *)
(* earned.                                                                 *)
Sound(s, e) ==
  /\ e \in Entry
  /\ e.state \in {"active", "submitted"} => e.attempt \in Attempts
  /\ Earned(s, e)

SoundProgress == {p \in Progress : \A s \in Subjects : Sound(s, p[s])}

(* The inductive invariant: what any whole write may bring back, the copies *)
(* of requests and tabs included, is sound.                                *)
SharedTypes ==
  /\ essayRequired \subseteq Subjects
  /\ open \in BOOLEAN
  /\ begun \in {0} \cup Attempts
  /\ age \in [Attempts -> {"fresh", "running", "over"}]
  /\ tokens \subseteq Subjects \X Attempts
  /\ writes \in 0..MaxWrites

GhostTypes ==
  /\ stale \in BOOLEAN
  /\ late \in BOOLEAN
  /\ ended \subseteq Attempts
  /\ graded \in [Attempts -> Nat]

Steps    == {"idle", "startClaim", "startAbandon", "startExpire",
             "submitClaim", "softClaim", "softGiveUp", "practicalSave"}
Argument == [subject : Subjects, attempt : {0} \cup Attempts, flag : BOOLEAN]

LocalTypes ==
  /\ pc \in [Requests -> Steps]
  /\ arg \in [Requests -> Argument]
  /\ snap \in [Requests -> {NoCopy} \cup Progress]
  /\ behind \subseteq Requests

EntrySound  == entry \in SoundProgress
CopySound   == copy \in {NoCopy} \cup SoundProgress
SnapsSound  == \A r \in Requests : pc[r] = "practicalSave" => snap[r] \in SoundProgress

IInv ==
  /\ SharedTypes /\ GhostTypes /\ LocalTypes
  /\ EntrySound /\ CopySound /\ SnapsSound

(* Replacing one entry of a sound array by a sound one keeps it sound.     *)
LEMMA SoundUpdate ==
  ASSUME NEW p \in SoundProgress, NEW s \in Subjects, NEW e, Sound(s, e)
  PROVE  [p EXCEPT ![s] = e] \in SoundProgress
  BY DEF SoundProgress, Progress, Sound

(* What the claims put into an entry is sound.                             *)
LEMMA SoundClaims ==
  ASSUME NEW s \in Subjects, NEW e, Sound(s, e)
  PROVE  /\ Sound(s, GivenUp(e))
         /\ Sound(s, [GivenUp(e) EXCEPT !.mc = FALSE])
         /\ Sound(s, [e EXCEPT !.status = "khong_dat", !.state = "forfeited"])
         /\ Sound(s, [e EXCEPT !.status = "chua_thi", !.attempt = 0, !.state = "none"])
         /\ \A a \in Attempts :
              Sound(s, [e EXCEPT !.status = "dang_thi", !.attempt = a, !.state = "active"])
         /\ \A filed \in BOOLEAN : Sound(s, [e EXCEPT !.filed = filed])
  BY DEF Sound, Entry, Verdicts, Earned, GivenUp

(* A mark is sound when the attempt it marks is open: only subjects        *)
(* without practical work are passed by it.                                *)
LEMMA SoundMark ==
  ASSUME NEW s \in Subjects, NEW e, Sound(s, e), e.state = "active", NEW passed \in BOOLEAN
  PROVE  Sound(s, Marked(e, s, passed))
  BY DEF Sound, Entry, Verdicts, Earned, Marked

(* What administrators put into an entry is sound.                         *)
LEMMA SoundAdmin ==
  ASSUME NEW s \in Subjects, NEW e, Sound(s, e)
  PROVE  /\ \A good \in BOOLEAN : Sound(s, Assessed(e, good))
         /\ Sound(s, [e EXCEPT !.status = "chua_thi", !.mc = FALSE,
                               !.filed = FALSE, !.essay = "none"])
  BY DEF Sound, Entry, Verdicts, Earned, Assessed

(* The empty argument is an argument.                                      *)
LEMMA NoArgTyped ==
  NoArg \in Argument
  BY ExamAssumption DEF NoArg, NoOne, Argument

(* While the settings stay as they are, what is sound does too.            *)
LEMMA SoundStays ==
  ASSUME essayRequired' = essayRequired
  PROVE  SoundProgress' = SoundProgress
  BY DEF SoundProgress, Sound, Earned

(* A claim keeps the array sound and the ended attempts numbered.          *)
LEMMA EndSound ==
  ASSUME EntrySound, ended \subseteq Attempts, NEW s \in Subjects, NEW e, Sound(s, e),
         entry[s].state \in {"active", "submitted"}, End(s, e)
  PROVE  entry' \in SoundProgress /\ ended' \subseteq Attempts
  <1>1. Sound(s, entry[s])
    BY DEF EntrySound, SoundProgress
  <1>2. entry[s].attempt \in Attempts
    BY <1>1 DEF Sound
  <1>3. entry' = [entry EXCEPT ![s] = e] /\ ended' = ended \cup {entry[s].attempt}
    BY DEF End, Write
  <1>4. entry' \in SoundProgress
    BY <1>3, SoundUpdate DEF EntrySound
  <1> QED
    BY <1>2, <1>3, <1>4

(* So does giving an attempt up.                                           *)
LEMMA GiveUpSound ==
  ASSUME EntrySound, GhostTypes, NEW s \in Subjects, NEW a, GiveUpOpen(s, a)
  PROVE  /\ entry' \in SoundProgress /\ ended' \subseteq Attempts
         /\ UNCHANGED <<stale, late, graded>>
  <1>1. CASE IsOpen(s, a)
    <2>1. Sound(s, GivenUp(entry[s]))
      BY SoundClaims DEF EntrySound, SoundProgress
    <2>2. entry[s].state \in {"active", "submitted"}
      BY <1>1 DEF IsOpen
    <2>3. End(s, GivenUp(entry[s])) /\ UNCHANGED <<stale, late, graded>>
      BY <1>1 DEF GiveUpOpen
    <2> QED
      BY <2>1, <2>2, <2>3, EndSound DEF GhostTypes
  <1>2. CASE ~IsOpen(s, a)
    BY <1>2 DEF GiveUpOpen, ghosts, EntrySound, GhostTypes
  <1> QED
    BY <1>1, <1>2

(* The student starts without attempts and without a copy anywhere.        *)
LEMMA InitSound == ExamInit => IInv
  <1> SUFFICES ASSUME ExamInit PROVE IInv
    OBVIOUS
  <1>1. MaxAttempts \in Nat /\ MaxWrites \in Nat
    BY ExamAssumption
  <1>2. \A s \in Subjects : Sound(s, Absent) /\ Sound(s, NotTaken)
    BY DEF Sound, Absent, NotTaken, Entry, Verdicts, Earned
  <1>3. EntrySound
    <2>1. \A s \in Subjects : entry[s] \in {Absent, NotTaken}
      BY DEF ExamInit
    <2>2. \A s \in Subjects : Sound(s, entry[s])
      BY <1>2, <2>1
    <2>3. entry \in Progress
      BY <1>2 DEF ExamInit, Progress, Sound
    <2> QED
      BY <2>2, <2>3 DEF EntrySound, SoundProgress
  <1>4. SharedTypes
    <2>1. essayRequired \subseteq Subjects /\ open \in BOOLEAN /\ tokens = {}
      BY DEF ExamInit
    <2>2. begun \in {0} \cup Attempts /\ writes \in 0..MaxWrites
      BY <1>1 DEF ExamInit
    <2>3. age \in [Attempts -> {"fresh", "running", "over"}]
      BY DEF ExamInit
    <2> QED
      BY <2>1, <2>2, <2>3 DEF SharedTypes
  <1>5. GhostTypes
    BY DEF ExamInit, GhostTypes
  <1>6. LocalTypes
    BY NoArgTyped DEF ExamInit, LocalTypes, Steps
  <1>7. CopySound /\ SnapsSound
    BY DEF ExamInit, CopySound, SnapsSound
  <1> QED
    BY <1>3, <1>4, <1>5, <1>6, <1>7 DEF IInv

-----------------------------------------------------------------------------
(* Requests start and end.                                                 *)

(* The copies requests still save are sound in the next state.             *)
LocalsAfter ==
  /\ LocalTypes'
  /\ \A q \in Requests : pc'[q] = "practicalSave" => snap'[q] \in SoundProgress

(* A request that starts with a sound copy, or does not save, leaves the   *)
(* locals typed and the copies sound.                                      *)
LEMMA BeginTyped ==
  ASSUME LocalTypes, SnapsSound, NEW r \in Requests, NEW op, NEW step \in Steps,
         NEW s \in Subjects, NEW a \in {0} \cup Attempts, NEW flag \in BOOLEAN,
         NEW read \in {NoCopy} \cup Progress,
         step = "practicalSave" => read \in SoundProgress,
         Begin(r, op, step, s, a, flag, read)
  PROVE  LocalsAfter
  <1>1. [subject |-> s, attempt |-> a, flag |-> flag] \in Argument
    BY DEF Argument
  <1> QED
    BY <1>1 DEF Begin, Goto, LocalTypes, SnapsSound, LocalsAfter

(* A request that answers has no copy any more.                            *)
LEMMA FinishTyped ==
  ASSUME LocalTypes, SnapsSound, NEW r \in Requests, Finish(r), behind' \subseteq Requests
  PROVE  LocalsAfter
  BY NoArgTyped DEF Finish, Goto, LocalTypes, SnapsSound, Steps, LocalsAfter

-----------------------------------------------------------------------------
(* Every step keeps the invariant.  After is the invariant in the next     *)
(* state, with soundness judged by the settings of this one.               *)
After ==
  /\ SharedTypes' /\ GhostTypes' /\ LocalsAfter
  /\ entry' \in SoundProgress
  /\ copy' \in {NoCopy} \cup SoundProgress

LEMMA AfterIsInvariant ==
  ASSUME After, essayRequired' = essayRequired
  PROVE  IInv'
  <1>1. SoundProgress' = SoundProgress
    BY SoundStays
  <1> QED
    BY <1>1 DEF After, LocalsAfter, IInv, EntrySound, CopySound, SnapsSound, NoCopy

(* Starting an exam.                                                       *)
LEMMA StartSound ==
  ASSUME IInv, essayRequired' = essayRequired, NEW r \in Requests,
         \/ \E s \in Subjects, a \in {0} \cup Attempts : StartRead(r, s, a)
         \/ StartAbandon(r) \/ StartExpire(r) \/ StartClaim(r) \/ StartReread(r)
  PROVE  After
  <1> USE DEF IInv
  <1>1. ASSUME NEW s \in Subjects, NEW a \in {0} \cup Attempts, StartRead(r, s, a)
        PROVE  After
    <2>1. entry[s] \in Entry
      BY DEF EntrySound, SoundProgress, Sound
    <2>2. entry[s].attempt \in {0} \cup Attempts /\ (entry[s] = Absent) \in BOOLEAN
      BY <2>1 DEF Entry
    <2>3. \E step \in Steps \ {"practicalSave"}, b \in {0} \cup Attempts, flag \in BOOLEAN :
            Begin(r, "start", step, s, b, flag, NoCopy)
      BY <1>1, <2>2 DEF StartRead, Steps
    <2>4. LocalsAfter
      BY <2>3, BeginTyped
    <2>5. UNCHANGED <<entry, open, begun, age, tokens, admin, ghosts>>
      BY <1>1 DEF StartRead
    <2> QED
      BY <2>4, <2>5 DEF After, SharedTypes, GhostTypes, EntrySound, CopySound, admin, ghosts
  <1>2. CASE StartAbandon(r)
    <2>1. arg[r].subject \in Subjects
      BY DEF LocalTypes, Argument
    <2>2. GiveUpOpen(arg[r].subject, arg[r].attempt) /\ Finish(r)
          /\ UNCHANGED <<behind, open, begun, age, tokens, admin>>
      BY <1>2 DEF StartAbandon
    <2>3. entry' \in SoundProgress /\ GhostTypes'
      BY <2>1, <2>2, GiveUpSound DEF GhostTypes
    <2>4. LocalsAfter
      BY <2>2, FinishTyped DEF LocalTypes
    <2> QED
      BY <2>2, <2>3, <2>4 DEF After, SharedTypes, CopySound, admin
  <1>3. CASE StartExpire(r)
    <2> DEFINE s == arg[r].subject
               new == [entry[s] EXCEPT !.status = "khong_dat", !.state = "forfeited"]
    <2>1. s \in Subjects
      BY DEF LocalTypes, Argument
    <2>2. Sound(s, new)
      BY <2>1, SoundClaims DEF EntrySound, SoundProgress
    <2>3. entry' \in SoundProgress /\ GhostTypes'
      <3>1. CASE IsActive(s, arg[r].attempt)
        <4>1. End(s, new) /\ UNCHANGED <<stale, late, graded>>
          BY <1>3, <3>1 DEF StartExpire
        <4>2. entry[s].state \in {"active", "submitted"}
          BY <3>1 DEF IsActive
        <4> HIDE DEF s, new
        <4> QED
          BY <2>1, <2>2, <4>1, <4>2, EndSound DEF GhostTypes
      <3>2. CASE ~IsActive(s, arg[r].attempt)
        BY <1>3, <3>2 DEF StartExpire, ghosts, GhostTypes, EntrySound
      <3> QED
        BY <3>1, <3>2
    <2>4. Finish(r) /\ UNCHANGED <<behind, open, begun, age, tokens, admin>>
      BY <1>3 DEF StartExpire
    <2>5. LocalsAfter
      BY <2>4, FinishTyped DEF LocalTypes
    <2> QED
      BY <2>3, <2>4, <2>5 DEF After, SharedTypes, CopySound, admin
  <1>4. CASE StartClaim(r)
    <2> DEFINE s == arg[r].subject
               new == [entry[s] EXCEPT !.status = "dang_thi", !.attempt = begun + 1, !.state = "active"]
    <2>1. s \in Subjects
      BY DEF LocalTypes, Argument
    <2>2. begun + 1 \in Attempts
      BY <1>4, ExamAssumption DEF StartClaim, SharedTypes, Attempts
    <2>3. Sound(s, new)
      BY <2>1, <2>2, SoundClaims DEF EntrySound, SoundProgress
    <2>4. entry' = [entry EXCEPT ![s] = new]
      BY <1>4 DEF StartClaim, Write
    <2>5. entry' \in SoundProgress
      <3> HIDE DEF s, new
      <3> QED
        BY <2>1, <2>3, <2>4, SoundUpdate DEF EntrySound
    <2>6. begun' = begun + 1 /\ tokens' = tokens \cup {<<s, begun + 1>>} /\ Finish(r)
          /\ UNCHANGED <<behind, open, age, admin, stale, ended, graded>>
      BY <1>4 DEF StartClaim, Issue
    <2>7. late' \in BOOLEAN
      BY <1>4 DEF StartClaim
    <2>8. LocalsAfter
      BY <2>6, FinishTyped DEF LocalTypes
    <2>9. SharedTypes'
      BY <2>1, <2>2, <2>6 DEF SharedTypes, admin
    <2> QED
      BY <2>5, <2>6, <2>7, <2>8, <2>9 DEF After, GhostTypes, CopySound, admin
  <1>5. CASE StartReread(r)
    <2>1. arg[r].subject \in Subjects
      BY DEF LocalTypes, Argument
    <2>2. Sound(arg[r].subject, entry[arg[r].subject])
      BY <2>1 DEF EntrySound, SoundProgress
    <2>3. tokens' \subseteq Subjects \X Attempts
      BY <1>5, <2>1, <2>2 DEF StartReread, Issue, SharedTypes, Sound
    <2>4. Finish(r) /\ UNCHANGED <<behind, entry, open, begun, age, admin, ghosts>>
      BY <1>5 DEF StartReread
    <2>5. LocalsAfter
      BY <2>4, FinishTyped DEF LocalTypes
    <2> QED
      BY <2>3, <2>4, <2>5 DEF After, SharedTypes, GhostTypes, EntrySound, CopySound, admin, ghosts
  <1> QED
    BY <1>1, <1>2, <1>3, <1>4, <1>5

(* Handing in and giving up.                                               *)
LEMMA SubmitSound ==
  ASSUME IInv, essayRequired' = essayRequired, NEW r \in Requests,
         \/ \E s \in Subjects, a \in Attempts, passed \in BOOLEAN : SubmitGrade(r, s, a, passed)
         \/ SubmitClaim(r)
  PROVE  After
  <1> USE DEF IInv
  <1>1. ASSUME NEW s \in Subjects, NEW a \in Attempts, NEW passed \in BOOLEAN,
               SubmitGrade(r, s, a, passed)
        PROVE  After
    <2>1. Begin(r, "submit", "submitClaim", s, a, passed, NoCopy)
          /\ UNCHANGED <<entry, open, begun, age, tokens, admin, ghosts>>
      BY <1>1 DEF SubmitGrade
    <2>2. "submitClaim" \in Steps /\ a \in {0} \cup Attempts
      BY DEF Steps
    <2>3. LocalsAfter
      BY <2>1, <2>2, BeginTyped
    <2> QED
      BY <2>1, <2>3 DEF After, SharedTypes, GhostTypes, EntrySound, CopySound, admin, ghosts
  <1>2. CASE SubmitClaim(r)
    <2> DEFINE s == arg[r].subject
               a == arg[r].attempt
               new == Marked(entry[s], s, arg[r].flag)
    <2>1. s \in Subjects /\ arg[r].flag \in BOOLEAN
      BY DEF LocalTypes, Argument
    <2>2. entry' \in SoundProgress /\ GhostTypes'
      <3>1. CASE IsActive(s, a)
        <4>1. End(s, new) /\ UNCHANGED <<stale, late>>
          BY <1>2, <3>1 DEF SubmitClaim
        <4>2. entry[s].state = "active"
          BY <3>1 DEF IsActive
        <4>3. Sound(s, new)
          BY <2>1, <4>2, SoundMark DEF EntrySound, SoundProgress
        <4>4. graded' \in [Attempts -> Nat]
          BY <1>2, <3>1 DEF SubmitClaim, GhostTypes
        <4> HIDE DEF s, a, new
        <4> QED
          BY <2>1, <4>1, <4>2, <4>3, <4>4, EndSound DEF GhostTypes
      <3>2. CASE ~IsActive(s, a)
        BY <1>2, <3>2 DEF SubmitClaim, ghosts, GhostTypes, EntrySound
      <3> QED
        BY <3>1, <3>2
    <2>3. Finish(r) /\ UNCHANGED <<behind, open, begun, age, tokens, admin>>
      BY <1>2 DEF SubmitClaim
    <2>4. LocalsAfter
      BY <2>3, FinishTyped DEF LocalTypes
    <2> QED
      BY <2>2, <2>3, <2>4 DEF After, SharedTypes, CopySound, admin
  <1> QED
    BY <1>1, <1>2

LEMMA GiveUpsSound ==
  ASSUME IInv, essayRequired' = essayRequired, NEW s \in Subjects, NEW a \in {0} \cup Attempts,
         Forfeit(s, a) \/ Abandon(s, a)
  PROVE  After
  <1> USE DEF IInv
  <1>1. UNCHANGED <<open, begun, age, tokens, locals, admin>>
    BY DEF Forfeit, Abandon
  <1>2. entry' \in SoundProgress /\ GhostTypes'
    <2>1. CASE Forfeit(s, a)
      <3>1. Sound(s, [GivenUp(entry[s]) EXCEPT !.mc = FALSE])
        BY SoundClaims DEF EntrySound, SoundProgress
      <3>2. entry[s].state \in {"active", "submitted"}
        BY <2>1 DEF Forfeit, IsActive
      <3>3. End(s, [GivenUp(entry[s]) EXCEPT !.mc = FALSE]) /\ UNCHANGED <<stale, late, graded>>
        BY <2>1 DEF Forfeit
      <3> QED
        BY <3>1, <3>2, <3>3, EndSound DEF GhostTypes
    <2>2. CASE Abandon(s, a)
      BY <2>2, GiveUpSound DEF Abandon, GhostTypes
    <2> QED
      BY <2>1, <2>2
  <1> QED
    BY <1>1, <1>2 DEF After, LocalsAfter, SharedTypes, LocalTypes, SnapsSound, CopySound, locals, admin

(* Leaving before the exam room.                                           *)
LEMMA SoftSound ==
  ASSUME IInv, essayRequired' = essayRequired, NEW r \in Requests,
         (\E s \in Subjects : SoftRead(r, s)) \/ SoftClaim(r) \/ SoftGiveUp(r)
  PROVE  After
  <1> USE DEF IInv
  <1>1. ASSUME NEW s \in Subjects, SoftRead(r, s)
        PROVE  After
    <2>1. entry[s].attempt \in {0} \cup Attempts
      BY DEF EntrySound, SoundProgress, Sound, Entry
    <2>2. \E step \in Steps \ {"practicalSave"}, b \in {0} \cup Attempts :
            Begin(r, "soft", step, s, b, FALSE, NoCopy)
      BY <1>1, <2>1 DEF SoftRead, Steps
    <2>3. LocalsAfter
      BY <2>2, BeginTyped
    <2>4. UNCHANGED <<entry, open, begun, age, tokens, admin, ghosts>>
      BY <1>1 DEF SoftRead
    <2> QED
      BY <2>3, <2>4 DEF After, SharedTypes, GhostTypes, EntrySound, CopySound, admin, ghosts
  <1>2. CASE SoftClaim(r)
    <2> DEFINE s == arg[r].subject
               new == [entry[s] EXCEPT !.status = "chua_thi", !.attempt = 0, !.state = "none"]
    <2>1. s \in Subjects
      BY DEF LocalTypes, Argument
    <2>2. Sound(s, new)
      BY <2>1, SoundClaims DEF EntrySound, SoundProgress
    <2>3. UNCHANGED <<behind, open, begun, age, tokens, admin, stale, late, graded>>
      BY <1>2 DEF SoftClaim
    <2>4. CASE IsActive(s, arg[r].attempt)
      <3>1. End(s, new) /\ Finish(r)
        BY <1>2, <2>4 DEF SoftClaim
      <3>2. entry[s].state \in {"active", "submitted"}
        BY <2>4 DEF IsActive
      <3>3. entry' \in SoundProgress /\ GhostTypes'
        <4> HIDE DEF s, new
        <4> QED
          BY <2>1, <2>2, <2>3, <3>1, <3>2, EndSound DEF GhostTypes
      <3>4. LocalsAfter
        BY <2>3, <3>1, FinishTyped DEF LocalTypes
      <3> QED
        BY <2>3, <3>3, <3>4 DEF After, SharedTypes, CopySound, admin
    <2>5. CASE ~IsActive(s, arg[r].attempt)
      <3>1. Goto(r, "softGiveUp") /\ UNCHANGED <<entry, ended, arg, snap>>
        BY <1>2, <2>5 DEF SoftClaim
      <3>2. LocalsAfter
        BY <2>3, <3>1 DEF Goto, LocalTypes, SnapsSound, Steps, LocalsAfter
      <3> QED
        BY <2>3, <3>1, <3>2 DEF After, SharedTypes, GhostTypes, EntrySound, CopySound, admin
    <2> QED
      BY <2>4, <2>5
  <1>3. CASE SoftGiveUp(r)
    <2>1. arg[r].subject \in Subjects
      BY DEF LocalTypes, Argument
    <2>2. GiveUpOpen(arg[r].subject, 0) /\ Finish(r)
          /\ UNCHANGED <<behind, open, begun, age, tokens, admin>>
      BY <1>3 DEF SoftGiveUp
    <2>3. entry' \in SoundProgress /\ GhostTypes'
      BY <2>1, <2>2, GiveUpSound DEF GhostTypes
    <2>4. LocalsAfter
      BY <2>2, FinishTyped DEF LocalTypes
    <2> QED
      BY <2>2, <2>3, <2>4 DEF After, SharedTypes, CopySound, admin
  <1> QED
    BY <1>1, <1>2, <1>3

(* Whole writes.                                                           *)
LEMMA PracticalSound ==
  ASSUME IInv, essayRequired' = essayRequired, NEW r \in Requests,
         (\E s \in Subjects, op \in {"practical", "blank"} : PracticalRead(r, s, op)) \/ PracticalSave(r)
  PROVE  After
  <1> USE DEF IInv
  <1>1. ASSUME NEW s \in Subjects, NEW op \in {"practical", "blank"}, PracticalRead(r, s, op)
        PROVE  After
    <2>1. Begin(r, op, "practicalSave", s, 0, op = "practical", entry)
          /\ UNCHANGED <<entry, open, begun, age, tokens, admin, ghosts>>
      BY <1>1 DEF PracticalRead
    <2>2. entry \in {NoCopy} \cup Progress /\ entry \in SoundProgress
      BY DEF EntrySound, SoundProgress
    <2>3. "practicalSave" \in Steps /\ (op = "practical") \in BOOLEAN
      BY DEF Steps
    <2>4. LocalsAfter
      BY <2>1, <2>2, <2>3, BeginTyped
    <2> QED
      BY <2>1, <2>4 DEF After, SharedTypes, GhostTypes, EntrySound, CopySound, admin, ghosts
  <1>2. CASE PracticalSave(r)
    <2> DEFINE s == arg[r].subject
    <2>1. s \in Subjects /\ arg[r].flag \in BOOLEAN
      BY DEF LocalTypes, Argument
    <2>2. snap[r] \in SoundProgress
      BY <1>2 DEF PracticalSave, SnapsSound
    <2>3. entry' \in SoundProgress /\ stale' \in BOOLEAN
      <3>1. CASE r \in behind
        BY <1>2, <3>1 DEF PracticalSave, EntrySound, GhostTypes
      <3>2. CASE r \notin behind
        <4>1. Sound(s, [snap[r][s] EXCEPT !.filed = arg[r].flag])
          BY <2>1, <2>2, SoundClaims DEF SoundProgress
        <4>2. entry' = [snap[r] EXCEPT ![s] = [snap[r][s] EXCEPT !.filed = arg[r].flag]]
          BY <1>2, <3>2, <2>1, <2>2 DEF PracticalSave, SoundProgress, Progress
        <4>3. entry' \in SoundProgress
          <5> HIDE DEF s
          <5> QED
            BY <2>1, <2>2, <4>1, <4>2, SoundUpdate
        <4>4. stale' \in BOOLEAN
          BY <1>2, <3>2 DEF PracticalSave
        <4> QED
          BY <4>3, <4>4
      <3> QED
        BY <3>1, <3>2
    <2>4. Finish(r) /\ behind' \subseteq Requests
          /\ UNCHANGED <<open, begun, age, tokens, admin, late, ended, graded>>
      BY <1>2 DEF PracticalSave, Saving, LocalTypes
    <2>5. LocalsAfter
      BY <2>4, FinishTyped
    <2> QED
      BY <2>3, <2>4, <2>5 DEF After, SharedTypes, GhostTypes, CopySound, admin
  <1> QED
    BY <1>1, <1>2

LEMMA AdminSound ==
  ASSUME IInv, essayRequired' = essayRequired,
         \/ AdminLoad
         \/ \E s \in Subjects : AdminReset(s) \/ \E good \in BOOLEAN : AdminGrade(s, good)
  PROVE  After
  <1> USE DEF IInv
  <1>1. CASE AdminLoad
    BY <1>1 DEF AdminLoad, After, LocalsAfter, SharedTypes, GhostTypes, LocalTypes, EntrySound,
                SnapsSound, locals, ghosts
  <1>2. ASSUME NEW op, NEW s \in Subjects, NEW e, copy # NoCopy, Sound(s, e),
               AdminWrite(op, [copy EXCEPT ![s] = e])
        PROVE  After
    <2>1. copy \in SoundProgress
      BY <1>2 DEF CopySound
    <2>2. entry' \in SoundProgress
      BY <1>2, <2>1, SoundUpdate DEF AdminWrite
    <2>3. writes' \in 0..MaxWrites
      BY <1>2, ExamAssumption DEF AdminWrite, SharedTypes
    <2>4. stale' \in BOOLEAN /\ copy' = NoCopy
          /\ UNCHANGED <<open, begun, age, tokens, locals, late, ended, graded>>
      BY <1>2 DEF AdminWrite
    <2> QED
      BY <2>2, <2>3, <2>4 DEF After, LocalsAfter, SharedTypes, GhostTypes, LocalTypes, SnapsSound, locals
  <1>3. ASSUME NEW s \in Subjects, copy # NoCopy
        PROVE  Sound(s, copy[s])
    BY <1>3 DEF CopySound, SoundProgress
  <1>4. ASSUME NEW s \in Subjects, AdminReset(s)
        PROVE  After
    <2> DEFINE e == [copy[s] EXCEPT !.status = "chua_thi", !.mc = FALSE,
                                    !.filed = FALSE, !.essay = "none"]
    <2>1. copy # NoCopy
      BY <1>4 DEF AdminReset
    <2>2. Sound(s, e)
      BY <1>3, <2>1, SoundAdmin
    <2>3. copy \in Progress
      BY <2>1 DEF CopySound, SoundProgress
    <2>4. [copy EXCEPT ![s].status = "chua_thi", ![s].mc = FALSE, ![s].filed = FALSE, ![s].essay = "none"]
            = [copy EXCEPT ![s] = e]
      BY <2>3 DEF Progress, Entry
    <2>5. AdminWrite("reset", [copy EXCEPT ![s] = e])
      BY <1>4, <2>4 DEF AdminReset
    <2> HIDE DEF e
    <2> QED
      BY <1>2, <2>1, <2>2, <2>5
  <1>5. ASSUME NEW s \in Subjects, NEW good \in BOOLEAN, AdminGrade(s, good)
        PROVE  After
    <2>1. copy # NoCopy /\ AdminWrite("grade", [copy EXCEPT ![s] = Assessed(copy[s], good)])
      BY <1>5 DEF AdminGrade
    <2>2. Sound(s, Assessed(copy[s], good))
      BY <1>3, <2>1, SoundAdmin
    <2> QED
      BY <1>2, <2>1, <2>2
  <1> QED
    BY <1>1, <1>4, <1>5

(* The room is locked or unlocked, time passes, nothing happens.           *)
LEMMA OtherSound ==
  ASSUME IInv, essayRequired' = essayRequired,
         \/ SetRoom("unlock") \/ SetRoom("lock")
         \/ \E a \in Attempts : Pass(a)
         \/ UNCHANGED evars
  PROVE  After
  <1> USE DEF IInv
  <1>1. CASE SetRoom("unlock") \/ SetRoom("lock")
    BY <1>1 DEF SetRoom, Saving, After, LocalsAfter, SharedTypes, GhostTypes, LocalTypes, EntrySound,
                CopySound, SnapsSound, admin, ghosts
  <1>2. ASSUME NEW a \in Attempts, Pass(a)
        PROVE  After
    <2>1. age' \in [Attempts -> {"fresh", "running", "over"}]
      BY <1>2 DEF Pass, SharedTypes
    <2> QED
      BY <1>2, <2>1 DEF Pass, After, LocalsAfter, SharedTypes, GhostTypes, LocalTypes, EntrySound,
                        CopySound, SnapsSound, locals, admin, ghosts
  <1>3. CASE UNCHANGED evars
    BY <1>3 DEF evars, After, LocalsAfter, SharedTypes, GhostTypes, LocalTypes, EntrySound,
                CopySound, SnapsSound, locals, admin, ghosts
  <1> QED
    BY <1>1, <1>2, <1>3

LEMMA StepSound ==
  ASSUME IInv, [ExamNext]_evars
  PROVE  IInv'
  <1>1. essayRequired' = essayRequired
    BY DEF ExamNext, StartRead, StartAbandon, StartExpire, StartClaim, StartReread, SubmitGrade,
           SubmitClaim, Forfeit, Abandon, SoftRead, SoftClaim, SoftGiveUp, PracticalRead,
           PracticalSave, SetRoom, AdminLoad, AdminGrade, AdminReset, AdminWrite, Pass, evars, admin
  <1>2. After
    BY <1>1, StartSound, SubmitSound, GiveUpsSound, SoftSound, PracticalSound, AdminSound, OtherSound
       DEF ExamNext
  <1> QED
    BY <1>1, <1>2, AfterIsInvariant

-----------------------------------------------------------------------------
(* The invariant holds for every number of subjects, requests and attempts. *)
THEOREM Invariance == ExamSpec => []IInv
  BY InitSound, StepSound, PTL DEF ExamSpec

(* Every variable has its type.                                            *)
THEOREM ExamTypeCorrect == ExamSpec => []ExamTypeOK
  <1>1. IInv => ExamTypeOK
    BY DEF IInv, SharedTypes, GhostTypes, LocalTypes, Steps, Argument, EntrySound, CopySound,
           SoundProgress, ExamTypeOK
  <1> QED
    BY <1>1, Invariance, PTL

(* A pass is earned, whatever claims and whole writes from whatever copies *)
(* have met in the progress array (PUT /students/:id, PUT exam-progress).  *)
THEOREM PassesAreEarned == ExamSpec => []PassIsEarned
  <1>1. IInv => PassIsEarned
    BY DEF IInv, EntrySound, SoundProgress, Sound, PassIsEarned
  <1> QED
    BY <1>1, Invariance, PTL

-----------------------------------------------------------------------------
(* Attempts and verdicts.  While no whole write is made from an outdated   *)
(* copy, every step does one of three things to one entry: it edits the    *)
(* entry and leaves its attempt alone, ends its attempt, or puts a new     *)
(* attempt into it.  The invariants are kept by each of the three.         *)
(***************************************************************************)
(* While no whole write was made from an outdated copy: what was handed in *)
(* or begun is known to the counter and to the claims.                     *)
Numbered ==
  /\ ended \subseteq 1..begun
  /\ \A s \in Subjects :
       /\ entry[s].attempt <= begun
       /\ entry[s].state = "active" => entry[s].attempt \notin ended
       /\ entry[s].state = "submitted" => entry[s].attempt \in ended

(* No attempt is active in two subjects.                                   *)
Sole ==
  \A s, t \in Subjects :
    s # t /\ entry[s].state = "active" /\ entry[t].state = "active"
      => entry[s].attempt # entry[t].attempt

(* A begun attempt no claim has ended is active somewhere.                 *)
Kept == \A a \in 1..begun \ ended : \E s \in Subjects : IsActive(s, a)

(* An attempt is graded by the claim that ends it.                         *)
GradedEnded == \A a \in Attempts : graded[a] <= 1 /\ (graded[a] # 0 => a \in ended)

(* All of it is void once an outdated copy has been written.               *)
AttemptInv == ~stale => Numbered /\ Sole /\ Kept /\ GradedEnded

(* An active attempt has neither a verdict nor a passed part; a passed part *)
(* without a verdict belongs to a hand-in.                                 *)
Clean(e) ==
  /\ e.state = "active" => e.status = "dang_thi" /\ ~e.mc
  /\ e.mc /\ e.status \notin Verdicts => e.status = "dang_thi" /\ e.state = "submitted"

(* So it is until a start has replaced a hand-in or an outdated copy was   *)
(* written.                                                                *)
VerdictInv == ~stale /\ ~late => \A s \in Subjects : Clean(entry[s])

Invariants == IInv /\ AttemptInv /\ VerdictInv

-----------------------------------------------------------------------------
(* The three kinds of steps, for the entry of s and its new value.         *)

(* The attempt and what became of it stay; the status moves only in whole  *)
(* writes of administrators.                                               *)
Edited(s, new) ==
  /\ Write(s, new)
  /\ new.attempt = entry[s].attempt /\ new.state = entry[s].state
  /\ writes' = writes => new.status = entry[s].status
  /\ UNCHANGED <<begun, ended, graded>>

(* A claim ends the attempt, and grades it at most if it was active.       *)
Ended(s, new) ==
  /\ End(s, new)
  /\ entry[s].state \in {"active", "submitted"}
  /\ entry[s].status \notin Verdicts \/ entry[s].state = "active"
  /\ new.state # "active"
  /\ new.attempt = entry[s].attempt \/ (new.attempt = 0 /\ new.state # "submitted")
  /\ begun' = begun
  /\ \/ graded' = graded
     \/ /\ entry[s].state = "active"
        /\ graded' = [graded EXCEPT ![entry[s].attempt] = @ + 1]

(* A claim puts the next attempt into an entry without an active one.      *)
Began(s, new) ==
  /\ Write(s, new)
  /\ entry[s].state # "active" /\ entry[s].status \notin Verdicts
  /\ new.attempt = begun + 1 /\ new.state = "active"
  /\ begun' = begun + 1
  /\ UNCHANGED <<ended, graded>>

(* Unless a delayed start is noted, a clean entry is replaced by one.      *)
Cleanly(s, new) == ~late' /\ Clean(entry[s]) => Clean(new)

Moved ==
  \/ UNCHANGED <<entry, begun, ended, graded>>
  \/ \E s \in Subjects, new \in Entry :
       /\ Edited(s, new) \/ Ended(s, new) \/ Began(s, new)
       /\ Cleanly(s, new)

-----------------------------------------------------------------------------
(* What an entry may become, without the array around it.                  *)
LEMMA CleanClaims ==
  ASSUME NEW e \in Entry, Clean(e)
  PROVE  /\ Clean(GivenUp(e))
         /\ Clean([GivenUp(e) EXCEPT !.mc = FALSE])
         /\ Clean([e EXCEPT !.status = "khong_dat", !.state = "forfeited"])
         /\ \A filed \in BOOLEAN : Clean([e EXCEPT !.filed = filed])
  BY DEF Clean, GivenUp, Entry, Verdicts

(* Ending an active attempt keeps its entry clean.                         *)
LEMMA CleanOpen ==
  ASSUME NEW e \in Entry, Clean(e), e.state = "active"
  PROVE  /\ Clean([e EXCEPT !.status = "chua_thi", !.attempt = 0, !.state = "none"])
         /\ \A s \in Subjects, passed \in BOOLEAN : Clean(Marked(e, s, passed))
  BY DEF Clean, Marked, Entry, Verdicts

(* So does starting one over no passed hand-in.                            *)
LEMMA CleanStart ==
  ASSUME NEW e \in Entry, Clean(e), e.state # "active",
         e = Absent \/ e.status \in {"chua_thi", "dang_thi"},
         ~(e.status = "dang_thi" /\ e.state = "submitted"),
         NEW a \in Attempts
  PROVE  Clean([e EXCEPT !.status = "dang_thi", !.attempt = a, !.state = "active"])
  BY DEF Clean, Entry, Verdicts, Absent

(* So do the writes of administrators.                                     *)
LEMMA CleanAdmin ==
  ASSUME NEW e \in Entry, Clean(e)
  PROVE  /\ \A good \in BOOLEAN : Clean(Assessed(e, good))
         /\ e.status = "khong_dat" =>
              Clean([e EXCEPT !.status = "chua_thi", !.mc = FALSE, !.filed = FALSE, !.essay = "none"])
  BY DEF Clean, Assessed, Entry, Verdicts

(* The invariant of the types, as far as the kinds need it.                *)
LEMMA Typed ==
  ASSUME IInv
  PROVE  /\ \A s \in Subjects : entry[s] \in Entry
         /\ \A r \in Requests : arg[r].subject \in Subjects /\ arg[r].flag \in BOOLEAN
         /\ \A s \in Subjects : entry[s].state \in {"active", "submitted"} => entry[s].attempt \in Attempts
         /\ entry \in Progress
         /\ begun \in Nat
  BY ExamAssumption DEF IInv, EntrySound, SoundProgress, Sound, LocalTypes, Argument, SharedTypes, Attempts

(* What the claims put into an entry is an entry.                          *)
LEMMA EntryTyped ==
  ASSUME NEW e \in Entry
  PROVE  /\ GivenUp(e) \in Entry
         /\ [GivenUp(e) EXCEPT !.mc = FALSE] \in Entry
         /\ [e EXCEPT !.status = "khong_dat", !.state = "forfeited"] \in Entry
         /\ [e EXCEPT !.status = "chua_thi", !.attempt = 0, !.state = "none"] \in Entry
         /\ \A a \in Attempts : [e EXCEPT !.status = "dang_thi", !.attempt = a, !.state = "active"] \in Entry
         /\ \A filed \in BOOLEAN : [e EXCEPT !.filed = filed] \in Entry
         /\ \A s \in Subjects, passed \in BOOLEAN : Marked(e, s, passed) \in Entry
         /\ \A good \in BOOLEAN : Assessed(e, good) \in Entry
         /\ [e EXCEPT !.status = "chua_thi", !.mc = FALSE, !.filed = FALSE, !.essay = "none"] \in Entry
  BY DEF Entry, Verdicts, GivenUp, Marked, Assessed

-----------------------------------------------------------------------------
(* Every step is of one of the three kinds.                                *)

(* Giving up an open attempt ends it.                                      *)
LEMMA GiveUpMoves ==
  ASSUME IInv, NEW s \in Subjects, NEW a, GiveUpOpen(s, a), begun' = begun
  PROVE  Moved
  <1>1. CASE IsOpen(s, a)
    <2> DEFINE e == entry[s]
    <2>1. e \in Entry /\ GivenUp(e) \in Entry
      BY Typed, EntryTyped
    <2>2. End(s, GivenUp(e)) /\ graded' = graded
      BY <1>1 DEF GiveUpOpen
    <2>3. e.state \in {"active", "submitted"} /\ e.status \notin Verdicts
      BY <1>1 DEF IsOpen, Verdicts
    <2>4. GivenUp(e).state # "active" /\ GivenUp(e).attempt = e.attempt
      BY <2>1 DEF GivenUp, Entry
    <2>5. Ended(s, GivenUp(e))
      BY <2>2, <2>3, <2>4 DEF Ended
    <2>6. Cleanly(s, GivenUp(e))
      BY <2>1, CleanClaims DEF Cleanly
    <2> QED
      BY <2>1, <2>5, <2>6 DEF Moved
  <1>2. CASE ~IsOpen(s, a)
    BY <1>2 DEF GiveUpOpen, ghosts, Moved
  <1> QED
    BY <1>1, <1>2

(* A claim on an active attempt ends it, if what it writes is not active.  *)
LEMMA ActiveMoves ==
  ASSUME IInv, NEW s \in Subjects, NEW a, IsActive(s, a), NEW new \in Entry, End(s, new),
         new.state # "active",
         new.attempt = entry[s].attempt \/ (new.attempt = 0 /\ new.state # "submitted"),
         Clean(entry[s]) => Clean(new), begun' = begun,
         graded' = graded \/ graded' = [graded EXCEPT ![a] = @ + 1]
  PROVE  Moved
  <1>1. entry[s].state = "active" /\ entry[s].attempt = a
    BY DEF IsActive
  <1>2. Ended(s, new)
    BY <1>1 DEF Ended
  <1> QED
    BY <1>2 DEF Moved, Cleanly

(* Starting an exam begins an attempt or ends the open one.                *)
LEMMA StartMoves ==
  ASSUME IInv, NEW r \in Requests, StartAbandon(r) \/ StartExpire(r) \/ StartClaim(r)
  PROVE  Moved
  <1> DEFINE s == arg[r].subject
             e == entry[s]
  <1>1. s \in Subjects /\ e \in Entry
    BY Typed
  <1>2. CASE StartAbandon(r)
    BY <1>1, <1>2, GiveUpMoves DEF StartAbandon
  <1>3. CASE StartExpire(r)
    <2> DEFINE new == [e EXCEPT !.status = "khong_dat", !.state = "forfeited"]
    <2>1. CASE IsActive(s, arg[r].attempt)
      <3>1. End(s, new) /\ graded' = graded /\ begun' = begun
        BY <1>3, <2>1 DEF StartExpire
      <3>2. new \in Entry /\ (Clean(e) => Clean(new))
        BY <1>1, EntryTyped, CleanClaims
      <3>3. new.state # "active" /\ new.attempt = e.attempt
        BY <1>1 DEF Entry
      <3> HIDE DEF s, e, new
      <3> QED
        BY <1>1, <2>1, <3>1, <3>2, <3>3, ActiveMoves DEF e
    <2>2. CASE ~IsActive(s, arg[r].attempt)
      BY <1>3, <2>2 DEF StartExpire, ghosts, Moved
    <2> QED
      BY <2>1, <2>2
  <1>4. CASE StartClaim(r)
    <2> DEFINE new == [e EXCEPT !.status = "dang_thi", !.attempt = begun + 1, !.state = "active"]
    <2>1. begun + 1 \in Attempts
      BY <1>4, ExamAssumption DEF StartClaim, IInv, SharedTypes, Attempts
    <2>2. new \in Entry
      BY <1>1, <2>1, EntryTyped
    <2>3. e.state # "active" /\ (e = Absent \/ e.status \in {"chua_thi", "dang_thi"})
      BY <1>4 DEF StartClaim, Claims, Absent
    <2>4. e.status \notin Verdicts
      BY <2>3 DEF Absent, Verdicts
    <2>5. Write(s, new) /\ begun' = begun + 1 /\ ended' = ended /\ graded' = graded
      BY <1>4 DEF StartClaim
    <2>6. new.attempt = begun + 1 /\ new.state = "active"
      BY <1>1 DEF Entry
    <2>7. Began(s, new)
      BY <2>3, <2>4, <2>5, <2>6 DEF Began
    <2>8. ~late' => ~(e.status = "dang_thi" /\ e.state = "submitted")
      BY <1>4 DEF StartClaim
    <2>9. Cleanly(s, new)
      BY <1>1, <2>1, <2>3, <2>8, CleanStart DEF Cleanly
    <2> QED
      BY <1>1, <2>2, <2>7, <2>9 DEF Moved
  <1> QED
    BY <1>2, <1>3, <1>4

(* Handing in ends the attempt it was made for, and grades it.             *)
LEMMA SubmitMoves ==
  ASSUME IInv, NEW r \in Requests, SubmitClaim(r)
  PROVE  Moved
  <1> DEFINE s == arg[r].subject
             a == arg[r].attempt
             e == entry[s]
             new == Marked(e, s, arg[r].flag)
  <1>1. s \in Subjects /\ arg[r].flag \in BOOLEAN /\ e \in Entry
    BY Typed
  <1>2. CASE IsActive(s, a)
    <2>1. End(s, new) /\ begun' = begun
          /\ (graded' = graded \/ graded' = [graded EXCEPT ![a] = @ + 1])
      BY <1>2 DEF SubmitClaim
    <2>2. new \in Entry
      BY <1>1, EntryTyped
    <2>3. Clean(e) => Clean(new)
      BY <1>1, <1>2, CleanOpen DEF IsActive
    <2>4. new.state # "active" /\ new.attempt = e.attempt
      BY <1>1 DEF Marked, Entry
    <2> HIDE DEF s, a, e, new
    <2> QED
      BY <1>1, <1>2, <2>1, <2>2, <2>3, <2>4, ActiveMoves DEF e
  <1>3. CASE ~IsActive(s, a)
    BY <1>3 DEF SubmitClaim, ghosts, Moved
  <1> QED
    BY <1>2, <1>3

(* So does giving up, ...                                                  *)
LEMMA GiveUpsMove ==
  ASSUME IInv, NEW s \in Subjects, NEW a \in {0} \cup Attempts, Forfeit(s, a) \/ Abandon(s, a)
  PROVE  Moved
  <1>1. CASE Forfeit(s, a)
    <2> DEFINE e == entry[s]
               new == [GivenUp(e) EXCEPT !.mc = FALSE]
    <2>1. e \in Entry
      BY Typed
    <2>2. IsActive(s, a) /\ End(s, new) /\ graded' = graded /\ begun' = begun
      BY <1>1 DEF Forfeit
    <2>3. new \in Entry /\ (Clean(e) => Clean(new))
      BY <2>1, EntryTyped, CleanClaims
    <2>4. new.state # "active" /\ new.attempt = e.attempt
      BY <2>1 DEF GivenUp, Entry
    <2> HIDE DEF e, new
    <2> QED
      BY <2>2, <2>3, <2>4, ActiveMoves DEF e
  <1>2. CASE Abandon(s, a)
    BY <1>2, GiveUpMoves DEF Abandon
  <1> QED
    BY <1>1, <1>2

(* ... or releasing a young attempt.                                       *)
LEMMA SoftMoves ==
  ASSUME IInv, NEW r \in Requests, SoftClaim(r) \/ SoftGiveUp(r)
  PROVE  Moved
  <1> DEFINE s == arg[r].subject
             e == entry[s]
             new == [e EXCEPT !.status = "chua_thi", !.attempt = 0, !.state = "none"]
  <1>1. s \in Subjects /\ e \in Entry
    BY Typed
  <1>2. CASE SoftGiveUp(r)
    BY <1>1, <1>2, GiveUpMoves DEF SoftGiveUp
  <1>3. CASE SoftClaim(r) /\ IsActive(s, arg[r].attempt)
    <2>1. End(s, new) /\ graded' = graded /\ begun' = begun
      BY <1>3 DEF SoftClaim
    <2>2. new \in Entry
      BY <1>1, EntryTyped
    <2>3. Clean(e) => Clean(new)
      BY <1>1, <1>3, CleanOpen DEF IsActive
    <2>4. new.state # "active" /\ new.attempt = 0 /\ new.state # "submitted"
      BY <1>1 DEF Entry
    <2> HIDE DEF s, e, new
    <2> QED
      BY <1>1, <1>3, <2>1, <2>2, <2>3, <2>4, ActiveMoves DEF e
  <1>4. CASE SoftClaim(r) /\ ~IsActive(s, arg[r].attempt)
    BY <1>4 DEF SoftClaim, Moved
  <1> QED
    BY <1>2, <1>3, <1>4

(* A whole write from a current copy edits one entry.                      *)
LEMMA PracticalMoves ==
  ASSUME IInv, NEW r \in Requests, PracticalSave(r), ~stale'
  PROVE  Moved
  <1> DEFINE s == arg[r].subject
             new == [entry[s] EXCEPT !.filed = arg[r].flag]
  <1>1. s \in Subjects /\ arg[r].flag \in BOOLEAN /\ entry[s] \in Entry /\ entry \in Progress
    BY Typed
  <1>2. CASE r \in behind
    BY <1>2 DEF PracticalSave, Moved
  <1>3. CASE r \notin behind
    <2>1. snap[r] = entry /\ entry' = [snap[r] EXCEPT ![s].filed = arg[r].flag]
      BY <1>3 DEF PracticalSave
    <2>2. entry' = [entry EXCEPT ![s] = new]
      BY <2>1, <1>1 DEF Progress
    <2>3. new \in Entry /\ (Clean(entry[s]) => Clean(new))
      BY <1>1, EntryTyped, CleanClaims
    <2>4. new.attempt = entry[s].attempt /\ new.state = entry[s].state /\ new.status = entry[s].status
      BY <1>1 DEF Entry
    <2>5. UNCHANGED <<begun, ended, graded>>
      BY DEF PracticalSave
    <2> HIDE DEF s, new
    <2>6. Edited(s, new)
      BY <2>2, <2>4, <2>5 DEF Edited, Write
    <2> QED
      BY <1>1, <2>3, <2>6 DEF Moved, Cleanly
  <1> QED
    BY <1>2, <1>3

(* So does one of an administrator.                                        *)
LEMMA AdminMoves ==
  ASSUME IInv, NEW s \in Subjects, AdminReset(s) \/ \E good \in BOOLEAN : AdminGrade(s, good), ~stale'
  PROVE  Moved
  <1> DEFINE e == entry[s]
  <1>1. e \in Entry /\ entry \in Progress
    BY Typed
  <1>2. ASSUME NEW op, NEW new \in Entry, AdminWrite(op, [copy EXCEPT ![s] = new]),
               new.attempt = e.attempt, new.state = e.state, Clean(e) => Clean(new)
        PROVE  Moved
    <2>1. copy = entry /\ writes' = writes + 1 /\ entry' = [copy EXCEPT ![s] = new]
          /\ UNCHANGED <<begun, ended, graded>>
      BY <1>2 DEF AdminWrite
    <2>2. writes' # writes
      BY <2>1, ExamAssumption DEF IInv, SharedTypes
    <2>3. Edited(s, new)
      BY <1>2, <2>1, <2>2 DEF Edited, Write
    <2> QED
      BY <1>2, <2>3 DEF Moved, Cleanly
  <1>3. CASE AdminReset(s)
    <2> DEFINE new == [e EXCEPT !.status = "chua_thi", !.mc = FALSE, !.filed = FALSE, !.essay = "none"]
    <2>1. copy = entry /\ e.status = "khong_dat"
      BY <1>3 DEF AdminReset, AdminWrite
    <2>2. [copy EXCEPT ![s].status = "chua_thi", ![s].mc = FALSE, ![s].filed = FALSE, ![s].essay = "none"]
            = [copy EXCEPT ![s] = new]
      BY <1>1, <2>1 DEF Progress, Entry
    <2>3. AdminWrite("reset", [copy EXCEPT ![s] = new])
      BY <1>3, <2>2 DEF AdminReset
    <2>4. new \in Entry /\ (Clean(e) => Clean(new))
      BY <1>1, <2>1, EntryTyped, CleanAdmin
    <2>5. new.attempt = e.attempt /\ new.state = e.state
      BY <1>1 DEF Entry
    <2> HIDE DEF new, e
    <2> QED
      BY <1>2, <2>3, <2>4, <2>5
  <1>4. ASSUME NEW good \in BOOLEAN, AdminGrade(s, good)
        PROVE  Moved
    <2> DEFINE new == Assessed(e, good)
    <2>1. copy = entry /\ AdminWrite("grade", [copy EXCEPT ![s] = Assessed(copy[s], good)])
      BY <1>4 DEF AdminGrade, AdminWrite
    <2>2. AdminWrite("grade", [copy EXCEPT ![s] = new])
      BY <2>1
    <2>3. new \in Entry /\ (Clean(e) => Clean(new))
      BY <1>1, EntryTyped, CleanAdmin
    <2>4. new.attempt = e.attempt /\ new.state = e.state
      BY <1>1 DEF Assessed, Entry
    <2> HIDE DEF new, e
    <2> QED
      BY <1>2, <2>2, <2>3, <2>4
  <1> QED
    BY <1>3, <1>4

(* The other steps touch no entry.                                         *)
LEMMA OtherMoves ==
  ASSUME \/ \E r \in Requests, s \in Subjects :
              \/ \E a \in {0} \cup Attempts : StartRead(r, s, a)
              \/ \E a \in Attempts, passed \in BOOLEAN : SubmitGrade(r, s, a, passed)
              \/ SoftRead(r, s)
              \/ \E op \in {"practical", "blank"} : PracticalRead(r, s, op)
         \/ \E r \in Requests : StartReread(r)
         \/ SetRoom("unlock") \/ SetRoom("lock") \/ AdminLoad
         \/ \E a \in Attempts : Pass(a)
         \/ UNCHANGED evars
  PROVE  UNCHANGED <<entry, begun, ended, graded, stale, late>>
  BY DEF StartRead, SubmitGrade, SoftRead, PracticalRead, StartReread, SetRoom, AdminLoad, Pass, evars, ghosts

(* So every step is of a kind, unless it writes an outdated copy.          *)
LEMMA StepMoves ==
  ASSUME IInv, [ExamNext]_evars, ~stale'
  PROVE  Moved
  <1>1. CASE \E r \in Requests : \/ StartAbandon(r) \/ StartExpire(r) \/ StartClaim(r)
                                 \/ SubmitClaim(r) \/ SoftClaim(r) \/ SoftGiveUp(r) \/ PracticalSave(r)
    BY <1>1, StartMoves, SubmitMoves, SoftMoves, PracticalMoves
  <1>2. CASE \E s \in Subjects : \/ \E a \in {0} \cup Attempts : Forfeit(s, a) \/ Abandon(s, a)
                                 \/ \E good \in BOOLEAN : AdminGrade(s, good)
                                 \/ AdminReset(s)
    BY <1>2, GiveUpsMove, AdminMoves
  <1>3. CASE UNCHANGED <<entry, begun, ended, graded, stale, late>>
    BY <1>3 DEF Moved
  <1> QED
    BY <1>1, <1>2, <1>3, OtherMoves DEF ExamNext

(* What is noted of outdated writes and delayed starts stays noted.        *)
LEMMA Noted ==
  ASSUME IInv, [ExamNext]_evars
  PROVE  (stale => stale') /\ (late => late')
  <1> DEFINE Stays == (stale => stale') /\ (late => late')
  <1>0. stale \in BOOLEAN /\ late \in BOOLEAN
    BY DEF IInv, GhostTypes
  <1>1. ASSUME NEW s, NEW a, GiveUpOpen(s, a)
        PROVE  Stays
    BY <1>1 DEF GiveUpOpen, ghosts
  <1>2. ASSUME NEW r \in Requests,
               \/ StartAbandon(r) \/ StartExpire(r) \/ StartClaim(r)
               \/ SubmitClaim(r) \/ SoftClaim(r) \/ SoftGiveUp(r) \/ PracticalSave(r)
        PROVE  Stays
    <2>1. CASE StartAbandon(r) \/ SoftGiveUp(r)
      BY <1>1, <2>1 DEF StartAbandon, SoftGiveUp
    <2>2. CASE StartExpire(r) \/ SubmitClaim(r)
      BY <2>2 DEF StartExpire, SubmitClaim, ghosts
    <2>3. CASE StartClaim(r) \/ SoftClaim(r) \/ PracticalSave(r)
      BY <1>0, <2>3 DEF StartClaim, SoftClaim, PracticalSave
    <2> QED
      BY <1>2, <2>1, <2>2, <2>3
  <1>3. ASSUME NEW s \in Subjects,
               \/ \E a \in {0} \cup Attempts : Forfeit(s, a) \/ Abandon(s, a)
               \/ \E good \in BOOLEAN : AdminGrade(s, good)
               \/ AdminReset(s)
        PROVE  Stays
    <2>1. CASE \E a \in {0} \cup Attempts : Abandon(s, a)
      BY <1>1, <2>1 DEF Abandon
    <2>2. CASE \E a \in {0} \cup Attempts : Forfeit(s, a)
      BY <2>2 DEF Forfeit
    <2>3. CASE AdminReset(s) \/ \E good \in BOOLEAN : AdminGrade(s, good)
      BY <1>0, <2>3 DEF AdminGrade, AdminReset, AdminWrite
    <2> QED
      BY <1>3, <2>1, <2>2, <2>3
  <1>4. CASE UNCHANGED <<entry, begun, ended, graded, stale, late>>
    BY <1>4
  <1> QED
    BY <1>2, <1>3, <1>4, OtherMoves DEF ExamNext

-----------------------------------------------------------------------------
(* Each kind of step keeps the invariants of the attempts.                 *)

(* Editing: neither the attempt nor its state has moved.                   *)
LEMMA EditedKeeps ==
  ASSUME IInv, AttemptInv, ~stale, NEW s \in Subjects, NEW new \in Entry, Edited(s, new)
  PROVE  (Numbered /\ Sole /\ Kept /\ GradedEnded)'
  <1>1. \A t \in Subjects : entry'[t].attempt = entry[t].attempt /\ entry'[t].state = entry[t].state
    BY Typed DEF Edited, Write, Progress
  <1>2. UNCHANGED <<begun, ended, graded>>
    BY DEF Edited
  <1>3. Numbered' /\ Sole'
    BY <1>1, <1>2 DEF AttemptInv, Numbered, Sole
  <1>4. Kept' /\ GradedEnded'
    BY <1>1, <1>2 DEF AttemptInv, Kept, GradedEnded, IsActive
  <1> QED
    BY <1>3, <1>4

(* Ending: what was active is ended now, and nothing else was.             *)
LEMMA EndedKeeps ==
  ASSUME IInv, AttemptInv, ~stale, NEW s \in Subjects, NEW new \in Entry, Ended(s, new)
  PROVE  (Numbered /\ Sole /\ Kept /\ GradedEnded)'
  <1> DEFINE a == entry[s].attempt
  <1>1. entry'[s] = new /\ \A t \in Subjects \ {s} : entry'[t] = entry[t]
    BY Typed DEF Ended, End, Write, Progress
  <1>2. ended' = ended \cup {a} /\ begun' = begun /\ a \in Attempts
    BY Typed DEF Ended, End
  <1>3. a \in 1..begun
    BY <1>2, Typed DEF AttemptInv, Numbered, Attempts
  <1>4. new.state # "active" /\ new.attempt \in {0, a} /\ (new.state = "submitted" => new.attempt = a)
    BY DEF Ended
  <1>5. \A t \in Subjects \ {s} : entry[t].state = "active" => entry[t].attempt # a
    BY DEF AttemptInv, Numbered, Sole, Ended
  <1>6. Numbered'
    <2>1. ended' \subseteq 1..begun'
      BY <1>2, <1>3 DEF AttemptInv, Numbered
    <2>2. \A t \in Subjects \ {s} : /\ entry'[t].attempt <= begun'
                                    /\ entry'[t].state = "active" => entry'[t].attempt \notin ended'
                                    /\ entry'[t].state = "submitted" => entry'[t].attempt \in ended'
      BY <1>1, <1>2, <1>5 DEF AttemptInv, Numbered
    <2>3. new.attempt <= begun
      BY <1>3, <1>4, Typed
    <2> QED
      BY <1>1, <1>2, <1>4, <2>1, <2>2, <2>3 DEF Numbered
  <1>7. Sole'
    BY <1>1, <1>4 DEF AttemptInv, Sole
  <1>8. Kept'
    BY <1>1, <1>2 DEF AttemptInv, Kept, IsActive
  <1>9. GradedEnded'
    <2>1. graded \in [Attempts -> Nat]
      BY DEF IInv, GhostTypes
    <2>2. entry[s].state = "active" => graded[a] = 0
      BY <1>2, <2>1 DEF AttemptInv, Numbered, GradedEnded
    <2>3. graded' = graded \/ (entry[s].state = "active" /\ graded' = [graded EXCEPT ![a] = @ + 1])
      BY DEF Ended
    <2> QED
      BY <1>2, <2>1, <2>2, <2>3 DEF AttemptInv, GradedEnded
  <1> QED
    BY <1>6, <1>7, <1>8, <1>9

(* Beginning: the number is new.                                           *)
LEMMA BeganKeeps ==
  ASSUME IInv, AttemptInv, ~stale, NEW s \in Subjects, NEW new \in Entry, Began(s, new)
  PROVE  (Numbered /\ Sole /\ Kept /\ GradedEnded)'
  <1>1. entry'[s] = new /\ \A t \in Subjects \ {s} : entry'[t] = entry[t]
    BY Typed DEF Began, Write, Progress
  <1>2. UNCHANGED <<ended, graded>> /\ begun' = begun + 1 /\ begun \in Nat
    BY Typed DEF Began
  <1>3. new.attempt = begun + 1 /\ new.state = "active" /\ entry[s].state # "active"
    BY DEF Began
  <1>4. \A t \in Subjects : entry[t].attempt \in Nat
    BY Typed, ExamAssumption DEF Entry, Attempts
  <1>5. Numbered'
    <2>1. ended' \subseteq 1..begun' /\ begun + 1 \notin ended'
      BY <1>2 DEF AttemptInv, Numbered
    <2>2. \A t \in Subjects \ {s} : /\ entry'[t].attempt <= begun'
                                    /\ entry'[t].state = "active" => entry'[t].attempt \notin ended'
                                    /\ entry'[t].state = "submitted" => entry'[t].attempt \in ended'
      BY <1>1, <1>2, <1>4 DEF AttemptInv, Numbered
    <2> QED
      BY <1>1, <1>2, <1>3, <2>1, <2>2 DEF Numbered
  <1>6. Sole'
    <2>1. \A t \in Subjects \ {s} : entry'[t].attempt # begun + 1
      BY <1>1, <1>2, <1>4 DEF AttemptInv, Numbered
    <2> QED
      BY <1>1, <1>3, <2>1 DEF AttemptInv, Sole
  <1>7. Kept'
    <2>1. ASSUME NEW b \in 1..begun' \ ended' PROVE \E t \in Subjects : IsActive(t, b)'
      <3>1. CASE b = begun + 1
        BY <1>1, <1>3, <3>1 DEF IsActive
      <3>2. CASE b # begun + 1
        <4>1. b \in 1..begun \ ended
          BY <1>2, <2>1, <3>2
        <4>2. PICK t \in Subjects : IsActive(t, b)
          BY <4>1 DEF AttemptInv, Kept
        <4> QED
          BY <1>1, <1>3, <4>2 DEF IsActive
      <3> QED
        BY <3>1, <3>2
    <2> QED
      BY <2>1 DEF Kept
  <1>8. GradedEnded'
    BY <1>2 DEF AttemptInv, GradedEnded
  <1> QED
    BY <1>5, <1>6, <1>7, <1>8

(* Before any attempt there is nothing to lose.                            *)
LEMMA AttemptsInit ==
  ASSUME ExamInit
  PROVE  AttemptInv /\ VerdictInv
  <1>1. \A s \in Subjects : entry[s] \in {Absent, NotTaken}
    BY DEF ExamInit
  <1>2. \A s \in Subjects : entry[s].attempt = 0 /\ entry[s].state = "none" /\ entry[s].mc = FALSE
    BY <1>1 DEF Absent, NotTaken
  <1>3. begun = 0 /\ ended = {} /\ graded = [a \in Attempts |-> 0]
    BY DEF ExamInit
  <1>4. Numbered /\ Sole /\ Kept /\ GradedEnded
    BY <1>2, <1>3 DEF Numbered, Sole, Kept, GradedEnded
  <1>5. \A s \in Subjects : Clean(entry[s])
    BY <1>2 DEF Clean
  <1> QED
    BY <1>4, <1>5 DEF AttemptInv, VerdictInv

(* Every step keeps the invariant of the attempts, ...                     *)
LEMMA AttemptStep ==
  ASSUME Invariants, [ExamNext]_evars
  PROVE  AttemptInv'
  <1> SUFFICES ASSUME ~stale' PROVE (Numbered /\ Sole /\ Kept /\ GradedEnded)'
    BY DEF AttemptInv
  <1>1. IInv /\ AttemptInv /\ ~stale
    BY Noted DEF Invariants
  <1>2. Moved
    BY <1>1, StepMoves
  <1>3. CASE UNCHANGED <<entry, begun, ended, graded>>
    BY <1>1, <1>3 DEF AttemptInv, Numbered, Sole, Kept, GradedEnded, IsActive
  <1>4. ASSUME NEW s \in Subjects, NEW new \in Entry, Edited(s, new) \/ Ended(s, new) \/ Began(s, new)
        PROVE  (Numbered /\ Sole /\ Kept /\ GradedEnded)'
    BY <1>1, <1>4, EditedKeeps, EndedKeeps, BeganKeeps
  <1> QED
    BY <1>2, <1>3, <1>4 DEF Moved

(* ... and that of the verdicts, and moves no verdict by a claim.          *)
LEMMA VerdictStep ==
  ASSUME Invariants, [ExamNext]_evars
  PROVE  /\ VerdictInv'
         /\ writes' = writes /\ ~stale' /\ ~late' =>
              \A s \in Subjects : entry[s].status \in Verdicts => entry'[s].status = entry[s].status
  <1> SUFFICES ASSUME ~stale', ~late'
               PROVE  /\ \A s \in Subjects : Clean(entry[s])'
                      /\ writes' = writes =>
                           \A s \in Subjects : entry[s].status \in Verdicts =>
                                                 entry'[s].status = entry[s].status
    BY DEF VerdictInv
  <1>1. IInv /\ ~stale /\ ~late /\ \A s \in Subjects : Clean(entry[s])
    BY Noted DEF Invariants, VerdictInv
  <1>2. CASE UNCHANGED <<entry, begun, ended, graded>>
    BY <1>1, <1>2 DEF Clean
  <1>3. ASSUME NEW s \in Subjects, NEW new \in Entry, Cleanly(s, new),
               Edited(s, new) \/ Ended(s, new) \/ Began(s, new)
        PROVE  /\ \A t \in Subjects : Clean(entry[t])'
               /\ writes' = writes =>
                    \A t \in Subjects : entry[t].status \in Verdicts =>
                                          entry'[t].status = entry[t].status
    <2>1. entry'[s] = new /\ \A t \in Subjects \ {s} : entry'[t] = entry[t]
      BY <1>1, <1>3, Typed DEF Edited, Ended, Began, End, Write, Progress
    <2>2. Clean(new)
      BY <1>1, <1>3 DEF Cleanly
    <2>3. \A t \in Subjects : Clean(entry[t])'
      BY <1>1, <2>1, <2>2 DEF Clean
    <2>4. writes' = writes /\ entry[s].status \in Verdicts => new.status = entry[s].status
      BY <1>1, <1>3 DEF Edited, Ended, Began, Clean, Verdicts
    <2> QED
      BY <2>1, <2>3, <2>4
  <1> QED
    BY <1>1, <1>2, <1>3, StepMoves DEF Moved

-----------------------------------------------------------------------------
(* The invariants of the attempts and of the verdicts hold with that of    *)
(* the types.                                                              *)
THEOREM AttemptInvariance == ExamSpec => []Invariants
  <1>1. ExamInit => Invariants
    BY InitSound, AttemptsInit DEF Invariants
  <1>2. Invariants /\ [ExamNext]_evars => Invariants'
    BY StepSound, AttemptStep, VerdictStep DEF Invariants
  <1> QED
    BY <1>1, <1>2, PTL DEF ExamSpec

(* An attempt begun by POST exam-attempt stays the active attempt of its   *)
(* subject until a claim ends it, whatever tabs and delayed starts do.     *)
THEOREM AttemptsAreKept == ExamSpec => []AttemptKept
  <1>1. Invariants => AttemptKept
    BY DEF Invariants, AttemptInv, Kept, AttemptKept
  <1> QED
    BY <1>1, AttemptInvariance, PTL

(* An attempt is graded at most once, however often its answers reach POST *)
(* exam-attempt/submit.                                                    *)
THEOREM AttemptsAreGradedOnce == ExamSpec => []GradedOnce
  <1>1. Invariants => GradedOnce
    BY DEF Invariants, AttemptInv, GradedEnded, GradedOnce
  <1> QED
    BY <1>1, AttemptInvariance, PTL

(* A verdict moves only in a whole write of an administrator, unless an    *)
(* outdated copy or a delayed start is noted.                              *)
THEOREM VerdictsStand == ExamSpec => VerdictStands
  <1>1. Invariants /\ [ExamNext]_evars =>
          [writes' = writes /\ ~stale' /\ ~late' =>
             \A s \in Subjects : entry[s].status \in Verdicts =>
               entry'[s].status = entry[s].status]_evars
    BY VerdictStep
  <1> QED
    BY <1>1, AttemptInvariance, PTL DEF ExamSpec, VerdictStands
=============================================================================
