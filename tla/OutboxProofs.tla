---------------------------- MODULE OutboxProofs ----------------------------
(***************************************************************************)
(* Proofs about Outbox for every number of workers, events and retries.    *)
(***************************************************************************)
EXTENDS Outbox, TLAPS

(* Event numbers start at 1, so 0 can stand for "no event".                *)
LEMMA NoEventIsNoEvent == NoEvent \notin Events
  BY OutboxAssumption DEF NoEvent, Events

(* A working worker holds a real event.                                    *)
LEMMA WorkingHoldsEvent ==
  ASSUME TypeOK, NEW w \in Workers, Working(w)
  PROVE  cur[w] \in Events
  BY DEF TypeOK

-----------------------------------------------------------------------------
(* Type correctness.                                                       *)

(* The initial state is well typed.                                        *)
LEMMA InitType == Init => TypeOK
  BY OutboxAssumption DEF Init, TypeOK, Working

(* Every step keeps every variable well typed.                             *)
LEMMA NextType == TypeOK /\ [Next]_vars => TypeOK'
  <1> SUFFICES ASSUME TypeOK, [Next]_vars PROVE TypeOK'
    OBVIOUS
  <1> USE OutboxAssumption, NoEventIsNoEvent
      DEF TypeOK, store, locals, history, Working
  <1>1. ASSUME NEW e \in Events, Enqueue(e) PROVE TypeOK'
    BY <1>1 DEF Enqueue
  <1>2. ASSUME NEW w \in Workers, Start(w) PROVE TypeOK'
    BY <1>2 DEF Start
  <1>3. ASSUME NEW w \in Workers, Tick(w) PROVE TypeOK'
    BY <1>3 DEF Tick
  <1>4. ASSUME NEW w \in Workers, NEW e \in Events, Claim(w, e) PROVE TypeOK'
    BY <1>4 DEF Claim
  <1>14. ASSUME NEW w \in Workers, EndTick(w) PROVE TypeOK'
    BY <1>14 DEF EndTick
  <1>5. ASSUME NEW w \in Workers, Publish(w) PROVE TypeOK'
    BY <1>5 DEF Publish
  <1>6. ASSUME NEW w \in Workers, PublishThrows(w) PROVE TypeOK'
    BY <1>6, WorkingHoldsEvent DEF PublishThrows, Fault
  <1>7. ASSUME NEW w \in Workers, SaveProcessed(w) PROVE TypeOK'
    BY <1>7 DEF SaveProcessed
  <1>8. ASSUME NEW w \in Workers, SaveProcessedFails(w) PROVE TypeOK'
    BY <1>8 DEF SaveProcessedFails, Fault
  <1>9. ASSUME NEW w \in Workers, SaveRetry(w) PROVE TypeOK'
    BY <1>9 DEF SaveRetry, WriteRetry
  <1>10. ASSUME NEW w \in Workers, SaveRetryFails(w) PROVE TypeOK'
    BY <1>10 DEF SaveRetryFails, WriteRetry, Drop, Fault
  <1>11. ASSUME NEW w \in Workers, Crash(w) PROVE TypeOK'
    BY <1>11 DEF Crash, Drop, Fault
  <1>12. ASSUME NEW e \in Events, LeaseElapses(e) PROVE TypeOK'
    BY <1>12 DEF LeaseElapses
  <1>13. CASE UNCHANGED vars
    BY <1>13 DEF vars
  <1>15. QED
    BY <1>1, <1>2, <1>3, <1>4, <1>5, <1>6, <1>7, <1>8, <1>9, <1>10, <1>11,
       <1>12, <1>13, <1>14 DEF Next, Proceed, Misfire

(* The type invariant holds in every reachable state.                      *)
THEOREM TypeCorrect == Spec => []TypeOK
  BY InitType, NextType, PTL DEF Spec

-----------------------------------------------------------------------------
(* No retry is counted that was not tried.                                 *)

(* A retry count, of a document or of the copy a worker holds, is backed   *)
(* by as many failed attempts; a document that may still be claimed, and   *)
(* a copy that was claimed, have a try left.                               *)
RetriesAreBacked ==
  /\ \A e \in Events :
       /\ retryCount[e] <= failures[e]
       /\ status[e] \in {"none", "PENDING", "PROCESSING"} => retryCount[e] < MaxRetries
       /\ status[e] = "FAILED" => retryCount[e] >= MaxRetries
  /\ \A w \in Workers : Working(w) =>
       /\ copy[w] < MaxRetries
       /\ copy[w] <= failures[cur[w]]
       /\ pc[w] = "retry" => copy[w] < failures[cur[w]]

(* Nothing is counted before the first attempt.                            *)
LEMMA InitBacked == Init => RetriesAreBacked
  BY OutboxAssumption DEF Init, RetriesAreBacked, Working

(* No step counts a retry that no failed attempt backs.                    *)
LEMMA NextBacked == TypeOK /\ RetriesAreBacked /\ [Next]_vars => RetriesAreBacked'
  <1> SUFFICES ASSUME TypeOK, RetriesAreBacked, [Next]_vars PROVE RetriesAreBacked'
    OBVIOUS
  <1> USE OutboxAssumption, NoEventIsNoEvent
      DEF TypeOK, RetriesAreBacked, store, locals, history, Working
  <1>1. ASSUME NEW e \in Events, Enqueue(e) PROVE RetriesAreBacked'
    BY <1>1 DEF Enqueue
  <1>2. ASSUME NEW w \in Workers, Start(w) PROVE RetriesAreBacked'
    BY <1>2 DEF Start
  <1>3. ASSUME NEW w \in Workers, Tick(w) PROVE RetriesAreBacked'
    BY <1>3 DEF Tick
  <1>4. ASSUME NEW w \in Workers, NEW e \in Events, Claim(w, e) PROVE RetriesAreBacked'
    BY <1>4 DEF Claim, Claimable
  <1>5. ASSUME NEW w \in Workers, EndTick(w) PROVE RetriesAreBacked'
    BY <1>5 DEF EndTick
  <1>6. ASSUME NEW w \in Workers, Publish(w) PROVE RetriesAreBacked'
    BY <1>6 DEF Publish
  <1>7. ASSUME NEW w \in Workers, PublishThrows(w) PROVE RetriesAreBacked'
    BY <1>7 DEF PublishThrows, Fault
  <1>8. ASSUME NEW w \in Workers, SaveProcessed(w) PROVE RetriesAreBacked'
    BY <1>8 DEF SaveProcessed
  <1>9. ASSUME NEW w \in Workers, SaveProcessedFails(w) PROVE RetriesAreBacked'
    BY <1>9 DEF SaveProcessedFails, Fault
  <1>10. ASSUME NEW w \in Workers, SaveRetry(w) PROVE RetriesAreBacked'
    BY <1>10 DEF SaveRetry, WriteRetry
  <1>11. ASSUME NEW w \in Workers, SaveRetryFails(w) PROVE RetriesAreBacked'
    BY <1>11 DEF SaveRetryFails, WriteRetry, Drop, Fault
  <1>12. ASSUME NEW w \in Workers, Crash(w) PROVE RetriesAreBacked'
    BY <1>12 DEF Crash, Drop, Fault
  <1>13. ASSUME NEW e \in Events, LeaseElapses(e) PROVE RetriesAreBacked'
    BY <1>13 DEF LeaseElapses
  <1>14. CASE UNCHANGED vars
    BY <1>14 DEF vars
  <1>15. QED
    BY <1>1, <1>2, <1>3, <1>4, <1>5, <1>6, <1>7, <1>8, <1>9, <1>10, <1>11,
       <1>12, <1>13, <1>14 DEF Next, Proceed, Misfire

(* No worker gives a document up early, however stale its copy, and        *)
(* whether or not a publish may outlast its lease.                         *)
THEOREM GivenUpOnlyAfterRetries == Spec => []GivenUpAfterRetries
  <1>1. TypeOK /\ RetriesAreBacked => GivenUpAfterRetries
    BY OutboxAssumption DEF TypeOK, RetriesAreBacked, GivenUpAfterRetries
  <1>2. Spec => []RetriesAreBacked
    BY InitBacked, NextBacked, TypeCorrect, PTL DEF Spec
  <1>3. QED
    BY <1>1, <1>2, TypeCorrect, PTL

-----------------------------------------------------------------------------
(* Nothing is closed unpublished: the bus was called for what is closed,   *)
(* and for what a worker is about to close.                                *)
PublishedFirst ==
  /\ ProcessedWasPublished
  /\ \A w \in Workers : pc[w] = "saved" => published[cur[w]] > 0

(* No step closes, or moves on to close, what was not published.           *)
LEMMA NextPublished == TypeOK /\ PublishedFirst /\ [Next]_vars => PublishedFirst'
  <1> SUFFICES ASSUME TypeOK, PublishedFirst, [Next]_vars PROVE PublishedFirst'
    OBVIOUS
  <1> USE NoEventIsNoEvent
      DEF TypeOK, PublishedFirst, ProcessedWasPublished, store, locals, history, Working
  <1>1. ASSUME NEW e \in Events, Enqueue(e) PROVE PublishedFirst'
    BY <1>1 DEF Enqueue
  <1>2. ASSUME NEW w \in Workers, Start(w) PROVE PublishedFirst'
    BY <1>2 DEF Start
  <1>3. ASSUME NEW w \in Workers, Tick(w) PROVE PublishedFirst'
    BY <1>3 DEF Tick
  <1>4. ASSUME NEW w \in Workers, NEW e \in Events, Claim(w, e) PROVE PublishedFirst'
    BY <1>4 DEF Claim
  <1>5. ASSUME NEW w \in Workers, EndTick(w) PROVE PublishedFirst'
    BY <1>5 DEF EndTick
  <1>6. ASSUME NEW w \in Workers, Publish(w) PROVE PublishedFirst'
    BY <1>6 DEF Publish
  <1>7. ASSUME NEW w \in Workers, PublishThrows(w) PROVE PublishedFirst'
    BY <1>7 DEF PublishThrows
  <1>8. ASSUME NEW w \in Workers, SaveProcessed(w) PROVE PublishedFirst'
    BY <1>8 DEF SaveProcessed
  <1>9. ASSUME NEW w \in Workers, SaveProcessedFails(w) PROVE PublishedFirst'
    BY <1>9 DEF SaveProcessedFails
  <1>10. ASSUME NEW w \in Workers, SaveRetry(w) PROVE PublishedFirst'
    BY <1>10 DEF SaveRetry, WriteRetry
  <1>11. ASSUME NEW w \in Workers, SaveRetryFails(w) PROVE PublishedFirst'
    BY <1>11 DEF SaveRetryFails, WriteRetry, Drop
  <1>12. ASSUME NEW w \in Workers, Crash(w) PROVE PublishedFirst'
    BY <1>12 DEF Crash, Drop
  <1>13. ASSUME NEW e \in Events, LeaseElapses(e) PROVE PublishedFirst'
    BY <1>13 DEF LeaseElapses
  <1>14. CASE UNCHANGED vars
    BY <1>14 DEF vars
  <1>15. QED
    BY <1>1, <1>2, <1>3, <1>4, <1>5, <1>6, <1>7, <1>8, <1>9, <1>10, <1>11,
       <1>12, <1>13, <1>14 DEF Next, Proceed, Misfire

(* A document is closed as PROCESSED only if the bus was called for it,    *)
(* whichever worker saves it and however late (OutboxWorker.processOutbox).   *)
THEOREM ClosedWasPublished == Spec => []ProcessedWasPublished
  <1>1. Init => PublishedFirst
    BY DEF Init, PublishedFirst, ProcessedWasPublished
  <1>2. PublishedFirst => ProcessedWasPublished
    BY DEF PublishedFirst
  <1>3. QED
    BY <1>1, <1>2, NextPublished, TypeCorrect, PTL DEF Spec

-----------------------------------------------------------------------------
(* Prompt workers: a lease elapses only once its holder has let go.        *)

(* A worker's document is in nobody else's hand and cannot be claimed, and *)
(* its stored retry count is the one the worker copied.                    *)
Ownership ==
  /\ OneWorkerPerEvent
  /\ \A w \in Workers : Working(w) =>
       /\ ~leaseOver[cur[w]]
       /\ copy[w] = retryCount[cur[w]]
       /\ \/ status[cur[w]] = "PROCESSING"
          \/ LostReply /\ pc[w] = "retry" /\ status[cur[w]] = "PROCESSED"

(* No worker owns a document before the first claim.                       *)
LEMMA InitOwnership == Init => Ownership
  BY DEF Init, Ownership, OneWorkerPerEvent, Working

(* A claim takes only a document nobody owns, and only its owner frees it. *)
LEMMA NextOwnership ==
  ASSUME ~SlowWorkers, TypeOK, Ownership, [Next]_vars
  PROVE  Ownership'
  <1> USE OutboxAssumption, NoEventIsNoEvent
      DEF TypeOK, Ownership, OneWorkerPerEvent, store, locals, history, Working
  <1>1. ASSUME NEW e \in Events, Enqueue(e) PROVE Ownership'
    BY <1>1 DEF Enqueue
  <1>2. ASSUME NEW w \in Workers, Start(w) PROVE Ownership'
    BY <1>2 DEF Start
  <1>3. ASSUME NEW w \in Workers, Tick(w) PROVE Ownership'
    BY <1>3 DEF Tick
  <1>4. ASSUME NEW w \in Workers, NEW e \in Events, Claim(w, e) PROVE Ownership'
    BY <1>4 DEF Claim, Claimable
  <1>5. ASSUME NEW w \in Workers, EndTick(w) PROVE Ownership'
    BY <1>5 DEF EndTick
  <1>6. ASSUME NEW w \in Workers, Publish(w) PROVE Ownership'
    BY <1>6 DEF Publish
  <1>7. ASSUME NEW w \in Workers, PublishThrows(w) PROVE Ownership'
    BY <1>7 DEF PublishThrows, Fault
  <1>8. ASSUME NEW w \in Workers, SaveProcessed(w) PROVE Ownership'
    BY <1>8 DEF SaveProcessed
  <1>9. ASSUME NEW w \in Workers, SaveProcessedFails(w) PROVE Ownership'
    BY <1>9 DEF SaveProcessedFails, Fault
  <1>10. ASSUME NEW w \in Workers, SaveRetry(w) PROVE Ownership'
    BY <1>10 DEF SaveRetry, WriteRetry
  <1>11. ASSUME NEW w \in Workers, SaveRetryFails(w) PROVE Ownership'
    BY <1>11 DEF SaveRetryFails, WriteRetry, Drop, Fault
  <1>12. ASSUME NEW w \in Workers, Crash(w) PROVE Ownership'
    BY <1>12 DEF Crash, Drop, Fault
  <1>13. ASSUME NEW e \in Events, LeaseElapses(e) PROVE Ownership'
    BY <1>13 DEF LeaseElapses, InHand
  <1>14. CASE UNCHANGED vars
    BY <1>14 DEF vars
  <1>15. QED
    BY <1>1, <1>2, <1>3, <1>4, <1>5, <1>6, <1>7, <1>8, <1>9, <1>10, <1>11, <1>12, <1>13, <1>14
       DEF Next, Proceed, Misfire

(* The atomic claim is enough for mutual exclusion as long as publishing   *)
(* is shorter than the lease.                                              *)
THEOREM PromptWorkersExclude ==
  ASSUME ~SlowWorkers PROVE Spec => []OneWorkerPerEvent
  <1>1. Spec => []Ownership
    BY InitOwnership, NextOwnership, TypeCorrect, PTL DEF Spec
  <1>2. Ownership => OneWorkerPerEvent
    BY DEF Ownership
  <1>3. QED
    BY <1>1, <1>2, PTL

(* Until a publish is saved as PROCESSED it is paid for by a recorded      *)
(* failure or an abandoned claim, except the one still in hand.            *)
DispatchesAreAccounted ==
  \A e \in Events :
    /\ published[e] <= failures[e] + dropped[e] + 1
    /\ /\ status[e] # "PROCESSED" \/ InHand(e)
       /\ \A w \in Workers : ~(pc[w] = "saved" /\ cur[w] = e)
       => published[e] <= failures[e] + dropped[e]

(* No publish is unaccounted for at the start.                             *)
LEMMA InitAccounted == Init => DispatchesAreAccounted
  BY DEF Init, DispatchesAreAccounted

(* Each further publish is paid for by a failure or an abandoned claim.    *)
LEMMA NextAccounted ==
  ASSUME ~SlowWorkers, TypeOK, Ownership, DispatchesAreAccounted, [Next]_vars
  PROVE  DispatchesAreAccounted'
  <1> USE OutboxAssumption, NoEventIsNoEvent
      DEF TypeOK, Ownership, OneWorkerPerEvent, DispatchesAreAccounted, InHand,
          store, locals, history, Working
  <1>1. ASSUME NEW e \in Events, Enqueue(e) PROVE DispatchesAreAccounted'
    BY <1>1 DEF Enqueue
  <1>2. ASSUME NEW w \in Workers, Start(w) PROVE DispatchesAreAccounted'
    BY <1>2 DEF Start
  <1>3. ASSUME NEW w \in Workers, Tick(w) PROVE DispatchesAreAccounted'
    BY <1>3 DEF Tick
  <1>4. ASSUME NEW w \in Workers, NEW e \in Events, Claim(w, e) PROVE DispatchesAreAccounted'
    BY <1>4 DEF Claim, Claimable
  <1>5. ASSUME NEW w \in Workers, EndTick(w) PROVE DispatchesAreAccounted'
    BY <1>5 DEF EndTick
  <1>6. ASSUME NEW w \in Workers, Publish(w) PROVE DispatchesAreAccounted'
    BY <1>6 DEF Publish
  <1>7. ASSUME NEW w \in Workers, PublishThrows(w) PROVE DispatchesAreAccounted'
    BY <1>7 DEF PublishThrows, Fault
  <1>8. ASSUME NEW w \in Workers, SaveProcessed(w) PROVE DispatchesAreAccounted'
    BY <1>8 DEF SaveProcessed
  <1>9. ASSUME NEW w \in Workers, SaveProcessedFails(w) PROVE DispatchesAreAccounted'
    BY <1>9 DEF SaveProcessedFails, Fault
  <1>10. ASSUME NEW w \in Workers, SaveRetry(w) PROVE DispatchesAreAccounted'
    BY <1>10 DEF SaveRetry, WriteRetry
  <1>11. ASSUME NEW w \in Workers, SaveRetryFails(w) PROVE DispatchesAreAccounted'
    BY <1>11 DEF SaveRetryFails, WriteRetry, Drop, Fault
  <1>12. ASSUME NEW w \in Workers, Crash(w) PROVE DispatchesAreAccounted'
    BY <1>12 DEF Crash, Drop, Fault
  <1>13. ASSUME NEW e \in Events, LeaseElapses(e) PROVE DispatchesAreAccounted'
    BY <1>13 DEF LeaseElapses
  <1>14. CASE UNCHANGED vars
    BY <1>14 DEF vars
  <1>15. QED
    BY <1>1, <1>2, <1>3, <1>4, <1>5, <1>6, <1>7, <1>8, <1>9, <1>10, <1>11, <1>12, <1>13, <1>14
       DEF Next, Proceed, Misfire

(* No event is dispatched twice on one claim while workers are prompt.     *)
THEOREM PromptDispatchOnce ==
  ASSUME ~SlowWorkers PROVE Spec => []NoDuplicateDispatch
  <1>1. Spec => []DispatchesAreAccounted
    <2>1. Spec => []Ownership
      BY InitOwnership, NextOwnership, TypeCorrect, PTL DEF Spec
    <2>2. QED
      BY <2>1, InitAccounted, NextAccounted, TypeCorrect, PTL DEF Spec
  <1>2. DispatchesAreAccounted => NoDuplicateDispatch
    BY DEF DispatchesAreAccounted, NoDuplicateDispatch
  <1>3. QED
    BY <1>1, <1>2, PTL

-----------------------------------------------------------------------------
(* Refinement: with prompt workers, and saves that are applied exactly     *)
(* when they report success, the outbox implements OutboxContract.         *)

(* The initial state of the outbox is an initial state of the contract.    *)
LEMMA InitRefines == Init => Contract!Init
  BY DEF Init, Contract!Init, Phase

(* Each step of the outbox is a contract step or a stutter, by cases.      *)
LEMMA StepRefines ==
  ASSUME ~SlowWorkers, ~LostReply, TypeOK, RetriesAreBacked, Ownership, [Next]_vars
  PROVE  [Contract!Next]_(Contract!vars)
  <1> USE OutboxAssumption, NoEventIsNoEvent
      DEF TypeOK, Ownership, OneWorkerPerEvent, store, locals, history, Working,
          Phase, Contract!vars
  <1> DEFINE Stutter == UNCHANGED Contract!vars
  <1>1. ASSUME NEW e \in Events, Enqueue(e) PROVE Contract!Submit(e)
    <2>1. Phase(e) = "absent" /\ UNCHANGED <<cur, retryCount>>
      BY <1>1 DEF Enqueue
    <2>2. [d \in Events |-> Phase(d)]' = [[d \in Events |-> Phase(d)] EXCEPT ![e] = "open"]
      BY <1>1 DEF Enqueue
    <2>3. QED
      BY <2>1, <2>2 DEF Contract!Submit
  <1>2. ASSUME NEW w \in Workers, Start(w) \/ Tick(w) \/ EndTick(w) PROVE Stutter
    BY <1>2 DEF Start, Tick, EndTick
  <1>3. ASSUME NEW w \in Workers, NEW e \in Events, Claim(w, e)
        PROVE  Contract!Take(w, e)
    <2>1. /\ Phase(e) = "open"
          /\ cur[w] = NoEvent
          /\ cur' = [cur EXCEPT ![w] = e]
          /\ UNCHANGED retryCount
      BY <1>3 DEF Claim, Claimable
    <2>2. \A v \in Workers : cur[v] # e
      BY <1>3 DEF Claim, Claimable
    <2>3. [d \in Events |-> Phase(d)]' = [d \in Events |-> Phase(d)]
      BY <1>3 DEF Claim, Claimable
    <2>4. QED
      BY <2>1, <2>2, <2>3 DEF Contract!Take
  <1>4. ASSUME NEW w \in Workers, Publish(w) \/ PublishThrows(w) \/ SaveProcessedFails(w)
        PROVE  Stutter
    BY <1>4 DEF Publish, PublishThrows, SaveProcessedFails
  <1>5. ASSUME NEW w \in Workers, SaveProcessed(w)
        PROVE  Contract!Complete(w, cur[w])
    <2>1. cur[w] \in Events /\ cur[w] # NoEvent
      BY <1>5 DEF SaveProcessed
    <2>2. [e \in Events |-> Phase(e)]' = [[e \in Events |-> Phase(e)] EXCEPT ![cur[w]] = "done"]
      BY <1>5, <2>1 DEF SaveProcessed
    <2>3. QED
      BY <1>5, <2>1, <2>2 DEF SaveProcessed, Contract!Complete
  <1>6. ASSUME NEW w \in Workers, SaveRetry(w) PROVE Contract!Fail(w, cur[w])
    <2>1. cur[w] \in Events /\ copy[w] = retryCount[cur[w]] /\ pc[w] = "retry"
      BY <1>6 DEF SaveRetry
    <2>2. CASE copy[w] + 1 >= MaxRetries
      <3>1. /\ ~(retryCount[cur[w]] + 1 < MaxRetries)
            /\ status' = [status EXCEPT ![cur[w]] = "FAILED"]
            /\ retryCount' = [retryCount EXCEPT ![cur[w]] = @ + 1]
        BY <1>6, <2>1, <2>2 DEF SaveRetry, WriteRetry
      <3>2. [e \in Events |-> Phase(e)]' = [[e \in Events |-> Phase(e)] EXCEPT ![cur[w]] = "dead"]
        BY <2>1, <3>1
      <3>3. QED
        BY <1>6, <2>1, <3>1, <3>2 DEF SaveRetry, Contract!Fail
    <2>3. CASE ~(copy[w] + 1 >= MaxRetries)
      <3>1. /\ retryCount[cur[w]] + 1 < MaxRetries
            /\ status' = [status EXCEPT ![cur[w]] = "PENDING"]
            /\ retryCount' = [retryCount EXCEPT ![cur[w]] = @ + 1]
        BY <1>6, <2>1, <2>3 DEF SaveRetry, WriteRetry
      <3>2. [e \in Events |-> Phase(e)]' = [[e \in Events |-> Phase(e)] EXCEPT ![cur[w]] = "open"]
        BY <2>1, <3>1
      <3>3. QED
        BY <1>6, <2>1, <3>1, <3>2 DEF SaveRetry, Contract!Fail
    <2>4. QED
      BY <2>2, <2>3
  <1>7. ASSUME NEW w \in Workers, SaveRetryFails(w) PROVE Contract!Drop(w, cur[w])
    <2>1. cur[w] \in Events /\ pc[w] = "retry" /\ UNCHANGED store
      BY <1>7 DEF SaveRetryFails
    <2>2. QED
      BY <1>7, <2>1 DEF SaveRetryFails, Drop, Contract!Drop
  <1>8. ASSUME NEW w \in Workers, Crash(w)
        PROVE  Stutter \/ (Contract!Drop(w, cur[w]) /\ cur[w] \in Events)
    BY <1>8 DEF Crash, Drop, Contract!Drop
  <1>9. ASSUME NEW e \in Events, LeaseElapses(e) PROVE Stutter
    BY <1>9 DEF LeaseElapses
  <1>10. CASE UNCHANGED vars
    BY <1>10 DEF vars
  <1>11. ASSUME NEW w \in Workers, Working(w) PROVE cur[w] \in Events
    BY <1>11
  <1> HIDE DEF Working, TypeOK, Ownership, Phase, Contract!vars
  <1>15. ASSUME NEW w \in Workers, NEW e \in Events,
                \/ Contract!Take(w, e) \/ Contract!Complete(w, e)
                \/ Contract!Fail(w, e) \/ Contract!Drop(w, e)
         PROVE  Contract!Next
    BY <1>15 DEF Contract!Next
  <1>12. ASSUME NEW w \in Workers, Proceed(w) PROVE [Contract!Next]_(Contract!vars)
    <2>1. CASE Tick(w) \/ EndTick(w)
      BY <1>2, <2>1
    <2>2. CASE Publish(w)
      BY <1>4, <2>2
    <2>3. CASE SaveProcessed(w)
      <3>1. cur[w] \in Events
        BY <1>11, <2>3 DEF SaveProcessed, Working
      <3>2. QED
        BY <1>5, <1>15, <2>3, <3>1
    <2>4. CASE SaveRetry(w)
      <3>1. cur[w] \in Events
        BY <1>11, <2>4 DEF SaveRetry, Working
      <3>2. QED
        BY <1>6, <1>15, <2>4, <3>1
    <2>5. CASE \E e \in Events : Claim(w, e)
      BY <1>3, <1>15, <2>5
    <2>6. QED
      BY <1>12, <2>1, <2>2, <2>3, <2>4, <2>5 DEF Proceed
  <1>13. ASSUME NEW w \in Workers, Misfire(w) PROVE [Contract!Next]_(Contract!vars)
    <2>1. CASE PublishThrows(w) \/ SaveProcessedFails(w)
      BY <1>4, <2>1
    <2>2. CASE SaveRetryFails(w)
      <3>1. cur[w] \in Events
        BY <1>11, <2>2 DEF SaveRetryFails, Working
      <3>2. QED
        BY <1>7, <1>15, <2>2, <3>1
    <2>3. CASE Crash(w)
      <3>1. CASE Stutter
        BY <3>1
      <3>2. CASE Contract!Drop(w, cur[w]) /\ cur[w] \in Events
        BY <1>15, <3>2
      <3>3. QED
        BY <1>8, <2>3, <3>1, <3>2
    <2>4. QED
      BY <1>13, <2>1, <2>2, <2>3 DEF Misfire
  <1>14. QED
    <2>1. CASE \E e \in Events : Enqueue(e)
      BY <1>1, <2>1 DEF Contract!Next
    <2>2. CASE \E e \in Events : LeaseElapses(e)
      BY <1>9, <2>2
    <2>3. CASE \E w \in Workers : Start(w)
      BY <1>2, <2>3
    <2>4. CASE \E w \in Workers : Proceed(w) \/ Misfire(w)
      BY <1>12, <1>13, <2>4
    <2>5. QED
      BY <1>10, <2>1, <2>2, <2>3, <2>4 DEF Next

(* The leases, copies and saves of the outbox implement the contract:      *)
(* every step is a step of OutboxContract or leaves it unchanged.          *)
THEOREM OutboxImplementsContract ==
  ASSUME ~SlowWorkers, ~LostReply PROVE Spec => ImplementsContract
  <1>1. Spec => []RetriesAreBacked
    BY InitBacked, NextBacked, TypeCorrect, PTL DEF Spec
  <1>2. Spec => []Ownership
    BY InitOwnership, NextOwnership, TypeCorrect, PTL DEF Spec
  <1>3. QED
    BY <1>1, <1>2, TypeCorrect, InitRefines, StepRefines, PTL
       DEF Spec, ImplementsContract, Contract!Spec

(* A closed document is never reopened under the same conditions.          *)
THEOREM ClosedIsFinal ==
  ASSUME ~SlowWorkers, ~LostReply PROVE Spec => TerminalIsFinal
  <1>1. ASSUME TypeOK, Ownership, [Next]_vars
        PROVE  [\A e \in Events : Terminal(e) => status'[e] = status[e]]_vars
    <2> SUFFICES ASSUME NEW e \in Events, Terminal(e), Next PROVE status'[e] = status[e]
      BY <1>1
    <2> USE <1>1, NoEventIsNoEvent DEF TypeOK, Ownership, Working, Terminal, store
    <2>1. ASSUME NEW d \in Events, Enqueue(d) \/ LeaseElapses(d) PROVE status'[e] = status[e]
      BY <2>1 DEF Enqueue, LeaseElapses
    <2>2. ASSUME NEW w \in Workers, NEW d \in Events, Claim(w, d) PROVE status'[e] = status[e]
      BY <2>2 DEF Claim, Claimable
    <2>3. ASSUME NEW w \in Workers, Start(w) \/ Tick(w) \/ EndTick(w) \/ Publish(w)
          PROVE  status'[e] = status[e]
      BY <2>3 DEF Start, Tick, EndTick, Publish
    <2>4. ASSUME NEW w \in Workers, SaveProcessed(w) \/ SaveRetry(w) PROVE status'[e] = status[e]
      BY <2>4 DEF SaveProcessed, SaveRetry, WriteRetry
    <2>5. ASSUME NEW w \in Workers, Misfire(w) PROVE status'[e] = status[e]
      BY <2>5 DEF Misfire, PublishThrows, SaveProcessedFails, SaveRetryFails, Crash
    <2>6. QED
      BY <2>1, <2>2, <2>3, <2>4, <2>5 DEF Next, Proceed
  <1>2. Spec => []Ownership
    BY InitOwnership, NextOwnership, TypeCorrect, PTL DEF Spec
  <1>3. QED
    BY <1>1, <1>2, TypeCorrect, PTL DEF Spec, TerminalIsFinal
=============================================================================
