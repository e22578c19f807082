------------------------------- MODULE Outbox -------------------------------
(***************************************************************************)
(* The transactional outbox: command handlers write OutboxEvent documents, *)
(* and every running OutboxWorker polls the collection, claims the oldest  *)
(* claimable document, publishes it on the in-memory event bus and saves   *)
(* the outcome (shared/outbox/OutboxWorker.js).                            *)
(*                                                                         *)
(* Several worker processes may run at once.  A claim is one atomic        *)
(* findOneAndUpdate; everything after it works on the claimed copy, and    *)
(* the saves that follow address the document by _id alone.                *)
(***************************************************************************)
EXTENDS Naturals, FiniteSets

CONSTANTS
  Workers,      \* worker processes
  MaxEvents,    \* events are numbered in the order of createdAt
  MaxRetries,   \* attempts before a document is FAILED (3 in the code)
  SlowWorkers,  \* TRUE: a publish may outlast the lease (OUTBOX_LEASE_MS)
  LostReply,    \* TRUE: a save may be applied and still report an error
  MaxFaults     \* bound on crashes, database errors and throwing publishes

ASSUME OutboxAssumption ==
  /\ MaxEvents \in Nat
  /\ MaxRetries \in Nat \ {0}
  /\ MaxFaults \in Nat
  /\ SlowWorkers \in BOOLEAN
  /\ LostReply \in BOOLEAN

Events  == 1..MaxEvents
NoEvent == 0

VARIABLES
  status,      \* status[e]: "none" until enqueued, then OutboxEvent.status
  retryCount,  \* retryCount[e]: OutboxEvent.retryCount
  leaseOver,   \* leaseOver[e]: processingAt lies more than leaseMs in the past
  pc,          \* pc[w]: where worker w is in start / processOutbox / stop
  cur,         \* cur[w]: the document w has claimed, NoEvent between two
  copy,        \* copy[w]: retryCount of the claimed copy
  published,   \* history: calls of eventBus.publish for the event
  handled,     \* history: some publish in which every handler fulfilled
  failures,    \* history: attempts whose error reached the catch block
  dropped,     \* history: claims abandoned with no outcome saved
  faults       \* faults used so far

store   == <<status, retryCount, leaseOver>>
locals  == <<pc, cur, copy>>
history == <<published, handled, failures, dropped>>
vars    == <<store, locals, history, faults>>

-----------------------------------------------------------------------------
Terminal(e)  == status[e] \in {"PROCESSED", "FAILED"}
\* Faulty forms of the claim filter (the operators called Bug... throughout
\* this project stand for mistakes the properties must notice).
BugClaimIgnoresLease(e) == status[e] \in {"PENDING", "PROCESSING"}
BugClaimNeverReclaims(e) == status[e] = "PENDING"
BugClaimRevivesFailed(e) == status[e] \in {"PENDING", "FAILED"} \/ (status[e] = "PROCESSING" /\ leaseOver[e])

Claimable(e) == status[e] = "PENDING" \/ (status[e] = "PROCESSING" /\ leaseOver[e])
Working(w)   == pc[w] \in {"publish", "saved", "retry"}
InHand(e)    == \E w \in Workers : Working(w) /\ cur[w] = e

Fault == faults < MaxFaults /\ faults' = faults + 1

Init ==
  /\ status     = [e \in Events |-> "none"]
  /\ retryCount = [e \in Events |-> 0]
  /\ leaseOver  = [e \in Events |-> FALSE]
  /\ pc         = [w \in Workers |-> "down"]
  /\ cur        = [w \in Workers |-> NoEvent]
  /\ copy       = [w \in Workers |-> 0]
  /\ published  = [e \in Events |-> 0]
  /\ handled    = [e \in Events |-> FALSE]
  /\ failures   = [e \in Events |-> 0]
  /\ dropped    = [e \in Events |-> 0]
  /\ faults     = 0

(* A command handler saves the event in the transaction of its mutation.   *)
Enqueue(e) ==
  /\ status[e] = "none"
  /\ \A d \in Events : d < e => status[d] # "none"
  /\ status' = [status EXCEPT ![e] = "PENDING"]
  /\ UNCHANGED <<retryCount, leaseOver, locals, history, faults>>

(* start(): the interval timer is armed.                                   *)
Start(w) ==
  /\ pc[w] = "down"
  /\ pc' = [pc EXCEPT ![w] = "idle"]
  /\ UNCHANGED <<store, cur, copy, history, faults>>

(* The interval fires; _tickBusy keeps a second tick out.                  *)
Tick(w) ==
  /\ pc[w] = "idle"
  /\ pc' = [pc EXCEPT ![w] = "claim"]
  /\ UNCHANGED <<store, cur, copy, history, faults>>

BugClaimClosesFirst(w, e) ==
  /\ pc[w] = "claim"
  /\ Claimable(e)
  /\ \A d \in Events : Claimable(d) => e <= d
  /\ status' = [status EXCEPT ![e] = "PROCESSED"]
  /\ pc'   = [pc EXCEPT ![w] = "publish"]
  /\ cur'  = [cur EXCEPT ![w] = e]
  /\ copy' = [copy EXCEPT ![w] = retryCount[e]]
  /\ UNCHANGED <<retryCount, leaseOver, history, faults>>

(* claimNext(): the oldest claimable document, in one findOneAndUpdate.    *)
Claim(w, e) ==
  /\ pc[w] = "claim"
  /\ Claimable(e)
  /\ \A d \in Events : Claimable(d) => e <= d
  /\ status'    = [status EXCEPT ![e] = "PROCESSING"]
  /\ leaseOver' = [leaseOver EXCEPT ![e] = FALSE]
  /\ pc'   = [pc EXCEPT ![w] = "publish"]
  /\ cur'  = [cur EXCEPT ![w] = e]
  /\ copy' = [copy EXCEPT ![w] = retryCount[e]]
  /\ UNCHANGED <<retryCount, history, faults>>

(* claimNext() finds nothing: the loop breaks and the tick ends.           *)
EndTick(w) ==
  /\ pc[w] = "claim"
  /\ \A e \in Events : ~Claimable(e)
  /\ pc' = [pc EXCEPT ![w] = "idle"]
  /\ UNCHANGED <<store, cur, copy, history, faults>>

(* eventBus.publish resolves: the dispatcher awaits Promise.allSettled, so *)
(* it resolves whether or not a handler rejected.                          *)
Publish(w) ==
  /\ pc[w] = "publish"
  /\ pc' = [pc EXCEPT ![w] = "saved"]
  /\ published' = [published EXCEPT ![cur[w]] = @ + 1]
  /\ \E fulfilled \in BOOLEAN :
       handled' = [handled EXCEPT ![cur[w]] = @ \/ fulfilled]
  /\ UNCHANGED <<store, cur, copy, failures, dropped, faults>>

(* A hook, or a handler that is not async, throws: publish rejects.        *)
PublishThrows(w) ==
  /\ pc[w] = "publish"
  /\ Fault
  /\ pc' = [pc EXCEPT ![w] = "retry"]
  /\ published' = [published EXCEPT ![cur[w]] = @ + 1]
  /\ failures'  = [failures EXCEPT ![cur[w]] = @ + 1]
  /\ UNCHANGED <<store, cur, copy, handled, dropped>>

BugSaveProcessedForgets(w) ==
  /\ pc[w] = "saved"
  /\ pc'  = [pc EXCEPT ![w] = "claim"]
  /\ cur' = [cur EXCEPT ![w] = NoEvent]
  /\ UNCHANGED <<store, copy, history, faults>>

(* record.status = PROCESSED; record.save(): by _id, whoever holds it now. *)
SaveProcessed(w) ==
  /\ pc[w] = "saved"
  /\ status' = [status EXCEPT ![cur[w]] = "PROCESSED"]
  /\ pc'  = [pc EXCEPT ![w] = "claim"]
  /\ cur' = [cur EXCEPT ![w] = NoEvent]
  /\ UNCHANGED <<retryCount, leaseOver, copy, history, faults>>

(* That save reports an error, applied or not: the catch block follows.    *)
SaveProcessedFails(w) ==
  /\ pc[w] = "saved"
  /\ Fault
  /\ \/ UNCHANGED status
     \/ LostReply /\ status' = [status EXCEPT ![cur[w]] = "PROCESSED"]
  /\ pc' = [pc EXCEPT ![w] = "retry"]
  /\ failures' = [failures EXCEPT ![cur[w]] = @ + 1]
  /\ UNCHANGED <<retryCount, leaseOver, cur, copy, published, handled, dropped>>

BugWriteRetryTooSoon(w) ==
  /\ retryCount' = [retryCount EXCEPT ![cur[w]] = copy[w] + 1]
  /\ status' = [status EXCEPT ![cur[w]] =
                  IF copy[w] + 2 >= MaxRetries THEN "FAILED" ELSE "PENDING"]
  /\ UNCHANGED leaseOver

BugWriteRetryNeverFails(w) ==
  /\ retryCount' = [retryCount EXCEPT ![cur[w]] = copy[w] + 1]
  /\ status' = [status EXCEPT ![cur[w]] = "PENDING"]
  /\ UNCHANGED leaseOver

(* What the catch block writes: the copy's count plus one, and FAILED at   *)
(* the limit or PENDING with the lease released.                           *)
WriteRetry(w) ==
  /\ retryCount' = [retryCount EXCEPT ![cur[w]] = copy[w] + 1]
  /\ status' = [status EXCEPT ![cur[w]] =
                  IF copy[w] + 1 >= MaxRetries THEN "FAILED" ELSE "PENDING"]
  /\ UNCHANGED leaseOver

SaveRetry(w) ==
  /\ pc[w] = "retry"
  /\ WriteRetry(w)
  /\ pc'  = [pc EXCEPT ![w] = "claim"]
  /\ cur' = [cur EXCEPT ![w] = NoEvent]
  /\ UNCHANGED <<copy, history, faults>>

BugDropKeepsDocument(w) ==
  /\ dropped' = [e \in Events |-> IF e = cur[w] THEN dropped[e] + 1 ELSE dropped[e]]
  /\ UNCHANGED cur

(* The worker lets go of its document; the lease is what frees it later.   *)
Drop(w) ==
  /\ cur' = [cur EXCEPT ![w] = NoEvent]
  /\ dropped' = [e \in Events |-> IF e = cur[w] THEN dropped[e] + 1 ELSE dropped[e]]

(* The second save fails too: the outer catch ends the tick.               *)
SaveRetryFails(w) ==
  /\ pc[w] = "retry"
  /\ Fault
  /\ \/ UNCHANGED store
     \/ LostReply /\ WriteRetry(w)
  /\ Drop(w)
  /\ pc' = [pc EXCEPT ![w] = "idle"]
  /\ UNCHANGED <<copy, published, handled, failures>>

(* The process is killed between any two of its steps, or stop() ends the  *)
(* loop at its head and the process exits.                                 *)
Crash(w) ==
  /\ pc[w] # "down"
  /\ Fault
  /\ Drop(w)
  /\ pc' = [pc EXCEPT ![w] = "down"]
  /\ UNCHANGED <<store, copy, published, handled, failures>>

(* leaseMs pass since processingAt.  Unless workers may be slow, that      *)
(* happens only to a document no live worker is still working on.          *)
LeaseElapses(e) ==
  /\ status[e] = "PROCESSING"
  /\ ~leaseOver[e]
  /\ SlowWorkers \/ ~InHand(e)
  /\ leaseOver' = [leaseOver EXCEPT ![e] = TRUE]
  /\ UNCHANGED <<status, retryCount, locals, history, faults>>

-----------------------------------------------------------------------------
Proceed(w) ==
  \/ Tick(w) \/ EndTick(w) \/ Publish(w) \/ SaveProcessed(w) \/ SaveRetry(w)
  \/ \E e \in Events : Claim(w, e)
Misfire(w) == PublishThrows(w) \/ SaveProcessedFails(w) \/ SaveRetryFails(w) \/ Crash(w)

Next ==
  \/ \E e \in Events : Enqueue(e)
  \/ \E w \in Workers : Start(w) \/ Proceed(w) \/ Misfire(w)
  \/ \E e \in Events : LeaseElapses(e)

Spec == Init /\ [][Next]_vars

(* The supervisor restarts a dead process, timers fire, awaited calls      *)
(* settle, and clocks advance.                                             *)
Fairness ==
  /\ \A w \in Workers : WF_vars(Start(w)) /\ WF_vars(Proceed(w))
  /\ \A e \in Events : WF_vars(LeaseElapses(e))

FairSpec == Spec /\ Fairness
-----------------------------------------------------------------------------
(* Every variable holds a value of its kind, and a worker holds a document *)
(* exactly while it is between a claim and the save that ends it.          *)
TypeOK ==
  /\ status \in [Events -> {"none", "PENDING", "PROCESSING", "PROCESSED", "FAILED"}]
  /\ retryCount \in [Events -> Nat]
  /\ leaseOver \in [Events -> BOOLEAN]
  /\ pc \in [Workers -> {"down", "idle", "claim", "publish", "saved", "retry"}]
  /\ cur \in [Workers -> Events \cup {NoEvent}]
  /\ \A w \in Workers : Working(w) <=> cur[w] # NoEvent
  /\ copy \in [Workers -> Nat]
  /\ published \in [Events -> Nat]
  /\ handled \in [Events -> BOOLEAN]
  /\ failures \in [Events -> Nat]
  /\ dropped \in [Events -> Nat]
  /\ faults \in 0..MaxFaults

(* A document is given up (FAILED) only after MaxRetries attempts at it    *)
(* really failed, whichever workers made them and however late: no crash,  *)
(* lost save or stale copy can spend a retry that was never tried.         *)
GivenUpAfterRetries ==
  \A e \in Events :
    status[e] = "FAILED" => retryCount[e] >= MaxRetries /\ failures[e] >= MaxRetries

(* A document is closed as PROCESSED only if the bus was called for it.    *)
ProcessedWasPublished ==
  \A e \in Events : status[e] = "PROCESSED" => published[e] > 0

(* While publishes are shorter than the lease, the atomic claim keeps two  *)
(* live workers off the same document (claimNext).                         *)
OneWorkerPerEvent ==
  \A v, w \in Workers :
    Working(v) /\ Working(w) /\ cur[v] = cur[w] => v = w

(* The bus is called again for an event only after an attempt at it failed *)
(* or its claim was abandoned: two workers never dispatch one claim twice. *)
NoDuplicateDispatch ==
  \A e \in Events : published[e] <= failures[e] + dropped[e] + 1

(* PROCESSED and FAILED are final: no later save reopens the document.     *)
TerminalIsFinal ==
  [][\A e \in Events : Terminal(e) => status'[e] = status[e]]_vars

(* Every enqueued event is closed in the end, one way or the other.        *)
EventuallyClosed ==
  \A e \in Events : status[e] = "PENDING" ~> Terminal(e)

(* A closed event reached every one of its handlers at least once.         *)
AtLeastOnce ==
  \A e \in Events : status[e] = "PROCESSED" => handled[e]

(* The outbox implements its contract: PENDING and PROCESSING are both     *)
(* open, and the hand of a worker is the document it has claimed.          *)
Phase(e) ==
  CASE status[e] = "none"      -> "absent"
    [] status[e] = "PROCESSED" -> "done"
    [] status[e] = "FAILED"    -> "dead"
    [] OTHER                   -> "open"

Contract == INSTANCE OutboxContract WITH
  phase <- [e \in Events |-> Phase(e)], hand <- cur, tries <- retryCount

ImplementsContract == Contract!Spec
=============================================================================
