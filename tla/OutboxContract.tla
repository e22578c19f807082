--------------------------- MODULE OutboxContract ---------------------------
(***************************************************************************)
(* What the outbox promises its producers, without leases, clocks or       *)
(* document fields: a submitted event is in the hand of at most one worker *)
(* at a time, leaves that hand done, dead or open again, is dead only at   *)
(* the limit of failed tries, and never changes once done or dead.         *)
(***************************************************************************)
EXTENDS Naturals

CONSTANTS Workers, Events, NoEvent, MaxRetries

VARIABLES
  phase,  \* phase[e] \in {"absent", "open", "done", "dead"}
  hand,   \* hand[w]: the event worker w holds, NoEvent for none
  tries   \* tries[e]: failed tries recorded for the event

vars == <<phase, hand, tries>>

Init ==
  /\ phase = [e \in Events |-> "absent"]
  /\ hand  = [w \in Workers |-> NoEvent]
  /\ tries = [e \in Events |-> 0]

Submit(e) ==
  /\ phase[e] = "absent"
  /\ phase' = [phase EXCEPT ![e] = "open"]
  /\ UNCHANGED <<hand, tries>>

Take(w, e) ==
  /\ phase[e] = "open"
  /\ hand[w] = NoEvent
  /\ \A v \in Workers : hand[v] # e
  /\ hand' = [hand EXCEPT ![w] = e]
  /\ UNCHANGED <<phase, tries>>

Complete(w, e) ==
  /\ hand[w] = e
  /\ phase' = [phase EXCEPT ![e] = "done"]
  /\ hand'  = [hand EXCEPT ![w] = NoEvent]
  /\ UNCHANGED tries

Fail(w, e) ==
  /\ hand[w] = e
  /\ tries' = [tries EXCEPT ![e] = @ + 1]
  /\ phase' = [phase EXCEPT ![e] = IF tries'[e] < MaxRetries THEN "open" ELSE "dead"]
  /\ hand'  = [hand EXCEPT ![w] = NoEvent]

Drop(w, e) ==
  /\ hand[w] = e
  /\ hand' = [hand EXCEPT ![w] = NoEvent]
  /\ UNCHANGED <<phase, tries>>

Next ==
  \/ \E e \in Events : Submit(e)
  \/ \E w \in Workers, e \in Events :
       Take(w, e) \/ Complete(w, e) \/ Fail(w, e) \/ Drop(w, e)

Spec == Init /\ [][Next]_vars
=============================================================================
