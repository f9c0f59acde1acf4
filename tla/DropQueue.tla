----------------------------- MODULE DropQueue -----------------------------
(***************************************************************************)
(* What an event ring promises: a bounded queue that gives up its oldest   *)
(* event for a new one, and counts the events given up.                    *)
(***************************************************************************)
EXTENDS Naturals, Sequences

CONSTANTS Events, Capacity

VARIABLES queue, dropped, popped  \* the event the last pop returned

vars == <<queue, dropped, popped>>

None == 0  \* no event; events are numbered from 1

Init == queue = <<>> /\ dropped = 0 /\ popped = None

Push(e) ==
  /\ \/ /\ Len(queue) < Capacity
        /\ queue' = Append(queue, e) /\ UNCHANGED dropped
     \/ /\ Len(queue) = Capacity
        /\ queue' = Append(Tail(queue), e) /\ dropped' = dropped + 1
  /\ UNCHANGED popped

Pop ==
  /\ \/ queue # <<>> /\ popped' = Head(queue) /\ queue' = Tail(queue)
     \/ queue = <<>> /\ popped' = None /\ UNCHANGED queue
  /\ UNCHANGED dropped

Next == Pop \/ \E e \in Events : Push(e)

Spec == Init /\ [][Next]_vars

=============================================================================
