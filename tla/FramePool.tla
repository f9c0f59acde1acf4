----------------------------- MODULE FramePool -----------------------------
(***************************************************************************)
(* What the frame allocator promises its callers.  A request for n frames  *)
(* is answered with n consecutive free frames, or refused; it is refused   *)
(* only when no 2n-1 consecutive frames are free, so a request for one     *)
(* frame is refused only when none is free.  A frame comes back once.      *)
(***************************************************************************)
EXTENDS Integers

CONSTANTS Frames, Sizes

VARIABLES free,     \* frames that can be granted
          granted,  \* frames in the hands of callers
          last      \* the last request: its size and the frames it returned

vars == <<free, granted, last>>

\* n consecutive frames from i.
Run(i, n) == i .. (i + n - 1)

Init ==
  /\ free \in SUBSET Frames /\ granted = {}
  /\ last = [n |-> 0, got |-> {}]

Grant(n) ==
  \E i \in Frames :
    /\ Run(i, n) \subseteq free
    /\ free' = free \ Run(i, n) /\ granted' = granted \cup Run(i, n)
    /\ last' = [n |-> n, got |-> Run(i, n)]

Refuse(n) ==
  /\ n = 0 \/ \A i \in Frames : ~(Run(i, 2 * n - 1) \subseteq free)
  /\ last' = [n |-> n, got |-> {}]
  /\ UNCHANGED <<free, granted>>

Return(f) ==
  /\ f \in granted
  /\ free' = free \cup {f} /\ granted' = granted \ {f}
  /\ UNCHANGED last

\* Memory that belonged to nobody is added to the pool.
Open(f) ==
  /\ f \notin free \cup granted
  /\ free' = free \cup {f}
  /\ UNCHANGED <<granted, last>>

Next ==
  \/ \E n \in Sizes \cup {1} : Grant(n) \/ Refuse(n)
  \/ \E f \in Frames : Return(f) \/ Open(f)

Spec == Init /\ [][Next]_vars

=============================================================================
