----------------------------- MODULE ByteStream -----------------------------
(***************************************************************************)
(* What a pipe promises: a bounded first-in first-out stream of bytes.     *)
(* A write is refused only when every reader is gone, and a read returns   *)
(* end of file only when every writer is gone and nothing is left.         *)
(***************************************************************************)
EXTENDS Naturals, Sequences

CONSTANTS Readers, Writers, Capacity

VARIABLES queue,    \* bytes accepted and not yet read; byte n of writer w is <<w, n>>
          sent,     \* bytes accepted from each writer
          open,     \* tasks that hold an end
          result    \* result of each task's last call

vars == <<queue, sent, open, result>>

Init ==
  /\ queue = <<>> /\ sent = [w \in Writers |-> 0]
  /\ open = Readers \cup Writers
  /\ result = [t \in Readers \cup Writers |-> "none"]

\* The next k bytes of writer w.
Bytes(w, k) == [i \in 1 .. k |-> <<w, sent[w] + i>>]

\* A call that moves no further byte ends.
Ends(t, r) == result' = [result EXCEPT ![t] = r]

Accept(w, k) ==
  /\ open \cap Readers # {} /\ Len(queue) + k <= Capacity
  /\ queue' = queue \o Bytes(w, k) /\ sent' = [sent EXCEPT ![w] = @ + k]
  /\ result' = result \/ Ends(w, "ok")
  /\ UNCHANGED open

Take(r, k) ==
  /\ k <= Len(queue)
  /\ queue' = SubSeq(queue, k + 1, Len(queue))
  /\ result' = result \/ Ends(r, "ok")
  /\ UNCHANGED <<sent, open>>

EndOfFile(r) ==
  /\ queue = <<>> /\ open \cap Writers = {}
  /\ Ends(r, "eof")
  /\ UNCHANGED <<queue, sent, open>>

Broken(w) ==
  /\ open \cap Readers = {}
  /\ Ends(w, "epipe")
  /\ UNCHANGED <<queue, sent, open>>

\* Interrupted, or ended after some bytes had been moved.
Stop(t) ==
  /\ Ends(t, "intr") \/ Ends(t, "ok")
  /\ UNCHANGED <<queue, sent, open>>

Close(t) ==
  /\ open' = open \ {t}
  /\ queue' = IF open' = {} THEN <<>> ELSE queue
  /\ UNCHANGED <<sent, result>>

Next ==
  \/ \E w \in Writers, k \in 1 .. Capacity : Accept(w, k)
  \/ \E r \in Readers, k \in 1 .. Capacity : Take(r, k)
  \/ \E r \in Readers : EndOfFile(r)
  \/ \E w \in Writers : Broken(w)
  \/ \E t \in open : Stop(t) \/ Close(t)

Spec == Init /\ [][Next]_vars

=============================================================================
