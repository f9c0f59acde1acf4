-------------------------------- MODULE Pipe --------------------------------
(***************************************************************************)
(* A pipe and the tasks that use it: the buffer and its ends (vfs/pipe.rs) *)
(* and the chunk loops of the read and write system calls (vfs/posix.rs).  *)
(*                                                                         *)
(* A system call runs with interrupts off, so no other task runs between   *)
(* two chunks; it gives up the core only in sleep_ms.  Each task holds one *)
(* end; how dup, fork and close count the references is in Fds.            *)
(***************************************************************************)
EXTENDS Naturals, Sequences, FiniteSetsExt

CONSTANTS Readers, Writers,  \* tasks that hold the read end, the write end
          PipeBuf,           \* PIPE_BUF
          Chunk,             \* CHUNK
          Lens,              \* lengths user code asks for
          MaxSent,           \* bytes a writer may send in all
          Interrupts         \* do handled signals arrive

ASSUME PipeAssumption ==
  /\ Readers \cap Writers = {}
  /\ PipeBuf \in Nat \ {0} /\ Chunk \in Nat \ {0}
  /\ Lens \subseteq Nat \ {0} /\ MaxSent \in Nat
  /\ Interrupts \in BOOLEAN

Tasks == Readers \cup Writers
None == "none"
Results == {"none", "ok", "eof", "epipe", "intr"}

VARIABLES buf,      \* the bytes of the pipe
          sent,     \* bytes accepted from each writer
          open,     \* tasks whose descriptor is open
          calls,    \* the system call each task is in
          core,     \* the task running kernel code, or None
          pending,  \* tasks for which pending_handled holds
          result    \* result of each task's last call

vars == <<buf, sent, open, calls, core, pending, result>>

\* user: in ring 3; run: in the loop; sleep: in sleep_ms; gone: exited.
Call == [pc : {"user", "run", "sleep", "gone"}, len : Nat, done : Nat]
User == [pc |-> "user", len |-> 0, done |-> 0]

TypeOK ==
  /\ buf \in Seq(Writers \X (1 .. MaxSent)) /\ Len(buf) <= PipeBuf
  /\ sent \in [Writers -> 0 .. MaxSent]
  /\ open \in SUBSET Tasks
  /\ calls \in [Tasks -> Call]
  /\ \A t \in Tasks : calls[t].done <= calls[t].len
  /\ core \in Tasks \cup {None} /\ \A t \in Tasks : calls[t].pc = "run" <=> core = t
  /\ pending \in SUBSET Tasks /\ result \in [Tasks -> Results]

Init ==
  /\ buf = <<>> /\ sent = [w \in Writers |-> 0]
  /\ open = Tasks /\ calls = [t \in Tasks |-> User]
  /\ core = None /\ pending = {}
  /\ result = [t \in Tasks |-> "none"]

----------------------------------------------------------------------------
(* posix.rs *)

\* Task t enters read or write.
Enter(t, n) ==
  /\ core = None /\ calls[t].pc = "user" /\ t \in open
  /\ t \in Writers => sent[t] + n <= MaxSent
  /\ calls' = [calls EXCEPT ![t] = [pc |-> "run", len |-> n, done |-> 0]]
  /\ core' = t
  /\ UNCHANGED <<buf, sent, open, pending, result>>

Want(t) == Min({calls[t].len - calls[t].done, Chunk})

\* The call of t returns r; on the way out the signal is delivered.
Returns(t, r) ==
  /\ calls' = [calls EXCEPT ![t] = User]
  /\ result' = [result EXCEPT ![t] = r]
  /\ core' = None /\ pending' = pending \ {t}

\* io::read or io::write moved n bytes: a short count ends the loop.
Moved(t, n) ==
  IF n < Want(t) \/ calls[t].done + n = calls[t].len
  THEN Returns(t, "ok")
  ELSE calls' = [calls EXCEPT ![t].done = @ + n] /\ UNCHANGED <<core, pending, result>>

\* It failed with e; bytes moved by earlier chunks are reported instead.
Failed(t, e) == Returns(t, IF calls[t].done > 0 THEN "ok" ELSE e)

\* Mutant: a pending signal does not interrupt the sleep.
WouldBlockDeaf(t) ==
  /\ calls' = [calls EXCEPT ![t].pc = "sleep"]
  /\ core' = None /\ UNCHANGED <<pending, result>>

\* ERR_WOULD_BLOCK in pipe::read or pipe::write.
WouldBlock(t) ==
  IF t \in pending THEN Failed(t, "intr")
  ELSE calls' = [calls EXCEPT ![t].pc = "sleep"] /\ core' = None /\ UNCHANGED <<pending, result>>

Wake(t) ==
  /\ core = None /\ calls[t].pc = "sleep"
  /\ calls' = [calls EXCEPT ![t].pc = "run"] /\ core' = t
  /\ UNCHANGED <<buf, sent, open, pending, result>>

----------------------------------------------------------------------------
(* pipe.rs *)

Space == PipeBuf - Len(buf)

\* Mutant: the end of file is reported while bytes are left.
ReadEager(r) ==
  /\ core = r
  /\ LET take == Min({Len(buf), Want(r)}) IN
     IF open \cap Writers = {} THEN Failed(r, "eof") /\ buf' = buf
     ELSE IF buf # <<>> THEN buf' = SubSeq(buf, take + 1, Len(buf)) /\ Moved(r, take)
     ELSE WouldBlock(r) /\ buf' = buf
  /\ UNCHANGED <<sent, open>>

\* read_locked, and what the callers make of its answer.
Read(r) ==
  /\ core = r
  /\ LET take == Min({Len(buf), Want(r)}) IN
     IF buf # <<>> THEN buf' = SubSeq(buf, take + 1, Len(buf)) /\ Moved(r, take)
     ELSE buf' = buf /\ IF open \cap Writers = {} THEN Failed(r, "eof") ELSE WouldBlock(r)
  /\ UNCHANGED <<sent, open>>

\* Mutant: a full request is reported although only part of it fitted.
WriteAll(w) ==
  /\ core = w
  /\ LET take == Min({Space, Want(w)}) IN
     IF open \cap Readers = {} THEN Failed(w, "epipe") /\ UNCHANGED <<buf, sent>>
     ELSE IF Space > 0
     THEN /\ buf' = buf \o [i \in 1 .. take |-> <<w, sent[w] + i>>]
          /\ sent' = [sent EXCEPT ![w] = @ + Want(w)]
          /\ Moved(w, Want(w))
     ELSE WouldBlock(w) /\ UNCHANGED <<buf, sent>>
  /\ UNCHANGED open

\* write_locked, and what the callers make of its answer.
Write(w) ==
  /\ core = w
  /\ LET take == Min({Space, Want(w)}) IN
     IF open \cap Readers = {} THEN Failed(w, "epipe") /\ UNCHANGED <<buf, sent>>
     ELSE IF Space > 0
     THEN /\ buf' = buf \o [i \in 1 .. take |-> <<w, sent[w] + i>>]
          /\ sent' = [sent EXCEPT ![w] = @ + take]
          /\ Moved(w, take)
     ELSE WouldBlock(w) /\ UNCHANGED <<buf, sent>>
  /\ UNCHANGED open

\* Mutant: only the end that closes last is counted down.
DropEndLast(t) == open' = IF open = {t} THEN {} ELSE open

\* drop_end
DropEnd(t) == open' = open \ {t}

\* close, or exit: the pipe is freed with its last end.
Close(t) ==
  /\ core = None /\ calls[t].pc = "user"
  /\ DropEnd(t)
  /\ buf' = IF open' = {} THEN <<>> ELSE buf
  /\ calls' = [calls EXCEPT ![t].pc = "gone"] /\ pending' = pending \ {t}
  /\ UNCHANGED <<sent, core, result>>

\* A handled signal is queued for t.
Signal(t) ==
  /\ Interrupts /\ core = None /\ calls[t].pc = "sleep"
  /\ pending' = pending \cup {t}
  /\ UNCHANGED <<buf, sent, open, calls, core, result>>

Step(t) == (t \in Readers /\ Read(t)) \/ (t \in Writers /\ Write(t))

Next == \E t \in Tasks : \/ \E n \in Lens : Enter(t, n)
                         \/ Step(t) \/ Wake(t) \/ Close(t) \/ Signal(t)

\* Kernel code runs on, and schedule() serves every task (Served of Tasks).
\* User code need not call anything.
Fairness == \A t \in Tasks : WF_vars(Step(t)) /\ SF_vars(Wake(t))

Spec == Init /\ [][Next]_vars
FairSpec == Spec /\ Fairness

----------------------------------------------------------------------------
(* Properties *)

Stream == INSTANCE ByteStream WITH queue <- buf, Capacity <- PipeBuf

\* The pipe is a bounded first-in first-out stream: no byte is lost, invented
\* or reordered, EOF and EPIPE are returned only when the other side is gone
\* (read_locked, write_locked and the chunk loops).
IsStream == Stream!Spec

\* The bytes of a writer that wait in the pipe are the last ones it was told
\* were accepted, in order, whatever the other writers do in between.
InOrder ==
  \A w \in Writers :
    LET own == SelectSeq(buf, LAMBDA b : b[1] = w) IN
    \A i \in DOMAIN own : own[i][2] = sent[w] - Len(own) + i

\* "the last writer closing makes read return": no reader sleeps for ever once
\* the writers are gone, and no writer once the readers are gone (drop_end).
Released ==
  \A t \in Tasks :
    LET other == IF t \in Readers THEN Writers ELSE Readers IN
    (\A u \in other : calls[u].pc = "gone") ~> calls[t].pc \in {"user", "gone"}

\* A handled signal ends the sleep of a read or write, or data does.
Interrupted == \A t \in Tasks : t \in pending ~> t \notin pending

\* A short read is "a pipe with just this much available": a read that has
\* taken bytes returns them.
ReadReturns == \A r \in Readers : calls[r].done > 0 ~> calls[r].pc = "user"

=============================================================================
