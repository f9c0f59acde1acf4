-------------------------------- MODULE Fds --------------------------------
(***************************************************************************)
(* Descriptor tables, open-file objects and the ends of pipes (vfs/fd.rs,  *)
(* vfs/pipe.rs), through the life of the tasks that share them: spawn,     *)
(* fork, execve, exit and reaping (task.rs).                               *)
(*                                                                         *)
(* Every operation holds FS_LOCK with interrupts off, so it is one step.   *)
(* A read or write of a pipe remembers the pipe's number while it sleeps   *)
(* without the lock.  Offsets, nodes and the working directory are left    *)
(* out; the bytes of a pipe are in Pipe.                                   *)
(***************************************************************************)
EXTENDS Naturals, FiniteSets

CONSTANTS Slots,     \* task slots
          MaxFds,    \* MAX_FDS
          MaxOpen,   \* MAX_OPEN
          MaxPipes,  \* MAX_PIPES
          Stdio,     \* descriptors init_task opens: 3
          RefMod     \* values of Open.refs: 256

ASSUME FdsAssumption ==
  /\ IsFiniteSet(Slots)
  /\ {MaxFds, MaxOpen, MaxPipes, RefMod} \subseteq Nat \ {0}
  /\ Stdio \in 0 .. MaxFds /\ Stdio < RefMod

Free == 0                    \* Fd.open: index + 1, or 0
FdNums == 0 .. MaxFds - 1
Opens == 1 .. MaxOpen
Pipes == 1 .. MaxPipes

VARIABLES fds,     \* FDS
          opens,   \* OPENS
          pipes,   \* PIPES: the reference counts
          life,    \* what the slot's task does
          asleep   \* the pipe a sleeping read or write will look at again

vars == <<fds, opens, pipes, life, asleep>>

Fd == [open : {Free} \cup Opens, cloexec : BOOLEAN]
Open == [used : BOOLEAN, refs : 0 .. RefMod - 1, pipe : {0} \cup Pipes, write : BOOLEAN]
PipeRefs == [used : BOOLEAN, read : 0 .. 1, write : 0 .. 1]

EmptyFd == [open |-> Free, cloexec |-> FALSE]
EmptyOpen == [used |-> FALSE, refs |-> 0, pipe |-> 0, write |-> FALSE]
EmptyPipe == [used |-> FALSE, read |-> 0, write |-> 0]

TypeOK ==
  /\ fds \in [Slots -> [FdNums -> Fd]]
  /\ opens \in [Opens -> Open] /\ pipes \in [Pipes -> PipeRefs]
  /\ life \in [Slots -> {"unused", "user", "zombie"}]
  /\ asleep \in [Slots -> {0} \cup Pipes]

Init ==
  /\ fds = [t \in Slots |-> [i \in FdNums |-> EmptyFd]]
  /\ opens = [o \in Opens |-> EmptyOpen] /\ pipes = [p \in Pipes |-> EmptyPipe]
  /\ life = [t \in Slots |-> "unused"]
  /\ asleep = [t \in Slots |-> 0]

----------------------------------------------------------------------------
(* fd.rs *)

Names(t, i, o) == fds[t][i].open = o /\ o # Free

\* Lowest index of a set; alloc_open, pipe::alloc and install search upwards.
IsFirst(x, S) == x \in S /\ \A y \in S : x <= y

FreeFds(t) == {i \in FdNums : fds[t][i].open = Free}
FreeOpens == {o \in Opens : ~opens[o].used}
FreePipes == {p \in Pipes : ~pipes[p].used}

\* Mutant: the object is freed while one more descriptor names it.
ClosedEarly(os, n) ==
  [o \in Opens |-> IF n[o] = 0 THEN os[o]
                   ELSE IF os[o].refs <= n[o] + 1 THEN EmptyOpen
                   ELSE [os[o] EXCEPT !.refs = @ - n[o]]]

\* The objects after n[o] calls of close_open on each object o.
Closed(os, n) ==
  [o \in Opens |-> IF n[o] = 0 THEN os[o]
                   ELSE IF os[o].refs <= n[o] THEN EmptyOpen
                   ELSE [os[o] EXCEPT !.refs = @ - n[o]]]

\* Mutant: either end frees the pipe.
DroppedEither(os, n) ==
  [p \in Pipes |->
     LET gone(wr) == \E o \in Opens : n[o] > 0 /\ os[o].refs <= n[o]
                                      /\ os[o].pipe = p /\ os[o].write = wr
     IN  IF gone(FALSE) \/ gone(TRUE) THEN EmptyPipe ELSE pipes[p]]

\* The pipes after those calls: drop_end for each object that was freed.
Dropped(os, n) ==
  [p \in Pipes |->
     LET gone(wr) == \E o \in Opens : n[o] > 0 /\ os[o].refs <= n[o]
                                      /\ os[o].pipe = p /\ os[o].write = wr
         q == [pipes[p] EXCEPT !.read = IF gone(FALSE) THEN 0 ELSE @,
                               !.write = IF gone(TRUE) THEN 0 ELSE @]
     IN  IF q.read = 0 /\ q.write = 0 THEN EmptyPipe ELSE q]

\* How many descriptors of t, of those in I, name each object.
Count(t, I) == [o \in Opens |-> Cardinality({i \in I : Names(t, i, o)})]

\* The descriptors I of t are closed, and become new.
CloseSet(t, I, new) ==
  /\ opens' = Closed(opens, Count(t, I))
  /\ pipes' = Dropped(opens, Count(t, I))
  /\ fds' = [fds EXCEPT ![t] = new]

NoFds == [i \in FdNums |-> EmptyFd]

Ref(o) == [opens EXCEPT ![o].refs = (@ + 1) % RefMod]

Active(t) == life[t] = "user" /\ asleep[t] = 0

\* open of a file: an object and the lowest descriptor, or EMFILE.
OpenFile(t, cloexec) ==
  /\ Active(t)
  /\ \E o \in Opens, i \in FdNums :
       /\ IsFirst(o, FreeOpens) /\ IsFirst(i, FreeFds(t))
       /\ opens' = [opens EXCEPT ![o] = [used |-> TRUE, refs |-> 1, pipe |-> 0, write |-> FALSE]]
       /\ fds' = [fds EXCEPT ![t][i] = [open |-> o, cloexec |-> cloexec]]
  /\ UNCHANGED <<pipes, life, asleep>>

Close(t, i) ==
  /\ Active(t) /\ fds[t][i].open # Free
  /\ CloseSet(t, {i}, [fds[t] EXCEPT ![i] = EmptyFd])
  /\ UNCHANGED <<life, asleep>>

\* dup (min = 0) and F_DUPFD.
Dup(t, i, min) ==
  /\ Active(t) /\ fds[t][i].open # Free
  /\ \E j \in FdNums :
       /\ IsFirst(j, {k \in FreeFds(t) : k >= min})
       /\ opens' = Ref(fds[t][i].open)
       /\ fds' = [fds EXCEPT ![t][j] = [open |-> fds[t][i].open, cloexec |-> FALSE]]
  /\ UNCHANGED <<pipes, life, asleep>>

\* dup2: close what j names, then share the object of i.
Dup2(t, i, j) ==
  /\ Active(t) /\ fds[t][i].open # Free /\ i # j
  /\ LET o == fds[t][i].open
         c == Closed(opens, Count(t, {j}))
     IN  /\ opens' = [c EXCEPT ![o].refs = (@ + 1) % RefMod]
         /\ pipes' = Dropped(opens, Count(t, {j}))
         /\ fds' = [fds EXCEPT ![t][j] = [open |-> o, cloexec |-> FALSE]]
  /\ UNCHANGED <<life, asleep>>

\* F_SETFD
SetFd(t, i, c) ==
  /\ Active(t) /\ fds[t][i].open # Free
  /\ fds' = [fds EXCEPT ![t][i].cloexec = c]
  /\ UNCHANGED <<opens, pipes, life, asleep>>

\* pipe: two objects on the two lowest descriptors, or EMFILE and no change.
MakePipe(t) ==
  /\ Active(t)
  /\ \E p \in Pipes, r, w \in Opens, i, j \in FdNums :
       /\ IsFirst(p, FreePipes)
       /\ IsFirst(r, FreeOpens) /\ IsFirst(w, FreeOpens \ {r})
       /\ IsFirst(i, FreeFds(t)) /\ IsFirst(j, FreeFds(t) \ {i})
       /\ pipes' = [pipes EXCEPT ![p] = [used |-> TRUE, read |-> 1, write |-> 1]]
       /\ opens' = [opens EXCEPT ![r] = [used |-> TRUE, refs |-> 1, pipe |-> p, write |-> FALSE],
                                 ![w] = [used |-> TRUE, refs |-> 1, pipe |-> p, write |-> TRUE]]
       /\ fds' = [fds EXCEPT ![t][i] = [open |-> r, cloexec |-> FALSE],
                             ![t][j] = [open |-> w, cloexec |-> FALSE]]
  /\ UNCHANGED <<life, asleep>>

\* Mutant: the sleeper remembers the object instead of the pipe.
SleepOnIndex(t, i) ==
  /\ Active(t) /\ fds[t][i].open # Free
  /\ opens[fds[t][i].open].pipe # 0
  /\ asleep' = [asleep EXCEPT ![t] = fds[t][i].open]
  /\ UNCHANGED <<fds, opens, pipes, life>>

\* A pipe read or write that would block sleeps; later it looks again.
Sleep(t, i) ==
  /\ Active(t) /\ fds[t][i].open # Free
  /\ opens[fds[t][i].open].pipe # 0
  /\ asleep' = [asleep EXCEPT ![t] = opens[fds[t][i].open].pipe]
  /\ UNCHANGED <<fds, opens, pipes, life>>

Wake(t) ==
  /\ asleep[t] # 0
  /\ asleep' = [asleep EXCEPT ![t] = 0]
  /\ UNCHANGED <<fds, opens, pipes, life>>

----------------------------------------------------------------------------
(* The life of a task *)

\* register of a user task: init_task, which gives up without an object.
Spawn(t) ==
  /\ life[t] = "unused" /\ life' = [life EXCEPT ![t] = "user"]
  /\ \/ /\ FreeOpens = {}
        /\ UNCHANGED <<fds, opens>>
     \/ \E o \in Opens :
          /\ IsFirst(o, FreeOpens)
          /\ opens' = [opens EXCEPT ![o] = [used |-> TRUE, refs |-> Stdio, pipe |-> 0,
                                            write |-> FALSE]]
          /\ fds' = [fds EXCEPT ![t] = [i \in FdNums |-> IF i < Stdio
                                                         THEN [open |-> o, cloexec |-> FALSE]
                                                         ELSE EmptyFd]]
  /\ UNCHANGED <<pipes, asleep>>

\* Mutant: an object counts a forked table once, however often it names it.
ForkCountsOnce(p, c) ==
  /\ Active(p) /\ life[c] = "unused"
  /\ life' = [life EXCEPT ![c] = "user"]
  /\ fds' = [fds EXCEPT ![c] = fds[p]]
  /\ opens' = [o \in Opens |-> IF \E i \in FdNums : Names(p, i, o)
                               THEN [opens[o] EXCEPT !.refs = (@ + 1) % RefMod] ELSE opens[o]]
  /\ UNCHANGED <<pipes, asleep>>

\* register_fork: clone_task shares every object of the parent.
Fork(p, c) ==
  /\ Active(p) /\ life[c] = "unused"
  /\ life' = [life EXCEPT ![c] = "user"]
  /\ fds' = [fds EXCEPT ![c] = fds[p]]
  /\ opens' = [o \in Opens |-> [opens[o] EXCEPT !.refs = (@ + Count(p, FdNums)[o]) % RefMod]]
  /\ UNCHANGED <<pipes, asleep>>

\* execve: exec_close.
Exec(t) ==
  /\ Active(t)
  /\ LET I == {i \in FdNums : fds[t][i].cloexec} IN
     CloseSet(t, I, [i \in FdNums |-> IF i \in I THEN EmptyFd ELSE fds[t][i]])
  /\ UNCHANGED <<life, asleep>>

\* Mutant: the descriptors wait for the slot to be reaped.
ExitKeepsFds(t) ==
  /\ Active(t)
  /\ life' = [life EXCEPT ![t] = "zombie"]
  /\ UNCHANGED <<fds, opens, pipes, asleep>>

\* exit_with: close_all.
Exit(t) ==
  /\ Active(t)
  /\ CloseSet(t, FdNums, NoFds)
  /\ life' = [life EXCEPT ![t] = "zombie"]
  /\ UNCHANGED asleep

\* reap_exited closes again before the slot is free.
Reap(t) ==
  /\ life[t] = "zombie"
  /\ CloseSet(t, FdNums, NoFds)
  /\ life' = [life EXCEPT ![t] = "unused"]
  /\ UNCHANGED asleep

Next ==
  \E t \in Slots :
    \/ Spawn(t) \/ Exec(t) \/ Exit(t) \/ Reap(t) \/ MakePipe(t) \/ Wake(t)
    \/ \E c \in Slots : Fork(t, c)
    \/ \E c \in BOOLEAN : OpenFile(t, c)
    \/ \E i \in FdNums :
         \/ Close(t, i) \/ Sleep(t, i)
         \/ \E j \in FdNums : Dup(t, i, j) \/ Dup2(t, i, j)
         \/ \E c \in BOOLEAN : SetFd(t, i, c)

Spec == Init /\ [][Next]_vars

----------------------------------------------------------------------------
(* Properties *)

\* An object is in use exactly when a descriptor of some task names it, and
\* refs is the number of those descriptors (dup, fork, execve and exit keep
\* count of what they share and drop).
RefsExact ==
  \A o \in Opens :
    LET named == {x \in Slots \X FdNums : Names(x[1], x[2], o)} IN
    /\ opens[o].used <=> named # {}
    /\ opens[o].refs = Cardinality(named)

\* An end of a pipe is counted exactly while some descriptor can reach it, so
\* "the last writer closing makes read return EOF" and not an earlier one.
EndsCounted ==
  \A p \in Pipes, wr \in BOOLEAN :
    LET n == IF wr THEN pipes[p].write ELSE pipes[p].read IN
    n = 1 <=> \E t \in Slots, i \in FdNums, o \in Opens :
                Names(t, i, o) /\ opens[o].pipe = p /\ opens[o].write = wr

\* A task asleep in a pipe will look at the same pipe again: it still holds a
\* descriptor on it, so the number cannot have been given to another pipe.
SleeperKept ==
  \A t \in Slots : asleep[t] # 0 =>
    /\ pipes[asleep[t]].used
    /\ \E i \in FdNums, o \in Opens : Names(t, i, o) /\ opens[o].pipe = asleep[t]

\* What a descriptor refers to is changed by its own task only, whatever the
\* others open, share and close.
Undisturbed ==
  [][\A t \in Slots, i \in FdNums, o \in Opens :
       Names(t, i, o) /\ fds'[t] = fds[t] =>
         /\ opens'[o].used /\ opens'[o].pipe = opens[o].pipe /\ opens'[o].write = opens[o].write
         /\ opens[o].pipe # 0 => pipes'[opens[o].pipe].used]_vars

\* "close_all runs at task exit/reap so fds cannot leak across slots": a slot
\* without a living task has no descriptor.
NoLeak == \A t \in Slots : life[t] # "user" => fds[t] = NoFds

\* A spawned task starts with "fds 0..2 on /dev/console".
StdioOpen ==
  [][\A t \in Slots : life[t] = "unused" /\ Spawn(t) =>
       \A i \in 0 .. Stdio - 1 : fds'[t][i].open # Free]_vars

=============================================================================
