------------------------------ MODULE Signals ------------------------------
(***************************************************************************)
(* Signals of kernel-core: kill and execve (process/lifecycle.rs), the     *)
(* pending, blocked and action tables (process/sigstate.rs), delivery at a *)
(* return to ring 3, sigreturn and sigsuspend (signal.rs), and the signals *)
(* of the console (process/group.rs).                                      *)
(*                                                                         *)
(* One core; a step is a stretch of kernel code during which no other      *)
(* process runs, the delivery at its end included.  A process is off the   *)
(* core because the timer preempted it in ring 3 (it is delivered to       *)
(* before it goes on), because it sleeps in a system call, or because it   *)
(* was forked and has not run (user_iret_entry, which delivers nothing).   *)
(***************************************************************************)
EXTENDS Integers, Sequences

CONSTANTS Procs,      \* ids of user processes
          Sigs,       \* signal numbers in use
          Actions,    \* dispositions sigaction installs
          Masks,      \* masks user code passes to sigprocmask and sigsuspend
          Hows,       \* how-arguments of sigprocmask
          Groups,     \* arguments of tcsetpgrp
          Sleeps,     \* kinds of sleep: in wait4, a read or a write; in nanosleep
          MaxFrames,  \* handler frames the user stack has room for
          EarlyExec   \* may execve be the first system call of a child

SIGINT  == 2
SIGKILL == 9
SIGCHLD == 17

ASSUME SignalsAssumption ==
  /\ Procs \subseteq Nat \ {0} /\ Procs # {}
  /\ Sigs \subseteq 1 .. 31 /\ {SIGINT, SIGKILL, SIGCHLD} \subseteq Sigs
  /\ Actions \subseteq {"dfl", "ign", "catch", "catchAll", "bare"}
  /\ Masks \subseteq SUBSET Sigs
  /\ Hows \subseteq {"block", "unblock", "setmask"}
  /\ Groups \subseteq Nat /\ Sleeps \subseteq {"io", "nap"}
  /\ MaxFrames \in Nat
  /\ EarlyExec \in BOOLEAN

Nobody == 0

VARIABLES procs,    \* the signal half of PROCS
          current,  \* the process in ring 3, or Nobody
          ttyPgrp,  \* TTY_PGRP
          killed,   \* history: SIGKILL was queued for the process
          virgin    \* history: the process has not crossed a delivery point

vars == <<procs, current, ttyPgrp, killed, virgin>>

\* free: no such process yet; fresh: forked, has not run; user: in ring 3;
\* ready: preempted in ring 3; io: asleep in wait4 or in a read or write;
\* nap: asleep in nanosleep; suspend: asleep in sigsuspend; dead: exited.
Stages == {"free", "fresh", "user", "ready", "io", "nap", "suspend", "dead"}

Frame == [sig : Sigs, mask : SUBSET Sigs]

Proc == [stage : Stages, ppid : Procs \cup {Nobody}, pgid : Procs \cup {Nobody},
         pending : SUBSET Sigs, blocked : SUBSET Sigs,
         action : [Sigs -> Actions \cup {"dfl"}],
         frames : Seq(Frame),      \* SignalFrames on the user stack
         old : SUBSET Sigs]        \* local of sigsuspend

TypeOK ==
  /\ procs \in [Procs -> Proc]
  /\ \A p \in Procs : Len(procs[p].frames) <= MaxFrames
  /\ current \in Procs \cup {Nobody}
  /\ ttyPgrp \in Groups \cup {0}
  /\ killed \in SUBSET Procs /\ virgin \in SUBSET Procs

FreeProc == [stage |-> "free", ppid |-> Nobody, pgid |-> Nobody, pending |-> {},
             blocked |-> {}, action |-> [s \in Sigs |-> "dfl"], frames |-> <<>>, old |-> {}]

\* One process has been spawned by the boot task.
First == CHOOSE p \in Procs : \A q \in Procs : p <= q

Init ==
  /\ procs = [p \in Procs |-> IF p = First THEN [FreeProc EXCEPT !.stage = "fresh", !.pgid = p]
                              ELSE FreeProc]
  /\ current = Nobody
  /\ ttyPgrp = 0
  /\ killed = {} /\ virgin = {First}

Alive(p) == procs[p].stage \notin {"free", "dead"}

----------------------------------------------------------------------------
(* process/sigstate.rs *)

\* default_ignored
DefaultIgnored == {SIGCHLD, 18, 19, 20, 21, 22, 23, 28}

\* What dequeue may take: SIGKILL bypasses the blocked mask.
Deliverable(r) == IF SIGKILL \in r.pending THEN {SIGKILL} ELSE r.pending \ r.blocked

\* Mutant: sleeping calls are not interrupted.
PendingHandledNever(r) == r.pending # r.pending

\* Comment and name say a handled signal; the code asks for one that is not
\* ignored by default, whatever its disposition.
PendingHandled(r) == (r.pending \ r.blocked) \ DefaultIgnored # {}

HasDeliverable(r) == r.pending \cap ((Sigs \ r.blocked) \cup {SIGKILL}) # {}

\* Mutant: only sa_mask is blocked, not the signal itself.
HandlerMaskOnly(r, sig) ==
  (r.blocked \cup (IF r.action[sig] = "catchAll" THEN Sigs ELSE {})) \ {SIGKILL}

\* block_for_handler
HandlerMask(r, sig) ==
  (r.blocked \cup {sig} \cup (IF r.action[sig] = "catchAll" THEN Sigs ELSE {})) \ {SIGKILL}

----------------------------------------------------------------------------
(* signal.rs *)

\* Mutant: no check for room on the user stack.
FatalNoStackCheck(r, sig) ==
  \/ sig = SIGKILL
  \/ r.action[sig] = "dfl" /\ sig \notin DefaultIgnored
  \/ r.action[sig] = "bare"

\* The process dies of sig: SIGKILL, a fatal default, a handler without a
\* restorer, or no room for the frame (SIGSEGV).
Fatal(r, sig) ==
  \/ sig = SIGKILL
  \/ r.action[sig] = "dfl" /\ sig \notin DefaultIgnored
  \/ r.action[sig] = "bare"
  \/ r.action[sig] \in {"catch", "catchAll"} /\ Len(r.frames) = MaxFrames

\* The process after dequeuing sig.
Taken(r, sig) ==
  LET q == [r EXCEPT !.pending = @ \ {sig}] IN
  IF Fatal(r, sig) THEN [q EXCEPT !.stage = "dead"]
  ELSE IF r.action[sig] \in {"catch", "catchAll"}
  THEN [q EXCEPT !.frames = Append(@, [sig |-> sig, mask |-> r.blocked]),
                 !.blocked = HandlerMask(r, sig)]
  ELSE q

Lowest(S) == CHOOSE s \in S : \A t \in S : s <= t

\* deliver_current: one signal, the lowest deliverable one.
Delivered(r) == IF Deliverable(r) = {} THEN r ELSE Taken(r, Lowest(Deliverable(r)))

\* The table ps when p becomes r: on_exit tells the parent of one that died.
\* (Nothing reads the signal state of a zombie, so it is dropped here.)
Put(ps, p, r) ==
  [q \in Procs |->
     IF q = p THEN IF r.stage = "dead" THEN [FreeProc EXCEPT !.stage = "dead"] ELSE r
     ELSE IF r.stage = "dead" /\ q = r.ppid /\ ps[q].stage \notin {"free", "dead"}
     THEN [ps[q] EXCEPT !.pending = @ \cup {SIGCHLD}]
     ELSE ps[q]]

\* p returns to ring 3 through a delivery point: with record r, in table ps.
Return(ps, p, r) ==
  LET d == Delivered([r EXCEPT !.stage = "user"]) IN
  /\ procs' = Put(ps, p, d)
  /\ current' = IF d.stage = "dead" THEN Nobody ELSE p
  /\ virgin' = {q \in Procs \ {p} : q \in virgin \/ ps[q].stage = "fresh"}

\* p gives up the core and its record becomes r.
Leave(p, r) == procs' = Put(procs, p, r) /\ current' = Nobody /\ virgin' = virgin

----------------------------------------------------------------------------
(* Scheduling *)

\* The timer preempts ring 3.
Preempt(p) ==
  /\ current = p
  /\ Leave(p, [procs[p] EXCEPT !.stage = "ready"])
  /\ UNCHANGED <<ttyPgrp, killed>>

\* Mutant: the tick does not deliver to the task it resumes.
ResumeUndelivered(p) ==
  /\ current = Nobody /\ procs[p].stage \in {"ready", "fresh"}
  /\ procs' = [procs EXCEPT ![p].stage = "user"]
  /\ current' = p /\ virgin' = IF procs[p].stage = "ready" THEN virgin \ {p} ELSE virgin
  /\ UNCHANGED <<ttyPgrp, killed>>

\* schedule() switches to p.
Resume(p) ==
  /\ current = Nobody
  /\ \/ procs[p].stage = "ready" /\ Return(procs, p, procs[p])
     \/ /\ procs[p].stage = "fresh"
        /\ procs' = [procs EXCEPT ![p].stage = "user"]
        /\ current' = p /\ UNCHANGED virgin
  /\ UNCHANGED <<ttyPgrp, killed>>

----------------------------------------------------------------------------
(* System calls that do not sleep: the effect, then the delivery. *)

\* Whom kill(pid, sig) of process c hits; c is 0 for the boot task.
Victims(c, pid) ==
  {p \in Procs : /\ Alive(p)
                 /\ CASE pid = 0  -> p = c \/ procs[p].pgid = procs[c].pgid
                      [] pid = -1 -> p # c
                      [] pid > 0  -> p = pid
                      [] OTHER    -> procs[p].pgid = -pid}

\* Mutant: the signal replaces those that are pending.
QueuedOverwrites(V, sig) == [p \in Procs |-> IF p \in V THEN [procs[p] EXCEPT !.pending = {sig}]
                                             ELSE procs[p]]

\* The table with sig queued for the processes of V.
Queued(V, sig) == [p \in Procs |-> IF p \in V THEN [procs[p] EXCEPT !.pending = @ \cup {sig}]
                                   ELSE procs[p]]

\* SYS_KILL by c: queue for every victim, then deliver to c.
Kill(c, pid, sig) ==
  /\ current = c
  /\ LET V == Victims(c, pid) IN
     /\ V # {}
     /\ Return(Queued(V, sig), c, Queued(V, sig)[c])
     /\ killed' = IF sig = SIGKILL THEN killed \cup V ELSE killed
  /\ UNCHANGED ttyPgrp

\* A system call with no effect here, one that fails included.
Syscall(c) ==
  /\ current = c
  /\ Return(procs, c, procs[c])
  /\ UNCHANGED <<ttyPgrp, killed>>

\* SYS_SIGACTION
Sigaction(c, sig, a) ==
  /\ current = c /\ sig # SIGKILL
  /\ Return(procs, c, [procs[c] EXCEPT !.action[sig] = a])
  /\ UNCHANGED <<ttyPgrp, killed>>

\* SYS_SIGPROCMASK
Sigprocmask(c, how, set) ==
  /\ current = c
  /\ LET b == CASE how = "block"   -> procs[c].blocked \cup set
                [] how = "unblock" -> procs[c].blocked \ set
                [] how = "setmask" -> set
     IN  Return(procs, c, [procs[c] EXCEPT !.blocked = b \ {SIGKILL}])
  /\ UNCHANGED <<ttyPgrp, killed>>

\* SYS_SIGRETURN from the restorer of the innermost handler.
Sigreturn(c) ==
  /\ current = c /\ procs[c].frames # <<>>
  /\ LET n == Len(procs[c].frames) IN
     Return(procs, c, [procs[c] EXCEPT !.frames = SubSeq(@, 1, n - 1),
                                !.blocked = procs[c].frames[n].mask \ {SIGKILL}])
  /\ UNCHANGED <<ttyPgrp, killed>>

\* signal_reset_for_exec
ExecReset(r) ==
  [r EXCEPT !.action = [s \in Sigs |-> IF @[s] = "ign" THEN "ign" ELSE "dfl"],
            !.pending = {}, !.frames = <<>>]

\* SYS_EXECVE of an image that loads.
Execve(c) ==
  /\ current = c /\ (EarlyExec \/ c \notin virgin)
  /\ Return(procs, c, ExecReset(procs[c]))
  /\ UNCHANGED <<ttyPgrp, killed>>

\* SYS_FORK: clone_task copies everything but the pending signals.
Fork(c) ==
  /\ current = c
  /\ \E k \in Procs :
       /\ procs[k].stage = "free" /\ \A q \in Procs : procs[q].stage = "free" => k <= q
       /\ LET child == [procs[c] EXCEPT !.stage = "fresh", !.ppid = c, !.pending = {}] IN
          Return([procs EXCEPT ![k] = child], c, procs[c])
  /\ UNCHANGED <<ttyPgrp, killed>>

\* SYS_SETPGID of the caller into a group of its own.
Setpgid(c) ==
  /\ current = c
  /\ Return(procs, c, [procs[c] EXCEPT !.pgid = c])
  /\ UNCHANGED <<ttyPgrp, killed>>

\* SYS_TCSETPGRP: any number is taken.
Tcsetpgrp(c, g) ==
  /\ current = c
  /\ ttyPgrp' = g
  /\ Return(procs, c, procs[c])
  /\ UNCHANGED killed

\* SYS_EXIT
Exit(c) ==
  /\ current = c
  /\ Leave(c, [procs[c] EXCEPT !.stage = "dead"])
  /\ UNCHANGED <<ttyPgrp, killed>>

----------------------------------------------------------------------------
(* System calls that sleep, one millisecond at a time. *)

\* wait4, a pipe or the console with nothing to return; nanosleep.
Block(c, how) ==
  /\ current = c
  /\ how = "io" => ~PendingHandled(procs[c])
  /\ Leave(c, [procs[c] EXCEPT !.stage = how])
  /\ UNCHANGED <<ttyPgrp, killed>>

\* What it slept for is there.
Complete(p) ==
  /\ current = Nobody /\ procs[p].stage \in {"io", "nap"}
  /\ Return(procs, p, procs[p])
  /\ UNCHANGED <<ttyPgrp, killed>>

\* EINTR
Interrupt(p) ==
  /\ current = Nobody /\ procs[p].stage = "io"
  /\ PendingHandled(procs[p])
  /\ Return(procs, p, procs[p])
  /\ UNCHANGED <<ttyPgrp, killed>>

\* SYS_SIGSUSPEND: swap the mask and sleep unless a signal is deliverable.
Sigsuspend(c, set) ==
  /\ current = c
  /\ LET r == [procs[c] EXCEPT !.blocked = set \ {SIGKILL}, !.old = procs[c].blocked] IN
     IF HasDeliverable(r) THEN Return(procs, c, procs[c])
     ELSE Leave(c, [r EXCEPT !.stage = "suspend"])
  /\ UNCHANGED <<ttyPgrp, killed>>

\* It wakes up: the old mask comes back, then the delivery.
SuspendWake(p) ==
  /\ current = Nobody /\ procs[p].stage = "suspend"
  /\ HasDeliverable(procs[p])
  /\ Return(procs, p, [procs[p] EXCEPT !.blocked = procs[p].old, !.old = {}])
  /\ UNCHANGED <<ttyPgrp, killed>>

\* ^C read by a process that sleeps in a console read: signal_console.
ConsoleVictims(p) ==
  IF ttyPgrp = 0 THEN {p} ELSE Victims(p, -ttyPgrp)

ConsoleInt(p) ==
  /\ current = Nobody /\ procs[p].stage = "io"
  /\ procs' = Queued(ConsoleVictims(p), SIGINT)
  /\ UNCHANGED <<current, ttyPgrp, killed, virgin>>

Next ==
  \E p \in Procs :
    \/ Preempt(p) \/ Resume(p) \/ Syscall(p) \/ Sigreturn(p) \/ Execve(p) \/ Fork(p)
    \/ Setpgid(p) \/ Exit(p)
    \/ \E pid \in {0, -1} \cup Procs, sig \in Sigs : Kill(p, pid, sig)
    \/ \E sig \in Sigs, a \in Actions : Sigaction(p, sig, a)
    \/ \E how \in Hows, set \in Masks : Sigprocmask(p, how, set)
    \/ \E g \in Groups : Tcsetpgrp(p, g)
    \/ \E how \in Sleeps : Block(p, how)
    \/ Complete(p) \/ Interrupt(p) \/ SuspendWake(p) \/ ConsoleInt(p)
    \/ \E set \in Masks : Sigsuspend(p, set)

\* schedule() serves every task (Served of Tasks), the timer preempts ring 3,
\* and a nap ends at its deadline.  Nothing makes a read or a wait4 complete.
Scheduled(p) == Resume(p) \/ Interrupt(p) \/ SuspendWake(p)
                \/ (procs[p].stage = "nap" /\ Complete(p))

Fairness == /\ WF_vars(\E p \in Procs : Preempt(p))
            /\ \A p \in Procs : SF_vars(Scheduled(p))

Spec == Init /\ [][Next]_vars
FairSpec == Spec /\ Fairness

----------------------------------------------------------------------------
(* Properties *)

\* No mask, in force, saved on the user stack or in sigsuspend, holds SIGKILL
\* (sigprocmask, set_blocked and block_for_handler each strip it).
KillUnblocked ==
  \A p \in Procs : /\ SIGKILL \notin procs[p].blocked \cup procs[p].old
                   /\ \A i \in DOMAIN procs[p].frames : SIGKILL \notin procs[p].frames[i].mask

\* Ring 3 never runs with a SIGKILL pending: every way back delivers it first,
\* except the first entry of a forked child, which delivers nothing.
KillSeen ==
  \A p \in Procs : procs[p].stage = "user" /\ SIGKILL \in procs[p].pending => p \in virgin

\* "SIGKILL always wins": once queued it stays pending until the process dies.
KillWins ==
  \A p \in killed : SIGKILL \in procs[p].pending \/ procs[p].stage = "dead"

\* Signals that no mask user code passes takes out of the mask.
KeptMasked ==
  {s \in Sigs : \A m \in Masks : ("setmask" \in Hows => s \in m) /\ ("unblock" \in Hows => s \notin m)}

\* A handler is not entered again for its own signal while it runs, unless user code
\* itself unblocks it: block_for_handler, nested handlers, sigsuspend and sigreturn keep
\* the signal of every frame on the stack blocked.
NoReentry ==
  \A p \in Procs : \A i, j \in DOMAIN procs[p].frames :
    procs[p].frames[i].sig = procs[p].frames[j].sig /\ procs[p].frames[i].sig \in KeptMasked => i = j

\* A process that is sent SIGKILL dies, wherever it sleeps.
KillEnds == \A p \in Procs : p \in killed ~> procs[p].stage = "dead"

\* A sleeping call is interrupted only for "a handled signal", not for one
\* that the process ignores.
EintrHandled ==
  [][\A p \in Procs : Interrupt(p) =>
       \E s \in Deliverable(procs[p]) : procs[p].action[s] # "ign"]_vars

\* sigsuspend: "Delivery happens on the return path".
SuspendDelivers ==
  [][\A p \in Procs : SuspendWake(p) => procs'[p].pending # procs[p].pending]_vars

\* "SIGINT from the console: the terminal's foreground group".
ConsoleForeground ==
  [][\A p, q \in Procs :
       ConsoleInt(p) /\ ttyPgrp # 0 /\ procs'[q].pending # procs[q].pending
         => procs[q].pgid = ttyPgrp]_vars

============================================================================
