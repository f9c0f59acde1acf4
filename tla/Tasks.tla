------------------------------- MODULE Tasks -------------------------------
(***************************************************************************)
(* The task table and the process table of kernel-core: round-robin        *)
(* scheduling (task.rs), identities, zombies and reaping                   *)
(* (process/identity.rs), fork and wait4 (process/lifecycle.rs), groups    *)
(* (process/group.rs).                                                     *)
(*                                                                         *)
(* The machine has one core.  A step is the stretch of kernel code between *)
(* two points where another task can run: INT 0x60 is an interrupt gate,   *)
(* so a system call runs with interrupts off until it sleeps, while ring 3 *)
(* and kernel tasks (the boot task in slot 0 included) run with interrupts *)
(* on.  schedule() is one step here.                                       *)
(***************************************************************************)
EXTENDS Integers, FiniteSets

CONSTANTS MaxTasks,  \* MAX_TASKS
          MaxId,     \* bound on the ids NEXT_ID hands out
          MaxSleep,  \* bound on a sleep, in ticks
          WaitPids,  \* arguments wait4 is called with
          BootWaits  \* does the boot task call wait_for (the login shell does)

ASSUME TasksAssumption ==
  /\ MaxTasks \in Nat \ {0}
  /\ MaxId \in Nat
  /\ MaxSleep \in Nat \ {0}
  /\ WaitPids \subseteq -MaxId .. MaxId
  /\ BootWaits \in BOOLEAN

Slots == 0 .. MaxTasks - 1
Ids   == 1 .. MaxId
Boot  == 0   \* slot and id of the boot process

VARIABLES state,    \* TASKS[s].state
          wake,     \* ticks left until wake_tick of a sleeping slot
          isUser,   \* TASKS[s].is_user
          current,  \* CURRENT
          procs,    \* PROCS
          nextId,   \* NEXT_ID
          wait,     \* where slot s stands in wait4, with the locals it holds
          ledger    \* history: what became of the exit status of each id

vars == <<state, wake, isUser, current, procs, nextId, wait, ledger>>

States == {"Unused", "Ready", "Sleeping", "Exited"}

Proc == [used : BOOLEAN, alive : BOOLEAN, id : {Boot} \cup Ids, ppid : {Boot} \cup Ids,
         pgid : {Boot} \cup Ids, waited : BOOLEAN]

EmptyProc == [used |-> FALSE, alive |-> FALSE, id |-> 0, ppid |-> 0, pgid |-> 0,
              waited |-> FALSE]

\* A process as init_boot, init_task and clone_task leave it.
LiveProc(id, ppid, pgid) ==
  [used |-> TRUE, alive |-> TRUE, id |-> id, ppid |-> ppid, pgid |-> pgid, waited |-> FALSE]

\* wait4's position: outside, about to scan the table, or about to mark the
\* zombie it found (the scan and the mark are two critical sections).
Wait == [at : {"none", "scan", "mark"}, pid : -MaxId .. MaxId, pgid : {Boot} \cup Ids,
         slot : Slots, child : {Boot} \cup Ids]

NoWait == [at |-> "none", pid |-> 0, pgid |-> 0, slot |-> 0, child |-> 0]

ScanFor(pid, pgid) == [at |-> "scan", pid |-> pid, pgid |-> pgid, slot |-> 0, child |-> 0]

TypeOK ==
  /\ state \in [Slots -> States]
  /\ wake \in [Slots -> 0 .. MaxSleep]
  /\ isUser \in [Slots -> BOOLEAN]
  /\ current \in Slots
  /\ procs \in [Slots -> Proc]
  /\ nextId \in 0 .. MaxId
  /\ wait \in [Slots -> Wait]
  /\ ledger \in [Ids -> {"none", "owed", "paid", "void"}]

Init ==
  /\ state = [s \in Slots |-> IF s = Boot THEN "Ready" ELSE "Unused"]
  /\ wake = [s \in Slots |-> 0]
  /\ isUser = [s \in Slots |-> FALSE]
  /\ current = Boot
  /\ procs = [s \in Slots |-> IF s = Boot THEN LiveProc(Boot, Boot, Boot) ELSE EmptyProc]
  /\ nextId = 0
  /\ wait = [s \in Slots |-> NoWait]
  /\ ledger = [i \in Ids |-> "none"]

----------------------------------------------------------------------------
(* process/identity.rs *)

\* Some used slot carries the id (slot_of_id(id).is_some()).
HasId(ps, id) == \E s \in DOMAIN ps : ps[s].used /\ ps[s].id = id

\* Mutant: a zombie may go before wait4 has seen it.
ReapableUnwaited(ps, s) == ps[s].used /\ ~ps[s].alive

Reapable(ps, s) ==
  /\ ps[s].used /\ ~ps[s].alive
  /\ ps[s].waited \/ ps[s].ppid = Boot \/ ~HasId(ps, ps[s].ppid)

\* Mutant: on_reap leaves the slot used.
EmptiedKeepsUsed(ps, R) ==
  [s \in Slots |-> IF s \in R THEN LiveProc(0, 0, 0) ELSE ps[s]]

\* The table after on_reap of the slots in R.
Emptied(ps, R) == [s \in Slots |-> IF s \in R THEN EmptyProc ELSE ps[s]]

(* task.rs *)

\* Mutant: reap_exited does not skip the running slot.
ReapPassWithCurrent(R, st, ps) ==
  R = {s \in Slots : /\ st[s] = "Exited"
                     /\ Reapable(Emptied(ps, R \cap 0 .. s - 1), s)}

\* Mutant: reap_exited only looks below the running slot.
ReapPassBelow(R, st, ps) ==
  R = {s \in 0 .. current - 1 : /\ st[s] = "Exited"
                                /\ Reapable(Emptied(ps, R \cap 0 .. s - 1), s)}

\* The slots one pass of reap_exited frees: it goes up the table, so a slot
\* sees the slots below it already reaped.
IsReapPass(R, st, ps) ==
  R = {s \in Slots \ {current} :
         /\ st[s] = "Exited"
         /\ Reapable(Emptied(ps, R \cap 0 .. s - 1), s)}

\* Mutant: the scan starts at slot 0 every time.
OffsetFromZero(s) == s

\* Distance from the running slot in the round-robin scan; itself comes last.
Offset(s) == (s - current - 1 + MaxTasks) % MaxTasks

\* Mutant: wake_tick < now, one tick late for ever.
WokenLate(st, wk, R) ==
  [s \in Slots |-> IF s \in R THEN "Unused"
                   ELSE IF st[s] = "Sleeping" /\ wk[s] < 0 THEN "Ready"
                   ELSE st[s]]

\* The due sleepers become Ready, the reaped slots Unused.
Woken(st, wk, R) ==
  [s \in Slots |-> IF s \in R THEN "Unused"
                   ELSE IF st[s] = "Sleeping" /\ wk[s] = 0 THEN "Ready"
                   ELSE st[s]]

\* n is the next Ready slot; the caller goes on when there is none.
IsNext(n, st) ==
  LET ready == {s \in Slots : st[s] = "Ready"}
  IN  IF ready = {} THEN n = current
      ELSE n \in ready /\ \A m \in ready : Offset(n) <= Offset(m)

\* schedule() on the tables st, wk and ps.
Schedule(st, wk, ps) ==
  \E R \in SUBSET Slots, n \in Slots :
    /\ IsReapPass(R, st, ps)
    /\ IsNext(n, Woken(st, wk, R))
    /\ state' = Woken(st, wk, R)
    /\ wake' = wk
    /\ procs' = Emptied(ps, R)
    /\ current' = n

\* find_slot
FreeSlots == {s \in Slots : state[s] = "Unused"}
IsFindSlot(s) == s \in FreeSlots /\ \A t \in FreeSlots : s <= t

\* The slot on the core is outside the kernel, or is a kernel task, and may
\* start any operation.
Running(c) == c = current /\ state[c] # "Exited" /\ wait[c].at = "none"

\* Interrupts are on: ring 3, any point of a kernel task, the loop of exit_with.
Preemptible(c) == ~isUser[c] \/ wait[c].at = "none"

----------------------------------------------------------------------------
(* Operations of the slot on the core *)

\* register(): publish a task in the first free slot.
Publish(s, user, p) ==
  /\ IsFindSlot(s)
  /\ nextId < MaxId
  /\ nextId' = nextId + 1
  /\ state' = [state EXCEPT ![s] = "Ready"]
  /\ isUser' = [isUser EXCEPT ![s] = user]
  /\ procs' = [procs EXCEPT ![s] = p]
  /\ UNCHANGED <<wake, current, ledger>>

\* spawn_user_env from the boot task (phase_userland): ppid 0, a group of its own.
SpawnUser(c) ==
  /\ Running(c) /\ c = Boot
  /\ \E s \in Slots : Publish(s, TRUE, LiveProc(nextId + 1, Boot, nextId + 1))
  /\ UNCHANGED wait

\* run_shell: spawn_user_env, then wait_for the child.
RunShell(c) ==
  /\ Running(c) /\ c = Boot /\ BootWaits
  /\ \E s \in Slots : Publish(s, TRUE, LiveProc(nextId + 1, Boot, nextId + 1))
  /\ wait' = [wait EXCEPT ![c] = ScanFor(nextId + 1, procs[c].pgid)]

\* task::spawn: a kernel task has no process.
SpawnKernel(c) ==
  /\ Running(c) /\ ~isUser[c]
  /\ \E s \in Slots : Publish(s, FALSE, procs[s])
  /\ UNCHANGED wait

\* fork: the child is in its parent's group.
Fork(c) ==
  /\ Running(c) /\ isUser[c]
  /\ \E s \in Slots : Publish(s, TRUE, LiveProc(nextId + 1, procs[c].id, procs[c].pgid))
  /\ UNCHANGED wait

\* setpgid(pid, pgid) by c, on t: itself or one of its children; setsid is
\* the case t = c, pgid = its own id.
Setpgid(c) ==
  /\ Running(c) /\ isUser[c]
  /\ \E t \in Slots, g \in Ids :
       /\ procs[t].used
       /\ t = c \/ procs[t].ppid = procs[c].id
       /\ g = procs[t].id \/ \E s \in Slots : procs[s].used /\ procs[s].pgid = g
       /\ procs' = [procs EXCEPT ![t].pgid = g]
  /\ UNCHANGED <<state, wake, isUser, current, nextId, wait, ledger>>

\* Whom the status of c is owed to: a live parent, or a boot task that waits.
Owed(c) == \/ procs[c].ppid = Boot /\ BootWaits
           \/ \E s \in Slots \ {Boot} : /\ procs[s].used /\ procs[s].alive
                                        /\ procs[s].id = procs[c].ppid

\* exit_with: zombie, on_exit.  The slot keeps the core until it is preempted.
Exit(c) ==
  /\ Running(c) /\ c # Boot
  /\ state' = [state EXCEPT ![c] = "Exited"]
  /\ procs' = [procs EXCEPT ![c].alive = FALSE]
  /\ ledger' = [i \in Ids |->
                  IF procs[c].used /\ i = procs[c].id
                  THEN IF Owed(c) THEN "owed" ELSE "void"
                  ELSE IF ledger[i] = "owed" /\ \E s \in Slots : /\ procs[s].used /\ procs[s].id = i
                                                                 /\ procs[c].used
                                                                 /\ procs[s].ppid = procs[c].id
                  THEN "void" ELSE ledger[i]]
  /\ UNCHANGED <<wake, isUser, current, nextId, wait>>

\* sleep_ms
Sleep(c, ticks) ==
  /\ Running(c)
  /\ Schedule([state EXCEPT ![c] = "Sleeping"], [wake EXCEPT ![c] = ticks], procs)
  /\ UNCHANGED <<isUser, nextId, wait, ledger>>

\* SYS_YIELD, the scheduling tick of the timer, and the loop of exit_with.
Preempt(c) ==
  /\ c = current /\ Preemptible(c)
  /\ Schedule(state, wake, procs)
  /\ UNCHANGED <<isUser, nextId, wait, ledger>>

\* Mutant: the deadline of a task that is awake is counted down too.
ClockUnderflow ==
  /\ \E s \in Slots : wake[s] > 0
  /\ wake' = [s \in Slots |-> wake[s] - 1]
  /\ UNCHANGED <<state, isUser, current, procs, nextId, wait, ledger>>

\* Time passes: now_ticks reads the TSC, so also while interrupts are off.
Clock ==
  /\ \E s \in Slots : wake[s] > 0
  /\ wake' = [s \in Slots |-> IF wake[s] > 0 THEN wake[s] - 1 ELSE 0]
  /\ UNCHANGED <<state, isUser, current, procs, nextId, wait, ledger>>

----------------------------------------------------------------------------
(* wait4 *)

\* A child c with process p may be returned for the argument pid.
Matches(p, pid, pgid) ==
  CASE pid > 0  -> p.id = pid
    [] pid = 0  -> p.pgid = pgid
    [] pid = -1 -> TRUE
    [] OTHER    -> p.pgid = -pid

\* Mutant: wait4 does not skip children that are still alive.
ZombiesOrAlive(c) == {s \in Slots : /\ procs[s].used /\ ~procs[s].waited
                                    /\ procs[s].ppid = procs[c].id
                                    /\ Matches(procs[s], wait[c].pid, wait[c].pgid)}

Zombies(c) == {s \in Slots : /\ procs[s].used /\ ~procs[s].alive /\ ~procs[s].waited
                             /\ procs[s].ppid = procs[c].id
                             /\ Matches(procs[s], wait[c].pid, wait[c].pgid)}

HasChildren(c) == \E s \in Slots : procs[s].used /\ procs[s].ppid = procs[c].id

\* SYS_WAIT4
WaitBegin(c, pid) ==
  /\ Running(c) /\ isUser[c]
  /\ wait' = [wait EXCEPT ![c] = ScanFor(pid, procs[c].pgid)]
  /\ UNCHANGED <<state, wake, isUser, current, procs, nextId, ledger>>

\* One scan finds the lowest zombie.
WaitFound(c) ==
  /\ c = current /\ wait[c].at = "scan"
  /\ \E s \in Zombies(c) :
       /\ \A t \in Zombies(c) : s <= t
       /\ wait' = [wait EXCEPT ![c] = [at |-> "mark", pid |-> @.pid, pgid |-> @.pgid,
                                          slot |-> s, child |-> procs[s].id]]
  /\ UNCHANGED <<state, wake, isUser, current, procs, nextId, ledger>>

\* Mark it waited and return its status.
WaitMark(c) ==
  /\ c = current /\ wait[c].at = "mark"
  /\ procs' = [procs EXCEPT ![wait[c].slot].waited = TRUE]
  /\ wait' = [wait EXCEPT ![c] = NoWait]
  /\ ledger' = [ledger EXCEPT ![wait[c].child] = "paid"]
  /\ UNCHANGED <<state, wake, isUser, current, nextId>>

\* Nothing found: WNOHANG, no children, or (a user task) a pending signal.
WaitFail(c) ==
  /\ c = current /\ wait[c].at = "scan"
  /\ Zombies(c) = {}
  /\ isUser[c] \/ ~HasChildren(c)
  /\ wait' = [wait EXCEPT ![c] = NoWait]
  /\ UNCHANGED <<state, wake, isUser, current, procs, nextId, ledger>>

\* Nothing found and children remain: sleep_ms(1), then scan again.
WaitSleep(c) ==
  /\ c = current /\ wait[c].at = "scan"
  /\ Zombies(c) = {} /\ HasChildren(c)
  /\ Schedule([state EXCEPT ![c] = "Sleeping"], [wake EXCEPT ![c] = 1], procs)
  /\ UNCHANGED <<isUser, nextId, wait, ledger>>

WaitStep(c) == WaitFound(c) \/ WaitMark(c) \/ WaitFail(c) \/ WaitSleep(c)

Next ==
  \/ \E c \in Slots :
       \/ SpawnUser(c) \/ RunShell(c) \/ SpawnKernel(c) \/ Fork(c) \/ Setpgid(c) \/ Exit(c)
       \/ \E ticks \in 1 .. MaxSleep : Sleep(c, ticks)
       \/ \E pid \in WaitPids : WaitBegin(c, pid)
       \/ Preempt(c) \/ WaitStep(c)
  \/ Clock

\* Kernel code keeps running and time passes.  A timer interrupt that comes
\* while a system call has interrupts off stays latched and is taken on the way
\* back to ring 3: strong fairness.  User code need not do anything.
Fairness == /\ WF_vars(Clock)
            /\ SF_vars(\E c \in Slots : Preempt(c))
            /\ \A c \in Slots : WF_vars(WaitStep(c))

Spec == Init /\ [][Next]_vars
FairSpec == Spec /\ Fairness

----------------------------------------------------------------------------
(* Properties *)

\* The task table and the process table tell the same story: a slot has a
\* process exactly when it is the boot slot or holds a user task, and the
\* process is alive exactly when the task has not exited (register, fork,
\* exit_with and reap_exited each write both tables).
TablesAgree ==
  \A s \in Slots :
    /\ procs[s].used <=> (s = Boot \/ (isUser[s] /\ state[s] # "Unused"))
    /\ procs[s].alive <=> (procs[s].used /\ state[s] # "Exited")

\* Two processes in the table never share an id, so slot_of_id names one slot.
IdsUnique ==
  \A s, t \in Slots : procs[s].used /\ procs[t].used /\ procs[s].id = procs[t].id => s = t

\* The core never runs on a slot that reap_exited has freed (its kernel stack
\* and page tables are gone by then).
CurrentKept == state[current] # "Unused"

\* "The slot survives until wait4 consumed the status (or the parent died)":
\* a status that is owed to a parent is still in the table, in an exited slot
\* that wait4 has not marked.
StatusKept ==
  \A i \in Ids : ledger[i] = "owed" =>
    \E s \in Slots : /\ procs[s].used /\ procs[s].id = i /\ state[s] = "Exited"
                     /\ ~procs[s].alive /\ ~procs[s].waited

\* A slot marked waited is one whose status wait4 did return.
WaitedPaid ==
  \A s \in Slots : procs[s].used /\ procs[s].waited => ledger[procs[s].id] = "paid"

\* "Sleeping tasks wake by tick deadline": a task that called sleep_ms does not
\* run on before its deadline.
SleptToDeadline ==
  ~(state[current] = "Sleeping" /\ wake[current] > 0 /\ wait[current].at = "none")

\* Round robin starves nobody: a Ready slot gets the core.
Served == \A s \in Slots : state[s] = "Ready" ~> (current = s \/ state[s] # "Ready")

\* A user parent blocked in wait4 returns once a matching child is a zombie.
WaitReturns ==
  \A s \in Slots \ {Boot} :
    (wait[s].at = "scan" /\ Zombies(s) # {}) ~> wait[s].at = "none"

\* An exited process whose status is consumed or owed to nobody is freed.
Freed ==
  \A s \in Slots :
    (state[s] = "Exited" /\ Reapable(procs, s)) ~> state[s] = "Unused"

\* wait_for of the boot task returns once the shell it waits for has exited.
BootWaitReturns ==
  (wait[Boot].at # "none" /\ \E i \in Ids : wait[Boot].pid = i /\ ledger[i] # "none")
     ~> wait[Boot].at = "none"

\* A kernel task that exits is reaped.
KernelTaskReaped ==
  \A s \in Slots : (state[s] = "Exited" /\ ~isUser[s]) ~> state[s] = "Unused"

============================================================================
