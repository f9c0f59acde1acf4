----------------------------- MODULE TasksProofs -----------------------------
(***************************************************************************)
(* Proofs about Tasks for any number of slots, ids and ticks.              *)
(*                                                                         *)
(* The first part holds whoever waits: the two tables agree, ids are       *)
(* unique, and the core never runs on a freed slot.  The second part, that *)
(* no exit status is lost, needs a boot task that does not call wait4.     *)
(***************************************************************************)
EXTENDS Tasks, TLAPS

\* The boot slot is never given up.
BootLives == state[Boot] \in {"Ready", "Sleeping"} /\ ~isUser[Boot]

\* Ids come from NEXT_ID, parents are older than their children.
IdsOrdered ==
  /\ procs[Boot].id = Boot
  /\ \A s \in Slots \ {Boot} :
       procs[s].used => /\ procs[s].id \in 1 .. nextId
                        /\ procs[s].ppid < procs[s].id

\* Only a live user task or the boot task is inside wait4.
WaitersLive ==
  \A s \in Slots : wait[s].at # "none" =>
    /\ isUser[s] \/ s = Boot
    /\ state[s] \in {"Ready", "Sleeping"}

Core == /\ TypeOK /\ TablesAgree /\ IdsUnique /\ CurrentKept
        /\ BootLives /\ IdsOrdered /\ WaitersLive

-----------------------------------------------------------------------------
LEMMA SlotsFacts == Boot \in Slots /\ Slots \subseteq Nat
  BY TasksAssumption DEF Slots, Boot

\* Setting one flag of a process leaves a process.
LEMMA ProcUpdate ==
  ASSUME NEW p \in Proc, NEW b \in BOOLEAN
  PROVE  [p EXCEPT !.alive = b] \in Proc /\ [p EXCEPT !.waited = b] \in Proc
  BY DEF Proc

\* The boot state satisfies the invariant.
LEMMA InitCore == Init => Core
  <1> SUFFICES ASSUME Init PROVE Core
    OBVIOUS
  <1>1. EmptyProc \in Proc /\ NoWait \in Wait
    BY TasksAssumption, SlotsFacts DEF EmptyProc, Proc, NoWait, Wait, Slots, Ids, Boot
  <1>2. TypeOK
    <2>1. procs \in [Slots -> Proc]
      BY <1>1, SlotsFacts DEF Init, Proc, EmptyProc, LiveProc, Boot
    <2> QED
      BY <1>1, <2>1, TasksAssumption, SlotsFacts DEF Init, TypeOK, States
  <1>3. \A s \in Slots : /\ procs[s].used <=> s = Boot
                         /\ procs[s].alive <=> s = Boot
                         /\ procs[s].id = 0
    BY SlotsFacts DEF Init, EmptyProc, LiveProc, Boot
  <1>4. TablesAgree /\ IdsUnique
    BY <1>3, SlotsFacts DEF Init, TablesAgree, IdsUnique
  <1>5. IdsOrdered /\ BootLives /\ CurrentKept
    BY <1>3, SlotsFacts DEF Init, IdsOrdered, BootLives, CurrentKept, Boot
  <1>6. WaitersLive
    BY DEF Init, WaitersLive, NoWait
  <1> QED
    BY <1>2, <1>4, <1>5, <1>6 DEF Core

-----------------------------------------------------------------------------
\* What schedule() leaves behind.  A slot it frees had exited, was not the
\* running one, and its status was consumed, the boot task's or parentless.
LEMMA ScheduleEffect ==
  ASSUME NEW st \in [Slots -> States], NEW wk, NEW ps \in [Slots -> Proc],
         current \in Slots, st[current] # "Unused", Schedule(st, wk, ps)
  PROVE  \E R \in SUBSET Slots :
           /\ \A s \in R :
                /\ s # current /\ st[s] = "Exited" /\ ps[s].used /\ ~ps[s].alive
                /\ \/ ps[s].waited \/ ps[s].ppid = Boot
                   \/ ~\E t \in Slots : st[t] # "Exited" /\ ps[t].used /\ ps[t].id = ps[s].ppid
           /\ state' = Woken(st, wk, R) /\ wake' = wk /\ procs' = Emptied(ps, R)
           /\ current' \in Slots /\ state'[current'] # "Unused"
  <1>1. PICK R \in SUBSET Slots, n \in Slots :
          /\ IsReapPass(R, st, ps) /\ IsNext(n, Woken(st, wk, R))
          /\ state' = Woken(st, wk, R) /\ wake' = wk /\ procs' = Emptied(ps, R)
          /\ current' = n
    BY DEF Schedule
  <1>2. ASSUME NEW s \in R
        PROVE  /\ s # current /\ st[s] = "Exited" /\ ps[s].used /\ ~ps[s].alive
               /\ \/ ps[s].waited \/ ps[s].ppid = Boot
                  \/ ~\E t \in Slots : st[t] # "Exited" /\ ps[t].used /\ ps[t].id = ps[s].ppid
    <2> DEFINE below == R \cap 0 .. s - 1
    <2>1. s \in Slots \ {current} /\ st[s] = "Exited" /\ Reapable(Emptied(ps, below), s)
      BY <1>1 DEF IsReapPass
    <2>2. s \notin below
      BY SlotsFacts
    <2>3. Emptied(ps, below)[s] = ps[s] /\ DOMAIN Emptied(ps, below) = Slots
      BY <2>2 DEF Emptied
    <2>4. \A t \in Slots : st[t] # "Exited" => Emptied(ps, below)[t] = ps[t]
      <3>1. \A t \in R : st[t] = "Exited"
        BY <1>1 DEF IsReapPass
      <3> QED
        BY <3>1 DEF Emptied
    <2> HIDE DEF below
    <2>5. CASE \E t \in Slots : st[t] # "Exited" /\ ps[t].used /\ ps[t].id = ps[s].ppid
      <3>1. HasId(Emptied(ps, below), ps[s].ppid)
        BY <2>3, <2>4, <2>5 DEF HasId
      <3> QED
        BY <2>1, <2>3, <3>1 DEF Reapable
    <2> QED
      BY <2>1, <2>3, <2>5 DEF Reapable
  <1>3. state'[current'] # "Unused"
    <2> DEFINE W == Woken(st, wk, R)
    <2>1. W[current] # "Unused"
      BY <1>2 DEF Woken
    <2>2. n = current \/ W[n] = "Ready"
      BY <1>1 DEF IsNext
    <2> QED
      BY <1>1, <2>1, <2>2
  <1> QED
    BY <1>1, <1>2, <1>3

\* schedule() keeps the invariant, whichever slot just went to sleep.
LEMMA ScheduleCore ==
  ASSUME Core, NEW st \in [Slots -> States], NEW wk \in [Slots -> 0 .. MaxSleep],
         \A s \in Slots : \/ st[s] = state[s]
                          \/ st[s] = "Sleeping" /\ state[s] \in {"Ready", "Sleeping"},
         Schedule(st, wk, procs), UNCHANGED <<isUser, nextId, wait, ledger>>
  PROVE  Core'
  <1> USE SlotsFacts
  <1>1. st[current] # "Unused" /\ current \in Slots /\ procs \in [Slots -> Proc]
    BY DEF Core, TypeOK, CurrentKept
  <1>2. PICK R \in SUBSET Slots :
           /\ \A s \in R : s # current /\ st[s] = "Exited" /\ procs[s].used /\ ~procs[s].alive
           /\ state' = Woken(st, wk, R) /\ wake' = wk /\ procs' = Emptied(procs, R)
           /\ current' \in Slots /\ state'[current'] # "Unused"
    BY <1>1, ScheduleEffect
  <1>3. \A s \in R : state'[s] = "Unused" /\ procs'[s] = EmptyProc /\ state[s] = "Exited"
    BY <1>2 DEF Woken, Emptied
  <1>4. \A s \in Slots \ R :
          /\ procs'[s] = procs[s]
          /\ \/ state'[s] = state[s]
             \/ state[s] \in {"Ready", "Sleeping"} /\ state'[s] \in {"Ready", "Sleeping"}
    BY <1>2 DEF Woken, Emptied
  <1>5. TypeOK'
    <2>1. EmptyProc \in Proc
      BY DEF EmptyProc, Proc, Boot
    <2>2. state' \in [Slots -> States]
      BY <1>2 DEF Woken, States
    <2>3. procs' \in [Slots -> Proc]
      BY <1>1, <1>2, <2>1 DEF Emptied
    <2> QED
      BY <1>2, <2>2, <2>3 DEF Core, TypeOK
  <1>6. Boot \notin R
    BY <1>3 DEF Core, BootLives
  <1>7. BootLives' /\ CurrentKept'
    BY <1>2, <1>4, <1>6 DEF Core, BootLives, CurrentKept
  <1>8. TablesAgree'
    <2> SUFFICES ASSUME NEW s \in Slots
                 PROVE  /\ procs'[s].used <=> (s = Boot \/ (isUser[s] /\ state'[s] # "Unused"))
                        /\ procs'[s].alive <=> (procs'[s].used /\ state'[s] # "Exited")
      BY DEF TablesAgree
    <2>1. CASE s \in R
      BY <2>1, <1>3, <1>6 DEF EmptyProc
    <2>2. CASE s \notin R
      BY <2>2, <1>4 DEF Core, TablesAgree
    <2> QED
      BY <2>1, <2>2
  <1>9. IdsUnique' /\ IdsOrdered'
    <2>1. \A s \in Slots : procs'[s].used => procs'[s] = procs[s]
      BY <1>3, <1>4 DEF EmptyProc
    <2> QED
      BY <2>1, <1>4, <1>6 DEF Core, IdsUnique, IdsOrdered
  <1>10. WaitersLive'
    BY <1>3, <1>4 DEF Core, WaitersLive
  <1> QED
    BY <1>5, <1>7, <1>8, <1>9, <1>10 DEF Core

\* Writing a new process into a free slot keeps the invariant.
LEMMA PublishCore ==
  ASSUME Core, NEW s \in Slots, NEW user \in BOOLEAN, NEW p \in Proc,
         Publish(s, user, p),
         user => /\ p.used /\ p.alive /\ p.id = nextId + 1 /\ p.ppid < p.id,
         ~user => p = procs[s],
         wait' \in [Slots -> Wait],
         \A t \in Slots : wait'[t].at # "none" => wait[t].at # "none" \/ t = Boot
  PROVE  Core'
  <1> USE SlotsFacts
  <1>1. /\ state[s] = "Unused" /\ s # Boot /\ ~procs[s].used /\ ~procs[s].alive
        /\ s # current /\ wait[s].at = "none"
    <2>1. state[s] = "Unused"
      BY DEF Publish, IsFindSlot, FreeSlots
    <2> QED
      BY <2>1 DEF Core, BootLives, TablesAgree, CurrentKept, WaitersLive, TypeOK
  <1>2. /\ state' = [state EXCEPT ![s] = "Ready"] /\ isUser' = [isUser EXCEPT ![s] = user]
        /\ procs' = [procs EXCEPT ![s] = p] /\ nextId' = nextId + 1 /\ nextId < MaxId
        /\ UNCHANGED <<wake, current, ledger>>
    BY DEF Publish
  <1>3. TypeOK'
    BY <1>2, TasksAssumption DEF Core, TypeOK, States
  <1>4. /\ procs'[s] = p /\ state'[s] = "Ready" /\ isUser'[s] = user
        /\ \A t \in Slots \ {s} : /\ procs'[t] = procs[t] /\ state'[t] = state[t]
                                  /\ isUser'[t] = isUser[t]
    BY <1>2 DEF Core, TypeOK
  <1>5. nextId \in Nat /\ nextId' = nextId + 1
    BY <1>2, TasksAssumption DEF Core, TypeOK
  <1>6. \A t \in Slots \ {s} : procs[t].used => procs[t].id \in 0 .. nextId
    <2> SUFFICES ASSUME NEW t \in Slots \ {s}, procs[t].used
                 PROVE  procs[t].id \in 0 .. nextId
      OBVIOUS
    <2>1. CASE t = Boot
      BY <2>1, <1>5 DEF Core, IdsOrdered, Boot
    <2>2. CASE t # Boot
      <3>1. procs[t].id \in 1 .. nextId
        BY <2>2 DEF Core, IdsOrdered
      <3> QED
        BY <3>1, <1>5
    <2> QED
      BY <2>1, <2>2
  <1>7. TablesAgree'
    <2> SUFFICES ASSUME NEW t \in Slots
                 PROVE  /\ procs'[t].used <=> (t = Boot \/ (isUser'[t] /\ state'[t] # "Unused"))
                        /\ procs'[t].alive <=> (procs'[t].used /\ state'[t] # "Exited")
      BY DEF TablesAgree
    <2>1. CASE t = s
      BY <2>1, <1>1, <1>4
    <2>2. CASE t # s
      BY <2>2, <1>4 DEF Core, TablesAgree
    <2> QED
      BY <2>1, <2>2
  <1>8. IdsUnique' /\ IdsOrdered'
    <2>1. CASE user
      <3>1. \A t \in Slots \ {s} : procs'[t].used => procs'[t].id # procs'[s].id
        BY <2>1, <1>4, <1>5, <1>6
      <3>2. IdsUnique'
        BY <3>1, <1>4 DEF Core, IdsUnique
      <3>3. IdsOrdered'
        BY <2>1, <1>1, <1>4, <1>5 DEF Core, IdsOrdered
      <3> QED
        BY <3>2, <3>3
    <2>2. CASE ~user
      BY <2>2, <1>1, <1>4, <1>5 DEF Core, IdsUnique, IdsOrdered
    <2> QED
      BY <2>1, <2>2
  <1>9. BootLives' /\ CurrentKept'
    BY <1>1, <1>2, <1>4 DEF Core, BootLives, CurrentKept, TypeOK
  <1>10. WaitersLive'
    BY <1>1, <1>4, <1>9 DEF Core, WaitersLive, BootLives
  <1> QED
    BY <1>3, <1>7, <1>8, <1>9, <1>10 DEF Core

\* Every step keeps the invariant.
LEMMA NextCore == Core /\ [Next]_vars => Core'
  <1> SUFFICES ASSUME Core, [Next]_vars PROVE Core'
    OBVIOUS
  <1> USE SlotsFacts
  <1>0. NoWait \in Wait /\ NoWait.at = "none"
    BY TasksAssumption DEF NoWait, Wait, Boot
  <1>1. ASSUME NEW c \in Slots, SpawnUser(c) PROVE Core'
    <2>1. PICK s \in Slots : Publish(s, TRUE, LiveProc(nextId + 1, Boot, nextId + 1))
      BY <1>1 DEF SpawnUser
    <2>2. nextId + 1 \in Ids /\ Boot < nextId + 1
      BY <2>1, TasksAssumption DEF Publish, Core, TypeOK, Ids, Boot
    <2>3. LiveProc(nextId + 1, Boot, nextId + 1) \in Proc
      BY <2>2 DEF LiveProc, Proc
    <2>4. UNCHANGED wait
      BY <1>1 DEF SpawnUser
    <2> QED
      BY <2>1, <2>2, <2>3, <2>4, PublishCore DEF LiveProc, Core, TypeOK
  <1>2. ASSUME NEW c \in Slots, RunShell(c) PROVE Core'
    <2>1. PICK s \in Slots : Publish(s, TRUE, LiveProc(nextId + 1, Boot, nextId + 1))
      BY <1>2 DEF RunShell
    <2>2. nextId + 1 \in Ids /\ Boot < nextId + 1
      BY <2>1, TasksAssumption DEF Publish, Core, TypeOK, Ids, Boot
    <2>3. LiveProc(nextId + 1, Boot, nextId + 1) \in Proc
      BY <2>2 DEF LiveProc, Proc
    <2>4. ScanFor(nextId + 1, procs[c].pgid) \in Wait
      BY <2>2, TasksAssumption DEF ScanFor, Wait, Core, TypeOK, Proc, Boot, Ids
    <2>5. c = Boot /\ wait' = [wait EXCEPT ![c] = ScanFor(nextId + 1, procs[c].pgid)]
      BY <1>2 DEF RunShell
    <2>6. /\ wait' \in [Slots -> Wait]
          /\ \A t \in Slots : wait'[t].at # "none" => wait[t].at # "none" \/ t = Boot
      BY <2>4, <2>5 DEF Core, TypeOK
    <2> QED
      BY <2>1, <2>2, <2>3, <2>6, PublishCore DEF LiveProc
  <1>3. ASSUME NEW c \in Slots, SpawnKernel(c) PROVE Core'
    BY <1>3, PublishCore DEF SpawnKernel, Core, TypeOK
  <1>4. ASSUME NEW c \in Slots, Fork(c) PROVE Core'
    <2>1. PICK s \in Slots : Publish(s, TRUE, LiveProc(nextId + 1, procs[c].id, procs[c].pgid))
      BY <1>4 DEF Fork
    <2>2. nextId + 1 \in Ids /\ nextId \in Nat
      BY <2>1, TasksAssumption DEF Publish, Core, TypeOK, Ids
    <2>3. LiveProc(nextId + 1, procs[c].id, procs[c].pgid) \in Proc
      BY <2>2 DEF LiveProc, Proc, Core, TypeOK
    <2>4. procs[c].id < nextId + 1
      <3>1. c # Boot /\ procs[c].used
        BY <1>4 DEF Fork, Running, Core, BootLives, TablesAgree, CurrentKept
      <3>2. procs[c].id \in 1 .. nextId
        BY <3>1 DEF Core, IdsOrdered
      <3> QED
        BY <3>2, <2>2
    <2>5. UNCHANGED wait
      BY <1>4 DEF Fork
    <2> QED
      BY <2>1, <2>2, <2>3, <2>4, <2>5, PublishCore DEF LiveProc, Core, TypeOK
  <1>5. ASSUME NEW c \in Slots, Setpgid(c) PROVE Core'
    <2>1. PICK t \in Slots, g \in Ids : procs' = [procs EXCEPT ![t].pgid = g]
      BY <1>5 DEF Setpgid
    <2>2. \A s \in Slots : /\ procs'[s].used = procs[s].used /\ procs'[s].alive = procs[s].alive
                           /\ procs'[s].id = procs[s].id /\ procs'[s].ppid = procs[s].ppid
      BY <2>1 DEF Core, TypeOK, Proc
    <2>3. procs' \in [Slots -> Proc]
      BY <2>1 DEF Core, TypeOK, Proc
    <2>4. UNCHANGED <<state, wake, isUser, current, nextId, wait, ledger>>
      BY <1>5 DEF Setpgid
    <2> QED
      BY <2>2, <2>3, <2>4 DEF Core, TypeOK, TablesAgree, IdsUnique, CurrentKept, BootLives,
                              IdsOrdered, WaitersLive
  <1>6. ASSUME NEW c \in Slots, Exit(c) PROVE Core'
    <2>1. /\ c # Boot /\ c = current /\ state[c] # "Exited" /\ wait[c].at = "none"
          /\ state' = [state EXCEPT ![c] = "Exited"] /\ procs' = [procs EXCEPT ![c].alive = FALSE]
          /\ UNCHANGED <<wake, isUser, current, nextId, wait>>
      BY <1>6 DEF Exit, Running
    <2>2. \A s \in Slots : /\ procs'[s].used = procs[s].used /\ procs'[s].ppid = procs[s].ppid
                           /\ procs'[s].id = procs[s].id
                           /\ s # c => procs'[s].alive = procs[s].alive /\ state'[s] = state[s]
      BY <2>1 DEF Core, TypeOK, Proc
    <2>3. ~procs'[c].alive /\ state'[c] = "Exited" /\ state[c] # "Unused"
      BY <2>1 DEF Core, TypeOK, Proc, CurrentKept
    <2>4. TypeOK'
      <3>1. procs' \in [Slots -> Proc]
        <4>1. procs \in [Slots -> Proc] /\ [procs[c] EXCEPT !.alive = FALSE] \in Proc
          BY ProcUpdate DEF Core, TypeOK
        <4> QED
          BY <2>1, <4>1
      <3>2. state' \in [Slots -> States]
        BY <2>1 DEF Core, TypeOK, States
      <3>3. ledger' \in [Ids -> {"none", "owed", "paid", "void"}]
        BY <1>6 DEF Exit, Core, TypeOK
      <3> QED
        BY <2>1, <3>1, <3>2, <3>3 DEF Core, TypeOK
    <2>5. TablesAgree'
      BY <2>1, <2>2, <2>3 DEF Core, TablesAgree
    <2>6. IdsUnique' /\ IdsOrdered'
      BY <2>1, <2>2 DEF Core, IdsUnique, IdsOrdered
    <2>7. BootLives' /\ CurrentKept' /\ WaitersLive'
      BY <2>1, <2>2, <2>3 DEF Core, BootLives, CurrentKept, WaitersLive
    <2> QED
      BY <2>4, <2>5, <2>6, <2>7 DEF Core
  <1>7. ASSUME NEW c \in Slots, NEW ticks \in 0 .. MaxSleep,
               c = current, state[c] \in {"Ready", "Sleeping"},
               Schedule([state EXCEPT ![c] = "Sleeping"], [wake EXCEPT ![c] = ticks], procs),
               UNCHANGED <<isUser, nextId, wait, ledger>>
        PROVE  Core'
    <2> DEFINE st == [state EXCEPT ![c] = "Sleeping"]
               wk == [wake EXCEPT ![c] = ticks]
    <2>1. /\ st \in [Slots -> States] /\ wk \in [Slots -> 0 .. MaxSleep]
          /\ \A s \in Slots : \/ st[s] = state[s]
                              \/ st[s] = "Sleeping" /\ state[s] \in {"Ready", "Sleeping"}
      BY <1>7 DEF Core, TypeOK, States
    <2>2. Schedule(st, wk, procs)
      BY <1>7
    <2> HIDE DEF st, wk
    <2> QED
      BY <2>1, <2>2, <1>7, ScheduleCore
  <1>8. ASSUME NEW c \in Slots, NEW ticks \in 1 .. MaxSleep, Sleep(c, ticks) PROVE Core'
    <2>1. state[c] \in {"Ready", "Sleeping"} /\ ticks \in 0 .. MaxSleep
      BY <1>8, TasksAssumption DEF Sleep, Running, Core, TypeOK, States, CurrentKept
    <2> QED
      BY <1>7, <1>8, <2>1 DEF Sleep, Running
  <1>9. ASSUME NEW c \in Slots, Preempt(c) PROVE Core'
    BY <1>9, ScheduleCore DEF Preempt, Core, TypeOK
  <1>10. ASSUME NEW c \in Slots, NEW pid \in WaitPids, WaitBegin(c, pid) PROVE Core'
    <2>1. /\ Running(c) /\ isUser[c] /\ wait' = [wait EXCEPT ![c] = ScanFor(pid, procs[c].pgid)]
          /\ UNCHANGED <<state, wake, isUser, current, procs, nextId, ledger>>
      BY <1>10 DEF WaitBegin
    <2>2. ScanFor(pid, procs[c].pgid) \in Wait
      BY TasksAssumption DEF ScanFor, Wait, Core, TypeOK, Proc, Boot
    <2>3. TypeOK'
      BY <2>1, <2>2 DEF Core, TypeOK
    <2>4. WaitersLive'
      BY <2>1 DEF Core, WaitersLive, TypeOK, Running, CurrentKept, States
    <2> QED
      BY <2>1, <2>3, <2>4 DEF Core, TablesAgree, IdsUnique, CurrentKept, BootLives, IdsOrdered
  <1>11. ASSUME NEW c \in Slots, WaitFound(c) \/ WaitFail(c) PROVE Core'
    <2>1. /\ wait[c].at # "none"
          /\ UNCHANGED <<state, wake, isUser, current, procs, nextId, ledger>>
      BY <1>11 DEF WaitFound, WaitFail
    <2>2. PICK w \in Wait : wait' = [wait EXCEPT ![c] = w]
      <3>1. CASE WaitFail(c)
        BY <3>1, <1>0 DEF WaitFail
      <3>2. CASE WaitFound(c)
        <4>1. PICK s \in Slots :
                wait' = [wait EXCEPT ![c] = [at |-> "mark", pid |-> wait[c].pid,
                                             pgid |-> wait[c].pgid, slot |-> s,
                                             child |-> procs[s].id]]
          BY <3>2 DEF WaitFound, Zombies, Core, TypeOK
        <4>2. [at |-> "mark", pid |-> wait[c].pid, pgid |-> wait[c].pgid, slot |-> s,
               child |-> procs[s].id] \in Wait
          BY DEF Core, TypeOK, Wait, Proc
        <4> QED
          BY <4>1, <4>2
      <3> QED
        BY <1>11, <3>1, <3>2
    <2>3. TypeOK'
      BY <2>1, <2>2 DEF Core, TypeOK
    <2>4. WaitersLive'
      BY <2>1, <2>2 DEF Core, WaitersLive, TypeOK
    <2> QED
      BY <2>1, <2>3, <2>4 DEF Core, TablesAgree, IdsUnique, CurrentKept, BootLives, IdsOrdered
  <1>12. ASSUME NEW c \in Slots, WaitMark(c) PROVE Core'
    <2>1. /\ wait[c].at # "none" /\ procs' = [procs EXCEPT ![wait[c].slot].waited = TRUE]
          /\ wait' = [wait EXCEPT ![c] = NoWait]
          /\ ledger' = [ledger EXCEPT ![wait[c].child] = "paid"]
          /\ UNCHANGED <<state, wake, isUser, current, nextId>>
      BY <1>12 DEF WaitMark
    <2>2. \A s \in Slots : /\ procs'[s].used = procs[s].used /\ procs'[s].alive = procs[s].alive
                           /\ procs'[s].id = procs[s].id /\ procs'[s].ppid = procs[s].ppid
      BY <2>1 DEF Core, TypeOK, Proc
    <2>3. TypeOK'
      <3>1. procs' \in [Slots -> Proc]
        <4>1. procs \in [Slots -> Proc] /\ wait[c].slot \in Slots
          BY DEF Core, TypeOK, Wait
        <4>2. [procs[wait[c].slot] EXCEPT !.waited = TRUE] \in Proc
          BY <4>1, ProcUpdate
        <4> QED
          BY <2>1, <4>1, <4>2
      <3> QED
        BY <2>1, <3>1, <1>0 DEF Core, TypeOK
    <2>4. WaitersLive'
      BY <2>1, <1>0 DEF Core, WaitersLive, TypeOK
    <2> QED
      BY <2>1, <2>2, <2>3, <2>4 DEF Core, TablesAgree, IdsUnique, CurrentKept, BootLives,
                                    IdsOrdered
  <1>13. ASSUME NEW c \in Slots, WaitSleep(c) PROVE Core'
    <2>1. state[c] \in {"Ready", "Sleeping"} /\ c = current /\ 1 \in 0 .. MaxSleep
      BY <1>13, TasksAssumption DEF WaitSleep, Core, WaitersLive
    <2> QED
      BY <1>7, <1>13, <2>1 DEF WaitSleep
  <1>14. CASE Clock
    BY <1>14, TasksAssumption DEF Clock, Core, TypeOK, TablesAgree, IdsUnique, CurrentKept,
                                  BootLives, IdsOrdered, WaitersLive
  <1>15. CASE UNCHANGED vars
    BY <1>15 DEF vars, Core, TypeOK, TablesAgree, IdsUnique, CurrentKept, BootLives, IdsOrdered,
                 WaitersLive
  <1> QED
    BY <1>1, <1>2, <1>3, <1>4, <1>5, <1>6, <1>8, <1>9, <1>10, <1>11, <1>12, <1>13, <1>14, <1>15
    DEF Next, WaitStep

\* Whatever the sizes and whoever waits: the types hold, register, fork,
\* exit_with and reap_exited keep the two tables in step, slot_of_id is a
\* function, and the core is never on a slot that reap_exited has freed.
THEOREM CoreSafety == Spec => [](TypeOK /\ TablesAgree /\ IdsUnique /\ CurrentKept)
  <1>1. Core => TypeOK /\ TablesAgree /\ IdsUnique /\ CurrentKept
    BY DEF Core
  <1> QED
    BY InitCore, NextCore, <1>1, PTL DEF Spec

-----------------------------------------------------------------------------
(* Exit statuses, when the boot task does not wait. *)

\* A process whose status a parent can still collect.
Zombie(s) == procs[s].used /\ state[s] = "Exited" /\ ~procs[s].alive /\ ~procs[s].waited

\* The parent of s is in the table, alive, and is not the boot task.
HasParent(s) == /\ procs[s].ppid # Boot
                /\ \E t \in Slots : procs[t].used /\ procs[t].alive /\ procs[t].id = procs[s].ppid

\* An owed status sits in a zombie whose parent lives.
OwedHeld == \A i \in Ids : ledger[i] = "owed" =>
              \E s \in Slots : Zombie(s) /\ procs[s].id = i /\ HasParent(s)

\* Only zombies are marked waited, and only after wait4 returned their status.
WaitedDead == \A s \in Slots : procs[s].used /\ procs[s].waited =>
                /\ ~procs[s].alive /\ procs[s].id \in Ids /\ ledger[procs[s].id] = "paid"

\* The zombie that a scan found is still there when it is marked: nothing runs
\* between the two critical sections of a system call.
MarkFresh == \A c \in Slots : wait[c].at = "mark" =>
               /\ c = current /\ isUser[c] /\ Zombie(wait[c].slot)
               /\ procs[wait[c].slot].id = wait[c].child /\ wait[c].child \in Ids

Accounts == Core /\ wait[Boot].at = "none" /\ OwedHeld /\ WaitedDead /\ MarkFresh

\* A step that changes no process and lets nobody past the scan.
LEMMA SameTables ==
  ASSUME OwedHeld, WaitedDead, UNCHANGED <<state, procs, ledger>>
  PROVE  OwedHeld' /\ WaitedDead'
  BY DEF OwedHeld, WaitedDead, Zombie, HasParent

\* schedule() frees no zombie whose status is owed.
LEMMA ScheduleAccounts ==
  ASSUME Accounts, Core', NEW st \in [Slots -> States], NEW wk \in [Slots -> 0 .. MaxSleep],
         \A s \in Slots : \/ st[s] = state[s]
                          \/ st[s] = "Sleeping" /\ state[s] \in {"Ready", "Sleeping"},
         \A s \in Slots : wait[s].at # "mark",
         Schedule(st, wk, procs), UNCHANGED <<isUser, nextId, wait, ledger>>
  PROVE  Accounts'
  <1> USE SlotsFacts
  <1>1. st[current] # "Unused" /\ current \in Slots /\ procs \in [Slots -> Proc]
    BY DEF Accounts, Core, TypeOK, CurrentKept
  <1>2. PICK R \in SUBSET Slots :
          /\ \A s \in R :
                /\ s # current /\ st[s] = "Exited" /\ procs[s].used /\ ~procs[s].alive
                /\ \/ procs[s].waited \/ procs[s].ppid = Boot
                   \/ ~\E t \in Slots : /\ st[t] # "Exited" /\ procs[t].used
                                        /\ procs[t].id = procs[s].ppid
          /\ state' = Woken(st, wk, R) /\ procs' = Emptied(procs, R)
    BY <1>1, ScheduleEffect
  <1>3. \A s \in Slots \ R : /\ procs'[s] = procs[s]
                             /\ state[s] = "Exited" => state'[s] = "Exited"
    BY <1>2 DEF Woken, Emptied
  <1>4. \A s \in R : ~procs'[s].used
    BY <1>2 DEF Emptied, EmptyProc
  <1>5. WaitedDead'
    BY <1>3, <1>4 DEF Accounts, WaitedDead
  <1>6. OwedHeld'
    <2> SUFFICES ASSUME NEW i \in Ids, ledger[i] = "owed"
                 PROVE  \E s \in Slots : (Zombie(s) /\ procs[s].id = i /\ HasParent(s))'
      BY DEF OwedHeld
    <2>1. PICK s \in Slots : Zombie(s) /\ procs[s].id = i /\ HasParent(s)
      BY DEF Accounts, OwedHeld
    <2>2. PICK t \in Slots : procs[t].used /\ procs[t].alive /\ procs[t].id = procs[s].ppid
      BY <2>1 DEF HasParent
    <2>3. st[t] # "Exited"
      BY <2>2 DEF Accounts, Core, TablesAgree
    <2>4. s \notin R
      BY <1>2, <2>1, <2>2, <2>3 DEF Zombie, HasParent
    <2>5. t \notin R
      BY <1>2, <2>2
    <2> QED
      BY <1>3, <2>1, <2>2, <2>4, <2>5 DEF Zombie, HasParent
  <1>7. (wait[Boot].at = "none")' /\ MarkFresh'
    BY DEF Accounts, MarkFresh
  <1> QED
    BY <1>5, <1>6, <1>7 DEF Accounts

\* Publishing a process disturbs no other.
LEMMA PublishAccounts ==
  ASSUME Accounts, Core', NEW s \in Slots, NEW user, NEW p,
         Publish(s, user, p), UNCHANGED wait,
         p = procs[s] \/ ~p.waited
  PROVE  Accounts'
  <1> USE SlotsFacts
  <1>1. state[s] = "Unused" /\ s # current /\ ~procs[s].used
    <2>1. state[s] = "Unused"
      BY DEF Publish, IsFindSlot, FreeSlots
    <2> QED
      BY <2>1 DEF Accounts, Core, BootLives, TablesAgree, CurrentKept
  <1>2. /\ procs'[s] = p
        /\ \A t \in Slots \ {s} : procs'[t] = procs[t] /\ state'[t] = state[t]
                                  /\ isUser'[t] = isUser[t]
        /\ UNCHANGED <<current, ledger, wait>>
    BY DEF Publish, Accounts, Core, TypeOK
  <1>3. OwedHeld'
    <2> SUFFICES ASSUME NEW i \in Ids, ledger[i] = "owed"
                 PROVE  \E t \in Slots : (Zombie(t) /\ procs[t].id = i /\ HasParent(t))'
      BY <1>2 DEF OwedHeld
    <2>1. PICK t \in Slots : Zombie(t) /\ procs[t].id = i /\ HasParent(t)
      BY DEF Accounts, OwedHeld
    <2>2. PICK u \in Slots : procs[u].used /\ procs[u].alive /\ procs[u].id = procs[t].ppid
      BY <2>1 DEF HasParent
    <2>3. t # s /\ u # s
      BY <1>1, <2>1, <2>2 DEF Zombie
    <2>4. procs'[t] = procs[t] /\ procs'[u] = procs[u] /\ state'[t] = state[t]
      BY <1>2, <2>3
    <2>5. Zombie(t)' /\ procs'[t].id = i
      BY <2>1, <2>4 DEF Zombie
    <2>6. HasParent(t)'
      BY <2>1, <2>2, <2>4 DEF HasParent
    <2> QED
      BY <2>5, <2>6
  <1>4. WaitedDead'
    BY <1>1, <1>2 DEF Accounts, WaitedDead
  <1>5. MarkFresh'
    <2> SUFFICES ASSUME NEW c \in Slots, wait[c].at = "mark"
                 PROVE  /\ c = current /\ isUser'[c] /\ Zombie(wait[c].slot)'
                        /\ procs'[wait[c].slot].id = wait[c].child /\ wait[c].child \in Ids
      BY <1>2 DEF MarkFresh
    <2>1. /\ c = current /\ isUser[c] /\ Zombie(wait[c].slot)
          /\ procs[wait[c].slot].id = wait[c].child /\ wait[c].child \in Ids
      BY DEF Accounts, MarkFresh
    <2>2. wait[c].slot \in Slots
      BY DEF Accounts, Core, TypeOK, Wait
    <2> QED
      BY <1>1, <1>2, <2>1, <2>2 DEF Zombie
  <1>6. (wait[Boot].at = "none")'
    BY <1>2 DEF Accounts
  <1> QED
    BY <1>3, <1>4, <1>5, <1>6 DEF Accounts

\* Every step keeps the accounts.
LEMMA NextAccounts == ASSUME ~BootWaits PROVE Accounts /\ [Next]_vars => Accounts'
  <1> SUFFICES ASSUME Accounts, [Next]_vars PROVE Accounts'
    OBVIOUS
  <1> USE SlotsFacts
  <1>0. Core'
    BY NextCore DEF Accounts
  <1>1. ASSUME NEW c \in Slots, SpawnUser(c) \/ Fork(c) PROVE Accounts'
    <2>1. /\ UNCHANGED wait
          /\ \E s \in Slots : \E id, ppid, pgid : Publish(s, TRUE, LiveProc(id, ppid, pgid))
      BY <1>1 DEF SpawnUser, Fork
    <2>2. \A id, ppid, pgid : ~LiveProc(id, ppid, pgid).waited
      BY DEF LiveProc
    <2> QED
      BY <1>0, <2>1, <2>2, PublishAccounts
  <1>2. ASSUME NEW c \in Slots, RunShell(c) PROVE Accounts'
    BY <1>2 DEF RunShell
  <1>3. ASSUME NEW c \in Slots, SpawnKernel(c) PROVE Accounts'
    BY <1>0, <1>3, PublishAccounts DEF SpawnKernel
  <1>5. ASSUME NEW c \in Slots, Setpgid(c) PROVE Accounts'
    <2>1. PICK t \in Slots, g \in Ids : procs' = [procs EXCEPT ![t].pgid = g]
      BY <1>5 DEF Setpgid
    <2>2. \A s \in Slots : /\ procs'[s].used = procs[s].used /\ procs'[s].alive = procs[s].alive
                           /\ procs'[s].id = procs[s].id /\ procs'[s].ppid = procs[s].ppid
                           /\ procs'[s].waited = procs[s].waited
      BY <2>1 DEF Accounts, Core, TypeOK, Proc
    <2>3. UNCHANGED <<state, isUser, current, wait, ledger>>
      BY <1>5 DEF Setpgid
    <2>4. \A s \in Slots : (Zombie(s) => Zombie(s)') /\ (HasParent(s) => HasParent(s)')
      BY <2>2, <2>3 DEF Zombie, HasParent
    <2>5. OwedHeld' /\ WaitedDead'
      BY <2>2, <2>3, <2>4 DEF Accounts, OwedHeld, WaitedDead
    <2>6. MarkFresh'
      BY <1>5, <2>3 DEF Accounts, MarkFresh, Setpgid, Running
    <2> QED
      BY <1>0, <2>3, <2>5, <2>6 DEF Accounts
  <1>6. ASSUME NEW c \in Slots, Exit(c) PROVE Accounts'
    <2>1. /\ c # Boot /\ c = current /\ state[c] # "Exited" /\ wait[c].at = "none"
          /\ state' = [state EXCEPT ![c] = "Exited"] /\ procs' = [procs EXCEPT ![c].alive = FALSE]
          /\ UNCHANGED <<isUser, current, wait>>
      BY <1>6 DEF Exit, Running
    <2>2. \A s \in Slots : /\ procs'[s].used = procs[s].used /\ procs'[s].ppid = procs[s].ppid
                           /\ procs'[s].id = procs[s].id /\ procs'[s].waited = procs[s].waited
                           /\ s # c => procs'[s].alive = procs[s].alive /\ state'[s] = state[s]
      BY <2>1 DEF Accounts, Core, TypeOK, Proc
    <2>3. ~procs'[c].alive /\ state'[c] = "Exited" /\ (procs[c].used => procs[c].alive)
      BY <2>1 DEF Accounts, Core, TypeOK, Proc, TablesAgree
    <2>4. \A s \in Slots : Zombie(s) => s # c /\ Zombie(s)'
      BY <2>1, <2>2 DEF Zombie
    <2>5. \A s \in Slots : procs[s].used /\ s # c /\ procs[c].used => procs[s].id # procs[c].id
      BY DEF Accounts, Core, IdsUnique
    <2>6. \A i \in Ids :
            ledger'[i] = IF procs[c].used /\ i = procs[c].id
                         THEN IF Owed(c) THEN "owed" ELSE "void"
                         ELSE IF ledger[i] = "owed" /\ \E s \in Slots :
                                     /\ procs[s].used /\ procs[s].id = i
                                     /\ procs[c].used /\ procs[s].ppid = procs[c].id
                         THEN "void" ELSE ledger[i]
      BY <1>6 DEF Exit
    <2>7. WaitedDead'
      <3> SUFFICES ASSUME NEW s \in Slots, procs'[s].used, procs'[s].waited
                   PROVE  /\ ~procs'[s].alive /\ procs'[s].id \in Ids
                          /\ ledger'[procs'[s].id] = "paid"
        BY DEF WaitedDead
      <3>1. /\ procs[s].used /\ ~procs[s].alive /\ procs[s].id \in Ids
            /\ ledger[procs[s].id] = "paid"
        BY <2>2 DEF Accounts, WaitedDead
      <3>2. s # c
        BY <2>3, <3>1
      <3>3. ~(procs[c].used /\ procs[s].id = procs[c].id)
        BY <2>5, <3>1, <3>2
      <3>4. ledger'[procs[s].id] = "paid"
        BY <2>6, <3>1, <3>3
      <3> QED
        BY <2>2, <3>1, <3>2, <3>4
    <2>8. OwedHeld'
      <3> SUFFICES ASSUME NEW i \in Ids, ledger'[i] = "owed"
                   PROVE  \E s \in Slots : (Zombie(s) /\ procs[s].id = i /\ HasParent(s))'
        BY DEF OwedHeld
      <3>1. CASE procs[c].used /\ i = procs[c].id
        <4>1. Owed(c)
          BY <2>6, <3>1
        <4>2. PICK t \in Slots \ {Boot} : /\ procs[t].used /\ procs[t].alive
                                          /\ procs[t].id = procs[c].ppid
          BY <4>1 DEF Owed
        <4>3. procs[t].id # Boot /\ procs[c].ppid # procs[c].id
          <5>1. procs[t].id \in 1 .. nextId /\ procs[c].ppid < procs[c].id
            BY <2>1, <3>1, <4>2 DEF Accounts, Core, IdsOrdered
          <5>2. procs[c].ppid \in Int /\ procs[c].id \in Int
            BY TasksAssumption DEF Accounts, Core, TypeOK, Proc, Boot, Ids
          <5> QED
            BY <5>1, <5>2 DEF Boot
        <4>4. t # c
          BY <4>2, <4>3
        <4>5. HasParent(c)'
          BY <2>2, <4>2, <4>3, <4>4 DEF HasParent
        <4>6. ~procs[c].waited
          BY <2>3, <3>1 DEF Accounts, WaitedDead
        <4>7. Zombie(c)'
          BY <2>2, <2>3, <3>1, <4>6 DEF Zombie
        <4> QED
          BY <2>2, <3>1, <4>5, <4>7
      <3>2. CASE ~(procs[c].used /\ i = procs[c].id)
        <4>1. /\ ledger[i] = "owed"
              /\ ~\E s \in Slots : /\ procs[s].used /\ procs[s].id = i
                                   /\ procs[c].used /\ procs[s].ppid = procs[c].id
          BY <2>6, <3>2
        <4>2. PICK s \in Slots : Zombie(s) /\ procs[s].id = i /\ HasParent(s)
          BY <4>1 DEF Accounts, OwedHeld
        <4>3. PICK t \in Slots : procs[t].used /\ procs[t].alive /\ procs[t].id = procs[s].ppid
          BY <4>2 DEF HasParent
        <4>4. t # c
          BY <4>1, <4>2, <4>3 DEF Zombie
        <4>5. HasParent(s)'
          BY <2>2, <4>2, <4>3, <4>4 DEF HasParent
        <4> QED
          BY <2>2, <2>4, <4>2, <4>5
      <3> QED
        BY <3>1, <3>2
    <2>9. MarkFresh'
      BY <2>1, <2>2 DEF Accounts, MarkFresh, Zombie, Core, TypeOK, Wait
    <2> QED
      BY <1>0, <2>1, <2>7, <2>8, <2>9 DEF Accounts
  <1>7. ASSUME NEW c \in Slots, NEW ticks \in 0 .. MaxSleep,
               c = current, state[c] \in {"Ready", "Sleeping"}, wait[c].at # "mark",
               Schedule([state EXCEPT ![c] = "Sleeping"], [wake EXCEPT ![c] = ticks], procs),
               UNCHANGED <<isUser, nextId, wait, ledger>>
        PROVE  Accounts'
    <2> DEFINE st == [state EXCEPT ![c] = "Sleeping"]
               wk == [wake EXCEPT ![c] = ticks]
    <2>1. /\ st \in [Slots -> States] /\ wk \in [Slots -> 0 .. MaxSleep]
          /\ \A s \in Slots : \/ st[s] = state[s]
                              \/ st[s] = "Sleeping" /\ state[s] \in {"Ready", "Sleeping"}
      BY <1>7 DEF Accounts, Core, TypeOK, States
    <2>2. Schedule(st, wk, procs) /\ \A s \in Slots : wait[s].at # "mark"
      BY <1>7 DEF Accounts, MarkFresh
    <2> HIDE DEF st, wk
    <2> QED
      BY <1>0, <2>1, <2>2, <1>7, ScheduleAccounts
  <1>8. ASSUME NEW c \in Slots, NEW ticks \in 1 .. MaxSleep, Sleep(c, ticks) PROVE Accounts'
    <2>1. state[c] \in {"Ready", "Sleeping"} /\ ticks \in 0 .. MaxSleep /\ wait[c].at # "mark"
      BY <1>8, TasksAssumption DEF Sleep, Running, Accounts, Core, TypeOK, States, CurrentKept
    <2> QED
      BY <1>7, <1>8, <2>1 DEF Sleep, Running
  <1>9. ASSUME NEW c \in Slots, Preempt(c) PROVE Accounts'
    <2>1. \A s \in Slots : wait[s].at # "mark"
      BY <1>9 DEF Preempt, Preemptible, Accounts, MarkFresh
    <2> QED
      BY <1>0, <1>9, <2>1, ScheduleAccounts DEF Preempt, Accounts, Core, TypeOK
  <1>10. ASSUME NEW c \in Slots, UNCHANGED <<state, isUser, current, procs, ledger>>,
                NEW w, wait' = [wait EXCEPT ![c] = w], w.at # "mark", c # Boot
         PROVE  Accounts'
    <2>1. \A s \in Slots : wait'[s].at = "mark" => wait'[s] = wait[s]
      BY <1>10 DEF Accounts, Core, TypeOK
    <2>2. MarkFresh'
      BY <1>10, <2>1 DEF Accounts, MarkFresh, Zombie
    <2>3. wait'[Boot].at = "none"
      BY <1>10 DEF Accounts, Core, TypeOK
    <2> QED
      BY <1>0, <1>10, <2>2, <2>3, SameTables DEF Accounts
  <1>11. ASSUME NEW c \in Slots, NEW pid \in WaitPids, WaitBegin(c, pid) PROVE Accounts'
    <2>1. c # Boot
      BY <1>11 DEF WaitBegin, Accounts, Core, BootLives
    <2>2. ScanFor(pid, procs[c].pgid).at # "mark"
      BY DEF ScanFor
    <2> QED
      BY <1>10, <1>11, <2>1, <2>2 DEF WaitBegin
  <1>12. ASSUME NEW c \in Slots, WaitFail(c) PROVE Accounts'
    <2>1. c # Boot /\ NoWait.at # "mark"
      BY <1>12 DEF WaitFail, Accounts, NoWait
    <2> QED
      BY <1>10, <1>12, <2>1 DEF WaitFail
  <1>13. ASSUME NEW c \in Slots, WaitFound(c) PROVE Accounts'
    <2>1. PICK s \in Zombies(c) :
            wait' = [wait EXCEPT ![c] = [at |-> "mark", pid |-> wait[c].pid,
                                         pgid |-> wait[c].pgid, slot |-> s,
                                         child |-> procs[s].id]]
      BY <1>13 DEF WaitFound, Accounts, Core, TypeOK
    <2>2. /\ c = current /\ wait[c].at = "scan" /\ c # Boot
          /\ UNCHANGED <<state, isUser, current, procs, ledger>>
      BY <1>13 DEF WaitFound, Accounts
    <2>3. s \in Slots /\ Zombie(s) /\ s # Boot /\ isUser[c]
      BY <2>1, <2>2 DEF Zombies, Zombie, Accounts, Core, TablesAgree, BootLives, WaitersLive
    <2>4. procs[s].id \in Ids
      <3>1. procs[s].id \in 1 .. nextId /\ nextId \in 0 .. MaxId
        BY <2>3 DEF Accounts, Core, TypeOK, IdsOrdered, Zombie
      <3> QED
        BY <3>1, TasksAssumption DEF Ids
    <2>5. /\ wait'[c].at = "mark" /\ wait'[c].slot = s /\ wait'[c].child = procs[s].id
          /\ \A t \in Slots \ {c} : wait'[t] = wait[t]
      BY <2>1 DEF Accounts, Core, TypeOK
    <2>6. MarkFresh'
      <3>1. \A t \in Slots \ {c} : wait'[t].at # "mark"
        BY <2>2, <2>5 DEF Accounts, MarkFresh
      <3>2. Zombie(s)' /\ procs'[s].id = procs[s].id
        BY <2>2, <2>3 DEF Zombie
      <3> QED
        BY <2>2, <2>3, <2>4, <2>5, <3>1, <3>2 DEF MarkFresh, Zombie
    <2> QED
      BY <1>0, <2>2, <2>5, <2>6, SameTables DEF Accounts
  <1>14. ASSUME NEW c \in Slots, WaitMark(c) PROVE Accounts'
    <2> DEFINE z == wait[c].slot
    <2>1. /\ c = current /\ isUser[c] /\ Zombie(z) /\ procs[z].id = wait[c].child
          /\ wait[c].child \in Ids /\ z \in Slots
      BY <1>14 DEF WaitMark, Accounts, MarkFresh, Core, TypeOK, Wait
    <2>2. /\ procs' = [procs EXCEPT ![z].waited = TRUE] /\ wait' = [wait EXCEPT ![c] = NoWait]
          /\ ledger' = [ledger EXCEPT ![procs[z].id] = "paid"]
          /\ UNCHANGED <<state, isUser, current>>
      BY <1>14, <2>1 DEF WaitMark
    <2> HIDE DEF z
    <2>3. \A s \in Slots : /\ procs'[s].used = procs[s].used /\ procs'[s].alive = procs[s].alive
                           /\ procs'[s].id = procs[s].id /\ procs'[s].ppid = procs[s].ppid
                           /\ s # z => procs'[s].waited = procs[s].waited
      BY <2>2 DEF Accounts, Core, TypeOK, Proc
    <2>4. ledger'[procs[z].id] = "paid" /\ \A i \in Ids \ {procs[z].id} : ledger'[i] = ledger[i]
      BY <2>1, <2>2 DEF Accounts, Core, TypeOK
    <2>5. \A s \in Slots : HasParent(s) => HasParent(s)'
      BY <2>3 DEF HasParent
    <2>6. \A s \in Slots \ {z} : Zombie(s) => Zombie(s)'
      BY <2>2, <2>3 DEF Zombie
    <2>7. OwedHeld'
      <3> SUFFICES ASSUME NEW i \in Ids, ledger'[i] = "owed"
                   PROVE  \E s \in Slots : (Zombie(s) /\ procs[s].id = i /\ HasParent(s))'
        BY DEF OwedHeld
      <3>1. i # procs[z].id /\ ledger[i] = "owed"
        BY <2>4
      <3>2. PICK s \in Slots : Zombie(s) /\ procs[s].id = i /\ HasParent(s)
        BY <3>1 DEF Accounts, OwedHeld
      <3> QED
        BY <2>3, <2>5, <2>6, <3>1, <3>2
    <2>8. WaitedDead'
      <3> SUFFICES ASSUME NEW s \in Slots, procs'[s].used, procs'[s].waited
                   PROVE  /\ ~procs'[s].alive /\ procs'[s].id \in Ids
                          /\ ledger'[procs'[s].id] = "paid"
        BY DEF WaitedDead
      <3>1. CASE s = z
        BY <2>1, <2>3, <2>4, <3>1 DEF Zombie
      <3>2. CASE s # z
        BY <2>3, <2>4, <3>2 DEF Accounts, WaitedDead
      <3> QED
        BY <3>1, <3>2
    <2>9. MarkFresh' /\ wait'[Boot].at = "none"
      BY <2>1, <2>2 DEF Accounts, MarkFresh, Core, TypeOK, NoWait
    <2> QED
      BY <1>0, <2>7, <2>8, <2>9 DEF Accounts
  <1>15. ASSUME NEW c \in Slots, WaitSleep(c) PROVE Accounts'
    <2>1. /\ state[c] \in {"Ready", "Sleeping"} /\ c = current /\ 1 \in 0 .. MaxSleep
          /\ wait[c].at # "mark"
      BY <1>15, TasksAssumption DEF WaitSleep, Accounts, Core, WaitersLive
    <2> QED
      BY <1>7, <1>15, <2>1 DEF WaitSleep
  <1>16. CASE Clock \/ UNCHANGED vars
    <2>1. UNCHANGED <<state, isUser, current, procs, wait, ledger>>
      BY <1>16 DEF Clock, vars
    <2> QED
      BY <1>0, <2>1, SameTables DEF Accounts, MarkFresh, Zombie
  <1> QED
    BY <1>1, <1>2, <1>3, <1>5, <1>6, <1>8, <1>9, <1>11, <1>12, <1>13, <1>14, <1>15, <1>16
    DEF Next, WaitStep

\* "The slot survives until wait4 consumed the status (or the parent died)",
\* and a slot marked waited is one whose status wait4 returned: true for every
\* number of tasks as long as the boot task does not call wait_for.
THEOREM StatusSafety == ASSUME ~BootWaits PROVE Spec => [](StatusKept /\ WaitedPaid)
  <1>1. Init => Accounts
    <2> SUFFICES ASSUME Init PROVE Accounts
      OBVIOUS
    <2>1. \A s \in Slots : ~procs[s].waited /\ wait[s].at = "none"
      BY DEF Init, EmptyProc, LiveProc, NoWait
    <2> QED
      BY <2>1, InitCore, SlotsFacts DEF Init, Accounts, OwedHeld, WaitedDead, MarkFresh
  <1>2. Accounts => StatusKept /\ WaitedPaid
    BY DEF Accounts, OwedHeld, WaitedDead, Zombie, StatusKept, WaitedPaid
  <1> QED
    BY <1>1, <1>2, NextAccounts, PTL DEF Spec

=============================================================================
