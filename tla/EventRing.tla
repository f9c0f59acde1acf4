----------------------------- MODULE EventRing -----------------------------
(***************************************************************************)
(* The event rings (kernel-core/src/input_ring.rs; graphics/event.rs has   *)
(* the same code) under the interrupt-safe lock of kernel-core/src/arch.rs, *)
(* step by step.  On the single CPU a task pops, and pushes too (the boot  *)
(* self-test); an interrupt handler that pushes can come between any two   *)
(* of its steps while interrupts are enabled.                              *)
(***************************************************************************)
EXTENDS Naturals, Sequences, FiniteSets

CONSTANTS Capacity,   \* RING_CAPACITY
          MaxEvents   \* bound on the events pushed

ASSUME RingAssumption == Capacity \in Nat \ {0} /\ MaxEvents \in Nat

Contexts == {"task", "irq"}
Events == 1 .. MaxEvents

VARIABLES events, head, tail, len,  \* the Ring
          DROPPED,
          LOCK,                     \* the AtomicBool
          enabled,                  \* the CPU's interrupt flag
          flags,                    \* IrqLock.flags of each context
          pc, op,                   \* what each context does
          made,                     \* events pushed so far; event n is the n-th
          popped,                   \* what the last pop returned
          entered                   \* history: the flag when the context called

ring == <<events, head, tail, len, DROPPED, made, popped>>
vars == <<ring, LOCK, enabled, flags, pc, op, entered>>

None == 0  \* no event; events are numbered from 1

Init ==
  /\ events = [i \in 0 .. Capacity - 1 |-> None] /\ head = 0 /\ tail = 0 /\ len = 0
  /\ DROPPED = 0 /\ LOCK = FALSE /\ enabled = TRUE
  /\ flags = [c \in Contexts |-> FALSE] /\ entered = [c \in Contexts |-> FALSE]
  /\ pc = [c \in Contexts |-> "idle"] /\ op = [c \in Contexts |-> "pop"]
  /\ made = 0 /\ popped = None

\* The context the CPU runs: a handler runs to its end.
Runs(c) == c = "irq" \/ pc["irq"] = "idle"

Goto(c, at) == pc' = [pc EXCEPT ![c] = at]

Call(c, o) ==
  /\ pc[c] = "idle" /\ Runs(c)
  /\ op' = [op EXCEPT ![c] = o] /\ Goto(c, "save")

\* The task's code before the call may have disabled interrupts itself.
TaskCall(o, on) ==
  /\ Call("task", o)
  /\ enabled' = on /\ entered' = [entered EXCEPT !["task"] = on]
  /\ UNCHANGED <<ring, LOCK, flags>>

\* An interrupt: the CPU clears the flag and enters the handler.
Interrupt ==
  /\ enabled /\ Call("irq", "push")
  /\ enabled' = FALSE /\ entered' = [entered EXCEPT !["irq"] = FALSE]
  /\ UNCHANGED <<ring, LOCK, flags>>

\* Mutant: the lock is taken with interrupts as they are.
IrqSaveOnly(c) ==
  /\ pc[c] = "save" /\ Runs(c)
  /\ flags' = [flags EXCEPT ![c] = enabled]
  /\ Goto(c, "swap") /\ UNCHANGED <<ring, LOCK, enabled, op, entered>>

IrqSave(c) ==
  /\ pc[c] = "save" /\ Runs(c)
  /\ flags' = [flags EXCEPT ![c] = enabled] /\ enabled' = FALSE
  /\ Goto(c, "swap") /\ UNCHANGED <<ring, LOCK, op, entered>>

\* lock.swap(true): one turn of the spin loop.
Swap(c) ==
  /\ pc[c] = "swap" /\ Runs(c)
  /\ LOCK' = TRUE /\ Goto(c, IF LOCK THEN "swap" ELSE "body")
  /\ UNCHANGED <<ring, enabled, flags, op, entered>>

\* Mutant: a full ring overwrites its newest slot and keeps its tail.
PushKeepsTail ==
  /\ made' = made + 1 /\ events' = [events EXCEPT ![head] = made + 1]
  /\ head' = (head + 1) % Capacity
  /\ \/ len = Capacity /\ DROPPED' = DROPPED + 1 /\ UNCHANGED <<tail, len>>
     \/ len < Capacity /\ len' = len + 1 /\ UNCHANGED <<tail, DROPPED>>
  /\ UNCHANGED popped

Push ==
  /\ made' = made + 1 /\ events' = [events EXCEPT ![head] = made + 1]
  /\ head' = (head + 1) % Capacity
  /\ \/ len = Capacity /\ tail' = (tail + 1) % Capacity /\ DROPPED' = DROPPED + 1 /\ UNCHANGED len
     \/ len < Capacity /\ len' = len + 1 /\ UNCHANGED <<tail, DROPPED>>
  /\ UNCHANGED popped

Pop ==
  /\ \/ len = 0 /\ popped' = None /\ UNCHANGED <<tail, len>>
     \/ /\ len > 0 /\ popped' = events[tail]
        /\ tail' = (tail + 1) % Capacity /\ len' = len - 1
  /\ UNCHANGED <<events, head, DROPPED, made>>

Body(c) ==
  /\ pc[c] = "body" /\ Runs(c)
  /\ (op[c] = "push" /\ Push) \/ (op[c] = "pop" /\ Pop)
  /\ Goto(c, "unlock") /\ UNCHANGED <<LOCK, enabled, flags, op, entered>>

\* Mutant: the guard is forgotten without its Drop.
UnlockForgets(c) ==
  /\ pc[c] = "unlock" /\ Runs(c)
  /\ Goto(c, "restore") /\ UNCHANGED <<ring, LOCK, enabled, flags, op, entered>>

\* Drop: the lock first, then the flag.
Unlock(c) ==
  /\ pc[c] = "unlock" /\ Runs(c)
  /\ LOCK' = FALSE /\ Goto(c, "restore")
  /\ UNCHANGED <<ring, enabled, flags, op, entered>>

\* Mutant: the guard enables interrupts whatever they were.
RestoreOn(c) ==
  /\ pc[c] = "restore" /\ Runs(c)
  /\ enabled' = TRUE /\ Goto(c, IF c = "irq" THEN "iret" ELSE "idle")
  /\ UNCHANGED <<ring, LOCK, flags, op, entered>>

IrqRestore(c) ==
  /\ pc[c] = "restore" /\ Runs(c)
  /\ enabled' = flags[c] /\ Goto(c, IF c = "irq" THEN "iret" ELSE "idle")
  /\ UNCHANGED <<ring, LOCK, flags, op, entered>>

\* iret brings back the interrupted flag, which was set.
Iret ==
  /\ pc["irq"] = "iret" /\ Goto("irq", "idle") /\ enabled' = TRUE
  /\ UNCHANGED <<ring, LOCK, flags, op, entered>>

Work(c) == IrqSave(c) \/ Swap(c) \/ Body(c) \/ Unlock(c) \/ IrqRestore(c)

\* The bound on pushes: a call that would exceed it is not made.
InFlight == {c \in Contexts : op[c] = "push" /\ pc[c] \in {"save", "swap", "body"}}
MayPush == made + Cardinality(InFlight) < MaxEvents

Next ==
  \/ \E o \in {"push", "pop"}, on \in BOOLEAN : (o = "push" => MayPush) /\ TaskCall(o, on)
  \/ MayPush /\ Interrupt
  \/ \E c \in Contexts : Work(c)
  \/ Iret

Spec == Init /\ [][Next]_vars

\* The CPU goes on with what it runs.
FairSpec == Spec /\ WF_vars(Work("task")) /\ WF_vars(Work("irq") \/ Iret)

-----------------------------------------------------------------------------

\* Type invariant; the indices stay inside the ring and count its events.
TypeOK ==
  /\ head \in 0 .. Capacity - 1 /\ tail \in 0 .. Capacity - 1 /\ len \in 0 .. Capacity
  /\ events \in [0 .. Capacity - 1 -> Nat]
  /\ DROPPED \in Nat /\ made \in Nat /\ popped \in Nat
  /\ LOCK \in BOOLEAN /\ enabled \in BOOLEAN
  /\ flags \in [Contexts -> BOOLEAN] /\ entered \in [Contexts -> BOOLEAN]
  /\ op \in [Contexts -> {"push", "pop"}]
  /\ pc \in [Contexts -> {"idle", "save", "swap", "body", "unlock", "restore", "iret"}]

\* "an IRQ handler needing the same lock cannot preempt a holder" (arch.rs:75): a
\* context that runs never finds the lock taken, so the swap loop never turns, and
\* whoever holds the lock is the only one inside.
NeverSpins ==
  /\ \A c \in Contexts : pc[c] = "swap" /\ Runs(c) => ~LOCK
  /\ ~(pc["task"] \in {"body", "unlock"} /\ pc["irq"] \in {"body", "unlock"})

\* A call leaves the interrupt flag as its caller had it, through any interrupts
\* that came between: a caller that had disabled interrupts still has.
FlagRestored ==
  [][\A c \in Contexts : pc[c] = "restore" /\ pc'[c] # "restore" => enabled' = entered[c]]_vars

Queue == INSTANCE DropQueue WITH
  queue <- [i \in 1 .. len |-> events[(tail + i - 1) % Capacity]], dropped <- DROPPED

\* The ring implements DropQueue: events come out in the order they went in, only
\* the oldest are dropped, and each drop is counted.
IsQueue == Queue!Spec

\* Every call returns, in the task and in the handler.
Returns == \A c \in Contexts : pc[c] # "idle" ~> pc[c] = "idle"

=============================================================================
