-------------------------- MODULE EventRingProofs --------------------------
(***************************************************************************)
(* Proofs about the interrupt-safe lock, for every ring capacity and any   *)
(* number of events: the lock is never contended, and a call leaves the    *)
(* interrupt flag as it found it.                                          *)
(***************************************************************************)
EXTENDS EventRing, TLAPS

Held == {"body", "unlock"}
Closed == {"swap", "body", "unlock", "restore"}

\* The types of the variables the lock is about.
LockTypes ==
  /\ LOCK \in BOOLEAN /\ enabled \in BOOLEAN
  /\ flags \in [Contexts -> BOOLEAN] /\ entered \in [Contexts -> BOOLEAN]
  /\ pc \in [Contexts -> {"idle", "save", "swap", "body", "unlock", "restore", "iret"}]

\* The inductive invariant.  The lock is taken exactly while a context is inside;
\* interrupts are off from irq_save to irq_restore and in the handler; a handler
\* therefore finds the task outside that window; and the saved flag is the caller's.
LockInv ==
  /\ LockTypes
  /\ LOCK <=> \E c \in Contexts : pc[c] \in Held
  /\ \A c \in Contexts : pc[c] \in Closed => ~enabled /\ flags[c] = entered[c]
  /\ pc["irq"] # "idle" => ~enabled /\ ~entered["irq"] /\ pc["task"] \in {"idle", "save"}
  /\ pc["task"] # "iret"
  /\ pc["task"] = "save" /\ pc["irq"] = "idle" => enabled = entered["task"]
  /\ pc["task"] = "save" /\ pc["irq"] # "idle" => entered["task"]

LEMMA LockInit == Init => LockInv
PROOF
  <1> QED BY DEF Init, LockInv, LockTypes, Contexts, Held, Closed

\* One context's steps, for the task and for the handler.
LEMMA LockWork ==
  ASSUME LockInv, NEW c \in Contexts, Work(c)
  PROVE  LockInv'
PROOF
  <1>1. CASE IrqSave(c)
    BY <1>1 DEF IrqSave, LockInv, LockTypes, Contexts, Held, Closed, Goto, Runs
  <1>2. CASE Swap(c)
    BY <1>2 DEF Swap, LockInv, LockTypes, Contexts, Held, Closed, Goto, Runs
  <1>3. CASE Body(c)
    BY <1>3 DEF Body, LockInv, LockTypes, Contexts, Held, Closed, Goto, Runs
  <1>4. CASE Unlock(c)
    BY <1>4 DEF Unlock, LockInv, LockTypes, Contexts, Held, Closed, Goto, Runs
  <1>5. CASE IrqRestore(c)
    BY <1>5 DEF IrqRestore, LockInv, LockTypes, Contexts, Held, Closed, Goto, Runs
  <1> QED BY <1>1, <1>2, <1>3, <1>4, <1>5 DEF Work

LEMMA LockStep == LockInv /\ [Next]_vars => LockInv'
PROOF
  <1> SUFFICES ASSUME LockInv, [Next]_vars PROVE LockInv'
    OBVIOUS
  <1>1. ASSUME NEW o, NEW on \in BOOLEAN, TaskCall(o, on) PROVE LockInv'
    BY <1>1 DEF TaskCall, Call, LockInv, LockTypes, Contexts, Held, Closed, Goto, Runs
  <1>2. CASE Interrupt
    BY <1>2 DEF Interrupt, Call, LockInv, LockTypes, Contexts, Held, Closed, Goto, Runs
  <1>3. CASE Iret
    BY <1>3 DEF Iret, LockInv, LockTypes, Contexts, Held, Closed, Goto
  <1>4. CASE UNCHANGED vars
    BY <1>4 DEF vars, LockInv, LockTypes
  <1> QED BY <1>1, <1>2, <1>3, <1>4, LockWork DEF Next

\* For every capacity and any number of events: whoever runs finds the lock free.
THEOREM LockNeverSpins == Spec => []NeverSpins
PROOF
  <1>1. LockInv => NeverSpins
    BY DEF LockInv, LockTypes, NeverSpins, Contexts, Held, Closed, Runs
  <1> QED BY <1>1, LockInit, LockStep, PTL DEF Spec

\* For every capacity and any number of events: a call gives the interrupt flag
\* back as its caller had it.
THEOREM FlagComesBack == Spec => FlagRestored
PROOF
  <1>1. LockInv /\ [Next]_vars =>
          [\A c \in Contexts : pc[c] = "restore" /\ pc'[c] # "restore" => enabled' = entered[c]]_vars
    <2> SUFFICES ASSUME LockInv, Next, NEW c \in Contexts, pc[c] = "restore", pc'[c] # "restore"
                 PROVE  enabled' = entered[c]
      OBVIOUS
    <2>1. ASSUME NEW o, NEW on \in BOOLEAN, TaskCall(o, on) PROVE enabled' = entered[c]
      BY <2>1 DEF TaskCall, Call, LockInv, LockTypes, Contexts, Goto, Runs
    <2>2. CASE Interrupt
      BY <2>2 DEF Interrupt, Call, LockInv, LockTypes, Contexts, Closed, Goto, Runs
    <2>3. CASE Iret
      BY <2>3 DEF Iret, LockInv, LockTypes, Contexts, Goto
    <2>4. ASSUME NEW d \in Contexts, Work(d) PROVE enabled' = entered[c]
      <3>1. c = d
        BY <2>4 DEF Work, IrqSave, Swap, Body, Unlock, IrqRestore, LockInv, LockTypes, Contexts, Goto
      <3>2. IrqRestore(c)
        BY <2>4, <3>1 DEF Work, IrqSave, Swap, Body, Unlock
      <3> QED BY <3>2 DEF IrqRestore, LockInv, Closed
    <2> QED BY <2>1, <2>2, <2>3, <2>4 DEF Next
  <1> QED BY <1>1, LockInit, LockStep, PTL DEF Spec, FlagRestored

=============================================================================
