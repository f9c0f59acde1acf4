----------------------------- MODULE FrameScan -----------------------------
(***************************************************************************)
(* The loops of alloc_unlocked, alloc_contiguous_unlocked and scan_run     *)
(* (kernel-core/src/frame.rs), one iteration a step, with their locals.    *)
(* Frame says in one step what they compute; this module shows they do.    *)
(***************************************************************************)
EXTENDS Frame

VARIABLES pc,     \* idle, or the loop that runs: alloc, ahead (from the cursor), behind
          size,   \* frames asked for
          idx,    \* alloc: the offset; scan_run: the index
          run,    \* free frames seen in a row
          first   \* where they began

locals == <<size, idx, run, first>>

ScanInit == Init /\ pc = "idle" /\ size = 0 /\ idx = 0 /\ run = 0 /\ first = 0

\* Back to the caller; the locals are gone.
Leave == pc' = "idle" /\ size' = 0 /\ idx' = 0 /\ run' = 0 /\ first' = 0

Enter(loop, n, begin) ==
  /\ pc' = loop /\ size' = n /\ idx' = begin /\ run' = 0 /\ first' = 0
  /\ UNCHANGED vars

CallAlloc == pc = "idle" /\ Enter("alloc", 1, 0)

CallContiguous(n) ==
  /\ pc = "idle"
  /\ \/ n \in 1 .. Total /\ Enter("ahead", n, next)
     \/ n \notin 1 .. Total /\ NoFrames(n) /\ UNCHANGED <<pc, locals>>

\* Mutant: the offset wraps with the index, so a full bitmap is scanned for ever.
AllocSpins ==
  LET f == (next + idx) % Total
  IN /\ pc = "alloc"
     /\ \/ f \in bitmap /\ Claim(f, 1) /\ Leave
        \/ /\ f \notin bitmap
           /\ idx' = (idx + 1) % Total /\ UNCHANGED <<vars, pc, size, run, first>>

\* One iteration of alloc's loop.
AllocLoop ==
  LET f == (next + idx) % Total
  IN /\ pc = "alloc"
     /\ \/ idx < Total /\ f \in bitmap /\ Claim(f, 1) /\ Leave
        \/ /\ idx < Total /\ f \notin bitmap
           /\ idx' = idx + 1 /\ UNCHANGED <<vars, pc, size, run, first>>
        \/ idx = Total /\ NoFrames(1) /\ Leave

\* Mutant: a used frame does not break the run.
ScanKeepsRun(end) ==
  \/ /\ idx < end /\ idx \in bitmap
     /\ LET begin == IF run = 0 THEN idx ELSE first
        IN \/ run + 1 = size /\ Claim(begin, size) /\ Leave
           \/ /\ run + 1 # size
              /\ run' = run + 1 /\ first' = begin /\ idx' = idx + 1
              /\ UNCHANGED <<vars, pc, size>>
  \/ /\ idx < end /\ idx \notin bitmap
     /\ idx' = idx + 1 /\ UNCHANGED <<vars, pc, size, run, first>>

\* One iteration of scan_run's loop up to end.
ScanRun(end) ==
  \/ /\ idx < end /\ idx \in bitmap
     /\ LET begin == IF run = 0 THEN idx ELSE first
        IN \/ run + 1 = size /\ Claim(begin, size) /\ Leave
           \/ /\ run + 1 # size
              /\ run' = run + 1 /\ first' = begin /\ idx' = idx + 1
              /\ UNCHANGED <<vars, pc, size>>
  \/ /\ idx < end /\ idx \notin bitmap
     /\ run' = 0 /\ idx' = idx + 1 /\ UNCHANGED <<vars, pc, size, first>>

Ahead ==
  /\ pc = "ahead"
  /\ \/ ScanRun(Total)
     \/ idx = Total /\ next > 0 /\ Enter("behind", size, 0)
     \/ idx = Total /\ next = 0 /\ NoFrames(size) /\ Leave

Behind ==
  /\ pc = "behind"
  /\ \/ ScanRun(next)
     \/ idx = next /\ NoFrames(size) /\ Leave

GiveBack(f) == pc = "idle" /\ (Free(f) \/ Reclaim(f)) /\ UNCHANGED <<pc, locals>>

ScanNext ==
  \/ CallAlloc \/ AllocLoop \/ Ahead \/ Behind
  \/ \E n \in Sizes : CallContiguous(n)
  \/ \E f \in Frames : GiveBack(f)

\* The loops are bounded and run with interrupts off: a started call goes on.
ScanSpec ==
  /\ ScanInit /\ [][ScanNext]_<<vars, pc, locals>>
  /\ WF_<<vars, pc, locals>>(AllocLoop \/ Ahead \/ Behind)

-----------------------------------------------------------------------------

\* The loops compute what Frame says: alloc claims the first free frame from the
\* cursor on, round the end of the bitmap, and alloc_contiguous the lowest run
\* ahead of the cursor, else the lowest run behind it.
IsFrame == Spec

\* Every call returns, so the allocator's lock is always released.
Returns == (pc # "idle") ~> (pc = "idle")

=============================================================================
