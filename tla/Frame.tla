------------------------------- MODULE Frame -------------------------------
(***************************************************************************)
(* The physical frame allocator (kernel-core/src/frame.rs).  A frame is    *)
(* its index in the bitmap.  Every entry point runs under the IrqLock, so  *)
(* each call is one step; callers pass any frame to free and reclaim.      *)
(***************************************************************************)
EXTENDS Integers, FiniteSets

CONSTANTS Total,     \* frames the bitmap covers
          Low,       \* frames below this index are never marked free at boot
          Ram,       \* frames of the reclaimable memory-map entries
          Holes,     \* kernel image, boot stack, BootInfo, memory map, boot tables
          BootTables,\* the bootloader's page tables, reclaimed after the CR3 switch
          Sizes      \* sizes asked of alloc_contiguous

Frames == 0 .. Total - 1

ASSUME FrameAssumption ==
  /\ Total \in Nat \ {0} /\ Low \in Nat /\ Sizes \subseteq Nat
  /\ Ram \subseteq Frames /\ Holes \subseteq Frames /\ BootTables \subseteq Holes

VARIABLES bitmap,       \* frames whose BITMAP bit is 1 (free)
          owned,        \* frames whose OWNED bit is 1 (handed out)
          free_frames,  \* the free counter
          next,         \* the round-robin cursor
          last,         \* the last request and the frames returned for it
          reclaimed     \* history: frames reclaim() has put in the pool

vars == <<bitmap, owned, free_frames, next, last, reclaimed>>

\* The frames usable from boot on: reclaimable memory above the cutoff, less the holes.
Usable == {f \in Ram : f >= Low} \ Holes

Init ==
  /\ bitmap = Usable /\ owned = {}
  /\ free_frames = Cardinality(Usable) /\ next = 0
  /\ last = [n |-> 0, got |-> {}] /\ reclaimed = {}

Run(i, n) == i .. (i + n - 1)

Least(S) == CHOOSE i \in S : \A j \in S : i <= j

\* Where a run of n free frames begins inside [begin, end).
RunStarts(begin, end, n) == {i \in begin .. (end - n) : Run(i, n) \subseteq bitmap}

\* alloc: the distance from the cursor at which the scan meets frame f.
Offset(f) == IF f >= next THEN f - next ELSE f + Total - next

\* Mutant: the cursor is not wrapped.
ClaimNoWrap(first, n) ==
  /\ bitmap' = bitmap \ Run(first, n) /\ owned' = owned \cup Run(first, n)
  /\ free_frames' = free_frames - n
  /\ next' = first + n
  /\ last' = [n |-> n, got |-> Run(first, n)]
  /\ UNCHANGED reclaimed

Claim(first, n) ==
  /\ bitmap' = bitmap \ Run(first, n) /\ owned' = owned \cup Run(first, n)
  /\ free_frames' = free_frames - n
  /\ next' = (first + n) % Total
  /\ last' = [n |-> n, got |-> Run(first, n)]
  /\ UNCHANGED reclaimed

NoFrames(n) ==
  /\ last' = [n |-> n, got |-> {}]
  /\ UNCHANGED <<bitmap, owned, free_frames, next, reclaimed>>

Alloc ==
  \/ \E f \in bitmap : (\A g \in bitmap : Offset(f) <= Offset(g)) /\ Claim(f, 1)
  \/ bitmap = {} /\ NoFrames(1)

AllocContiguous(n) ==
  LET ahead  == RunStarts(next, Total, n)
      behind == RunStarts(0, next, n)
  IN \/ n > 0 /\ ahead # {} /\ Claim(Least(ahead), n)
     \/ n > 0 /\ ahead = {} /\ behind # {} /\ Claim(Least(behind), n)
     \/ (n = 0 \/ (ahead = {} /\ behind = {})) /\ NoFrames(n)

\* Mutant: free without the ownership test.
FreeAny(f) ==
  /\ f \in Frames
  /\ bitmap' = bitmap \cup {f} /\ owned' = owned \ {f}
  /\ free_frames' = free_frames + 1
  /\ UNCHANGED <<next, last, reclaimed>>

\* free: a frame the allocator did not hand out is refused.
Free(f) ==
  /\ f \in owned
  /\ bitmap' = bitmap \cup {f} /\ owned' = owned \ {f}
  /\ free_frames' = free_frames + 1
  /\ UNCHANGED <<next, last, reclaimed>>

\* reclaim: a reserved frame enters the pool; one free or handed out is refused.
Reclaim(f) ==
  /\ f \in BootTables /\ f \notin bitmap /\ f \notin owned
  /\ bitmap' = bitmap \cup {f} /\ free_frames' = free_frames + 1
  /\ reclaimed' = reclaimed \cup {f}
  /\ UNCHANGED <<owned, next, last>>

Next ==
  \/ Alloc
  \/ \E n \in Sizes : AllocContiguous(n)
  \/ \E f \in Frames : Free(f) \/ Reclaim(f)

Spec == Init /\ [][Next]_vars

-----------------------------------------------------------------------------

\* Type invariant; the cursor stays inside the bitmap and the counter never wraps.
TypeOK ==
  /\ bitmap \subseteq Frames /\ owned \subseteq Frames /\ reclaimed \subseteq Frames
  /\ free_frames \in Nat /\ next \in Frames
  /\ last \in [n : Nat, got : SUBSET Frames]

\* The two bitmaps never both claim a frame, the counter counts the free ones,
\* and memory outside the boot-time pool is in neither unless reclaim() put it
\* there: what free() and reclaim() refuse keeps reserved pages reserved.
Accounts ==
  /\ bitmap \cap owned = {}
  /\ free_frames = Cardinality(bitmap)
  /\ bitmap \cup owned = Usable \cup reclaimed

Pool == INSTANCE FramePool WITH free <- bitmap, granted <- owned

\* The allocator implements FramePool: it grants only consecutive frames nobody
\* holds, takes each back once, and refuses n frames only when no 2n-1 consecutive
\* ones are free (the two scans of alloc_contiguous miss a run across the cursor).
IsPool == Pool!Spec

\* "First-fit allocation" (frame.rs:141): alloc returns the lowest free frame.
FirstFit == [][Alloc /\ bitmap # {} => last'.got = {Least(bitmap)}]_vars

=============================================================================
