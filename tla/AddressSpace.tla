---------------------------- MODULE AddressSpace ----------------------------
(***************************************************************************)
(* Who holds which physical frame: the user page tables of x86_64, the     *)
(* heap and the mmap areas, through spawn, fork, execve, brk, mmap,        *)
(* munmap, mprotect, exit and reap, with every way the frames can run out. *)
(* Addresses and lengths are in pages.  System calls and spawn run with    *)
(* interrupts off, so each is one step.  The four table levels are two: a  *)
(* root and one table for every Span pages (next_level and free_user_pml4  *)
(* treat the middle levels as they treat the last).  Which frame alloc     *)
(* returns does not matter here; Frame has the allocator.                  *)
(***************************************************************************)
EXTENDS Integers, FiniteSets, Sequences, SequencesExt

CONSTANTS Slots,
          Frames,     \* positive integers
          Span,       \* pages one table maps
          Image,      \* pages the ELF image maps, in the order it is loaded
          UserStack,  \* pages of the user stack
          HeapBase, MmapBase, Limit,
          StackPages, \* frames of a kernel stack
          MaxVmas,
          Calls,      \* the system calls the task of each slot makes
          Breaks,     \* addresses given to brk
          Areas,      \* lengths given to mmap
          Prots       \* protections; "none" is PROT_NONE

ASSUME SpaceAssumption ==
  /\ Frames \subseteq Nat \ {0} /\ Span \in Nat \ {0} /\ StackPages \in Nat
  /\ HeapBase < MmapBase /\ MmapBase < Limit /\ MaxVmas \in Nat

VARIABLES free,     \* frames the allocator can hand out
          task,     \* the task table: kernel stack, page tables, heap and VMAs of each slot
          checked,  \* the spawning shell has passed has_free_slot
          lost,     \* history: frames abandoned at each failure exit
          panicked  \* an allocation that is unwrapped with expect() failed

vars == <<free, task, checked, lost, panicked>>

Exits == {"clone", "load", "spawn", "register", "fork_stack"}

Unused ==
  [state |-> "unused", kstack |-> {}, root |-> 0, tables |-> <<>>, pages |-> <<>>,
   break |-> 0, mapped |-> 0, vmas |-> {}, mmap_next |-> 0]

Init ==
  /\ free = Frames /\ task = [s \in Slots |-> Unused]
  /\ checked = FALSE /\ lost = [e \in Exits |-> {}] /\ panicked = FALSE

-----------------------------------------------------------------------------
\* Page tables under construction: the frames left, the tree,
\* the end of the page mapped last, and how it went.

\* The frame alloc returns, and a run of n from alloc_contiguous.
Pick(S) == CHOOSE f \in S : TRUE
PickRun(S, n) == CHOOSE R \in SUBSET S : Cardinality(R) = n

Pages(from, to) == [i \in 1 .. (to - from) |-> from + i - 1]
With(f, k, v) == [x \in DOMAIN f \cup {k} |-> IF x = k THEN v ELSE f[x]]

NewRoot(left) ==
  IF left = {}
  THEN [left |-> left, root |-> 0, tables |-> <<>>, pages |-> <<>>, upto |-> 0, out |-> "panic"]
  ELSE [left |-> left \ {Pick(left)}, root |-> Pick(left), tables |-> <<>>, pages |-> <<>>,
        upto |-> 0, out |-> "ok"]

NextLevel(b, t) ==
  IF b.out # "ok" \/ t \in DOMAIN b.tables THEN b
  ELSE IF b.left = {} THEN [b EXCEPT !.out = "panic"]
  ELSE [b EXCEPT !.left = @ \ {Pick(@)}, !.tables = With(@, t, Pick(b.left))]

MapPage(b, va, f, prot) ==
  LET c == NextLevel(b, va \div Span)
  IN IF c.out # "ok" THEN c
     ELSE [c EXCEPT !.pages = With(@, va, [frame |-> f, prot |-> prot]), !.upto = va + 1]

\* A fresh frame mapped at va: the frame is allocated first, then the table.
AddPage(b, va, prot) ==
  IF b.out # "ok" THEN b
  ELSE IF b.left = {} THEN [b EXCEPT !.out = "none"]
  ELSE MapPage([b EXCEPT !.left = @ \ {Pick(@)}], va, Pick(b.left), prot)

AddPages(b, vas, prot) == FoldLeft(LAMBDA c, va : AddPage(c, va, prot), b, vas)

\* Mutant: the child maps the parent's frame.
CopyPageShared(b, va, src) ==
  IF va \notin DOMAIN src \/ b.out # "ok" THEN b ELSE [b EXCEPT !.pages = With(@, va, src[va])]

\* clone_user_pml4: the table of every present table, then a frame for every present page.
CopyPage(b, va, src) ==
  IF va \notin DOMAIN src \/ b.out # "ok" THEN b
  ELSE IF b.left = {} THEN [b EXCEPT !.out = "none"]
  ELSE [b EXCEPT !.left = @ \ {Pick(@)},
                 !.pages = With(@, va, [frame |-> Pick(b.left), prot |-> src[va].prot])]

CopyTable(b, t, src) ==
  IF t \notin DOMAIN src.tables THEN b
  ELSE FoldLeft(LAMBDA c, va : CopyPage(c, va, src.pages), NextLevel(b, t),
                Pages(t * Span, (t + 1) * Span))

CloneRoot(src) ==
  FoldLeft(LAMBDA b, t : CopyTable(b, t, src), NewRoot(free), Pages(0, Limit \div Span + 1))

\* The tree of a task, to go on mapping into it.
Tree(p) ==
  [left |-> free, root |-> p.root, tables |-> p.tables, pages |-> p.pages,
   upto |-> p.mapped, out |-> "ok"]

LoadFull == FoldLeft(LAMBDA b, va : AddPage(b, va, "rx"), NewRoot(free), Image)

MapUserStack(b) ==
  LET n == Len(UserStack)
      R == PickRun(b.left, n)
      f == SetToSeq(R)
  IN FoldLeft(LAMBDA c, i : IF c.out # "ok" THEN c ELSE MapPage(c, UserStack[i], f[i], "rw"),
              [b EXCEPT !.left = @ \ R], [i \in 1 .. n |-> i])

\* The frames of a tree, which free_user_pml4 returns.
TreeFrames(b) ==
  ({b.root} \ {0}) \cup {b.tables[t] : t \in DOMAIN b.tables}
                 \cup {b.pages[va].frame : va \in DOMAIN b.pages}

-----------------------------------------------------------------------------
\* How a call ends.

Panic == panicked' = TRUE /\ UNCHANGED <<free, task, lost>>

\* The call fails and abandons the frames F at exit e.
Abandon(e, F) ==
  /\ free' = free \ F /\ lost' = [lost EXCEPT ![e] = @ \cup F]
  /\ UNCHANGED <<task, panicked>>

\* alloc_contiguous can refuse when memory is fragmented; it must when too little is left.
Fits(left, n) == Cardinality(left) >= n

Becomes(s, p) == task' = [task EXCEPT ![s] = p]

Calling(s, call) == ~panicked /\ call \in Calls[s] /\ task[s].state = "live"

FreeSlots == {s \in Slots : task[s].state = "unused"}

HasFreeSlot ==
  /\ ~panicked /\ ~checked /\ FreeSlots # {}
  /\ checked' = TRUE /\ UNCHANGED <<free, task, lost, panicked>>

\* A slot as register() and init_task() leave it.
Fresh(b, kstack) ==
  [state |-> "live", kstack |-> kstack, root |-> b.root, tables |-> b.tables, pages |-> b.pages,
   break |-> HeapBase, mapped |-> HeapBase, vmas |-> {}, mmap_next |-> MmapBase]

\* spawn_user_env.  A kernel stack that cannot be had returns only the frames of
\* the user stack; a slot taken since has_free_slot leaves everything behind.
SpawnUser ==
  LET b == LoadFull
      c == MapUserStack(b)
      K == PickRun(c.left, StackPages)
      stack == {c.pages[va].frame : va \in Range(UserStack)}
  IN /\ ~panicked /\ checked /\ checked' = FALSE
     /\ \/ b.out = "panic" /\ Panic
        \/ b.out = "none" /\ Abandon("load", TreeFrames(b))
        \/ b.out = "ok" /\ UNCHANGED <<free, task, lost, panicked>>
        \/ /\ b.out = "ok" /\ Fits(b.left, Len(UserStack))
           /\ \/ c.out = "panic" /\ Panic
              \/ c.out = "ok" /\ Abandon("spawn", TreeFrames(c) \ stack)
              \/ /\ c.out = "ok" /\ Fits(c.left, StackPages)
                 /\ \/ /\ \E s \in FreeSlots : Becomes(s, Fresh(c, K))
                       /\ free' = c.left \ K /\ UNCHANGED <<lost, panicked>>
                    \/ FreeSlots = {} /\ Abandon("register", TreeFrames(c) \cup K)

\* fork: clone_root, init_fork_stack, register_fork.  free_root undoes the clone
\* when the later steps fail; a failed clone returned no root to undo.
Fork(p) ==
  LET b == CloneRoot(task[p])
      K == PickRun(b.left, StackPages)
  IN /\ Calling(p, "fork") /\ UNCHANGED checked
     /\ \/ b.out = "panic" /\ Panic
        \/ b.out = "none" /\ Abandon("clone", TreeFrames(b))
        \/ b.out = "ok" /\ UNCHANGED <<free, task, lost, panicked>>
        \/ /\ b.out = "ok" /\ Fits(b.left, StackPages)
           /\ \/ /\ \E s \in FreeSlots :
                      Becomes(s, [task[p] EXCEPT !.kstack = K, !.root = b.root,
                                                 !.tables = b.tables, !.pages = b.pages])
                 /\ free' = b.left \ K /\ UNCHANGED <<lost, panicked>>
              \/ FreeSlots = {} /\ Abandon("fork_stack", K)

\* execve: the new image and stack first, then the old tree goes.
Execve(p) ==
  LET b == LoadFull
      c == MapUserStack(b)
  IN /\ Calling(p, "execve") /\ UNCHANGED checked
     /\ \/ b.out = "panic" /\ Panic
        \/ b.out = "none" /\ Abandon("load", TreeFrames(b))
        \/ b.out = "ok" /\ UNCHANGED <<free, task, lost, panicked>>
        \/ /\ b.out = "ok" /\ Fits(b.left, Len(UserStack))
           /\ \/ c.out = "panic" /\ Panic
              \/ /\ c.out = "ok" /\ Becomes(p, Fresh(c, task[p].kstack))
                 /\ free' = c.left \cup TreeFrames(task[p]) /\ UNCHANGED <<lost, panicked>>

\* A mapping loop has ended: what it mapped stays, also when it ran out of frames.
Grown(s, b, p) ==
  \/ b.out = "panic" /\ Panic
  \/ /\ b.out # "panic"
     /\ Becomes(s, [p EXCEPT !.tables = b.tables, !.pages = b.pages])
     /\ free' = b.left /\ UNCHANGED <<lost, panicked>>

Brk(s, addr) ==
  LET p == task[s]
      b == AddPages(Tree(p), Pages(p.mapped, addr), "rw")
  IN /\ Calling(s, "brk") /\ addr >= HeapBase /\ UNCHANGED checked
     /\ \/ /\ addr <= p.mapped
           /\ Becomes(s, [p EXCEPT !.break = addr]) /\ UNCHANGED <<free, lost, panicked>>
        \/ /\ addr > p.mapped
           /\ Grown(s, b, [p EXCEPT !.mapped = b.upto, !.break = IF b.out = "ok" THEN addr ELSE @])

-----------------------------------------------------------------------------
\* The mmap areas.  The VMAs of a task are a set of disjoint ranges.

Overlaps(v, from, to) == from < v.end /\ to > v.start

\* The lowest start from on that overlaps no VMA.
Probe(vmas, from, len) ==
  CHOOSE a \in from .. Limit :
    /\ \A v \in vmas : ~Overlaps(v, a, a + len)
    /\ \A a2 \in from .. a - 1 : \E v \in vmas : Overlaps(v, a2, a2 + len)

\* mmap2: the area is reserved before the protection is looked at and before
\* its frames are allocated; neither failure gives it back.
Mmap2(s, fixed, addr, len, prot) ==
  LET p == task[s]
      start == IF fixed THEN addr ELSE p.mmap_next
      base == Probe(p.vmas, start, len)
      q == [p EXCEPT !.vmas = @ \cup {[start |-> base, end |-> base + len, prot |-> prot]},
                     !.mmap_next = base + len]
  IN /\ Calling(s, "mmap") /\ UNCHANGED checked
     /\ start >= MmapBase /\ start + len <= Limit
     /\ \E a \in start .. Limit - len : \A v \in p.vmas : ~Overlaps(v, a, a + len)
     /\ fixed => base = start
     /\ Cardinality(p.vmas) < MaxVmas
     /\ \/ prot = "none" /\ Becomes(s, q) /\ UNCHANGED <<free, lost, panicked>>
        \/ prot # "none" /\ Grown(s, AddPages(Tree(p), Pages(base, base + len), prot), q)

VmaContains(vmas, from, to) == \A va \in from .. to - 1 : \E v \in vmas : v.start <= va /\ va < v.end

\* Mutant: a split keeps only the part before the hole.
RemainsHead(v, from, to) ==
  IF ~Overlaps(v, from, to) THEN {v}
  ELSE IF v.start < from THEN {[v EXCEPT !.end = from]}
  ELSE {w \in {[v EXCEPT !.start = to]} : w.start < w.end}

\* What vma_forget leaves of v when [from, to) goes.
Remains(v, from, to) ==
  IF ~Overlaps(v, from, to) THEN {v}
  ELSE {w \in {[v EXCEPT !.end = from], [v EXCEPT !.start = to]} : w.start < w.end}

\* vma_forget: a split that finds the table full leaves the VMA as it is.
VmaForget(vmas, from, to) ==
  IF /\ Cardinality(vmas) >= MaxVmas
     /\ \E v \in vmas : v.start < from /\ v.end > to
  THEN vmas
  ELSE UNION {Remains(v, from, to) : v \in vmas}

\* Mutant: the pages are unmapped and their frames are not returned.
MunmapKeeps(s, from, to) ==
  LET p == task[s]
  IN /\ Calling(s, "munmap") /\ UNCHANGED <<checked, free, lost, panicked>>
     /\ VmaContains(p.vmas, from, to)
     /\ Becomes(s, [p EXCEPT !.pages = [va \in DOMAIN @ \ (from .. to - 1) |-> @[va]],
                             !.vmas = VmaForget(@, from, to)])

Munmap(s, from, to) ==
  LET p == task[s]
      hit == DOMAIN p.pages \cap from .. to - 1
  IN /\ Calling(s, "munmap") /\ UNCHANGED checked
     /\ VmaContains(p.vmas, from, to)
     /\ Becomes(s, [p EXCEPT !.pages = [va \in DOMAIN @ \ hit |-> @[va]],
                             !.vmas = VmaForget(@, from, to)])
     /\ free' = free \cup {p.pages[va].frame : va \in hit}
     /\ UNCHANGED <<lost, panicked>>

VmaReprotect(vmas, from, to, prot) ==
  {IF Overlaps(v, from, to) THEN [v EXCEPT !.prot = prot] ELSE v : v \in vmas}

Mprotect(s, from, to, prot) ==
  LET p == task[s]
  IN /\ Calling(s, "mprotect") /\ prot # "none" /\ UNCHANGED checked
     /\ VmaContains(p.vmas, from, to)
     /\ Becomes(s, [p EXCEPT !.pages = [va \in DOMAIN @ |-> IF va \in from .. to - 1
                                                            THEN [@[va] EXCEPT !.prot = prot] ELSE @[va]],
                             !.vmas = VmaReprotect(@, from, to, prot)])
     /\ UNCHANGED <<free, lost, panicked>>

-----------------------------------------------------------------------------

Exit(s) ==
  /\ Calling(s, "exit")
  /\ Becomes(s, [task[s] EXCEPT !.state = "exited"])
  /\ UNCHANGED <<free, checked, lost, panicked>>

\* reap_exited: the kernel stack, then the user tree; Tasks says when.
Reap(s) ==
  /\ ~panicked /\ task[s].state = "exited"
  /\ free' = free \cup task[s].kstack \cup TreeFrames(task[s])
  /\ Becomes(s, Unused) /\ UNCHANGED <<checked, lost, panicked>>

Step(s) ==
  \/ Fork(s) \/ Execve(s) \/ Exit(s) \/ Reap(s)
  \/ \E addr \in Breaks : Brk(s, addr)
  \/ \E len \in Areas, prot \in Prots :
       \/ Mmap2(s, FALSE, 0, len, prot)
       \/ \E addr \in MmapBase .. Limit - 1 : Mmap2(s, TRUE, addr, len, prot)
  \/ \E from \in MmapBase .. Limit - 1, to \in MmapBase + 1 .. Limit :
       /\ from < to
       /\ Munmap(s, from, to) \/ \E prot \in Prots : Mprotect(s, from, to, prot)

Next == HasFreeSlot \/ SpawnUser \/ \E s \in Slots : Step(s)

Spec == Init /\ [][Next]_vars

-----------------------------------------------------------------------------

Vma == [start : Nat, end : Nat, prot : Prots]
Page == [frame : Frames, prot : Prots \cup {"rx", "rw"}]

\* Type invariant: a slot in use has a root and a kernel stack.
TypeOK ==
  /\ free \subseteq Frames /\ checked \in BOOLEAN /\ panicked \in BOOLEAN
  /\ lost \in [Exits -> SUBSET Frames]
  /\ \A s \in Slots :
       LET p == task[s]
       IN /\ p.state \in {"unused", "live", "exited"}
          /\ p.state = "unused" => p = Unused
          /\ p.state # "unused" =>
               /\ p.root \in Frames /\ p.kstack \subseteq Frames
               /\ Cardinality(p.kstack) = StackPages
               /\ \A t \in DOMAIN p.tables : p.tables[t] \in Frames
               /\ \A va \in DOMAIN p.pages : p.pages[va] \in Page
               /\ p.vmas \subseteq Vma

\* Every use a task makes of a frame: slot, kind, index, frame.
Uses ==
  UNION {LET p == task[s]
         IN {<<s, "root", 0, p.root>>}
            \cup {<<s, "kstack", f, f>> : f \in p.kstack}
            \cup {<<s, "table", t, p.tables[t]>> : t \in DOMAIN p.tables}
            \cup {<<s, "page", va, p.pages[va].frame>> : va \in DOMAIN p.pages}
         : s \in Slots \ FreeSlots}

Lost == UNION {lost[e] : e \in Exits}

\* No frame serves two purposes, in one task or in two, and none in use is free:
\* fork shares nothing, and exec, munmap and reap return a frame only once.
Exclusive ==
  /\ \A u, w \in Uses : u[4] = w[4] => u = w
  /\ \A u \in Uses : u[4] \notin free \cup Lost

\* A frame is free, in use, or was abandoned at one of the five failure exits of
\* fork, execve and spawn: no other path loses one, whatever runs out when.
Accounted == free \cup {u[4] : u \in Uses} \cup Lost = Frames

\* The layout the calls keep between them: below the mmap area a live task has
\* its image, stack and the heap up to MAPPED, and the break inside it; above,
\* VMAs that do not overlap, and no page that munmap could not reach.
LaidOut ==
  \A s \in Slots :
    LET p == task[s]
        low == {va \in DOMAIN p.pages : va < MmapBase}
    IN p.state # "unused" =>
         /\ low = Range(Image) \cup Range(UserStack) \cup HeapBase .. p.mapped - 1
         /\ HeapBase <= p.break /\ p.break <= p.mapped
         /\ \A v, w \in p.vmas : v # w => ~Overlaps(v, w.start, w.end)
         /\ \A v \in p.vmas : MmapBase <= v.start /\ v.start < v.end
         /\ \A va \in DOMAIN p.pages \ low : VmaContains(p.vmas, va, va + 1)

\* "the caller must free whatever was built" (user.rs:96): a fork whose clone runs
\* out of frames leaves none behind.
CloneFreed == lost["clone"] = {}

\* "Returns None on frame exhaustion" (user.rs:96): a fork that finds too few frames
\* is refused, it does not stop the kernel.
ForkRefused == [][\A s \in Slots : Fork(s) => ~panicked']_vars

\* "The spawn_user error paths now call free_user_root instead of leaking the root
\* and its ELF mappings" (M9_AUDIT.md:38): a failed spawn leaves no frames behind.
SpawnFreed == lost["spawn"] = {}

\* "Eager frames" (vma.rs:22): every page of an area has its frame.
EagerFrames ==
  \A s \in Slots : \A v \in task[s].vmas : v.start .. v.end - 1 \subseteq DOMAIN task[s].pages

\* "Remove VMAs intersecting [start, end)" (vma.rs:83): after munmap no area covers
\* a page of the range.
Forgotten ==
  [][\A s \in Slots, from, to \in MmapBase .. Limit :
       from < to /\ Munmap(s, from, to) => \A v \in task'[s].vmas : ~Overlaps(v, from, to)]_vars

\* "update VMAs and the live PTEs" (vma.rs:183): the area and its pages have the
\* same protection.
ProtAgrees ==
  \A s \in Slots : \A v \in task[s].vmas : \A va \in DOMAIN task[s].pages :
    v.start <= va /\ va < v.end => task[s].pages[va].prot = v.prot

\* "brk keeps its own region" (vma.rs:23): the heap stays below the mmap areas.
RegionsApart == \A s \in Slots : \A v \in task[s].vmas : task[s].mapped <= v.start

=============================================================================
