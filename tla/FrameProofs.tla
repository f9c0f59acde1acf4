---------------------------- MODULE FrameProofs ----------------------------
(***************************************************************************)
(* Proofs about the frame allocator, for every bitmap size, memory map,    *)
(* hole set and request size: the accounts of the two bitmaps and the      *)
(* counter agree, and the allocator implements FramePool.                  *)
(***************************************************************************)
EXTENDS Frame, FiniteSetTheorems, TLAPS

\* A non-empty set of naturals has its Least element.
LEMMA LeastIn ==
  ASSUME NEW S \in SUBSET Nat, S # {}
  PROVE  Least(S) \in S /\ \A j \in S : Least(S) <= j
PROOF
  <1>1. PICK m \in S : \A j \in S : m <= j
    <2> DEFINE lt == OpToRel(<, Nat)
    <2>1. IsWellFoundedOn(lt, Nat)
      BY NatLessThanWellFounded
    <2>2. PICK x \in S : \A y \in S : ~(<<y, x>> \in lt)
      BY <2>1, WFMin
    <2>3. \A y \in S : y \in Nat /\ x \in Nat /\ ~(y < x)
      BY <2>2 DEF OpToRel
    <2> QED BY <2>3
  <1> QED BY <1>1 DEF Least

\* The frames of a run are finitely many, and exactly n.
LEMMA RunSize ==
  ASSUME NEW i \in Nat, NEW n \in Nat
  PROVE  IsFiniteSet(Run(i, n)) /\ Cardinality(Run(i, n)) = n
PROOF
  <1>1. i \in Int /\ (i + n - 1) \in Int
    OBVIOUS
  <1> QED BY <1>1, FS_Interval DEF Run

\* Every step is an allocation, a refusal, a free or a reclaim; an allocation
\* claims a run of free frames.
LEMMA StepForms ==
  ASSUME TypeOK, Next
  PROVE  \/ \E i \in Frames, n \in (Sizes \cup {1}) \ {0} : Run(i, n) \subseteq bitmap /\ Claim(i, n)
         \/ \E n \in Sizes \cup {1} :
              /\ NoFrames(n)
              /\ \/ n = 0
                 \/ n = 1 /\ bitmap = {}
                 \/ RunStarts(next, Total, n) = {} /\ RunStarts(0, next, n) = {}
         \/ \E f \in Frames : Free(f) \/ Reclaim(f)
PROOF
  <1> USE FrameAssumption
  <1>1. CASE Alloc
    <2>1. CASE \E f \in bitmap : Claim(f, 1)
      <3>1. PICK f \in bitmap : Claim(f, 1)
        BY <2>1
      <3>2. f \in Frames /\ Run(f, 1) \subseteq bitmap
        BY <3>1 DEF TypeOK, Run, Frames
      <3> QED BY <3>1, <3>2
    <2>2. CASE bitmap = {} /\ NoFrames(1)
      BY <2>2
    <2> QED BY <1>1, <2>1, <2>2 DEF Alloc
  <1>2. ASSUME NEW n \in Sizes, AllocContiguous(n)
        PROVE  \/ \E i \in Frames, k \in (Sizes \cup {1}) \ {0} : Run(i, k) \subseteq bitmap /\ Claim(i, k)
               \/ /\ NoFrames(n)
                  /\ n = 0 \/ (RunStarts(next, Total, n) = {} /\ RunStarts(0, next, n) = {})
    <2>1. ASSUME NEW b \in Nat, NEW e \in Nat, e <= Total, n > 0,
                 RunStarts(b, e, n) # {}, Claim(Least(RunStarts(b, e, n)), n)
          PROVE  \E i \in Frames, k \in (Sizes \cup {1}) \ {0} : Run(i, k) \subseteq bitmap /\ Claim(i, k)
      <3> DEFINE i == Least(RunStarts(b, e, n))
      <3>1. RunStarts(b, e, n) \in SUBSET Nat
        BY <2>1 DEF RunStarts
      <3>2. i \in RunStarts(b, e, n)
        BY <2>1, <3>1, LeastIn
      <3>3. i \in Frames /\ Run(i, n) \subseteq bitmap
        BY <2>1, <3>2 DEF RunStarts, Frames
      <3> QED BY <2>1, <3>3
    <2>2. next \in Nat /\ next <= Total /\ 0 \in Nat /\ Total \in Nat
      BY DEF TypeOK, Frames
    <2> QED BY <1>2, <2>1, <2>2 DEF AllocContiguous
  <1> QED BY <1>1, <1>2 DEF Next

-----------------------------------------------------------------------------

\* TypeOK and Accounts together are inductive.
LEMMA PoolInit == Init => TypeOK /\ Accounts
PROOF
  <1> SUFFICES ASSUME Init PROVE TypeOK /\ Accounts
    OBVIOUS
  <1> USE FrameAssumption
  <1>1. IsFiniteSet(Usable)
    <2>1. IsFiniteSet(Frames)
      BY FS_Interval DEF Frames
    <2> QED BY <2>1, FS_Subset DEF Usable, Frames
  <1>2. free_frames \in Nat
    BY <1>1, FS_CardinalityType DEF Init
  <1>3. TypeOK
    <2>1. Usable \subseteq Frames
      BY DEF Usable
    <2>2. 0 \in Frames
      BY DEF Frames
    <2>3. last \in [n : Nat, got : SUBSET Frames]
      BY DEF Init
    <2> QED BY <1>2, <2>1, <2>2, <2>3 DEF Init, TypeOK
  <1>4. Accounts
    BY DEF Init, Accounts
  <1> QED BY <1>3, <1>4

LEMMA PoolStep == TypeOK /\ Accounts /\ [Next]_vars => TypeOK' /\ Accounts'
PROOF
  <1> SUFFICES ASSUME TypeOK, Accounts, [Next]_vars PROVE TypeOK' /\ Accounts'
    OBVIOUS
  <1> USE FrameAssumption
  <1>f. IsFiniteSet(bitmap)
    <2>1. IsFiniteSet(Frames)
      BY FS_Interval DEF Frames
    <2> QED BY <2>1, FS_Subset DEF TypeOK
  <1>1. ASSUME NEW i \in Frames, NEW n \in (Sizes \cup {1}) \ {0}, Run(i, n) \subseteq bitmap, Claim(i, n)
        PROVE  TypeOK' /\ Accounts'
    <2>0. i \in Nat /\ n \in Nat
      BY DEF Frames
    <2>1. IsFiniteSet(Run(i, n)) /\ Cardinality(Run(i, n)) = n
      BY <2>0, RunSize
    <2>2. bitmap \cap Run(i, n) = Run(i, n)
      BY <1>1
    <2>3. Cardinality(bitmap \ Run(i, n)) = Cardinality(bitmap) - n
      <3>1. Cardinality(bitmap \ Run(i, n)) = Cardinality(bitmap) - Cardinality(bitmap \cap Run(i, n))
        BY <1>f, FS_Difference, Zenon
      <3> QED BY <2>1, <2>2, <3>1, Zenon
    <2>4. IsFiniteSet(bitmap \ Run(i, n))
      BY <1>f, FS_Subset
    <2>5. Cardinality(bitmap \ Run(i, n)) \in Nat
      BY <2>4, FS_CardinalityType
    <2>6. free_frames' = Cardinality(bitmap') /\ free_frames' \in Nat
      BY <1>1, <2>3, <2>5 DEF Claim, Accounts
    <2>7. next' \in Frames
      BY <1>1, <2>0 DEF Claim, Frames
    <2>8. bitmap' \subseteq Frames /\ owned' \subseteq Frames /\ reclaimed' \subseteq Frames
          /\ last' \in [n : Nat, got : SUBSET Frames]
      BY <1>1, <2>0 DEF Claim, TypeOK
    <2>9. bitmap' \cap owned' = {} /\ bitmap' \cup owned' = Usable \cup reclaimed'
      BY <1>1 DEF Claim, Accounts
    <2> QED BY <2>6, <2>7, <2>8, <2>9 DEF TypeOK, Accounts
  <1>2. ASSUME NEW n \in Sizes \cup {1}, NoFrames(n) PROVE TypeOK' /\ Accounts'
    BY <1>2 DEF NoFrames, TypeOK, Accounts
  <1>3. ASSUME NEW f \in Frames, Free(f) \/ Reclaim(f) PROVE TypeOK' /\ Accounts'
    <2>1. f \notin bitmap /\ bitmap' = bitmap \cup {f} /\ free_frames' = free_frames + 1
      BY <1>3 DEF Free, Reclaim, Accounts
    <2>2. Cardinality(bitmap') = Cardinality(bitmap) + 1
      BY <1>f, <2>1, FS_AddElement
    <2>3. free_frames' = Cardinality(bitmap') /\ free_frames' \in Nat
      BY <2>1, <2>2 DEF Accounts, TypeOK
    <2>4. TypeOK'
      BY <1>3, <2>1, <2>3 DEF Free, Reclaim, TypeOK
    <2>5. bitmap' \cap owned' = {} /\ bitmap' \cup owned' = Usable \cup reclaimed'
      BY <1>3 DEF Free, Reclaim, Accounts
    <2> QED BY <2>3, <2>4, <2>5 DEF Accounts
  <1>4. CASE UNCHANGED vars
    BY <1>4 DEF vars, TypeOK, Accounts
  <1> QED BY <1>1, <1>2, <1>3, <1>4, StepForms

\* For every memory map and request size: no frame is both free and handed out,
\* the counter of usable_mib() is exact and never wraps, and reserved memory
\* enters the pool only through reclaim().
THEOREM PoolSafety == Spec => [](TypeOK /\ Accounts)
PROOF
  <1> QED BY PoolInit, PoolStep, PTL DEF Spec

-----------------------------------------------------------------------------

\* A refused request: two scans that meet at the cursor find no run of n, so
\* there is no run of 2n-1 anywhere.
LEMMA NoLongRun ==
  ASSUME TypeOK, NEW n \in Nat \ {0}, NEW i \in Frames,
         RunStarts(next, Total, n) = {}, RunStarts(0, next, n) = {}
  PROVE  ~(Run(i, 2 * n - 1) \subseteq bitmap)
PROOF
  <1> SUFFICES ASSUME Run(i, 2 * n - 1) \subseteq bitmap PROVE FALSE
    OBVIOUS
  <1> USE FrameAssumption
  <1>0. i \in Nat /\ next \in Nat /\ next < Total /\ Total \in Nat /\ bitmap \subseteq Frames
    BY DEF TypeOK, Frames
  <1>1. \A k \in i .. (i + 2 * n - 2) : k \in bitmap /\ k < Total
    BY <1>0 DEF Run, Frames
  <1>2. i + 2 * n - 2 < Total
    BY <1>0, <1>1
  <1>3. CASE next <= i
    <2>1. i \in RunStarts(next, Total, n)
      BY <1>0, <1>1, <1>2, <1>3 DEF RunStarts, Run
    <2> QED BY <2>1
  <1>4. CASE i + n <= next
    <2>1. i \in RunStarts(0, next, n)
      BY <1>0, <1>1, <1>2, <1>4 DEF RunStarts, Run
    <2> QED BY <2>1
  <1>5. CASE i < next /\ next < i + n
    <2>1. next \in RunStarts(next, Total, n)
      BY <1>0, <1>1, <1>2, <1>5 DEF RunStarts, Run
    <2> QED BY <2>1
  <1> QED BY <1>0, <1>3, <1>4, <1>5

\* The bitmap allocator of frame.rs implements FramePool.
THEOREM FrameIsPool == Spec => IsPool
PROOF
  <1> USE FrameAssumption
  <1>1. Init => Pool!Init
    BY DEF Init, Pool!Init, Usable
  <1>2. TypeOK /\ Accounts /\ [Next]_vars => [Pool!Next]_(Pool!vars)
    <2> SUFFICES ASSUME TypeOK, Accounts, [Next]_vars PROVE [Pool!Next]_(Pool!vars)
      OBVIOUS
    <2>1. ASSUME NEW i \in Frames, NEW n \in (Sizes \cup {1}) \ {0}, Run(i, n) \subseteq bitmap, Claim(i, n)
          PROVE  Pool!Next
      <3>1. Pool!Grant(n)
        BY <2>1 DEF Claim, Run, Pool!Grant, Pool!Run
      <3> QED BY <3>1 DEF Pool!Next
    <2>2. ASSUME NEW n \in Sizes \cup {1}, NoFrames(n),
                 \/ n = 0
                 \/ n = 1 /\ bitmap = {}
                 \/ RunStarts(next, Total, n) = {} /\ RunStarts(0, next, n) = {}
          PROVE  Pool!Next
      <3>1. n = 0 \/ \A i \in Frames : ~(Run(i, 2 * n - 1) \subseteq bitmap)
        <4>1. CASE n = 1 /\ bitmap = {}
          BY <4>1 DEF Run, Frames
        <4>2. CASE n # 0 /\ RunStarts(next, Total, n) = {} /\ RunStarts(0, next, n) = {}
          BY <4>2, NoLongRun
        <4> QED BY <2>2, <4>1, <4>2
      <3>2. Pool!Refuse(n)
        BY <2>2, <3>1 DEF NoFrames, Run, Pool!Refuse, Pool!Run
      <3> QED BY <3>2 DEF Pool!Next
    <2>3. ASSUME NEW f \in Frames, Free(f) \/ Reclaim(f) PROVE Pool!Next
      BY <2>3 DEF Free, Reclaim, Pool!Next, Pool!Return, Pool!Open
    <2>4. CASE UNCHANGED vars
      BY <2>4 DEF vars, Pool!vars
    <2> QED BY <2>1, <2>2, <2>3, <2>4, StepForms
  <1> QED BY <1>1, <1>2, PoolSafety, PTL DEF Spec, IsPool, Pool!Spec

=============================================================================
