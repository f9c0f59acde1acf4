---------------------------- MODULE SignalsProofs ----------------------------
(***************************************************************************)
(* Proofs about Signals for any set of processes, signals and masks:       *)
(* SIGKILL is never blocked, ring 3 is never entered through a delivery    *)
(* point with a SIGKILL pending, and, when no child calls execve before    *)
(* any other system call, a queued SIGKILL stays until the process dies.   *)
(***************************************************************************)
EXTENDS Signals, TLAPS, WellFoundedInduction

\* A sound record: typed, with no SIGKILL in any mask.
RecOK(r) ==
  /\ r \in Proc /\ Len(r.frames) <= MaxFrames
  /\ SIGKILL \notin r.blocked /\ SIGKILL \notin r.old
  /\ \A i \in DOMAIN r.frames : SIGKILL \notin r.frames[i].mask

\* Tables with sound records.
TableOK(ps) == ps = [p \in Procs |-> ps[p]] /\ \A p \in Procs : RecOK(ps[p])

\* The process in ring 3 is the current one, a process that has not run is
\* virgin, and a process that was killed exists.
Places ==
  /\ \A p \in Procs : procs[p].stage = "user" <=> current = p
  /\ \A p \in Procs : procs[p].stage = "fresh" => p \in virgin
  /\ \A p \in killed : p \in Procs /\ procs[p].stage # "free"

Sound ==
  /\ TableOK(procs) /\ Places /\ KillSeen
  /\ current \in Procs \cup {Nobody} /\ ttyPgrp \in Groups \cup {0}
  /\ killed \in SUBSET Procs /\ virgin \in SUBSET Procs
  /\ ~EarlyExec => KillWins

-----------------------------------------------------------------------------
\* A nonempty set of signals has a lowest element.
LEMMA LowestIn == ASSUME NEW S \in SUBSET Nat, S # {} PROVE Lowest(S) \in S
  <1> DEFINE R == {ss \in Nat \X Nat : ss[1] < ss[2]}
  <1>0. IsWellFoundedOn(R, Nat)
    BY NatLessThanWellFounded DEF OpToRel
  <1>1. PICK x \in S : \A y \in S : ~(<<y, x>> \in R)
    <2> HIDE DEF R
    <2> QED
      BY <1>0, WFMin
  <1>2. \A y \in S : x <= y
    <2> SUFFICES ASSUME NEW y \in S, ~(x <= y) PROVE FALSE
      OBVIOUS
    <2>1. y < x /\ <<y, x>> \in Nat \X Nat
      OBVIOUS
    <2>2. <<y, x>> \in R
      BY <2>1
    <2> QED
      BY <1>1, <2>2
  <1> QED
    BY <1>2 DEF Lowest

\* dequeue returns a signal of the table, SIGKILL whenever it is pending.
LEMMA DeliverableFacts ==
  ASSUME NEW r, RecOK(r), Deliverable(r) # {}
  PROVE  /\ Lowest(Deliverable(r)) \in Sigs \cap r.pending
         /\ SIGKILL \in r.pending => Lowest(Deliverable(r)) = SIGKILL
  <1>1. r.pending \in SUBSET Sigs /\ Sigs \subseteq Nat
    BY SignalsAssumption DEF RecOK, Proc
  <1>2. Deliverable(r) \in SUBSET Nat /\ Deliverable(r) \subseteq r.pending
    BY <1>1 DEF Deliverable, SIGKILL
  <1>3. Lowest(Deliverable(r)) \in Deliverable(r)
    BY <1>2, LowestIn
  <1> QED
    BY <1>1, <1>2, <1>3 DEF Deliverable

\* Delivery keeps a record sound, and kills whoever has a SIGKILL pending.
LEMMA DeliveredFacts ==
  ASSUME NEW r, RecOK(r), r.stage = "user"
  PROVE  /\ RecOK(Delivered(r))
         /\ Delivered(r).stage \in {"user", "dead"}
         /\ SIGKILL \in r.pending => Delivered(r).stage = "dead"
         /\ SIGKILL \notin r.pending => SIGKILL \notin Delivered(r).pending
  <1>1. CASE Deliverable(r) = {}
    <2>1. SIGKILL \notin r.pending
      BY <1>1 DEF Deliverable
    <2> QED
      BY <1>1, <2>1 DEF Delivered
  <1>2. CASE Deliverable(r) # {}
    <2> DEFINE sig == Lowest(Deliverable(r))
    <2>1. sig \in Sigs /\ (SIGKILL \in r.pending => sig = SIGKILL)
      BY <1>2, DeliverableFacts
    <2>2. Delivered(r) = Taken(r, sig)
      BY <1>2 DEF Delivered
    <2> HIDE DEF sig
    <2> DEFINE q == [r EXCEPT !.pending = r.pending \ {sig}]
    <2>3. r \in Proc /\ r.pending \in SUBSET Sigs /\ r.frames \in Seq(Frame)
          /\ r.blocked \in SUBSET Sigs
      BY DEF RecOK, Proc
    <2>4. /\ q \in Proc /\ q.stage = "user" /\ q.frames = r.frames /\ q.blocked = r.blocked
          /\ q.old = r.old /\ q.pending = r.pending \ {sig}
      BY <2>3 DEF Proc
    <2>5. CASE Fatal(r, sig)
      <3>1. Delivered(r) = [q EXCEPT !.stage = "dead"]
        BY <2>2, <2>5 DEF Taken
      <3>2. /\ [q EXCEPT !.stage = "dead"] \in Proc
            /\ [q EXCEPT !.stage = "dead"].stage = "dead"
            /\ [q EXCEPT !.stage = "dead"].frames = r.frames
            /\ [q EXCEPT !.stage = "dead"].blocked = r.blocked
            /\ [q EXCEPT !.stage = "dead"].old = r.old
            /\ [q EXCEPT !.stage = "dead"].pending = r.pending \ {sig}
        BY <2>4 DEF Proc, Stages
      <3> HIDE DEF q
      <3> QED
        BY <3>1, <3>2 DEF RecOK
    <2>6. CASE ~Fatal(r, sig) /\ r.action[sig] \in {"catch", "catchAll"}
      <3> DEFINE fr == [sig |-> sig, mask |-> r.blocked]
                 fs == Append(r.frames, fr)
                 hm == HandlerMask(r, sig)
      <3>1. sig # SIGKILL /\ Len(r.frames) # MaxFrames
        BY <2>6 DEF Fatal
      <3>2. fr \in Frame
        BY <2>1, <2>3 DEF Frame
      <3>3. fs \in Seq(Frame) /\ Len(fs) = Len(r.frames) + 1
        BY <2>3, <3>2
      <3>4. Len(fs) <= MaxFrames
        BY <3>1, <3>3, <2>3, SignalsAssumption DEF RecOK
      <3>5. \A i \in DOMAIN fs : SIGKILL \notin fs[i].mask
        <4> SUFFICES ASSUME NEW i \in DOMAIN fs PROVE SIGKILL \notin fs[i].mask
          OBVIOUS
        <4>1. i \in 1 .. Len(r.frames) + 1
          BY <3>3
        <4>2. CASE i = Len(r.frames) + 1
          BY <4>2, <2>3 DEF RecOK
        <4>3. CASE i # Len(r.frames) + 1
          <5>1. i \in DOMAIN r.frames /\ fs[i] = r.frames[i]
            BY <2>3, <4>1, <4>3
          <5> QED
            BY <5>1 DEF RecOK
        <4> QED
          BY <4>2, <4>3
      <3>6. hm \in SUBSET Sigs /\ SIGKILL \notin hm
        BY <2>1, <2>3 DEF HandlerMask
      <3>7. Delivered(r) = [[q EXCEPT !.frames = fs] EXCEPT !.blocked = hm]
        BY <2>2, <2>4, <2>6 DEF Taken
      <3> HIDE DEF fs, hm, q
      <3> DEFINE t == [[q EXCEPT !.frames = fs] EXCEPT !.blocked = hm]
      <3>8. /\ t \in Proc /\ t.stage = "user" /\ t.frames = fs /\ t.blocked = hm
            /\ t.old = r.old /\ t.pending = r.pending \ {sig}
        BY <2>4, <3>3, <3>6 DEF Proc
      <3> HIDE DEF t
      <3>9. RecOK(t)
        BY <3>4, <3>5, <3>6, <3>8 DEF RecOK
      <3> QED
        BY <2>1, <3>1, <3>7, <3>8, <3>9 DEF t
    <2>7. CASE ~Fatal(r, sig) /\ r.action[sig] \notin {"catch", "catchAll"}
      <3>1. Delivered(r) = q /\ sig # SIGKILL
        BY <2>2, <2>7 DEF Taken, Fatal
      <3> HIDE DEF q
      <3> QED
        BY <2>1, <2>4, <3>1 DEF RecOK
    <2> QED
      BY <2>5, <2>6, <2>7
  <1> QED
    BY <1>1, <1>2

\* Moving a process to another stage keeps its record sound.
LEMMA StageUpdate ==
  ASSUME NEW r, RecOK(r), NEW st \in Stages
  PROVE  /\ RecOK([r EXCEPT !.stage = st]) /\ [r EXCEPT !.stage = st].stage = st
         /\ [r EXCEPT !.stage = st].pending = r.pending
  <1> DEFINE u == [r EXCEPT !.stage = st]
  <1>1. r \in Proc
    BY DEF RecOK
  <1>2. /\ u \in Proc /\ u.stage = st /\ u.pending = r.pending /\ u.frames = r.frames
        /\ u.blocked = r.blocked /\ u.old = r.old
    BY <1>1 DEF Proc
  <1> HIDE DEF u
  <1>3. RecOK(u)
    BY <1>2 DEF RecOK
  <1> QED
    BY <1>2, <1>3 DEF u

\* EMPTY_PROC is sound.
LEMMA FreeOK == RecOK(FreeProc)
  <1>1. [s \in Sigs |-> "dfl"] \in [Sigs -> Actions \cup {"dfl"}] /\ <<>> \in Seq(Frame)
    OBVIOUS
  <1>2. FreeProc \in Proc
    BY <1>1 DEF FreeProc, Proc, Stages
  <1>3. FreeProc.frames = <<>> /\ FreeProc.blocked = {} /\ FreeProc.old = {}
    BY DEF FreeProc
  <1> QED
    BY <1>2, <1>3, SignalsAssumption DEF RecOK

-----------------------------------------------------------------------------
\* p returns to ring 3 through a delivery point, starting from the record r.
LEMMA ReturnSound ==
  ASSUME Sound, NEW p \in Procs, NEW ps, TableOK(ps), NEW r, RecOK(r),
         NEW V \in SUBSET Procs, \A q \in V : Alive(q),
         current \in {p, Nobody},
         \A q \in Procs \ {p} :
           /\ \/ ps[q].stage = procs[q].stage /\ procs[q].pending \subseteq ps[q].pending
              \/ procs[q].stage = "free" /\ ps[q].stage = "fresh"
           /\ q \in V => SIGKILL \in ps[q].pending,
         Alive(p),
         \/ EarlyExec
         \/ p \in killed \cup V => SIGKILL \in r.pending,
         Return(ps, p, r), ttyPgrp' \in Groups \cup {0}, killed' = killed \cup V
  PROVE  Sound'
  <1> DEFINE u == [r EXCEPT !.stage = "user"]
             d == Delivered(u)
             z == [FreeProc EXCEPT !.stage = "dead"]
             n == IF d.stage = "dead" THEN z ELSE d
  <1>1. RecOK(u) /\ u.stage = "user" /\ u.pending = r.pending
    BY StageUpdate DEF Stages
  <1>2. RecOK(z) /\ z.stage = "dead"
    BY StageUpdate, FreeOK DEF Stages
  <1>3. /\ procs' = Put(ps, p, d) /\ current' = IF d.stage = "dead" THEN Nobody ELSE p
        /\ virgin' = {q \in Procs \ {p} : q \in virgin \/ ps[q].stage = "fresh"}
    BY DEF Return
  <1> HIDE DEF u
  <1>4. /\ RecOK(d) /\ d.stage \in {"user", "dead"}
        /\ SIGKILL \in r.pending => d.stage = "dead"
        /\ SIGKILL \notin r.pending => SIGKILL \notin d.pending
    BY <1>1, DeliveredFacts
  <1> HIDE DEF d, z
  <1>5. procs' = [q \in Procs |->
                    IF q = p THEN n
                    ELSE IF d.stage = "dead" /\ q = d.ppid /\ ps[q].stage \notin {"free", "dead"}
                    THEN [ps[q] EXCEPT !.pending = ps[q].pending \cup {SIGCHLD}]
                    ELSE ps[q]]
    BY <1>3 DEF Put, z
  <1>6. procs'[p] = n /\ RecOK(n) /\ n.stage \in {"user", "dead"}
    BY <1>2, <1>4, <1>5
  <1>7. \A q \in Procs \ {p} :
          /\ RecOK(procs'[q]) /\ procs'[q].stage = ps[q].stage
          /\ ps[q].pending \subseteq procs'[q].pending
    <2> SUFFICES ASSUME NEW q \in Procs \ {p}
                 PROVE  /\ RecOK(procs'[q]) /\ procs'[q].stage = ps[q].stage
                        /\ ps[q].pending \subseteq procs'[q].pending
      OBVIOUS
    <2>1. RecOK(ps[q]) /\ ps[q] \in Proc
      BY DEF TableOK, RecOK
    <2>2. procs'[q] = ps[q] \/ procs'[q] = [ps[q] EXCEPT !.pending = ps[q].pending \cup {SIGCHLD}]
      BY <1>5
    <2> DEFINE e == [ps[q] EXCEPT !.pending = ps[q].pending \cup {SIGCHLD}]
    <2>3. /\ e \in Proc /\ e.stage = ps[q].stage /\ e.frames = ps[q].frames
          /\ e.blocked = ps[q].blocked /\ e.old = ps[q].old
          /\ e.pending = ps[q].pending \cup {SIGCHLD}
      BY <2>1, SignalsAssumption DEF Proc
    <2> HIDE DEF e
    <2>4. RecOK(e)
      BY <2>1, <2>3 DEF RecOK
    <2> QED
      BY <2>1, <2>2, <2>3, <2>4 DEF e
  <1>8. TableOK(procs')
    BY <1>5, <1>6, <1>7 DEF TableOK
  <1>9. p # Nobody /\ \A q \in Procs : q # Nobody
    BY SignalsAssumption DEF Nobody
  <1>10. \A q \in Procs : procs'[q].stage = "user" <=> current' = q
    <2>1. \A q \in Procs \ {p} : procs[q].stage # "user"
      BY <1>9 DEF Sound, Places
    <2>2. procs'[p].stage = "user" <=> current' = p
      BY <1>2, <1>3, <1>4, <1>6, <1>9
    <2>3. \A q \in Procs \ {p} : current' # q
      BY <1>3, <1>9
    <2> QED
      BY <1>7, <2>1, <2>2, <2>3
  <1>11. \A q \in Procs : procs'[q].stage = "fresh" => q \in virgin'
    BY <1>3, <1>6, <1>7 DEF Sound, Places
  <1>12. \A q \in killed' : q \in Procs /\ procs'[q].stage # "free"
    BY <1>6, <1>7 DEF Sound, Places, Alive
  <1>13. KillSeen'
    <2>1. procs'[p].stage = "user" => SIGKILL \notin procs'[p].pending
      BY <1>2, <1>4, <1>6
    <2> QED
      BY <1>3, <1>7, <1>9, <1>10, <2>1 DEF KillSeen
  <1>14. ~EarlyExec => KillWins'
    <2> SUFFICES ASSUME ~EarlyExec, NEW q \in killed'
                 PROVE  SIGKILL \in procs'[q].pending \/ procs'[q].stage = "dead"
      BY DEF KillWins
    <2>1. q \in Procs
      BY DEF Sound
    <2>2. CASE q = p
      BY <1>2, <1>4, <1>6, <2>2
    <2>3. CASE q # p
      <3>1. CASE q \in V
        BY <1>7, <2>1, <2>3, <3>1
      <3>2. CASE q \in killed
        <4>1. procs[q].stage # "free" /\ (SIGKILL \in procs[q].pending \/ procs[q].stage = "dead")
          BY <3>2 DEF Sound, Places, KillWins
        <4>2. ps[q].stage = procs[q].stage /\ procs[q].pending \subseteq ps[q].pending
          BY <2>1, <2>3, <4>1
        <4> QED
          BY <1>7, <2>1, <2>3, <4>1, <4>2
      <3> QED
        BY <3>1, <3>2
    <2> QED
      BY <2>2, <2>3
  <1> QED
    BY <1>3, <1>8, <1>10, <1>11, <1>12, <1>13, <1>14 DEF Sound, Places

\* p gives up the core.
LEMMA LeaveSound ==
  ASSUME Sound, NEW p \in Procs, current = p, NEW r, RecOK(r),
         r.stage \in {"ready", "io", "nap", "suspend", "dead"},
         r.pending = procs[p].pending, Leave(p, r), UNCHANGED <<ttyPgrp, killed>>
  PROVE  Sound'
  <1> DEFINE z == [FreeProc EXCEPT !.stage = "dead"]
             n == IF r.stage = "dead" THEN z ELSE r
  <1>1. RecOK(z) /\ z.stage = "dead"
    BY StageUpdate, FreeOK DEF Stages
  <1> HIDE DEF z
  <1>2. procs' = [q \in Procs |->
                    IF q = p THEN n
                    ELSE IF r.stage = "dead" /\ q = r.ppid /\ procs[q].stage \notin {"free", "dead"}
                    THEN [procs[q] EXCEPT !.pending = procs[q].pending \cup {SIGCHLD}]
                    ELSE procs[q]]
    BY DEF Leave, Put, z
  <1>3. current' = Nobody /\ virgin' = virgin
    BY DEF Leave
  <1>4. procs'[p] = n /\ RecOK(n) /\ n.stage \in {"ready", "io", "nap", "suspend", "dead"}
        /\ (n.stage # "dead" => n.pending = procs[p].pending)
    BY <1>1, <1>2
  <1>5. \A q \in Procs \ {p} :
          /\ RecOK(procs'[q]) /\ procs'[q].stage = procs[q].stage
          /\ procs[q].pending \subseteq procs'[q].pending
    <2> SUFFICES ASSUME NEW q \in Procs \ {p}
                 PROVE  /\ RecOK(procs'[q]) /\ procs'[q].stage = procs[q].stage
                        /\ procs[q].pending \subseteq procs'[q].pending
      OBVIOUS
    <2>1. RecOK(procs[q]) /\ procs[q] \in Proc
      BY DEF Sound, TableOK, RecOK
    <2> DEFINE e == [procs[q] EXCEPT !.pending = procs[q].pending \cup {SIGCHLD}]
    <2>2. procs'[q] = procs[q] \/ procs'[q] = e
      BY <1>2
    <2>3. /\ e \in Proc /\ e.stage = procs[q].stage /\ e.frames = procs[q].frames
          /\ e.blocked = procs[q].blocked /\ e.old = procs[q].old
          /\ e.pending = procs[q].pending \cup {SIGCHLD}
      BY <2>1, SignalsAssumption DEF Proc
    <2> HIDE DEF e
    <2>4. RecOK(e)
      BY <2>1, <2>3 DEF RecOK
    <2> QED
      BY <2>1, <2>2, <2>3, <2>4
  <1> HIDE DEF n
  <1>6. TableOK(procs')
    BY <1>2, <1>4, <1>5 DEF TableOK
  <1>7. \A q \in Procs : procs'[q].stage # "user" /\ q # Nobody
    BY <1>4, <1>5, SignalsAssumption DEF Sound, Places, Nobody
  <1>8. Places'
    BY <1>3, <1>4, <1>5, <1>7 DEF Sound, Places
  <1>9. KillSeen'
    BY <1>7 DEF KillSeen
  <1>10. ~EarlyExec => KillWins'
    <2> SUFFICES ASSUME ~EarlyExec, NEW q \in killed
                 PROVE  SIGKILL \in procs'[q].pending \/ procs'[q].stage = "dead"
      BY DEF KillWins
    <2>1. q \in Procs /\ (SIGKILL \in procs[q].pending \/ procs[q].stage = "dead")
      BY DEF Sound, KillWins
    <2>2. procs[p].stage = "user"
      BY DEF Sound, Places
    <2>3. CASE q = p
      BY <1>4, <2>1, <2>2, <2>3
    <2>4. CASE q # p
      BY <1>5, <2>1, <2>4
    <2> QED
      BY <2>3, <2>4
  <1> QED
    BY <1>3, <1>6, <1>8, <1>9, <1>10 DEF Sound

\* A table that differs from the current one in one sound record.
LEMMA OneRecord ==
  ASSUME TableOK(procs), NEW p \in Procs, NEW r, RecOK(r)
  PROVE  TableOK([procs EXCEPT ![p] = r])
  BY DEF TableOK

\* The same when nobody is sent SIGKILL.
LEMMA ReturnKept ==
  ASSUME Sound, NEW p \in Procs, NEW ps, TableOK(ps), NEW r, RecOK(r),
         current \in {p, Nobody}, Alive(p),
         \A q \in Procs \ {p} :
           \/ ps[q].stage = procs[q].stage /\ procs[q].pending \subseteq ps[q].pending
           \/ procs[q].stage = "free" /\ ps[q].stage = "fresh",
         EarlyExec \/ (SIGKILL \in procs[p].pending => SIGKILL \in r.pending),
         Return(ps, p, r), ttyPgrp' \in Groups \cup {0}, UNCHANGED killed
  PROVE  Sound'
  <1> DEFINE V == {}
  <1>1. V \in SUBSET Procs /\ killed' = killed \cup V /\ \A q \in V : Alive(q)
    OBVIOUS
  <1>2. \A q \in Procs \ {p} :
          /\ \/ ps[q].stage = procs[q].stage /\ procs[q].pending \subseteq ps[q].pending
             \/ procs[q].stage = "free" /\ ps[q].stage = "fresh"
          /\ q \in V => SIGKILL \in ps[q].pending
    OBVIOUS
  <1>3. EarlyExec \/ (p \in killed \cup V => SIGKILL \in r.pending)
    BY DEF Sound, KillWins, Alive
  <1> HIDE DEF V
  <1> QED
    BY <1>1, <1>2, <1>3, ReturnSound

\* A system call of c that changes nothing but its own record, and loses no
\* SIGKILL.
LEMMA CallSound ==
  ASSUME Sound, NEW c \in Procs, current \in {c, Nobody}, Alive(c), NEW r, RecOK(r),
         EarlyExec \/ (SIGKILL \in procs[c].pending => SIGKILL \in r.pending),
         Return(procs, c, r), ttyPgrp' \in Groups \cup {0}, UNCHANGED killed
  PROVE  Sound'
  BY ReturnKept DEF Sound

\* Queueing a signal for the processes of V keeps every record sound.
LEMMA QueuedFacts ==
  ASSUME Sound, NEW V \in SUBSET Procs, NEW sig \in Sigs
  PROVE  /\ TableOK(Queued(V, sig))
         /\ \A q \in Procs : /\ Queued(V, sig)[q].stage = procs[q].stage
                             /\ procs[q].pending \subseteq Queued(V, sig)[q].pending
                             /\ q \in V => sig \in Queued(V, sig)[q].pending
                             /\ q \notin V => Queued(V, sig)[q] = procs[q]
  <1> DEFINE ps == Queued(V, sig)
  <1>1. ps = [q \in Procs |-> IF q \in V THEN [procs[q] EXCEPT !.pending = procs[q].pending \cup {sig}]
                              ELSE procs[q]]
    BY DEF Queued
  <1>2. ASSUME NEW q \in Procs
        PROVE  /\ RecOK(ps[q]) /\ ps[q].stage = procs[q].stage
               /\ procs[q].pending \subseteq ps[q].pending
               /\ q \in V => sig \in ps[q].pending
               /\ q \notin V => ps[q] = procs[q]
    <2>1. RecOK(procs[q]) /\ procs[q] \in Proc
      BY DEF Sound, TableOK, RecOK
    <2> DEFINE e == [procs[q] EXCEPT !.pending = procs[q].pending \cup {sig}]
    <2>2. ps[q] = IF q \in V THEN e ELSE procs[q]
      BY <1>1
    <2>3. /\ e \in Proc /\ e.stage = procs[q].stage /\ e.frames = procs[q].frames
          /\ e.blocked = procs[q].blocked /\ e.old = procs[q].old
          /\ e.pending = procs[q].pending \cup {sig}
      BY <2>1 DEF Proc
    <2> HIDE DEF e, ps
    <2>4. RecOK(e)
      BY <2>1, <2>3 DEF RecOK
    <2> QED
      BY <2>1, <2>2, <2>3, <2>4
  <1>3. TableOK(ps)
    BY <1>1, <1>2 DEF TableOK
  <1> HIDE DEF ps
  <1> QED
    BY <1>2, <1>3 DEF ps

\* Every step keeps the invariant.
LEMMA NextSound == Sound /\ [Next]_vars => Sound'
  <1> SUFFICES ASSUME Sound, [Next]_vars PROVE Sound'
    OBVIOUS
  <1>0. \A c \in Procs : /\ RecOK(procs[c]) /\ procs[c] \in Proc /\ c # Nobody
                         /\ current = c => procs[c].stage = "user" /\ Alive(c)
    BY SignalsAssumption DEF Sound, TableOK, RecOK, Places, Alive, Nobody
  <1>00. ttyPgrp \in Groups \cup {0} /\ TableOK(procs)
    BY DEF Sound
  <1>1. ASSUME NEW c \in Procs, Preempt(c) PROVE Sound'
    <2> DEFINE r == [procs[c] EXCEPT !.stage = "ready"]
    <2>1. RecOK(r) /\ r.stage = "ready" /\ r.pending = procs[c].pending
      BY <1>0, StageUpdate DEF Stages
    <2>2. current = c /\ Leave(c, r) /\ UNCHANGED <<ttyPgrp, killed>>
      BY <1>1 DEF Preempt
    <2> HIDE DEF r
    <2> QED
      BY <2>1, <2>2, LeaveSound
  <1>2. ASSUME NEW c \in Procs, Resume(c) PROVE Sound'
    <2>0. current = Nobody /\ UNCHANGED <<ttyPgrp, killed>>
      BY <1>2 DEF Resume
    <2>1. CASE procs[c].stage = "ready" /\ Return(procs, c, procs[c])
      BY <1>0, <1>00, <2>0, <2>1, CallSound DEF Alive
    <2>2. CASE /\ procs[c].stage = "fresh" /\ procs' = [procs EXCEPT ![c].stage = "user"]
               /\ current' = c /\ UNCHANGED virgin
      <3> DEFINE r == [procs[c] EXCEPT !.stage = "user"]
      <3>1. RecOK(r) /\ r.stage = "user" /\ r.pending = procs[c].pending
        BY <1>0, StageUpdate DEF Stages
      <3>2. procs' = [procs EXCEPT ![c] = r]
        BY <2>2
      <3> HIDE DEF r
      <3>3. TableOK(procs')
        BY <1>00, <3>1, <3>2, OneRecord
      <3>4. procs'[c] = r /\ \A q \in Procs \ {c} : procs'[q] = procs[q]
        BY <1>00, <3>2 DEF TableOK
      <3>5. \A q \in Procs : procs[q].stage # "user"
        BY <1>0, <2>0 DEF Sound, Places
      <3>6. Places' /\ KillSeen'
        BY <1>0, <2>0, <2>2, <3>1, <3>4, <3>5 DEF Sound, Places, KillSeen
      <3>7. ~EarlyExec => KillWins'
        BY <2>0, <2>2, <3>1, <3>4 DEF Sound, KillWins
      <3> QED
        BY <2>0, <2>2, <3>3, <3>6, <3>7 DEF Sound
    <2> QED
      BY <1>2, <2>1, <2>2 DEF Resume
  <1>3. ASSUME NEW c \in Procs, Syscall(c) PROVE Sound'
    BY <1>0, <1>00, <1>3, CallSound DEF Syscall
  <1>4. ASSUME NEW c \in Procs, Sigreturn(c) PROVE Sound'
    <2> DEFINE n == Len(procs[c].frames)
               fs == SubSeq(procs[c].frames, 1, n - 1)
               m == procs[c].frames[n].mask \ {SIGKILL}
               t == [procs[c] EXCEPT !.frames = fs]
               r == [t EXCEPT !.blocked = m]
    <2>1. procs[c].frames \in Seq(Frame) /\ procs[c].frames # <<>> /\ n <= MaxFrames
      BY <1>0, <1>4 DEF Sigreturn, RecOK, Proc
    <2>2. n \in Nat \ {0} /\ procs[c].frames[n] \in Frame
      BY <2>1
    <2>3. /\ fs \in Seq(Frame) /\ Len(fs) = n - 1
          /\ \A i \in DOMAIN fs : i \in DOMAIN procs[c].frames /\ fs[i] = procs[c].frames[i]
      BY <2>1, <2>2
    <2>4. m \in SUBSET Sigs /\ SIGKILL \notin m
      BY <2>2 DEF Frame
    <2>5. current = c /\ Return(procs, c, r) /\ UNCHANGED <<ttyPgrp, killed>>
      BY <1>4 DEF Sigreturn
    <2>6. n - 1 <= MaxFrames
      BY <2>1, <2>2, SignalsAssumption
    <2> HIDE DEF n, fs, m
    <2>9. procs[c] \in Proc /\ fs \in Seq(Frame)
      BY <1>0, <2>3
    <2>10. t \in Proc /\ t.frames = fs /\ t.old = procs[c].old /\ t.pending = procs[c].pending
      BY <2>9 DEF Proc
    <2> HIDE DEF t
    <2>7. /\ r \in Proc /\ r.frames = fs /\ r.blocked = m /\ r.old = procs[c].old
          /\ r.pending = procs[c].pending
      BY <2>4, <2>10 DEF Proc
    <2> HIDE DEF r
    <2>8. RecOK(r)
      BY <1>0, <2>3, <2>4, <2>6, <2>7 DEF RecOK
    <2> QED
      BY <1>0, <1>00, <2>5, <2>7, <2>8, CallSound
  <1>5. ASSUME NEW c \in Procs, Execve(c) PROVE Sound'
    <2> DEFINE a == [s \in Sigs |-> IF procs[c].action[s] = "ign" THEN "ign" ELSE "dfl"]
               f == <<>>
               t == [[procs[c] EXCEPT !.action = a] EXCEPT !.pending = {}]
               r == [t EXCEPT !.frames = f]
    <2>1. current = c /\ Return(procs, c, r) /\ UNCHANGED <<ttyPgrp, killed>>
      BY <1>5 DEF Execve, ExecReset
    <2>8. EarlyExec \/ SIGKILL \notin procs[c].pending
      BY <1>5 DEF Execve, Sound, Places, KillSeen
    <2>2. a \in [Sigs -> Actions \cup {"dfl"}]
      <3>1. \A s \in Sigs : procs[c].action[s] \in Actions \cup {"dfl"}
        BY <1>0 DEF Proc
      <3> QED
        BY <3>1
    <2>3. f \in Seq(Frame) /\ Len(f) = 0 /\ DOMAIN f = {}
      OBVIOUS
    <2> HIDE DEF a, f
    <2>4. procs[c] \in Proc
      BY <1>0
    <2>5. t \in Proc /\ t.blocked = procs[c].blocked /\ t.old = procs[c].old
      BY <2>2, <2>4 DEF Proc
    <2> HIDE DEF t
    <2>6. r \in Proc /\ r.frames = f /\ r.blocked = procs[c].blocked /\ r.old = procs[c].old
      BY <2>3, <2>5 DEF Proc
    <2> HIDE DEF r
    <2>7. RecOK(r)
      BY <1>0, <2>3, <2>6, SignalsAssumption DEF RecOK
    <2> QED
      BY <1>0, <1>00, <2>1, <2>7, <2>8, CallSound
  <1>6. ASSUME NEW c \in Procs, Fork(c) PROVE Sound'
    <2> DEFINE t == [procs[c] EXCEPT !.stage = "fresh"]
               child == [[t EXCEPT !.ppid = c] EXCEPT !.pending = {}]
    <2>1. PICK k \in Procs : procs[k].stage = "free"
                             /\ Return([procs EXCEPT ![k] = child], c, procs[c])
      BY <1>6 DEF Fork
    <2>2. current = c /\ UNCHANGED <<ttyPgrp, killed>>
      BY <1>6 DEF Fork
    <2>10. procs[c] \in Proc
      BY <1>0
    <2>11. /\ t \in Proc /\ t.stage = "fresh" /\ t.frames = procs[c].frames
           /\ t.blocked = procs[c].blocked /\ t.old = procs[c].old
      BY <2>10 DEF Proc, Stages
    <2> HIDE DEF t
    <2>3. /\ child \in Proc /\ child.stage = "fresh" /\ child.frames = procs[c].frames
          /\ child.blocked = procs[c].blocked /\ child.old = procs[c].old
      BY <2>11 DEF Proc
    <2> HIDE DEF child
    <2>4. RecOK(child)
      BY <1>0, <2>3 DEF RecOK
    <2> DEFINE ps == [procs EXCEPT ![k] = child]
    <2>5. TableOK(ps)
      BY <1>00, <2>4, OneRecord
    <2>6. k # c /\ ps[k] = child /\ \A q \in Procs \ {k} : ps[q] = procs[q]
      BY <1>0, <1>00, <2>1, <2>2 DEF TableOK
    <2>8. Return(ps, c, procs[c])
      BY <2>1
    <2> HIDE DEF ps
    <2>9. \A q \in Procs \ {c} :
            \/ ps[q].stage = procs[q].stage /\ procs[q].pending \subseteq ps[q].pending
            \/ procs[q].stage = "free" /\ ps[q].stage = "fresh"
      BY <2>1, <2>3, <2>6
    <2> QED
      BY <1>0, <1>00, <2>2, <2>5, <2>8, <2>9, ReturnKept
  <1>7. ASSUME NEW c \in Procs, Setpgid(c) PROVE Sound'
    <2> DEFINE r == [procs[c] EXCEPT !.pgid = c]
    <2>1. /\ r \in Proc /\ r.frames = procs[c].frames /\ r.blocked = procs[c].blocked
          /\ r.old = procs[c].old /\ r.pending = procs[c].pending
      BY <1>0 DEF Proc
    <2>2. current = c /\ Return(procs, c, r) /\ UNCHANGED <<ttyPgrp, killed>>
      BY <1>7 DEF Setpgid
    <2> HIDE DEF r
    <2>3. RecOK(r)
      BY <1>0, <2>1 DEF RecOK
    <2> QED
      BY <1>0, <1>00, <2>1, <2>2, <2>3, CallSound
  <1>8. ASSUME NEW c \in Procs, Exit(c) PROVE Sound'
    <2> DEFINE r == [procs[c] EXCEPT !.stage = "dead"]
    <2>1. RecOK(r) /\ r.stage = "dead" /\ r.pending = procs[c].pending
      BY <1>0, StageUpdate DEF Stages
    <2>2. current = c /\ Leave(c, r) /\ UNCHANGED <<ttyPgrp, killed>>
      BY <1>8 DEF Exit
    <2> HIDE DEF r
    <2> QED
      BY <2>1, <2>2, LeaveSound
  <1>9. ASSUME NEW c \in Procs, NEW pid \in {0, -1} \cup Procs, NEW sig \in Sigs, Kill(c, pid, sig)
        PROVE  Sound'
    <2> DEFINE V == Victims(c, pid)
               ps == Queued(V, sig)
    <2>1. V \in SUBSET Procs /\ \A q \in V : Alive(q)
      BY DEF Victims
    <2>2. /\ current = c /\ Return(ps, c, ps[c]) /\ ttyPgrp' = ttyPgrp
          /\ killed' = IF sig = SIGKILL THEN killed \cup V ELSE killed
      BY <1>9 DEF Kill
    <2> HIDE DEF V
    <2>3. /\ TableOK(ps)
          /\ \A q \in Procs : /\ ps[q].stage = procs[q].stage
                              /\ procs[q].pending \subseteq ps[q].pending
                              /\ q \in V => sig \in ps[q].pending
      BY <2>1, QueuedFacts
    <2> HIDE DEF ps
    <2>4. RecOK(ps[c])
      BY <2>3 DEF TableOK
    <2>5. EarlyExec \/ (c \in killed => SIGKILL \in ps[c].pending)
      BY <1>0, <2>2, <2>3 DEF Sound, KillWins
    <2>6. CASE sig = SIGKILL
      <3>1. EarlyExec \/ (c \in killed \cup V => SIGKILL \in ps[c].pending)
        BY <2>3, <2>5, <2>6
      <3>2. killed' = killed \cup V
        BY <2>2, <2>6
      <3> QED
        BY <1>0, <1>00, <2>1, <2>2, <2>3, <2>4, <2>6, <3>1, <3>2, ReturnSound
    <2>7. CASE sig # SIGKILL
      <3>1. killed' = killed
        BY <2>2, <2>7
      <3> QED
        BY <1>0, <1>00, <2>2, <2>3, <2>4, <3>1, ReturnKept
    <2> QED
      BY <2>6, <2>7
  <1>10. ASSUME NEW c \in Procs, NEW sig \in Sigs, NEW a \in Actions, Sigaction(c, sig, a)
         PROVE  Sound'
    <2> DEFINE act == [procs[c].action EXCEPT ![sig] = a]
               r == [procs[c] EXCEPT !.action = act]
    <2>1. act \in [Sigs -> Actions \cup {"dfl"}]
      BY <1>0 DEF Proc
    <2>2. current = c /\ Return(procs, c, r) /\ UNCHANGED <<ttyPgrp, killed>>
      BY <1>10 DEF Sigaction
    <2> HIDE DEF act
    <2>3. /\ r \in Proc /\ r.frames = procs[c].frames /\ r.blocked = procs[c].blocked
          /\ r.old = procs[c].old /\ r.pending = procs[c].pending
      BY <1>0, <2>1 DEF Proc
    <2> HIDE DEF r
    <2>4. RecOK(r)
      BY <1>0, <2>3 DEF RecOK
    <2> QED
      BY <1>0, <1>00, <2>2, <2>3, <2>4, CallSound
  <1>11. ASSUME NEW c \in Procs, NEW how \in Hows, NEW set \in Masks, Sigprocmask(c, how, set)
         PROVE  Sound'
    <2> DEFINE b == CASE how = "block"   -> procs[c].blocked \cup set
                      [] how = "unblock" -> procs[c].blocked \ set
                      [] how = "setmask" -> set
               m == b \ {SIGKILL}
               r == [procs[c] EXCEPT !.blocked = m]
    <2>1. procs[c].blocked \in SUBSET Sigs /\ set \in SUBSET Sigs
          /\ how \in {"block", "unblock", "setmask"}
      BY <1>0, SignalsAssumption DEF Proc
    <2>2. m \in SUBSET Sigs /\ SIGKILL \notin m
      BY <2>1
    <2>3. current = c /\ Return(procs, c, r) /\ UNCHANGED <<ttyPgrp, killed>>
      BY <1>11 DEF Sigprocmask
    <2> HIDE DEF m
    <2>4. /\ r \in Proc /\ r.frames = procs[c].frames /\ r.blocked = m
          /\ r.old = procs[c].old /\ r.pending = procs[c].pending
      BY <1>0, <2>2 DEF Proc
    <2> HIDE DEF r
    <2>5. RecOK(r)
      BY <1>0, <2>2, <2>4 DEF RecOK
    <2> QED
      BY <1>0, <1>00, <2>3, <2>4, <2>5, CallSound
  <1>12. ASSUME NEW c \in Procs, NEW g \in Groups, Tcsetpgrp(c, g) PROVE Sound'
    BY <1>0, <1>12, CallSound DEF Tcsetpgrp
  <1>13. ASSUME NEW c \in Procs, NEW how \in Sleeps, Block(c, how) PROVE Sound'
    <2> DEFINE r == [procs[c] EXCEPT !.stage = how]
    <2>0. how \in {"io", "nap"}
      BY SignalsAssumption
    <2>1. how \in Stages
      BY <2>0 DEF Stages
    <2>3. RecOK(r) /\ r.stage = how /\ r.pending = procs[c].pending
      BY <1>0, <2>1, StageUpdate
    <2>2. current = c /\ Leave(c, r) /\ UNCHANGED <<ttyPgrp, killed>>
      BY <1>13 DEF Block
    <2> HIDE DEF r
    <2> QED
      BY <2>0, <2>2, <2>3, LeaveSound
  <1>14. ASSUME NEW c \in Procs, Complete(c) \/ Interrupt(c) PROVE Sound'
    <2>1. /\ current = Nobody /\ Alive(c) /\ Return(procs, c, procs[c])
          /\ UNCHANGED <<ttyPgrp, killed>>
      BY <1>14 DEF Complete, Interrupt, Alive
    <2> QED
      BY <1>0, <1>00, <2>1, CallSound
  <1>15. ASSUME NEW c \in Procs, NEW set \in Masks, Sigsuspend(c, set) PROVE Sound'
    <2> DEFINE m == set \ {SIGKILL}
               r == [[procs[c] EXCEPT !.blocked = m] EXCEPT !.old = procs[c].blocked]
               s == [r EXCEPT !.stage = "suspend"]
    <2>1. m \in SUBSET Sigs /\ SIGKILL \notin m
      BY SignalsAssumption
    <2>2. /\ current = c /\ UNCHANGED <<ttyPgrp, killed>>
          /\ Return(procs, c, procs[c]) \/ Leave(c, s)
      BY <1>15 DEF Sigsuspend
    <2> HIDE DEF m
    <2>3. /\ r \in Proc /\ r.frames = procs[c].frames /\ r.blocked = m
          /\ r.old = procs[c].blocked /\ r.pending = procs[c].pending
      BY <1>0, <2>1 DEF Proc
    <2> HIDE DEF r
    <2>4. RecOK(r)
      BY <1>0, <2>1, <2>3 DEF RecOK
    <2>5. RecOK(s) /\ s.stage = "suspend" /\ s.pending = procs[c].pending
      BY <2>3, <2>4, StageUpdate DEF Stages
    <2> HIDE DEF s
    <2>6. CASE Return(procs, c, procs[c])
      BY <1>0, <1>00, <2>2, <2>6, CallSound
    <2>7. CASE Leave(c, s)
      BY <2>2, <2>5, <2>7, LeaveSound
    <2> QED
      BY <2>2, <2>6, <2>7
  <1>16. ASSUME NEW c \in Procs, SuspendWake(c) PROVE Sound'
    <2> DEFINE r == [[procs[c] EXCEPT !.blocked = procs[c].old] EXCEPT !.old = {}]
    <2>1. /\ current = Nobody /\ Alive(c) /\ Return(procs, c, r) /\ UNCHANGED <<ttyPgrp, killed>>
      BY <1>16 DEF SuspendWake, Alive
    <2>2. /\ r \in Proc /\ r.frames = procs[c].frames /\ r.blocked = procs[c].old
          /\ r.old = {} /\ r.pending = procs[c].pending
      BY <1>0 DEF Proc
    <2> HIDE DEF r
    <2>3. RecOK(r)
      BY <1>0, <2>2 DEF RecOK
    <2> QED
      BY <1>0, <1>00, <2>1, <2>2, <2>3, CallSound
  <1>17. ASSUME NEW c \in Procs, ConsoleInt(c) PROVE Sound'
    <2> DEFINE V == ConsoleVictims(c)
    <2>1. V \in SUBSET Procs
      BY DEF ConsoleVictims, Victims
    <2>2. current = Nobody /\ procs' = Queued(V, SIGINT) /\ UNCHANGED <<current, ttyPgrp, killed, virgin>>
      BY <1>17 DEF ConsoleInt
    <2> HIDE DEF V
    <2>3. /\ TableOK(procs')
          /\ \A q \in Procs : /\ procs'[q].stage = procs[q].stage
                              /\ procs[q].pending \subseteq procs'[q].pending
      BY <2>1, <2>2, QueuedFacts, SignalsAssumption
    <2>4. Places' /\ KillSeen'
      BY <1>0, <2>2, <2>3 DEF Sound, Places, KillSeen
    <2>5. ~EarlyExec => KillWins'
      BY <2>2, <2>3 DEF Sound, KillWins
    <2> QED
      BY <2>2, <2>3, <2>4, <2>5 DEF Sound
  <1>18. CASE UNCHANGED vars
    BY <1>18 DEF vars, Sound, TableOK, Places, KillSeen, KillWins
  <1> QED
    BY <1>1, <1>2, <1>3, <1>4, <1>5, <1>6, <1>7, <1>8, <1>9, <1>10, <1>11, <1>12, <1>13,
       <1>14, <1>15, <1>16, <1>17, <1>18 DEF Next

\* The first process, spawned by the boot task.
LEMMA InitSound == Init => Sound
  <1> SUFFICES ASSUME Init PROVE Sound
    OBVIOUS
  <1>1. First \in Procs
    <2>1. Procs \in SUBSET Nat /\ Procs # {}
      BY SignalsAssumption
    <2>2. First = Lowest(Procs)
      BY DEF First, Lowest
    <2> QED
      BY <2>1, <2>2, LowestIn
  <1> DEFINE f == [FreeProc EXCEPT !.stage = "fresh"]
             g == [f EXCEPT !.pgid = First]
  <1>2. RecOK(f) /\ f.stage = "fresh"
    BY FreeOK, StageUpdate DEF Stages
  <1>3. procs = [p \in Procs |-> IF p = First THEN g ELSE FreeProc]
    BY DEF Init
  <1> HIDE DEF f
  <1>4. /\ g \in Proc /\ g.stage = "fresh" /\ g.frames = f.frames /\ g.blocked = f.blocked
        /\ g.old = f.old
    BY <1>1, <1>2 DEF RecOK, Proc
  <1> HIDE DEF g
  <1>5. RecOK(g)
    BY <1>2, <1>4 DEF RecOK
  <1>6. TableOK(procs) /\ \A p \in Procs : procs[p].stage \in {"fresh", "free"}
                                           /\ (procs[p].stage = "fresh" => p = First)
    BY <1>3, <1>4, <1>5, FreeOK DEF TableOK, FreeProc
  <1>7. \A p \in Procs : p # Nobody
    BY SignalsAssumption DEF Nobody
  <1> QED
    BY <1>1, <1>6, <1>7 DEF Init, Sound, Places, KillSeen, KillWins

\* SIGKILL is never in a mask, and ring 3 never runs with a SIGKILL pending
\* unless the process has not crossed a delivery point since it was forked
\* (sigprocmask, set_blocked, block_for_handler, deliver_current).
THEOREM KillSafety == Spec => [](TypeOK /\ KillUnblocked /\ KillSeen)
  <1>1. Sound => TypeOK /\ KillUnblocked /\ KillSeen
    <2> SUFFICES ASSUME Sound PROVE TypeOK /\ KillUnblocked
      BY DEF Sound
    <2>1. \A p \in Procs : RecOK(procs[p])
      BY DEF Sound, TableOK
    <2>2. TypeOK
      BY <2>1 DEF Sound, TableOK, TypeOK, RecOK
    <2>3. KillUnblocked
      BY <2>1 DEF KillUnblocked, RecOK
    <2> QED
      BY <2>2, <2>3
  <1> QED
    BY <1>1, InitSound, NextSound, PTL DEF Spec

\* As long as no child calls execve before any other system call, a SIGKILL that
\* was queued stays pending until the process is dead (queue_slot, clone_task,
\* dequeue, and signal_reset_for_exec behind a delivery point).
THEOREM KillPersists == ASSUME ~EarlyExec PROVE Spec => []KillWins
  <1>1. Sound => KillWins
    BY DEF Sound
  <1> QED
    BY <1>1, InitSound, NextSound, PTL DEF Spec

=============================================================================
