-------------------------------- MODULE Tty --------------------------------
(***************************************************************************)
(* The console line discipline (kernel-core/src/tty.rs).  User tasks read  *)
(* the console; the kernel shell, which started the first of them, polls   *)
(* the same byte source once that one is gone.  A reader keeps the CPU     *)
(* from call to return or sleep.  A byte is its meaning and the number of  *)
(* the keystroke; echo and the flags that only change it are left out.     *)
(***************************************************************************)
EXTENDS Naturals, Sequences

CONSTANTS Readers, First,  \* user tasks; the one the kernel shell waits for
          Keys,            \* what can be typed
          Modes,           \* settings given to termios_set
          MidLine,         \* may settings change while a line is half typed
          Lens,            \* buffer sizes given to read
          LineMax, PendMax,
          MaxTyped         \* bound on keystrokes

ASSUME TtyAssumption ==
  /\ First \in Readers /\ LineMax \in Nat \ {0} /\ PendMax > LineMax
  /\ Keys \subseteq {"a", "b", "newline", "erase", "bs", "kill", "intr", "eof", "susp"}

VARIABLES attrs,     \* ICANON and the control characters: [canon, isig, intr, erase]
          line, pend, eof_once,
          input,     \* bytes the source holds
          typed,     \* keystrokes so far
          at,        \* what each task does: idle, reads, sleeps, gone
          want,      \* the buffer size of its read
          ret,       \* what the last read returned
          sig,       \* tasks with a pending signal that is neither blocked nor ignored
          interrupt  \* history: number of the last ^C that was taken

disc == <<line, pend, eof_once, sig, interrupt>>
vars == <<attrs, disc, input, typed, at, want, ret>>

Byte == [key : Keys, n : 1 .. MaxTyped]
None == "none"
Defaults == [canon |-> TRUE, isig |-> TRUE, intr |-> "intr", erase |-> "erase"]

Init ==
  /\ attrs = Defaults /\ line = <<>> /\ pend = <<>> /\ eof_once = FALSE
  /\ input = <<>> /\ typed = 0 /\ at = [r \in Readers |-> "idle"]
  /\ want = [r \in Readers |-> 0] /\ ret = <<>> /\ sig = {} /\ interrupt = 0

\* One-time defaults: control characters without an interrupt key are set anew.
EnsureDefaults(a) ==
  IF a.intr = None THEN [a EXCEPT !.intr = Defaults.intr, !.erase = Defaults.erase] ELSE a

Type(k) ==
  /\ typed < MaxTyped /\ typed' = typed + 1
  /\ input' = Append(input, [key |-> k, n |-> typed + 1])
  /\ UNCHANGED <<attrs, disc, at, want, ret>>

\* Nobody is inside a read: the CPU is free for another task.
Quiet == \A r \in Readers : at[r] # "reads"

Goto(r, to) == at' = [at EXCEPT ![r] = to]

TermiosSet(r, mode) ==
  /\ at[r] = "idle" /\ Quiet /\ (MidLine \/ line = <<>>)
  /\ attrs' = mode /\ UNCHANGED <<disc, input, typed, at, want, ret>>

ReadCall(r, len) ==
  /\ at[r] = "idle" /\ Quiet
  /\ attrs' = EnsureDefaults(attrs)
  /\ Goto(r, "reads") /\ want' = [want EXCEPT ![r] = len]
  /\ UNCHANGED <<disc, input, typed, ret>>

PushPend(bytes) ==
  pend' = SubSeq(pend \o bytes, 1, IF Len(pend \o bytes) < PendMax THEN Len(pend \o bytes) ELSE PendMax)

Live == {r \in Readers : at[r] # "gone"}

\* Mutant: ^C leaves the unfinished line where it is.
SignalledKeeps(b) ==
  /\ \E group \in SUBSET Live : sig' = sig \cup group
  /\ pend' = <<>> /\ interrupt' = b.n /\ UNCHANGED <<line, eof_once>>

\* ^C: both buffers are dropped and the foreground group gets SIGINT.
Signalled(b) ==
  /\ \E group \in SUBSET Live : sig' = sig \cup group
  /\ line' = <<>> /\ pend' = <<>> /\ interrupt' = b.n /\ UNCHANGED eof_once

Erase ==
  /\ line' = SubSeq(line, 1, Len(line) - 1) /\ UNCHANGED <<pend, eof_once, sig, interrupt>>

Discard == line' = <<>> /\ UNCHANGED <<pend, eof_once, sig, interrupt>>

EndOfFile ==
  /\ \/ line # <<>> /\ PushPend(line) /\ line' = <<>> /\ UNCHANGED eof_once
     \/ line = <<>> /\ eof_once' = TRUE /\ UNCHANGED <<line, pend>>
  /\ UNCHANGED <<sig, interrupt>>

CompleteLine(b) ==
  /\ PushPend(Append(line, b)) /\ line' = <<>>
  /\ UNCHANGED <<eof_once, sig, interrupt>>

\* A line that is full takes no further byte.
Insert(b) ==
  /\ line' = IF Len(line) < LineMax THEN Append(line, b) ELSE line
  /\ UNCHANGED <<pend, eof_once, sig, interrupt>>

Raw(b) == PushPend(<<b>>) /\ UNCHANGED <<line, eof_once, sig, interrupt>>

\* The tests of feed in their order; ^Z and backspace are not settings.
Meaning(k, a) ==
  IF a.isig /\ k = a.intr THEN "intr"
  ELSE IF k = "susp" /\ ~a.isig THEN "data"
  ELSE IF k \in {"bs", a.erase} /\ k # "susp" THEN "erase"
  ELSE IF k \in {"susp", "kill", "eof", "newline"} THEN k ELSE "data"

Cook(b, what) ==
  \/ what = "intr" /\ Signalled(b)
  \/ what \in {"susp", "kill"} /\ Discard
  \/ what = "erase" /\ Erase
  \/ what = "eof" /\ EndOfFile
  \/ what = "newline" /\ CompleteLine(b)
  \/ what = "data" /\ Insert(b)

Feed(b) ==
  /\ attrs' = EnsureDefaults(attrs)
  /\ IF attrs'.canon THEN Cook(b, Meaning(b.key, attrs')) ELSE Raw(b)

\* The call returns; pending signals are taken on the way out of the kernel.
Return(r, bytes) ==
  /\ ret' = bytes /\ Goto(r, "idle") /\ want' = [want EXCEPT ![r] = 0]
  /\ sig' = sig \ {r}

\* Mutant: the rest is not moved to the front.
TakeUnshifted(r) ==
  LET n == IF Len(pend) < want[r] THEN Len(pend) ELSE want[r]
  IN /\ at[r] = "reads" /\ pend # <<>>
     /\ Return(r, SubSeq(pend, 1, n)) /\ pend' = SubSeq(pend, 1, Len(pend) - n)
     /\ UNCHANGED <<attrs, line, eof_once, interrupt, input, typed>>

\* Completed bytes are taken, up to the buffer's size.
Take(r) ==
  LET n == IF Len(pend) < want[r] THEN Len(pend) ELSE want[r]
  IN /\ at[r] = "reads" /\ pend # <<>>
     /\ Return(r, SubSeq(pend, 1, n)) /\ pend' = SubSeq(pend, n + 1, Len(pend))
     /\ UNCHANGED <<attrs, line, eof_once, interrupt, input, typed>>

ReturnEof(r) ==
  /\ at[r] = "reads" /\ pend = <<>> /\ eof_once
  /\ eof_once' = FALSE /\ Return(r, <<>>)
  /\ UNCHANGED <<attrs, line, pend, interrupt, input, typed>>

\* Mutant: the source is emptied before the completed bytes are looked at again.
PollAll(r) ==
  /\ at[r] = "reads" /\ input # <<>>
  /\ Feed(Head(input)) /\ input' = Tail(input)
  /\ UNCHANGED <<typed, at, want, ret>>

Poll(r) ==
  /\ at[r] = "reads" /\ pend = <<>> /\ ~eof_once /\ input # <<>>
  /\ Feed(Head(input)) /\ input' = Tail(input)
  /\ UNCHANGED <<typed, at, want, ret>>

\* Mutant: the sleep is not ended by a signal.
NothingTypedDeaf(r) ==
  /\ at[r] = "reads" /\ pend = <<>> /\ ~eof_once /\ input = <<>>
  /\ Goto(r, "sleeps") /\ UNCHANGED <<attrs, disc, input, typed, want, ret>>

\* Nothing to feed: a signal ends the read, else the task sleeps a tick.
NothingTyped(r) ==
  /\ at[r] = "reads" /\ pend = <<>> /\ ~eof_once /\ input = <<>>
  /\ \/ r \in sig /\ Return(r, <<>>)
     \/ r \notin sig /\ Goto(r, "sleeps") /\ UNCHANGED <<sig, ret, want>>
  /\ UNCHANGED <<attrs, line, pend, eof_once, interrupt, input, typed>>

Wake(r) ==
  /\ at[r] = "sleeps" /\ Quiet
  /\ Goto(r, "reads") /\ UNCHANGED <<attrs, disc, input, typed, want, ret>>

\* A signal from another task.
Signal(r) ==
  /\ at[r] # "gone" /\ r \notin sig /\ Quiet
  /\ sig' = sig \cup {r}
  /\ UNCHANGED <<attrs, line, pend, eof_once, interrupt, input, typed, at, want, ret>>

Exit(r) ==
  /\ at[r] = "idle" /\ Quiet
  /\ Goto(r, "gone") /\ sig' = sig \ {r}
  /\ UNCHANGED <<attrs, line, pend, eof_once, interrupt, input, typed, want, ret>>

\* The kernel shell waits for First, then reads the source itself.
ShellPoll ==
  /\ at[First] = "gone" /\ Quiet /\ input # <<>>
  /\ input' = Tail(input) /\ UNCHANGED <<attrs, disc, typed, at, want, ret>>

Step(r) == Take(r) \/ ReturnEof(r) \/ Poll(r) \/ NothingTyped(r) \/ Wake(r)

Next ==
  \/ \E k \in Keys : Type(k)
  \/ \E r \in Readers :
       \/ Step(r) \/ Signal(r) \/ Exit(r)
       \/ \E len \in Lens : ReadCall(r, len)
       \/ \E mode \in Modes : TermiosSet(r, mode)
  \/ ShellPoll

Spec == Init /\ [][Next]_vars

\* A reader inside a call goes on, and the timer wakes a sleeper.
FairSpec == Spec /\ \A r \in Readers : SF_vars(Step(r))

-----------------------------------------------------------------------------

\* Type invariant; a completed line always fits the pending buffer, so push_pend
\* never drops a byte: the discipline is fed only when nothing is pending.
TypeOK ==
  /\ attrs \in Modes \cup {Defaults, EnsureDefaults(attrs)} /\ eof_once \in BOOLEAN
  /\ line \in Seq(Byte) /\ Len(line) <= LineMax
  /\ pend \in Seq(Byte) /\ Len(pend) <= LineMax + 1
  /\ input \in Seq(Byte) /\ ret \in Seq(Byte)
  /\ sig \subseteq Readers /\ at \in [Readers -> {"idle", "reads", "sleeps", "gone"}]

\* "returns one canonical line" (tty.rs:224): what a read returns has a newline, if
\* any, only at its end, whatever was typed ahead and whoever read part of it before.
OneLine == \A i \in 1 .. Len(ret) : ret[i].key = "newline" => i = Len(ret)

\* After ^C nothing that was typed before it is delivered any more: the line under
\* construction and the completed bytes are both newer.
Discarded ==
  \A q \in {line, pend} : \A i \in 1 .. Len(q) : q[i].n > interrupt

\* No byte is delivered twice or after one typed later: the last read's bytes, the
\* completed ones, the line and the source follow each other as typed.
InOrder ==
  LET all == ret \o pend \o line \o input
  IN \A i, j \in 1 .. Len(all) : i < j => all[i].n < all[j].n

\* A signal ends a read that has nothing to return.
Interrupted == \A r \in Readers : (at[r] = "sleeps" /\ r \in sig) ~> at[r] \in {"idle", "gone"}

\* "only one of the two readers is active at a time" (tty.rs:7): while the kernel
\* shell polls the source no task is inside a console read.
OneReader == at[First] = "gone" => \A r \in Readers : at[r] \notin {"reads", "sleeps"}

\* "One-time defaults" (tty.rs:75): what termios_set stored stays until the next one.
SettingsKept ==
  [][attrs' # attrs => \E r \in Readers, mode \in Modes : TermiosSet(r, mode)]_vars

=============================================================================
