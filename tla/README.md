# fantuan-kernel: TLA+ models, checks and proofs

TLA+ models of the process, memory, file-descriptor and console core of fantuan-kernel, the TLC
configurations that check them on small instances, and TLAPS proofs of their most important
invariants. Every definition is translated from the Rust source; `PROJECT.json` maps each one to its lines.

## The system

The kernel runs on **one core**. Three facts of the code shape every model:

* system calls enter through an interrupt gate and run with interrupts off until they sleep, so the
  stretch between two sleeps is one step;
* kernel tasks, and the boot task in slot 0 that runs the kernel shell, run with interrupts *on*, so
  another task may run between any two of their critical sections;
* shared tables are guarded by `IrqLock`, which turns interrupts off around a spin lock.

Inventory (S = source directory `src/kernel-core/src`):

| Part | Source | Module | Status |
|---|---|---|---|
| Task table, round robin, sleep, exit, reaping | S/task.rs | Tasks | `schedule()` is one step |
| Process ids, groups, zombies, fork, wait4 | S/process/{identity,lifecycle,group}.rs | Tasks | modelled; no `setpgid` during a wait |
| Signals: kill, masks, delivery, sigreturn, sigsuspend | S/signal.rs, S/process/sigstate.rs | Signals | modelled |
| Descriptors, open objects, pipe ends | S/vfs/fd.rs, S/vfs/pipe.rs | Fds | modelled |
| Pipe bytes, read and write loops | S/vfs/pipe.rs, S/vfs/posix.rs | Pipe, ByteStream | modelled |
| Physical frames | S/frame.rs | Frame, FrameScan, FramePool | modelled |
| Page tables, heap, mmap areas, spawn/fork/exec/exit | S/brk.rs, S/process/vma.rs, kernel/src/arch/x86_64 | AddressSpace | x86_64, two levels for four |
| IrqLock and event rings | S/arch.rs, S/input_ring.rs, S/graphics/event.rs | EventRing, DropQueue | modelled |
| Console line discipline | S/tty.rs, S/input.rs | Tty | modelled, without echo |
| tmpfs, path and directory calls | S/vfs/{tmpfs,tmpfs_file,posix_path,dir,io}.rs | | planned |
| Damage, dumb buffers, framebuffers, CRTC | S/graphics | | planned |
| Disk imager | S/imager | | planned |
| FAT32 writer, ESP boot repair | S/vfs/fat*.rs, S/bootrepair | | planned |
| NVRAM boot entries | S/bootrepair/nvram*.rs | | planned |
| ext4, NTFS, partitions, ELF, device tree | S/vfs, S/elf.rs, S/fdt.rs | | planned, as pure operators |
| Storage, keyboard and mouse drivers | drivers/c, kernel/src | | planned |
| Network glue (locks, sleep queues, DHCP, NIC rings) | kernel-net | | planned |
| TLS, hashes, big integers | kernel/src/crypto, kernel-net | | long bit strings: out of reach |
| Diagnostics, shell text, boot loaders, ports, libc | | | I/O, text, hardware; see `PROJECT.json` |

`third_party/` is vendored NetBSD and mbed TLS code and is not this project's subject.

## How the parts meet

`Tasks` gives every other module its notion of a step and, by the property `Served`, the fairness they
assume. `Signals` adds what happens at the return to user mode. `Fds` counts who holds a pipe end and
`Pipe` says what the bytes do once the ends are counted. `AddressSpace` uses the allocator only through what
`FramePool` promises (any free frame), and `Frame` is shown to promise that. `Tty` uses a
signal only as "pending and neither blocked nor ignored", the test `pending_handled` makes.

## Modules

* **Tasks** has a slot table (`state`, `wake`, `isUser`), the process table `procs`, `current`, the
  clock and the program counters `wait` of `wait4`, whose two critical sections are separate steps because
  the boot task may lose the core between them. `ledger` is a history variable: each id's exit status is
  owed, paid or excused.
* **Signals** keeps one record per process (pending, blocked, actions, handler frames, where it is in
  the kernel). Delivery is part of every step that returns to ring 3. `killed` and `virgin` are history.
* **Fds** models the per-task descriptor tables, the shared object table with its 8-bit reference count
  (`RefMod`, small in the runs), and pipe ends; `task` sleepers remember the number of a pipe across a sleep.
* **Pipe** models the ring buffer and the chunk loops. **ByteStream** is the bounded FIFO it implements.
* **Frame** takes each allocator call as one step; **FrameScan** runs the same loops one iteration at a
  time and implements `Frame`; **FramePool** is what callers may rely on. It says what a request for
  *n* frames is really promised: `scan_run` does not join a run across the cursor, so it may be refused
  unless 2*n*-1 consecutive frames are free.
* **AddressSpace** models roots, tables and pages as frames, with each failure exit of spawn, fork,
  execve, mmap and brk. `lost` is history: the frames a failure exit gives up.
* **EventRing** takes `IrqLock` instruction by instruction with an interrupt possible at each; **DropQueue** is
  the queue it implements (the oldest event is dropped).
* **Tty** models `feed` and `read` over one byte source, with several readers, signals and the kernel shell.
* **MC\*** modules only hold values for constants and symmetry sets. **\*Proofs** hold the proofs.

## Runs

Passing runs, with what they show and why their bounds suffice:

| Run | Shows | Bounds |
|---|---|---|
| tasks_family | tables agree, no status lost, no freed slot is run, and a mark is always for a status that was returned | 4 slots, 3 ids: a grandparent chain, an orphan and a sibling; every kind of `wait4` argument; the boot task does not wait |
| tasks_live | ready tasks run, waits return, zombies are freed | the boot task waits too; 3 slots, 3 ids, so that slots are used again |
| signals | SIGKILL is never masked, missed or overtaken; a handler is not re-entered unless user code unblocks its signal | 2 processes, 3 signals, room for 2 handler frames: one handler interrupted by another, a third without room; only interruptible sleeps; no child execs before any other call |
| signals_live | SIGKILL ends a process whatever it sleeps in | 2 processes that ignore, mask and suspend |
| fds | reference counts are exact, pipe ends match descriptors, no task disturbs another's, sleepers keep their pipe, nothing leaks | 3 interchangeable tasks, 2 descriptors each, 3 objects, 1 pipe: every table fills and is reused |
| pipe | bytes arrive in order, once, within the bound (refinement of ByteStream); nobody sleeps for ever when the other side is gone; signals end a sleep | buffer 3, chunk 2, writes of 1 and 4: below and above both limits, 2 writers |
| frame | bitmaps and counter agree; the scan loops compute what Frame says and end; refinement of FramePool | 8 frames with a hole and a boot-table frame in it, requests of 0, 1, 2, 3 and more than there are |
| space | no frame has two uses, every frame is free, in use or named as lost, areas stay apart and inside their range | 10 frames, two plain tasks' worth, so that every allocation can be the one that fails; areas of 3 pages, the least that split; a second task that only forks, execs and exits |
| ring | the lock is never contended; the ring is a DropQueue; the flag is restored; calls return | capacity 3, 7 events: the ring wraps and overflows twice |
| tty | a read returns one line at most; nothing survives ^C; no byte is repeated or overtaken; signals end a read | lines of 1, 3 keystrokes: a full line and its newline plus one typed ahead; settings change only between lines |

Deadlock checking is off where the system may really stop: users close everything and exit (`pipe`,
`signals*`, `tty`), or the kernel panics (`space`).

Two runs state what the repository says and show that the code differs. Their findings are in `PROJECT.json`:

* `tasks_shell_hang`: the kernel shell waits for ever when another `schedule()` reaps its child first.
* `signals_exec_kill`: execve as a child's first call erases a pending SIGKILL.

### Other differences between the code and what is written about it

Each has a definition in its module that TLC finds violated under the constants given here. They are kept
out of the standing runs.

| Definition | Constants | What the code does |
|---|---|---|
| Tasks `WaitedPaid` | `BootWaits` | `wait4` finds and marks in two critical sections (lifecycle.rs:98); the boot task can mark the next user of the slot |
| Tasks `KernelTaskReaped` | any | a kernel task has no process, so `reap_exited` (task.rs:364) never frees it; M13_GRAPHICS.md:197 says it "is reaped" |
| Tasks `SleptToDeadline` | any | with no Ready task `schedule()` returns to the sleeper (task.rs:290); DESIGN.md:154 says it wakes "by tick deadline" |
| Signals `EintrHandled` | `Actions` with `"ign"` | EINTR for a signal set to SIG_IGN (sigstate.rs:103); the comment says "handled" |
| Signals `SuspendDelivers` | `AnyMask` | the old mask is back before delivery (signal.rs:149), so the waking signal stays pending |
| Signals `ConsoleForeground` | `Groups` with 1 | foreground group 1 becomes `kill(-1)`, everybody (group.rs:70) |
| Fds `Undisturbed` | `RefMod` below the number of descriptors | the 8-bit `refs` wraps (fd.rs:139): 16 tables of 32 can name an object 512 times |
| Fds `StdioOpen` | objects used up | `init_task` leaves the table empty (fd.rs:198) |
| Pipe `ReadReturns` | `Lens` above `Chunk` | a read that got exactly whole chunks sleeps with the bytes (posix.rs:87) |
| Frame `FirstFit` | any | "First-fit" (frame.rs:141) is next fit |
| AddressSpace `CloneFreed`, `ForkRefused`, `SpawnFreed` | few frames | a failed clone or spawn loses its tree (user.rs:129, task/mod.rs:269); a missing table frame panics (user.rs:58) |
| AddressSpace `EagerFrames`, `Forgotten`, `ProtAgrees`, `RegionsApart` | small areas | an area outlives a failed `mmap2` (vma.rs:72), a refused split (vma.rs:97), a partial `mprotect` (vma.rs:124); the heap grows into the areas (brk.rs:53) |
| Tty `InOrder` | `MidLine`, `RawToo` | a line begun before raw mode is overtaken (tty.rs:147) |
| Tty `SettingsKept`, `OneReader` | a mode without `intr`; any | a zero VINTR resets all control characters (tty.rs:78); a descendant reads while the shell polls (tty.rs:7) |

Bounds that are not the code's: `MaxId`, `MaxSent`, `MaxEvents`, `MaxTyped` (length of a history),
`MaxSleep` (longest sleep in ticks), `MaxFrames` (room for handler frames). Table sizes are constants,
smaller in the runs than in the code; the proofs cover every size.

## Fairness

* Tasks: time passes (weak, `Clock`); kernel code inside a wait goes on (weak); a timer interrupt held off by
  a system call stays latched and is taken on the way back to ring 3 (strong, `Preempt`). User code need
  do nothing.
* Signals, Pipe, Tty: a ready or sleeping task is resumed (strong); `Served` of Tasks is the
  justification. No read, wait or system call is assumed to complete or to be made.
* FrameScan, EventRing: the CPU executes its next instruction (weak); the handler returns.

## Proofs

All for every value of the constants that satisfies the module's named assumption.

* `TasksProofs.CoreSafety`: types, agreement of the two tables, unique ids, and no execution on a freed
  slot. The inductive invariant `Core` adds that slot 0 is never given up (else `current` could be
  reaped), that ids come from the counter and parents are older (else a fresh id could collide), and
  that only live tasks wait.
* `TasksProofs.StatusSafety`: no owed status is lost, if the boot task does not wait
  (it fails otherwise, see above). The strengthening `Accounts` places every owed status in a
  zombie with a living parent and says that the zombie a scan found is still there when it is marked.
* `SignalsProofs.KillSafety`, `KillPersists`: SIGKILL is in no mask, saved masks in handler frames
  included; ring 3 is never entered through a delivery point with one pending; and, when no child execs
  before any other call (`EarlyExec` is false), a queued SIGKILL stays until death. `Sound` adds where each process is.
* `FrameProofs.PoolSafety`, `FrameIsPool`: types and accounts are inductive together; the refinement
  rests on `NoLongRun`: when neither half of the scan finds *n* free frames, no 2*n*-1 consecutive ones are free.
* `EventRingProofs.LockNeverSpins`, `FlagComesBack`: `LockInv` ties the lock to the program counters and
  the interrupt flag to the window between save and restore; neither fact is inductive alone.

Only model-checked: all liveness (the prover has no fairness), the refinements of ByteStream and DropQueue
and of Frame by FrameScan, and everything about Fds, Pipe, AddressSpace and Tty.

## Plan

1. `Sched`: `schedule()` step by step with nested ticks in kernel tasks; `setpgid` during `wait4`; sleep overflow.
2. `Tmpfs` under `Fds`: unlinked open nodes, slot reuse, rename into a descendant, the pool that is never reclaimed.
3. `Kms` over `FramePool`: handles, framebuffers and the CRTC with the lock dropped in between; `Damage` as an
   algorithm: the list covers everything added.
4. `Imager`: hash, copy and verify passes over disks whose sectors fail intermittently; a verified
   outcome means an equal or declared-partial copy; cancellation.
5. `FatWrite` with a crash between any two sector writes, then `BootInstall` over it (the old configuration or the
   new one can always be read), and `NvramRepair` with refused variables.
6. Storage command and NIC descriptor rings; locks, sleep queues and soft interrupts of the network shim; DHCP.
7. Pure algorithms against reference definitions: run lists, fixups, extents, 8.3 names, scan codes, memory map.
8. Proofs: exact reference counts of Fds, Pipe implements ByteStream, EventRing implements DropQueue, exclusive frames of
   AddressSpace, in-order delivery of Tty.
