# A TLA+ development for xv6-riscv

This directory holds TLA+ models of the xv6 kernel in `src/kernel/` and of its
shell, the TLC configurations that check them on small instances, and TLAPS
proofs. Definitions carry the name of the C function they translate;
`PROJECT.json` maps each of them to its lines, and lists the parts of the
system with their status and the hazards the properties are about.

To check a run: `tlc -config MCLog.cfg MCLog`. To check the proofs of a module:
`tlapm LogProofs.tla`, and likewise `LogRefinement`, `SchedProofs`,
`ProcLifeProofs`, `BcacheProofs`, `PipeProofs`, `TtyProofs` and `Rings`.

## The system and its models

| Part | What is hard | Module | Implements |
|---|---|---|---|
| Spinlocks and interrupt state (`spinlock.c`, traps) | an interrupt between any two instructions; threads that change CPU inside a critical section | `Spinlock` | |
| Scheduler, sleep and wakeup, sleep locks (`proc.c`, `sleeplock.c`) | lost wakeups, a process on two CPUs, starvation | `Sched` | |
| Process life cycle (`proc.c`, `user/init.c`) | parent and child exit together; slots and kernel stacks are reused | `ProcLife` | |
| Log (`log.c`) | power failure between any two block writes, group commit, log space | `Log` | `AtomicDisk` |
| Buffer cache (`bio.c`) | recycling against concurrent lookups, pinned buffers | `Bcache` | `BlockStore` |
| Disk driver (`virtio_disk.c`) | out-of-order completion, 16-bit indices, a racing acknowledgement | `VirtioDisk` | |
| Inodes, directories, path calls (`fs.c`, `sysfile.c`) | reference counts against link counts, undo on error paths, lock order | `Names` | |
| Contents of files (`fs.c`, `file.c`) | a full disk or a bad user buffer half way; transactions of bounded size | `FileData` | |
| Memory (`kalloc.c`, `vm.c`, `exec.c`) | running out of memory at any page of fork, exec or sbrk | `Vm` | `AddrSpace` |
| Pipes (`pipe.c`) | shared ends, counter wrap, killed processes | `Pipe` | `ByteQueue` |
| Console and UART (`console.c`, `uart.c`) | the interrupt handler edits the line that readers take, and echoes on the register that writers use | `Tty` | `Terminal` |
| Shell, descriptors, file table (`user/sh.c`, `file.c`, `sysfile.c`) | descriptors shared by fork, pipelines that wait for each other, system calls that fail half way | `ShellParser`, `Shell` | |

The parts interact as follows. A file-system call brackets its work with
`begin_op`/`end_op` (log) and reads and changes buffers (buffer cache) whose
contents move through the disk driver. Every wait is a `sleep`/`wakeup`, every
critical section a spinlock. A shell forks processes that share open files,
pipes and the console. Each model takes from the ones below only what those
promise:

* `Spinlock` shows that critical sections exclude each other and interrupts.
  The modules above make code under a spinlock a single step, or several where
  another process, device or `kill()` can act in between.
* `Sched` shows that `sleep` and `wakeup` lose nothing and that sleep locks
  exclude. The modules above release the lock and sleep in one step, and wake
  all sleepers in one step.
* `VirtioDisk` shows that a transfer is over when the call returns; `Bcache`
  and `Log` make a block transfer one step.
* `Bcache` shows that a block has one buffer, which keeps its contents while it
  is referenced; `Log` and `FileData` rely on it.
* `Log` shows that a transaction is atomic; `Names` and `FileData` therefore
  have no crashes of their own.
* `Pipe` shows that a pipe is a queue that wakes its users; in `Shell` a pipe is
  a bounded counter with two ends that may be open.

In every module a program counter (`pc`, `kpc`, or in `Shell` the sequence
`code[p]` of operations still to do) says where a process stands. An action is
the code from there to the next point where somebody else can intervene; a loop
over all slots under one lock is one action. A definition that a comment calls a
mutant is a deliberately broken variant of the one below it: replacing the good
one by it makes TLC report a violation, which shows that the property looks at
that code. Variables called ghosts record history for a property and influence
nothing.

## How the state corresponds to the code

* `Log`: `disk`, `dlog`, `dhead` are the home blocks, the log blocks and the
  header on disk; `lh`, `outstanding`, `committing` are the fields of `log`;
  `cache` and `pin` are the buffers. `phase` and `tail` say how far a commit or a
  recovery is. `Crash` resets everything but the disk.
* `Sched`: `plock` and `lk` name the CPU that holds the spinlock, because
  `p->lock` passes from a process to the scheduler through `swtch()`.
* `ProcLife`: `state`, `pid`, `parent`, `killed`, with `wait_lock` held across
  steps. An exiting process keeps its `p->lock` until the scheduler has left its
  stack.
* `Bcache`: `refcnt`, `valid`, the block of each buffer, the LRU list, the
  buffers' sleep locks. A holder is one use of a buffer, from `bread()` to
  `brelse()`; a process that holds two buffers is two holders. The client is the
  file system's discipline: a changed buffer is pinned or written before it is
  released.
* `Spinlock`: `intr`, `noff`, `intena` of each CPU, the locks with their owners,
  and the code that each context still has to run, with a trap handler above it
  when it was interrupted. System calls, device interrupts, the clock with its
  `wakeup()` and `yield()` are such code; a scheduler and a `wakeup()` visit the
  slots in any order and any number of times, which includes the loops of the
  code. `sie` is a ghost: what the code last made of the interrupt flag itself.
* `VirtioDisk`: the free descriptors, the two rings with their wrapping indices,
  `disk.info`, `b->disk`; the device is an external actor.
* `Names`: the inode table (`ref`, the sleep locks), the inodes on disk (type,
  `nlink`) and the directory entries. Paths are sequences of elements. The kernel
  stops in the panics of `iget()`, `ilock()` and `sys_unlink()`; that only the
  first, for want of an entry, happens is part of `LinksCovered`.
* `FileData`: the bitmap, the block maps in memory and on disk, and blocks of
  `BSIZE` units. An address in an indirect block is a unit like a byte. Offsets
  and lengths count modulo `UINT`, for the overflow tests of `readi` and `writei`.
  What a byte of a file should be depends on its offset alone: an overwrite with
  the same bytes shows nothing.
* `Vm`: a page table is a function from the nodes of its tree to entries, so that
  every page-table page is a page that can be missing. `sys_exec()` takes the
  pages of its arguments one at a time and may fail after each.
* `Tty`: `cons` and the transmit ring with wrapping indices, the FIFO, `LSR` and
  the interrupt line of the 16550 (external). Each register access is a step.
* `Shell`: `ofile`, `ref`, `obj` are the descriptor tables and `ftable`.
  `runcmd()` compiles a tree into the operations that the process performs.
  `job` is a ghost: the line, and the place in its tree, that a process works on.
  Besides `echo` and `cat` there are three programs that are not in `user/`
  (`StandIn`): they call `pipe()` and `open()` with too few free descriptors, and
  `pipe()` with an address outside their memory, to reach the undo paths of
  `sysfile.c`.

## Runs

| Run | Instance | What holds |
|---|---|---|
| `log_crash` | 2 processes, 2 blocks, a log of 2 blocks | `LogInv`; `Durable`: an idle log has lost nothing; `CrashAtomic`: refines `AtomicDisk`; `LogProgress`: sleepers are woken, commits and recoveries finish |
| `sched` | 3 processes, 2 CPUs | `SleepMutex`, `NoLostWakeup`, `SwtchSafe`, and the liveness properties `RunnableRuns`, `FreeLockTaken` |
| `proc_life` | init and 2 slots, 5 pids | `ParentAlive`, `ZombieNoticed`, `NotFreedOnCpu`; `OrphanReaped` |
| `bcache` | 3 holders, 3 blocks, 2 buffers | `BuffersExact`; `CacheCoherent`: refines `BlockStore` |
| `pipe` | 2 writers, 1 reader, 2 bytes of buffer | `PipeAwake`; `Fifo`: refines `ByteQueue`; `CallReturns` |
| `spinlock` | 2 CPUs, 2 threads, 3 locks | `LocksSound`, `IntrRestored` |
| `virtio` | 4 processes, 8 descriptors (2 requests) | `DescsAccounted`, `TransferDone`, `WaiterServed` |
| `names` | 2 processes, 3 inodes, a table of 2 or 3 entries, 7 calls | `RefsExact`, `LinksCovered`, `NoLeak`, `IputWontBlock` |
| `filedata` | 2 processes, 2 files, 4 blocks | `BlocksAccounted`, `ReadBack`, `TransactionFits` |
| `vm` | 2 processes, 20 pages, three-level tables | `PagesExact`; `AddressSpaces`: refines `AddrSpace` |
| `tty` | 2 readers, 1 writer, rings of 2, 6 scripts of keys | `OutputIntact`, `TxAlive`, `ReaderAwake`; `LineDiscipline`: refines `Terminal` |
| `shell` | 5 slots, 5 files, 5 descriptors | `ParseCorrect`, `FilesExact`, `RunsAsWritten`; `LineDone` |

The comment above each property says what it means and which lines it is about.

Why the bounds are enough for the interesting cases:

* Log: two calls are enough for group commit, absorption, and a sleeper in
  `begin_op()`; two blocks enough for a crash between log writes and between
  installations. The log runs full, so that the panic of `log_write()` happens.
* Scheduler: with three processes on two CPUs one is always without a CPU, one can
  hold the lock, one can sleep, and a slot before and one after the releaser's
  exists for `wakeup()`.
* Buffers: fewer than blocks, so recycling happens, with one or both pinned; and
  fewer than holders, so that `bget()` finds none and panics.
* Spinlocks: two CPUs, two threads and one lock that handlers take as well.
  Interrupts come between any two steps with interrupts on; a handler is not
  interrupted, since no handler switches interrupts on.
* Counters and indices wrap at `W`, `UINT`, `UINT64`: small multiples of the
  buffers' sizes, so that the wrap is reached in a few operations. That the real
  modulus is a multiple of the size too is an `ASSUME`.
* Disk driver: room for two requests and four processes, so that two wait and
  one of them, giving back what it could get, wakes the other.
* Names: two names and one subdirectory, both processes on the same ones; the
  inodes run out. The table has as many entries as there are inodes, or one
  less, so that it runs out too. `link()` is not called once a file has
  `MaxLinks` links: more of them, which only entries of removed directories can
  make, repeat what fewer show.
* Files: `NDIRECT` is 1, so writes reach the indirect block; two bitmap blocks;
  the disk is smaller than the two files. Writes are of one unit, or of five, which
  `filewrite()` cuts into three transactions; a transaction of `MAXOPBLOCKS` blocks
  is reached. One read has the largest length, which overflows.
* Memory: as much as two processes and half of a third image need, so that each
  allocation is one that can fail.
* Console: rings of two characters and of two bytes, and a FIFO of two bytes; the
  indices wrap at four. The scripts contain each kind of key, and `Start` puts the
  indices of the input just before their wrap. More writers are left to the proof.
* Shell: every line of up to three tokens over seven, with at most one pipe or
  background job, and longer ones chosen for blocks, lists, redirections,
  three-stage pipelines and errors. Processes, files and descriptors run out, and
  memory may run out in every `pipe()` and every `fork()`. After a failed `fork()`
  `RunsAsWritten` no longer speaks of the order of commands.

Symmetry is used for processes, readers, CPUs, threads, blocks or files where the
definitions do not tell them apart, and in no run with a liveness property.

`CHECK_DEADLOCK FALSE` stands in three configurations: in `MCProcLife`, where the
bound on pids and init's panic end the run; in `MCTty`, where typing ends; in
`MCShell`, where the shell ends.

## Fairness

* `Log`: a process inside a call goes on, and so does a commit or recovery.
  Admission by `begin_op()` is not assumed fair, and `LogProgress` speaks of
  executions in which the power eventually stays on.
* `Sched`: every CPU keeps executing. A timer interrupt stays pending until it is
  taken, hence strong fairness of `yield()`. `FreeLockTaken` also assumes that a
  CPU spinning on a spinlock gets it, which the hardware and not `spinlock.c`
  provides; the assumption is written in the property.
* `ProcLife` and `Pipe`: a process inside the kernel runs on and gets the spinlock
  it waits for (strong fairness, as `Sched` explains). `init` keeps calling
  `fork` and `wait`, as its program does. In `Pipe` a program goes on using its end
  until it closes it, and does not pass a bad buffer forever.
* `Shell`: weak fairness of the whole next-state relation: somebody moves while
  somebody can. No fairness between processes is needed, because every line
  consists of finitely many operations.

## Proofs

A theorem holds for every value of the constants that satisfies the `ASSUME` of
its module; none of them uses fairness. Each proof has the same shape. The
properties are not inductive as they stand, so a conjunction that is inductive
was found, checked by TLC on the run's instance, and proved to hold initially
and to be preserved by every action, one step per action.

### Log: `LogProofs`, `LogRefinement`

For any number of processes, blocks and values, any log size and any number of
blocks per call (`LogAssumption`). `LogInv` is the inductive invariant:

* `CallsInv`: `outstanding` counts the calls in progress, and a commit runs only
  when there is none. Without it a commit could meet a call half done.
* `HeaderInv`: the header on disk names blocks only between the commit point and
  the erase, and each block once. Without it recovery could replay an old log.
* `CacheInv`: a buffer differs from its home block only if the log has the block,
  and the log keeps the buffers it still has to write. Without it a recycled
  buffer could lose a change.
* `ProgressInv`: what `write_log()` has copied and `install_trans()` has
  installed so far. Without it a crash in the middle could not be followed.

From `LogInv` follow `TypeCorrect`, `DurableHolds`, `LogFitsHolds` (the log never
extends past its area), `WriteAheadHolds` (a home block changes only to what the
committed log holds for it) and `SleeperHasWakerHolds` (a sleeper in
`begin_op()` has somebody who will wake it). `CrashAtomicHolds` is the refinement:
with `stable` as what recovery would make of the disk and `mem` as what the
kernel sees, every step of `Log` is a step of `AtomicDisk` or leaves its state
alone. The commit is `write_head`; all other steps of a commit, and all steps
of a recovery, change nothing in the abstract state.

### Scheduler and sleep locks: `SchedProofs`

For any number of processes and CPUs. `SchedInv` adds to `SleepMutex`, `OneCpu` and
the types:

* `CpuInv`: what `p->lock` and `p->state` are at each place where a process can
  stand on a CPU, and while the scheduler takes it off. Without it the handover
  of `p->lock` through `swtch()` cannot be followed.
* `OffInv`: `p->lock` is held only for the CPU that `p` is on, and a process on no
  CPU stands behind the `swtch()` of `sched()`.
* `LkInv`: `lk->lk` is held exactly by the CPU whose process is in a section of it.
* `SleepInv`: a process is watched, by the holder of the sleep lock or by a
  `wakeup()` that has yet to reach its slot, from the moment it lets go of
  `lk->lk`. `NoLostWakeup` speaks only of processes already asleep and says nothing
  of one between the release and the change of state.

`SleepMutexHolds`, `NoLostWakeupHolds` and `SwtchSafeHolds` follow.

### Process life cycle: `ProcLifeProofs`

For any number of slots and any bound on pids. `ProcInv` ties the program counter
of a process to its state (`StateInv`), a child under construction to the one
`fork()` that makes it (`ForkInv`), a parent to its children across `reparent()`
(`ParentInv`), `wait_lock` to its holder (`LockInv`), and a sleeper in `wait()`, or one
about to sleep, to children that are no zombies (`WaitInv`). `ParentAliveHolds`, `ZombieNoticedHolds` and
`NotFreedOnCpuHolds` follow.

### Buffer cache: `BcacheProofs`

For any number of holders, blocks and buffers. `BcacheInv`:

* `OneBuffer`: no two buffers have the same block number. Two lookups of one block
  would otherwise each find a buffer.
* `RefInv`: `refcnt` counts the users and the pin.
* `PinInv`: a pinned block is in the cache, and the pins are within `MaxPins`.
* `LockInv`: who is between `bread()` and `brelse()` holds the buffer's sleep lock, and
  the contents are valid once they are read.
* `CleanInv`: a buffer that nobody is changing and nobody has pinned equals its
  block on disk, so that `bget()` may recycle it.

`BuffersExactHolds` also says when `bget()` may panic: only while the buffers held
and the blocks pinned are together at least `NBUF`, so that no buffer is lost to a
reference that nobody has. The lemma `NoneLeft` maps each buffer to a holder or to
a pinned block. With the constants of `param.h` the panic is possible (see
`bio.c:88` below). `CacheCoherentHolds` is the refinement of `BlockStore`.

### Pipes: `Rings`, `PipeProofs`

For any number of writers and readers, any `PIPESIZE` and any range `W` of the
counters that is a larger multiple of it (`PipeAssumption`; 2^32 and 512 in the
code). `PipeInv` consists of the types, `LockInv` (who holds `pi->lock`), `TestedInv`
(what a process tested is still true when it acts on it) and `AwakeInv` (a sleeper
who could go on is about to be woken by the holder of `pi->lock`). `PipeAwakeHolds` follows. For the refinement of `ByteQueue`
(`FifoHolds`) there is `RingInv`: `nwrite - nread`, modulo `W`, is at most `PIPESIZE`.
Arithmetic modulo a constant that is not a numeral is beyond the SMT solver;
`Rings` proves the few facts about `%` that wrapping indices need, from the
definition of quotient and remainder.

### Console and UART: `TtyProofs`

For any number of readers and writers, any sizes of the rings, any script of keys,
and a FIFO of at least two bytes (`TtyAssumption`; the 16550 has 16). `TtyInv` adds to
`TxAlive`, `ReaderAwake` and the types that `uart_tx_lock` and `cons.lock` have one holder
(`TxLockInv`, `ConsLockInv`), and `FifoInv`: of the two contexts that may have seen the
same `LSR_TX_IDLE`, the echo and the holder of `uart_tx_lock`, each has room for its
byte. `TxAliveHolds`, `ReaderAwakeHolds` and `NothingDropped` follow.

`OutputIntactHolds` numbers the bytes of a writer by their `Turn`, how many of its
bytes leave the machine before. `OutInv` is inductive together with `TtyInv`:
`CountInv` bounds the indices and what the buffer holds, `HandInv` says that at most
one byte of the writers is out of the buffer and that it is the next of its
writer to leave, `BufferInv` that the buffer holds the turns that follow, each once
and in order. A range `UINT64` of the indices larger than the buffer and one more byte
(`TtyAssumption`; 2^64 and 32 in the code) keeps the turns apart.

`LineDisciplineHolds` is the refinement of `Terminal`. `LineInv` says that `r`, `w` and `e`
follow each other within `INPUT_BUF_SIZE` characters, and that the line under
edition holds no end of line, so that control-U goes back to `w`; the lemmas `ViewAppend`, `ViewConcat` and `ViewSub` say what
storing, handing over and taking a character do to the sequences that the ring
stands for, wrap included.

### Only model-checked

* Liveness: `LogProgress`, `RunnableRuns`, `FreeLockTaken`, `OrphanReaped`, `CallReturns`,
  `LineDone`. They need fairness and `ENABLED`.
* What recursive definitions compute, which needs induction over data: the
  shell's parser (`ParseCorrect`).
* The modules `Spinlock`, `VirtioDisk`, `Names`, `FileData`, `Vm` and `Shell`.

## What the code does not promise

These are places where a reader may expect more than the code gives. The models
contain the behaviour; no property claims the contrary.

* `proc.c:427-433`: a `kill()` between the `killed()` test and the `sleep()` of
  `wait()` wakes nobody, and the victim sleeps until its child exits. The same
  shape is in `pipe.c`, `sysproc.c` and `console.c`.
* `proc.c:592`: `kill(0)` finds a free slot, whose pid is 0, and succeeds.
* `init.c:29`: `init` exits if its `fork()` fails, and `proc.c:352` panics.
* `log.c:220`: `begin_op()` reserves space in a log of `LOGSIZE` blocks, but the
  area that `mkfs` makes has one block less for data (`param.h:9-10`,
  `mkfs.c:25`). Calls within their limit can meet the panic.
* `bio.c:88`: the log may pin as many buffers as there are (`NBUF` equals
  `LOGSIZE`); `bget()` panics if none is left.
* `fs.c:267`: there may be more open files (`NFILE`) than entries of the inode table
  (`NINODE`); `iget()` panics if none is left.
* `pipe.c:84-87`: a writer that is killed after part of its bytes returns without
  waking the readers. They see the bytes when the next write or close wakes them.
* `fs.c:313`: `..` of a removed directory that is still somebody's current
  directory may name a free inode, and a walk through it panics. The run of `Names`
  walks no `..`.
* `sysfile.c:246`: a file created or linked in a directory that is removed at the
  same time is lost with the directory. `NoLeak` makes this exception explicit.
* `fs.c:352`: between the two halves of an `iput()` that frees an inode, the entry
  still has a reference while the inode is already free on disk; an `ialloc()` in
  between shares the entry, and the inode can be left allocated. The other
  exception in `NoLeak`.
* `fs.c:344`: a file that was removed while open is not freed after a crash.
* `fs.c:522`: a copy from user memory that fails half way leaves the part that was
  copied in a buffer that is not logged.
* `fs.c:426` (`itrunc()`): a file is freed in one transaction, which writes every
  bitmap block that its blocks are spread over. `mkfs` makes one bitmap block, the
  instance of `FileData` has two; with ten of them the transaction could outgrow
  `MAXOPBLOCKS`.
* The shell: of two redirections of one descriptor the first is the one in
  effect; `>>` does not append, since the kernel has no such mode; the shell
  itself exits if its `fork()` fails. `RunsAsWritten` and the reference grammar
  say what the code does here.

## Not modelled

* Boot, the interrupt controller, the entry and exit of traps
  (`start.c`, `main.c`, `plic.c`, `entry.S`, `trampoline.S`, `kernelvec.S`): register
  accesses in a fixed order. What traps do to interrupts, processes and the
  console is in `Spinlock`, `ProcLife` and `Tty`.
* `printf.c`, `string.c`, `ulib.c`, user `printf.c`: formatting and copying.
* `copyin`, `copyinstr`, argument fetching: they only read. That they may fail is a
  choice in the calls that use them.
* The tick counter and `sys_sleep`: `sleep()` in a loop. (The clock interrupt, with
  its lock and its `wakeup()`, is in `Spinlock`.) `stati`, `filestat`, `procdump` only
  read.
* `umalloc.c`: sequential code on the heap of one process.
* `mkfs.c`: writes an image once; only the size of the log is used.
* `ramdisk.c`: not built.
* The user programs other than `init`, `sh`, and `cat` and `echo` as the
  shell runs them. The tests served as documentation of what is promised.
* Weak memory: every access is sequentially consistent. The code orders its
  accesses by `__sync_synchronize()` and by the acquire and release of spinlocks.
* Several disks, several mounted systems, and failing disks: there is one disk, and
  a block write happens entirely or not at all.
